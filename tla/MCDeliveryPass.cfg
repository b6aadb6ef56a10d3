CONSTANTS
  a = a
  b = b
  c = c
  Device = {a, b, c}
  Liars = {c}
  Newer = {a}
  Traffic <- Talk
  Wishes <- SharesAndAllows
  MaxQueued = 2
  MaxUnder = 1
  MaxTroubles = 1
SPECIFICATION Spec
INVARIANTS
  OnlyWhatWasGranted
  LedgerTellsConsent

  
  
