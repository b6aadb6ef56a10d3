CONSTANTS
  a = a
  b = b
  c = c
  k1 = k1
  Device = {a, b, c}
  Founder = a
  First = b
  Second = c
  Keys = {k1}
  NoKey = NoKey
  MaxActive = 3
  Budget = 1
  Revocable = {}
  Busy = {a}
  MaxEpoch = 1
  MaxSyncs = 0
SPECIFICATION Spec
SYMMETRY Symmetry
INVARIANT TombstoneWins
PROPERTY ImplementsMembership
