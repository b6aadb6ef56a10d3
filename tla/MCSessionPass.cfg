CONSTANTS
  a = a
  b = b
  End = {a, b}
  Starters = {a}
  MaxSealed = 2
  MaxTroubles = 1
SPECIFICATION Spec
INVARIANTS
  SessionFitsPeer
  
  

  
