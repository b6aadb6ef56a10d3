CONSTANTS
  a = a
  b = b
  c = c
  k1 = k1
  Device = {a, b, c}
  Founder = a
  First = b
  Second = c
  Keys = {k1}
  NoKey = NoKey
  MaxActive = 3
  Budget = 1
  Revocable = {}
  Busy = {}
  MaxEpoch = 1
  MaxSyncs = 1
SPECIFICATION Spec
SYMMETRY Symmetry
INVARIANTS NoFalseEviction 
PROPERTY ImplementsMembership
