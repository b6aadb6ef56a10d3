CONSTANTS
  a = a
  b = b
  c = c
  k1 = k1
  k2 = k2
  Device = {a, b, c}
  Founder = a
  First = b
  Second = c
  Keys = {k1, k2}
  NoKey = NoKey
  MaxActive = 2
  Budget = 1
  Revocable = {b, c}
  Busy = {}
  MaxEpoch = 1
  MaxSyncs = 0
SPECIFICATION Spec
SYMMETRY Symmetry
PROPERTIES IdentityPinned ImplementsMembership
