CONSTANTS
  front = front
  loop = loop
  s1 = s1
  s2 = s2
  Caller = {front, loop}
  Managers = {front}
  Users = {loop}
  Seed = {s1, s2}
  MaxRotations = 1
  MaxPeerQueues = 2
  MaxTroubles = 1
SPECIFICATION Spec
INVARIANTS
  KeyFits
  NeverLockedOut
  AddressIsDrained
PROPERTY
  RotationRecovers
