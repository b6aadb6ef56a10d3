CONSTANTS
  x = x
  y = y
  None = None
  Phone = {x, y}
  MaxDevices = 4
  MaxTroubles = 2
SPECIFICATION Spec
INVARIANTS
  HandedBackIsPublished
  ClientIsOwn
  LearnedKeysAreTheDevices
PROPERTY
  EveryPhoneEnrols
