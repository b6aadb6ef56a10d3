CONSTANTS
  None = None
  Given <- Either
  Managed = TRUE
SPECIFICATION Spec
INVARIANTS
  AddressIsAsGiven
  
  OnlyTheServerAnswers
  NotLostOnTheRoad
PROPERTIES
  Reconnects
