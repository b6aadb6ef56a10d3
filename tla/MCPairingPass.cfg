CONSTANTS
  m = m
  p = p
  j = j
  Device = {m, p, j}
  Founder = m
  Dishonest = {p}
  MaxTroubles = 1
SPECIFICATION Spec
INVARIANTS
  RouteIsOwners
PROPERTIES
  
  EveryPairGoesLive
