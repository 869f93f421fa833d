SPECIFICATION FairSpec
CONSTANTS
  Endpoints = {ep1, ep2}
  Deliveries = {d1, d2}
  Producers = {p1}
  Processes = {w1}
  None = None
  MaxTries = 2
  MaxStalls = 1
  MaxDeaths = 1
  MaxFaults = 2
INVARIANTS
  StatusIsTrue
PROPERTIES
  DeliveredIsFinal
  DeliverySettles
CHECK_DEADLOCK FALSE
