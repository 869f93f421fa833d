SPECIFICATION FairSpec
CONSTANTS
  Writers = {w1, w2, w3}
  Admins = {w1}
  Events = {e1, e2, e3, e4}
  None = None
  MaxDeaths = 1
INVARIANTS
  ChainIntact
  CheckpointsMatchChain
PROPERTIES
  AppendsLand
  AppendsEnd
CHECK_DEADLOCK FALSE
