SPECIFICATION Spec
CONSTANTS
  Writers = {w1, w2}
  Admins = {w1, w2}
  Events = {e1, e2, e3}
  None = None
  MaxDeaths = 0
INVARIANTS
  CheckpointsTile
CHECK_DEADLOCK FALSE
