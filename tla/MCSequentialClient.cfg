SPECIFICATION SeqSpec
CONSTANTS
  Attempts = {a1, a2}
  Manifests = {good, bad}
  ValidManifests = {good}
  Packages = {p1, p2, p3}
  Requests = {r1}
  Processes = {w1}
  Jobs = {j1, j2}
  None = None
  MaxTries = 2
  MaxStalls = 1
  MaxDeaths = 1
  MaxFaults = 2
INVARIANTS
  OutcomesAgree
PROPERTIES
  ConfirmedIsImmutable
  FollowsLifecycle
  FinalizedIsDecided
  ConfirmedGetsReceipt
CHECK_DEADLOCK FALSE
