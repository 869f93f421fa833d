SPECIFICATION SeqSpec
CONSTANTS
  Attempts = {a1}
  Manifests = {good}
  ValidManifests = {good}
  Packages = {p1, p2}
  Requests = {r1}
  Processes = {w1}
  Jobs = {j1, j2}
  None = None
  MaxTries = 3
  MaxStalls = 1
  MaxDeaths = 0
  MaxFaults = 1
PROPERTIES
  EveryConfirmationGetsReceipt
CHECK_DEADLOCK FALSE
