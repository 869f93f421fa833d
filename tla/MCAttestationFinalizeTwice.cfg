SPECIFICATION Spec
CONSTANTS
  Attempts = {a1}
  Manifests = {good}
  ValidManifests = {good}
  Packages = {p1}
  Requests = {r1}
  Processes = {w1}
  Jobs = {j1, j2}
  None = None
  MaxTries = 3
  MaxStalls = 1
  MaxDeaths = 0
  MaxFaults = 0
PROPERTIES
  ConfirmedIsImmutable
CHECK_DEADLOCK FALSE
