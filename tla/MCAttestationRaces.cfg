SPECIFICATION Spec
CONSTANTS
  Attempts = {a1, a2}
  Manifests = {good, bad}
  ValidManifests = {good}
  Packages = {p1, p2}
  Requests = {r1, r2}
  Processes = {w1}
  Jobs = {j1, j2}
  None = None
  MaxTries = 2
  MaxStalls = 1
  MaxDeaths = 0
  MaxFaults = 0
SYMMETRY Symmetric
INVARIANTS
  ConfirmedContentValid
  PointersResolve
CHECK_DEADLOCK FALSE
