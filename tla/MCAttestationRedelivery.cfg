SPECIFICATION Spec
CONSTANTS
  Attempts = {a1, a2}
  Manifests = {good}
  ValidManifests = {good}
  Packages = {p1, p2}
  Requests = {r1}
  Processes = {w1, w2}
  Jobs = {j1, j2}
  None = None
  MaxTries = 2
  MaxStalls = 1
  MaxDeaths = 1
  MaxFaults = 2
SYMMETRY Symmetric
INVARIANTS
  ReceiptBindsConfirmedAttempt
PROPERTIES
  ImplementsRegister
CHECK_DEADLOCK FALSE
