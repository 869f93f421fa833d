SPECIFICATION MCSpec
CONSTANTS
  k1 = k1
  k2 = k2
  k3 = k3
  k4 = k4
  k5 = k5
  k6 = k6
  Requests = {r1, r2}
  Keys = {k1, k2, k3, k4, k5, k6}
  RouteOf <- MCRouteOf
  Bodies = {b1, b2}
  Rows = {x1, x2}
  None = None
  MaxDeaths = 1
  Jobs = {x1}
  Workers = {w1, w2}
  Cleaners = {c1}
  MaxTries = 2
  MaxStalls = 1
  MaxFaults = 2
INVARIANTS
  OneAnswerPerKey
  BundlesMatchRows
PROPERTIES
  ExportSettles
CHECK_DEADLOCK FALSE
