SPECIFICATION MCSpec
CONSTANTS
  None = None
  Uncapped = Uncapped
  Handlers = {h1}
  Focuses = {"members"}
  People = {u1}
  Grants = {g1, g2}
  MaxRequests = 2
  Receipts = {t1}
  Packages = {t2}
  Links = {l1, l2, l3}
  MaxLeaves = 7
  Owners = {p1, p2}
  Sessions = {s1, s2}
  Tokens = {k1, k2}
  MaxPasswords = 2
  States = {a1, a2}
  Subjects = {x1, x2}
  Codes = {c1, c2}
  DeviceKeys = {b1, b2}
  Devices = {d1, d2}
  Members = {m1, m2}
  Users = {v1, v2}
  Workspaces = {w1, w2}
  Invitations = {i1, i2}
  MaxEdits = 2
  Slugs = {q1, q2}
  Labels = {f1, f2}
  ProjectCap = 1
  PerProjectCap = 1
  MonthlyCap = 1
  Profiles = {r1}
  Places = {z1}
  Torn = Torn
  Spaces = {y1}
  Lists = {"projects"}
  Entries = {e1}
  Instants = {1}
  PageSizes = {1}
  PageCap = 1
  OffsetCap = 1
PROPERTY
  AcceptedHasAccess
CHECK_DEADLOCK FALSE
