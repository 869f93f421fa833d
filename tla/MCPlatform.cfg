SPECIFICATION MCSpec
CONSTANTS
  None = None
  Uncapped = Uncapped
  Handlers = {h1, h2}
  Focuses = {"access", "links", "merkle", "accounts", "identities", "pairing", "members", "plan", "desktop", "window", "paging"}
  People = {u1}
  Grants = {g1, g2}
  MaxRequests = 2
  Receipts = {t1}
  Packages = {t2}
  Links = {l1, l2, l3}
  MaxLeaves = 7
  Owners = {p1, p2}
  Sessions = {s1, s2}
  Tokens = {k1, k2}
  MaxPasswords = 2
  States = {a1, a2}
  Subjects = {x1, x2}
  Codes = {c1, c2}
  DeviceKeys = {b1, b2}
  Devices = {d1, d2}
  Members = {m1, m2}
  Users = {v1, v2}
  Workspaces = {w1, w2}
  Invitations = {i1, i2}
  MaxEdits = 2
  Slugs = {q1, q2, q3}
  Labels = {f1, f2, f3}
  ProjectCap = 1
  PerProjectCap = 1
  MonthlyCap = 1
  Profiles = {r1, r2}
  Places = {z1, z2}
  Torn = Torn
  Spaces = {y1, y2}
  Lists = {"projects"}
  Entries = {e1, e2, e3, e4}
  Instants = {1, 2, 3}
  PageSizes = {1, 3}
  PageCap = 2
  OffsetCap = 2
SYMMETRY MCSymmetry
INVARIANTS
  MCTypeOK
  ProofsVerify
  RotationLeavesOne
  AccountsTrue
  OrgAdminKept
  WithinCap
  StoredIsChosen
  ActsWhereShown
  WalkReturnsAll
PROPERTIES
  OneGrantOneAnswer
  PairingFinal
CHECK_DEADLOCK FALSE
