SPECIFICATION MCSpec
CONSTANTS
  None = None
  Handlers = {h1, h2}
  Focuses = {"keys", "package", "verifier", "panel", "form", "lists", "lookups", "texts", "submissions"}
  KeyIds = {x1, x2}
  Sites = {y1, y2}
  TornFile = TornFile
  Filters = {x1, x2}
  Artifacts = {m1}
  Sizes = {1, 2}
  Missing = Missing
  MaxPolls = 1
  f1 = f1
  f2 = f2
  p1 = p1
  p2 = p2
  d1 = d1
  d2 = d2
  Files = {f1, f2}
  Images = {f2}
  Passages = {p1, p2}
  WindowsOf <- MCWindowsOf
  Leaves <- MCLeaves
  Ids = {x1, x2}
  MaxLinks = 2
  Asked = Asked
  Docs = {x1, x2}
  Records = {r1, r2}
  Titles = {y1, y2}
  Rows = {1, 2, 3}
  PageSize = 1
  RecentLimit = 1
  MarksUsed <- MCMarksUsed
  Payloads = {x1, x2}
  MaxLeaves = 2
  MaxCandidates = 2
  PerMinute = 1
  LastMinute = 1
  PdfTries = 2
  Documents <- MCDocuments
  Window = 2
  Stride = 1
  MinTokens = 3
  Contents = {f1, f2}
  Windows = {d1}
  Slots = {x1, x2}
  Names = {y1, y2}
  Large = {f2}
SYMMETRY MCSymmetry
INVARIANTS
  MCTypeOK
  SavedKeyWorks
  PackageChecks
  VerdictIsOfShown
  PanelIsOfSelected
  SentAsShown
  LookupsTrue
  PassageFound
  SubmissionsTrue
PROPERTIES
  ListsTrue
CHECK_DEADLOCK FALSE
