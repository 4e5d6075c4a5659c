SPECIFICATION PartSpec
CONSTANTS
  p1 = p1 p2 = p2 h1 = h1 h2 = h2 m = m n = n
  r1 = r1 r2 = r2 v1 = v1 v2 = v2 x = x y = y
  Procs = {p1, p2}
  Hashes = {h1, h2}
  Names = {m, n}
  NewBuckets = {h2}
  Nothing = Nothing
  Outputs = {x, y}
  NoOutput = NoOutput
  Runs = {r1, r2}
  Reports = {v1, v2}
  Missing = Missing
  measurements <- SomeMeasurements
  outcomes <- AllOfOneArm
  Menus <- PassingMenus
SYMMETRY Symmetry
INVARIANTS
  ReferencesStand PublishedOnce NothingTorn
  PassedIsMeasured ReportGrounded RestoreFollowsCandidate
\* Runs, reports and a verdict end.
CHECK_DEADLOCK FALSE
