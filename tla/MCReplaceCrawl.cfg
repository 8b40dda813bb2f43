SPECIFICATION ReplaceSpec
CONSTANTS
  Pages = {p1, p2}
  Jobs = {j1, j2}
  Absent = Absent
  MaxVersion = 2
  MaxFailures = 1
INVARIANT ReplaceKeepsEveryPage
CHECK_DEADLOCK FALSE
