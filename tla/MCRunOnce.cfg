SPECIFICATION Spec
CONSTANTS
  p1 = p1
  p2 = p2
  p3 = p3
  Procs = {p1, p2, p3}
  Serialize = {p3}
  Recycled = {p1}
  Host <- MCTwoHosts
  MaxCreates = 1
  MaxCrashes = 1
  MayOutlive = FALSE
  Failing = {p2}
  Absent = Absent
  Empty = Empty
  Nobody = Nobody
INVARIANTS WorkIsExclusive TrustIsSound NothingLeft
CHECK_DEADLOCK FALSE
