SPECIFICATION Spec
CONSTANTS
  p1 = p1
  p2 = p2
  p3 = p3
  Procs = {p1, p2}
  Serialize = {}
  Recycled = {}
  Host <- MCOneHost
  MaxCreates = 1
  MaxCrashes = 1
  MayOutlive = FALSE
  Failing = {}
  Absent = Absent
  Empty = Empty
  Nobody = Nobody
INVARIANTS TrustIsConcurrent
CHECK_DEADLOCK FALSE
