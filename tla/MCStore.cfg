SPECIFICATION MCSpec
CONSTANTS
  s1 = s1
  s2 = s2
  o1 = o1
  o2 = o2
  t1 = t1
  t2 = t2
  NoRow = NoRow
  Unread = Unread
  Ids <- MCIds
  Stores = {s1, s2}
  Known <- MCKnown
  Adopts = {s1}
  Mirrors = {s1, s2}
  Rollers = {}
  HasDown = {1, 2, 3}
  Olds = {o1, o2}
  OldKnown <- MCOldKnown
  Renamed = {}
  DefaultTable = TRUE
  OldDuringRollback = TRUE
  Stamps = {t1, t2}
SYMMETRY StampSymmetry
INVARIANTS UpOnce DownOnce MirrorCoversLedger OpensComplete NeverRefused NothingLost
CHECK_DEADLOCK FALSE
