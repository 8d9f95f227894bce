SPECIFICATION Spec
CONSTANTS
  s1 = s1
  s2 = s2
  o1 = o1
  o2 = o2
  NoRow = NoRow
  Unread = Unread
  Ids <- MCIds
  Stores = {s1, s2}
  Known <- MCKnown
  Adopts = {s1}
  Mirrors = {s1}
  Rollers = {s1, s2}
  HasDown = {1, 2}
  Olds = {o1, o2}
  OldKnown <- MCOldKnown
  Renamed = {2}
  DefaultTable = FALSE
  OldDuringRollback = TRUE
  Stamps = {t1, t2}
SYMMETRY StampSymmetry
INVARIANTS
  TypeOK
  LedgerInPlace
  TombstoneIsLatest
  SnapshotIsCurrent
