SPECIFICATION Spec
CONSTANTS
  w1 = w1
  w2 = w2
  Writers = {w1, w2}
  Readers = {}
  Stalled = {}
  Kinds = {"event"}
  OtherKinds = {"event"}
  Cursors <- MCFromHere
  StartFiles <- MCEmpty
  Capacity = 1
  MaxRearms = 1
  MaxLines = 4
  MaxBreaches = 0
  MayTear = FALSE
  MayFail = FALSE
  MayInterrupt = TRUE
  MayTruncate = FALSE
  NoOne = NoOne
  Supervisor = Supervisor
SYMMETRY WriterSymmetry
INVARIANTS HubInFileOrder
CHECK_DEADLOCK FALSE
