SPECIFICATION MCSpec
CONSTANTS
  w1 = w1
  w2 = w2
  r1 = r1
  Writers = {w1, w2}
  Readers = {r1}
  Stalled = {r1}
  Kinds = {"event", "terminal"}
  OtherKinds = {"event"}
  Cursors <- MCCursors
  StartFiles <- MCStarts
  Capacity = 1
  MaxRearms = 1
  MaxLines = 3
  MaxBreaches = 0
  MayTear = FALSE
  MayFail = FALSE
  MayInterrupt = FALSE
  MayTruncate = FALSE
  NoOne = NoOne
  Supervisor = Supervisor
SYMMETRY WriterSymmetry
INVARIANTS TypeOK HubInFileOrder NothingMissing NoFalseResync SeamIsExact EndAfterAppends
PROPERTIES TerminalRespected
CHECK_DEADLOCK FALSE
