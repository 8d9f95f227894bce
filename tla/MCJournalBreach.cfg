SPECIFICATION MCFairSpec
CONSTANTS
  w1 = w1
  w2 = w2
  Writers = {w1, w2}
  Readers = {}
  Stalled = {}
  Kinds = {"event"}
  OtherKinds = {"event"}
  Cursors <- MCFromHere
  StartFiles <- MCOneLine
  Capacity = 1
  MaxRearms = 1
  MaxLines = 3
  MaxBreaches = 0
  MayTear = FALSE
  MayFail = FALSE
  MayInterrupt = FALSE
  MayTruncate = FALSE
  NoOne = NoOne
  Supervisor = Supervisor
PROPERTIES AppendsEnd Recovers
CHECK_DEADLOCK FALSE
