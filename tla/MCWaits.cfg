SPECIFICATION MCFairSpec
CONSTANTS
  c1 = c1
  c2 = c2
  c3 = c3
  relative = relative
  absolute = absolute
  other = other
  memory = memory
  keyA = keyA
  keyB = keyB
  r1 = r1
  r2 = r2
  i = i
  d = d
  None = None
  Callers = {c1, c2, c3}
  Requests = {relative, absolute, other, memory}
  Keys = {keyA, keyB}
  Runs = {r1, r2}
  KeyOf <- MCKeyOf
  Ephemeral <- MCEphemeral
INVARIANTS OneRunPerKey LaneIsExclusive
PROPERTIES EveryWaitEnds SharesFlights MintsAreShared EveryoneAnswered
CHECK_DEADLOCK FALSE
