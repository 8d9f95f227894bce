SPECIFICATION MCSpec
CONSTANTS
  p1 = p1
  p2 = p2
  Files = {f1, f2}
  Escaping = {bad}
  MaxCalls = 3
  None = None
INVARIANTS DirectoryIsReplaced KeysStayRevoked RefetchesAreGated CredentialsAccountedFor DocumentIsCurrent FoldsOnce LeavesTerminal
SYMMETRY ProcessSymmetry
CHECK_DEADLOCK FALSE
