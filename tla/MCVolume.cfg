SPECIFICATION MCSpec
CONSTANTS
  tmp = tmp
  x = x
  X = X
  watcher = watcher
  Names = {tmp, x, X}
  Folded <- MCFolded
  Temp = tmp
  TempNames = {X}
  Up = Up
  Paths <- MCPaths
  Targets <- MCTargets
  Flags = {"w+", "a+"}
  Inodes = {1, 2, 3, 4}
  Descriptors = {3}
  MaxSize = 1
  Watchers = {watcher}
  MaxTraversal = 2
  CaseSensitive = {TRUE, FALSE}
INVARIANTS VolumeIsSound OneSpelling NothingMissed
CHECK_DEADLOCK FALSE
