------------------------------ MODULE MCVolume ------------------------------
(* The volume on a small scale.  Where case folds, the namespace operations *)
(* run on every path, and beside a watch on fewer; where it does not, the   *)
(* open files and a watch run beside them.  There are fewer inodes while a  *)
(* watch and an open file, or a watch and folding, are both there.          *)
EXTENDS Volume

CONSTANTS tmp, x, X, watcher

MCFolded == [n \in Names |-> IF n = X THEN x ELSE n]
MCPaths == {<<n>> : n \in Names} \cup {<<tmp, x>>, <<x, X>>, <<x, X, x>>}
MCTargets == {[absolute |-> TRUE, names |-> <<x>>]}

Few == {<<x>>, <<tmp, x>>}

\* An entry in both spellings, and one in its directory: what a watch can be on
\* and the directory above it, named unlike the watch names them.
Folding == {<<x>>, <<X>>, <<x, X>>}

Given ==
  IF caseSensitive THEN Few ELSE IF watchers[watcher].on THEN Folding ELSE Paths
Watched == IF caseSensitive THEN Few \cup {<<tmp>>} ELSE {<<X>>, <<X, X>>}

Small ==
  LET more == DOMAIN descriptors' # {} \/ ~caseSensitive
  IN  Cardinality(DOMAIN inodes') < IF watchers'[watcher].on /\ more THEN 4 ELSE 5

MCNext ==
  \/ Namespace(Given) /\ Small
  \/ caseSensitive /\ Files(Few) /\ Small
  \/ Watching(Watched) /\ Small

MCSpec == Init /\ [][MCNext]_vars
=============================================================================
