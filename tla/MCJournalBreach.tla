--------------------------- MODULE MCJournalBreach ---------------------------
(* What a journal gets over, four casts.  One writer on a file that another   *)
(* program replaces or removes while it is open, or truncates; two writers    *)
(* whose writes fail and whose appends are interrupted; and one such writer   *)
(* beside another program that is seen half way through a line.               *)
EXTENDS Journal, TLC

CONSTANTS w1, w2

VARIABLE scene

MCOneLine == {<< <<"event">> >>}
MCFromHere == {NoCursor}

Breached == INSTANCE Journal WITH Writers <- {w1}, MaxBreaches <- 1
Unruly == INSTANCE Journal WITH
  MaxLines <- 2, MayFail <- TRUE, MayInterrupt <- TRUE

Torn == INSTANCE Journal WITH
  Writers <- {w1}, MaxLines <- 1, MayTear <- TRUE
Truncated == INSTANCE Journal WITH
  Writers <- {w1}, MaxLines <- 1, MaxBreaches <- 1, MayTruncate <- TRUE

MCInit == Init /\ scene \in {"breached", "unruly", "torn", "truncated"}

MCNext ==
  /\ \/ scene = "breached" /\ Breached!Next /\ ~closed'
     \/ scene = "unruly" /\ Unruly!Next
     \/ scene = "torn" /\ Torn!Next
     \/ scene = "truncated" /\ Truncated!Next
  /\ UNCHANGED scene

\* An action that is fair is the same in all of them: neither the bounds nor what may
\* happen are in its guards, and the second writer stays idle where there is one.
MCFairSpec ==
  /\ MCInit /\ [][MCNext]_<<vars, scene>>
  /\ Fairness

\* See Journal: the engine ends up consistent with what the path names.  A
\* line that is joined to half of another is beyond it.
Recovers == scene = "breached" => CatchesUp
==============================================================================
