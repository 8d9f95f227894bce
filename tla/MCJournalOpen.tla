---------------------------- MODULE MCJournalOpen ----------------------------
(* One journal that is only appended to, five casts.  Two writers on a file   *)
(* that is yet to be created, with three lines, or with two of which some are *)
(* terminals; a reader that may stall beside one writer, on a file with one   *)
(* line, the last of its stream or not, or on an empty file.                  *)
EXTENDS Journal, TLC

CONSTANTS w1, w2, r1

VARIABLES scene, lone   \* the one writer where there is one

WriterSymmetry == Permutations(Writers)

MCStarts == {<<>>, << <<>> >>, << <<"event">> >>}
MCCursors == {NoCursor, 0, 2}

TwoWriters == INSTANCE Journal WITH Cursors <- {}, Kinds <- {"event"}
Terminals == INSTANCE Journal WITH Cursors <- {}, MaxLines <- 2
OneReader(w) == INSTANCE Journal WITH Writers <- {w}, Kinds <- {"event"}
LastLine(w) == INSTANCE Journal WITH Writers <- {w}, MaxLines <- 2
EarlyReader(w) == INSTANCE Journal WITH
  Writers <- {w}, Kinds <- {"event"}, Cursors <- {NoCursor, 0}, MaxLines <- 2
OnNoFile == {"two writers", "terminals"}
OnOneLine == {"one reader", "last line"}
OnEmpty == {"early reader"}

MCInit ==
  /\ Init
  /\ scene \in OnNoFile \cup OnOneLine \cup OnEmpty
  /\ lone \in IF scene \in OnNoFile THEN {NoOne} ELSE Writers
  /\ path = IF scene \in OnNoFile THEN 0 ELSE 1
  /\ scene \in OnOneLine => Lines = 1
  /\ scene \in OnEmpty => Lines = 0

MCNext ==
  /\ \/ scene = "two writers" /\ TwoWriters!Next
     \/ scene = "terminals" /\ Terminals!Next
     \/ \E w \in Writers :
          /\ w = lone
          /\ \/ scene = "one reader" /\ OneReader(w)!Next
             \/ scene = "last line" /\ LastLine(w)!Next
             \/ scene = "early reader" /\ EarlyReader(w)!Next
  /\ UNCHANGED <<scene, lone>>

MCSpec == MCInit /\ [][MCNext]_<<vars, scene, lone>>
==============================================================================
