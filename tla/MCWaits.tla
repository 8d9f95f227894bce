------------------------------ MODULE MCWaits ------------------------------
(* What callers wait for: the store's shared migration, the github         *)
(* package's shared mint, the lane of the kit package and the end of a     *)
(* live view.  The four share nothing; a behaviour is of one of them.      *)
EXTENDS MigrateOnce, TLC

CONSTANTS c1, c2, c3, relative, absolute, other, memory, keyA, keyB, r1, r2, i, d

\* Two spellings of one file, a second migration list and an ephemeral name.
MCKeyOf == relative :> keyA @@ absolute :> keyA @@ other :> keyB @@ memory :> keyA
MCEphemeral == {memory}

VARIABLES scene,
          inFlight, mint, call,
          permit, body, promise, saved, within, caller, cwd, gone,
          kinds, hub, finalTaken, inbox, pump, control, work, dirty, folded, runs, going, ink,
          throws, closing, owed

Tokens == INSTANCE InstallationTokens WITH Installations <- {i}, Mints <- {r1, r2}

\* One request runs another one on the lane, the other's promise is abandoned.
Lane == INSTANCE ExclusiveLane WITH
  Callers <- {c1, c2}, Dirs <- {i, d}, Home <- i, Nesting <- {c1}, Abandoning <- {c2}

\* One run, that a close ends, and a frame that throws.
View == INSTANCE LiveView WITH
  permit <- ink,
  Scripts <- {<<"start">>}, MaxThrows <- 1, Interactive <- TRUE, Hosted <- FALSE

tokenVars == <<inFlight, mint, call>>
laneVars == <<permit, body, promise, saved, within, caller, cwd, gone>>
viewVars == <<kinds, hub, finalTaken, inbox, pump, control, work, dirty, folded, runs, going, ink,
              throws, closing, owed>>
mcvars == <<scene, vars, tokenVars, laneVars, viewVars>>

MCInit ==
  /\ scene \in {"migrateOnce", "tokens", "lane", "view"}
  /\ Init /\ Tokens!Init /\ Lane!Init /\ View!Init

MCNext ==
  /\ \/ scene = "migrateOnce" /\ Next /\ UNCHANGED <<tokenVars, laneVars, viewVars>>
     \/ scene = "tokens" /\ Tokens!Next /\ UNCHANGED <<vars, laneVars, viewVars>>
     \/ scene = "lane" /\ Lane!Next /\ UNCHANGED <<vars, tokenVars, viewVars>>
     \/ scene = "view" /\ View!Next /\ UNCHANGED <<vars, tokenVars, laneVars>>
  /\ UNCHANGED scene

\* What does not move has nothing to be fair about.
MCFairSpec ==
  /\ MCInit /\ [][MCNext]_mcvars
  /\ Fairness /\ Tokens!Fairness /\ Lane!Fairness /\ View!Fairness

\* See InstallationTokens: misses share one mint, and every miss ends.
MintsAreShared == []Tokens!TypeOK /\ Tokens!SharesMints /\ Tokens!EveryMissEnds

\* See ExclusiveLane: who holds the lane is alone in the process's directory.
LaneIsExclusive == Lane!LaneIsExclusive

\* See ExclusiveLane and LiveView: whoever asks for the lane is answered, and
\* so is whoever closes a view.
EveryoneAnswered == Lane!EveryoneAnswered /\ View!CloseIsAnswered
=============================================================================
