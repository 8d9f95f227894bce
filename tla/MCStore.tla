------------------------------- MODULE MCStore -------------------------------
(* The store package: two Stores with rollbacks beside two old programs;   *)
(* two versions of a program that open the file at once; and the cache,    *)
(* which shares nothing with them.  A behaviour is of one of the three.    *)
EXTENDS StoreMigrator, TLC

CONSTANTS s1, s2, o1, o2, t1, t2

VARIABLES scene, cacheRows, clock, call, written, removed, overtaken

MCIds == 1..3
MCKnown == [p \in Stores |-> IF p = s1 THEN 1..2 ELSE Ids]
MCOldKnown == [o \in Olds |-> IF o = o1 THEN {1} ELSE Ids]
StampSymmetry == Permutations(Stamps)

\* The constants are those of the scene "opening": s1 is one version behind, s2
\* adopts nothing, nobody rolls back.  Here both know and adopt all, and s1 rolls
\* back.
Rolling == INSTANCE StoreMigrator WITH
  Known <- [p \in Stores |-> Ids], Adopts <- Stores, Rollers <- {s1}

\* Two fibers, three keys and room for two entries.
Cache == INSTANCE StoreCache WITH
  rows <- cacheRows, Readers <- {1}, Writers <- {2}, Keys <- {"a", "b", "c"}, Tagged <- {"a"},
  Ttls <- {1, 3}, MaxEntries <- 2, MaxClock <- 2, MaxRowid <- 4

cacheVars == <<cacheRows, clock, call, written, removed, overtaken>>

MCInit == scene \in {"rolling", "opening", "cache"} /\ Init /\ Cache!Init

MCNext ==
  /\ \/ scene = "rolling" /\ Rolling!Next /\ UNCHANGED cacheVars
     \/ scene = "opening" /\ Next /\ UNCHANGED cacheVars
     \/ scene = "cache" /\ Cache!Next /\ UNCHANGED vars
  /\ UNCHANGED scene

MCSpec == MCInit /\ [][MCNext]_<<scene, vars, cacheVars>>

\* See StoreCache: an entry leaves the table for a reason.
NothingLost == Cache!TypeOK /\ Cache!NothingLost
=============================================================================
