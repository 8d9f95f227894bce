---------------------------- MODULE MCStoreMixed ----------------------------
(* A mirroring and a plain Store that both roll back, over a custom table  *)
(* of the Migrator's and a renamed migration.                              *)
EXTENDS StoreMigrator, TLC

CONSTANTS s1, s2, o1, o2

MCIds == 1..2
MCKnown == [p \in Stores |-> Ids]
MCOldKnown == [o \in Olds |-> IF o = o1 THEN {1} ELSE Ids]
StampSymmetry == Permutations(Stamps)
=============================================================================
