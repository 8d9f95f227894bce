------------------------------ MODULE Store_proofs ------------------------------
(***************************************************************************)
(* Proofs about the store package.                                         *)
(*                                                                         *)
(* About StoreMigrator, for any set of ids, Stores and old programs,       *)
(* whatever options each Store was opened with.                            *)
(*                                                                         *)
(* About StoreCache, for any fibers, keys, lifetimes and number of         *)
(* entries: the cache gives up no entry without a reason.  What a write    *)
(* evicts is chosen by rowid.  The invariant says that rowids are the      *)
(* order of writing (ByRowid), although a rowid comes again when the row   *)
(* that had it, the last one, is deleted; so that an entry goes only after *)
(* as many later writes as the table has room for.  A read that is about   *)
(* to delete what it found expired has still found the last write of its   *)
(* key, or been overtaken (Excused).                                       *)
(***************************************************************************)
EXTENDS StoreMigrator, FiniteSetTheorems, WellFoundedInduction, TLAPS

CONSTANTS Readers, Writers, Keys, Tagged, Ttls, MaxEntries, MaxClock, MaxRowid
VARIABLES entries, clock, call, written, removed, overtaken

Cache == INSTANCE StoreCache WITH rows <- entries

\* A Migrator's row that is not marked stale or unjudgeable is history: the
\* effect it records is in the schema.  Without it an import step could not be
\* shown to keep LedgerInPlace.
FreshRowsInPlace ==
    \A id \in Ids : rows[id] # NoRow /\ tomb[id] \in {"none", NoRow} => id \in inPlace

IInv == /\ TypeOK
        /\ LedgerInPlace
        /\ TombstoneIsLatest
        /\ SnapshotIsCurrent
        /\ FreshRowsInPlace

DataInv == LedgerInPlace /\ TombstoneIsLatest /\ SnapshotIsCurrent /\ FreshRowsInPlace

LEMMA InitIInv == Init => IInv
  BY StampsAssumption, ProgramsAssumption
     DEF Init, IInv, TypeOK, LedgerInPlace, TombstoneIsLatest, SnapshotIsCurrent,
         FreshRowsInPlace

\* Judging a row as history says that its effect is in place.
LEMMA ImportedIsInPlace ==
    ASSUME IInv, NEW id \in Recorded, Judge(id) = "import"
    PROVE  id \in inPlace
<1>1. id \in Ids /\ rows[id] # NoRow
  BY DEF Recorded
<1>2. tomb[id] \notin Stamps /\ tomb[id] # "untracked"
  BY <1>1, StampsAssumption DEF Judge, IInv, SnapshotIsCurrent
<1>3. tomb[id] \in {"none", NoRow}
  BY <1>1, <1>2 DEF IInv, TypeOK
<1>4. QED
  BY <1>1, <1>3 DEF IInv, FreshRowsInPlace

\* A step of one Store that leaves the database alone.
LEMMA OwnStateIInv ==
    ASSUME IInv, UNCHANGED db,
           pc' \in [Stores -> {"closed", "adopt", "sync", "build", "open",
                               "migrate", "rollback"}],
           plan' \in [Stores -> (SUBSET Ids) \cup {Unread}],
           \A p \in Stores : pc'[p] = "rollback" => plan'[p] # Unread
    PROVE  IInv'
  BY DEF IInv, db, TypeOK, LedgerInPlace, TombstoneIsLatest, SnapshotIsCurrent,
         FreshRowsInPlace

\* Goto keeps the types of a Store's own state.
LEMMA GotoTypes ==
    ASSUME IInv, NEW p \in Stores,
           NEW where \in {"closed", "adopt", "sync", "build", "open", "migrate"},
           Goto(p, where)
    PROVE  /\ pc' \in [Stores -> {"closed", "adopt", "sync", "build", "open",
                                  "migrate", "rollback"}]
           /\ plan' \in [Stores -> (SUBSET Ids) \cup {Unread}]
           /\ \A q \in Stores : pc'[q] = "rollback" => plan'[q] # Unread
  BY DEF IInv, TypeOK, Goto

\* So does working off one id of a plan.
LEMMA TickTypes ==
    ASSUME IInv, NEW p \in Stores, NEW id \in Ids, plan[p] # Unread, Tick(p, id)
    PROVE  /\ pc' \in [Stores -> {"closed", "adopt", "sync", "build", "open",
                                  "migrate", "rollback"}]
           /\ plan' \in [Stores -> (SUBSET Ids) \cup {Unread}]
           /\ \A q \in Stores : pc'[q] = "rollback" => plan'[q] # Unread
<1>1. plan[p] \in SUBSET Ids
  BY DEF IInv, TypeOK
<1>2. plan[p] \ {id} \in SUBSET Ids
  BY <1>1
<1>3. plan[p] \ {id} # Unread
  BY <1>2, StampsAssumption
<1>4. plan' = [plan EXCEPT ![p] = plan[p] \ {id}] /\ pc' = pc
  BY DEF Tick
<1>5. QED
  BY <1>2, <1>3, <1>4 DEF IInv, TypeOK

LEMMA AdoptIInv ==
    ASSUME IInv, NEW p \in Stores, Adopt(p)
    PROVE  IInv'
<1> DEFINE Seeded == {id \in Recorded : Judge(id) = "import"}
<1>1. /\ ledger' = Seeded
      /\ tomb' = Cleared(ledger')
      /\ marker' = TRUE
      /\ UNCHANGED <<rows, inPlace, mishaps>>
  BY DEF Adopt
<1>2. Seeded \subseteq inPlace
  BY ImportedIsInPlace
<1>3. Seeded \subseteq Ids
  BY DEF Recorded
<1>4. TypeOK'
  <2>1. AfterAdoption(p) \in {"sync", "build"}
    BY DEF AfterAdoption
  <2>2. QED
    BY <1>1, <1>3, <2>1, GotoTypes DEF Adopt, IInv, TypeOK, Cleared
<1>5. DataInv'
  BY <1>1, <1>2, <1>3, StampsAssumption
     DEF DataInv, IInv, TypeOK, LedgerInPlace, TombstoneIsLatest, SnapshotIsCurrent,
         FreshRowsInPlace, Cleared, Recorded
<1>6. QED
  BY <1>4, <1>5 DEF IInv, DataInv

LEMMA SyncIInv ==
    ASSUME IInv, NEW p \in Stores, Sync(p)
    PROVE  IInv'
<1>1. PICK at \in Stamps : rows' = Export(p, at)
  BY DEF Sync
<1>2. /\ ledger' = ledger \cup Importable(p)
      /\ tomb' = Cleared(Importable(p))
      /\ UNCHANGED <<marker, inPlace, mishaps>>
      /\ Goto(p, "build")
  BY DEF Sync
<1>3. Importable(p) \subseteq inPlace
  BY ImportedIsInPlace DEF Importable
<1>4. Importable(p) \subseteq Ids
  BY DEF Importable, Recorded
<1>5. rows' \in [Ids -> Row \cup {NoRow}]
  BY <1>1 DEF Export, Row, IInv, TypeOK
<1>6. \A id \in Ids : rows[id] # NoRow => rows'[id] = rows[id]
  BY <1>1 DEF Export, Recorded
<1>7. \A id \in Ids : rows[id] = NoRow /\ rows'[id] # NoRow => id \in ledger'
  BY <1>1 DEF Export, Recorded
<1>8. TypeOK'
  BY <1>2, <1>4, <1>5, GotoTypes DEF IInv, TypeOK, Cleared
<1>9. DataInv'
  <2>1. LedgerInPlace'
    BY <1>2, <1>3 DEF IInv, LedgerInPlace
  <2>2. TombstoneIsLatest'
    BY <1>2, <1>4 DEF IInv, TypeOK, TombstoneIsLatest, Cleared
  <2>3. SnapshotIsCurrent'
    BY <1>2, <1>4, <1>6, StampsAssumption
       DEF IInv, TypeOK, SnapshotIsCurrent, Cleared
  <2>4. FreshRowsInPlace'
    <3> SUFFICES ASSUME NEW id \in Ids, rows'[id] # NoRow, tomb'[id] \in {"none", NoRow}
                 PROVE  id \in inPlace'
      BY DEF FreshRowsInPlace
    <3>1. CASE id \in ledger'
      BY <2>1, <3>1 DEF LedgerInPlace
    <3>2. CASE id \notin ledger'
      <4>1. rows[id] # NoRow
        BY <1>7, <3>2
      <4>2. tomb'[id] = tomb[id]
        BY <1>2, <3>2 DEF Cleared
      <4>3. QED
        BY <1>2, <4>1, <4>2 DEF IInv, FreshRowsInPlace
    <3>3. QED
      BY <3>1, <3>2
  <2>5. QED
    BY <2>1, <2>2, <2>3, <2>4 DEF DataInv
<1>10. QED
  BY <1>8, <1>9 DEF IInv, DataInv

LEMMA ImportAppliedIInv ==
    ASSUME IInv, NEW p \in Stores, NEW id \in Ids, ImportApplied(p, id)
    PROVE  IInv'
<1>1. /\ ledger' = ledger \cup {id}
      /\ tomb' = Cleared({id})
      /\ UNCHANGED <<rows, marker, inPlace, mishaps>>
      /\ Tick(p, id) /\ plan[p] # Unread
  BY DEF ImportApplied, IsNext
<1>2. id \in inPlace
  BY ImportedIsInPlace DEF ImportApplied, HasForeignRow, Recorded
<1>3. TypeOK'
  BY <1>1, TickTypes DEF IInv, TypeOK, Cleared
<1>4. DataInv'
  BY <1>1, <1>2, StampsAssumption
     DEF DataInv, IInv, TypeOK, LedgerInPlace, TombstoneIsLatest, SnapshotIsCurrent,
         FreshRowsInPlace, Cleared
<1>5. QED
  BY <1>3, <1>4 DEF IInv, DataInv

LEMMA RunMigrationIInv ==
    ASSUME IInv, NEW p \in Stores, NEW id \in Ids, RunMigration(p, id)
    PROVE  IInv'
<1>1. PICK at \in Stamps : rows' = Mirrored(p, id, at)
  BY DEF RunMigration
<1>2. /\ ledger' = ledger \cup {id}
      /\ tomb' = Cleared({id})
      /\ inPlace' = inPlace \cup {id}
      /\ mishaps' = mishaps \cup ({<<"up", i>> : i \in {id} \cap inPlace})
      /\ marker' = marker
      /\ Tick(p, id) /\ plan[p] # Unread
  BY DEF RunMigration, RunUp, IsNext
<1>3. /\ rows' \in [Ids -> Row \cup {NoRow}]
      /\ \A other \in Ids \ {id} : rows'[other] = rows[other]
  BY <1>1 DEF Mirrored, Row, IInv, TypeOK
<1>4. TypeOK'
  BY <1>2, <1>3, TickTypes DEF IInv, TypeOK, Cleared
<1>5. DataInv'
  BY <1>2, <1>3, StampsAssumption
     DEF DataInv, IInv, TypeOK, LedgerInPlace, TombstoneIsLatest, SnapshotIsCurrent,
         FreshRowsInPlace, Cleared
<1>6. QED
  BY <1>4, <1>5 DEF IInv, DataInv

LEMMA RollBackOneIInv ==
    ASSUME IInv, NEW p \in Stores, NEW id \in Ids, RollBackOne(p, id)
    PROVE  IInv'
<1>1. /\ ledger' = ledger \ {id}
      /\ rows' = Unmirror(p, id)
      /\ tomb' = [tomb EXCEPT ![id] = Snapshot(p, id)]
      /\ marker' = marker
      /\ Tick(p, id) /\ plan[p] # Unread
  BY DEF RollBackOne, IInv, TypeOK
<1>2. inPlace \ {id} \subseteq inPlace' /\ inPlace' \subseteq inPlace
  BY DEF RollBackOne
<1>3. mishaps' \subseteq ({"up", "old", "down"} \X Ids)
  BY DEF RollBackOne, IInv, TypeOK
<1>4. /\ rows' \in [Ids -> Row \cup {NoRow}]
      /\ \A other \in Ids \ {id} : rows'[other] = rows[other]
  BY <1>1 DEF Unmirror, IInv, TypeOK
<1>5. /\ Snapshot(p, id) \in Stamps \cup {NoRow, "untracked"}
      /\ Snapshot(p, id) = NoRow => rows'[id] = NoRow
      /\ Snapshot(p, id) \in Stamps => rows'[id] # NoRow /\ rows'[id].at = Snapshot(p, id)
  BY <1>4, StampsAssumption DEF Snapshot, Row
<1>6. TypeOK'
  BY <1>1, <1>2, <1>3, <1>4, <1>5, TickTypes DEF IInv, TypeOK
<1>7. DataInv'
  BY <1>1, <1>2, <1>4, <1>5, StampsAssumption
     DEF DataInv, IInv, TypeOK, LedgerInPlace, TombstoneIsLatest, SnapshotIsCurrent,
         FreshRowsInPlace
<1>8. QED
  BY <1>6, <1>7 DEF IInv, DataInv

LEMMA OldMigrateIInv ==
    ASSUME IInv, NEW o \in Olds, OldMigrate(o)
    PROVE  IInv'
<1>1. PICK at \in Stamps :
          rows' = [id \in Ids |-> IF id \in OldPending(o)
                                  THEN [at |-> at, name |-> "old"] ELSE rows[id]]
  BY DEF OldMigrate
<1>2. /\ inPlace' = inPlace \cup OldPending(o)
      /\ mishaps' = mishaps \cup ({<<"old", id>> : id \in OldPending(o) \cap inPlace})
      /\ UNCHANGED <<ledger, marker, tomb, pc, plan>>
  BY DEF OldMigrate, RunUp
<1>3. OldPending(o) \subseteq Ids
  BY ProgramsAssumption DEF OldPending
<1>4. \A id \in OldPending(o) : rows[id] = NoRow
  \* A recorded id is not above itself.
  <2> SUFFICES ASSUME NEW id \in OldPending(o), id \in Recorded PROVE FALSE
    BY <1>3 DEF Recorded
  <2>1. id > id /\ id \in Nat
    BY <1>3, IdsAssumption DEF OldPending
  <2>2. QED
    BY <2>1
<1>5. /\ rows' \in [Ids -> Row \cup {NoRow}]
      /\ \A id \in Ids \ OldPending(o) : rows'[id] = rows[id]
  BY <1>1 DEF Row, IInv, TypeOK
<1>6. TypeOK'
  BY <1>2, <1>3, <1>5 DEF IInv, TypeOK
<1>7. DataInv'
  BY <1>2, <1>3, <1>4, <1>5
     DEF DataInv, IInv, TypeOK, LedgerInPlace, TombstoneIsLatest, SnapshotIsCurrent,
         FreshRowsInPlace
<1>8. QED
  BY <1>6, <1>7 DEF IInv, DataInv

LEMMA NextIInv == IInv /\ [Next]_vars => IInv'
<1> SUFFICES ASSUME IInv, [Next]_vars PROVE IInv'
  OBVIOUS
<1>1. ASSUME NEW p \in Stores, Open(p) \/ AdoptNothing(p) PROVE IInv'
  <2>1. AfterAdoption(p) \in {"sync", "build"}
    BY DEF AfterAdoption
  <2>2. CASE Open(p)
    <3> DEFINE Where == IF p \in Adopts THEN "adopt" ELSE AfterAdoption(p)
    <3>1. Where \in {"closed", "adopt", "sync", "build", "open", "migrate"}
      BY <2>1
    <3>2. QED
      BY <2>2, <3>1, GotoTypes, OwnStateIInv DEF Open
  <2>3. CASE AdoptNothing(p)
    <3>1. TypeOK'
      BY <2>1, <2>3, GotoTypes DEF AdoptNothing, IInv, TypeOK
    <3>2. QED
      BY <2>3, <3>1 DEF AdoptNothing, IInv, LedgerInPlace, TombstoneIsLatest,
                        SnapshotIsCurrent, FreshRowsInPlace
  <2>4. QED
    BY <1>1, <2>2, <2>3
<1>2. ASSUME NEW p \in Stores, Adopt(p) PROVE IInv'
  BY <1>2, AdoptIInv
<1>3. ASSUME NEW p \in Stores, Sync(p) PROVE IInv'
  BY <1>3, SyncIInv
<1>4. ASSUME NEW p \in Stores, ReadPending(p) PROVE IInv'
  <2>1. Known[p] \ ledger \in SUBSET Ids
    BY ProgramsAssumption
  <2>2. QED
    BY <1>4, <2>1, OwnStateIInv DEF ReadPending, Applying, IInv, TypeOK
<1>5. ASSUME NEW p \in Stores, NEW id \in Ids, SkipRecorded(p, id) PROVE IInv'
  BY <1>5, TickTypes, OwnStateIInv DEF SkipRecorded, IsNext
<1>6. ASSUME NEW p \in Stores, NEW id \in Ids, ImportApplied(p, id) PROVE IInv'
  BY <1>6, ImportAppliedIInv
<1>7. ASSUME NEW p \in Stores, NEW id \in Ids, RunMigration(p, id) PROVE IInv'
  BY <1>7, RunMigrationIInv
<1>8. ASSUME NEW p \in Stores, NEW id \in Ids, RollBackOne(p, id) PROVE IInv'
  BY <1>8, RollBackOneIInv
<1>9. ASSUME NEW p \in Stores, NEW toId \in Ids \cup {0}, PlanRollback(p, toId)
      PROVE  IInv'
  <2>1. RollbackPlan(p, toId) \in SUBSET Ids
    BY DEF RollbackPlan, IInv, TypeOK
  <2>2. RollbackPlan(p, toId) # Unread
    BY <2>1, StampsAssumption
  <2>3. QED
    BY <1>9, <2>1, <2>2, OwnStateIInv DEF PlanRollback, IInv, TypeOK
<1>10. ASSUME NEW p \in Stores,
              Migrate(p) \/ Applied(p) \/ RolledBack(p) \/ CallFails(p) \/ Close(p)
       PROVE  IInv'
  BY <1>10, GotoTypes, OwnStateIInv DEF Migrate, Applied, RolledBack, CallFails, Close
<1>11. ASSUME NEW o \in Olds, OldMigrate(o) PROVE IInv'
  BY <1>11, OldMigrateIInv
<1>12. CASE UNCHANGED vars
  BY <1>12, OwnStateIInv DEF vars, IInv, TypeOK
<1>13. QED
  BY <1>1, <1>2, <1>3, <1>4, <1>5, <1>6, <1>7, <1>8, <1>9, <1>10, <1>11, <1>12 DEF Next

LEMMA InvariantHolds == Spec => []IInv
  BY InitIInv, NextIInv, PTL DEF Spec

\* Types, for all values of the constants.
THEOREM TypeCorrect == Spec => []TypeOK
<1>1. IInv => TypeOK
  BY DEF IInv
<1>2. QED
  BY <1>1, InvariantHolds, PTL

\* No phantom history (judgeForeign, applyPending, syncMirror,
\* adoptForeignLedger, rollbackTo): whatever mixture of adopting, mirroring and
\* plain Stores and of old programs shares the database, and however rollbacks
\* interleave, a recorded migration's effect is in the schema.
THEOREM NoPhantom == Spec => []LedgerInPlace
<1>1. IInv => LedgerInPlace
  BY DEF IInv
<1>2. QED
  BY <1>1, InvariantHolds, PTL

\* The two facts that make a tombstone trustworthy (recordTombstone,
\* clearTombstone): none outlives a re-application, and a snapshot names the
\* very row that is still there.
THEOREM TombstonesTrustworthy == Spec => [](TombstoneIsLatest /\ SnapshotIsCurrent)
<1>1. IInv => TombstoneIsLatest /\ SnapshotIsCurrent
  BY DEF IInv
<1>2. QED
  BY <1>1, InvariantHolds, PTL

\* The first of the two by itself: whatever an old program, an import or a
\* mirror puts back, the tombstone of a rollback is gone with it.
THEOREM TombstonesGiveWay == Spec => []TombstoneIsLatest
  BY TombstonesTrustworthy, PTL
----------------------------------------------------------------------------
(* Who rolls back, and what a lone roller's plan is worth.                 *)

\* Only a Store that rolls back is ever in a rollback, and when no other does,
\* its plan stays a part of the ledger: nobody else removes from it.
RollInv == \A p \in Stores : pc[p] = "rollback" =>
              /\ p \in Rollers
              /\ OneRoller => plan[p] \subseteq ledger

LEMMA RollStep ==
    ASSUME IInv, RollInv, [Next]_vars
    PROVE  RollInv'
<1>1. ASSUME UNCHANGED <<pc, plan>>, ledger \subseteq ledger' PROVE RollInv'
  BY <1>1 DEF RollInv
<1>2. ASSUME NEW p \in Stores, NEW where, where # "rollback", Goto(p, where),
             ledger \subseteq ledger'
      PROVE  RollInv'
  BY <1>2 DEF RollInv, Goto, IInv, TypeOK
<1>3. ASSUME NEW p \in Stores, NEW id \in Ids, Tick(p, id), ledger \subseteq ledger'
      PROVE  RollInv'
  BY <1>3 DEF RollInv, Tick, IInv, TypeOK
<1>4. ASSUME NEW p \in Stores, NEW toId \in Ids \cup {0}, PlanRollback(p, toId)
      PROVE  RollInv'
  BY <1>4 DEF PlanRollback, RollbackPlan, RollInv, IInv, TypeOK, db
<1>5. ASSUME NEW p \in Stores, NEW id \in Ids, RollBackOne(p, id) PROVE RollInv'
  <2>1. /\ pc' = pc
        /\ plan' = [plan EXCEPT ![p] = plan[p] \ {id}]
        /\ ledger' = ledger \ {id}
        /\ pc[p] = "rollback"
    BY <1>5 DEF RollBackOne, Tick
  <2>2. SUFFICES ASSUME NEW q \in Stores, pc[q] = "rollback"
                 PROVE  q \in Rollers /\ (OneRoller => plan'[q] \subseteq ledger')
    BY <2>1 DEF RollInv
  <2>3. q \in Rollers /\ p \in Rollers
    BY <2>1, <2>2 DEF RollInv
  <2>4. OneRoller => q = p /\ plan[p] \subseteq ledger
    BY <2>1, <2>2, <2>3 DEF RollInv, OneRoller
  <2>5. plan'[p] = plan[p] \ {id}
    BY <2>1 DEF IInv, TypeOK
  <2>6. QED
    BY <2>1, <2>3, <2>4, <2>5
<1>6. ASSUME NEW p \in Stores, ReadPending(p) PROVE RollInv'
  BY <1>6 DEF ReadPending, Applying, RollInv, IInv, TypeOK, db
<1>7. ASSUME NEW p \in Stores, Open(p) \/ AdoptNothing(p) \/ Adopt(p) PROVE RollInv'
  <2>1. AfterAdoption(p) # "rollback" /\ "adopt" # "rollback"
    BY DEF AfterAdoption
  <2>2. ledger \subseteq ledger'
    BY <1>7 DEF Open, AdoptNothing, Adopt, db
  <2>3. QED
    BY <1>2, <1>7, <2>1, <2>2 DEF Open, AdoptNothing, Adopt
<1>8. ASSUME NEW p \in Stores,
             Sync(p) \/ Migrate(p) \/ Applied(p) \/ RolledBack(p) \/ CallFails(p) \/ Close(p)
      PROVE  RollInv'
  <2>1. ledger \subseteq ledger'
    BY <1>8 DEF Sync, Migrate, Applied, RolledBack, CallFails, Close, db
  <2>2. QED
    BY <1>2, <1>8, <2>1 DEF Sync, Migrate, Applied, RolledBack, CallFails, Close
<1>9. ASSUME NEW p \in Stores, NEW id \in Ids,
             SkipRecorded(p, id) \/ ImportApplied(p, id) \/ RunMigration(p, id)
      PROVE  RollInv'
  <2>1. Tick(p, id) /\ ledger \subseteq ledger'
    BY <1>9 DEF SkipRecorded, ImportApplied, RunMigration, db
  <2>2. QED
    BY <1>3, <2>1
<1>10. ASSUME NEW o \in Olds, OldMigrate(o) PROVE RollInv'
  BY <1>1, <1>10 DEF OldMigrate
<1>11. CASE UNCHANGED vars
  BY <1>1, <1>11 DEF vars, db
<1>12. QED
  BY <1>4, <1>5, <1>6, <1>7, <1>8, <1>9, <1>10, <1>11 DEF Next

\* A down never runs on a schema without its up, as long as rollbacks are not
\* issued by two Stores at once (rollbackTo reads its plan outside any
\* transaction and does not look at the ledger again).
THEOREM DownRunsOnce ==
    ASSUME OneRoller
    PROVE  Spec => []DownOnce
<1> DEFINE DInv == IInv /\ RollInv /\ DownOnce
<1>1. Init => DInv
  BY InitIInv DEF Init, RollInv, DownOnce
<1>2. DInv /\ [Next]_vars => DInv'
  <2> SUFFICES ASSUME DInv, [Next]_vars PROVE DownOnce'
    BY NextIInv, RollStep
  <2>1. ASSUME NEW p \in Stores, NEW id \in Ids, RollBackOne(p, id) PROVE DownOnce'
    <3>1. id \in inPlace
      BY <2>1 DEF RollBackOne, RollInv, IInv, LedgerInPlace
    <3>2. QED
      BY <2>1, <3>1 DEF RollBackOne, DownOnce
  <2>2. ASSUME NEW ids, NEW by \in {"up", "old"}, RunUp(ids, by) PROVE DownOnce'
    BY <2>2 DEF RunUp, DownOnce
  <2>3. ASSUME UNCHANGED mishaps PROVE DownOnce'
    BY <2>3 DEF DownOnce
  <2>4. QED
    BY <2>1, <2>2, <2>3
       DEF Next, vars, db, Open, AdoptNothing, Adopt, Sync, Migrate, ReadPending, Applied,
           SkipRecorded, ImportApplied, RunMigration, PlanRollback, RolledBack, CallFails,
           Close, OldMigrate
<1>3. QED
  BY <1>1, <1>2, PTL DEF Spec

----------------------------------------------------------------------------
(* What mirroring adds.                                                    *)

\* With the mirror on everywhere the Migrator's ledger is complete: it records
\* every id of Store's ledger and every reversible effect, and no row is ever
\* stale or unjudgeable.
MirrorInv == /\ IInv
             /\ RollInv
             /\ MirrorCoversLedger
             /\ \A id \in Ids : tomb[id] \in {"none", NoRow}
             /\ inPlace \cap HasDown \subseteq Recorded
             /\ UpOnce

LEMMA MirrorStep ==
    ASSUME Transition, MirrorInv, [Next]_vars
    PROVE  MirrorInv'
<1>1. IInv' /\ RollInv'
  BY NextIInv, RollStep DEF MirrorInv
<1> DEFINE Rest == /\ MirrorCoversLedger
                   /\ \A id \in Ids : tomb[id] \in {"none", NoRow}
                   /\ inPlace \cap HasDown \subseteq Recorded
                   /\ UpOnce
<1>2. ASSUME UNCHANGED db PROVE Rest'
  BY <1>2 DEF MirrorInv, db, MirrorCoversLedger, Recorded, UpOnce
<1>3. ASSUME NEW p \in Stores, AdoptNothing(p) \/ Adopt(p) PROVE Rest'
  BY <1>3 DEF AdoptNothing, Adopt, MirrorInv, MirrorCoversLedger, Recorded, UpOnce, Cleared
<1>4. ASSUME NEW p \in Stores, Sync(p) PROVE Rest'
  <2>1. PICK at \in Stamps : rows' = Export(p, at)
    BY <1>4 DEF Sync
  <2>2. ledger' \subseteq Ids /\ inPlace' = inPlace /\ mishaps' = mishaps
    BY <1>1, <1>4 DEF Sync, IInv, TypeOK
  <2>3. Recorded \subseteq Recorded' /\ ledger' \subseteq Recorded'
    \* What the mirror lacked is exported, and an exported row is a row.
    <3>1. \A id \in Ids : rows[id] # NoRow => rows'[id] # NoRow
      BY <2>1 DEF Export, Recorded
    <3>2. \A id \in ledger' \ Recorded : rows'[id] = [at |-> at, name |-> "store"]
      BY <2>1, <2>2 DEF Export
    <3>3. [at |-> at, name |-> "store"] # NoRow
      BY StampsAssumption DEF Row
    <3>4. QED
      BY <2>2, <3>1, <3>2, <3>3 DEF Recorded
  <2>4. QED
    BY <1>4, <2>2, <2>3 DEF Sync, MirrorInv, MirrorCoversLedger, UpOnce, Cleared
<1>5. ASSUME NEW p \in Stores, NEW id \in Ids, ImportApplied(p, id) PROVE Rest'
  BY <1>5 DEF ImportApplied, HasForeignRow, MirrorInv, MirrorCoversLedger, Recorded,
              UpOnce, Cleared
<1>6. ASSUME NEW p \in Stores, NEW id \in Ids, RunMigration(p, id) PROVE Rest'
  <2>1. rows[id] = NoRow
    \* A row would be judged, and in this period no row is stale.
    <3> SUFFICES ASSUME rows[id] # NoRow PROVE FALSE
      OBVIOUS
    <3>1. Judge(id) = "stale"
      BY <1>6 DEF RunMigration, MustRun, HasForeignRow, Transition
    <3>2. tomb[id] = NoRow /\ tomb[id] = rows[id].at
      BY <3>1 DEF Judge, MirrorInv
    <3>3. rows[id].at \in Stamps
      BY DEF MirrorInv, IInv, TypeOK, Row
    <3>4. QED
      BY <3>2, <3>3, StampsAssumption
  <2>2. PICK at \in Stamps : rows' = [rows EXCEPT ![id] = [at |-> at, name |-> "store"]]
    BY <1>6, <2>1 DEF RunMigration, Mirrored, Transition
  <2>3. [at |-> at, name |-> "store"] # NoRow
    BY StampsAssumption DEF Row
  <2>4. Recorded' = Recorded \cup {id}
    BY <2>2, <2>3 DEF Recorded, MirrorInv, IInv, TypeOK
  <2>5. /\ ledger' = ledger \cup {id}
        /\ inPlace' = inPlace \cup {id}
        /\ tomb' = Cleared({id})
        /\ mishaps' = mishaps \cup ({<<"up", i>> : i \in {id} \cap inPlace})
    BY <1>6 DEF RunMigration, RunUp
  <2>6. id \in HasDown => mishaps' = mishaps
    \* Its effect cannot be in place: it would be recorded.
    BY <2>1, <2>5 DEF MirrorInv, Recorded
  <2>7. UpOnce'
    BY <2>5, <2>6 DEF MirrorInv, UpOnce
  <2>8. QED
    BY <2>4, <2>5, <2>7 DEF MirrorInv, MirrorCoversLedger, Cleared
<1>7. ASSUME NEW p \in Stores, NEW id \in Ids, RollBackOne(p, id), p \in Rollers
      PROVE  Rest'
  <2>1. /\ ledger' = ledger \ {id}
        /\ rows' = [rows EXCEPT ![id] = NoRow]
        /\ tomb' = [tomb EXCEPT ![id] = Snapshot(p, id)]
    BY <1>7 DEF RollBackOne, Unmirror, Transition
  <2>2. Recorded' = Recorded \ {id}
    BY <2>1 DEF Recorded, MirrorInv, IInv, TypeOK
  <2>3. Snapshot(p, id) = NoRow
    BY <2>1 DEF Snapshot, Tracks, Transition, MirrorInv, IInv, TypeOK
  <2>4. inPlace' \cap HasDown \subseteq Recorded'
    <3>1. CASE id \in HasDown
      BY <1>7, <2>2, <3>1 DEF RollBackOne, Transition, MirrorInv
    <3>2. CASE id \notin HasDown
      BY <1>7, <2>2, <3>2 DEF RollBackOne, MirrorInv
    <3>3. QED
      BY <3>1, <3>2
  <2>5. UpOnce'
    <3>1. mishaps' \subseteq mishaps \cup {<<"down", id>>}
      BY <1>7 DEF RollBackOne
    <3>2. QED
      BY <3>1 DEF MirrorInv, UpOnce
  <2>6. QED
    BY <2>1, <2>2, <2>3, <2>4, <2>5 DEF MirrorInv, MirrorCoversLedger, IInv, TypeOK
<1>8. ASSUME NEW o \in Olds, OldMigrate(o) PROVE Rest'
  <2>1. PICK at \in Stamps :
            rows' = [id \in Ids |-> IF id \in OldPending(o)
                                    THEN [at |-> at, name |-> "old"] ELSE rows[id]]
    BY <1>8 DEF OldMigrate
  <2>2. OldPending(o) \subseteq Ids
    BY ProgramsAssumption DEF OldPending
  <2>3. [at |-> at, name |-> "old"] # NoRow
    BY StampsAssumption DEF Row
  <2>4. Recorded' = Recorded \cup OldPending(o)
    BY <2>1, <2>2, <2>3 DEF Recorded
  <2>5. OldPending(o) \cap Recorded = {}
    <3> SUFFICES ASSUME NEW id \in OldPending(o), id \in Recorded PROVE FALSE
      OBVIOUS
    <3>1. id > id /\ id \in Nat
      BY <2>2, IdsAssumption DEF OldPending
    <3>2. QED
      BY <3>1
  <2>6. /\ inPlace' = inPlace \cup OldPending(o)
        /\ mishaps' = mishaps \cup ({<<"old", id>> : id \in OldPending(o) \cap inPlace})
        /\ ledger' = ledger /\ tomb' = tomb
    BY <1>8 DEF OldMigrate, RunUp
  <2>7. OldPending(o) \cap inPlace \cap HasDown = {}
    BY <2>5 DEF MirrorInv
  <2>8. UpOnce'
    BY <2>6, <2>7 DEF MirrorInv, UpOnce
  <2>9. QED
    BY <2>4, <2>6, <2>8 DEF MirrorInv, MirrorCoversLedger
<1>9. Rest'
  <2>1. ASSUME NEW p \in Stores, NEW id \in Ids, RollBackOne(p, id) PROVE p \in Rollers
    BY <2>1 DEF RollBackOne, MirrorInv, RollInv
  <2>2. QED
    BY <1>2, <1>3, <1>4, <1>5, <1>6, <1>7, <1>8, <2>1
       DEF Next, vars, db, Open, Migrate, ReadPending, Applied, SkipRecorded, PlanRollback,
           RolledBack, CallFails, Close
<1>10. QED
  BY <1>1, <1>9 DEF MirrorInv

\* Neither a Store nor an old program ever runs the up of a reversible
\* migration over its own effect, while every Store mirrors.
THEOREM UpRunsOnce ==
    ASSUME Transition
    PROVE  Spec => [](UpOnce /\ MirrorCoversLedger)
<1>1. Init => MirrorInv
  BY InitIInv DEF Init, MirrorInv, RollInv, MirrorCoversLedger, UpOnce
<1>2. MirrorInv /\ [Next]_vars => MirrorInv'
  BY MirrorStep
<1>3. MirrorInv => UpOnce /\ MirrorCoversLedger
  BY DEF MirrorInv
<1>4. QED
  BY <1>1, <1>2, <1>3, PTL DEF Spec

\* While every Store mirrors (syncMirror, applyPending, rollbackTo), an old
\* program never misses a migration that a Store applied.
THEOREM OldProgramsSeeAll ==
    ASSUME Transition
    PROVE  Spec => []MirrorCoversLedger
  BY UpRunsOnce, PTL

----------------------------------------------------------------------------
(* In which order migrations take effect, and what an open Store can count *)
(* on.                                                                     *)

\* An id that has once been applied: its effect is there or a rollback stands.
\* An id a Store need not apply any more: recorded, or rolled back since.
Ever(id) == id \in inPlace \/ RolledBackSince(id)
Settled(id) == id \in ledger \/ RolledBackSince(id)

\* What a Store has worked off its plan, and all it knows once it is open, is
\* settled, whatever others do meanwhile, and so is what it means to roll back.
Covers(p) ==
    /\ pc[p] \in {"open", "migrate", "rollback"} => \A id \in Known[p] : Settled(id)
    /\ pc[p] = "rollback" => \A id \in plan[p] : Settled(id)
    /\ Applying(p) /\ plan[p] # Unread =>
          plan[p] \subseteq Known[p] /\ \A id \in Known[p] : id \in plan[p] \/ Settled(id)

OrderInv ==
    /\ IInv
    /\ \A id, lower \in Ids : Ever(id) /\ lower < id => Ever(lower)
    /\ \A id \in inPlace : id \in ledger \/ id \in Recorded \/ RolledBackSince(id)
    /\ \A p \in Stores : Covers(p)

\* A row of the Migrator's, and one of the Store's own, stands for an effect.
LEMMA RecordedEver ==
    ASSUME IInv, NEW id \in Ids, id \in Recorded \/ id \in ledger
    PROVE  Ever(id)
<1>1. CASE id \in ledger
  BY <1>1 DEF Ever, IInv, LedgerInPlace
<1>2. CASE id \in Recorded
  BY <1>2 DEF Ever, RolledBackSince, IInv, FreshRowsInPlace, Recorded
<1>3. QED
  BY <1>1, <1>2

\* A step takes effects away only for a tombstone and tombstones only for a row
\* of the ledger.
Replaces ==
    \/ UNCHANGED <<ledger, inPlace, tomb>>
    \/ UNCHANGED <<ledger, tomb>> /\ inPlace \subseteq inPlace'
    \/ /\ ledger \subseteq ledger' /\ inPlace \subseteq inPlace'
       /\ \A id \in Ids : tomb'[id] = "none" => tomb[id] = "none" \/ id \in ledger'
    \/ \E id \in Ids : /\ ledger' = ledger \ {id} /\ inPlace \ {id} \subseteq inPlace'
                       /\ tomb'[id] # "none"
                       /\ \A other \in Ids \ {id} : tomb'[other] = tomb[other]

LEMMA StepReplaces ==
    ASSUME IInv, [Next]_vars
    PROVE  Replaces
<1>1. ASSUME UNCHANGED db PROVE Replaces
  BY <1>1 DEF db, Replaces
<1>2. ASSUME NEW p \in Stores, AdoptNothing(p) \/ Adopt(p) \/ Sync(p) PROVE Replaces
  <2>1. CASE AdoptNothing(p)
    BY <2>1 DEF AdoptNothing, Replaces
  <2>2. CASE Adopt(p)
    BY <2>2 DEF Adopt, Cleared, Replaces
  <2>3. CASE Sync(p)
    <3>1. /\ ledger' = ledger \cup Importable(p) /\ inPlace' = inPlace
          /\ tomb' = Cleared(Importable(p))
      BY <2>3 DEF Sync
    <3>2. QED
      BY <3>1 DEF Cleared, Replaces
  <2>4. QED
    BY <1>2, <2>1, <2>2, <2>3
<1>3. ASSUME NEW p \in Stores, NEW id \in Ids, ImportApplied(p, id) PROVE Replaces
  BY <1>3 DEF ImportApplied, Cleared, Replaces
<1>4. ASSUME NEW p \in Stores, NEW id \in Ids, RunMigration(p, id) PROVE Replaces
  BY <1>4 DEF RunMigration, RunUp, Cleared, Replaces
<1>5. ASSUME NEW p \in Stores, NEW id \in Ids, RollBackOne(p, id) PROVE Replaces
  <2>1. /\ ledger' = ledger \ {id} /\ inPlace \ {id} \subseteq inPlace'
        /\ tomb' = [tomb EXCEPT ![id] = Snapshot(p, id)]
    BY <1>5 DEF RollBackOne
  <2>2. rows'[id] \in Row \cup {NoRow}
    BY <1>5 DEF RollBackOne, Unmirror, IInv, TypeOK
  <2>3. Snapshot(p, id) # "none"
    BY <2>2, StampsAssumption DEF Snapshot, Row
  <2>4. QED
    BY <2>1, <2>3 DEF Replaces, IInv, TypeOK
<1>6. ASSUME NEW o \in Olds, OldMigrate(o) PROVE Replaces
  BY <1>6 DEF OldMigrate, RunUp, Replaces
<1>7. QED
  BY <1>1, <1>2, <1>3, <1>4, <1>5, <1>6
     DEF Next, vars, Open, Migrate, ReadPending, Applied, SkipRecorded, PlanRollback,
         RolledBack, CallFails, Close, db

\* So nothing that was ever applied is forgotten.
LEMMA NothingForgotten ==
    ASSUME IInv, [Next]_vars, NEW id \in Ids
    PROVE  (Ever(id) => Ever(id)') /\ (Settled(id) => Settled(id)')
<1>1. Replaces /\ ledger' \subseteq inPlace'
  BY StepReplaces, NextIInv DEF IInv, LedgerInPlace
<1>2. QED
  BY <1>1 DEF Replaces, Ever, Settled, RolledBackSince

\* What a step adds to the ids ever applied: what it runs.
LEMMA NewlyApplied ==
    ASSUME OrderInv, [Next]_vars, NEW id \in Ids, Ever(id)', ~Ever(id)
    PROVE  \/ \E p \in Stores : RunMigration(p, id)
           \/ \E o \in Olds : OldMigrate(o) /\ id \in OldPending(o)
<1>1. id \notin inPlace /\ tomb[id] = "none" /\ (id \in inPlace' \/ tomb'[id] # "none")
  BY DEF Ever, RolledBackSince
<1> SUFFICES ASSUME ~\E p \in Stores : RunMigration(p, id),
                    ~\E o \in Olds : OldMigrate(o) /\ id \in OldPending(o)
             PROVE  FALSE
  OBVIOUS
<1>2. ASSUME inPlace' \subseteq inPlace, tomb'[id] \in {tomb[id], "none"} PROVE FALSE
  BY <1>1, <1>2
<1>3. ASSUME NEW p \in Stores, AdoptNothing(p) \/ Adopt(p) \/ Sync(p) PROVE FALSE
  BY <1>2, <1>3 DEF AdoptNothing, Adopt, Sync, Cleared
<1>4. ASSUME NEW p \in Stores, NEW other \in Ids, ImportApplied(p, other) PROVE FALSE
  BY <1>2, <1>4 DEF ImportApplied, Cleared
<1>5. ASSUME NEW p \in Stores, NEW other \in Ids, RunMigration(p, other) PROVE FALSE
  <2>1. other # id
    BY <1>5
  <2>2. inPlace' = inPlace \cup {other} /\ tomb' = Cleared({other})
    BY <1>5 DEF RunMigration, RunUp
  <2>3. QED
    BY <1>1, <2>1, <2>2 DEF Cleared
<1>6. ASSUME NEW p \in Stores, NEW other \in Ids, RollBackOne(p, other) PROVE FALSE
  <2>1. Settled(other)
    BY <1>6 DEF RollBackOne, OrderInv, Covers
  <2>2. other # id
    BY <1>1, <2>1 DEF Settled, RolledBackSince, OrderInv, IInv, LedgerInPlace
  <2>3. inPlace' \subseteq inPlace /\ tomb'[id] = tomb[id]
    BY <1>6, <2>2 DEF RollBackOne, OrderInv, IInv, TypeOK
  <2>4. QED
    BY <1>2, <2>3
<1>7. ASSUME NEW o \in Olds, OldMigrate(o) PROVE FALSE
  <2>1. id \notin OldPending(o) /\ inPlace' = inPlace \cup OldPending(o) /\ tomb' = tomb
    BY <1>7 DEF OldMigrate, RunUp
  <2>2. QED
    BY <1>1, <2>1
<1>8. ASSUME UNCHANGED db PROVE FALSE
  BY <1>2, <1>8 DEF db
<1>9. QED
  BY <1>3, <1>4, <1>5, <1>6, <1>7, <1>8
     DEF Next, vars, Open, Migrate, ReadPending, Applied, SkipRecorded, PlanRollback,
         RolledBack, CallFails, Close, db

\* An id is only ever applied behind all lower ones.
LEMMA OrderKept ==
    ASSUME OneList, OrderInv, [Next]_vars, NEW id \in Ids, NEW lower \in Ids,
           Ever(id)', lower < id
    PROVE  Ever(lower)'
<1>1. SUFFICES ASSUME ~Ever(lower) PROVE Ever(lower)'
  BY NothingForgotten DEF OrderInv
<1>2. ~Ever(id)
  BY <1>1 DEF OrderInv
<1>3. ASSUME NEW p \in Stores, RunMigration(p, id) PROVE FALSE
  \* The plan is worked off in order, so the lower one was settled before.
  <2>1. /\ Applying(p) /\ plan[p] # Unread /\ id \in plan[p]
        /\ \A other \in plan[p] : id <= other
    BY <1>3 DEF RunMigration, IsNext
  <2>2. id \in Known[p]
    BY <2>1 DEF OrderInv, Covers
  <2>3. lower \in Known[p]
    BY <2>2 DEF OneList
  <2>4. lower \notin plan[p]
    BY <2>1, IdsAssumption
  <2>5. Settled(lower)
    BY <2>1, <2>3, <2>4 DEF OrderInv, Covers
  <2>6. QED
    BY <1>1, <2>5 DEF Settled, Ever, OrderInv, IInv, LedgerInPlace
<1>4. ASSUME NEW o \in Olds, OldMigrate(o), id \in OldPending(o) PROVE Ever(lower)'
  \* An old program runs all it knows above the last row, and no row is above
  \* an id that was never applied.
  <2>1. lower \in OldKnown[o]
    BY <1>4 DEF OldPending, OneList
  <2>2. \A latest \in Recorded : lower > latest
    <3> SUFFICES ASSUME NEW latest \in Recorded, ~(lower > latest) PROVE FALSE
      OBVIOUS
    <3>1. latest \in Ids /\ Ever(latest)
      BY RecordedEver DEF Recorded, OrderInv
    <3>2. latest = lower \/ lower < latest
      BY <3>1, IdsAssumption
    <3>3. QED
      BY <1>1, <3>1, <3>2 DEF OrderInv
  <2>3. lower \in inPlace'
    BY <1>4, <2>1, <2>2 DEF OldPending, OldMigrate, RunUp
  <2>4. QED
    BY <2>3 DEF Ever
<1>5. QED
  BY <1>2, <1>3, <1>4, NewlyApplied

\* Every effect has a row or a tombstone.
LEMMA EffectsRecorded ==
    ASSUME OrderInv, [Next]_vars, NEW id \in inPlace'
    PROVE  id \in ledger' \/ id \in Recorded' \/ RolledBackSince(id)'
<1>0. IInv' /\ id \in Ids
  BY NextIInv DEF OrderInv, IInv, TypeOK
<1>1. SUFFICES ASSUME id \notin ledger', tomb'[id] = "none" PROVE rows'[id] # NoRow
  BY <1>0 DEF Recorded, RolledBackSince
<1>2. ~Settled(id)
  BY <1>0, <1>1, NothingForgotten DEF OrderInv, Settled, RolledBackSince
<1>3. id \in inPlace => rows[id] # NoRow
  BY <1>2 DEF OrderInv, Settled, Recorded
<1>4. ASSUME rows'[id] = rows[id], inPlace' \subseteq inPlace PROVE rows'[id] # NoRow
  BY <1>3, <1>4
<1>5. ASSUME UNCHANGED db PROVE rows'[id] # NoRow
  BY <1>4, <1>5 DEF db
<1>6. ASSUME NEW p \in Stores, AdoptNothing(p) \/ Adopt(p) PROVE rows'[id] # NoRow
  BY <1>4, <1>6 DEF AdoptNothing, Adopt
<1>7. ASSUME NEW p \in Stores, Sync(p) PROVE rows'[id] # NoRow
  <2>1. PICK at \in Stamps : rows' = Export(p, at)
    BY <1>7 DEF Sync
  <2>2. rows'[id] = rows[id]
    BY <1>0, <1>1, <2>1 DEF Export
  <2>3. QED
    BY <1>4, <1>7, <2>2 DEF Sync
<1>8. ASSUME NEW p \in Stores, NEW other \in Ids, ImportApplied(p, other)
      PROVE  rows'[id] # NoRow
  BY <1>4, <1>8 DEF ImportApplied
<1>9. ASSUME NEW p \in Stores, NEW other \in Ids, RunMigration(p, other)
      PROVE  rows'[id] # NoRow
  <2>1. ledger' = ledger \cup {other} /\ inPlace' = inPlace \cup {other}
    BY <1>9 DEF RunMigration, RunUp
  <2>2. other # id
    BY <1>1, <2>1
  <2>3. PICK at \in Stamps : rows' = Mirrored(p, other, at)
    BY <1>9 DEF RunMigration
  <2>4. rows'[id] = rows[id]
    BY <1>0, <2>2, <2>3 DEF Mirrored, OrderInv, IInv, TypeOK
  <2>5. QED
    BY <1>3, <2>1, <2>2, <2>4
<1>10. ASSUME NEW p \in Stores, NEW other \in Ids, RollBackOne(p, other)
       PROVE  rows'[id] # NoRow
  <2>1. other # id
    <3> SUFFICES ASSUME other = id PROVE FALSE
      OBVIOUS
    <3>1. Settled(id)
      BY <1>10 DEF RollBackOne, OrderInv, Covers
    <3>2. QED
      BY <1>2, <3>1
  <2>2. rows'[id] = rows[id] /\ inPlace' \subseteq inPlace
    BY <1>0, <1>10, <2>1 DEF RollBackOne, Unmirror, OrderInv, IInv, TypeOK
  <2>3. QED
    BY <1>4, <2>2
<1>11. ASSUME NEW o \in Olds, OldMigrate(o) PROVE rows'[id] # NoRow
  <2>1. PICK at \in Stamps :
            rows' = [i \in Ids |-> IF i \in OldPending(o)
                                   THEN [at |-> at, name |-> "old"] ELSE rows[i]]
    BY <1>11 DEF OldMigrate
  <2>2. inPlace' = inPlace \cup OldPending(o)
    BY <1>11 DEF OldMigrate, RunUp
  <2>3. [at |-> at, name |-> "old"] # NoRow
    BY StampsAssumption DEF Row
  <2>4. QED
    BY <1>0, <1>3, <2>1, <2>2, <2>3
<1>12. QED
  BY <1>5, <1>6, <1>7, <1>8, <1>9, <1>10, <1>11
     DEF Next, vars, Open, Migrate, ReadPending, Applied, SkipRecorded, PlanRollback,
         RolledBack, CallFails, Close, db

\* What a Store counts on stays true, and it counts on nothing more than that.
LEMMA CoversKept ==
    ASSUME OrderInv, [Next]_vars, NEW q \in Stores
    PROVE  Covers(q)'
<1>1. IInv /\ Covers(q)
  BY DEF OrderInv
<1>2. \A id \in Ids : Settled(id) => Settled(id)'
  BY <1>1, NothingForgotten
<1>3. Known[q] \subseteq Ids
  BY ProgramsAssumption
<1>4. ASSUME pc'[q] = pc[q], plan'[q] = plan[q] PROVE Covers(q)'
  <2>1. plan[q] # Unread => plan[q] \subseteq Ids
    BY <1>1 DEF IInv, TypeOK
  <2>2. pc[q] = "rollback" => plan[q] # Unread
    BY <1>1 DEF IInv, TypeOK
  <2>3. QED
    BY <1>1, <1>2, <1>3, <1>4, <2>1, <2>2 DEF Covers, Applying
<1>5. ASSUME NEW where \in {"closed", "adopt", "sync", "build"}, Goto(q, where)
      PROVE  Covers(q)'
  <2>1. pc'[q] = where /\ plan'[q] = Unread
    BY <1>1, <1>5 DEF Goto, IInv, TypeOK
  <2>2. QED
    BY <2>1 DEF Covers
<1>6. ASSUME NEW where \in {"open", "migrate"}, Goto(q, where),
             \A id \in Known[q] : Settled(id)
      PROVE  Covers(q)'
  <2>1. pc'[q] = where /\ plan'[q] = Unread
    BY <1>1, <1>6 DEF Goto, IInv, TypeOK
  <2>2. QED
    BY <1>2, <1>3, <1>6, <2>1 DEF Covers
<1>7. ASSUME NEW id \in Ids, Tick(q, id), plan[q] # Unread, Applying(q) => Settled(id)'
      PROVE  Covers(q)'
  <2>1. pc' = pc /\ plan'[q] = plan[q] \ {id} /\ plan[q] \subseteq Ids
    BY <1>1, <1>7 DEF Tick, IInv, TypeOK
  <2>2. pc[q] \in {"open", "migrate", "rollback"} => \A i \in Known[q] : Settled(i)'
    BY <1>1, <1>2, <1>3 DEF Covers
  <2>3. pc[q] = "rollback" => \A i \in plan'[q] : Settled(i)'
    BY <1>1, <1>2, <2>1 DEF Covers
  <2>4. Applying(q) => plan'[q] \subseteq Known[q] /\ \A i \in Known[q] : i \in plan'[q] \/ Settled(i)'
    <3>1. SUFFICES ASSUME Applying(q), NEW i \in Known[q], i \notin plan'[q] PROVE Settled(i)'
      BY <1>1, <1>7, <2>1 DEF Covers
    <3>2. CASE i = id
      BY <1>7, <3>1, <3>2
    <3>3. CASE i # id
      <4>1. i \notin plan[q]
        BY <2>1, <3>1, <3>3
      <4>2. Settled(i)
        BY <1>1, <1>7, <3>1, <4>1 DEF Covers
      <4>3. QED
        BY <1>2, <1>3, <4>2
    <3>4. QED
      BY <3>2, <3>3
  <2>5. QED
    BY <2>1, <2>2, <2>3, <2>4 DEF Covers, Applying
<1>8. ASSUME NEW p \in Stores, p # q,
             \/ \E where : Goto(p, where)
             \/ \E id \in Ids : Tick(p, id)
             \/ ReadPending(p)
             \/ \E toId \in Ids \cup {0} : PlanRollback(p, toId)
      PROVE  Covers(q)'
  BY <1>1, <1>4, <1>8 DEF Goto, Tick, ReadPending, PlanRollback, IInv, TypeOK
<1>9. ASSUME Open(q) \/ AdoptNothing(q) \/ Adopt(q) \/ Sync(q) \/ Close(q) PROVE Covers(q)'
  <2>1. AfterAdoption(q) \in {"sync", "build"}
    BY DEF AfterAdoption
  <2>2. QED
    BY <1>5, <1>9, <2>1 DEF Open, AdoptNothing, Adopt, Sync, Close
<1>10. ASSUME Migrate(q) \/ Applied(q) \/ RolledBack(q) \/ CallFails(q) PROVE Covers(q)'
  <2>1. \A id \in Known[q] : Settled(id)
    <3>1. CASE Applied(q)
      BY <1>1, <3>1, StampsAssumption DEF Applied, Covers
    <3>2. CASE ~Applied(q)
      BY <1>1, <1>10, <3>2 DEF Migrate, RolledBack, CallFails, Covers
    <3>3. QED
      BY <3>1, <3>2
  <2>2. QED
    BY <1>6, <1>10, <2>1 DEF Migrate, Applied, RolledBack, CallFails
<1>11. ASSUME ReadPending(q) PROVE Covers(q)'
  <2>1. pc' = pc /\ plan'[q] = Known[q] \ ledger /\ ledger' = ledger /\ pc[q] # "rollback"
    BY <1>1, <1>11 DEF ReadPending, Applying, IInv, TypeOK, db
  <2>2. pc[q] \in {"open", "migrate", "rollback"} => \A i \in Known[q] : Settled(i)'
    BY <1>1, <1>2, <1>3 DEF Covers
  <2>3. \A i \in Known[q] : i \in plan'[q] \/ Settled(i)'
    BY <2>1 DEF Settled
  <2>4. QED
    BY <2>1, <2>2, <2>3 DEF Covers
<1>12. ASSUME NEW id \in Ids, SkipRecorded(q, id) \/ ImportApplied(q, id) \/ RunMigration(q, id)
       PROVE  Covers(q)'
  <2>1. Tick(q, id) /\ plan[q] # Unread /\ id \in ledger'
    BY <1>12 DEF SkipRecorded, ImportApplied, RunMigration, IsNext, db
  <2>2. QED
    BY <1>7, <2>1 DEF Settled
<1>13. ASSUME NEW toId \in Ids \cup {0}, PlanRollback(q, toId) PROVE Covers(q)'
  <2>1. pc[q] = "open" /\ pc'[q] = "rollback" /\ plan'[q] \subseteq ledger /\ ledger' = ledger
    BY <1>1, <1>13 DEF PlanRollback, RollbackPlan, IInv, TypeOK, db
  <2>2. \A i \in Known[q] : Settled(i)'
    BY <1>1, <1>2, <1>3, <2>1 DEF Covers
  <2>3. \A i \in plan'[q] : Settled(i)'
    BY <2>1 DEF Settled
  <2>4. QED
    BY <2>1, <2>2, <2>3 DEF Covers, Applying
<1>14. ASSUME NEW id \in Ids, RollBackOne(q, id) PROVE Covers(q)'
  <2>1. Tick(q, id) /\ plan[q] # Unread /\ ~Applying(q)
    BY <1>1, <1>14 DEF RollBackOne, Applying, IInv, TypeOK
  <2>2. QED
    BY <1>7, <2>1
<1>15. ASSUME NEW o \in Olds, OldMigrate(o) PROVE Covers(q)'
  BY <1>4, <1>15 DEF OldMigrate
<1>16. CASE UNCHANGED vars
  BY <1>4, <1>16 DEF vars
<1>17. ASSUME NEW p \in Stores, p # q,
              \/ Open(p) \/ AdoptNothing(p) \/ Adopt(p) \/ Sync(p)
              \/ Migrate(p) \/ Applied(p) \/ RolledBack(p) \/ CallFails(p) \/ Close(p)
       PROVE  Covers(q)'
  BY <1>8, <1>17
     DEF Open, AdoptNothing, Adopt, Sync, Migrate, Applied, RolledBack, CallFails, Close
<1>18. ASSUME NEW p \in Stores, p # q, NEW id \in Ids,
              \/ SkipRecorded(p, id) \/ ImportApplied(p, id)
              \/ RunMigration(p, id) \/ RollBackOne(p, id)
       PROVE  Covers(q)'
  BY <1>8, <1>18 DEF SkipRecorded, ImportApplied, RunMigration, RollBackOne
<1>19. QED
  BY <1>8, <1>9, <1>10, <1>11, <1>12, <1>13, <1>14, <1>15, <1>16, <1>17, <1>18 DEF Next

LEMMA OrderHolds == ASSUME OneList PROVE Spec => []OrderInv
<1>1. Init => OrderInv
  BY InitIInv DEF Init, OrderInv, Ever, RolledBackSince, Covers, Applying
<1>2. OrderInv /\ [Next]_vars => OrderInv'
  <2> SUFFICES ASSUME OrderInv, [Next]_vars PROVE OrderInv'
    OBVIOUS
  <2>1. IInv'
    BY NextIInv DEF OrderInv
  <2>2. \A id, lower \in Ids : Ever(id)' /\ lower < id => Ever(lower)'
    BY OrderKept
  <2>3. \A id \in inPlace' : id \in ledger' \/ id \in Recorded' \/ RolledBackSince(id)'
    BY EffectsRecorded
  <2>4. \A p \in Stores : Covers(p)'
    BY CoversKept
  <2>5. QED
    BY <2>1, <2>2, <2>3, <2>4 DEF OrderInv
<1>3. QED
  BY <1>1, <1>2, PTL DEF Spec

\* Whoever applies migrations and in whatever interleaving, no id takes effect
\* before a lower one, and an open Store is migrated; what is missing has been
\* rolled back. It suffices that every program's list is a version of the one
\* list (migrator.ts:246-270).
THEOREM MigratesInOrder == ASSUME OneList PROVE Spec => []OpensComplete
<1>1. OrderInv => OpensComplete
  BY DEF OrderInv, OpensComplete, InIdOrder, OpenIsMigrated, Ever, Settled, Covers,
         IInv, TypeOK
<1>2. QED
  BY <1>1, OrderHolds, PTL

\* While no rollback stands, the gap rule and the judgement of the Migrator's
\* rows turn away no Store that knows every migration (migrator.ts:531).
THEOREM NobodyTurnedAway == ASSUME OneList PROVE Spec => []NeverRefused
<1>1. OrderInv => NeverRefused
  <2> SUFFICES ASSUME OrderInv, \A id \in Ids : ~RolledBackSince(id),
                      \A id \in Recorded : SameName(id), NEW p \in Stores, Known[p] = Ids
               PROVE  /\ pc[p] = "sync" => Syncable(p)
                      /\ pc[p] = "adopt" /\ ledger = {} => Seedable(p)
    BY DEF NeverRefused
  <2>1. Recorded \subseteq Ids
    BY DEF Recorded
  <2>2. \A id \in Recorded : Judge(id) = "import"
    BY <2>1 DEF Judge, RolledBackSince
  <2>3. \A id \in Recorded, lower \in Ids : lower <= id => lower \in ledger \cup Recorded
    <3> SUFFICES ASSUME NEW id \in Recorded, NEW lower \in Ids, lower <= id
                 PROVE  lower \in ledger \cup Recorded
      OBVIOUS
    <3>1. CASE lower = id
      BY <3>1
    <3>2. CASE lower # id
      <4>1. lower < id
        BY <2>1, <3>2, IdsAssumption
      <4>2. Ever(id)
        BY <2>1, RecordedEver DEF OrderInv
      <4>3. Ever(lower)
        BY <2>1, <4>1, <4>2 DEF OrderInv
      <4>4. QED
        BY <4>3 DEF Ever, OrderInv
    <3>3. QED
      BY <3>1, <3>2
  <2>4. Syncable(p)
    BY <2>1, <2>2, <2>3 DEF Syncable, Importable, GapFree
  <2>5. ledger = {} => Seedable(p)
    BY <2>1, <2>2, <2>3 DEF Seedable, GapFree
  <2>6. QED
    BY <2>4, <2>5
<1>2. QED
  BY <1>1, OrderHolds, PTL

----------------------------------------------------------------------------
(* The cache.                                                               *)

\* The cache counts as everybody does.
LEMMA CacheCounts == ASSUME NEW S PROVE Cache!Cardinality(S) = Cardinality(S)
  BY DEF Cache!Cardinality, Cardinality

Entry == [rowid : 1..MaxRowid, until : Nat]
Calls == [op : {"none", "set", "expire"}, key : Keys \cup {<<>>}, until : Nat]

Shapes ==
  /\ entries \in [Cache!Held -> Entry] /\ IsFiniteSet(Cache!Held) /\ clock \in Nat
  /\ call \in [Readers \cup Writers -> Calls]
  /\ \A key \in DOMAIN written : written[key].until \in Nat /\ IsFiniteSet(written[key].since)
  /\ Cache!Held \cup removed \cup overtaken \subseteq DOMAIN written

\* The order of rowids is the order of the last writes.
ByRowid ==
  \A key, other \in Cache!Held : key # other =>
    /\ entries[key].rowid # entries[other].rowid
    /\ entries[other].rowid > entries[key].rowid => other \in written[key].since

Bounded == Cardinality(Cache!Held) <= MaxEntries

IsLastWrite == \A key \in Cache!Held : entries[key].until = written[key].until

\* Who is about to delete a key found its last write expired, or was overtaken.
Excused ==
  \A f \in Readers : call[f].op = "expire" =>
    /\ call[f].key \in DOMAIN written
    /\ call[f].key \in overtaken \/ Cache!Expired(written[call[f].key])

StillHeld == Cache!Wanted \ overtaken \subseteq Cache!Held

CacheInv == Shapes /\ ByRowid /\ Bounded /\ IsLastWrite /\ Excused /\ StillHeld

\* What the constants are: maxEntries is a positive integer, lifetimes are not
\* negative.
SensibleCache == MaxEntries \in Nat \ {0} /\ Ttls \subseteq Nat /\ MaxRowid \in Nat
----------------------------------------------------------------------------
LEMMA InitCacheInv == ASSUME SensibleCache PROVE Cache!Init => CacheInv
<1> SUFFICES ASSUME Cache!Init PROVE CacheInv
  OBVIOUS
<1>1. Cache!Held = {} /\ DOMAIN written = {} /\ IsFiniteSet({}) /\ Cardinality({}) = 0
  BY FS_EmptySet DEF Cache!Init, Cache!Nothing, Cache!Held
<1>2. entries \in [Cache!Held -> Entry] /\ call \in [Readers \cup Writers -> Calls]
  BY <1>1 DEF Cache!Init, Cache!Nothing, Cache!Held, Cache!Idle, Calls
<1>3. Shapes
  BY <1>1, <1>2 DEF Cache!Init, Shapes
<1>4. ByRowid /\ IsLastWrite /\ StillHeld /\ Excused
  BY <1>1 DEF Cache!Init, ByRowid, IsLastWrite, StillHeld, Cache!Wanted, Excused, Cache!Idle
<1>5. Bounded
  BY <1>1 DEF Bounded, SensibleCache
<1>6. QED
  BY <1>3, <1>4, <1>5 DEF CacheInv

\* Fewer rows, when each that goes is given up for a reason.
LEMMA FewerRows ==
  ASSUME SensibleCache, CacheInv, NEW keys,
         entries' = Cache!Without(entries, keys), UNCHANGED <<clock, written, overtaken>>,
         removed \subseteq removed', removed' \subseteq DOMAIN written,
         \A key \in Cache!Held \cap keys : key \in Cache!Wanted => key \in overtaken \cup removed',
         call' \in [Readers \cup Writers -> Calls],
         \A f \in Readers : call'[f].op = "expire" => call'[f] = call[f]
  PROVE  CacheInv'
<1>1. Cache!Held' = Cache!Held \ keys /\ \A key \in Cache!Held' : entries'[key] = entries[key]
  BY DEF Cache!Without, Cache!Restrict, Cache!Held
<1>2. IsFiniteSet(Cache!Held') /\ Cardinality(Cache!Held') <= Cardinality(Cache!Held)
  BY <1>1, FS_Subset DEF CacheInv, Shapes
<1>3. entries' \in [Cache!Held' -> Entry]
  BY <1>1 DEF Cache!Without, Cache!Restrict, Cache!Held, CacheInv, Shapes
<1>4. Shapes'
  BY <1>1, <1>2, <1>3 DEF CacheInv, Shapes
<1>5. ByRowid' /\ IsLastWrite'
  BY <1>1 DEF CacheInv, ByRowid, IsLastWrite
<1>6. Bounded'
  <2>1. Cardinality(Cache!Held) \in Nat /\ Cardinality(Cache!Held') \in Nat
    BY <1>2, FS_CardinalityType DEF CacheInv, Shapes
  <2>2. QED
    BY <1>2, <2>1 DEF CacheInv, Bounded, SensibleCache
<1>7. Excused'
  BY DEF CacheInv, Excused, Cache!Expired
<1>8. StillHeld'
  <2>1. Cache!Wanted' \subseteq Cache!Wanted
    BY DEF Cache!Wanted, Cache!Expired
  <2>2. \A key \in Cache!Wanted' : key \notin removed'
    BY DEF Cache!Wanted
  <2>3. QED
    BY <1>1, <2>1, <2>2 DEF CacheInv, StillHeld
<1>9. QED
  BY <1>4, <1>5, <1>6, <1>7, <1>8 DEF CacheInv

\* A fiber's own step: the table and its history stay.
LEMMA OwnStep ==
  ASSUME SensibleCache, CacheInv, UNCHANGED <<entries, clock, written, removed, overtaken>>,
         call' \in [Readers \cup Writers -> Calls], Excused'
  PROVE  CacheInv'
<1>1. Cache!Held' = Cache!Held /\ Cache!Wanted' = Cache!Wanted
  BY DEF Cache!Held, Cache!Wanted, Cache!Expired
<1>2. QED
  BY <1>1 DEF CacheInv, Shapes, ByRowid, Bounded, IsLastWrite, StillHeld

LEMMA OwnStepIInv ==
  ASSUME SensibleCache, CacheInv, NEW f \in Readers \cup Writers,
         Cache!Quit(f) \/ (\E key \in Keys, ttl \in Ttls : Cache!BeginSet(f, key, ttl))
                 \/ (f \in Readers /\ \E key \in Keys : Cache!Read(f, key))
  PROVE  CacheInv'
<1> USE DEF SensibleCache
<1>0. Cache!Idle \in Calls
  BY DEF Cache!Idle, Calls
<1>1. CASE Cache!Quit(f)
  <2>1. call' = [call EXCEPT ![f] = Cache!Idle] /\ UNCHANGED <<entries, clock, written, removed, overtaken>>
    BY <1>1 DEF Cache!Quit
  <2>2. call' \in [Readers \cup Writers -> Calls]
    BY <1>0, <2>1 DEF CacheInv, Shapes
  <2>3. \A g \in Readers : call'[g].op = "expire" => call'[g] = call[g]
    BY <2>1 DEF CacheInv, Shapes, Cache!Idle
  <2>4. Excused'
    BY <2>1, <2>3 DEF CacheInv, Excused, Cache!Expired
  <2>5. QED
    BY <2>1, <2>2, <2>4, OwnStep
<1>2. ASSUME NEW key \in Keys, NEW ttl \in Ttls, Cache!BeginSet(f, key, ttl) PROVE CacheInv'
  <2> DEFINE new == [op |-> "set", key |-> key, until |-> clock + ttl]
  <2>1. call' = [call EXCEPT ![f] = new] /\ UNCHANGED <<entries, clock, written, removed, overtaken>>
    BY <1>2 DEF Cache!BeginSet
  <2>2. new \in Calls /\ new.op # "expire"
    BY DEF Calls, CacheInv, Shapes
  <2> HIDE DEF new
  <2>3. call' \in [Readers \cup Writers -> Calls]
    BY <2>1, <2>2 DEF CacheInv, Shapes
  <2>4. \A g \in Readers : call'[g].op = "expire" => call'[g] = call[g]
    BY <2>1, <2>2 DEF CacheInv, Shapes
  <2>5. Excused'
    BY <2>1, <2>4 DEF CacheInv, Excused, Cache!Expired
  <2>6. QED
    BY <2>1, <2>3, <2>5, OwnStep
<1>3. ASSUME f \in Readers, NEW key \in Keys, Cache!Read(f, key) PROVE CacheInv'
  <2> DEFINE new == [op |-> "expire", key |-> key, until |-> 0]
  <2>1. call' = [call EXCEPT ![f] = new] /\ UNCHANGED <<entries, clock, written, removed, overtaken>>
        /\ key \in Cache!Held /\ Cache!Expired(entries[key])
    BY <1>3 DEF Cache!Read
  <2>2. new \in Calls /\ new.key = key
    BY DEF Calls
  <2> HIDE DEF new
  <2>3. call' \in [Readers \cup Writers -> Calls]
    BY <2>1, <2>2 DEF CacheInv, Shapes
  <2>4. \A g \in Readers : call'[g] = IF g = f THEN new ELSE call[g]
    BY <2>1 DEF CacheInv, Shapes
  <2>5. key \in DOMAIN written /\ Cache!Expired(written[key])
    BY <2>1 DEF CacheInv, Shapes, IsLastWrite, Cache!Expired
  <2>6. Excused'
    BY <2>1, <2>2, <2>4, <2>5 DEF CacheInv, Excused, Cache!Expired
  <2>7. QED
    BY <2>1, <2>3, <2>6, OwnStep
<1>4. QED
  BY <1>1, <1>2, <1>3
----------------------------------------------------------------------------
\* The deletion of what a read found expired.
LEMMA ExpireIInv ==
  ASSUME SensibleCache, CacheInv, NEW f \in Readers, Cache!Expire(f) PROVE CacheInv'
<1>1. /\ call[f].op = "expire" /\ entries' = Cache!Without(entries, {call[f].key})
      /\ call' = [call EXCEPT ![f] = Cache!Idle] /\ UNCHANGED <<clock, written, removed, overtaken>>
  BY DEF Cache!Expire
<1>2. call[f].key \in Cache!Wanted => call[f].key \in overtaken
  BY <1>1 DEF CacheInv, Excused, Cache!Wanted
<1>3. call' \in [Readers \cup Writers -> Calls]
  BY <1>1 DEF CacheInv, Shapes, Cache!Idle, Calls
<1>4. \A g \in Readers : call'[g].op = "expire" => call'[g] = call[g]
  BY <1>1 DEF CacheInv, Shapes, Cache!Idle
<1>5. removed' \subseteq DOMAIN written
  BY <1>1 DEF CacheInv, Shapes
<1>6. QED
  BY <1>1, <1>2, <1>3, <1>4, <1>5, FewerRows

\* The removals and prune.
LEMMA RemovalIInv ==
  ASSUME SensibleCache, CacheInv,
         (\E keys \in SUBSET Cache!Held : Cache!Clear(keys)) \/ Cache!Prune
  PROVE  CacheInv'
<1>1. ASSUME NEW keys \in SUBSET Cache!Held, Cache!Clear(keys) PROVE CacheInv'
  <2>1. /\ entries' = Cache!Without(entries, keys) /\ removed' = removed \cup keys
        /\ UNCHANGED <<clock, call, written, overtaken>>
    BY <1>1 DEF Cache!Clear
  <2>2. removed' \subseteq DOMAIN written /\ call' \in [Readers \cup Writers -> Calls]
    BY <2>1 DEF CacheInv, Shapes
  <2>3. QED
    BY <2>1, <2>2, FewerRows
<1>2. CASE Cache!Prune
  <2>1. entries' = Cache!Without(entries, Cache!Sweepable) /\ UNCHANGED <<clock, call, written, removed, overtaken>>
    BY <1>2 DEF Cache!Prune
  <2>2. \A key \in Cache!Sweepable : key \notin Cache!Wanted
    BY DEF Cache!Sweepable, Cache!Wanted, CacheInv, IsLastWrite, Cache!Expired
  <2>3. removed' \subseteq DOMAIN written /\ call' \in [Readers \cup Writers -> Calls]
    BY <2>1 DEF CacheInv, Shapes
  <2>4. QED
    BY <2>1, <2>2, <2>3, FewerRows
<1>3. QED
  BY <1>1, <1>2

LEMMA TickIInv == ASSUME SensibleCache, CacheInv, Cache!Tick PROVE CacheInv'
<1>1. clock' = clock + 1 /\ UNCHANGED <<entries, call, written, removed, overtaken>> /\ clock \in Nat
  BY DEF Cache!Tick, CacheInv, Shapes
<1>2. Cache!Held' = Cache!Held
  BY <1>1 DEF Cache!Held
<1>3. \A key \in DOMAIN written : Cache!Expired(written[key]) => Cache!Expired(written[key])'
  BY <1>1 DEF Cache!Expired, CacheInv, Shapes
<1>4. Cache!Wanted' \subseteq Cache!Wanted
  BY <1>1, <1>3 DEF Cache!Wanted
<1>5. Shapes' /\ ByRowid' /\ Bounded' /\ IsLastWrite'
  BY <1>1, <1>2 DEF CacheInv, Shapes, ByRowid, Bounded, IsLastWrite
<1>6. Excused'
  BY <1>1, <1>3 DEF CacheInv, Excused
<1>7. StillHeld'
  BY <1>1, <1>2, <1>4 DEF CacheInv, StillHeld
<1>8. QED
  BY <1>5, <1>6, <1>7 DEF CacheInv
----------------------------------------------------------------------------
(* A write.                                                                *)

\* The next rowid is above all.
LEMMA NextRowidAbove ==
  ASSUME SensibleCache, CacheInv
  PROVE  /\ Cache!NextRowid(entries) \in Nat \ {0}
         /\ \A key \in Cache!Held : entries[key].rowid < Cache!NextRowid(entries)
<1> DEFINE S == {0} \cup {entries[key].rowid : key \in Cache!Held}
<1> DEFINE D == {d \in Nat : \E s \in S : s + d = MaxRowid}
<1>1. \A s \in S : s \in 0..MaxRowid
  BY DEF SensibleCache, CacheInv, Shapes, Entry
<1>2. MaxRowid \in D
  BY DEF SensibleCache
<1>3. PICK d \in D : \A e \in D : ~(<<e, d>> \in OpToRel(<, Nat))
  BY <1>2, NatLessThanWellFounded, WFMin
<1>4. \A e \in D : d <= e
  <2> SUFFICES ASSUME NEW e \in D PROVE d <= e
    OBVIOUS
  <2>1. e \in Nat /\ d \in Nat
    OBVIOUS
  <2>2. ~(e < d)
    BY <1>3, <2>1 DEF OpToRel
  <2>3. QED
    BY <2>1, <2>2
<1>5. PICK m \in S : m + d = MaxRowid
  OBVIOUS
<1>6. \A s \in S : m >= s
  <2> SUFFICES ASSUME NEW s \in S PROVE m >= s
    OBVIOUS
  <2>1. MaxRowid - s \in D
    BY <1>1 DEF SensibleCache
  <2>2. QED
    BY SMTT(30), <1>1, <1>4, <1>5, <2>1 DEF SensibleCache
<1>7. Cache!Max(S) \in S /\ \A s \in S : Cache!Max(S) >= s
  <2> HIDE DEF S
  <2>1. QED
    BY <1>6 DEF Cache!Max
<1>8. Cache!NextRowid(entries) = 1 + Cache!Max(S)
  BY DEF Cache!NextRowid, Cache!Held
<1>9. \A key \in Cache!Held : entries[key].rowid \in S
  OBVIOUS
<1> HIDE DEF S
<1>10. Cache!Max(S) \in Nat /\ \A key \in Cache!Held : entries[key].rowid \in Nat /\ entries[key].rowid <= Cache!Max(S)
  BY <1>1, <1>7, <1>9
<1>11. QED
  BY <1>8, <1>10

\* What is evicted has as many keys written since as the table has room for,
\* and what is left fits.
LEMMA EvictionFits ==
  ASSUME SensibleCache, NEW table, IsFiniteSet(DOMAIN table),
         \A key \in DOMAIN table : table[key].rowid \in Nat,
         \A key, other \in DOMAIN table : key # other => table[key].rowid # table[other].rowid
  PROVE  Cardinality(DOMAIN table \ Cache!Excess(table)) <= MaxEntries
<1> DEFINE left == DOMAIN table \ Cache!Excess(table)
<1>1. CASE left = {}
  BY <1>1, FS_EmptySet DEF SensibleCache
<1>2. CASE left # {}
  <2> DEFINE ids == {table[key].rowid : key \in left}
  <2>1. ids \subseteq Nat /\ ids # {}
    BY <1>2
  <2>2. PICK low \in ids : \A id \in ids : ~(<<id, low>> \in OpToRel(<, Nat))
    BY <2>1, NatLessThanWellFounded, WFMin
  <2>3. PICK key \in left : table[key].rowid = low
    OBVIOUS
  <2>4. ASSUME NEW other \in left PROVE table[other].rowid >= low
    <3> DEFINE id == table[other].rowid
    <3>1. id \in ids /\ id \in Nat /\ low \in Nat
      BY <2>1
    <3>2. ~(id < low)
      BY <2>2, <3>1 DEF OpToRel
    <3> HIDE DEF id
    <3>3. id >= low
      BY <3>1, <3>2
    <3>4. QED
      BY <3>3 DEF id
  <2>5. left \ {key} \subseteq Cache!Above(table, key)
    BY <2>3, <2>4 DEF Cache!Above
  <2>6. Cardinality(Cache!Above(table, key)) < MaxEntries /\ Cardinality(Cache!Above(table, key)) \in Nat
    <3>1. IsFiniteSet(Cache!Above(table, key))
      BY FS_Subset DEF Cache!Above
    <3>2. QED
      BY <3>1, FS_CardinalityType, CacheCounts DEF Cache!Excess, SensibleCache
  <2>7. IsFiniteSet(left) /\ IsFiniteSet(left \ {key}) /\ IsFiniteSet(Cache!Above(table, key))
    BY FS_Subset DEF Cache!Above
  <2>8. Cardinality(left \ {key}) <= Cardinality(Cache!Above(table, key))
    BY <2>5, <2>7, FS_Subset
  <2>9. Cardinality(left \ {key}) = Cardinality(left) - 1
    BY <2>7, FS_RemoveElement
  <2>10. Cardinality(left) \in Nat
    BY <2>7, FS_CardinalityType
  <2> HIDE DEF left
  <2>11. Cardinality(left) <= MaxEntries
    <3> DEFINE a == Cardinality(left)
               b == Cardinality(Cache!Above(table, key))
    <3>1. a \in Nat /\ b \in Nat /\ MaxEntries \in Nat /\ b < MaxEntries /\ a - 1 <= b
      BY <2>6, <2>8, <2>9, <2>10 DEF SensibleCache
    <3> HIDE DEF a, b
    <3>2. a <= MaxEntries
      BY <3>1
    <3>3. QED
      BY <3>2 DEF a
  <2>12. QED
    BY <2>11 DEF left
<1>3. QED
  BY <1>1, <1>2

LEMMA SetIInv == ASSUME SensibleCache, CacheInv, NEW f \in Writers, Cache!Set(f) PROVE CacheInv'
<1> DEFINE key == call[f].key
           until == call[f].until
           table == Cache!Replaced(entries, key, until)
<1>1. /\ call[f].op = "set" /\ table[key].rowid <= MaxRowid
      /\ entries' = Cache!Without(table, Cache!Excess(table)) /\ written' = Cache!Noted(key, until)
      /\ removed' = removed \ {key} /\ call' = [call EXCEPT ![f] = Cache!Idle] /\ clock' = clock
      /\ overtaken' \subseteq overtaken \cup {key} /\ overtaken \ {key} \subseteq overtaken'
      /\ (\E g \in Readers : call[g].op = "expire" /\ call[g].key = key) => key \in overtaken'
  BY DEF Cache!Set
<1>2. DOMAIN table = Cache!Held \cup {key} /\ table[key] = [rowid |-> Cache!NextRowid(entries), until |-> until]
      /\ \A k \in Cache!Held \ {key} : table[k] = entries[k]
  BY DEF Cache!Replaced, Cache!Minted, Cache!Held
<1>3. DOMAIN written' = DOMAIN written \cup {key} /\ written'[key] = [until |-> until, since |-> {}]
      /\ \A k \in DOMAIN written \ {key} :
           written'[k].until = written[k].until /\ written'[k].since = written[k].since \cup {key}
  <2>1. \A k \in DOMAIN written \ {key} :
          written'[k] = [written[k] EXCEPT !.since = @ \cup {key}]
    BY <1>1 DEF Cache!Noted
  <2>2. QED
    BY <1>1, <2>1 DEF Cache!Noted
<1>4. /\ Cache!NextRowid(entries) \in 1..MaxRowid /\ until \in Nat
      /\ \A k \in Cache!Held : entries[k].rowid < Cache!NextRowid(entries) /\ entries[k].rowid \in Nat
  <2>1. \A k \in Cache!Held : entries[k].rowid \in Nat
    BY DEF CacheInv, Shapes, Entry
  <2>2. until \in Nat
    BY DEF CacheInv, Shapes, Calls
  <2>3. Cache!NextRowid(entries) <= MaxRowid
    BY <1>1, <1>2
  <2>4. QED
    BY <2>1, <2>2, <2>3, NextRowidAbove DEF SensibleCache
<1> HIDE DEF table, key, until
<1>5. IsFiniteSet(DOMAIN table)
  BY <1>2, FS_AddElement DEF CacheInv, Shapes
<1>6. \A k \in DOMAIN table : table[k] \in Entry
  BY <1>2, <1>4 DEF CacheInv, Shapes, Entry
<1>7. \A k, other \in DOMAIN table : k # other =>
        /\ table[k].rowid # table[other].rowid
        /\ table[other].rowid > table[k].rowid => other \in written'[k].since
  <2> SUFFICES ASSUME NEW k \in DOMAIN table, NEW other \in DOMAIN table, k # other
               PROVE  /\ table[k].rowid # table[other].rowid
                      /\ table[other].rowid > table[k].rowid => other \in written'[k].since
    OBVIOUS
  <2>1. CASE k = key
    BY <1>2, <1>4, <2>1
  <2>2. CASE other = key
    BY <1>2, <1>3, <1>4, <2>2 DEF CacheInv, Shapes
  <2>3. CASE k # key /\ other # key
    BY <1>2, <1>3, <2>3 DEF CacheInv, Shapes, ByRowid
  <2>4. QED
    BY <2>1, <2>2, <2>3
<1>8. /\ Cache!Held' = DOMAIN table \ Cache!Excess(table) /\ \A k \in Cache!Held' : entries'[k] = table[k]
      /\ entries' = [k \in DOMAIN table \ Cache!Excess(table) |-> table[k]]
  BY <1>1 DEF Cache!Without, Cache!Restrict, Cache!Held
<1>9. Bounded'
  <2>1. \A k \in DOMAIN table : table[k].rowid \in Nat
    BY <1>6 DEF Entry
  <2>2. Cardinality(DOMAIN table \ Cache!Excess(table)) <= MaxEntries
    BY <1>5, <1>7, <2>1, EvictionFits
  <2>3. QED
    BY <1>8, <2>2 DEF Bounded
<1>10. Shapes'
  <2>1. entries' \in [Cache!Held' -> Entry] /\ IsFiniteSet(Cache!Held')
    BY <1>5, <1>6, <1>8, FS_Subset
  <2>2. clock' \in Nat /\ call' \in [Readers \cup Writers -> Calls]
    BY <1>1 DEF CacheInv, Shapes, Cache!Idle, Calls
  <2>3. \A k \in DOMAIN written' : written'[k].until \in Nat /\ IsFiniteSet(written'[k].since)
    <3>1. IsFiniteSet({})
      BY FS_EmptySet
    <3>2. \A k \in DOMAIN written : IsFiniteSet(written[k].since \cup {key})
      BY FS_AddElement DEF CacheInv, Shapes
    <3>3. ASSUME NEW k \in DOMAIN written'
          PROVE  written'[k].until \in Nat /\ IsFiniteSet(written'[k].since)
      <4>1. CASE k = key
        <5>1. written'[k].until = until /\ written'[k].since = {}
          BY <1>3, <4>1
        <5>2. QED
          BY <1>4, <3>1, <5>1
      <4>2. CASE k # key
        <5>1. k \in DOMAIN written
              /\ written'[k].until = written[k].until /\ written'[k].since = written[k].since \cup {key}
          BY <1>3, <4>2
        <5>2. QED
          BY <3>2, <5>1 DEF CacheInv, Shapes
      <4>3. QED
        BY <4>1, <4>2
    <3>4. QED
      BY <3>3
  <2>4. (Cache!Held \cup removed \cup overtaken \subseteq DOMAIN written)'
    BY <1>1, <1>2, <1>3, <1>8 DEF CacheInv, Shapes
  <2>5. QED
    BY <2>1, <2>2, <2>3, <2>4 DEF Shapes
<1>11. ByRowid'
  BY <1>7, <1>8 DEF ByRowid
<1>12. IsLastWrite'
  <2>1. \A k \in DOMAIN table : table[k].until = written'[k].until
    BY <1>2, <1>3 DEF CacheInv, IsLastWrite, Shapes
  <2>2. QED
    BY <1>8, <2>1 DEF IsLastWrite
<1>13. Excused'
  <2> SUFFICES ASSUME NEW g \in Readers, call'[g].op = "expire"
               PROVE  /\ call'[g].key \in DOMAIN written'
                      /\ call'[g].key \in overtaken' \/ written'[call'[g].key].until <= clock'
    BY DEF Excused, Cache!Expired
  <2>1. call'[g] = call[g]
    BY <1>1 DEF CacheInv, Shapes, Cache!Idle
  <2>2. CASE call[g].key = key
    BY <1>1, <1>3, <2>1, <2>2
  <2>3. CASE call[g].key # key
    BY <1>1, <1>3, <2>1, <2>3 DEF CacheInv, Excused, Cache!Expired
  <2>4. QED
    BY <2>2, <2>3
<1>14. StillHeld'
  <2> SUFFICES ASSUME NEW k \in Cache!Wanted', k \notin overtaken' PROVE k \in Cache!Held'
    BY DEF StillHeld
  <2>1. k \in DOMAIN written' /\ Cardinality(written'[k].since) < MaxEntries /\ k \notin removed'
        /\ ~(written'[k].until <= clock)
    BY <1>1, CacheCounts DEF Cache!Wanted, Cache!Expired
  <2>2. k \in DOMAIN table
    <3>1. CASE k = key
      BY <1>2, <3>1
    <3>2. CASE k # key
      <4>1. k \in DOMAIN written /\ k \notin removed /\ k \notin overtaken /\ ~Cache!Expired(written[k])
        BY <1>1, <1>3, <2>1, <3>2 DEF Cache!Expired
      <4>2. Cardinality(written[k].since) <= Cardinality(written'[k].since)
            /\ Cardinality(written[k].since) \in Nat /\ Cardinality(written'[k].since) \in Nat
        BY <1>3, <1>10, <3>2, <4>1, FS_Subset, FS_CardinalityType DEF CacheInv, Shapes
      <4>3. k \in Cache!Wanted
        BY <2>1, <4>1, <4>2, CacheCounts DEF Cache!Wanted, SensibleCache
      <4>4. QED
        BY <1>2, <4>1, <4>3 DEF CacheInv, StillHeld
    <3>3. QED
      BY <3>1, <3>2
  <2>3. Cache!Above(table, k) \subseteq written'[k].since
    <3>1. ASSUME NEW other \in Cache!Above(table, k) PROVE other \in written'[k].since
      <4>1. other \in DOMAIN table /\ table[other].rowid > table[k].rowid
        BY DEF Cache!Above
      <4>2. table[k].rowid \in Nat
        BY <1>6, <2>2 DEF Entry
      <4>3. QED
        BY <1>7, <2>2, <4>1, <4>2
    <3>2. QED
      BY <3>1
  <2>4. Cardinality(Cache!Above(table, k)) <= Cardinality(written'[k].since)
        /\ Cardinality(Cache!Above(table, k)) \in Nat /\ Cardinality(written'[k].since) \in Nat
    <3>1. IsFiniteSet(written'[k].since)
      BY <1>10, <2>1 DEF Shapes
    <3>2. QED
      BY <2>3, <3>1, FS_Subset, FS_CardinalityType
  <2>5. k \notin Cache!Excess(table)
    BY <2>1, <2>4, CacheCounts DEF Cache!Excess, SensibleCache
  <2>6. QED
    BY <1>8, <2>2, <2>5
<1>15. QED
  BY <1>9, <1>10, <1>11, <1>12, <1>13, <1>14 DEF CacheInv
----------------------------------------------------------------------------
LEMMA NextCacheInv == ASSUME SensibleCache PROVE CacheInv /\ [Cache!Next]_(Cache!vars) => CacheInv'
<1> SUFFICES ASSUME CacheInv, [Cache!Next]_(Cache!vars) PROVE CacheInv'
  OBVIOUS
<1>1. ASSUME NEW f \in Writers, Cache!Set(f) PROVE CacheInv'
  BY <1>1, SetIInv
<1>2. ASSUME NEW f \in Writers, Cache!Quit(f) \/ \E key \in Keys, ttl \in Ttls : Cache!BeginSet(f, key, ttl)
      PROVE CacheInv'
  BY <1>2, OwnStepIInv
<1>3. ASSUME NEW f \in Readers, Cache!Expire(f) PROVE CacheInv'
  BY <1>3, ExpireIInv
<1>4. ASSUME NEW f \in Readers, Cache!Quit(f) \/ \E key \in Keys : Cache!Read(f, key) PROVE CacheInv'
  BY <1>4, OwnStepIInv
<1>5. CASE (\E key \in Keys : Cache!Invalidate(key)) \/ Cache!InvalidateByTag \/ Cache!InvalidateAll \/ Cache!Prune
  <2>1. (\E keys \in SUBSET Cache!Held : Cache!Clear(keys)) \/ Cache!Prune
    BY <1>5 DEF Cache!Invalidate, Cache!InvalidateByTag, Cache!InvalidateAll
  <2>2. QED
    BY <2>1, RemovalIInv
<1>6. CASE Cache!Tick
  BY <1>6, TickIInv
<1>7. CASE UNCHANGED Cache!vars
  <2>1. Excused'
    BY <1>7 DEF Cache!vars, CacheInv, Excused, Cache!Expired
  <2>2. QED
    BY <1>7, <2>1, OwnStep DEF Cache!vars, CacheInv, Shapes
<1>8. QED
  BY <1>1, <1>2, <1>3, <1>4, <1>5, <1>6, <1>7 DEF Cache!Next

\* An entry leaves the cache for a reason and is the last one written: it has
\* expired, was removed, or maxEntries other keys were written after it, except
\* where a read that found its key expired met a write before its deletion; and
\* the table stays within maxEntries (Cache.make).
THEOREM NothingGivenUp == ASSUME SensibleCache PROVE Cache!Spec => [](Cache!TypeOK /\ Cache!NothingLost)
<1>1. Cache!Init => CacheInv
  BY InitCacheInv
<1>2. CacheInv /\ [Cache!Next]_(Cache!vars) => CacheInv'
  BY NextCacheInv
<1>3. CacheInv => Cache!TypeOK /\ Cache!NothingLost
  <2> SUFFICES ASSUME CacheInv PROVE Cache!TypeOK /\ Cache!NothingLost
    OBVIOUS
  <2>1. Cache!TypeOK
    BY CacheCounts DEF CacheInv, Shapes, Bounded, ByRowid, Cache!TypeOK
  <2>2. Cache!NothingLost
    BY DEF CacheInv, StillHeld, IsLastWrite, Cache!NothingLost
  <2>3. QED
    BY <2>1, <2>2
<1>4. QED
  BY <1>1, <1>2, <1>3, PTL DEF Cache!Spec
============================================================================
