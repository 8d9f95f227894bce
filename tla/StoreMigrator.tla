--------------------------- MODULE StoreMigrator ---------------------------
(***************************************************************************)
(* The migration engine of @effected/store: several Store layers (other    *)
(* processes, or other fibers of one) share a SQLite file with older       *)
(* programs that still migrate it through effect/sql's Migrator.           *)
(*                                                                         *)
(* Every step that touches the database is one BEGIN IMMEDIATE             *)
(* transaction of the code; what lies between two transactions of a Store  *)
(* (the plan it read, the phase of its build) is its own and may be stale. *)
(* A crash, a failed statement, a failing migration and a refusal all roll *)
(* the current transaction back, so they only change the Store's own       *)
(* state.                                                                  *)
(***************************************************************************)
EXTENDS Naturals

CONSTANTS
    Ids,         \* migration ids
    Stores,      \* Store layers
    Known,       \* Store -> the ids in its migration list
    Adopts,      \* Stores opened with adoptMigratorLedger
    Mirrors,     \* Stores opened with mirrorMigratorLedger
    Rollers,     \* Stores that call rollback
    HasDown,     \* ids whose migration has a down
    Olds,        \* programs on effect/sql's Migrator
    OldKnown,    \* old program -> the ids it knows
    Renamed,     \* ids whose name differs between old programs and Stores
    DefaultTable,        \* the Migrator ledger is effect_sql_migrations
    OldDuringRollback,   \* old programs may migrate while a rollback is under way
    Stamps,      \* readings of a coarse clock (created_at has one second)
    NoRow,       \* no row, and the null of a tombstone's snapshot
    Unread       \* no plan read yet

ASSUME IdsAssumption == Ids \subseteq Nat

ASSUME ProgramsAssumption ==
    /\ Known \in [Stores -> SUBSET Ids]
    /\ OldKnown \in [Olds -> SUBSET Ids]
    /\ Adopts \subseteq Stores /\ Mirrors \subseteq Stores /\ Rollers \subseteq Stores
    /\ DefaultTable \in BOOLEAN /\ OldDuringRollback \in BOOLEAN

Row == [at : Stamps, name : {"store", "old"}]

ASSUME StampsAssumption ==
    /\ Stamps \cap {NoRow, "none", "untracked"} = {}
    /\ NoRow \notin Row \cup {"none", "untracked"}
    /\ \A ids \in SUBSET Ids : Unread # ids

VARIABLES
    ledger,     \* ids recorded in _store_migrations
    rows,       \* id -> its row in the Migrator's ledger, or NoRow
    marker,     \* _store_meta holds the adoption marker
    tomb,       \* id -> its rollback tombstone in _store_meta: "none", the
                \* created_at its snapshot holds for the Migrator's ledger, NoRow
                \* for a snapshot of null, "untracked" for no snapshot
    inPlace,    \* ids whose up has run and whose down has not since
    mishaps,    \* history: ups run over their own effect, downs run without it
    pc,         \* Store -> what it is doing
    plan        \* Store -> the plan it read outside any transaction

db == <<ledger, rows, marker, tomb, inPlace, mishaps>>
vars == <<db, pc, plan>>

Recorded == {id \in Ids : rows[id] # NoRow}

Init == /\ ledger = {}
        /\ rows = [id \in Ids |-> NoRow]
        /\ marker = FALSE
        /\ tomb = [id \in Ids |-> "none"]
        /\ inPlace = {}
        /\ mishaps = {}
        /\ pc = [p \in Stores |-> "closed"]
        /\ plan = [p \in Stores |-> Unread]

----------------------------------------------------------------------------
(* Judging the Migrator's rows.                                            *)

\* Mutated form of Judge: rollback history is ignored.
JudgeBlindly(id) == "import"

\* judgeForeign: what a row means for an id the ledger lacks.
Judge(id) == CASE tomb[id] = "untracked" -> "refused"
               [] tomb[id] \notin {"none", "untracked"} /\ tomb[id] = rows[id].at -> "stale"
               [] OTHER -> "import"

\* importable: an old program records its own name for the id.
SameName(id) == rows[id].name = "store" \/ id \notin Renamed

\* Mutated form of Cleared: applying an id leaves its tombstone.
Kept(ids) == tomb

Cleared(ids) == [id \in Ids |-> IF id \in ids THEN "none" ELSE tomb[id]]

\* Mutated form of GapFree: only the Store's own ledger accounts for an id.
GapFreeOwn(p, fresh, known) ==
    \A id \in fresh, lower \in Known[p] : lower <= id => lower \in ledger

\* The gap rule: effect/sql never ran an id at or below its latest, so a known
\* id below a row to be imported must be accounted for.
GapFree(p, fresh, known) ==
    \A id \in fresh, lower \in Known[p] : lower <= id => lower \in known

----------------------------------------------------------------------------
(* Building a Store layer.                                                 *)

AfterAdoption(p) == IF p \in Mirrors THEN "sync" ELSE "build"

Goto(p, where) == /\ pc' = [pc EXCEPT ![p] = where]
                  /\ plan' = [plan EXCEPT ![p] = Unread]

Open(p) == /\ pc[p] = "closed"
           /\ Goto(p, IF p \in Adopts THEN "adopt" ELSE AfterAdoption(p))
           /\ UNCHANGED db

\* adoptForeignLedger: decided once per database, under the write lock.
AdoptNothing(p) == /\ pc[p] = "adopt"
                   /\ marker \/ ledger # {} \/ Recorded = {}
                   /\ marker' = TRUE
                   /\ Goto(p, AfterAdoption(p))
                   /\ UNCHANGED <<ledger, rows, tomb, inPlace, mishaps>>

Seedable(p) == /\ \A id \in Recorded : /\ id \in Known[p]
                                       /\ SameName(id)
                                       /\ Judge(id) # "refused"
               /\ GapFree(p, {id \in Recorded : Judge(id) = "import"}, Recorded)

Adopt(p) == /\ pc[p] = "adopt"
            /\ ~marker /\ ledger = {} /\ Recorded # {}
            /\ Seedable(p)
            /\ ledger' = {id \in Recorded : Judge(id) = "import"}
            /\ tomb' = Cleared(ledger')
            /\ marker' = TRUE
            /\ Goto(p, AfterAdoption(p))
            /\ UNCHANGED <<rows, inPlace, mishaps>>

\* syncMirror: import what old programs applied, then export what they lack.
Importable(p) == {id \in Recorded \ ledger : Judge(id) = "import"}

Syncable(p) == /\ \A id \in Recorded \ ledger : Judge(id) # "refused"
               /\ \A id \in Importable(p) : id \in Known[p] /\ SameName(id)
               /\ GapFree(p, Importable(p), ledger \cup Recorded)

\* The exported created_at is the ledger's applied_at: some earlier reading.
Export(p, at) == [id \in Ids |-> IF id \in ledger' \ Recorded
                                 THEN [at |-> at, name |-> "store"] ELSE rows[id]]

Sync(p) == /\ pc[p] = "sync"
           /\ Syncable(p)
           /\ ledger' = ledger \cup Importable(p)
           /\ tomb' = Cleared(Importable(p))
           /\ \E at \in Stamps : rows' = Export(p, at)
           /\ Goto(p, "build")
           /\ UNCHANGED <<marker, inPlace, mishaps>>

----------------------------------------------------------------------------
(* Applying pending migrations: the last phase of a build, and migrate().  *)

Applying(p) == pc[p] \in {"build", "migrate"}

Migrate(p) == /\ pc[p] = "open"
              /\ Goto(p, "migrate")
              /\ UNCHANGED db

\* Mutated form of ReadPending: an old program's row counts as applied.
ReadPendingAnywhere(p) == /\ Applying(p) /\ plan[p] = Unread
                          /\ plan' = [plan EXCEPT ![p] = Known[p] \ (ledger \cup Recorded)]
                          /\ UNCHANGED <<db, pc>>

\* runPending reads the ledger outside any transaction.
ReadPending(p) == /\ Applying(p) /\ plan[p] = Unread
                  /\ plan' = [plan EXCEPT ![p] = Known[p] \ ledger]
                  /\ UNCHANGED <<db, pc>>

\* Mutated form of IsNext: the plan is not sorted.
IsAny(p, id) == /\ Applying(p) /\ plan[p] # Unread
                /\ id \in plan[p]

\* The next id of an ascending plan.
IsNext(p, id) == /\ Applying(p) /\ plan[p] # Unread
                 /\ id \in plan[p]
                 /\ \A other \in plan[p] : id <= other

Tick(p, id) == plan' = [plan EXCEPT ![p] = @ \ {id}] /\ UNCHANGED pc

\* Another connection recorded the id since the plan was read.
SkipRecorded(p, id) == /\ IsNext(p, id)
                       /\ id \in ledger
                       /\ Tick(p, id)
                       /\ UNCHANGED db

\* With the mirror on, an old program's row is consulted under the same lock.
HasForeignRow(p, id) == p \in Mirrors /\ rows[id] # NoRow

ImportApplied(p, id) == /\ IsNext(p, id)
                        /\ id \notin ledger
                        /\ HasForeignRow(p, id) /\ Judge(id) = "import" /\ SameName(id)
                        /\ ledger' = ledger \cup {id}
                        /\ tomb' = Cleared({id})
                        /\ Tick(p, id)
                        /\ UNCHANGED <<rows, marker, inPlace, mishaps>>

\* What an up leaves behind, and whether it found its own effect in place.
RunUp(ids, by) == /\ inPlace' = inPlace \cup ids
                  /\ mishaps' = mishaps \cup ({<<by, id>> : id \in ids \cap inPlace})

\* Mutated form of MustRun: a mirrored row is not looked at.
MustRunUnmirrored(p, id) == id \notin ledger

MustRun(p, id) == /\ id \notin ledger
                  /\ HasForeignRow(p, id) => Judge(id) = "stale"

\* Mutated form of Mirrored: the Store's own apply is not copied out.
NotMirrored(p, id, at) == rows

\* INSERT OR IGNORE: a stale row keeps its created_at.
Mirrored(p, id, at) == IF p \in Mirrors /\ rows[id] = NoRow
                       THEN [rows EXCEPT ![id] = [at |-> at, name |-> "store"]]
                       ELSE rows

RunMigration(p, id) ==
    /\ IsNext(p, id)
    /\ MustRun(p, id)
    /\ RunUp({id}, "up")
    /\ ledger' = ledger \cup {id}
    /\ tomb' = Cleared({id})
    /\ \E at \in Stamps : rows' = Mirrored(p, id, at)
    /\ Tick(p, id)
    /\ UNCHANGED marker

Applied(p) == /\ Applying(p) /\ plan[p] = {}
              /\ Goto(p, "open")
              /\ UNCHANGED db

----------------------------------------------------------------------------
(* Rolling back.                                                           *)

\* Mutated form of RollbackPlan: what the Store knows, not what is recorded.
RollbackPlanKnown(p, toId) == {id \in Known[p] : id > toId}

\* Mutated form of RollbackPlan: the ledger is not read.
RollbackPlanUnread(p, toId) == Unread

RollbackPlan(p, toId) == {id \in ledger : id > toId}

PlanRollback(p, toId) == /\ pc[p] = "open" /\ p \in Rollers
                         /\ pc' = [pc EXCEPT ![p] = "rollback"]
                         /\ plan' = [plan EXCEPT ![p] = RollbackPlan(p, toId)]
                         /\ UNCHANGED db

\* The tables a rollback snapshots: the default one and those of its options.
Tracks(p) == DefaultTable \/ p \in Adopts \cup Mirrors

\* Mutated form of Snapshot: the row as it was before the rollback removed it.
SnapshotBefore(p, id) == IF rows[id] = NoRow THEN NoRow ELSE rows[id].at

\* recordTombstone: the row as this rollback leaves it.
Snapshot(p, id) == CASE ~Tracks(p) -> "untracked"
                     [] Tracks(p) /\ rows'[id] = NoRow -> NoRow
                     [] OTHER -> rows'[id].at

Unmirror(p, id) == IF p \in Mirrors THEN [rows EXCEPT ![id] = NoRow] ELSE rows

\* Newest first, one transaction each; unlike RunMigration it does not look at
\* the ledger again.
RollBackOne(p, id) ==
    /\ pc[p] = "rollback"
    /\ id \in plan[p]
    /\ \A other \in plan[p] : other <= id
    /\ IF id \in Known[p] \cap HasDown
       THEN /\ inPlace' = inPlace \ {id}
            /\ mishaps' = mishaps \cup (IF id \in inPlace THEN {} ELSE {<<"down", id>>})
       ELSE UNCHANGED <<inPlace, mishaps>>
    /\ ledger' = ledger \ {id}
    /\ rows' = Unmirror(p, id)
    /\ tomb' = [tomb EXCEPT ![id] = Snapshot(p, id)]
    /\ Tick(p, id)
    /\ UNCHANGED marker

RolledBack(p) == /\ pc[p] = "rollback" /\ plan[p] = {}
                 /\ Goto(p, "open")
                 /\ UNCHANGED db

\* A build that fails is torn down; a failed call leaves the layer open; a
\* crash or the end of the scope closes it from anywhere.
CallFails(p) == /\ pc[p] \in {"migrate", "rollback"}
                /\ Goto(p, "open")
                /\ UNCHANGED db

Close(p) == /\ pc[p] # "closed"
            /\ Goto(p, "closed")
            /\ UNCHANGED db

----------------------------------------------------------------------------
(* effect/sql's Migrator in an older program: one transaction that runs    *)
(* every id it knows above the highest recorded one.                       *)
OldPending(o) == {id \in OldKnown[o] : \A latest \in Recorded : id > latest}

OldMigrate(o) ==
    /\ OldPending(o) # {}
    /\ OldDuringRollback \/ \A p \in Stores : pc[p] # "rollback"
    /\ RunUp(OldPending(o), "old")
    /\ \E at \in Stamps :
          rows' = [id \in Ids |-> IF id \in OldPending(o)
                                  THEN [at |-> at, name |-> "old"] ELSE rows[id]]
    /\ UNCHANGED <<ledger, marker, tomb, pc, plan>>

Next == \/ \E p \in Stores :
              \/ Open(p) \/ AdoptNothing(p) \/ Adopt(p) \/ Sync(p)
              \/ Migrate(p) \/ ReadPending(p) \/ Applied(p)
              \/ \E id \in Ids : \/ SkipRecorded(p, id) \/ ImportApplied(p, id)
                                 \/ RunMigration(p, id) \/ RollBackOne(p, id)
              \/ \E toId \in Ids \cup {0} : PlanRollback(p, toId)
              \/ RolledBack(p) \/ CallFails(p) \/ Close(p)
        \/ \E o \in Olds : OldMigrate(o)

Spec == Init /\ [][Next]_vars

----------------------------------------------------------------------------
TypeOK == /\ ledger \subseteq Ids
          /\ rows \in [Ids -> Row \cup {NoRow}]
          /\ marker \in BOOLEAN
          /\ tomb \in [Ids -> Stamps \cup {NoRow, "none", "untracked"}]
          /\ inPlace \subseteq Ids
          /\ mishaps \subseteq ({"up", "old", "down"} \X Ids)
          /\ pc \in [Stores -> {"closed", "adopt", "sync", "build", "open",
                                "migrate", "rollback"}]
          /\ plan \in [Stores -> (SUBSET Ids) \cup {Unread}]
          /\ \A p \in Stores : pc[p] = "rollback" => plan[p] # Unread

\* No phantom: the ledger never claims a migration whose effect is not in the
\* schema, whichever of adoption, import, re-run and rollback put it there.
LedgerInPlace == ledger \subseteq inPlace

\* A tombstone is the latest word on its id: applying or importing it again
\* has cleared it (else a later rollback history would be judged on old news).
TombstoneIsLatest == \A id \in ledger : tomb[id] = "none"

\* A snapshot with a created_at is always the created_at of the row that is
\* still there, so equality alone tells a stale row, whatever the clock did.
SnapshotIsCurrent ==
    \A id \in Ids : tomb[id] \in Stamps => rows[id] # NoRow /\ rows[id].at = tomb[id]

\* No up of a reversible migration ever runs over its own effect, neither a
\* Store's nor an old program's.
UpOnce == \A id \in HasDown : <<"up", id>> \notin mishaps /\ <<"old", id>> \notin mishaps

\* No down ever runs on a schema its up has not been applied to.
DownOnce == \A id \in HasDown : <<"down", id>> \notin mishaps

\* While every Store mirrors, an old program sees everything Stores applied.
MirrorCoversLedger == ledger \subseteq Recorded

\* The transition period the mirror option is for: every Store mirrors, and
\* whoever rolls back knows the down of every reversible migration.
Transition == Mirrors = Stores /\ \A p \in Rollers : HasDown \subseteq Known[p]

\* Rollbacks are not issued by two Stores at the same time.
OneRoller == \A p, q \in Rollers : p = q

\* Every program's list is a version of the one list, which only grows at its
\* end.
OneList ==
    /\ \A p \in Stores : \A id \in Known[p], lower \in Ids : lower < id => lower \in Known[p]
    /\ \A o \in Olds : \A id \in OldKnown[o], lower \in Ids : lower < id => lower \in OldKnown[o]

RolledBackSince(id) == tomb[id] # "none"

\* Migrations take effect in id order, whoever runs them, and an open Store is
\* migrated: what is missing below an effect, or of what the Store knows, has
\* been rolled back (migrator.ts:235-248, 262-291, 482-487).
InIdOrder ==
    \A id \in inPlace, lower \in Ids :
        lower < id => lower \in inPlace \/ RolledBackSince(lower)
OpenIsMigrated ==
    \A p \in Stores : pc[p] \in {"open", "migrate", "rollback"} =>
        \A id \in Known[p] : id \in ledger \/ RolledBackSince(id)
OpensComplete == InIdOrder /\ OpenIsMigrated

\* The database can always be opened: a Store that knows every migration, under
\* the names in use, is not refused unless a rollback stands.
NeverRefused ==
    (\A id \in Ids : ~RolledBackSince(id)) /\ (\A id \in Recorded : SameName(id)) =>
        \A p \in Stores :
            /\ pc[p] = "sync" /\ Known[p] = Ids => Syncable(p)
            /\ pc[p] = "adopt" /\ Known[p] = Ids /\ ~marker /\ ledger = {} => Seedable(p)
============================================================================
