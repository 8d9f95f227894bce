# Verification of effected

TLA+ models of the parts of this repository in which the order of events
decides whether they work: files, tables and credentials that several processes
share, registries and lanes that several fibers share, and streams that must
lose nothing. Each module is checked by TLC on small instances, and what matters
most in each is proved by TLAPS for every value of the constants.

`PROJECT.json` is the index: components, runs, the source lines every
definition stands for, a mutated definition that each property rejects, the
hazards, the findings and the theorems.

    tlc -workers 2 -config MCRunOnce.cfg MCRunOnce.tla
    tlapm RunOnce_proofs.tla

- [Inventory](#inventory)
- [The modules](#the-modules)
- [What the runs check](#what-the-runs-check)
- [Bounds](#bounds)
- [Fairness](#fairness)
- [What is proved](#what-is-proved)
- [Findings](#findings)
- [What the checks do not show](#what-the-checks-do-not-show)
- [Not modelled](#not-modelled)
- [Plan](#plan)

## Inventory

effected is a monorepo of some forty libraries for Effect programs (`packages/`).
Most are pure: parsers, schemas, formatters. The parts below keep state that
outlives a call, or share it.

### Modelled

**store, `migrateOnce`** (`store/src/Store.ts`, `store/src/internal/migrateOnce.ts`).
A map on `globalThis` from a key (real path and options) to a promise. A caller
resolves its path (asynchronous), then looks up and registers in one
synchronous step; the run is detached and survives its callers. Hard: callers
interrupted between any two steps, failed runs joined by late callers. Correct
when a key has one live or successful run, a failed run is forgotten before its
waiters wake, and every registered promise is settled.

**store, migration engine** (`store/src/internal/migrator.ts`, `Store.ts`).
Tables `_store_migrations` and `_store_meta` in the user's SQLite file, next to
the ledger of effect/sql's own `Migrator`, which the engine adopts once and may
mirror while old programs still run. Operations: build (ensure ledger, adopt,
sync, apply), migrate, rollback, close. Processes interact only through the
database, each transaction `BEGIN IMMEDIATE`; a plan read outside a transaction
may be stale inside it. Hard: old and new programs interleaved, rollbacks
between a sync and an apply, crashes between transactions. Correct when the
ledger never claims an effect the schema lacks, no migration runs twice or is
undone twice, and the file can always be opened.

**jsonl, journal engine** (`jsonl/src/internal/engine.ts`, `NodeJournalWatcher.ts`).
An append-only file, an offset `consumed` up to which it has been read, the
last valid envelope `latest`, a write permit, a chain of publish jobs, a
bounded hub, a supervisor fiber that follows a watch. Operations: append,
changes, seed, ingest, the finalizer. The file is shared with other processes
that append at any time; the hub is shared by subscribers. Hard: lines of
others between a write and its fstat, the seam between replay and live tail,
interrupts, truncation and replacement, closing with work in flight. Correct
when the hub carries the file's order once and without gaps, a subscriber sees
each line once, nothing follows a terminal, and every append is answered.

**commands, `RunOnce`** (`commands/src/internal/runOnceMachine.ts`, `RunOnce.ts`).
A lock file, a done marker, breaker tickets and tombs in a directory that
processes, perhaps on several hosts, share. One call: poll, then trust a
marker, take the lock, break a dead owner's lock, or give up at the deadline;
run the work; mark; release. There is no compare-and-swap on files: a lock is
removed by renaming it to a private name and judging what was moved. Hard:
everything between two file operations, crashes anywhere, probes that lie
(recycled pids, other hosts). Correct when the work runs once at a time, nobody
repeats a success it watched, and every call ends.

**store, TTL cache** (`store/src/Cache.ts`). One table of entries that the
fibers of several processes use, in the order of writing. Operations: set (with
eviction of the oldest written), get, has, invalidation by key, by tag and of
everything, prune. A read that finds an entry expired deletes it in a second
statement, by key. Correct when an entry leaves the table for a reason only.

**jwt, `JwksResolver`**. Key sets in a store that may lag, a resolver's own
last fetch, the time of its last attempt, one lock per issuer. Operation: key.
Hard: two copies of a set, a store that answers from the past, fetches that
fail. Correct when a dropped key stays dropped, floods of unknown keys are
gated, and a rotation still gets through.

**github, `GitHubApp`**. Two independent parts. `makeCachedToken` is a map from
an installation to a mint in flight, shared by everybody who misses the token
store; `makeRotatingClient` holds one credential, re-mints it before it expires
under a lock, and revokes the old one and, at the end of the scope, the last.
Hard: callers interrupted while they lead, answers that are lost after GitHub
acted. Correct when misses share a mint and none waits for ever, and when one
credential is live at a time and none is revoked before it is spent.

**github-actions, `CheckDocument`**. A registry of reports, a version, a latch,
the text last written, and a document that other runs write as well.
Operations: report, flush, the debounced daemon, the finalizer. Correct when at
rest the document shows the last report.

**files, `AtomicDirectory`**. The trees `target`, `staging` and `retired`.
Operation: write. Hard: a crash, an interrupt or a failure between any two file
system calls. Correct when readers always find a whole tree, once there is one
there always is one, and a failure tells the truth about the target.

**kit, `Exclusive` and `ProcessScope.chdir`**. One permit for the bodies that
change the working directory of the process. Hard: a timeout against
completion, a promise that ignores its signal, a body that asks for its own
lane, cancellation in the queue. Correct when a body's directory is its own for
as long as it runs, and everybody is answered.

**cli-kit, live view** (`CliUiLive.ts`). A pump between a subscription and an
inbox, a controller that folds and draws, one Ink mount per process. Hard: a
PubSub that ends or is shut down, a close, frames that throw, all at once.
Correct when every event is folded once, the last frame stands, and the
terminal is given back.

**memfs, volume** (`memfs/src/internal/volume.ts`). Inodes, descriptors and
watches behind one permit. Hard: long sequences of legal calls: open files
without names, hard links, links that dangle, directories moved and merged,
names that differ in case. Correct when link counts are POSIX's, nothing
dangles or leaks, directories are a tree, and a watch misses nothing.

### Not modelled yet, with state of their own

| Component | State and operations | What makes it hard |
| --- | --- | --- |
| mcp-kit, lsp | pending requests over a child's stdio | the child stops while requests wait |
| cli-kit, file sink | a queue drained into a file; bounded close | messages in hand when the drain stops |
| memfs, `MemoryFileSystem` | rules that make calls fail; explicit watch events | counting down a rule beside concurrent calls |
| kit, `ProcessGuard`, environment patch | what to put back | nested patches |
| files, `AtomicFile` | a temporary file and a rename | nothing beyond the rename |
| token and JWKS stores, `AppCache`, `ImageCache` | entries of a map, a file or a service | follows from the caches above |
| workspaces, runtimes | success-only memos | the interleavings are inside effect core |

`PROJECT.json` lists the rest with the reason each is left out.

## The modules

Every module's steps are the pieces of code between two suspension points: one
file operation, one transaction, one wait. Synchronous code after such a point
belongs to the step. Each constant, variable and action is commented where it
is declared.

### `MigrateOnce`

| Model | Code |
| --- | --- |
| `registry`, `status`, `runKey` | the map, the promise and its outcome, the key it was registered under |
| `Call`, `ResolveFails` | `migrateOnce` up to the end of `realPath` |
| `Join`, `Register`, `Fork` | `runOnce`: lookup and registration are one step, forking another |
| `Finish` with `Forget` | the runner's `onExit`: delete the entry unless it succeeded, then settle |
| `Release`, `Interrupt` | `awaitOutcome`, and the points at which a caller can be interrupted |

The migrations a run performs are `StoreMigrator`'s; here a run is only its
outcome. A request for `":memory:"` or a `file:` URI dies before it touches
anything.

### `SingleFlight`

The abstract specification of a registry of shared work: a caller asks for a
key, boards the one flight of that key or takes off with a new one, and leaves
with the outcome or without one; a flight lands by itself. A key whose flight
landed with a `Lasting` outcome takes off no more. `MigrateOnce!Flight` and
`InstallationTokens!Flight` are its instances under a refinement mapping; in
the first success lasts, in the second nothing does.

### `InstallationTokens`

| Model | Code (`GitHubApp.ts`) |
| --- | --- |
| `inFlight`, `mint` | the map and its Deferreds, with the fiber of each |
| `Call`, `Hit`, `Miss` | `makeCachedToken`: the read of the store and what it may answer |
| `Join`, `Register`, `Fork` | lookup, insert and fork of the mint |
| `Minted`, `Exit`, `Delete`, `Complete` | the mint, the save and `onExit` |
| `Release`, `Interrupt` | the wait, and where a caller can be interrupted |

Lookup and insert are one step, since nothing yields between them; the fork is
another, which an interrupt cannot precede because the region is uninterruptible.

### `StoreMigrator`

| Model | Code |
| --- | --- |
| `ledger`, `rows`, `marker`, `tomb` | `_store_migrations`, the Migrator's table, the adoption marker, rollback tombstones |
| `inPlace`, `mishaps` | the schema: which effects are there, and which ups ran over, or downs without, their effect |
| `pc`, `plan` | where a Store's build, migrate or rollback is, and the list it read |
| `Open`, `AdoptNothing`, `Adopt`, `Sync` | `make`: `ensureLedger`, `adoptForeignLedger`, `syncMirror` |
| `ReadPending`, `SkipRecorded`, `ImportApplied`, `RunMigration`, `Applied` | `runPending` and the branches of `applyPending` |
| `PlanRollback`, `RollBackOne`, `RolledBack` | `rollbackTo`, one transaction per migration |
| `CallFails`, `Close` | a failed statement, migration or refusal; a crash or the end of the scope |
| `OldMigrate` (external) | effect/sql's `Migrator.run`: everything above the latest recorded id |

A rolled-back transaction leaves only the Store's own state changed. `Stamps`
are readings of a clock with one-second resolution, so that two rows may carry
the same time. `status()` only reads and is left out, as are dialects other
than SQLite.

### `Journal`

| Model | Code |
| --- | --- |
| `files`, `path`, `half` | every file the path has named, which one it names, a line half written |
| `consumed`, `identity`, `latest` | the engine's variables of those names |
| `permit`, `chain`, `sent`, `sub` | `writePermit`, the baton chain, the hub's history, subscriptions |
| `Append_` to `Answer` | `appendWith`: permit, stat, open and write, fstat, scan, link, publish |
| `Look` to `Announce` | `supervise`, `followJournal`, `awaitCreation`, `ingest` |
| `Subscribe`, `ReplayStat`, `Replay`, `Take` | `changes` and `history` |
| `Close`, `Capture`, `EndStreams`, `GiveUp` | the finalizer and its timeout |
| `OtherAppends`, `OtherTears`, `Breach`, `Leave` (external) | other processes, and consumers that stop |

A line is reduced to its kind: an event, a terminal, a reopen, an envelope
whose payload does not decode back, or no envelope. Offsets count half lines,
so that a torn write has an offset of its own. Opening and writing are one
step, the fstat another. A replay is one page. Pokes of the watch coalesce.
Left out: the BOM, slices other than the cursor, `latestChanges` and
`projection` (folds over what is modelled). The finalizer's timeout fires only
while some subscriber that stopped taking has a full queue.

### `RunOnce`

| Model | Code |
| --- | --- |
| `lock`, `tomb`, `done`, `tickets`, `inked` | the files: lock, private tombs, marker, tickets, and which tickets hold their record |
| `observed`, `owner`, `ripe`, `todo`, `contended` | the trust set and the locals of `protocol`, `breakLock`, `takeBreaker` |
| `Look`, `Gauge`, `Decide`, `Pause` | one turn of the poll loop: text, age and probe, marker and decision |
| `TakeTicket` to `Proceed` | `takeBreaker` |
| `Recheck`, `Rename`, `Judge`, `Restore`, `Refill`, `Unticket` | `breakLock` with `compareAndDelete` |
| `Create`, `Fill`, `Verify`, `Repair`, `Late` | acquiring |
| `Succeed`, `FailWork`, `Truncate`, `Mark` | the work and the marker |
| `Release`, `Rejudge`, `Reset`, `Rewrite` | `release` with `compareAndDelete` |
| `Alone` | the unserialized run |
| `Age`, `Crash`, `Probes` (external) | time, death, and what a signal-0 probe answers |

Each request of the machine is a step, and an exclusive create is two, as the
code's comments stress: the file appears empty, and its text follows the file
even when a rename has moved it. Time is reduced to what the rules compare: a
lock is up to `staleMs` old, older, or older than `staleMs + waitTimeoutMs`.
With `MayOutlive` false, work does not outlive the age that would expose it,
which is the condition the documentation attaches to mutual exclusion. Left
out or joined: `trustSequentialMs`; reads that fail (`Failing` covers making
the directory, creating, writing, listing and renaming); the six tries of a
release are one; the sweep of tombs has no effect in the model, since no step
reads a dead process's tomb, and a live process is assumed not to stall for
`staleMs` inside the few calls of a ticket or a tomb; the single breaker file
of older versions. The repository's own checker of this machine
(`commands/__test__/runOnceModel.ts`) explores schedules with few preemptions
over the real code; TLC explores all of them over the model.

### `StoreCache`

| Model | Code (`Cache.ts`) |
| --- | --- |
| `rows` | the table: of each key it holds, the rowid and the expiry |
| `BeginSet`, `Set` | `set`: the expiry is computed, then one transaction replaces the row and evicts |
| `Minted` | the rowid that `INSERT OR REPLACE` mints, one more than the largest |
| `Excess` | the rows that as many others as `maxEntries` have a larger rowid than |
| `Read`, `Expire` | `get` and `has` that find an expired row, and the deletion by key |
| `Invalidate`, `InvalidateByTag`, `InvalidateAll`, `Prune` | the removals |
| `Quit` | a failure, an interrupt or a crash between two statements |

A read that finds a live row or none changes nothing and is no step. The row and
the clock are read at one time: the clock comes later in the code, and a write in
between is one more that comes between the two statements. A rowid
comes again when the rows from it on are deleted, as in SQLite; that rowids are
in the order of writing all the same is what the proof shows.

### `JwksResolver`

| Model | Code (`JwksResolver.ts`) |
| --- | --- |
| `store`, `last`, `attempt` | everything ever stored (a read may find any of it), the last fetch, `lastAttemptMillis` |
| `Ask`, `Look` | `key` and the match in the newer of the two sets |
| `Lock`, `Recheck` | `refresh` under the permit: read again, match, gate, record the attempt |
| `Fetch`, `FailFetch`, `Save`, `Interrupt` | the request, its failure, `store.set`, an interrupted caller |
| `Rotate` (external), `Tick` | the issuer's keys, time |

### `TokenRotation`

| Model | Code (`GitHubApp.ts`) |
| --- | --- |
| `tokens` (external), `held`, `scope` | what GitHub knows of each token, the credential, the layer's scope |
| `Use`, `TakePermit`, `LookAgain` | `live` before and under the lock |
| `Release`, `Grant`, `Install` | `rotate`: revoke, mint, hold |
| `Fail`, `Close` | a request that fails or is interrupted (GitHub may have acted), the finalizer |

### `CheckDocument`

| Model | Code (`CheckDocument.ts`) |
| --- | --- |
| `checks`, `version`, `latch`, `written` | the registry, the counter, the latch, the last text |
| `Report`, `Count`, `Open` | `report` |
| `Wake`, `CloseLatch`, `Sleep` | the debounce daemon |
| `Begin`, `Read`, `Write`, `Fail`, `GiveUp` | the pass, for the daemon, a caller of flush or the finalizer |
| `document` (external), `Land` | the document, and a write that arrives after it was given up |

### `AtomicDirectory`

One action per file system call of `write`: `ClearStaging`, `Restore`,
`ClearRetired`, `MakeStaging`, `WriteOne`, `AllWritten`, `Retire`, `Swap`,
`CleanUp`; a recursive removal takes one step per file. `Fail`, `Interrupt` and
`Kill` may come before each of them, except that the two renames are one
uninterruptible region. `readers` remembers the newest tree a reader can have
found.

### `ExclusiveLane`

| Model | Code (`Exclusive.ts`, `ProcessScope.ts`) |
| --- | --- |
| `permit`, `body`, `promise`, `caller` | the semaphore, the body, the promise it waits for, the request |
| `cwd`, `saved`, `within`, `gone` | the process's directory, what a scope goes back to, where a body is, deleted directories |
| `Ask`, `Enter`, `Release` | `run` |
| `Chdir`, `CloseScope` | `chdir` and its finalizer |
| `StartWork`, `Settle`, `TimeOut`, `Cancel` | `promise`, its signal, the timeout, an interrupted request |

### `LiveView`

The pump (`PumpTakes`, `PumpSeesEnd`, `PumpEnds`) and the controller
(`Receive`, `Fold`, `Flush`, `Begin`, `Mount`, `Check`, `Draw`, `Finish`,
`WriteFrame`, `Ended`, `Stop`) are the two fibers of `CliUiLive.ts`; the
publisher, other mounts, a frame that React draws again, `Close` and
`CloseScope` are around them. `work` is what the controller has to do before it
takes from the inbox again. The pump knows the final message by its value, the
model by its place; a take that waits is resumed by the publication it waited
for, so that both say the same. Left out: views over a `Stream`, the rate of ticks,
the console bridge.

### `Volume`

One action per operation of `volume.ts`, each with its path resolution
(`Resolve`, `Parent`, `Landing` follow links; the loop of `resolve` is a
recursive function over `Resolutions`), its effect on the inodes (`Attach`,
`Detach`, `Moved`, `CopyAll`, `OpenedTree`, ...) and the watch events it
delivers (`Commit`, `Delivered`). An operation that fails changes nothing and is
no step. Left out: permissions, owners, times, contents, errno, temporary files
in another directory than `TEMP_DIR`, explicit watch events, and `MemoryFileSystem`'s injected failures.

## What the runs check

Components that share nothing are explored in one run, each in a *scene*: the
initial state picks the component and only its actions are taken, so a
behaviour is of one component and the run is as good as one run for each.

| Run | Question | Properties |
| --- | --- | --- |
| `waits` | Scenes `migrateOnce`, `tokens`, `lane`, `view`: is work shared, is the lane exclusive, is everybody who waits answered? | `OneRunPerKey`, `SharesFlights`, `EveryWaitEnds`; `MintsAreShared`; `LaneIsExclusive`, `EveryoneAnswered` |
| `store` | Scenes `rolling` (two mirroring Stores, one rolling back, two old programs), `opening` (two versions open at once), both for the ledger and the schema; `cache` | `UpOnce`, `DownOnce`, `MirrorCoversLedger`; `OpensComplete`, `NeverRefused`; `NothingLost` |
| `store_mixed` | A mirroring and a plain Store both roll back, with a renamed migration and a custom table: is the ledger true? | `TypeOK`, `LedgerInPlace`, `TombstoneIsLatest`, `SnapshotIsCurrent` |
| `journal_open` | Two writers, with terminals or without; a writer and a reader that may stall, on a file with a line, with a line that ends the stream, or empty: what do the hub and the subscriber get? | `HubInFileOrder`, `NothingMissing`, `NoFalseResync`, `SeamIsExact`, `EndAfterAppends`; `TerminalRespected`, `TypeOK` |
| `journal_breach` | The file is replaced, removed or truncated under an open engine, writes fail, tear or are interrupted: does it recover, is every append answered? | `AppendsEnd`, `Recovers` |
| `run_once` | Three processes on two hosts, a crash, a recycled pid, one process whose file operations fail: one at a time, once? | `WorkIsExclusive`, `TrustIsSound`, `NothingLeft` |
| `run_once_ends` | Locks that outlive every age and a process whose file operations fail: do breakers exclude each other and calls end? | `BreakersExclude`, `EveryCallEnds` |
| `volume` | Every order of namespace operations where case folds; a watch beside them on another spelling; open files and a watch where it does not | `VolumeIsSound`, `OneSpelling`, `NothingMissed` |
| `services` | Scenes `directory`, `apart` and `together` (resolvers), `app`, `document`, `view` | `DirectoryIsReplaced`; `KeysStayRevoked`, `RefetchesAreGated`; `CredentialsAccountedFor`; `DocumentIsCurrent`; `FoldsOnce`, `LeavesTerminal` |
| `journal_interrupt`, `run_once_old_marker`, `check_document_clobber` | the three [findings](#findings) | violated |

Each module's `TypeOK` is checked in one of its runs. Every property has a
mutated definition in its module (named in `PROJECT.json`), a plausible bug of
the code it models, which makes TLC find the property violated: the decision
without its deadline, a lock broken without a second look, an import that
ignores tombstones, a promotion that can be interrupted between its renames, a
final message taken twice. A property with several parts has a mutant for each
part that guards a behaviour of its own.

## Bounds

| Bound | Where | Why it is enough |
| --- | --- | --- |
| 3 callers, 2 keys or one installation, 2 promises | `waits` | a runner, one that joins it and one that comes after; two spellings of one file; a failed run and its successor |
| 2 requests on the lane, one nested, one abandoning | `waits` | one inside, one queued behind it, and each way of waiting |
| one run and one throw in the closing view | `waits` | a mount that waits for the permit, a frame that throws, both before the close |
| 2 Stores, 2 old programs, 2 or 3 ids, 2 stamps | `store`, `store_mixed` | one version behind and one ahead; an id below, at and above a row; equal and different times |
| one reader, one writer, 3 keys, `MaxEntries` 2, `MaxClock` 2, 4 rowids | `store` | a third key evicts, a fourth write too; an entry expires between the two statements of a read |
| `MaxLines` 1 to 4 | `journal_*` | a line of ours, one of another's before it and one after |
| `Capacity` 1, `MaxRearms` 0 or 1 (8 in the code) | `journal_*` | a hub that is full as soon as it can be; giving up is reached |
| `MaxBreaches` 0 or 1 | `journal_*` | one truncation, replacement or removal at any point |
| 2 or 3 processes, `MaxCreates` 1, `MaxCrashes` 1 | `run_once*` | an owner, a breaker and a rival; a call that needs a second lock of its own stops at the bound; a crash between any two requests |
| six paths (three beside a watch where case folds; two, and the temporary directory watched, beside open files), 4 inodes at a time (3 while a watch is there with an open file or with folding), one descriptor, `MaxSize` 1 | `volume` | a name in either spelling, in a directory, in the temporary one; a file with two names; a merge of two directories; a watch that names its entry in another spelling than the operations, and one on an entry whose directory goes. Inode numbers come again once they are used nowhere |
| `MaxCalls` 3, 2 files | `services` | a call that stops, one that repairs and stops, and one that ends; a half removed tree |
| 2 fibers in one process, where fetches fail too, and in two, 2 generations, `MaxClock` 3 | `services` | one fiber waits on another's fetch or works from an older copy; one rotation |
| 2 callers and the builder, 4 tokens, `MaxClock` 5 | `services` | the first, one rotation each, and one of a caller that comes too late |
| 3 reports of one run; 2 or 3 events, one throw | `services` | a report before, during and after a pass; a run that ends and one after it, a second start in a run, an event that kills the fold |

`CHECK_DEADLOCK FALSE` is set where calls simply end or a bound stops the
writers: everywhere but in `store_mixed`.

`SYMMETRY` is used where no liveness property is checked: over stamps in the
store runs, over the two writers in `journal_open` and `journal_interrupt`, and
over the two callers in `services`. The definitions name no single one of them;
where a scene has one writer, a variable says which.

In `store`, `DownOnce` is about one Store that rolls back. `OpensComplete`
excuses an id whose rollback still stands, and `NeverRefused` is about a Store
that comes while none does. The scenes of
`journal_open` all keep the append-only contract and their writes succeed,
which is what all but `TypeOK`, `NoFalseResync` and `TerminalRespected` need,
and in `journal_breach` `Recovers` is about the scene in which no write fails:
beyond these conditions TLC violates them, see below. In `volume` a
state has at most four inodes, three where a watch is there and an open file or
folding too, and an operation that needs one more is not taken.

## Fairness

- `MigrateOnce` and `InstallationTokens`: the runner or the mint, and callers
  that hold no wait of their own, make progress (effect's scheduler runs every
  runnable fiber); a request to the service ends, well or not. Callers need not
  call.
- `ExclusiveLane`: the lane's own steps are taken and the timer fires. A
  promise settles once its signal is aborted, unless it is run with
  `abandon: true`: `Exclusive.ts:111-125` asks for exactly that.
- `LiveView`: weak fairness for its two fibers and for another mount's
  unmounting; strong fairness for the view's mount, since the permit is a
  semaphore that serves its waiters in order.
- `Journal`: strong fairness for the supervisor, the finalizer and each
  appending fiber, for the same reason; weak fairness for publishing, the
  finalizer's timeout and every reader that is not `Stalled`. Other processes
  and consumers that leave owe nothing.
- `RunOnce`: a process that has been called takes its next step and its clock
  reaches the deadline; the work ends. Nothing is assumed of probes, ages or
  crashes. `EveryCallEnds` also counts a call that stands at the bound
  `MaxCreates`.

## What is proved

All theorems hold for every value of the constants that satisfies the named
assumptions of their module.

**`Waits_proofs`**, about two modules. `RegistrySound`, `AtMostOneRun`, `FailureNotShared`,
and `MigrateOnceSharesFlights` (`SharesFlights`) are about `MigrateOnce`: the
registry implements `SingleFlight`. Each step is a step of the abstract registry or a stutter; that
a joined promise is one the abstract key may board is what needs the invariant.
Its invariant is `TypeOK /\ RegistryMatchesRuns`: an entry names a promise that
is open or successful and was registered under that key, and every such promise
has its entry. `OneRunPerKey` alone is not inductive: a second run could be
registered if an open one had lost its entry. `TurnsAreExclusive`
(`LaneIsExclusive`) is about `ExclusiveLane`, for any requests and directories:
the permit and the turn of its holder are one (`TurnInv`), work keeps its body
and a body its directory (`WorkInv`), and the way home is remembered
(`HomeInv`).

**`Store_proofs`**, about two modules. About `StoreMigrator`: `TypeCorrect`, `NoPhantom` (`LedgerInPlace`),
`TombstonesTrustworthy` and its part `TombstonesGiveWay`, and with further
assumptions `DownRunsOnce` (rollbacks come from one Store at a time,
`OneRoller`), `UpRunsOnce` and its part `OldProgramsSeeAll` (`Transition`: every
Store mirrors, and whoever rolls back knows every reversible migration).
With `OneList` (programs are versions of one growing list of migrations),
`MigratesInOrder` (`OpensComplete`) and `NobodyTurnedAway` (`NeverRefused`).
The strengthening of the first three is `FreshRowsInPlace`: a row of the
Migrator that no tombstone marks stale or unjudgeable records an effect that is
there. An import is sound because of it, and rollbacks keep it by what they
write into the tombstone. The last two rest on a relation between the database
and the plans of those that are at work on it: the ids that were ever applied,
in place or with a tombstone, are closed downwards; what a Store has worked off
its plan is settled; and every effect has a row or a tombstone. The gap rule then
never meets a hole that a rollback did not make.

About `StoreCache`: `NothingGivenUp` (`TypeOK`, `NothingLost`), for any
fibers, keys, lifetimes and number of entries. What a write evicts is chosen by
rowid, and `ByRowid` says that of two rows the one with the larger rowid was
written after the last write of the other. So an entry goes only when
`maxEntries` other keys were written after it, and what is left fits. A read
about to delete what it found expired has still found the last write of its
key, or a write has overtaken it (`Excused`).

**`Journal_proofs`**, for any number of writers, readers, lines and queues.

- Without further assumptions, so with breaches, torn lines, failures and
  interrupts: `Typed` (`TypeOK`), `PermitHasOneHolder`, and `NothingAfterTerminal`
  (`TerminalRespected`). What was admitted against `latest` is still admissible
  when it is written, because nobody else moves `latest` while the permit is
  held. `NeverTruncated` (`NoFalseResync`) says that no resync is announced for
  a truncation that did not happen, and `EndIsLast` (`EndAfterAppends`, where
  appends are not interrupted) that streams end after every append that was
  admitted before the close: the finalizer waits for the chain it captured, and
  a chain is as long as what was linked to it.
- `Ruly` adds that nobody truncates, replaces, tears or fails a write. Then the
  file is one straight sequence of lines, and what is consumed is a prefix of
  it. `HubKeepsOrder` (`HubInFileOrder`) and `LatestIsNewest`: the gaps that
  appends and the supervisor cut out of the file follow one another, each holds
  the baton of the one before it, and who is ahead in the chain is ahead in the
  file (`Ahead`, `Before`). `LatestIsNewest` (`LatestIsTail`) allows
  interrupts; the order of the hub does not survive one, see the findings.
- `MissesNothing` (`NothingMissing`): each line consumed is in the hub, or in
  the hands of one fiber that is still to publish it (`Accounted`).
- `SeamHolds` (`SeamIsExact`): a subscriber joins the hub before it replays,
  so what it has received from the replay and what is in its queue overlap or
  touch, and the cursor it filters by is where the one meets the other (`Fits`,
  `Joins`). These results exclude two things. `closer # "gave up"`: once the
  finalizer has given up on a stream the supervisor is interrupted, its baton
  is passed, and a later append overtakes it. And `"odd" \notin Kinds`: an
  append that does not decode back leaves a hole, as listed below.

**`RunOnce_proofs`**, for any number of processes and hosts, any crashes and
failures. `OneBreaker` (`BreakersExclude`) holds with locks of any age. Its
invariant is the argument of the code's comment made precise: whoever has
listed the tickets holds one; of two that have listed, one is still to judge
the other's ticket or has found a ticket live; and whoever acts has nothing
left to judge and is not contended.
`OneWorker` (`WorkIsExclusive`), `TrustHolds` (`TrustIsSound`) and `CleanEnd`
(`NothingLeft`) assume that work does not outlive its ages (`~MayOutlive`).
Then a record is judged dead only when its process keeps no lock any more, and
an empty lock only when its maker does not keep it; since breakers exclude each
other, the lock that is renamed is the one that was judged; so an owner's lock
stays in place from its verification to its release. `PutBackUnreached` is a
consequence: the branches that put a lock back because its tomb is not what was
judged are reached only by work that outlives its ages. `Typed` is `TypeOK`.

**`AtomicDirectory_proofs`**: `DirectoryAlwaysWhole` (`DirectoryIsReplaced`),
for any number of files, calls, failures, interrupts and crashes. What readers
see is not inductive by itself: the strengthening says at which places of a
call each of the three trees may be missing, partial or whole
(`TreesInPlace`), and relates the target to what it was when the call began
(`CallInOrder`).

**`Services_proofs`**, about four modules. `TokensShareFlights` (`SharesMints`) is
the second refinement of `SingleFlight`, in which no outcome lasts. It needs
that an installation has an entry just while its mint is open, and that the
fiber of a mint is forked by the one caller that registered it.
`OneCredentialLives` (`OneLive`, `RevokedWhenSpent`), for any number of callers,
lifetime and skew, traces the one token that may live unexcused: it is held
while nobody mints, or on its way to the one fiber that rotates (`Traced`), and
a token is released only by a fiber that saw it spent (`Phases`).
`RestShowsLast` (`TypeOK`, `DocumentIsCurrent` of `CheckDocument`), for any runs,
states and number of reports, with or without a read in the sink: a pass that
began too early for a report leaves a latch, a reporter under way, a busy daemon
or a scope about to close, so that another pass is to come (`PassesSee`), and
what a run wrote is where it wrote it unless it lost track (`Tracked`).

About `JwksResolver`, for any number of fibers and resolvers, any
generations and durations, and a store that answers with any set it was ever
given: `NoOldSetAnswers` (`NoKeyReadmitted`), `DroppedKeysExpire`
(`RevokedKeyStops`), `FetchesAreSpaced` (`FloodIsGated`), `RotationsArrive`
(`RotationPickedUp`) and `ResolverTyped` (`TypeOK`). None of the four is inductive. A
fetched set dates from before the issuer's next rotation (`Truthful`); the
fetches of a resolver follow one another under its lock, so its copy is its
newest (`NewestLast`); the attempt on record is the one under way or the last
there was (`OnRecord`). What is consulted is then never older than what the
resolver knows, and a closed gate was closed by a failure or by a young set.
`RotationsArrive` assumes `MinRefetch <= Ttl`, without which it is false: see
what the checks do not show.

**`LiveView_proofs`**: `FoldsOnceHolds` (`TypeOK`, `FoldsOnce`) and
`LeavesTerminalHolds` (`LeavesTerminal`), for any scripts, any number of frames
that throw, and terminals that are interactive or not, hosted or not. Neither is
inductive. What waits in the work and in the inbox is in order and beyond what
is folded (`InOrder`), whatever was taken is folded or waits (`Complete`), and
nothing that carries events stands behind the word that they have ended
(`EndingInv`), though that word may come from the pump, from a close or from the
end of the scope. So who meets it has everything owed in hand. For the terminal,
the work comes in few orders (`WorkInOrder`), of the runs only the last goes on
and has the permit just while it is mounted (`RunsInOrder`), and what is painted
shows what is folded or is about to (`Shown`); a run that ends then leaves its
last state (`Stands`). The controller drains the inbox with a recursive
function; `FlatIs` says what it returns.

**`Volume_proofs`**: `OneSpellingHolds` (`OneSpelling`) and
`OpenFilesStayHolds`, for any names and folding of them, any paths, links and
limits, and any finite number of inodes and descriptors. The second says of
every step that an open file keeps its inode whatever becomes of its names,
that its count follows the descriptors on it, and that it goes only when the
last of them is closed and no name is left. Both rest on one relation between
the tree an operation is given and the one it makes (`Keeps`): a name is added
only where `lookupEntry` found none that folds alike, or in place of the one
entry that does; and detaching, moving and overwriting leave every inode that
is open. `makeDirectory` and `copy` pass through many trees, each of which is
kept by the next. The proofs hold wherever a path leads, so nothing is assumed
about resolution.

The theorems about the lane, tokens, documents, the resolver, the view and the
cache assume that the constants make sense (`Sensible`): that `None` is no caller,
installation or directory, that the builder is no caller, that stamps are above
0, that durations are natural numbers, those of the resolver positive, that
there is something to publish, and that the cache has room for one entry. Those
about the volume assume `VolumeAssumption`: finite bounds with room for the root
and one inode more, and `..` no name of an entry.

Only model-checked: liveness (`EveryWaitEnds`, `EveryoneAnswered`, the last
part of `MintsAreShared`, `AppendsEnd`, `Recovers`, `EveryCallEnds`), which is
beyond the prover, as is anything about `ENABLED`; and of `Volume`,
`VolumeIsSound` and `NothingMissed`. Link counts, the shape of the tree and what
a watcher is told depend on which inode a path leads to and on sums and sets
over subtrees, which recursive functions compute. What such a function or a fold
yields cannot be had by an induction over data; where the proofs about the
journal, the view and the volume need a fact of that kind they take the shortest
counterexample and refute it.

## Findings

**A dead owner's marker is trusted for ever** (`run_once_old_marker`,
`runOnceMachine.ts:170`). An owner that dies after writing its marker and
before it has released leaves a lock and a marker with one nonce. Every later
caller puts the lock's nonce into its trust set, then finds the marker of that
nonce, and trusts it before it asks whether the lock is breakable. The work is
not run again until the files are removed. The documentation says that a
previous sequential run is never trusted unless `trustSequentialMs` opts in. A
release that fails six times over has the same result.

**An interrupted append lets its successor overtake its predecessor**
(`journal_interrupt`, `engine.ts:385`). `publishAfter` passes its baton when it
is interrupted while still waiting for its predecessor. The lines of the
successor then enter the hub before those of the predecessor, although the
chain exists to keep the file's order. The run has no readers and lets any
publication wait; in the code the predecessor waits long when a subscriber has
filled the hub.

**An older run writes over a newer one** (`check_document_clobber`,
`CheckDocument.ts:445`). A pass reads the document, compares stamps and writes;
nothing ties the write to what was read. A newer run that writes in between is
overwritten, and the document then carries the older stamp. The documentation
(`CheckDocument.ts:239`, github-actions README.md:312) says a delayed re-run
can never do that.

## What the checks do not show

While the models were built TLC reached the following with constants that the
runs above exclude. The first four contradict a document of the repository;
the others are limits, some of them documented.

- `rollback(0)` on an open Store plans from its own ledger only. What an old
  program re-applied since the Store was built stays (`migrator.ts:393`;
  `Store.ts:150` says it unwinds everything). The mirror then records an id
  above a hole, and every later mirrored build fails on the gap rule.
- An append whose payload does not decode back fails after `consumed` has been
  raised over the lines of other processes before it: they are never published
  (`engine.ts:503`; jsonl README.md:145).
- A subscriber that stopped taking makes the finalizer give up on ending every
  other stream (`engine.ts:773`; `Journal.ts:87`).
- A non-recursive watch is not told of the directory that `makeTempFile` makes in
  the directory it is on, only a recursive one is told of the file in it
  (`volume.ts:2391`; `volume.ts:16-18` says that such a watch reports its direct
  children). `NothingMissed` excuses exactly these directories.
- An append onto a torn fragment succeeds and becomes `latest` although the
  joined line cannot be read (`engine.ts:488`).
- A subscriber whose replay has passed a reopen is ended by the terminal before
  it, still in flight (`engine.ts:564`).
- A truncation that is grown over before the next look, or hidden by an own
  append, is not noticed (`engine.ts:597`); a truncation between the two walks
  of a seed is not noticed either.
- A file created and replaced before its first ingest, while an append is in
  flight, leaves `consumed` stale; a truncation during an append can give the
  own line a negative offset.
- Lines ingested after the finalizer captured the chain are dropped.
- A resync is published outside the chain of batons.
- `MAX_IMMEDIATE_REARMS` counts idle watch cycles however far apart they are;
  `CatchesUp` accepts a supervisor that has given up.
- `applyPending` judges only the row it is about to run, and imports one above
  a hole that the gap rule refuses at any other time (`migrator.ts:314`).
- Two Stores that roll back at once run the same down twice, and a Store that
  opens in the middle of a rollback applies ids out of order.
- With work that outlives its ages, two owners of a `RunOnce` lock can run at
  once, and a lock put back after its owner polled again makes that owner wait
  for itself until the deadline. Both are within the residual risks
  `RunOnce.ts` documents.
- A ticket whose record could not be written keeps everybody from breaking the
  lock for `staleMs`.
- The marker is one file: a waiter that watched one success and polls only
  after a later owner has overwritten the marker runs the work again.
- A read of the cache that found an entry expired deletes a fresh one that was
  written in between (`Cache.ts:509`); `NothingLost` makes that exception.
- A credential that is rotated within `Skew` of its expiry is revoked at once,
  while a request of another caller may still carry it (`GitHubApp.ts:1018`
  calls rotation invisible to a caller).
- A token whose mint response is lost, or that arrives after the scope closed,
  is never revoked; it expires. `CredentialsAccountedFor` excuses it.
- A write of the check document that was given up may still land, in front of
  or behind what is written next; `DocumentIsCurrent` excuses a run once that
  has happened, and a run without read access that does not know it did.
- `DirectoryIsReplaced` takes it that an interrupted file system call does
  nothing more and that calls for one root do not overlap, as
  `AtomicDirectory.ts:127-130` asks of its callers. A root deleted by hand
  after a crash in the final cleanup can bring back a partly removed tree.
- With a `minRefetchInterval` longer than the TTL, which nothing rules out
  (`JwksResolver.ts:189-196`), an issuer's current keys are refused from the end
  of the TTL to the end of the interval (`:306`); `RefetchesAreGated` and its
  theorem take an interval no longer than the TTL.
- What a key set may be used for runs from when the question was asked
  (`RevokedKeyStops`): a read of the store that is slow is not counted.
- What an abandoned promise does after its turn on the lane is not observed.
- The close of a live view is shown to be answered with one run only.
- No run without `MayOutlive` reaches the second read of the marker
  (`runOnceMachine.ts:539`) with something to trust; it is reached in
  `run_once_ends`.

## Not modelled

Parsers, formatters, schemas and encoders (yaml, toml, jsonc, markdown, glob,
semver, spdx, lockfiles, package and tsconfig files, schema-org) hold no state,
and a bounded model of character data says less than the repository's property
tests. They are most of the code. Clients of services and subprocesses (git,
github, npm, sbom, schemastore, github-actions) decode one request at a time.
Cryptography and rendering have nothing to interleave. The memos of workspaces
and runtimes are thin uses of effect core, whose code is not in this repository.

## Plan

Done, in the order of how much depends on them: `MigrateOnce`,
`StoreMigrator`, `Journal`, `RunOnce`; then `StoreCache`, `JwksResolver`,
`AtomicDirectory`, `TokenRotation`, `InstallationTokens`, `CheckDocument`,
`ExclusiveLane`, `LiveView`, `Volume`, and the abstract `SingleFlight`.

Next, modules: the diagnostics file sink; the process harnesses of mcp-kit and
lsp; the injected faults of `MemoryFileSystem`.

Abstract specifications, each to be implemented by the module named: a lock
with crash-tolerant takeover (`RunOnce`), an append-only log with readers at
positions (`Journal`), a set of migrations applied in order (`StoreMigrator`).

Composition: `MigrateOnce` with `StoreMigrator`, where the outcome of a run is
the outcome of a build.

Theorems: the link counts and the tree of `Volume` (`VolumeIsSound`), and that its
watchers miss nothing (`NothingMissed`).
