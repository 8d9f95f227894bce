------------------------------ MODULE Journal ------------------------------
(* The live engine of one journal (packages/jsonl/src/internal/engine.ts).    *)
(*                                                                            *)
(* A journal is a JSON-lines file that this process and other processes       *)
(* append to.  The engine serializes its own appends under a write permit,    *)
(* learns of other writers' lines from a file watch, publishes every decoded  *)
(* line to a bounded hub in the order of a chain of batons, and keeps the     *)
(* last valid envelope in `latest`.  A subscriber replays the file from a     *)
(* cursor and joins the hub at a seam.                                        *)
(*                                                                            *)
(* A step is what happens between two suspension points: each file operation  *)
(* is a step of its own and the synchronous code that follows it belongs to   *)
(* it.  A line is reduced to its kind, and offsets count half lines, so a     *)
(* write that tears has an offset of its own.                                 *)
EXTENDS Integers, SequencesExt

CONSTANTS
  Writers,      \* fibers of this process that append
  Readers,      \* subscribers of `changes`
  Stalled,      \* the Readers that may stop taking without leaving
  Kinds,        \* what this process appends, a subset of LineKinds
  OtherKinds,   \* what the other processes append
  Cursors,      \* cursors given to `changes`, NoCursor among them for none
  StartFiles,   \* what the engine may start on: <<line kinds>>, or <<>> for no file
  Capacity,     \* of the hub
  MaxRearms,    \* MAX_IMMEDIATE_REARMS
  MaxLines,     \* bound: lines ever written
  MaxBreaches,  \* bound: truncations, replacements and removals
  MayTear,      \* whether another process may be seen half way through a line
  MayFail,      \* whether a write of this process may fail
  MayInterrupt, \* whether an appending fiber may be interrupted
  MayTruncate,  \* whether a breach may be a truncation
  NoOne, Supervisor

\* "odd" is a payload that its schema encodes to something it cannot decode;
\* "bad" is a line that is no envelope, whoever reads it.
LineKinds == {"event", "terminal", "reopen", "odd"}
Readable == {"event", "terminal", "reopen"}
NoCursor == -1
None == [kind |-> "none"]

ASSUME JournalAssumption ==
  /\ Kinds \subseteq LineKinds
  /\ OtherKinds \subseteq LineKinds
  /\ Capacity \in Nat \ {0}
  /\ MaxRearms \in Nat
  /\ MaxLines \in Nat
  /\ MaxBreaches \in Nat
  /\ {MayTear, MayFail, MayInterrupt, MayTruncate} \subseteq BOOLEAN
  /\ \A start \in StartFiles : start \in Seq(Seq(LineKinds)) /\ Len(start) <= 1
  /\ Stalled \subseteq Readers
  /\ Cursors \subseteq Nat \cup {NoCursor}
  /\ NoOne # Supervisor /\ {NoOne, Supervisor} \cap Writers = {}

VARIABLES
  files,     \* every file the path has named; a file outlives its name
  path,      \* which of them it names, 0 for none
  half,      \* the line another process is half way through
  breaches,  \* how often the append-only contract was broken
  consumed, identity, latest,
  permit,    \* the holder of writePermit
  chain,     \* the publish chain: jobs in the order they were linked
  sent,      \* history: the items published, in order
  wr,        \* the appends in progress
  sub,       \* the subscribers
  sup,       \* the supervisor fiber and the ingest it runs
  watch,     \* what it watches, and what the watch has reported
  closer     \* the finalizer, and with it the `closed` flag

disk == <<files, path, half, breaches>>
adopted == <<consumed, identity, latest>>
fibers == <<wr, sub, sup, closer>>
vars == <<disk, adopted, permit, chain, sent, fibers, watch>>

closed == closer # "open"

------------------------------------------------------------------------------
(* The file.                                                                  *)

EndOf(f) == IF f.lines = <<>> THEN 0 ELSE Last(f.lines).end
Size(f) == EndOf(f) + IF f.torn = "none" THEN 0 ELSE 1

\* A complete line lands behind whatever is there: joined to a fragment it is
\* one unreadable line.
Landed(f, kind) ==
  [lines |-> Append(f.lines,
     [start |-> EndOf(f), end |-> Size(f) + 2,
      kind |-> IF f.torn = "none" THEN kind ELSE "bad"]),
   torn |-> "none"]

FileOf(kinds) ==
  [lines |-> [n \in DOMAIN kinds |-> [start |-> 2 * n - 2, end |-> 2 * n, kind |-> kinds[n]]],
   torn |-> "none"]

\* How many lines end at an offset or before it.
UpTo(lines, offset) == Cardinality({n \in DOMAIN lines : lines[n].end <= offset})

\* scanRange and itemsOf: the complete lines of [from, to).  Read from the
\* middle of a line, its rest is no envelope.
Items(i, from, to) ==
  LET lines == files[i].lines
      skipped == UpTo(lines, from)
  IN  [n \in 1..(UpTo(lines, to) - skipped) |->
         LET line == lines[skipped + n]
         IN  [file |-> i, end |-> line.end,
              start |-> IF line.start < from THEN from ELSE line.start,
              kind |-> IF line.start < from THEN "bad" ELSE line.kind]]

Valid(item) == item.kind \in Readable
LastEnvelope(items, otherwise) ==
  LET n == SelectLastInSeq(items, Valid)
  IN  IF n = 0 THEN otherwise ELSE items[n]
AllItems(i) == Items(i, 0, EndOf(files[i]))

Lines == FoldSeq(LAMBDA f, n : n + Len(f.lines) + IF f.torn = "none" THEN 0 ELSE 1,
                 0, files)
MoreLines == Lines < MaxLines

Directory == -1

\* Every change to the watched file pokes the watch; a directory watch is
\* poked by whatever happens to the journal in it.
Poked(i) == [watch EXCEPT !.poke = @ \/ watch.on \in {i, Directory}]

------------------------------------------------------------------------------
(* Everybody else: other processes, and whoever breaks the contract.          *)

Others == UNCHANGED <<adopted, permit, chain, sent, fibers>>

OtherAppends(kind) ==
  /\ path # 0 /\ MoreLines /\ half = None
  /\ files' = [files EXCEPT ![path] = Landed(@, kind)]
  /\ watch' = Poked(path)
  /\ UNCHANGED <<path, half, breaches>> /\ Others

OtherTears(kind) ==
  /\ MayTear /\ path # 0 /\ MoreLines /\ half = None
  /\ files[path].torn = "none"
  /\ files' = [files EXCEPT ![path].torn = "other"]
  /\ half' = [kind |-> kind, file |-> path]
  /\ watch' = Poked(path)
  /\ UNCHANGED <<path, breaches>> /\ Others

\* The rest of the line lands where the file now ends.
OtherCompletes ==
  /\ half # None
  /\ LET f == files[half.file]
         whole == [f EXCEPT !.torn = "none"]
     IN  files' = [files EXCEPT ![half.file] =
           IF f.torn = "other" THEN Landed(whole, half.kind)
           ELSE [f EXCEPT !.lines = Append(@,
                   [start |-> EndOf(f), end |-> Size(f) + 1, kind |-> "bad"])]]
  /\ half' = None
  /\ watch' = Poked(half.file)
  /\ UNCHANGED <<path, breaches>> /\ Others

Breach == /\ path # 0 /\ breaches < MaxBreaches
          /\ breaches' = breaches + 1
          /\ UNCHANGED half /\ Others

Truncate(n) ==
  /\ MayTruncate /\ Breach
  /\ n < Len(files[path].lines)
  /\ files' = [files EXCEPT ![path] = [lines |-> SubSeq(@.lines, 1, n), torn |-> "none"]]
  /\ watch' = Poked(path)
  /\ UNCHANGED path

\* A watch follows its file: it reports the loss and ends.
Lost == [watch EXCEPT !.poke = @ \/ watch.on \in {path, Directory},
                      !.ended = @ \/ watch.on = path]

Replace(kinds) ==
  /\ Breach
  /\ files' = Append(files, FileOf(kinds))
  /\ path' = Len(files')
  /\ watch' = Lost

RemoveFile ==
  /\ Breach
  /\ path' = 0
  /\ watch' = Lost
  /\ UNCHANGED files

\* `create`, by this process or another.
Create ==
  /\ path = 0 /\ Len(files) <= MaxBreaches
  /\ files' = Append(files, FileOf(<<>>))
  /\ path' = Len(files')
  /\ watch' = Poked(path')
  /\ UNCHANGED <<half, breaches>> /\ Others

------------------------------------------------------------------------------
(* Append: closed?, permit, stat, write, fstat, scan, link, publish.          *)

TerminalTail == latest.kind = "terminal"
Idle == [pc |-> "idle"]
At(w, pc) == wr[w].pc = pc

\* Mutated form of Fails: it is kept.
FailsHolding(w) == wr' = [wr EXCEPT ![w] = Idle] /\ permit' = permit
\* An append that fails gives the permit back.
Fails(w) == wr' = [wr EXCEPT ![w] = Idle] /\ permit' = NoOne

AppendRest == <<disk, adopted, chain, sent, sub, sup, watch, closer>>

Append_(w, kind) ==
  /\ sup.built /\ ~closed /\ At(w, "idle") /\ MoreLines
  /\ wr' = [wr EXCEPT ![w] = [pc |-> "queued", kind |-> kind]]
  /\ UNCHANGED <<permit, AppendRest>>

\* Mutated form of Free: nobody waits for the permit.
FreeAlways == TRUE
Free == permit = NoOne

\* The second look at `closed`, under the permit.
Enter(w) ==
  /\ At(w, "queued") /\ Free
  /\ IF closed THEN Fails(w)
               ELSE wr' = [wr EXCEPT ![w].pc = "stat"] /\ permit' = w
  /\ UNCHANGED AppendRest

Admissible(kind) == path # 0 /\ (TerminalTail => kind = "reopen")

Stat(w) ==
  /\ At(w, "stat")
  /\ IF Admissible(wr[w].kind)
     THEN wr' = [wr EXCEPT ![w].pc = "write"] /\ UNCHANGED permit
     ELSE Fails(w)
  /\ UNCHANGED AppendRest

\* open(path, "a") creates a file that has gone missing since the stat.
Target == IF path = 0 THEN Append(files, FileOf(<<>>)) ELSE files
OpenedAt == IF path = 0 THEN Len(files) + 1 ELSE path
WriteRest == <<half, breaches, adopted, chain, sent, sub, sup, closer>>

Write(w) ==
  /\ At(w, "write")
  /\ files' = [Target EXCEPT ![OpenedAt] = Landed(@, wr[w].kind)]
  /\ path' = OpenedAt
  /\ watch' = Poked(OpenedAt)
  /\ wr' = [wr EXCEPT ![w] = [pc |-> "fstat", kind |-> @.kind, file |-> OpenedAt]]
  /\ UNCHANGED <<permit, WriteRest>>

\* A write that fails may have left part of the line.
WriteFails(w) ==
  /\ MayFail /\ At(w, "write") /\ path # 0
  /\ \/ UNCHANGED <<files, watch>>
     \/ /\ files[path].torn = "none"
        /\ files' = [files EXCEPT ![path].torn = "own"]
        /\ watch' = Poked(path)
  /\ Fails(w)
  /\ UNCHANGED <<path, WriteRest>>

Larger(a, b) == IF a < b THEN b ELSE a

\* The line as fstat places it, and as the scan of the gap finds it.  The text
\* of a line is its kind here, so that equal texts are always possible.
Guessed(w, end) == [file |-> wr[w].file, start |-> end - 2, end |-> end, kind |-> wr[w].kind]
FoundAt(gap, own) ==
  SelectLastInSeq(gap, LAMBDA item : item.kind = own.kind /\ item.start <= own.start)

Link(items, by) == Append(chain, [items |-> items, by |-> by, done |-> FALSE, pending |-> FALSE])

\* Mutated form of Batch: the lines ahead of ours are consumed, not published.
BatchOfOwn(before, own, after) == <<own>> \o after
Batch(before, own, after) == before \o <<own>> \o after

\* Mutated form of Newest: our line is taken for the last one.
NewestIsOwn(own, after) == own
Newest(own, after) == LastEnvelope(after, own)

\* What follows once the position of the line is known.  A line that does not
\* decode fails the append after `consumed` has moved.
Conclude(w, own, before, after, end) ==
  /\ consumed' = Larger(consumed, end)
  /\ IF own.kind = "odd"
     THEN Fails(w) /\ UNCHANGED <<latest, chain>>
     ELSE /\ latest' = Newest(own, after)
          /\ chain' = Link(Batch(before, own, after), w)
          /\ wr' = [wr EXCEPT ![w] = [pc |-> "publish"]]
          /\ permit' = NoOne

ConcludeRest == <<disk, identity, sent, sub, sup, watch, closer>>

Fstat(w) ==
  /\ At(w, "fstat")
  /\ LET end == Size(files[wr[w].file])
         own == Guessed(w, end)
     IN  IF own.start = consumed
         THEN Conclude(w, own, <<>>, <<>>, end)
         ELSE /\ wr' = [wr EXCEPT ![w] = [pc |-> "scan", kind |-> @.kind, file |-> @.file, end |-> end]]
              /\ UNCHANGED <<consumed, permit, latest, chain>>
  /\ UNCHANGED ConcludeRest

\* The scan reads the path again, not the handle that was written.
ScanGap(w) ==
  /\ At(w, "scan") /\ path # 0
  /\ LET gap == Items(path, consumed, wr[w].end)
         own == Guessed(w, wr[w].end)
         n == FoundAt(gap, own)
     IN  IF n # 0
         THEN Conclude(w, gap[n], SubSeq(gap, 1, n - 1), SubSeq(gap, n + 1, Len(gap)), Last(gap).end)
         ELSE Conclude(w, own, gap, <<>>, wr[w].end)
  /\ UNCHANGED ConcludeRest

ScanFails(w) ==
  /\ At(w, "scan") /\ path = 0
  /\ Fails(w)
  /\ UNCHANGED AppendRest

------------------------------------------------------------------------------
(* The publish chain and the hub.                                             *)

\* Mutated form of Attached: subscribed only once the replay is over.
AttachedLate(r) == sub[r].live /\ sub[r].pc = "live"
Attached(r) == sub[r].live /\ sub[r].pc \in {"stat", "replay", "live"}

\* A bounded PubSub suspends its publisher while any subscriber is full; with
\* no subscriber a message is gone at once.
HubHasRoom == \A r \in Readers : Attached(r) => Len(sub[r].queue) < Capacity
Delivered(message) ==
  [r \in Readers |-> IF Attached(r) THEN [sub[r] EXCEPT !.queue = Append(@, message)]
                                    ELSE sub[r]]

\* Mutated form of MayPublish: nobody waits for the predecessor.
MayPublishAtOnce(n) == ~chain[n].done
MayPublish(n) == ~chain[n].done /\ (n > 1 => chain[n - 1].done)

Publish(n) ==
  /\ n \in DOMAIN chain /\ MayPublish(n) /\ chain[n].items # <<>>
  /\ HubHasRoom
  /\ sent' = Append(sent, Head(chain[n].items))
  /\ sub' = Delivered(Head(chain[n].items))
  /\ chain' = [chain EXCEPT ![n].items = Tail(@)]
  /\ UNCHANGED <<disk, adopted, permit, wr, sup, watch, closer>>

\* The batons that are passed and whose successor is free are forgotten.
Trimmed(jobs) ==
  LET first == SelectInSeq(jobs, LAMBDA job : ~job.done)
  IN  IF first = 0 THEN <<>> ELSE SubSeq(jobs, first, Len(jobs))
PassedBy(by) ==
  Trimmed([n \in DOMAIN chain |-> [chain[n] EXCEPT !.done = @ \/ chain[n].by = by]])

Published(by) == \E n \in DOMAIN chain :
  /\ MayPublish(n) /\ chain[n].by = by /\ chain[n].items = <<>>

\* publishAfter returns: the baton is passed and append answers its caller.
Answer(w) ==
  /\ At(w, "publish") /\ Published(w)
  /\ chain' = PassedBy(w)
  /\ wr' = [wr EXCEPT ![w] = Idle]
  /\ UNCHANGED <<disk, adopted, permit, sent, sub, sup, watch, closer>>

\* Mutated form of Relinquished: an interrupted holder never releases.
Held(by) == permit
Relinquished(by) == IF permit = by THEN NoOne ELSE permit

\* An interrupt gives the permit back and passes the baton, whether or not the
\* predecessor has passed its own.
Interrupt(w) ==
  /\ MayInterrupt /\ ~At(w, "idle")
  /\ chain' = PassedBy(w)
  /\ wr' = [wr EXCEPT ![w] = Idle]
  /\ permit' = Relinquished(w)
  /\ UNCHANGED <<disk, adopted, sent, sub, sup, watch, closer>>

------------------------------------------------------------------------------
(* Construction, supervise and ingest: one fiber.                             *)

SupAt(pc) == sup.pc = pc
SupGoes(pc) == sup' = [sup EXCEPT !.pc = pc]

\* Where the fiber goes when an ingest returns, and when one fails: a failure
\* within followJournal or awaitCreation is ignored, one between them is not.
Settled == [sup EXCEPT !.floor = 0, !.size = 0, !.file = 0]
NextCycle ==
  LET idle == IF consumed = sup.startedAt THEN sup.idle + 1 ELSE 0
  IN  [Settled EXCEPT !.idle = idle, !.pc = IF idle > MaxRearms THEN "gone" ELSE "look"]
Returned == IF sup.after \in {"loop", "created"} THEN NextCycle ELSE [Settled EXCEPT !.pc = sup.after]
IngestThen(after) == [Settled EXCEPT !.pc = "ingest", !.after = after]
Failed ==
  CASE sup.after = "follow" -> IngestThen("loop")
    [] sup.after \in {"await", "created"} -> NextCycle
    [] OTHER -> [Settled EXCEPT !.pc = "gone"]

Unwatched == [on |-> 0, poke |-> FALSE, ended |-> FALSE]
EngineRest == <<disk, sent, wr, sub, closer>>
LookRest == <<EngineRest, adopted, permit, chain>>

\* The layer is being built: a missing file is legal.
Built == [sup EXCEPT !.pc = "look", !.built = TRUE]

Construct ==
  /\ SupAt("construct")
  /\ sup' = IF path = 0 THEN Built ELSE [sup EXCEPT !.pc = "resume"]
  /\ identity' = path
  /\ UNCHANGED <<EngineRest, consumed, latest, permit, chain, watch>>

\* A file that vanishes beneath the seed.
SeedFails ==
  /\ SupAt("resume") \/ SupAt("tail")
  /\ path = 0
  /\ sup' = IF sup.built THEN Failed ELSE Built
  /\ permit' = NoOne
  /\ UNCHANGED <<EngineRest, adopted, chain, watch>>

\* seed reads the resume point first and the last envelope after it.  `base`
\* remembers where the engine began with this file.
ResumePoint == EndOf(files[path])

SeedResume ==
  /\ SupAt("resume") /\ path # 0
  /\ consumed' = ResumePoint
  /\ sup' = [sup EXCEPT !.pc = "tail", !.base = ResumePoint]
  /\ UNCHANGED <<EngineRest, identity, latest, permit, chain, watch>>

SeedLatest ==
  /\ SupAt("tail") /\ path # 0
  /\ latest' = LastEnvelope(AllItems(path), None)
  /\ sup' = IF sup.built THEN [sup EXCEPT !.pc = "announce"] ELSE Built
  /\ permit' = NoOne
  /\ UNCHANGED <<EngineRest, consumed, identity, chain, watch>>

Look ==
  /\ SupAt("look")
  /\ sup' = [sup EXCEPT !.pc = IF path = 0 THEN "arm directory" ELSE "arm",
                        !.startedAt = consumed]
  /\ UNCHANGED <<LookRest, watch>>

\* Mutated form of Armed: nothing is read once the watch is armed.
ArmedOnly == [Settled EXCEPT !.pc = "follow"]
\* followJournal: armed, then caught up, then following.
Armed == IngestThen("follow")

Arm ==
  /\ SupAt("arm")
  /\ IF path = 0
     THEN sup' = IngestThen("loop") /\ UNCHANGED watch
     ELSE sup' = Armed /\ watch' = [Unwatched EXCEPT !.on = path]
  /\ UNCHANGED LookRest

Follow ==
  /\ SupAt("follow")
  /\ \/ /\ watch.poke
        /\ watch' = [watch EXCEPT !.poke = FALSE]
        /\ sup' = IngestThen("follow")
     \/ /\ ~watch.poke /\ watch.ended
        /\ watch' = Unwatched
        /\ sup' = IngestThen("loop")
  /\ UNCHANGED LookRest

\* awaitCreation: armed before the existence check.
ArmDirectory ==
  /\ SupAt("arm directory")
  /\ watch' = [Unwatched EXCEPT !.on = Directory]
  /\ SupGoes("check")
  /\ UNCHANGED LookRest

Check ==
  /\ SupAt("check")
  /\ IF path = 0 THEN SupGoes("await") /\ UNCHANGED watch
                 ELSE sup' = NextCycle /\ watch' = Unwatched
  /\ UNCHANGED LookRest

\* The event that ends the watch also catches the journal up.
Await ==
  /\ SupAt("await") /\ watch.poke
  /\ watch' = IF path = 0 THEN [watch EXCEPT !.poke = FALSE] ELSE Unwatched
  /\ sup' = IngestThen(IF path = 0 THEN "await" ELSE "created")
  /\ UNCHANGED LookRest

\* ingest: the floor is taken, then the stat is under way.
Floor ==
  /\ SupAt("ingest")
  /\ sup' = [sup EXCEPT !.pc = "sample", !.floor = consumed]
  /\ UNCHANGED <<LookRest, watch>>

Sample ==
  /\ SupAt("sample")
  /\ sup' = IF path = 0 THEN Returned
            ELSE [sup EXCEPT !.pc = "judge", !.file = path, !.size = Size(files[path])]
  /\ UNCHANGED <<LookRest, watch>>

Replaced == identity # 0 /\ identity # sup.file
\* Mutated form of Shrunk: compared with what appends have consumed since.
ShrunkSince == sup.size < consumed
Shrunk == sup.size < sup.floor

Judge ==
  /\ SupAt("judge")
  /\ IF Replaced \/ Shrunk
     THEN SupGoes("reseed") /\ UNCHANGED identity
     ELSE /\ identity' = sup.file
          /\ sup' = IF sup.size <= consumed THEN Returned ELSE [sup EXCEPT !.pc = "read"]
  /\ UNCHANGED <<EngineRest, consumed, latest, permit, chain, watch>>

\* The gap is read, consumed and linked under the permit; from then on the
\* lines are published like an append.
ReadGap ==
  /\ SupAt("read") /\ Free
  /\ IF path = 0
     THEN sup' = Failed /\ UNCHANGED <<consumed, latest, chain>>
     ELSE LET gap == Items(path, consumed, sup.size)
          IN  /\ consumed' = IF gap = <<>> THEN consumed ELSE Last(gap).end
              /\ latest' = LastEnvelope(gap, latest)
              /\ chain' = Link(gap, Supervisor)
              /\ SupGoes("publish")
  /\ UNCHANGED <<EngineRest, identity, permit, watch>>

PublishedGap ==
  /\ SupAt("publish") /\ Published(Supervisor)
  /\ chain' = PassedBy(Supervisor)
  /\ sup' = Returned
  /\ UNCHANGED <<EngineRest, adopted, permit, watch>>

\* A breach: the file is adopted as it now is.  A file that is gone is a reset.
Reseed ==
  /\ SupAt("reseed") /\ Free
  /\ identity' = path
  /\ IF path = 0
     THEN /\ consumed' = 0 /\ latest' = None
          /\ sup' = [sup EXCEPT !.pc = "announce", !.base = 0] /\ UNCHANGED permit
     ELSE /\ permit' = Supervisor
          /\ SupGoes("resume") /\ UNCHANGED <<consumed, latest>>
  /\ UNCHANGED <<EngineRest, chain, watch>>

Resync == [kind |-> "resync"]
Announce ==
  /\ SupAt("announce") /\ HubHasRoom
  /\ sub' = Delivered(Resync)
  /\ sup' = Returned
  /\ UNCHANGED <<disk, adopted, permit, chain, sent, wr, watch, closer>>

------------------------------------------------------------------------------
(* changes: subscribed before the replay, then one seam.                      *)

SubscriberRest == <<disk, adopted, permit, chain, sent, wr, sup, watch, closer>>
NotSubscribed == [pc |-> "off", live |-> FALSE, queue |-> <<>>, got |-> <<>>]

\* A quiescent or closed journal is replayed and nothing more.
Over == TerminalTail \/ closed

Subscribe(r, cursor) ==
  /\ sub[r].pc = "off" /\ sup.built
  /\ sub' = [sub EXCEPT ![r] =
       [pc |-> IF cursor # NoCursor THEN "stat" ELSE IF Over THEN "ended" ELSE "live",
        live |-> ~Over, cursor |-> cursor, through |-> Larger(cursor, 0),
        from |-> IF cursor = NoCursor THEN consumed ELSE cursor,
        size |-> 0, queue |-> <<>>, got |-> <<>>]]
  /\ UNCHANGED SubscriberRest

\* A subscriber that is over leaves the hub.
Leaves(r, how, got) ==
  sub' = [sub EXCEPT ![r].pc = how, ![r].queue = <<>>, ![r].got = got]

\* The region of the replay is fixed by one stat.
ReplayStat(r) ==
  /\ sub[r].pc = "stat"
  /\ IF path = 0 THEN Leaves(r, "failed", <<>>)
     ELSE sub' = [sub EXCEPT ![r].pc = "replay", ![r].size = Size(files[path])]
  /\ UNCHANGED SubscriberRest

Replay(r) ==
  /\ sub[r].pc = "replay"
  /\ IF path = 0 THEN Leaves(r, "failed", <<>>)
     ELSE LET items == Items(path, sub[r].cursor, sub[r].size)
          IN  sub' = [sub EXCEPT ![r].got = items,
                                 ![r].through = IF items = <<>> THEN @ ELSE Last(items).end,
                                 ![r].pc = IF sub[r].live THEN "live" ELSE "ended"]
  /\ UNCHANGED SubscriberRest

End == [kind |-> "end"]
Received(r, item) ==
  IF item.start >= sub[r].through THEN Append(sub[r].got, item) ELSE sub[r].got

\* A terminal ends the subscriber whether or not the replay has delivered it.
Take(r) ==
  /\ sub[r].pc = "live" /\ sub[r].queue # <<>>
  /\ LET item == Head(sub[r].queue)
     IN  CASE item = Resync -> Leaves(r, "failed", sub[r].got)
           [] item = End -> Leaves(r, "ended", sub[r].got)
           [] item.kind = "terminal" -> Leaves(r, "ended", Received(r, item))
           [] OTHER -> sub' = [sub EXCEPT ![r].got = Received(r, item), ![r].queue = Tail(@)]
  /\ UNCHANGED SubscriberRest

\* The consumer has enough.
Leave(r) == Attached(r) /\ Leaves(r, "left", sub[r].got) /\ UNCHANGED SubscriberRest

------------------------------------------------------------------------------
(* The finalizer: refuse, drain what is linked, end the stream, in a bounded  *)
(* time.  The supervisor is interrupted after it.                             *)

Close ==
  /\ sup.built /\ ~closed
  /\ closer' = "refusing"
  /\ UNCHANGED <<disk, adopted, permit, chain, sent, wr, sub, sup, watch>>

Capture ==
  /\ closer = "refusing" /\ Free
  /\ chain' = IF chain = <<>> THEN chain ELSE [chain EXCEPT ![Len(chain)].pending = TRUE]
  /\ closer' = "draining"
  /\ UNCHANGED <<disk, adopted, permit, sent, wr, sub, sup, watch>>

\* Mutated form of Drained: whatever is linked is not waited for.
DrainedAtOnce == closed
Drained == \A n \in DOMAIN chain : chain[n].pending => chain[n].done

Finalized(how) ==
  /\ closer' = how
  /\ SupGoes("gone")
  /\ watch' = Unwatched
  /\ chain' = PassedBy(Supervisor)
  /\ permit' = Relinquished(Supervisor)
  /\ UNCHANGED <<disk, adopted, sent, wr>>

EndStreams ==
  /\ closer = "draining" /\ Drained /\ HubHasRoom
  /\ sub' = Delivered(End)
  /\ Finalized("ended")

\* The bound runs out on a subscriber that has stopped taking.
GiveUp ==
  /\ closer = "draining"
  /\ \E r \in Stalled : Attached(r) /\ Len(sub[r].queue) = Capacity
  /\ Finalized("gave up") /\ UNCHANGED sub

------------------------------------------------------------------------------
Init ==
  /\ \E start \in StartFiles : files = [n \in DOMAIN start |-> FileOf(start[n])]
  /\ path = Len(files) /\ half = None /\ breaches = 0
  /\ consumed = 0 /\ identity = 0 /\ latest = None
  /\ permit = NoOne /\ chain = <<>> /\ sent = <<>>
  /\ wr = [w \in Writers |-> Idle]
  /\ sub = [r \in Readers |-> NotSubscribed]
  /\ sup = [pc |-> "construct", after |-> "loop", built |-> FALSE, floor |-> 0, size |-> 0,
            file |-> 0, startedAt |-> 0, idle |-> 0, base |-> 0]
  /\ watch = Unwatched /\ closer = "open"

OthersStep == \/ \E kind \in OtherKinds : OtherAppends(kind) \/ OtherTears(kind)
              \/ OtherCompletes
BreachStep == \/ \E n \in 0..(MaxLines - 1) : Truncate(n)
              \/ \E start \in StartFiles \ {<<>>} : Replace(start[1])
              \/ RemoveFile \/ Create
WriterStep(w) == Enter(w) \/ Stat(w) \/ Write(w) \/ Fstat(w) \/ ScanGap(w) \/ ScanFails(w) \/ Answer(w)
SupervisorStep == \/ Construct \/ SeedFails \/ SeedResume \/ SeedLatest \/ Look \/ Arm \/ Follow
                  \/ ArmDirectory \/ Check \/ Await \/ Floor \/ Sample \/ Judge
                  \/ ReadGap \/ PublishedGap \/ Reseed \/ Announce
PublishStep == \E n \in DOMAIN chain : Publish(n)
ReaderStep(r) == ReplayStat(r) \/ Replay(r) \/ Take(r)
CloserStep == Capture \/ EndStreams

Next ==
  \/ OthersStep \/ BreachStep \/ SupervisorStep \/ PublishStep
  \/ \E w \in Writers : \/ \E kind \in Kinds : Append_(w, kind)
                        \/ WriterStep(w) \/ WriteFails(w) \/ Interrupt(w)
  \/ \E r \in Readers : \/ \E cursor \in Cursors : Subscribe(r, cursor)
                        \/ ReaderStep(r) \/ Leave(r)
  \/ Close \/ CloserStep \/ GiveUp

Spec == Init /\ [][Next]_vars

\* The event loop runs every fiber that can run, and a Semaphore serves those
\* that wait for it in order; a reader that is not Stalled keeps taking; the
\* timeout fires.
Fairness ==
  /\ SF_vars(SupervisorStep) /\ SF_vars(CloserStep)
  /\ WF_vars(PublishStep) /\ WF_vars(GiveUp)
  /\ \A w \in Writers : SF_vars(WriterStep(w))
  /\ \A r \in Readers \ Stalled : WF_vars(ReaderStep(r))

FairSpec == Spec /\ Fairness

------------------------------------------------------------------------------
(* Properties.                                                                *)

ItemKinds == LineKinds \cup {"bad"}
Item == [file : Nat, start : Int, end : Nat, kind : ItemKinds]
LineIn(f) == \A n \in DOMAIN f.lines :
  f.lines[n] \in [start : Nat, end : Nat, kind : ItemKinds]

\* Shapes, and who may hold what: the write permit belongs to an append between
\* its second look at `closed` and its link, or to a seed.
TypeOK ==
  /\ \A i \in DOMAIN files : LineIn(files[i]) /\ files[i].torn \in {"none", "other", "own"}
  /\ path \in 0..Len(files) /\ identity \in 0..Len(files) /\ consumed \in Nat
  /\ latest \in Item \cup {None}
  /\ \A w \in Writers : (permit = w) <=> wr[w].pc \in {"stat", "write", "fstat", "scan"}
  /\ permit = Supervisor => sup.pc \in {"resume", "tail"}
  /\ \A r \in Readers : Len(sub[r].queue) <= Capacity
  /\ \A n \in DOMAIN chain : \A m \in DOMAIN chain[n].items : chain[n].items[m] \in Item

\* The hub carries a file's lines in the file's order, each once, however the
\* bytes of several writers interleaved (the publish baton, engine.ts:247-254,
\* 474-478).
HubInFileOrder ==
  \A m, n \in DOMAIN sent :
    m < n /\ sent[m].file = sent[n].file => sent[m].end <= sent[n].start

InFlight == UNION {Range(chain[n].items) : n \in DOMAIN chain}
Quiet == sup.built /\ permit # Supervisor /\ path # 0
ConsumedItems(from) ==
  {item \in Range(AllItems(path)) : item.start >= from /\ item.end <= consumed}

\* What counts as consumed has been published or is on the chain: another
\* writer's line never falls between an append and the watcher (README.md:145).
NothingSkipped ==
  Quiet /\ identity = path /\ closer \notin {"ended", "gave up"} =>
    ConsumedItems(sup.base) \subseteq Range(sent) \cup InFlight

\* `latest` is the last valid envelope of the file, up to what has been consumed
\* or, after a seed, somewhat further (Journal.ts:43-49).
LatestIsTail ==
  Quiet /\ identity = path =>
    \E n \in 0..Len(files[path].lines) :
      LET seen == SubSeq(AllItems(path), 1, n)
      IN  /\ latest = LastEnvelope(seen, None)
          /\ ConsumedItems(0) \subseteq Range(seen)

\* Neither the stream nor `latest` misses a line that counts as consumed: it is
\* published or about to be, and `latest` was read from it or from beyond
\* (engine.ts:483-517, 635-646).
NothingMissing == NothingSkipped /\ LatestIsTail

\* Nothing but a reopen is written after a terminal the engine knows of, even by
\* appends that queued before it (engine.ts:443-447).
TerminalRespected ==
  [][\A w \in Writers : At(w, "write") /\ wr'[w].pc = "fstat" =>
       (TerminalTail => wr[w].kind = "reopen")]_vars

\* A journal whose contract is kept is never said to be truncated, however an
\* append overlaps the stat of an ingest (engine.ts:580-587).
NoFalseResync == SupAt("reseed") => breaches > 0

\* Replay and live tail are one seam: a subscriber is given every line from its
\* cursor on, in order and once (Journal.ts:83-86).
SeamIsExact ==
  \A r \in Readers :
    /\ sub[r].pc \in {"live", "ended"} =>
         \A m, n \in DOMAIN sub[r].got : m < n => sub[r].got[m].end <= sub[r].got[n].start
    /\ sub[r].pc = "live" /\ Quiet /\ closer \notin {"ended", "gave up"} =>
         ConsumedItems(sub[r].from) \subseteq Range(sub[r].got) \cup Range(sub[r].queue) \cup InFlight

\* The end of the streams does not overtake an append that was accepted
\* (Journal.ts:91-94, engine.ts:764-768).
EndAfterAppends ==
  closer = "ended" => \A n \in DOMAIN chain : chain[n].by = Supervisor

\* An append is always answered.
AppendsEnd == \A w \in Writers : ~At(w, "idle") ~> At(w, "idle")

\* Whatever other processes do to the file, the engine ends up consistent with
\* it while it watches (engine.ts:699-714).
CaughtUp ==
  /\ identity = path /\ consumed = EndOf(files[path])
  /\ latest = LastEnvelope(AllItems(path), None)
CatchesUp == <>[](path # 0 => CaughtUp \/ SupAt("gone"))
==============================================================================
