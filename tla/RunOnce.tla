------------------------------ MODULE RunOnce ------------------------------
(***************************************************************************)
(* RunOnce (packages/commands): processes that share only a directory run  *)
(* a piece of work once.  A process takes the work by creating a lock file *)
(* exclusively, writes its nonce to a done marker when the work succeeds,  *)
(* and releases the lock.  The others poll: they trust the marker of an    *)
(* owner they saw holding the lock, and they take over the lock of an      *)
(* owner that is dead.  A file has no compare-and-swap: a lock is removed  *)
(* by renaming it to a private tomb and judging the tomb, and those who    *)
(* would break a lock exclude each other with tickets.                     *)
(*                                                                         *)
(* Every request the protocol yields to its driver is a step of its own,   *)
(* and a create is two of them: the file appears empty, and its text       *)
(* follows the file wherever a rename has taken it meanwhile.  Three       *)
(* requests that no other process can tell apart from their neighbours are *)
(* joined to them: the removal of a private tomb, the sweep of the tombs   *)
(* crashed processes left (no step reads one), and the age of a file read  *)
(* right after its text where only one of the two matters.                 *)
(*                                                                         *)
(* Time is not counted.  An age is one of the three the rules tell apart,  *)
(* a deadline is past or not, and either may change at any moment, within  *)
(* the assumption MayOutlive states.                                       *)
(***************************************************************************)
EXTENDS Naturals, FiniteSets

CONSTANTS
    Procs,       \* the processes that call RunOnce, one call each
    Serialize,   \* those that call it in mode "serialize"
    Recycled,    \* those whose pid is another live process's once they are dead
    Host,        \* the host a process runs on
    MaxCreates,  \* bound: how many locks one call creates
    MaxCrashes,  \* bound: how many processes crash
    MayOutlive,  \* work may outlive the ages that protect a live owner
    Failing,     \* those whose file operations may fail
    Absent, Empty, Nobody

Nonces == Procs \X (1..MaxCreates)

(* A lock file: the process that created it, its record, and its age:      *)
(* 0 up to staleMs, 1 beyond it, 2 beyond staleMs + waitTimeoutMs.         *)
File == [by: Procs, text: Nonces \cup {Empty}, age: 0..2]

ASSUME RunOnceAssumption ==
    /\ Serialize \subseteq Procs /\ Recycled \subseteq Procs
    /\ MaxCreates \in Nat \ {0} /\ MaxCrashes \in Nat
    /\ MayOutlive \in BOOLEAN /\ Failing \subseteq Procs
    /\ Absent \notin Nonces /\ Empty \notin Nonces /\ Nobody \notin Nonces
    /\ Absent # Empty /\ Absent \notin File

VARIABLES
    lock,       \* the file at <key>.lock, or Absent
    tomb,       \* the file each process has renamed out of the way, or Absent
    done,       \* the nonce in <key>.done, Nobody when there is none to read
    tickets,    \* the breaker tickets in the directory
    inked,      \* the processes whose current ticket holds its record
    pc,         \* the request each process is about to make
    late,       \* the processes past their deadline
    owner,      \* what a poll read as the lock's record: a nonce, Empty or Absent
    ripe,       \* whether that poll found the lock breakable
    observed,   \* the trust set: the nonces a process saw in the lock
    todo,       \* the tickets of a listing that are still to be judged
    contended,  \* whether one of them was live
    creates,    \* how many locks a process has created
    trusted,    \* the nonce a call ended by trusting, or Nobody
    finished,   \* history: the nonces whose work succeeded under the lock
    before      \* history: the processes that were over when a call began

files == <<lock, tomb, done>>
breaking == <<tickets, inked, todo, contended>>
memory == <<late, owner, ripe, observed, creates>>
history == <<trusted, finished, before>>
vars == <<lock, tomb, done, tickets, inked, pc, late, owner, ripe, observed, todo,
          contended, creates, trusted, finished, before>>

Ticket == [of: Procs, left: BOOLEAN]

Breaking == {"recheck", "rename", "judge", "restore", "refill", "unticket", "stuck"}
Working == {"late", "run", "truncate", "mark"}
Releasing == {"release", "rejudge", "reset", "rewrite"}

PcValues ==
    {"idle", "look", "gauge", "decide", "pause", "ticket", "ink", "list", "rivals",
     "create", "fill", "verify", "repair", "alone", "ended", "crashed"}
        \cup Breaking \cup Working \cup Releasing

(* One type invariant for the files and for what a process remembers.      *)
TypeOK ==
    /\ lock \in File \cup {Absent}
    /\ tomb \in [Procs -> File \cup {Absent}]
    /\ done \in Nonces \cup {Nobody}
    /\ tickets \subseteq Ticket /\ inked \subseteq Procs
    /\ pc \in [Procs -> PcValues]
    /\ late \subseteq Procs
    /\ owner \in [Procs -> Nonces \cup {Empty, Absent}]
    /\ ripe \in [Procs -> BOOLEAN]
    /\ observed \in [Procs -> SUBSET Nonces]
    /\ todo \in [Procs -> SUBSET Ticket]
    /\ contended \in [Procs -> BOOLEAN]
    /\ creates \in [Procs -> 0..MaxCreates]
    /\ trusted \in [Procs -> Nonces \cup {Nobody}]
    /\ finished \subseteq Nonces
    /\ before \in [Procs -> SUBSET Procs]

-----------------------------------------------------------------------------
Live(p) == pc[p] \notin {"idle", "ended", "crashed"}

Mine(p) == <<p, creates[p]>>

(* What the signal-0 probe of q's pid can answer p.  A process whose call  *)
(* has ended may have exited or not.                                       *)
Probes(p, q) ==
    IF Host[p] # Host[q] THEN {"unknown"}
    ELSE IF Live(q) \/ q \in Recycled THEN {"alive"}
    ELSE IF pc[q] = "crashed" THEN {"dead"}
    ELSE {"alive", "dead"}

Breakable(alive, age) ==
    \/ alive = "dead"
    \/ alive = "unknown" /\ age > 0
    \/ alive = "alive" /\ age > 1

(* Mutated form of StillBreakable: whatever is found there is broken.      *)
StillBreakableAny(expected, file) == TRUE

(* The evidence under the breaker still is what was judged: the same       *)
(* nonce, or still no record and still stale.                              *)
StillBreakable(expected, file) ==
    IF expected = Empty THEN file.text = Empty /\ file.age > 0
    ELSE file.text = expected

Goto(p, there) == pc' = [pc EXCEPT ![p] = there]

(* A write that follows its file: into the lock, or into the tomb it has   *)
(* been renamed to.                                                        *)
Unwritten(f, p) == f # Absent /\ f.by = p /\ f.text = Empty
LandIn(tombs, p, text) ==
    LET Filled(f) == IF Unwritten(f, p) THEN [f EXCEPT !.text = text, !.age = 0] ELSE f
    IN  lock' = Filled(lock) /\ tomb' = [q \in Procs |-> Filled(tombs[q])]

(* A ticket that is gone is skipped by whoever still has it on its list.   *)
TearUp(t) ==
    /\ tickets' = tickets \ {t}
    /\ todo' = [q \in Procs |-> todo[q] \ {t}]

TicketOf(p) == [of |-> p, left |-> FALSE]

Over == {p \in Procs : pc[p] \in {"ended", "crashed"}}

-----------------------------------------------------------------------------
(* protocol: make the directory, sweep old tombs, fix the deadline.        *)
Call(p) ==
    /\ pc[p] = "idle"
    /\ before' = [before EXCEPT ![p] = Over]
    /\ \/ Goto(p, "look")
       \/ p \in Failing /\ Goto(p, "alone")
    /\ UNCHANGED <<files, breaking, memory, trusted, finished>>

(* observeLock: the text, then the age and the probe.                      *)
Look(p) ==
    /\ pc[p] = "look"
    /\ owner' = [owner EXCEPT ![p] = IF lock = Absent THEN Absent ELSE lock.text]
    /\ Goto(p, "gauge")
    /\ UNCHANGED <<files, breaking, late, ripe, observed, creates, history>>

(* Mutated form of Gauge: a lock that holds no record is observed too.     *)
GaugeAnything(p) ==
    /\ pc[p] = "gauge"
    /\ observed' = [observed EXCEPT ![p] = @ \cup {owner[p]}]
    /\ Goto(p, "decide")
    /\ UNCHANGED <<files, breaking, late, owner, ripe, creates, history>>

Gauge(p) ==
    /\ pc[p] = "gauge"
    /\ IF owner[p] = Absent /\ lock = Absent
       THEN UNCHANGED <<owner, ripe, observed>>
       ELSE LET record == IF owner[p] = Absent THEN Empty ELSE owner[p]
                age == IF lock = Absent THEN 0 ELSE lock.age
            IN  \E alive \in IF record = Empty THEN {"unknown"} ELSE Probes(p, record[1]) :
                  /\ owner' = [owner EXCEPT ![p] = record]
                  /\ ripe' = [ripe EXCEPT ![p] = Breakable(alive, age)]
                  /\ observed' = [observed EXCEPT ![p] = @ \cup ({record} \ {Empty})]
    /\ Goto(p, "decide")
    /\ UNCHANGED <<files, breaking, late, creates, history>>

(* Mutated form of Trusts: only the owner of the current poll is trusted.  *)
TrustsCurrent(p) == p \notin Serialize /\ done = owner[p]

Trusts(p) == p \notin Serialize /\ done \in observed[p]

Trust(p) == trusted' = [trusted EXCEPT ![p] = done]

(* Mutated form of Decide: nobody gives up waiting.                        *)
DecidePatiently(p) ==
    /\ pc[p] = "decide"
    /\ \/ Trusts(p) /\ Trust(p) /\ Goto(p, "ended")
       \/ /\ ~Trusts(p)
          /\ UNCHANGED trusted
          /\ Goto(p, IF owner[p] = Absent THEN "create" ELSE IF ripe[p] THEN "ticket" ELSE "pause")
    /\ owner' = [owner EXCEPT ![p] = IF pc'[p] = "ticket" THEN @ ELSE Absent]
    /\ ripe' = [ripe EXCEPT ![p] = FALSE]
    /\ UNCHANGED <<files, breaking, late, observed, creates, finished, before>>

(* The decision once the marker has been read too.                         *)
Decide(p) ==
    /\ pc[p] = "decide"
    /\ \/ Trusts(p) /\ Trust(p) /\ Goto(p, "ended")
       \/ /\ ~Trusts(p)
          /\ UNCHANGED trusted
          /\ Goto(p, CASE owner[p] = Absent -> "create"
                       [] owner[p] # Absent /\ p \in late -> "alone"
                       [] owner[p] # Absent /\ p \notin late /\ ripe[p] -> "ticket"
                       [] OTHER -> "pause")
    /\ owner' = [owner EXCEPT ![p] = IF pc'[p] = "ticket" THEN @ ELSE Absent]
    /\ ripe' = [ripe EXCEPT ![p] = FALSE]
    /\ UNCHANGED <<files, breaking, late, observed, creates, finished, before>>

(* The pause between polls, where a call can be interrupted.               *)
Pause(p) ==
    /\ pc[p] = "pause"
    /\ Goto(p, "look")
    /\ owner' = [owner EXCEPT ![p] = Absent]
    /\ UNCHANGED <<files, breaking, late, ripe, observed, creates, history>>

Interrupt(p) ==
    /\ pc[p] = "pause"
    /\ Goto(p, "ended")
    /\ UNCHANGED <<files, breaking, memory, history>>

-----------------------------------------------------------------------------
(* takeBreaker: create a ticket of one's own, list them all, judge each.   *)
TakeTicket(p) ==
    /\ pc[p] = "ticket"
    /\ \/ /\ tickets' = tickets \cup {TicketOf(p)}
          /\ Goto(p, "ink")
       \/ p \in Failing /\ UNCHANGED tickets /\ Goto(p, "pause")
    /\ UNCHANGED <<files, inked, todo, contended, memory, history>>

InkTicket(p) ==
    /\ pc[p] = "ink"
    /\ \/ /\ inked' = inked \cup {p}
          /\ Goto(p, "list")
          /\ UNCHANGED <<tickets, todo>>
       \/ /\ p \in Failing                   \* the write fails: the ticket stays behind
          /\ LET Leave(S) == IF TicketOf(p) \in S
                             THEN (S \ {TicketOf(p)}) \cup {[of |-> p, left |-> TRUE]} ELSE S
             IN  tickets' = Leave(tickets) /\ todo' = [q \in Procs |-> Leave(todo[q])]
          /\ Goto(p, "pause")
          /\ UNCHANGED inked
    /\ UNCHANGED <<files, contended, memory, history>>

(* Mutated form of List: a listing that fails shows no rivals.             *)
ListOrNothing(p) ==
    /\ pc[p] = "list"
    /\ \/ todo' = [todo EXCEPT ![p] = tickets \ {TicketOf(p)}]
       \/ p \in Failing /\ UNCHANGED todo
    /\ Goto(p, "rivals")
    /\ UNCHANGED <<files, tickets, inked, contended, memory, history>>

List(p) ==
    /\ pc[p] = "list"
    /\ \/ todo' = [todo EXCEPT ![p] = tickets \ {TicketOf(p)}] /\ UNCHANGED contended
       \/ p \in Failing /\ contended' = [contended EXCEPT ![p] = TRUE] /\ UNCHANGED todo
    /\ Goto(p, "rivals")
    /\ UNCHANGED <<files, tickets, inked, memory, history>>

(* ticketAbandoned: older than staleMs, or its holder is known to be dead. *)
(* A live process does not stall in these few calls for staleMs, so only a *)
(* ticket nobody is behind can have aged.                                  *)
Deserted(t) == t.left \/ ~Live(t.of)
KnownDead(p, t) == ~t.left /\ t.of \in inked /\ Probes(p, t.of) = {"dead"}

JudgeRival(p) ==
    /\ pc[p] = "rivals"
    /\ \E t \in todo[p] :
         \/ /\ Deserted(t)
            /\ TearUp(t)
            /\ UNCHANGED contended
         \/ /\ ~KnownDead(p, t)
            /\ todo' = [todo EXCEPT ![p] = @ \ {t}]
            /\ contended' = [contended EXCEPT ![p] = TRUE]
            /\ UNCHANGED tickets
    /\ UNCHANGED <<files, inked, pc, memory, history>>

(* Mutated form of Withdraw: the ticket stays.                             *)
WithdrawLeaving(p) ==
    /\ pc[p] = "rivals" /\ todo[p] = {} /\ contended[p]
    /\ contended' = [contended EXCEPT ![p] = FALSE]
    /\ Goto(p, "pause")
    /\ UNCHANGED <<files, tickets, inked, todo, memory, history>>

Withdraw(p) ==
    /\ pc[p] = "rivals" /\ todo[p] = {} /\ contended[p]
    /\ TearUp(TicketOf(p))
    /\ inked' = inked \ {p}
    /\ contended' = [contended EXCEPT ![p] = FALSE]
    /\ Goto(p, "pause")
    /\ UNCHANGED <<files, memory, history>>

Proceed(p) ==
    /\ pc[p] = "rivals" /\ todo[p] = {} /\ ~contended[p]
    /\ Goto(p, "recheck")
    /\ UNCHANGED <<files, breaking, memory, history>>

(* Mutated form of Recheck: the lock is not looked at again.               *)
RecheckNothing(p) ==
    /\ pc[p] = "recheck"
    /\ Goto(p, "rename")
    /\ UNCHANGED <<files, breaking, memory, history>>

(* breakLock, holding the breaker: is it still the lock that was judged?   *)
Recheck(p) ==
    /\ pc[p] = "recheck"
    /\ observed' = [observed EXCEPT ![p] =
         IF lock = Absent \/ lock.text = Empty THEN @ ELSE @ \cup {lock.text}]
    /\ Goto(p, IF lock # Absent /\ StillBreakable(owner[p], lock) THEN "rename" ELSE "unticket")
    /\ UNCHANGED <<files, breaking, late, owner, ripe, creates, history>>

(* compareAndDelete: rename the lock to a tomb, then judge the tomb.       *)
Entomb(p, then, missing) ==
    /\ IF lock = Absent
       THEN Goto(p, missing) /\ UNCHANGED <<lock, tomb>>
       ELSE Goto(p, then) /\ tomb' = [tomb EXCEPT ![p] = lock] /\ lock' = Absent

Rename(p) ==
    /\ pc[p] = "rename"
    /\ \/ Entomb(p, "judge", "unticket")
       \/ p \in Failing /\ UNCHANGED <<lock, tomb>> /\ Goto(p, "stuck")
    /\ UNCHANGED <<done, breaking, memory, history>>

(* Accepted, or no record: the tomb is removed.  Rejected: its record goes *)
(* back with an exclusive create, unless another lock stands there by now. *)
Judge(p) ==
    /\ pc[p] = "judge"
    /\ observed' = [observed EXCEPT ![p] = @ \cup ({tomb[p].text} \ {Empty})]
    /\ IF StillBreakable(owner[p], tomb[p]) \/ tomb[p].text = Empty
       THEN tomb' = [tomb EXCEPT ![p] = Absent] /\ Goto(p, "unticket")
       ELSE UNCHANGED tomb /\ Goto(p, "restore")
    /\ UNCHANGED <<lock, done, breaking, late, owner, ripe, creates, history>>

PutBack(p, then, over) ==
    \/ /\ lock = Absent
       /\ lock' = [by |-> p, text |-> Empty, age |-> 0]
       /\ Goto(p, then)
       /\ UNCHANGED tomb
    \/ /\ lock # Absent \/ p \in Failing
       /\ tomb' = [tomb EXCEPT ![p] = Absent]
       /\ Goto(p, over)
       /\ UNCHANGED lock

Refilled(p) ==
    \/ LandIn([tomb EXCEPT ![p] = Absent], p, tomb[p].text)
    \/ p \in Failing /\ tomb' = [tomb EXCEPT ![p] = Absent] /\ UNCHANGED lock

Restore(p) ==
    /\ pc[p] = "restore"
    /\ PutBack(p, "refill", "unticket")
    /\ UNCHANGED <<done, breaking, memory, history>>

Refill(p) ==
    /\ pc[p] = "refill"
    /\ Refilled(p)
    /\ Goto(p, "unticket")
    /\ UNCHANGED <<done, breaking, memory, history>>

(* The ticket goes.  The next poll follows at once, unless the rename      *)
(* failed and nothing has moved.                                           *)
Unticket(p) ==
    /\ pc[p] \in {"unticket", "stuck"}
    /\ TearUp(TicketOf(p))
    /\ inked' = inked \ {p}
    /\ owner' = [owner EXCEPT ![p] = Absent]
    /\ Goto(p, IF pc[p] = "stuck" THEN "pause" ELSE "look")
    /\ UNCHANGED <<files, contended, late, ripe, observed, creates, history>>

-----------------------------------------------------------------------------
(* The exclusive create: the file appears empty, then its record lands.    *)
Create(p) ==
    /\ pc[p] = "create"
    /\ \/ /\ lock = Absent /\ creates[p] < MaxCreates
          /\ lock' = [by |-> p, text |-> Empty, age |-> 0]
          /\ creates' = [creates EXCEPT ![p] = @ + 1]
          /\ Goto(p, "fill")
       \/ /\ lock # Absent
          /\ Goto(p, "look")
          /\ UNCHANGED <<lock, creates>>
       \/ /\ p \in Failing
          /\ Goto(p, "alone")
          /\ UNCHANGED <<lock, creates>>
    /\ UNCHANGED <<tomb, done, breaking, late, owner, ripe, observed, history>>

Fill(p) ==
    /\ pc[p] = "fill"
    /\ \/ LandIn(tomb, p, Mine(p)) /\ Goto(p, "verify")
       \/ p \in Failing /\ UNCHANGED <<lock, tomb>> /\ Goto(p, "alone")
    /\ UNCHANGED <<done, breaking, memory, history>>

(* What does the lock hold now?  Another's record, or nothing: not ours.   *)
Verify(p) ==
    /\ pc[p] = "verify"
    /\ Goto(p, IF lock = Absent THEN "look"
               ELSE IF lock.text = Mine(p) THEN "late"
               ELSE IF lock.text = Empty THEN "repair" ELSE "look")
    /\ UNCHANGED <<files, breaking, memory, history>>

Repair(p) ==
    /\ pc[p] = "repair"
    /\ \/ lock' = [by |-> IF lock = Absent THEN p ELSE lock.by, text |-> Mine(p), age |-> 0]
       \/ p \in Failing /\ UNCHANGED lock
    /\ Goto(p, "late")
    /\ UNCHANGED <<tomb, done, breaking, memory, history>>

(* An owner observed earlier may have finished before the create.          *)
Late(p) ==
    /\ pc[p] = "late"
    /\ IF Trusts(p) THEN Trust(p) /\ Goto(p, "release")
                    ELSE UNCHANGED trusted /\ Goto(p, "run")
    /\ UNCHANGED <<files, breaking, memory, finished, before>>

(* The work ends: success, or a failure or an interruption.  Success is    *)
(* recorded in the marker, which is unreadable while it is being written.  *)
Succeed(p) ==
    /\ pc[p] = "run"
    /\ finished' = finished \cup {Mine(p)}
    /\ Goto(p, IF p \in Serialize THEN "release" ELSE "truncate")
    /\ UNCHANGED <<files, breaking, memory, trusted, before>>

(* Mutated form of FailWork: the marker is written all the same.           *)
FailWorkMarked(p) ==
    /\ pc[p] = "run"
    /\ Goto(p, IF p \in Serialize THEN "release" ELSE "truncate")
    /\ UNCHANGED <<files, breaking, memory, history>>

FailWork(p) ==
    /\ pc[p] = "run"
    /\ Goto(p, "release")
    /\ UNCHANGED <<files, breaking, memory, history>>

Truncate(p) ==
    /\ pc[p] = "truncate"
    /\ \/ done' = Nobody /\ Goto(p, "mark")
       \/ p \in Failing /\ UNCHANGED done /\ Goto(p, "release")
    /\ UNCHANGED <<lock, tomb, breaking, memory, history>>

Mark(p) ==
    /\ pc[p] = "mark"
    /\ done' = Mine(p) \/ (p \in Failing /\ UNCHANGED done)
    /\ Goto(p, "release")
    /\ UNCHANGED <<lock, tomb, breaking, memory, history>>

(* release: the same compare-and-delete, accepting one's own nonce.  When  *)
(* the rename fails six times over, the lock is left to the stale rule.    *)
Release(p) ==
    /\ pc[p] = "release"
    /\ \/ Entomb(p, "rejudge", "ended")
       \/ p \in Failing /\ UNCHANGED <<lock, tomb>> /\ Goto(p, "ended")
    /\ UNCHANGED <<done, breaking, memory, history>>

Rejudge(p) ==
    /\ pc[p] = "rejudge"
    /\ IF tomb[p].text \in {Mine(p), Empty}
       THEN tomb' = [tomb EXCEPT ![p] = Absent] /\ Goto(p, "ended")
       ELSE UNCHANGED tomb /\ Goto(p, "reset")
    /\ UNCHANGED <<lock, done, breaking, memory, history>>

Reset(p) ==
    /\ pc[p] = "reset"
    /\ PutBack(p, "rewrite", "ended")
    /\ UNCHANGED <<done, breaking, memory, history>>

Rewrite(p) ==
    /\ pc[p] = "rewrite"
    /\ Refilled(p)
    /\ Goto(p, "ended")
    /\ UNCHANGED <<done, breaking, memory, history>>

(* The work, run without the lock: no marker, nothing to release.          *)
Alone(p) ==
    /\ pc[p] = "alone"
    /\ Goto(p, "ended")
    /\ UNCHANGED <<files, breaking, memory, history>>

-----------------------------------------------------------------------------
(* Time: a deadline passes; a lock grows old.  A live owner's lock stays   *)
(* younger than the age that would expose it, unless MayOutlive.           *)
Deadline(p) ==
    /\ Live(p) /\ p \notin late
    /\ late' = late \cup {p}
    /\ UNCHANGED <<files, breaking, pc, owner, ripe, observed, creates, history>>

Holder == IF lock.text = Empty THEN lock.by ELSE lock.text[1]

Sheltered ==
    /\ Live(Holder)
    /\ \/ lock.age = 1
       \/ lock.text = Empty
       \/ \E p \in Procs : Host[p] # Host[Holder]

Age ==
    /\ lock # Absent
    /\ lock.age < 2
    /\ MayOutlive \/ ~Sheltered
    /\ lock' = [lock EXCEPT !.age = @ + 1]
    /\ UNCHANGED <<tomb, done, breaking, pc, memory, history>>

(* A process dies between any two requests: its files stay.                *)
Crash(p) ==
    /\ Live(p)
    /\ Cardinality({q \in Procs : pc[q] = "crashed"}) < MaxCrashes
    /\ Goto(p, "crashed")
    /\ tomb' = [tomb EXCEPT ![p] = Absent]
    /\ owner' = [owner EXCEPT ![p] = Absent]
    /\ ripe' = [ripe EXCEPT ![p] = FALSE]
    /\ observed' = [observed EXCEPT ![p] = {}]
    /\ todo' = [todo EXCEPT ![p] = {}]
    /\ contended' = [contended EXCEPT ![p] = FALSE]
    /\ late' = late \ {p}
    /\ UNCHANGED <<lock, done, tickets, inked, creates, history>>

-----------------------------------------------------------------------------
Init ==
    /\ lock = Absent
    /\ tomb = [p \in Procs |-> Absent]
    /\ done = Nobody
    /\ tickets = {} /\ inked = {}
    /\ pc = [p \in Procs |-> "idle"]
    /\ late = {}
    /\ owner = [p \in Procs |-> Absent]
    /\ ripe = [p \in Procs |-> FALSE]
    /\ observed = [p \in Procs |-> {}]
    /\ todo = [p \in Procs |-> {}]
    /\ contended = [p \in Procs |-> FALSE]
    /\ creates = [p \in Procs |-> 0]
    /\ trusted = [p \in Procs |-> Nobody]
    /\ finished = {}
    /\ before = [p \in Procs |-> {}]

Poll(p) == Look(p) \/ Gauge(p) \/ Decide(p) \/ Pause(p)
Break(p) ==
    \/ TakeTicket(p) \/ InkTicket(p) \/ List(p) \/ JudgeRival(p) \/ Withdraw(p) \/ Proceed(p)
    \/ Recheck(p) \/ Rename(p) \/ Judge(p) \/ Restore(p) \/ Refill(p) \/ Unticket(p)
Own(p) ==
    \/ Create(p) \/ Fill(p) \/ Verify(p) \/ Repair(p) \/ Late(p)
    \/ Succeed(p) \/ FailWork(p) \/ Truncate(p) \/ Mark(p)
    \/ Release(p) \/ Rejudge(p) \/ Reset(p) \/ Rewrite(p) \/ Alone(p)

Step(p) == Poll(p) \/ Break(p) \/ Own(p)

Next ==
    \/ \E p \in Procs : Call(p) \/ Step(p) \/ Interrupt(p) \/ Deadline(p) \/ Crash(p)
    \/ Age

Spec == Init /\ [][Next]_vars

(* A process that is called runs until its call ends or it crashes, its    *)
(* work ends, and its clock reaches the deadline.                          *)
FairSpec == Spec /\ \A p \in Procs : WF_vars(Step(p)) /\ WF_vars(Deadline(p))

-----------------------------------------------------------------------------
(* Two processes never do the work under the lock at the same time, and    *)
(* the lock of a working owner stays where it is, with its record, through *)
(* every poll that judges it and every takeover of another's lock.         *)
WorkIsExclusive ==
    /\ TypeOK
    /\ \A p, q \in Procs : pc[p] = "run" /\ pc[q] = "run" => p = q
    /\ \A p \in Procs : pc[p] \in Working => lock # Absent /\ lock.text = Mine(p)

(* Of those who would break a lock, one at a time acts.                    *)
BreakersExclude ==
    \A p, q \in Procs : pc[p] \in Breaking /\ pc[q] \in Breaking => p = q

(* Nobody does the work while the marker of an owner it saw is on disk.    *)
NoNeedlessRun ==
    \A p \in Procs \ Serialize : pc[p] = "run" => done \notin observed[p]

(* A process that died or whose file operations fail may leave its lock or *)
(* its ticket behind.                                                      *)
MayLeave(q) == pc[q] = "crashed" \/ q \in Failing

(* Only work that succeeded is trusted, and that of a call which was over  *)
(* before this one began only if it left its lock behind.                  *)
TrustEarned ==
    \A p \in Procs : trusted[p] # Nobody =>
        /\ trusted[p] \in finished
        /\ trusted[p][1] \in before[p] => MayLeave(trusted[p][1])

(* Both: the marker is trusted when it should be and only then.            *)
TrustIsSound == NoNeedlessRun /\ TrustEarned

(* "A previous sequential run is never trusted."                           *)
TrustIsConcurrent ==
    \A p \in Procs : trusted[p] # Nobody => trusted[p][1] \notin before[p]

(* When every call is over, what is left in the directory is what crashed  *)
(* processes left there, or processes whose file operations fail.          *)
NothingLeft ==
    (\A p \in Procs : ~Live(p)) =>
        /\ lock # Absent => MayLeave(Holder)
        /\ \A t \in tickets : MayLeave(t.of)

(* Every call ends.                                                        *)
EveryCallEnds ==
    \A p \in Procs : pc[p] = "look" ~>
        pc[p] \in {"ended", "crashed"} \/ (pc[p] = "create" /\ creates[p] = MaxCreates)
=============================================================================
