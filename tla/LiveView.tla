------------------------------- MODULE LiveView -------------------------------
(***************************************************************************)
(* cli-kit/src/ui/CliUiLive.ts: a pump takes events from a subscription    *)
(* into an inbox, a controller folds them and mounts, draws and ends the   *)
(* runs they make up.  The publisher may end or shut down its PubSub, the  *)
(* holder of the view closes it or the scope it lives in, a frame throws   *)
(* whenever it is drawn.                                                   *)
(*                                                                         *)
(* An event is its place in what was published.  Of effect's PubSub: what  *)
(* is taken is taken in order, its final message comes after the buffered  *)
(* ones and again with every later take, a shut-down one holds nothing.    *)
(***************************************************************************)
EXTENDS Naturals, Sequences, SequencesExt

CONSTANTS Scripts,     \* bound: what may be published, sequences of kinds
          MaxThrows,   \* bound: frames that throw
          Interactive, \* whether the terminal is drawn on
          Hosted       \* whether the host prints, and the view does not

Kinds == {"start", "step", "terminal", "bad"}

VARIABLES kinds,      \* what was published: a sequence of kinds
          hub,        \* the subscription: how many it gave out, ended, shut down
          finalTaken, \* whether its final message was taken
          inbox,      \* messages from pump, ticks and the error boundary
          pump,       \* the pump's fiber
          control,    \* the controller's fiber
          work,       \* what it has to do before it takes from the inbox again
          dirty,      \* whether folded events are still to be drawn
          folded,     \* the events it folded
          runs,       \* every run there was, the last may be going on
          going,      \* whether the last run is
          permit,     \* process-wide: one Ink mount at a time
          throws,     \* frames that threw
          closing,    \* the view's close, and its caller's scope
          owed        \* events published before the view was asked to end

vars == <<kinds, hub, finalTaken, inbox, pump, control, work, dirty, folded, runs, going,
          permit, throws, closing, owed>>
source == <<kinds, hub, finalTaken>>
fold == <<dirty, folded>>
screen == <<runs, going, permit, throws>>

Init ==
  /\ kinds = <<>>
  /\ hub = [given |-> 0, ended |-> FALSE, down |-> FALSE]
  /\ finalTaken = FALSE
  /\ inbox = <<>>
  /\ pump = "taking"
  /\ control = "running"
  /\ work = <<>>
  /\ dirty = FALSE
  /\ folded = <<>>
  /\ runs = <<>>
  /\ going = FALSE
  /\ permit = "free"
  /\ throws = 0
  /\ closing = [asked |-> FALSE, scope |-> "open"]
  /\ owed = 0

Span(first, last) == [i \in 1 .. (IF last < first THEN 0 ELSE last - first + 1) |-> first + i - 1]

------------------------------------------------------------------------------
\* The publisher and the subscription.

\* What is published to a view that has stopped is not followed: nobody
\* takes it.
Publish(kind) ==
  /\ control = "running"
  /\ \E script \in Scripts : IsPrefix(Append(kinds, kind), script)
  /\ ~hub.ended /\ ~hub.down
  /\ kinds' = Append(kinds, kind)
  /\ UNCHANGED <<hub, finalTaken, inbox, pump, control, work, fold, screen, closing, owed>>

\* PubSub.end: one last message.
End(kind) ==
  /\ control = "running"
  /\ \E script \in Scripts : IsPrefix(Append(kinds, kind), script)
  /\ ~hub.ended /\ ~hub.down
  /\ kinds' = Append(kinds, kind)
  /\ hub' = [hub EXCEPT !.ended = TRUE]
  /\ owed' = IF closing.asked THEN owed ELSE Len(kinds')
  /\ UNCHANGED <<finalTaken, inbox, pump, control, work, fold, screen, closing>>

\* PubSub.shutdown: what the view has not taken is dropped.
TakenUpTo == IF finalTaken THEN Len(kinds) ELSE hub.given
Shutdown ==
  /\ control = "running"
  /\ ~hub.down
  /\ hub' = [hub EXCEPT !.down = TRUE]
  /\ owed' = TakenUpTo
  /\ UNCHANGED <<kinds, finalTaken, inbox, pump, control, work, fold, screen, closing>>

\* The buffered messages, the final one not among them.
Buffered == Span(hub.given + 1, IF hub.ended THEN Len(kinds) - 1 ELSE Len(kinds))

\* Mutated form of Final: taken with every take, as effect hands it out.
FinalEachTime == IF hub.ended THEN <<Len(kinds)>> ELSE <<>>

\* takeQueued: what is buffered and, the first time, the final message.
Final == IF hub.ended /\ ~finalTaken THEN <<Len(kinds)>> ELSE <<>>
Queued == IF hub.down THEN <<>> ELSE Buffered \o Final
TakeQueued ==
  /\ hub' = IF hub.down THEN hub ELSE [hub EXCEPT !.given = @ + Len(Buffered)]
  /\ finalTaken' = (finalTaken \/ (~hub.down /\ hub.ended))

Events(chunk) == [tag |-> "Events", chunk |-> chunk]
Message(t) == [tag |-> t, chunk |-> <<>>]
Offered(chunk) == IF chunk = <<>> THEN inbox ELSE Append(inbox, Events(chunk))

------------------------------------------------------------------------------
\* The pump.  A take and the hand-off to the inbox are one step: nothing
\* yields between them, and only the wait before can be interrupted.

\* What a step takes: the buffered messages, and the final one with them when
\* the PubSub has ended, or alone when the step waited through the end.  The
\* code knows the final message by its value, the model by its place: the same,
\* since a take that waits is resumed by the publication it waited for.
Taken == Queued
PumpTakes ==
  /\ pump = "taking"
  /\ Taken # <<>>
  /\ inbox' = Offered(Taken)
  /\ TakeQueued
  /\ pump' = IF hub.ended THEN "ending" ELSE "taking"
  /\ UNCHANGED <<kinds, control, work, fold, screen, closing, owed>>

\* Shut down, or ended with everything taken.
PumpSeesEnd ==
  /\ pump = "taking"
  /\ hub.down \/ (hub.ended /\ Taken = <<>>)
  /\ pump' = "ending"
  /\ UNCHANGED <<source, inbox, control, work, fold, screen, closing, owed>>

PumpEnds ==
  /\ pump = "ending"
  /\ pump' = "stopped"
  /\ inbox' = Append(inbox, Message("Ended"))
  /\ UNCHANGED <<source, control, work, fold, screen, closing, owed>>

------------------------------------------------------------------------------
\* Runs: mounting, drawing, degrading, ending.

run == runs[Len(runs)]
Current(r) == runs' = [runs EXCEPT ![Len(runs)] = r]
NewRun == [mounted |-> FALSE, degraded |-> FALSE, painted |-> FALSE, failed |-> FALSE,
           shown |-> 0, printed |-> 0, upTo |-> 0, over |-> FALSE]

\* unmount: the scope closes, Ink commits its last frame, the permit is free.
Unmounted(r) == [r EXCEPT !.mounted = FALSE]

\* Mutated form of FreedBy: the scope of a run is forgotten, not closed.
FreedByNone(r) == permit
FreedBy(r) == IF r.mounted THEN "free" ELSE permit

\* degrade: unmount, then one warning.
Degraded(r) == [Unmounted(r) EXCEPT !.degraded = TRUE]

\* What the controller does next: an item of work, about an event or a run.
Do(what) == [do |-> what, on |-> 0]
FoldIt(p) == [do |-> "fold", on |-> p]
Does(what) == control = "running" /\ work # <<>> /\ Head(work).do = what
Then(items) == work' = items \o Tail(work)

\* takeAll: everything in the inbox at once.  Chunks that arrived together
\* are one chunk; a chunk ends with a flush, which draws what is left of it.
Items(m) ==
  CASE m.tag = "Events" -> [i \in 1 .. Len(m.chunk) |-> FoldIt(m.chunk[i])]
    [] m.tag = "Tick" -> <<Do("flush"), Do("tick")>>
    [] m.tag = "Failed" -> <<Do("flush"), [do |-> "check", on |-> m.chunk[1]]>>
    [] m.tag = "Ended" -> <<Do("flush"), Do("ended")>>
Receive ==
  /\ control = "running"
  /\ work = <<>>
  /\ inbox # <<>>
  /\ work' = FlattenSeq([i \in 1 .. Len(inbox) |-> Items(inbox[i])]) \o <<Do("flush")>>
  /\ inbox' = <<>>
  /\ UNCHANGED <<source, pump, control, fold, screen, closing, owed>>

\* onChunk, one event: folded, and what that does to the runs.
StartsOver(kind) == going /\ run.degraded /\ kind = "start"

\* Mutated form of AfterFold: a run ends on the frame before its last event.
AfterFoldUndrawn(kind) ==
  CASE kind = "terminal" -> <<Do("end")>>
    [] kind = "start" /\ ~going -> <<Do("begin")>>
    [] OTHER -> <<>>
AfterFold(kind) ==
  CASE kind = "terminal" -> (IF dirty \/ going THEN <<Do("draw")>> ELSE <<>>) \o <<Do("end")>>
    [] kind = "start" /\ ~going -> <<Do("begin")>>
    [] OTHER -> <<>>
Fold ==
  /\ Does("fold")
  /\ LET p == Head(work).on IN
       /\ kinds[p] # "bad"
       /\ ~StartsOver(kinds[p])
       /\ folded' = Append(folded, p)
       /\ Then(AfterFold(kinds[p]))
       /\ dirty' = (going /\ AfterFold(kinds[p]) = <<>>)
  /\ UNCHANGED <<source, inbox, pump, control, screen, closing, owed>>

\* A start on a degraded run ends that run, as it was before the start.
FoldStartOver ==
  /\ Does("fold")
  /\ StartsOver(kinds[Head(work).on])
  /\ work' = <<Do("end")>> \o work
  /\ UNCHANGED <<source, inbox, pump, control, fold, screen, closing, owed>>

\* A reducer that throws: unmount, then the controller dies, and stops the
\* pump as it goes.
FoldDies ==
  /\ Does("fold")
  /\ kinds[Head(work).on] = "bad"
  /\ IF going
     THEN Current(Unmounted(run)) /\ permit' = FreedBy(run)
     ELSE UNCHANGED <<runs, permit>>
  /\ control' = "died"
  /\ work' = <<>>
  /\ pump' = "stopped"
  /\ UNCHANGED <<source, inbox, fold, going, throws, closing, owed>>

Flush ==
  /\ Does("flush")
  /\ Then(IF dirty THEN <<Do("draw")>> ELSE <<>>)
  /\ dirty' = FALSE
  /\ UNCHANGED <<source, inbox, pump, control, folded, screen, closing, owed>>

\* beginRun: a run that is not interactive mounts nothing.
Begin ==
  /\ Does("begin")
  /\ runs' = Append(runs, NewRun)
  /\ going' = TRUE
  /\ Then(IF Interactive THEN <<Do("mount")>> ELSE <<>>)
  /\ UNCHANGED <<source, inbox, pump, control, fold, permit, throws, closing, owed>>

\* mount: the permit, then Ink.  The first frame may throw: the boundary
\* says so, and what was not painted is not on the terminal.
Mount ==
  /\ Does("mount")
  /\ permit = "free"
  /\ permit' = "view"
  /\ \/ /\ Current([run EXCEPT !.mounted = TRUE, !.painted = TRUE, !.shown = Len(folded)])
        /\ UNCHANGED <<inbox, throws>>
     \/ /\ throws < MaxThrows
        /\ throws' = throws + 1
        /\ Current([run EXCEPT !.mounted = TRUE, !.failed = TRUE])
        /\ inbox' = Append(inbox, [tag |-> "Failed", chunk |-> <<Len(runs)>>])
  /\ Then(<<Do("check")>>)
  /\ UNCHANGED <<source, pump, control, fold, going, closing, owed>>

\* Ink or the view's module does not load: what was taken is given back, and
\* the run degrades.
MountFails ==
  /\ Does("mount")
  /\ throws < MaxThrows
  /\ throws' = throws + 1
  /\ Current(Degraded(run))
  /\ Then(<<>>)
  /\ UNCHANGED <<source, inbox, pump, control, fold, going, permit, closing, owed>>

\* checkFailure: a failure of the run that is going degrades it.
Check ==
  /\ Does("check")
  /\ IF going /\ run.failed /\ Head(work).on \in {0, Len(runs)}
     THEN Current(Degraded(run)) /\ permit' = FreedBy(run)
     ELSE UNCHANGED <<runs, permit>>
  /\ Then(<<>>)
  /\ UNCHANGED <<source, inbox, pump, control, fold, going, throws, closing, owed>>

\* drawAt: the frame is swapped and committed.  It may throw: the boundary
\* falls back to the last good frame, which may throw as well, and then
\* nothing of the run is left on the terminal.
Throw(good) ==
  /\ throws < MaxThrows
  /\ throws' = throws + 1
  /\ Current([run EXCEPT !.failed = TRUE, !.painted = @ /\ good])
  /\ inbox' = Append(inbox, [tag |-> "Failed", chunk |-> <<Len(runs)>>])
Draw(item) ==
  /\ Does(item)
  /\ IF going /\ run.mounted
     THEN /\ \/ /\ Current(IF run.failed THEN run ELSE [run EXCEPT !.painted = TRUE, !.shown = Len(folded)])
                /\ UNCHANGED <<inbox, throws>>
             \/ \E good \in BOOLEAN : Throw(good)
          /\ Then(<<Do("check")>>)
     ELSE UNCHANGED <<runs, inbox, throws>> /\ Then(<<>>)
  /\ UNCHANGED <<source, pump, control, fold, going, permit, closing, owed>>

\* The frame is drawn again by React itself, on a resize say, and throws.
ThrowUnasked ==
  /\ going /\ run.mounted /\ run.painted /\ ~run.failed
  /\ \E good \in BOOLEAN : Throw(good)
  /\ UNCHANGED <<source, pump, control, work, fold, going, permit, closing, owed>>

\* endRun: the run is taken off and unmounted in one step; what is not on the
\* terminal is then printed.
Prints(r) == IF Interactive THEN ~r.painted ELSE ~Hosted
Finish ==
  /\ Does("end")
  /\ Then(IF going THEN <<Do("print")>> ELSE <<>>)
  /\ IF going
     THEN Current([Unmounted(run) EXCEPT !.over = TRUE, !.upTo = Len(folded)])
          /\ permit' = FreedBy(run)
     ELSE UNCHANGED <<runs, permit>>
  /\ going' = FALSE
  /\ UNCHANGED <<source, inbox, pump, control, fold, throws, closing, owed>>

WriteFrame ==
  /\ Does("print")
  /\ Current(IF Prints(run) THEN [run EXCEPT !.printed = Len(folded)] ELSE run)
  /\ Then(<<>>)
  /\ UNCHANGED <<source, inbox, pump, control, fold, going, permit, throws, closing, owed>>

\* Mutated form of QueuedTail: the final message is left where it is.
QueuedWithoutFinal == IF hub.down THEN <<>> ELSE Buffered
QueuedTail == Queued

\* Ended: what the subscription still queues is folded, then the run ends and
\* the controller with it.  What it had not come to is not looked at.
Ended ==
  /\ Does("ended")
  /\ TakeQueued
  /\ work' = [i \in 1 .. Len(QueuedTail) |-> FoldIt(QueuedTail[i])] \o <<Do("flush"), Do("end"), Do("stop")>>
  /\ UNCHANGED <<kinds, inbox, pump, control, fold, screen, closing, owed>>

Stop ==
  /\ Does("stop")
  /\ control' = "done"
  /\ work' = <<>>
  /\ pump' = "stopped"
  /\ UNCHANGED <<source, inbox, fold, screen, closing, owed>>

------------------------------------------------------------------------------
\* Everybody else.

\* The run's ticks.
Tick ==
  /\ going /\ run.mounted /\ control = "running"
  /\ \A i \in 1 .. Len(inbox) : inbox[i].tag # "Tick"
  /\ inbox' = Append(inbox, Message("Tick"))
  /\ UNCHANGED <<source, pump, control, work, fold, screen, closing, owed>>

\* Another mount of the process takes the permit, which matters to a mount of
\* the view only, and gives it back.
OtherMounts ==
  /\ Does("mount")
  /\ permit = "free"
  /\ permit' = "other"
  /\ UNCHANGED <<source, inbox, pump, control, work, fold, runs, going, throws, closing, owed>>

OtherUnmounts ==
  /\ permit = "other"
  /\ permit' = "free"
  /\ UNCHANGED <<source, inbox, pump, control, work, fold, runs, going, throws, closing, owed>>

\* close: the pump is stopped first, then the events are ended, once.
Close ==
  /\ ~closing.asked
  /\ closing.scope = "open"
  /\ closing' = [closing EXCEPT !.asked = TRUE]
  /\ pump' = "stopped"
  /\ inbox' = Append(inbox, Message("Ended"))
  /\ owed' = IF control = "running" /\ ~hub.ended /\ ~hub.down THEN Len(kinds) ELSE owed
  /\ UNCHANGED <<source, control, work, fold, screen>>

\* The caller's scope closes: the fold stops where it is, then what is drawn
\* is unmounted.
CloseScope ==
  /\ closing.scope = "open"
  /\ closing' = [closing EXCEPT !.scope = "closed"]
  /\ control' = IF control = "running" THEN "interrupted" ELSE control
  /\ pump' = "stopped"
  /\ work' = <<>>
  /\ IF going
     THEN Current(Unmounted(run)) /\ permit' = FreedBy(run)
     ELSE UNCHANGED <<runs, permit>>
  /\ going' = FALSE
  /\ UNCHANGED <<source, inbox, fold, throws, owed>>

ControlStep ==
  \/ Receive \/ Fold \/ FoldStartOver \/ FoldDies \/ Flush \/ Begin \/ Mount \/ MountFails \/ Check
  \/ Draw("draw") \/ Draw("tick") \/ Finish \/ WriteFrame \/ Ended \/ Stop
PumpStep == PumpTakes \/ PumpSeesEnd \/ PumpEnds

Next ==
  \/ ControlStep \/ PumpStep
  \/ \E kind \in Kinds : Publish(kind) \/ End(kind)
  \/ Shutdown \/ ThrowUnasked \/ Tick \/ OtherMounts \/ OtherUnmounts \/ Close \/ CloseScope

Spec == Init /\ [][Next]_vars

\* The two fibers run, and the permit goes round: another mount gives it back
\* and the view's turn comes.
Fairness ==
  /\ WF_vars(ControlStep) /\ WF_vars(PumpStep)
  /\ WF_vars(OtherUnmounts) /\ SF_vars(Mount)

TypeOK ==
  /\ \E script \in Scripts : IsPrefix(kinds, script)
  /\ hub \in [given : 0 .. Len(kinds), ended : BOOLEAN, down : BOOLEAN]
  /\ finalTaken \in BOOLEAN
  /\ pump \in {"taking", "ending", "stopped"}
  /\ control \in {"running", "done", "died", "interrupted"}
  /\ permit \in {"free", "view", "other"}
  /\ closing \in [asked : BOOLEAN, scope : {"open", "closed"}]
  /\ throws \in 0 .. MaxThrows /\ owed \in 0 .. Len(kinds)

------------------------------------------------------------------------------

\* Where an event waits: <<an item of the work, 0>>, and after these
\* <<a message of the inbox, a place in its chunk>>.
Places ==
  {<<k, 0>> : k \in {k \in DOMAIN work : work[k].do = "fold"}}
  \cup UNION {{<<Len(work) + k, j>> : j \in DOMAIN inbox[k].chunk} :
                k \in {k \in DOMAIN inbox : inbox[k].tag = "Events"}}
EventAt(place) ==
  IF place[2] = 0 THEN work[place[1]].on ELSE inbox[place[1] - Len(work)].chunk[place[2]]
Before(place, other) ==
  place[1] < other[1] \/ (place[1] = other[1] /\ place[2] < other[2])

\* Every event the view took is folded, about to be folded or in the inbox,
\* once and in the order of publishing: through the end of the PubSub, whose
\* final message comes with every take, and a close that interrupts the pump.
EveryEventOnce ==
  /\ folded = Span(1, Len(folded))
  /\ control = "running" =>
       /\ {EventAt(place) : place \in Places} = (Len(folded) + 1) .. TakenUpTo
       /\ \A place, other \in Places : Before(place, other) => EventAt(place) < EventAt(other)

\* A view that came to its end has folded all that was published before it
\* was asked to end, whichever side asked; a shutdown drops what was not taken.
EndsWithEverything == control = "done" => Len(folded) >= owed

\* The last frame of a run is its last state, on the terminal or printed and
\* not both; a run that degraded keeps its last good frame.
LastFrameStands ==
  \A i \in 1 .. Len(runs) :
    LET r == runs[i]
        waits == i = Len(runs) /\ work # <<>> /\ Head(work).do = "print"
    IN r.over /\ ~waits /\ control # "interrupted" =>
         /\ r.painted => r.printed = 0 /\ (r.degraded \/ r.shown = r.upTo)
         /\ ~r.painted /\ (Interactive \/ ~Hosted) => r.printed = r.upTo

\* The permit is the view's for as long as its run is mounted, so a view that
\* stopped, however it did, has left the terminal to others.
PermitGoesBack ==
  /\ permit = "view" <=> going /\ run.mounted
  /\ control # "running" => permit # "view"

\* Of the events, and of the terminal, in one.
FoldsOnce == EveryEventOnce /\ EndsWithEverything
LeavesTerminal == LastFrameStands /\ PermitGoesBack

\* A close is always answered: with a run whose mount waits for the permit,
\* a frame that throws, or a PubSub that ends at the same time.
CloseIsAnswered == closing.asked ~> control # "running"
=============================================================================
