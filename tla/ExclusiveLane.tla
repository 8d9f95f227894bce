---------------------------- MODULE ExclusiveLane ----------------------------
(***************************************************************************)
(* kit/src/Exclusive.ts and kit/src/ProcessScope.ts: bodies that change    *)
(* the working directory of the process take turns in a lane of one        *)
(* permit.  A body enters a directory, does promise work there, and leaves *)
(* it when its scope closes.  It is timed out, cancelled, or waits on its  *)
(* own lane; directories are deleted meanwhile.  The semaphore, the race   *)
(* of body and timer and the scope are effect's: what the lane needs of    *)
(* them is stated at the actions they appear in.                           *)
(***************************************************************************)
EXTENDS Naturals, FiniteSets

CONSTANTS Callers,    \* requests, each of which runs one body in the lane
          Dirs,       \* directories of the process
          Home,       \* the one of them it starts in
          Abandoning, \* callers whose promise is run with abandon: true
          Nesting,    \* callers whose body runs another one on the lane
          None        \* nobody, no directory

VARIABLES permit,     \* who holds the permit, None when it is free
          body,       \* where the body of a caller is
          promise,    \* whether its promise still runs
          saved,      \* the directory its scope is to go back to
          within,     \* the directory it entered
          caller,     \* what has become of the caller
          cwd, gone   \* the process's directory, the deleted directories

vars == <<permit, body, promise, saved, within, caller, cwd, gone>>

Outcomes == {"result", "timeout", "cancelled"}

Init ==
  /\ permit = None
  /\ body = [c \in Callers |-> "none"]
  /\ promise = [c \in Callers |-> "none"]
  /\ saved = [c \in Callers |-> None]
  /\ within = [c \in Callers |-> None]
  /\ caller = [c \in Callers |-> "out"]
  /\ cwd = Home
  /\ gone = {}

Step(c, from, to) == body[c] = from /\ body' = [body EXCEPT ![c] = to]

\* run: the caller waits for the permit.
Ask(c) ==
  /\ caller[c] = "out"
  /\ caller' = [caller EXCEPT ![c] = "queued"]
  /\ UNCHANGED <<permit, body, promise, saved, within, cwd, gone>>

\* withPermit: a waiter gets the permit and starts body and timer.
Enter(c) ==
  /\ caller[c] = "queued"
  /\ permit = None
  /\ permit' = c
  /\ caller' = [caller EXCEPT ![c] = "held"]
  /\ Step(c, "none", "started")
  /\ UNCHANGED <<promise, saved, within, cwd, gone>>

\* ProcessScope.chdir: the previous directory is read, then the new one is
\* entered; the restore is armed in the same step.  Entering a deleted
\* directory fails, and the body with it.
Previous == IF cwd \in gone THEN None ELSE cwd
Chdir(c, d) ==
  /\ Step(c, "started", IF d \in gone THEN "ending" ELSE "inside")
  /\ IF d \in gone
     THEN UNCHANGED <<saved, within, cwd>>
     ELSE /\ saved' = [saved EXCEPT ![c] = Previous]
          /\ within' = [within EXCEPT ![c] = d]
          /\ cwd' = d
  /\ UNCHANGED <<permit, promise, caller, gone>>

\* Exclusive.promise: the body waits for the work.
StartWork(c) ==
  /\ Step(c, "inside", "waiting")
  /\ promise' = [promise EXCEPT ![c] = "running"]
  /\ UNCHANGED <<permit, saved, within, caller, cwd, gone>>

\* A run on the same lane from inside a body waits for the permit its own
\* caller holds: what is left of the body is that wait.
StartNested(c) ==
  /\ c \in Nesting
  /\ Step(c, "inside", "nested")
  /\ UNCHANGED <<permit, promise, saved, within, caller, cwd, gone>>

\* The promise settles, by itself or after its signal was aborted, and the
\* body that waits for it goes on.
Settle(c) ==
  /\ promise[c] \in {"running", "aborted"}
  /\ promise' = [promise EXCEPT ![c] = "settled"]
  /\ body' = [body EXCEPT ![c] = IF @ \in {"waiting", "settling"} THEN "ending" ELSE @]
  /\ UNCHANGED <<permit, saved, within, caller, cwd, gone>>

\* Mutated form of AfterAbort: an interrupt never waits for the promise.
NeverWaits(c) == "ending"

\* What the interrupt of a body that waits for a promise waits for in turn:
\* the promise, unless it is to be abandoned.
AfterAbort(c) == IF c \in Abandoning THEN "ending" ELSE "settling"

\* The timer wins the race: it interrupts the body, and only the body.  A
\* body whose scope is closing goes on with that.
TimeOut(c) ==
  /\ caller[c] \in {"held", "masked"}
  /\ body[c] \in {"started", "inside", "waiting", "nested", "ending"}
  /\ body' = [body EXCEPT ![c] = IF @ = "waiting" THEN AfterAbort(c) ELSE "ending"]
  /\ promise' = [promise EXCEPT ![c] = IF @ = "running" THEN "aborted" ELSE @]
  /\ caller' = [caller EXCEPT ![c] = IF @ = "masked" THEN @ ELSE "timed"]
  /\ UNCHANGED <<permit, saved, within, cwd, gone>>

\* The body's scope closes: back to the previous directory, if there is one
\* and it can still be entered.
CloseScope(c) ==
  /\ Step(c, "ending", "closed")
  /\ cwd' = IF saved[c] # None /\ saved[c] \notin gone THEN saved[c] ELSE cwd
  /\ UNCHANGED <<permit, promise, saved, within, caller, gone>>

\* Mutated form of MayRelease: a cancelled request keeps the permit.
MayReleaseUncancelled(c) == body[c] = "closed" /\ caller[c] # "masked"

\* The lane is over: the permit is given back, then the caller sees the
\* result, the timeout or its own interruption.
MayRelease(c) == body[c] = "closed"
Release(c) ==
  /\ permit = c
  /\ MayRelease(c)
  /\ permit' = None
  /\ caller' = [caller EXCEPT ![c] = CASE @ = "held" -> "result" [] @ = "timed" -> "timeout"
                                       [] @ = "masked" -> "cancelled"]
  /\ UNCHANGED <<body, promise, saved, within, cwd, gone>>

\* The request is cancelled: while queued it leaves; once it holds the permit
\* its interruption waits for the end of the lane.
Cancel(c) ==
  /\ \/ caller[c] = "queued" /\ caller' = [caller EXCEPT ![c] = "cancelled"]
     \/ caller[c] \in {"held", "timed"} /\ caller' = [caller EXCEPT ![c] = "masked"]
  /\ UNCHANGED <<permit, body, promise, saved, within, cwd, gone>>

\* Another program deletes a directory.
Delete(d) ==
  /\ d \notin gone
  /\ gone' = gone \cup {d}
  /\ UNCHANGED <<permit, body, promise, saved, within, caller, cwd>>

LaneStep(c) ==
  \/ Enter(c) \/ StartWork(c) \/ StartNested(c) \/ CloseScope(c) \/ Release(c)
  \/ \E d \in Dirs : Chdir(c, d)

Next ==
  \/ \E c \in Callers : LaneStep(c) \/ Ask(c) \/ Settle(c) \/ TimeOut(c) \/ Cancel(c)
  \/ \E d \in Dirs : Delete(d)

Spec == Init /\ [][Next]_vars

\* The lane's own steps are taken, the timer fires, and a promise settles
\* once its signal is aborted, unless it is one to abandon
\* (Exclusive.ts:111-125 asks for that).
Fairness ==
  \A c \in Callers :
    /\ WF_vars(LaneStep(c))
    /\ WF_vars(TimeOut(c))
    /\ WF_vars(c \notin Abandoning /\ promise[c] = "aborted" /\ Settle(c))

TypeOK ==
  /\ permit \in Callers \cup {None}
  /\ body \in [Callers -> {"none", "started", "inside", "waiting", "nested", "settling", "ending", "closed"}]
  /\ promise \in [Callers -> {"none", "running", "aborted", "settled"}]
  /\ saved \in [Callers -> Dirs \cup {None}]
  /\ within \in [Callers -> Dirs \cup {None}]
  /\ caller \in [Callers -> {"out", "queued", "held", "timed", "masked"} \cup Outcomes]
  /\ cwd \in Dirs
  /\ gone \subseteq Dirs

Inside(c) == body[c] \in {"inside", "waiting", "nested", "settling"}
Works(c) == promise[c] \in {"running", "aborted"} /\ c \notin Abandoning

\* A body, and the promise work it started, run in the directory the body
\* entered for as long as they run: through its timeout, the cancellation of
\* its request and the turns of every other request.
OwnDirectory == \A c \in Callers : Inside(c) \/ Works(c) => cwd = within[c] /\ permit = c

\* With the permit free the process is where it started, unless a directory
\* it had to go back to was deleted.
HomeBetweenTurns == permit = None /\ gone = {} => cwd = Home

\* A request that has its answer has no body any more, and one cancelled
\* while it waited never had one.
AnsweredWhenOver ==
  \A c \in Callers : caller[c] \in Outcomes => body[c] \in {"none", "closed"} /\ permit # c

\* In one: what the lane promises the bodies and their callers.
LaneIsExclusive == TypeOK /\ OwnDirectory /\ HomeBetweenTurns /\ AnsweredWhenOver

\* Every request is answered: a nested run by its outer timeout, and nobody
\* waits for ever behind it.
EveryoneAnswered == \A c \in Callers : caller[c] = "queued" ~> caller[c] \in Outcomes
=============================================================================
