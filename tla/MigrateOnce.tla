---------------------------- MODULE MigrateOnce ----------------------------
(***************************************************************************)
(* Store.migrateOnce: the process-wide registry that lets every caller     *)
(* that names the same database file share one migration run.              *)
(*                                                                         *)
(* A run is the promise the first caller registers together with the       *)
(* detached fiber that settles it.  The registry maps a key (real path     *)
(* plus options fingerprint) to the promise registered under it.           *)
(***************************************************************************)
CONSTANTS
    Callers,    \* fibers that call Store.migrateOnce
    Requests,   \* the options objects they pass
    Keys,       \* registry keys
    Runs,       \* promise identities; TLC gives a finite set of them
    KeyOf,      \* the key each request resolves to
    Ephemeral,  \* requests that name no shared file
    None        \* no registry entry

ASSUME KeyAssumption == /\ KeyOf \in [Requests -> Keys]
                        /\ Ephemeral \subseteq Requests

ASSUME NoneAssumption == None \notin Runs \cup Keys

Failed == {"Failure", "Defect", "Interrupted"}
Outcomes == {"Success"} \cup Failed
InFlight == {"registered", "running"}

VARIABLES
    registry,   \* Key -> Run or None: the Map on globalThis
    status,     \* Run -> how far the promise has come
    runKey,     \* Run -> the key it was registered under, None while unused
    pc,         \* Caller -> where the call is
    want,       \* Caller -> the key the call resolved to
    joined      \* Caller -> the promise the call waits on

vars == <<registry, status, runKey, pc, want, joined>>

Init == /\ registry = [k \in Keys |-> None]
        /\ status = [r \in Runs |-> "unused"]
        /\ runKey = [r \in Runs |-> None]
        /\ pc = [c \in Callers |-> "idle"]
        /\ want = [c \in Callers |-> None]
        /\ joined = [c \in Callers |-> None]

----------------------------------------------------------------------------
\* The call ends, with whatever result; the caller may call again.
Return(c) == /\ pc' = [pc EXCEPT ![c] = "idle"]
             /\ want' = [want EXCEPT ![c] = None]
             /\ joined' = [joined EXCEPT ![c] = None]
             /\ UNCHANGED <<registry, status, runKey>>

\* A request for ":memory:", "" or a file: URI dies at once and changes nothing.
\* For any other, realPath of the directory is under way; the registry is not
\* yet touched.
Call(c, q) == /\ pc[c] = "idle" /\ q \notin Ephemeral
              /\ pc' = [pc EXCEPT ![c] = "resolving"]
              /\ want' = [want EXCEPT ![c] = KeyOf[q]]
              /\ UNCHANGED <<registry, status, runKey, joined>>

ResolveFails(c) == /\ pc[c] = "resolving"
                   /\ Return(c)

\* runOnce finds an entry: whatever it holds is what the caller waits on.
Join(c) == /\ pc[c] = "resolving"
           /\ registry[want[c]] # None
           /\ pc' = [pc EXCEPT ![c] = "waiting"]
           /\ joined' = [joined EXCEPT ![c] = registry[want[c]]]
           /\ UNCHANGED <<registry, status, runKey, want>>

\* Lookup and registration are one synchronous step.
Register(c, r) == /\ pc[c] = "resolving"
                  /\ registry[want[c]] = None
                  /\ status[r] = "unused"
                  /\ registry' = [registry EXCEPT ![want[c]] = r]
                  /\ status' = [status EXCEPT ![r] = "registered"]
                  /\ runKey' = [runKey EXCEPT ![r] = want[c]]
                  /\ pc' = [pc EXCEPT ![c] = "registered"]
                  /\ joined' = [joined EXCEPT ![c] = r]
                  /\ UNCHANGED want

\* Effect.forkDetach: from here no caller owns the run.
Fork(c) == /\ pc[c] = "registered"
           /\ status' = [status EXCEPT ![joined[c]] = "running"]
           /\ pc' = [pc EXCEPT ![c] = "waiting"]
           /\ UNCHANGED <<registry, runKey, want, joined>>

\* Mutated form of Forget: the entry of an interrupted run is kept.
ForgetErrorsOnly(k, outcome) ==
    IF outcome \in {"Failure", "Defect"} THEN [registry EXCEPT ![k] = None] ELSE registry

\* Mutated form of Forget: the entry is dropped whatever the outcome.
ForgetAlways(k, outcome) == [registry EXCEPT ![k] = None]

\* The runner's onExit finalizer, synchronous: a success stays registered, any
\* other exit deletes the entry and then settles the promise.
Forget(k, outcome) ==
    IF outcome \in Failed THEN [registry EXCEPT ![k] = None] ELSE registry

Finish(r, outcome) ==
    /\ status[r] = "running"
    /\ registry' = Forget(runKey[r], outcome)
    /\ status' = [status EXCEPT ![r] = outcome]
    /\ UNCHANGED <<runKey, pc, want, joined>>

\* The continuation of a settled promise reaches one waiter, which ends as the
\* run did.
Release(c) == /\ pc[c] = "waiting"
              /\ status[joined[c]] \in Outcomes
              /\ Return(c)

\* Mutated form of Interruptible: the whole call.
InterruptibleAnywhere(c) == pc[c] # "idle"

\* Where an interrupt takes effect: path resolution and the restored wait.
\* Registration and fork are one uninterruptible region.
Interruptible(c) == pc[c] \in {"resolving", "waiting"}

Interrupt(c) == /\ Interruptible(c)
                /\ Return(c)

Next == \/ \E c \in Callers :
              \/ \E q \in Requests : Call(c, q)
              \/ ResolveFails(c)
              \/ Join(c)
              \/ \E r \in Runs : Register(c, r)
              \/ Fork(c)
              \/ Release(c)
              \/ Interrupt(c)
        \/ \E r \in Runs, outcome \in Outcomes : Finish(r, outcome)

Spec == Init /\ [][Next]_vars

\* The event loop runs every ready fiber: a registering caller reaches its
\* fork, a run ends (SQLite work under a busy timeout), and the continuation of
\* a settled promise is run.  Nothing forces a caller to call or to be
\* interrupted.
Fairness ==
    /\ \A c \in Callers : WF_vars(Fork(c)) /\ WF_vars(Release(c))
    /\ \A r \in Runs : WF_vars(\E outcome \in Outcomes : Finish(r, outcome))

----------------------------------------------------------------------------
TypeOK ==
    /\ registry \in [Keys -> Runs \cup {None}]
    /\ status \in [Runs -> {"unused"} \cup InFlight \cup Outcomes]
    /\ runKey \in [Runs -> Keys \cup {None}]
    /\ pc \in [Callers -> {"idle", "resolving", "registered", "waiting"}]
    /\ want \in [Callers -> Keys \cup {None}]
    /\ joined \in [Callers -> Runs \cup {None}]

\* Concurrent callers share one run: no key ever has two migrations of its
\* database in flight, and none starts after one succeeded.
OneRunPerKey ==
    \A r, s \in Runs :
        /\ runKey[r] # None /\ runKey[r] = runKey[s]
        /\ status[r] \in InFlight \cup {"Success"}
        /\ status[s] \in InFlight \cup {"Success"}
        => r = s

\* The entry of a failed run is gone before its waiters are released, so a
\* caller that comes (back) later never attaches itself to that failure: it
\* waits on a run that was still open, or successful, when it joined.
NeverJoinsFailure ==
    [][\A c \in Callers :
          pc[c] # "waiting" /\ pc'[c] = "waiting" => status'[joined'[c]] \notin Failed]_vars

\* No caller waits on a promise that no fiber will settle.
EveryWaitEnds ==
    \A c \in Callers : pc[c] = "waiting" ~> pc[c] # "waiting"

----------------------------------------------------------------------------
\* The registry and the promises describe each other.  This is the inductive
\* strengthening of OneRunPerKey.
RegistryMatchesRuns ==
    /\ \A k \in Keys : registry[k] # None =>
           /\ runKey[registry[k]] = k
           /\ status[registry[k]] \in InFlight \cup {"Success"}
    /\ \A r \in Runs : status[r] \in InFlight \cup {"Success"} =>
           /\ runKey[r] \in Keys
           /\ registry[runKey[r]] = r
    /\ \A c \in Callers : pc[c] # "idle" => want[c] \in Keys
    /\ \A c \in Callers : pc[c] = "registered" =>
           /\ joined[c] \in Runs
           /\ status[joined[c]] = "registered"
    /\ \A c, d \in Callers :
           pc[c] = "registered" /\ pc[d] = "registered" /\ joined[c] = joined[d] => c = d
    /\ \A c \in Callers : pc[c] = "waiting" =>
           /\ joined[c] \in Runs
           /\ status[joined[c]] # "unused"
----------------------------------------------------------------------------
\* A promise as a flight and a call as its caller: who runs the work and who
\* waits for it is of no consequence to the callers.
Stage(r) == IF status[r] \in InFlight THEN "open" ELSE status[r]

Flight == INSTANCE SingleFlight WITH
    Flights <- Runs, Lasting <- {"Success"}, Nothing <- None,
    flight <- [r \in Runs |->
                 [key |-> runKey[r], state |-> Stage(r)]],
    caller <- [c \in Callers |-> [key |-> want[c], on |-> joined[c]]]

\* The registry is a single flight per key whose successes last: whatever is
\* interrupted or fails, in any order, each caller is on the one flight that
\* was open, or had succeeded, when it was attached to it.
SharesFlights == Flight!Spec
============================================================================
