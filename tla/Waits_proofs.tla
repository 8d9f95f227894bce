------------------------- MODULE Waits_proofs -------------------------
(* Proofs about what callers wait for.  MigrateOnce, for any set of        *)
(* callers, keys and promises: at most one run of a key is open or         *)
(* successful, and no caller attaches itself to a failed one.  And         *)
(* ExclusiveLane, for any requests and directories: whoever holds the lane *)
(* is alone in the process's directory.                                    *)
EXTENDS MigrateOnce, TLAPS

CONSTANTS Dirs, Home, Abandoning, Nesting
VARIABLES permit, body, promise, saved, within, caller, cwd, gone

Lane == INSTANCE ExclusiveLane

IInv == TypeOK /\ RegistryMatchesRuns

LEMMA InitIInv == Init => IInv
  BY KeyAssumption, NoneAssumption
     DEF Init, IInv, TypeOK, RegistryMatchesRuns, InFlight, Outcomes, Failed

\* Ending a call frees only the caller's own fields.
LEMMA ReturnIInv ==
    ASSUME IInv, NEW c \in Callers, pc[c] # "registered", Return(c)
    PROVE  IInv'
  BY NoneAssumption DEF IInv, TypeOK, RegistryMatchesRuns, Return

LEMMA RegisterIInv ==
    ASSUME IInv, NEW c \in Callers, NEW r \in Runs, Register(c, r)
    PROVE  IInv'
<1>1. /\ want[c] \in Keys
      /\ registry' = [registry EXCEPT ![want[c]] = r]
      /\ status' = [status EXCEPT ![r] = "registered"]
      /\ runKey' = [runKey EXCEPT ![r] = want[c]]
      /\ pc' = [pc EXCEPT ![c] = "registered"]
      /\ joined' = [joined EXCEPT ![c] = r]
      /\ want' = want
      /\ registry[want[c]] = None
      /\ status[r] = "unused"
  BY DEF Register, IInv, RegistryMatchesRuns
<1>2. TypeOK'
  BY <1>1 DEF IInv, TypeOK, InFlight
<1>3. RegistryMatchesRuns'
  <2>1. \A k \in Keys : registry'[k] # None =>
           /\ runKey'[registry'[k]] = k
           /\ status'[registry'[k]] \in InFlight \cup {"Success"}
    BY <1>1 DEF IInv, TypeOK, RegistryMatchesRuns, InFlight
  <2>2. \A s \in Runs : status'[s] \in InFlight \cup {"Success"} =>
           /\ runKey'[s] \in Keys
           /\ registry'[runKey'[s]] = s
    \* An open run of the same key would be what the registry holds.
    <3>1. ASSUME NEW s \in Runs, s # r, status[s] \in InFlight \cup {"Success"}
          PROVE  runKey[s] # want[c]
      BY <1>1, <3>1, NoneAssumption DEF IInv, RegistryMatchesRuns
    <3>2. QED
      BY <1>1, <3>1 DEF IInv, TypeOK, RegistryMatchesRuns, InFlight
  <2>3. \A d \in Callers : pc'[d] # "idle" => want'[d] \in Keys
    BY <1>1 DEF IInv, TypeOK, RegistryMatchesRuns
  <2>4. \A d \in Callers : pc'[d] = "registered" =>
           joined'[d] \in Runs /\ status'[joined'[d]] = "registered"
    BY <1>1 DEF IInv, TypeOK, RegistryMatchesRuns
  <2>5. \A d, e \in Callers :
           pc'[d] = "registered" /\ pc'[e] = "registered" /\ joined'[d] = joined'[e]
           => d = e
    BY <1>1 DEF IInv, TypeOK, RegistryMatchesRuns
  <2>6. \A d \in Callers : pc'[d] = "waiting" =>
           joined'[d] \in Runs /\ status'[joined'[d]] # "unused"
    BY <1>1 DEF IInv, TypeOK, RegistryMatchesRuns
  <2>7. QED
    BY <2>1, <2>2, <2>3, <2>4, <2>5, <2>6 DEF RegistryMatchesRuns
<1>4. QED
  BY <1>2, <1>3 DEF IInv

LEMMA FinishIInv ==
    ASSUME IInv, NEW r \in Runs, NEW outcome \in Outcomes, Finish(r, outcome)
    PROVE  IInv'
<1>1. /\ status[r] = "running"
      /\ status' = [status EXCEPT ![r] = outcome]
      /\ UNCHANGED <<runKey, pc, want, joined>>
  BY DEF Finish
<1>2. /\ runKey[r] \in Keys
      /\ registry[runKey[r]] = r
  BY <1>1 DEF IInv, RegistryMatchesRuns, InFlight
<1>3. CASE outcome \in Failed
  <2>1. registry' = [registry EXCEPT ![runKey[r]] = None]
    BY <1>3 DEF Finish, Forget
  <2>2. outcome \notin InFlight \cup {"Success"} /\ outcome # "unused"
    BY <1>3 DEF Failed, InFlight
  <2>3. QED
    BY <1>1, <1>2, <2>1, <2>2, NoneAssumption
       DEF IInv, TypeOK, RegistryMatchesRuns
<1>4. CASE outcome \notin Failed
  <2>1. registry' = registry /\ outcome = "Success"
    BY <1>4 DEF Finish, Forget, Outcomes
  <2>2. QED
    BY <1>1, <1>2, <2>1, NoneAssumption
       DEF IInv, TypeOK, RegistryMatchesRuns, Outcomes
<1>5. QED
  BY <1>3, <1>4

LEMMA NextIInv == IInv /\ [Next]_vars => IInv'
<1> SUFFICES ASSUME IInv, [Next]_vars PROVE IInv'
  OBVIOUS
<1>1. ASSUME NEW c \in Callers, NEW q \in Requests, Call(c, q) PROVE IInv'
  BY <1>1, KeyAssumption DEF IInv, TypeOK, RegistryMatchesRuns, Call
<1>2. ASSUME NEW c \in Callers, ResolveFails(c) PROVE IInv'
  BY <1>2, ReturnIInv DEF ResolveFails
<1>3. ASSUME NEW c \in Callers, Join(c) PROVE IInv'
  <2>1. want[c] \in Keys /\ registry[want[c]] \in Runs
    BY <1>3 DEF Join, IInv, TypeOK, RegistryMatchesRuns
  <2>2. status[registry[want[c]]] # "unused"
    BY <1>3, <2>1 DEF Join, IInv, RegistryMatchesRuns, InFlight
  <2>3. QED
    BY <1>3, <2>1, <2>2 DEF IInv, TypeOK, RegistryMatchesRuns, Join
<1>4. ASSUME NEW c \in Callers, NEW r \in Runs, Register(c, r) PROVE IInv'
  BY <1>4, RegisterIInv
<1>5. ASSUME NEW c \in Callers, Fork(c) PROVE IInv'
  BY <1>5 DEF IInv, TypeOK, RegistryMatchesRuns, Fork, InFlight
<1>6. ASSUME NEW c \in Callers, Release(c) PROVE IInv'
  BY <1>6, ReturnIInv DEF Release
<1>7. ASSUME NEW c \in Callers, Interrupt(c) PROVE IInv'
  BY <1>7, ReturnIInv DEF Interrupt, Interruptible
<1>8. ASSUME NEW r \in Runs, NEW outcome \in Outcomes, Finish(r, outcome)
      PROVE IInv'
  BY <1>8, FinishIInv
<1>9. CASE UNCHANGED vars
  BY <1>9 DEF IInv, TypeOK, RegistryMatchesRuns, vars
<1>10. QED
  BY <1>1, <1>2, <1>3, <1>4, <1>5, <1>6, <1>7, <1>8, <1>9 DEF Next

\* Types and the agreement of registry and promises hold in every reachable
\* state (runOnce, migrateOnce.ts:116-148).
THEOREM RegistrySound == Spec => [](TypeOK /\ RegistryMatchesRuns)
<1>1. Spec => []IInv
  BY InitIInv, NextIInv, PTL DEF Spec
<1>2. QED
  BY <1>1, PTL DEF IInv

\* However many callers race, a key has at most one run that is open or has
\* succeeded: concurrent callers share it and a success is final.
THEOREM AtMostOneRun == Spec => []OneRunPerKey
<1>1. IInv => OneRunPerKey
  BY DEF IInv, RegistryMatchesRuns, OneRunPerKey
<1>2. QED
  BY <1>1, RegistrySound, PTL DEF IInv

\* A caller that comes back after a failure never joins the failed run.
THEOREM FailureNotShared == Spec => NeverJoinsFailure
<1> DEFINE JoinsOpen == \A c \in Callers :
             pc[c] # "waiting" /\ pc'[c] = "waiting"
             => status'[joined'[c]] \notin Failed
<1>1. IInv /\ [Next]_vars => [JoinsOpen]_vars
  <2> SUFFICES ASSUME IInv, Next, NEW c \in Callers,
                      pc[c] # "waiting", pc'[c] = "waiting"
               PROVE  status'[joined'[c]] \notin Failed
    OBVIOUS
  <2>1. CASE Join(c)
    <3>1. want[c] \in Keys /\ registry[want[c]] # None
      BY <2>1 DEF Join, IInv, RegistryMatchesRuns
    <3>2. status[registry[want[c]]] \in InFlight \cup {"Success"}
      BY <3>1 DEF IInv, RegistryMatchesRuns
    <3>3. status'[joined'[c]] = status[registry[want[c]]]
      BY <2>1 DEF Join, IInv, TypeOK
    <3>4. QED
      BY <3>2, <3>3 DEF InFlight, Failed
  <2>2. CASE Fork(c)
    BY <2>2 DEF Fork, IInv, TypeOK, RegistryMatchesRuns, Failed
  <2>3. Join(c) \/ Fork(c)
    BY DEF Next, Call, ResolveFails, Join, Register, Fork, Release, Interrupt,
           Return, Finish, IInv, TypeOK
  <2>4. QED
    BY <2>1, <2>2, <2>3
<1>2. QED
  BY <1>1, RegistrySound, PTL DEF Spec, NeverJoinsFailure, IInv
----------------------------------------------------------------------------
\* What a caller's fields hold at each stage of its call.
CallsInOrder ==
    \A c \in Callers :
        /\ pc[c] = "idle" => want[c] = None /\ joined[c] = None
        /\ pc[c] = "resolving" => joined[c] = None
        /\ pc[c] \in {"registered", "waiting"} => joined[c] \in Runs

LEMMA CallsStayInOrder == IInv /\ CallsInOrder /\ [Next]_vars => CallsInOrder'
<1> SUFFICES ASSUME IInv, CallsInOrder, [Next]_vars PROVE CallsInOrder'
  OBVIOUS
<1>1. ASSUME NEW c \in Callers, Return(c) PROVE CallsInOrder'
  BY <1>1 DEF Return, CallsInOrder, IInv, TypeOK
<1>2. ASSUME NEW c \in Callers, NEW q \in Requests, Call(c, q) PROVE CallsInOrder'
  BY <1>2 DEF Call, CallsInOrder, IInv, TypeOK
<1>3. ASSUME NEW c \in Callers, Join(c) PROVE CallsInOrder'
  <2>1. registry[want[c]] \in Runs
    BY <1>3 DEF Join, IInv, TypeOK, RegistryMatchesRuns
  <2>2. QED
    BY <1>3, <2>1 DEF Join, CallsInOrder, IInv, TypeOK
<1>4. ASSUME NEW c \in Callers, NEW r \in Runs, Register(c, r) PROVE CallsInOrder'
  BY <1>4 DEF Register, CallsInOrder, IInv, TypeOK
<1>5. ASSUME NEW c \in Callers, Fork(c) PROVE CallsInOrder'
  BY <1>5 DEF Fork, CallsInOrder, IInv, TypeOK
<1>6. ASSUME NEW r \in Runs, NEW outcome \in Outcomes, Finish(r, outcome)
      PROVE CallsInOrder'
  BY <1>6 DEF Finish, CallsInOrder
<1>7. CASE UNCHANGED vars
  BY <1>7 DEF CallsInOrder, vars
<1>8. QED
  BY <1>1, <1>2, <1>3, <1>4, <1>5, <1>6, <1>7 DEF Next, ResolveFails, Release, Interrupt

\* A key without an entry has no flight to share.
LEMMA NoEntryNoFlight ==
    ASSUME IInv, NEW k \in Keys, registry[k] = None
    PROVE  Flight!Shared(k) = {}
<1> SUFFICES ASSUME NEW r \in Runs, runKey[r] = k, Stage(r) \in {"open", "Success"}
             PROVE  FALSE
  BY DEF Flight!Shared, Flight!Open
<1>1. status[r] \in InFlight \cup {"Success"}
  BY DEF IInv, TypeOK, Stage, InFlight, Outcomes, Failed
<1>2. registry[k] = r
  BY <1>1 DEF IInv, RegistryMatchesRuns
<1>3. QED
  BY <1>2, NoneAssumption

LEMMA StepIsFlightStep ==
    IInv /\ CallsInOrder /\ [Next]_vars => [Flight!Next]_(Flight!vars)
<1> SUFFICES ASSUME IInv, CallsInOrder, [Next]_vars
             PROVE  [Flight!Next]_(Flight!vars)
  OBVIOUS
<1> USE DEF IInv, TypeOK, CallsInOrder
<1>1. ASSUME NEW c \in Callers, Return(c), pc[c] # "idle" PROVE Flight!Next
  <2>1. want[c] # None
    BY <1>1, NoneAssumption DEF RegistryMatchesRuns
  <2>2. Flight!Leave(c)
    BY <1>1, <2>1 DEF Return, Flight!Leave, Flight!Out, Stage
  <2>3. QED
    BY <2>2 DEF Flight!Next
<1>2. ASSUME NEW c \in Callers, NEW q \in Requests, Call(c, q) PROVE Flight!Next
  <2>1. Flight!Ask(c, KeyOf[q])
    BY <1>2, KeyAssumption DEF Call, Flight!Ask, Flight!Out, Stage
  <2>2. QED
    BY <2>1, KeyAssumption DEF Flight!Next
<1>3. ASSUME NEW c \in Callers, Join(c) PROVE Flight!Next
  <2>1. PICK r \in Runs : r = registry[want[c]]
    BY <1>3 DEF Join, RegistryMatchesRuns
  <2>2. runKey[r] = want[c] /\ Stage(r) \in {"open", "Success"}
    BY <1>3, <2>1 DEF Join, RegistryMatchesRuns, Stage
  <2>3. r \in Flight!Shared(want[c])
    BY <2>2 DEF Flight!Shared, Flight!Open
  <2>4. Flight!Board(c, r)
    BY <1>3, <2>1, <2>3 DEF Join, Flight!Board, Stage
  <2>5. QED
    BY <2>4 DEF Flight!Next
<1>4. ASSUME NEW c \in Callers, NEW r \in Runs, Register(c, r) PROVE Flight!Next
  <2>1. want[c] \in Keys /\ want[c] # None /\ joined[c] = None
    BY <1>4, NoneAssumption DEF Register, RegistryMatchesRuns
  <2>2. Flight!Shared(want[c]) = {}
    BY <1>4, <2>1, NoEntryNoFlight DEF Register
  <2>3. \A s \in Runs \ {r} : Stage(s)' = Stage(s) /\ runKey'[s] = runKey[s]
    BY <1>4 DEF Register, Stage
  <2>4. Stage(r) = "unused" /\ Stage(r)' = "open" /\ runKey'[r] = want[c]
    BY <1>4 DEF Register, Stage, InFlight
  <2>5. Flight!TakeOff(c, r)
    BY <1>4, <2>1, <2>2, <2>3, <2>4 DEF Register, Flight!TakeOff
  <2>6. QED
    BY <2>5 DEF Flight!Next
<1>5. ASSUME NEW c \in Callers, Fork(c) PROVE UNCHANGED Flight!vars
  BY <1>5 DEF Fork, Flight!vars, Stage, RegistryMatchesRuns, InFlight
<1>6. ASSUME NEW r \in Runs, NEW outcome \in Outcomes, Finish(r, outcome)
      PROVE  Flight!Next
  <2>1. Flight!Land(r, outcome)
    BY <1>6 DEF Finish, Flight!Land, Flight!Open, Stage, InFlight, Outcomes, Failed
  <2>2. QED
    BY <2>1 DEF Flight!Next
<1>7. CASE UNCHANGED vars
  BY <1>7 DEF vars, Flight!vars, Stage
<1>8. ASSUME NEW c \in Callers, ResolveFails(c) \/ Release(c) \/ Interrupt(c)
      PROVE  Return(c) /\ pc[c] # "idle"
  BY <1>8 DEF ResolveFails, Release, Interrupt, Interruptible
<1>9. QED
  BY <1>1, <1>2, <1>3, <1>4, <1>5, <1>6, <1>7, <1>8 DEF Next

\* Store.migrateOnce implements the single flight per key that its callers
\* rely on: whoever runs the work, and whatever is interrupted or fails.
THEOREM MigrateOnceSharesFlights == Spec => SharesFlights
<1>1. Init => CallsInOrder /\ Flight!Init
  BY DEF Init, CallsInOrder, Flight!Init, Flight!Out, Stage, InFlight
<1>2. Spec => []CallsInOrder
  BY <1>1, CallsStayInOrder, RegistrySound, PTL DEF Spec, IInv
<1>3. QED
  BY <1>1, <1>2, StepIsFlightStep, RegistrySound, PTL DEF Spec, SharesFlights, Flight!Spec, IInv

----------------------------------------------------------------------------
(* The lane.  The invariant says who may be where: the permit's holder is   *)
(* the one caller whose body stands between entering and closing, work that *)
(* is not abandoned has its body waiting for it, and the directory to go    *)
(* back to is remembered along the way.                                     *)

Holding == {"held", "timed", "masked"}

\* The permit and the turn of its holder are one.
TurnInv ==
  \A c \in Callers :
    IF permit = c
    THEN caller[c] \in Holding /\ body[c] # "none"
    ELSE /\ caller[c] \notin Holding
         /\ body[c] \in {"none", "closed"}
         /\ caller[c] \in {"out", "queued"} => body[c] = "none"

\* Work that is not abandoned keeps its body, and a body its directory.
WorkInv ==
  \A c \in Callers :
    /\ Lane!Works(c) => body[c] \in {"waiting", "settling"}
    /\ Lane!Inside(c) => cwd = within[c]

\* The way home, as long as no directory is deleted.
HomeInv ==
  /\ \A c \in Callers : body[c] \in {"none", "started"} => saved[c] = None
  /\ gone = {} =>
       /\ permit = None => cwd = Home
       /\ \A c \in Callers : permit = c =>
            /\ body[c] \in {"started", "closed"} => cwd = Home
            /\ Lane!Inside(c) => saved[c] = Home
            /\ body[c] = "ending" => saved[c] = Home \/ (saved[c] = None /\ cwd = Home)

LaneInv == Lane!TypeOK /\ TurnInv /\ WorkInv /\ HomeInv

\* What the constants are: nobody is no caller, nowhere no directory.
SensibleLane == None \notin Callers /\ None \notin Dirs /\ Home \in Dirs
----------------------------------------------------------------------------
LEMMA InitLaneInv == ASSUME SensibleLane PROVE Lane!Init => LaneInv
  BY DEF SensibleLane, Lane!Init, LaneInv, Lane!TypeOK, TurnInv, WorkInv, HomeInv, Holding, Lane!Outcomes, Lane!Works, Lane!Inside

\* Types and turns, action by action.
LEMMA TurnStep == ASSUME SensibleLane PROVE LaneInv /\ [Lane!Next]_(Lane!vars) => Lane!TypeOK' /\ TurnInv'
<1> SUFFICES ASSUME LaneInv, [Lane!Next]_(Lane!vars) PROVE Lane!TypeOK' /\ TurnInv'
  OBVIOUS
<1> USE DEF SensibleLane, LaneInv, Lane!TypeOK, TurnInv, Holding, Lane!Outcomes
<1>1. ASSUME NEW c \in Callers, Lane!Enter(c) PROVE Lane!TypeOK' /\ TurnInv'
  BY <1>1 DEF Lane!Enter, Lane!Step
<1>2. ASSUME NEW c \in Callers, NEW d \in Dirs, Lane!Chdir(c, d) PROVE Lane!TypeOK' /\ TurnInv'
  BY <1>2 DEF Lane!Chdir, Lane!Step, Lane!Previous
<1>3. ASSUME NEW c \in Callers, Lane!StartWork(c) \/ Lane!StartNested(c) PROVE Lane!TypeOK' /\ TurnInv'
  BY <1>3 DEF Lane!StartWork, Lane!StartNested, Lane!Step
<1>4. ASSUME NEW c \in Callers, Lane!Settle(c) PROVE Lane!TypeOK' /\ TurnInv'
  BY <1>4 DEF Lane!Settle
<1>5. ASSUME NEW c \in Callers, Lane!TimeOut(c) PROVE Lane!TypeOK' /\ TurnInv'
  BY <1>5 DEF Lane!TimeOut, Lane!AfterAbort
<1>6. ASSUME NEW c \in Callers, Lane!CloseScope(c) PROVE Lane!TypeOK' /\ TurnInv'
  BY <1>6 DEF Lane!CloseScope, Lane!Step
<1>7. ASSUME NEW c \in Callers, Lane!Release(c) PROVE Lane!TypeOK' /\ TurnInv'
  BY <1>7 DEF Lane!Release, Lane!MayRelease
<1>8. ASSUME NEW c \in Callers, Lane!Ask(c) \/ Lane!Cancel(c) PROVE Lane!TypeOK' /\ TurnInv'
  BY <1>8 DEF Lane!Ask, Lane!Cancel
<1>9. ASSUME NEW d \in Dirs, Lane!Delete(d) PROVE Lane!TypeOK' /\ TurnInv'
  BY <1>9 DEF Lane!Delete
<1>10. CASE UNCHANGED Lane!vars
  BY <1>10 DEF Lane!vars
<1>11. QED
  BY <1>1, <1>2, <1>3, <1>4, <1>5, <1>6, <1>7, <1>8, <1>9, <1>10 DEF Lane!Next, Lane!LaneStep

\* Work, its body and its directory: only the holder of the permit moves.
LEMMA WorkStep == ASSUME SensibleLane PROVE LaneInv /\ [Lane!Next]_(Lane!vars) => WorkInv'
<1> SUFFICES ASSUME LaneInv, [Lane!Next]_(Lane!vars) PROVE WorkInv'
  OBVIOUS
<1> USE DEF SensibleLane, LaneInv, Lane!TypeOK, TurnInv, WorkInv, Lane!Works, Lane!Inside, Holding
<1>1. ASSUME NEW c \in Callers, Lane!Enter(c) PROVE WorkInv'
  BY <1>1 DEF Lane!Enter, Lane!Step
<1>2. ASSUME NEW c \in Callers, NEW d \in Dirs, Lane!Chdir(c, d) PROVE WorkInv'
  BY <1>2 DEF Lane!Chdir, Lane!Step
<1>3. ASSUME NEW c \in Callers, Lane!StartWork(c) \/ Lane!StartNested(c) PROVE WorkInv'
  BY <1>3 DEF Lane!StartWork, Lane!StartNested, Lane!Step
<1>4. ASSUME NEW c \in Callers, Lane!Settle(c) PROVE WorkInv'
  BY <1>4 DEF Lane!Settle
<1>5. ASSUME NEW c \in Callers, Lane!TimeOut(c) PROVE WorkInv'
  BY <1>5 DEF Lane!TimeOut, Lane!AfterAbort
<1>6. ASSUME NEW c \in Callers, Lane!CloseScope(c) PROVE WorkInv'
  BY <1>6 DEF Lane!CloseScope, Lane!Step
<1>7. ASSUME NEW c \in Callers, Lane!Release(c) \/ Lane!Ask(c) \/ Lane!Cancel(c) PROVE WorkInv'
  BY <1>7 DEF Lane!Release, Lane!Ask, Lane!Cancel
<1>8. ASSUME NEW d \in Dirs, Lane!Delete(d) PROVE WorkInv'
  BY <1>8 DEF Lane!Delete
<1>9. CASE UNCHANGED Lane!vars
  BY <1>9 DEF Lane!vars
<1>10. QED
  BY <1>1, <1>2, <1>3, <1>4, <1>5, <1>6, <1>7, <1>8, <1>9 DEF Lane!Next, Lane!LaneStep

\* The way home is kept: chdir remembers it, the closing scope goes it.
LEMMA HomeStep == ASSUME SensibleLane PROVE LaneInv /\ [Lane!Next]_(Lane!vars) => HomeInv'
<1> SUFFICES ASSUME LaneInv, [Lane!Next]_(Lane!vars) PROVE HomeInv'
  OBVIOUS
<1> USE DEF SensibleLane, LaneInv, Lane!TypeOK, TurnInv, HomeInv, Lane!Inside, Holding
<1>1. ASSUME NEW c \in Callers, Lane!Enter(c) PROVE HomeInv'
  BY <1>1 DEF Lane!Enter, Lane!Step
<1>2. ASSUME NEW c \in Callers, NEW d \in Dirs, Lane!Chdir(c, d) PROVE HomeInv'
  BY <1>2 DEF Lane!Chdir, Lane!Step, Lane!Previous
<1>3. ASSUME NEW c \in Callers, Lane!StartWork(c) \/ Lane!StartNested(c) PROVE HomeInv'
  BY <1>3 DEF Lane!StartWork, Lane!StartNested, Lane!Step
<1>4. ASSUME NEW c \in Callers, Lane!Settle(c) PROVE HomeInv'
  <2>1. UNCHANGED <<permit, saved, cwd, gone>>
    BY <1>4 DEF Lane!Settle
  <2>2. ASSUME NEW d \in Callers
        PROVE  body'[d] = body[d] \/ (Lane!Inside(d) /\ body'[d] = "ending")
    <3>1. body' = [body EXCEPT ![c] = IF body[c] \in {"waiting", "settling"} THEN "ending" ELSE body[c]]
      BY <1>4 DEF Lane!Settle
    <3>2. QED
      BY <3>1
  <2>3. QED
    BY <2>1, <2>2 DEF HomeInv
<1>5. ASSUME NEW c \in Callers, Lane!TimeOut(c) PROVE HomeInv'
  <2>1. UNCHANGED <<permit, saved, cwd, gone>>
    BY <1>5 DEF Lane!TimeOut
  <2>2. ASSUME NEW d \in Callers
        PROVE  \/ body'[d] = body[d]
               \/ Lane!Inside(d) /\ body'[d] \in {"settling", "ending"}
               \/ body[d] = "started" /\ body'[d] = "ending"
    <3>1. body' = [body EXCEPT ![c] = IF body[c] = "waiting" THEN Lane!AfterAbort(c) ELSE "ending"]
      BY <1>5 DEF Lane!TimeOut
    <3>2. body[c] \in {"started", "inside", "waiting", "nested", "ending"}
      BY <1>5 DEF Lane!TimeOut
    <3>3. QED
      BY <3>1, <3>2 DEF Lane!AfterAbort
  <2>3. QED
    BY <2>1, <2>2
<1>6. ASSUME NEW c \in Callers, Lane!CloseScope(c) PROVE HomeInv'
  BY <1>6 DEF Lane!CloseScope, Lane!Step
<1>7. ASSUME NEW c \in Callers, Lane!Release(c) PROVE HomeInv'
  BY <1>7 DEF Lane!Release, Lane!MayRelease
<1>8. ASSUME NEW c \in Callers, Lane!Ask(c) \/ Lane!Cancel(c) PROVE HomeInv'
  BY <1>8 DEF Lane!Ask, Lane!Cancel
<1>9. ASSUME NEW d \in Dirs, Lane!Delete(d) PROVE HomeInv'
  BY <1>9 DEF Lane!Delete
<1>10. CASE UNCHANGED Lane!vars
  BY <1>10 DEF Lane!vars
<1>11. QED
  BY <1>1, <1>2, <1>3, <1>4, <1>5, <1>6, <1>7, <1>8, <1>9, <1>10 DEF Lane!Next, Lane!LaneStep

\* What the lane promises, for any number of requests and directories: a body
\* and its work run in their own directory while the permit is theirs, between
\* turns the process is at home unless a directory was deleted, and a caller
\* with an answer has no body any more (Exclusive.run, ProcessScope.chdir).
THEOREM TurnsAreExclusive == ASSUME SensibleLane PROVE Lane!Spec => []Lane!LaneIsExclusive
<1>1. Lane!Init => LaneInv
  BY InitLaneInv
<1>2. LaneInv /\ [Lane!Next]_(Lane!vars) => LaneInv'
  BY TurnStep, WorkStep, HomeStep DEF LaneInv
<1>3. LaneInv => Lane!LaneIsExclusive
  BY DEF SensibleLane, LaneInv, Lane!TypeOK, TurnInv, WorkInv, HomeInv, Holding, Lane!Outcomes, Lane!LaneIsExclusive,
         Lane!OwnDirectory, Lane!HomeBetweenTurns, Lane!AnsweredWhenOver, Lane!Works, Lane!Inside
<1>4. QED
  BY <1>1, <1>2, <1>3, PTL DEF Lane!Spec
============================================================================
