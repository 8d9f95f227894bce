------------------------- MODULE InstallationTokens -------------------------
(* GitHubApp.cachedToken (packages/github/src/GitHubApp.ts, makeCachedToken) *)
(* : a token comes from a store outside, or else from a mint that everybody  *)
(* who misses it shares.  What the store answers is anything: it may be      *)
(* shared with other isolates, lag, fail, or hold a token too close to its   *)
(* expiry for this caller's margin.                                          *)
CONSTANTS
  Callers,
  Installations,
  Mints,   \* the Deferreds
  None     \* no installation, no mint

VARIABLES
  inFlight,   \* Installation -> Mint or None
  mint,       \* of each mint: its installation, where its fiber is and its exit
  call        \* of each caller: where it is, its installation, the mint it is on

vars == <<inFlight, mint, call>>

Unused == [for |-> None, pc |-> "unused", exit |-> "none"]
Idle == [pc |-> "idle", for |-> None, on |-> None]
Exits == {"Success", "Failure", "Interrupted"}

Init ==
  /\ inFlight = [i \in Installations |-> None]
  /\ mint = [m \in Mints |-> Unused]
  /\ call = [c \in Callers |-> Idle]

\* A margin that is no finite duration is refused and changes nothing.
Call(c, i) ==
  /\ call[c].pc = "idle"
  /\ call' = [call EXCEPT ![c] = [Idle EXCEPT !.pc = "reading", !.for = i]]
  /\ UNCHANGED <<inFlight, mint>>

\* With a token, the mint's failure or an interrupt.
Return(c) ==
  /\ call' = [call EXCEPT ![c] = Idle]
  /\ UNCHANGED <<inFlight, mint>>

\* What the store holds decodes, is this installation's and outlives the margin.
Hit(c) == call[c].pc = "reading" /\ Return(c)

\* Nothing of use there, or the store failed.
Miss(c) ==
  /\ call[c].pc = "reading"
  /\ call' = [call EXCEPT ![c].pc = "missed"]
  /\ UNCHANGED <<inFlight, mint>>

Join(c) ==
  /\ call[c].pc = "missed" /\ inFlight[call[c].for] # None
  /\ call' = [call EXCEPT ![c].pc = "waiting", ![c].on = inFlight[call[c].for]]
  /\ UNCHANGED <<inFlight, mint>>

\* Nothing yields between the lookup and the insert.
Register(c, m) ==
  /\ call[c].pc = "missed" /\ inFlight[call[c].for] = None /\ mint[m] = Unused
  /\ inFlight' = [inFlight EXCEPT ![call[c].for] = m]
  /\ mint' = [mint EXCEPT ![m].for = call[c].for, ![m].pc = "registered"]
  /\ call' = [call EXCEPT ![c].pc = "registered", ![c].on = m]

Fork(c) ==
  /\ call[c].pc = "registered"
  /\ mint' = [mint EXCEPT ![call[c].on].pc = "minting"]
  /\ call' = [call EXCEPT ![c].pc = "waiting"]
  /\ UNCHANGED inFlight

Minted(m) ==
  /\ mint[m].pc = "minting"
  /\ mint' = [mint EXCEPT ![m].pc = "storing"]
  /\ UNCHANGED <<inFlight, call>>

\* The request failed, or the token has been offered to the store, which may
\* have refused it, or the runtime is interrupting its fibers.
Exit(m, exit) ==
  /\ \/ mint[m].pc = "minting" /\ exit # "Success"
     \/ mint[m].pc = "storing" /\ exit # "Failure"
  /\ mint' = [mint EXCEPT ![m].pc = "exiting", ![m].exit = exit]
  /\ UNCHANGED <<inFlight, call>>

\* The entry of a failed mint stays.
ForgetSuccess(m) ==
  IF mint[m].exit = "Success" THEN [inFlight EXCEPT ![mint[m].for] = None] ELSE inFlight
Forget(m) == [inFlight EXCEPT ![mint[m].for] = None]

\* onExit: first the key, whatever the exit, then the Deferred.
Delete(m) ==
  /\ mint[m].pc = "exiting"
  /\ inFlight' = Forget(m)
  /\ mint' = [mint EXCEPT ![m].pc = "completing"]
  /\ UNCHANGED call

Complete(m) ==
  /\ mint[m].pc = "completing"
  /\ mint' = [mint EXCEPT ![m].pc = "done"]
  /\ UNCHANGED <<inFlight, call>>

Release(c) == call[c].pc = "waiting" /\ mint[call[c].on].pc = "done" /\ Return(c)

\* A leader that is interrupted between its entry and its fork.
InterruptibleAnywhere(c) == call[c].pc # "idle"
Interruptible(c) == call[c].pc \in {"reading", "missed", "waiting"}
Interrupt(c) == Interruptible(c) /\ Return(c)

Next ==
  \/ \E c \in Callers :
       \/ \E i \in Installations : Call(c, i)
       \/ Hit(c) \/ Miss(c) \/ Join(c) \/ Fork(c) \/ Release(c) \/ Interrupt(c)
       \/ \E m \in Mints : Register(c, m)
  \/ \E m \in Mints :
       Minted(m) \/ Delete(m) \/ Complete(m) \/ \E exit \in Exits : Exit(m, exit)

Spec == Init /\ [][Next]_vars

\* Ready fibers run, and the request and the store answer or fail in the end.
Fairness ==
  /\ \A c \in Callers : WF_vars(Fork(c)) /\ WF_vars(Release(c))
  /\ \A m \in Mints : WF_vars(Minted(m) \/ Delete(m) \/ Complete(m)
                              \/ \E exit \in Exits : Exit(m, exit))

------------------------------------------------------------------------------

TypeOK ==
  /\ inFlight \in [Installations -> Mints \cup {None}]
  /\ mint \in [Mints -> [for : Installations \cup {None},
                         pc : {"unused", "registered", "minting", "storing", "exiting",
                               "completing", "done"},
                         exit : Exits \cup {"none"}]]
  /\ call \in [Callers -> [pc : {"idle", "reading", "missed", "registered", "waiting"},
                           for : Installations \cup {None}, on : Mints \cup {None}]]

\* Whoever is interrupted, and whether the mint fails or not, nobody who misses
\* waits for ever (GitHubApp.ts:830-840).
EveryMissEnds == \A c \in Callers : call[c].pc = "waiting" ~> call[c].pc # "waiting"

\* A mint as a flight, that has landed as soon as its key is gone.
Stage(m) ==
  IF mint[m].pc = "unused" THEN "unused"
  ELSE IF mint[m].pc \in {"completing", "done"} THEN mint[m].exit ELSE "open"
Flight == INSTANCE SingleFlight WITH
  Keys <- Installations, Flights <- Mints, Outcomes <- Exits, Lasting <- {}, Nothing <- None,
  flight <- [m \in Mints |-> [key |-> mint[m].for, state |-> Stage(m)]],
  caller <- [c \in Callers |-> [key |-> call[c].for, on |-> call[c].on]]

\* One mint per installation at a time, which every later miss joins until its
\* key is deleted; no outcome is kept: after it the next miss mints afresh.
SharesMints == Flight!Spec
=============================================================================
