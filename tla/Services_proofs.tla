--------------------------- MODULE Services_proofs ---------------------------
(***************************************************************************)
(* Tokens, keys and documents: the two ways the github package keeps a     *)
(* token, the check document that a run keeps at GitHub, and the keys that *)
(* tokens are verified with.                                               *)
(*                                                                         *)
(* GitHubApp.cachedToken shares its mints, for any callers, installations  *)
(* and Deferreds: every step is one of the abstract single flight's or     *)
(* leaves it alone.  What carries the proof is that the map of mints in    *)
(* flight and the mints describe each other, and that an entry's fiber is  *)
(* forked by the one caller that made the entry.                           *)
(*                                                                         *)
(* In the rotating client (App) one credential lives at a time, for any    *)
(* number of callers, any lifetime and any skew.  The invariant follows    *)
(* the one token that may live: it is held while nobody mints, or it is on *)
(* its way to the one fiber that rotates; and who rotates has seen the     *)
(* held one spent.                                                         *)
(*                                                                         *)
(* Of the check document (Doc), for any runs, states and number of         *)
(* reports: a run at rest shows its last report.  The invariant says that  *)
(* whoever asks for a pass too early for a report has left a sign of it    *)
(* (a latch, a reporter under way, a daemon that is not waiting, a scope   *)
(* about to close) that another pass is still to come.                     *)
(*                                                                         *)
(* The key resolver (Jwks), for any number of resolvers and fibers, any    *)
(* durations and a store that answers with any set it was ever given.      *)
(* Three things carry its proofs.  A fetched set dates from before the     *)
(* issuer's next rotation (Truthful).  A resolver's fetches follow one     *)
(* another under its lock, so the last is the newest (NewestLast).  And    *)
(* the attempt on record is the last one there was, or the one under way   *)
(* (OnRecord).                                                             *)
(***************************************************************************)
EXTENDS InstallationTokens, Integers, FiniteSetTheorems, SequenceTheorems, TLAPS

CONSTANTS Builder, Lifetime, Skew, MaxClock, MaxTokens
VARIABLES clock, tokens, held, scope, caller, excused

App == INSTANCE TokenRotation

CONSTANTS Runs, States, Readable, MaxReports, Fresh
VARIABLES document, late, checks, version, reporter, latch, daemon, pass, written, runScope,
  unsettled, astray

Doc == INSTANCE CheckDocument WITH scope <- runScope

Open == {"registered", "minting", "storing", "exiting"}

\* An installation has an entry just when a mint of it is open.
EntriesMatchMints ==
  /\ \A i \in Installations :
       inFlight[i] # None => mint[inFlight[i]].for = i /\ mint[inFlight[i]].pc \in Open
  /\ \A m \in Mints :
       IF mint[m].pc \in Open
       THEN /\ mint[m].for \in Installations /\ inFlight[mint[m].for] = m
            /\ mint[m].pc = "exiting" => mint[m].exit \in Exits
       ELSE IF mint[m].pc = "unused" THEN mint[m] = Unused ELSE mint[m].exit \in Exits

\* Where a caller is says what it holds; a leader is the only one of its mint.
CallsMatchMints ==
  /\ \A c \in Callers :
       IF call[c].pc = "idle"
       THEN call[c] = Idle
       ELSE /\ call[c].for \in Installations
            /\ call[c].pc \in {"reading", "missed"} => call[c].on = None
            /\ call[c].pc \in {"registered", "waiting"} => call[c].on \in Mints
            /\ call[c].pc = "registered" => mint[call[c].on].pc = "registered"
  /\ \A c, d \in Callers :
       call[c].pc = "registered" /\ call[d].pc = "registered" /\ call[c].on = call[d].on => c = d

IInv == TypeOK /\ EntriesMatchMints /\ CallsMatchMints

\* What the constants are: None is neither an installation nor a mint.
Sensible == None \notin Installations /\ None \notin Mints
----------------------------------------------------------------------------
LEMMA InitIInv == ASSUME Sensible PROVE Init => IInv
  BY DEF Sensible, Init, IInv, TypeOK, EntriesMatchMints, CallsMatchMints, Unused, Idle, Exits, Open

\* What each action leaves of the invariant.
LEMMA NextIInv == ASSUME Sensible PROVE IInv /\ [Next]_vars => IInv'
<1> SUFFICES ASSUME IInv, [Next]_vars PROVE IInv'
  OBVIOUS
<1> USE DEF Sensible, IInv, TypeOK, Open, Exits
<1>1. ASSUME NEW c \in Callers, Return(c), call[c].pc # "registered" PROVE IInv'
  <2>1. TypeOK' /\ EntriesMatchMints'
    BY <1>1 DEF Return, Idle, EntriesMatchMints
  <2>2. ASSUME NEW d \in Callers
        PROVE  call'[d] = IF d = c THEN Idle ELSE call[d]
    BY <1>1 DEF Return
  <2>3. CallsMatchMints'
    BY <1>1, <2>2 DEF Return, CallsMatchMints, Idle
  <2>4. QED
    BY <2>1, <2>3
<1>2. ASSUME NEW c \in Callers, NEW i \in Installations, Call(c, i) PROVE IInv'
  <2>1. ASSUME NEW d \in Callers
        PROVE  /\ d = c => call'[d].pc = "reading" /\ call'[d].for = i /\ call'[d].on = None
               /\ d # c => call'[d] = call[d]
    BY <1>2 DEF Call, Idle
  <2>2. TypeOK' /\ EntriesMatchMints'
    BY <1>2 DEF Call, Idle, EntriesMatchMints
  <2>3. CallsMatchMints'
    BY <1>2, <2>1 DEF Call, CallsMatchMints, Idle
  <2>4. QED
    BY <2>2, <2>3
<1>3. ASSUME NEW c \in Callers, Miss(c) PROVE IInv'
  BY <1>3 DEF Miss, EntriesMatchMints, CallsMatchMints
<1>4. ASSUME NEW c \in Callers, Join(c) PROVE IInv'
  <2>1. inFlight[call[c].for] \in Mints
    BY <1>4 DEF Join, CallsMatchMints
  <2>2. QED
    BY <1>4, <2>1 DEF Join, EntriesMatchMints, CallsMatchMints
<1>5. ASSUME NEW c \in Callers, NEW m \in Mints, Register(c, m) PROVE IInv'
  <2>1. call[c].for \in Installations
    BY <1>5 DEF Register, CallsMatchMints
  <2>2. mint[m].pc = "unused" /\ mint[m].exit = "none"
    BY <1>5 DEF Register, Unused
  <2>3. TypeOK'
    BY <1>5, <2>1, <2>2 DEF Register
  <2>4. EntriesMatchMints'
    BY <1>5, <2>1, <2>2 DEF Register, EntriesMatchMints
  <2>5. CallsMatchMints'
    BY <1>5, <2>1, <2>2 DEF Register, CallsMatchMints, Idle
  <2>6. QED
    BY <2>3, <2>4, <2>5
<1>6. ASSUME NEW c \in Callers, Fork(c) PROVE IInv'
  <2>1. call[c].on \in Mints /\ mint[call[c].on].pc = "registered"
    BY <1>6 DEF Fork, CallsMatchMints
  <2>2. TypeOK'
    <3>1. mint' = [mint EXCEPT ![call[c].on] = [mint[call[c].on] EXCEPT !.pc = "minting"]]
      BY <1>6 DEF Fork
    <3>2. call' = [call EXCEPT ![c] = [call[c] EXCEPT !.pc = "waiting"]]
      BY <1>6 DEF Fork
    <3>3. QED
      BY SMTT(30), <1>6, <2>1, <3>1, <3>2 DEF Fork
  <2>3. EntriesMatchMints'
    BY <1>6, <2>1 DEF Fork, EntriesMatchMints
  <2>4. CallsMatchMints'
    <3>1. \A d \in Callers :
            call'[d] = IF d = c THEN [call[c] EXCEPT !.pc = "waiting"] ELSE call[d]
      BY <1>6 DEF Fork
    <3>2. \A d \in Callers \ {c} : call[d].pc = "registered" => call[d].on # call[c].on
      BY <1>6 DEF Fork, CallsMatchMints
    <3>3. \A m \in Mints \ {call[c].on} : mint'[m] = mint[m]
      BY <1>6 DEF Fork
    <3>4. QED
      BY <1>6, <3>1, <3>2, <3>3 DEF Fork, CallsMatchMints, Idle
  <2>5. QED
    BY <2>2, <2>3, <2>4
<1>7. ASSUME NEW m \in Mints, Minted(m) PROVE IInv'
  BY <1>7 DEF Minted, EntriesMatchMints, CallsMatchMints, Unused
<1>8. ASSUME NEW m \in Mints, NEW exit \in Exits, Exit(m, exit) PROVE IInv'
  <2>1. mint[m].pc \in {"minting", "storing"}
    BY <1>8 DEF Exit
  <2>2. mint' = [mint EXCEPT ![m] = [mint[m] EXCEPT !.pc = "exiting", !.exit = exit]]
    BY <1>8 DEF Exit
  <2>3. TypeOK'
    BY <1>8, <2>2 DEF Exit
  <2>4. EntriesMatchMints'
    BY <1>8, <2>1, <2>2 DEF Exit, EntriesMatchMints
  <2>5. CallsMatchMints'
    BY <1>8, <2>1, <2>2 DEF Exit, CallsMatchMints
  <2>6. QED
    BY <2>3, <2>4, <2>5
<1>9. ASSUME NEW m \in Mints, Delete(m) PROVE IInv'
  <2>1. mint[m].pc = "exiting" /\ mint[m].for \in Installations /\ inFlight[mint[m].for] = m
    BY <1>9 DEF Delete, EntriesMatchMints
  <2>2. TypeOK'
    BY <1>9, <2>1 DEF Delete, Forget
  <2>3. mint[m].exit \in Exits
    BY <2>1 DEF EntriesMatchMints
  <2>4. EntriesMatchMints'
    BY <1>9, <2>1, <2>3 DEF Delete, Forget, EntriesMatchMints, Unused
  <2>5. CallsMatchMints'
    BY <1>9, <2>1 DEF Delete, CallsMatchMints
  <2>6. QED
    BY <2>2, <2>4, <2>5
<1>10. ASSUME NEW m \in Mints, Complete(m) PROVE IInv'
  BY <1>10 DEF Complete, EntriesMatchMints, CallsMatchMints, Unused
<1>11. CASE UNCHANGED vars
  BY <1>11 DEF vars, EntriesMatchMints, CallsMatchMints
<1>12. QED
  BY <1>1, <1>2, <1>3, <1>4, <1>5, <1>6, <1>7, <1>8, <1>9, <1>10, <1>11
     DEF Next, Hit, Release, Interrupt, Interruptible
----------------------------------------------------------------------------
\* An installation without an entry has no flight to share.
LEMMA NoEntryNoFlight ==
    ASSUME Sensible, IInv, NEW i \in Installations, inFlight[i] = None
    PROVE  Flight!Shared(i) = {}
<1> SUFFICES ASSUME NEW m \in Mints, mint[m].for = i, Stage(m) = "open"
             PROVE  FALSE
  BY DEF Flight!Shared, Flight!Open
<1>1. mint[m].pc \in Open
  BY DEF IInv, TypeOK, EntriesMatchMints, Stage, Open, Exits
<1>2. inFlight[i] = m
  BY <1>1 DEF IInv, EntriesMatchMints
<1>3. QED
  BY <1>2 DEF Sensible

LEMMA StepIsFlightStep ==
    ASSUME Sensible PROVE IInv /\ [Next]_vars => [Flight!Next]_(Flight!vars)
<1> SUFFICES ASSUME IInv, [Next]_vars PROVE [Flight!Next]_(Flight!vars)
  OBVIOUS
<1> USE DEF Sensible, IInv, TypeOK, Open, Exits
<1>1. ASSUME NEW c \in Callers, Return(c), call[c].pc # "idle" PROVE Flight!Next
  <2>1. call[c].for # None
    BY <1>1 DEF CallsMatchMints
  <2>2. Flight!Leave(c)
    BY <1>1, <2>1 DEF Return, Idle, Flight!Leave, Flight!Out, Stage
  <2>3. QED
    BY <2>2 DEF Flight!Next
<1>2. ASSUME NEW c \in Callers, NEW i \in Installations, Call(c, i) PROVE Flight!Next
  <2>1. call[c] = Idle
    BY <1>2 DEF Call, CallsMatchMints
  <2>2. \A b \in Callers :
          /\ call'[b].for = IF b = c THEN i ELSE call[b].for
          /\ call'[b].on = IF b = c THEN None ELSE call[b].on
    BY <1>2 DEF Call, Idle
  <2>3. Flight!Ask(c, i)
    <3>1. UNCHANGED [m \in Mints |-> [key |-> mint[m].for, state |-> Stage(m)]]
      BY <1>2 DEF Call, Stage
    <3>2. call[c].for = None /\ call[c].on = None
      BY <2>1 DEF Idle
    <3>3. [b \in Callers |-> [key |-> call'[b].for, on |-> call'[b].on]]
            = [[b \in Callers |-> [key |-> call[b].for, on |-> call[b].on]]
                 EXCEPT ![c] = [key |-> i, on |-> None]]
      BY <2>2
    <3>4. QED
      BY <3>1, <3>2, <3>3 DEF Flight!Ask, Flight!Out
  <2>4. QED
    BY <2>3 DEF Flight!Next
<1>3. ASSUME NEW c \in Callers, Miss(c) PROVE UNCHANGED Flight!vars
  BY <1>3 DEF Miss, Flight!vars, Stage
<1>4. ASSUME NEW c \in Callers, Join(c) PROVE Flight!Next
  <2>1. call[c].for \in Installations /\ call[c].on = None
    BY <1>4 DEF Join, CallsMatchMints
  <2>2. PICK m \in Mints : m = inFlight[call[c].for]
    BY <1>4, <2>1 DEF Join
  <2>3. mint[m].for = call[c].for /\ Stage(m) = "open"
    BY <1>4, <2>1, <2>2 DEF Join, EntriesMatchMints, Stage
  <2>4. m \in Flight!Shared(call[c].for)
    BY <2>3 DEF Flight!Shared, Flight!Open
  <2>5. Flight!Board(c, m)
    BY <1>4, <2>1, <2>2, <2>4 DEF Join, Flight!Board, Stage
  <2>6. QED
    BY <2>5 DEF Flight!Next
<1>5. ASSUME NEW c \in Callers, NEW m \in Mints, Register(c, m) PROVE Flight!Next
  <2>1. call[c].for \in Installations /\ call[c].on = None
    BY <1>5 DEF Register, CallsMatchMints
  <2>2. Flight!Shared(call[c].for) = {}
    BY <1>5, <2>1, NoEntryNoFlight DEF Register
  <2>3. \A n \in Mints \ {m} : Stage(n)' = Stage(n) /\ mint'[n].for = mint[n].for
    BY <1>5 DEF Register, Stage
  <2>4. Stage(m) = "unused" /\ Stage(m)' = "open" /\ mint'[m].for = call[c].for
    BY <1>5 DEF Register, Stage, Unused
  <2>5. \A b \in Callers :
          /\ call'[b].for = call[b].for
          /\ call'[b].on = IF b = c THEN m ELSE call[b].on
    BY <1>5 DEF Register
  <2>6. Flight!TakeOff(c, m)
    <3>1. call[c].for # None
      BY <2>1
    <3>2. [n \in Mints |-> [key |-> mint'[n].for, state |-> Stage(n)']]
            = [[n \in Mints |-> [key |-> mint[n].for, state |-> Stage(n)]]
                 EXCEPT ![m] = [key |-> call[c].for, state |-> "open"]]
      BY <2>3, <2>4
    <3>3. [b \in Callers |-> [key |-> call'[b].for, on |-> call'[b].on]]
            = [[b \in Callers |-> [key |-> call[b].for, on |-> call[b].on]] EXCEPT ![c].on = m]
      BY <2>5
    <3>4. QED
      BY <2>1, <2>2, <2>4, <3>1, <3>2, <3>3 DEF Flight!TakeOff
  <2>7. QED
    BY <2>6 DEF Flight!Next
<1>6. ASSUME NEW c \in Callers, Fork(c) PROVE UNCHANGED Flight!vars
  <2>1. call[c].on \in Mints /\ mint[call[c].on].pc = "registered"
    BY <1>6 DEF Fork, CallsMatchMints
  <2>2. \A m \in Mints : Stage(m)' = Stage(m) /\ mint'[m].for = mint[m].for
    BY <1>6, <2>1 DEF Fork, Stage
  <2>3. QED
    BY <1>6, <2>2 DEF Fork, Flight!vars
<1>7. ASSUME NEW m \in Mints, Minted(m) \/ Complete(m) PROVE UNCHANGED Flight!vars
  <2>1. \A n \in Mints : Stage(n)' = Stage(n) /\ mint'[n].for = mint[n].for
    BY <1>7 DEF Minted, Complete, Stage
  <2>2. QED
    BY <1>7, <2>1 DEF Minted, Complete, Flight!vars
<1>8. ASSUME NEW m \in Mints, NEW exit \in Exits, Exit(m, exit) PROVE UNCHANGED Flight!vars
  <2>1. \A n \in Mints : Stage(n)' = Stage(n) /\ mint'[n].for = mint[n].for
    BY <1>8 DEF Exit, Stage
  <2>2. QED
    BY <1>8, <2>1 DEF Exit, Flight!vars
<1>9. ASSUME NEW m \in Mints, Delete(m) PROVE Flight!Next
  <2>1. mint[m].exit \in Exits /\ Stage(m) = "open" /\ Stage(m)' = mint[m].exit
    BY <1>9 DEF Delete, EntriesMatchMints, Stage
  <2>2. \A n \in Mints : mint'[n].for = mint[n].for /\ (n # m => Stage(n)' = Stage(n))
    BY <1>9 DEF Delete, Stage
  <2>3. PICK exit \in Exits : exit = mint[m].exit
    BY <2>1
  <2>4. Flight!Land(m, exit)
    BY <1>9, <2>1, <2>2, <2>3 DEF Delete, Flight!Land, Flight!Open
  <2>5. QED
    BY <2>4 DEF Flight!Next
<1>10. CASE UNCHANGED vars
  BY <1>10 DEF vars, Flight!vars, Stage
<1>11. QED
  BY <1>1, <1>2, <1>3, <1>4, <1>5, <1>6, <1>7, <1>8, <1>9, <1>10
     DEF Next, Hit, Release, Interrupt, Interruptible

\* GitHubApp.cachedToken implements the single flight: at most one mint of an
\* installation is under way, every miss joins it until its key is deleted,
\* and no outcome is kept, whoever is interrupted and whatever fails.
THEOREM TokensShareFlights == ASSUME Sensible PROVE Spec => SharesMints
<1>1. Init => IInv
  BY InitIInv
<1>2. IInv /\ [Next]_vars => IInv'
  BY NextIInv
<1>3. Init => Flight!Init
  BY DEF Init, Unused, Idle, Flight!Init, Flight!Out, Stage
<1>4. IInv /\ [Next]_vars => [Flight!Next]_(Flight!vars)
  BY StepIsFlightStep
<1>5. QED
  BY <1>1, <1>2, <1>3, <1>4, PTL DEF Spec, SharesMints, Flight!Spec
----------------------------------------------------------------------------
(* The rotating client.                                                    *)

Token == [expiry : Nat, revoked : Nat]
Stages == {"idle", "waiting", "served", "gone"} \cup App!InRotation
Tokens == 1..Len(tokens)

Shapes ==
  /\ tokens \in Seq(Token) /\ clock \in Nat /\ clock # 0
  /\ held \in 0..Len(tokens) /\ excused \subseteq Tokens
  /\ scope \in {"building", "open", "closed"}
  /\ caller \in [App!Fibers -> [pc : Stages, token : 0..Len(tokens)]]
  /\ \A c \in App!Fibers : caller[c].pc = "granted" => caller[c].token # 0

\* Who may be where: one fiber rotates, the builder first and alone, and a
\* token is released only when it is spent.
Phases ==
  /\ scope = "building" =>
       /\ held = 0
       /\ caller[Builder].pc \in {"releasing", "minting", "granted"}
       /\ \A c \in Callers : caller[c].pc = "idle"
  /\ scope # "building" => caller[Builder].pc \in {"served", "idle", "gone"}
  /\ scope = "open" => held # 0
  /\ \A c, d \in App!Fibers :
       caller[c].pc \in App!InRotation /\ caller[d].pc \in App!InRotation => c = d
  /\ \A c \in App!Fibers :
       caller[c].pc = "releasing" /\ scope # "closed" /\ held # 0 => App!IsSpent(held)

\* A token that lives unexcused is held, or on its way to who rotates.
Traced ==
  \A t \in Tokens :
    tokens[t].revoked = App!Never /\ clock < tokens[t].expiry /\ t \notin excused =>
      /\ scope # "closed"
      /\ \/ t = held /\ \A c \in App!Fibers : caller[c].pc \notin {"minting", "granted"}
         \/ \E c \in App!Fibers : caller[c].pc = "granted" /\ caller[c].token = t

SpentFirst ==
  scope # "closed" =>
    \A t \in Tokens : tokens[t].revoked # App!Never => tokens[t].revoked + Skew >= tokens[t].expiry

RotationInv == Shapes /\ Phases /\ Traced /\ SpentFirst

\* What the constants are: durations, and a builder that is no caller.
SensibleApp == Builder \notin Callers /\ Lifetime \in Nat /\ Skew \in Nat
----------------------------------------------------------------------------
\* What a revocation does to the tokens.
LEMMA RevokedEffect ==
  ASSUME Shapes, NEW t \in Tokens, NEW done \in BOOLEAN
  PROVE  /\ App!Revoked(t, done) \in Seq(Token)
         /\ Len(App!Revoked(t, done)) = Len(tokens)
         /\ \A j \in Tokens : App!Revoked(t, done)[j].expiry = tokens[j].expiry
         /\ \A j \in Tokens \ {t} : App!Revoked(t, done)[j] = tokens[j]
         /\ App!Revoked(t, done)[t].revoked \in {tokens[t].revoked, clock}
         /\ done => App!Revoked(t, done)[t].revoked # App!Never
         /\ tokens[t].revoked # App!Never => App!Revoked(t, done) = tokens
<1>1. CASE done /\ tokens[t].revoked = App!Never
  <2> DEFINE e == [tokens[t] EXCEPT !.revoked = clock]
  <2>1. tokens[t] \in Token
    BY DEF Shapes, Tokens
  <2>2. e \in Token /\ e.expiry = tokens[t].expiry /\ e.revoked = clock
    BY <2>1 DEF Shapes, Token
  <2>3. App!Revoked(t, done) = [tokens EXCEPT ![t] = e]
    BY <1>1 DEF App!Revoked
  <2>4. /\ [tokens EXCEPT ![t] = e] \in Seq(Token)
        /\ Len([tokens EXCEPT ![t] = e]) = Len(tokens)
        /\ \A j \in Tokens : [tokens EXCEPT ![t] = e][j] = IF j = t THEN e ELSE tokens[j]
    <3> HIDE DEF e
    <3>1. QED
      BY <2>2, ExceptSeq DEF Shapes, Tokens
  <2>5. QED
    BY <1>1, <2>2, <2>3, <2>4 DEF Shapes, App!Never
<1>2. CASE ~(done /\ tokens[t].revoked = App!Never)
  BY <1>2 DEF App!Revoked, Shapes
<1>3. QED
  BY <1>1, <1>2

\* What a fiber's move leaves of the others.
LEMMA AtEffect ==
  ASSUME Shapes, NEW c \in App!Fibers, NEW pc \in Stages,
         NEW S, 0..Len(tokens) \subseteq S, NEW t \in S, App!At(c, pc, t)
  PROVE  /\ caller'[c].pc = pc /\ caller'[c].token = t
         /\ \A d \in App!Fibers \ {c} : caller'[d] = caller[d]
         /\ caller' \in [App!Fibers -> [pc : Stages, token : S]]
  BY DEF App!At, Shapes

LEMMA InitRotationInv == ASSUME SensibleApp PROVE App!Init => RotationInv
<1> SUFFICES ASSUME App!Init PROVE RotationInv
  OBVIOUS
<1>1. tokens \in Seq(Token) /\ Len(tokens) = 0
  BY EmptySeq DEF App!Init
<1>2. Tokens = {}
  BY <1>1 DEF Tokens
<1>3. \A c \in App!Fibers : caller[c].pc = (IF c = Builder THEN "releasing" ELSE "idle") /\ caller[c].token = 0
  BY DEF App!Init
<1>4. Shapes
  <2>1. caller \in [App!Fibers -> [pc : Stages, token : {0}]]
    BY DEF App!Init, Stages, App!InRotation
  <2>2. 0..Len(tokens) = {0}
    BY <1>1
  <2>3. QED
    BY <1>1, <1>3, <2>1, <2>2 DEF App!Init, Shapes
<1>5. Phases
  BY <1>3 DEF SensibleApp, App!Init, Phases, App!Fibers, App!InRotation
<1>6. Traced /\ SpentFirst
  BY <1>2, <1>3 DEF App!Init, Traced, SpentFirst
<1>7. QED
  BY <1>4, <1>5, <1>6 DEF RotationInv
----------------------------------------------------------------------------
\* A fiber's move that leaves tokens, clock and scope alone.
LEMMA MoveIInv ==
  ASSUME SensibleApp, RotationInv, NEW c \in Callers,
         App!Use(c) \/ App!TakePermit(c) \/ App!LookAgain(c)
  PROVE  RotationInv'
<1> USE DEF SensibleApp
<1>1. PICK pc \in {"waiting", "served", "rechecking", "releasing"}, t \in 0..Len(tokens) :
        App!At(c, pc, t)
  BY DEF App!Use, App!TakePermit, App!LookAgain, RotationInv, Shapes
<1>2. UNCHANGED <<clock, tokens, held, scope, excused>>
  BY DEF App!Use, App!TakePermit, App!LookAgain
<1>3. c \in App!Fibers /\ c # Builder
  BY DEF App!Fibers
<1>4. /\ caller'[c].pc = pc /\ caller'[c].token = t
      /\ \A d \in App!Fibers \ {c} : caller'[d] = caller[d]
      /\ caller' \in [App!Fibers -> [pc : Stages, token : 0..Len(tokens)]]
  <2>1. pc \in Stages /\ Shapes
    BY DEF RotationInv, Stages, App!InRotation
  <2>2. QED
    BY <1>1, <1>3, <2>1, AtEffect
<1>5. caller[c].pc \in {"idle", "waiting", "rechecking"} /\ scope # "building"
  BY <1>3 DEF App!Use, App!TakePermit, App!LookAgain, RotationInv, Phases
<1>6. pc \in {"rechecking", "releasing"} =>
        \A d \in App!Fibers \ {c} : caller[d].pc \notin App!InRotation
  <2>1. CASE App!Use(c)
    BY <2>1, <1>4 DEF App!Use, App!At, RotationInv, Shapes
  <2>2. CASE App!TakePermit(c)
    BY <2>2, <1>5 DEF App!TakePermit, App!Permit, RotationInv, Phases, App!Fibers, App!InRotation
  <2>3. CASE App!LookAgain(c)
    BY <2>3, <1>3 DEF App!LookAgain, RotationInv, Phases, App!InRotation
  <2>4. QED
    BY <2>1, <2>2, <2>3
<1>7. pc = "releasing" => held = 0 \/ App!IsSpent(held)
  <2>1. CASE App!LookAgain(c)
    BY <2>1, <1>4 DEF App!LookAgain, App!Recheck, App!At, RotationInv, Shapes
  <2>2. CASE App!Use(c) \/ App!TakePermit(c)
    BY <2>2, <1>4 DEF App!Use, App!TakePermit, App!At, RotationInv, Shapes
  <2>3. QED
    BY <2>1, <2>2
<1>8. Shapes'
  BY <1>2, <1>4 DEF RotationInv, Shapes, Tokens
<1>9. Phases'
  BY <1>2, <1>3, <1>4, <1>5, <1>6, <1>7 DEF RotationInv, Phases, App!IsSpent, App!InRotation, App!Fibers
<1>10. Traced' /\ SpentFirst'
  <2>1. SpentFirst' /\ Tokens' = Tokens
    BY <1>2 DEF RotationInv, SpentFirst, Tokens
  <2>2. \A d \in App!Fibers : caller'[d].pc \in {"minting", "granted"} => d # c
    BY <1>4
  <2>3. \A d \in App!Fibers : caller[d].pc = "granted" => d # c
    BY <1>5
  <2>4. QED
    BY <1>2, <1>4, <2>1, <2>2, <2>3 DEF RotationInv, Traced
<1>11. QED
  BY <1>8, <1>9, <1>10 DEF RotationInv

\* The old token is revoked or excused: nothing lives that is not excused.
LEMMA ReleaseIInv ==
  ASSUME SensibleApp, RotationInv, NEW c \in App!Fibers, App!Release(c) PROVE RotationInv'
<1> USE DEF SensibleApp
<1>1. PICK done \in BOOLEAN : App!RevokeHeld(done)
  BY DEF App!Release
<1>2. UNCHANGED <<clock, held, scope>> /\ caller[c].pc = "releasing" /\ App!At(c, "minting", 0)
  BY DEF App!Release
<1>3. /\ caller'[c].pc = "minting" /\ caller'[c].token = 0
      /\ \A d \in App!Fibers \ {c} : caller'[d] = caller[d]
      /\ caller' \in [App!Fibers -> [pc : Stages, token : 0..Len(tokens)]]
  <2>1. "minting" \in Stages /\ 0 \in 0..Len(tokens) /\ Shapes
    BY DEF RotationInv, Shapes, Stages, App!InRotation
  <2>2. QED
    BY <1>2, <2>1, AtEffect
<1>4. \A d \in App!Fibers \ {c} : caller[d].pc \notin App!InRotation
  BY <1>2 DEF RotationInv, Phases, App!InRotation
<1>5. /\ tokens' \in Seq(Token) /\ Len(tokens') = Len(tokens)
      /\ \A j \in Tokens : tokens'[j].expiry = tokens[j].expiry
      /\ \A j \in Tokens \ {held} : tokens'[j] = tokens[j]
      /\ held # 0 => /\ tokens'[held].revoked \in {tokens[held].revoked, clock}
                     /\ tokens'[held].revoked # App!Never \/ held \in excused'
                     /\ tokens[held].revoked # App!Never => tokens' = tokens
      /\ excused \subseteq excused' /\ excused' \subseteq excused \cup {held} /\ excused' \subseteq Tokens
  <2>1. CASE held = 0
    BY <1>1, <2>1 DEF App!RevokeHeld, RotationInv, Shapes
  <2>2. CASE held # 0
    <3>1. held \in Tokens
      BY <2>2 DEF RotationInv, Shapes, Tokens
    <3>2. tokens' = App!Revoked(held, done) /\ excused' = IF done THEN excused ELSE excused \cup {held}
      BY <1>1, <2>2 DEF App!RevokeHeld
    <3>3. QED
      BY <3>1, <3>2, RevokedEffect DEF RotationInv, Shapes
  <2>3. QED
    BY <2>1, <2>2
<1>6. Shapes'
  BY <1>2, <1>3, <1>5 DEF RotationInv, Shapes, Tokens
<1>7. Phases'
  BY <1>2, <1>3, <1>4, <1>5 DEF RotationInv, Phases, App!InRotation, App!Fibers
<1>8. Traced'
  <2> SUFFICES ASSUME NEW t \in Tokens, tokens'[t].revoked = App!Never, clock < tokens'[t].expiry,
                      t \notin excused'
               PROVE  FALSE
    BY <1>2, <1>5 DEF Traced, Tokens
  <2>1. t # held
    BY <1>5 DEF Tokens, RotationInv, Shapes
  <2>2. tokens'[t] = tokens[t] /\ t \notin excused
    BY <2>1, <1>5
  <2>3. PICK d \in App!Fibers : caller[d].pc = "granted"
    BY <2>1, <2>2 DEF RotationInv, Traced
  <2>4. QED
    BY <2>3, <1>2, <1>4 DEF App!InRotation
<1>9. SpentFirst'
  <2> SUFFICES ASSUME scope # "closed", NEW t \in Tokens, tokens'[t].revoked # App!Never
               PROVE  tokens'[t].revoked + Skew >= tokens'[t].expiry
    BY <1>2, <1>5 DEF SpentFirst, Tokens
  <2>1. CASE tokens'[t] = tokens[t]
    BY <2>1 DEF RotationInv, SpentFirst
  <2>2. CASE tokens'[t] # tokens[t]
    <3>1. t = held /\ held # 0 /\ tokens'[t].revoked \in {tokens[held].revoked, clock}
      BY <2>2, <1>5 DEF Tokens, RotationInv, Shapes
    <3>2. tokens[held].revoked = App!Never /\ App!IsSpent(held)
      BY <2>2, <3>1, <1>2, <1>5 DEF RotationInv, Phases
    <3>3. QED
      BY <3>1, <3>2, <1>5 DEF App!IsSpent, Tokens
  <2>3. QED
    BY <2>1, <2>2
<1>10. QED
  BY <1>6, <1>7, <1>8, <1>9 DEF RotationInv

\* A new token lives alone: the old one was released, nobody else mints.
LEMMA GrantIInv ==
  ASSUME SensibleApp, RotationInv, NEW c \in App!Fibers, App!Grant(c) PROVE RotationInv'
<1> USE DEF SensibleApp
<1> DEFINE e == [expiry |-> clock + Lifetime, revoked |-> App!Never]
           n == Len(tokens) + 1
<1>1. e \in Token /\ e.revoked = App!Never /\ n \in Nat /\ n # 0
  BY DEF Token, App!Never, RotationInv, Shapes
<1>2. /\ tokens' \in Seq(Token) /\ Len(tokens') = n
      /\ \A j \in Tokens : tokens'[j] = tokens[j]
      /\ tokens'[n] = e
  <2>1. tokens' = Append(tokens, e)
    BY DEF App!Grant
  <2> HIDE DEF e
  <2>2. QED
    BY <1>1, <2>1, AppendProperties DEF RotationInv, Shapes, Tokens
<1>3. UNCHANGED <<clock, held, scope>> /\ caller[c].pc = "minting" /\ App!At(c, "granted", n)
  BY <1>2 DEF App!Grant
<1>4. excused' = IF scope = "closed" THEN excused \cup {n} ELSE excused
  BY <1>2 DEF App!Grant
<1> HIDE DEF e
<1>5. /\ caller'[c].pc = "granted" /\ caller'[c].token = n
      /\ \A d \in App!Fibers \ {c} : caller'[d] = caller[d]
      /\ caller' \in [App!Fibers -> [pc : Stages, token : 0..n]]
  <2>1. "granted" \in Stages /\ n \in 0..n /\ 0..Len(tokens) \subseteq 0..n /\ Shapes
    BY DEF RotationInv, Shapes, Stages, App!InRotation
  <2>2. QED
    BY ZenonT(30), <1>3, <2>1, AtEffect
<1>6. \A d \in App!Fibers \ {c} : caller[d].pc \notin App!InRotation
  BY <1>3 DEF RotationInv, Phases, App!InRotation
<1>7. Shapes'
  <2>1. held \in 0..n /\ excused' \subseteq 1..n
    <3>1. Len(tokens) \in Nat /\ held \in 0..Len(tokens) /\ excused \subseteq Tokens
      BY DEF RotationInv, Shapes
    <3>2. Tokens \subseteq 1..n /\ n \in 1..n /\ held \in 0..n
      BY <3>1 DEF Tokens
    <3>3. QED
      BY <1>4, <3>1, <3>2
  <2>2. \A d \in App!Fibers : caller'[d].pc = "granted" => caller'[d].token # 0
    BY <1>1, <1>5 DEF RotationInv, Shapes
  <2>3. QED
    BY <1>2, <1>3, <1>5, <2>1, <2>2 DEF RotationInv, Shapes, Tokens
<1>8. Phases'
  <2>1. held # 0 => tokens'[held] = tokens[held]
    BY <1>2 DEF RotationInv, Shapes, Tokens
  <2>2. QED
    BY <1>3, <1>5, <1>6, <2>1 DEF RotationInv, Phases, App!InRotation, App!IsSpent, App!Fibers
<1>9. Traced'
  <2> SUFFICES ASSUME NEW t \in 1..n, tokens'[t].revoked = App!Never, clock < tokens'[t].expiry,
                      t \notin excused'
               PROVE  t = n /\ scope # "closed"
    BY <1>2, <1>3, <1>5 DEF Traced, Tokens
  <2>1. CASE t = n
    BY <2>1, <1>4
  <2>2. CASE t \in Tokens
    <3>1. tokens'[t] = tokens[t] /\ t \notin excused
      BY <2>2, <1>2, <1>4
    <3>2. PICK d \in App!Fibers : caller[d].pc = "granted"
      BY <2>2, <3>1, <1>3 DEF RotationInv, Traced
    <3>3. QED
      BY <3>2, <1>3, <1>6 DEF App!InRotation
  <2>3. QED
    BY <2>1, <2>2 DEF Tokens, RotationInv, Shapes
<1>10. SpentFirst'
  <2> SUFFICES ASSUME scope # "closed", NEW t \in 1..n, tokens'[t].revoked # App!Never
               PROVE  tokens'[t].revoked + Skew >= tokens'[t].expiry
    BY <1>2, <1>3 DEF SpentFirst, Tokens
  <2>1. t # n
    BY <1>1, <1>2
  <2>2. t \in Tokens
    BY <2>1 DEF Tokens, RotationInv, Shapes
  <2>3. QED
    BY <2>2, <1>2 DEF RotationInv, SpentFirst
<1>11. QED
  BY <1>7, <1>8, <1>9, <1>10 DEF RotationInv

\* What was on its way is held, and its fiber does not rotate any more.
LEMMA InstallIInv ==
  ASSUME SensibleApp, RotationInv, NEW c \in App!Fibers, App!Install(c) PROVE RotationInv'
<1> USE DEF SensibleApp
<1>1. /\ caller[c].pc = "granted" /\ held' = caller[c].token /\ App!At(c, "served", caller[c].token)
      /\ scope' = IF c = Builder THEN "open" ELSE scope
      /\ UNCHANGED <<clock, tokens, excused>>
  BY DEF App!Install
<1>2. caller[c].token \in Tokens
  BY <1>1 DEF RotationInv, Shapes, Tokens
<1>3. /\ caller'[c].pc = "served"
      /\ \A d \in App!Fibers \ {c} : caller'[d] = caller[d]
      /\ caller' \in [App!Fibers -> [pc : Stages, token : 0..Len(tokens)]]
  <2>1. "served" \in Stages /\ caller[c].token \in 0..Len(tokens) /\ Shapes
    BY DEF RotationInv, Shapes, Stages, App!InRotation
  <2>2. QED
    BY <1>1, <2>1, AtEffect
<1>4. \A d \in App!Fibers \ {c} : caller[d].pc \notin App!InRotation
  BY <1>1 DEF RotationInv, Phases, App!InRotation
<1>5. c = Builder <=> scope = "building"
  BY <1>1 DEF RotationInv, Phases, App!Fibers, Shapes
<1>6. Shapes'
  BY <1>1, <1>2, <1>3 DEF RotationInv, Shapes, Tokens
<1>7. Phases'
  <2>1. \A d \in App!Fibers : caller'[d].pc \notin App!InRotation
    BY <1>3, <1>4 DEF App!InRotation
  <2>2. scope' # "building" /\ held' # 0
    BY <1>1, <1>2, <1>5 DEF Tokens, RotationInv, Shapes
  <2>3. caller'[Builder].pc \in {"served", "idle", "gone"}
    BY <1>3, <1>5 DEF RotationInv, Phases, App!Fibers
  <2>4. QED
    BY <2>1, <2>2, <2>3 DEF Phases, App!InRotation
<1>8. Traced'
  <2> SUFFICES ASSUME NEW t \in Tokens, tokens[t].revoked = App!Never, clock < tokens[t].expiry,
                      t \notin excused
               PROVE  t = caller[c].token /\ scope' # "closed"
    BY <1>1, <1>3, <1>4 DEF Traced, Tokens, App!InRotation
  <2>1. scope # "closed" /\ \E d \in App!Fibers : caller[d].pc = "granted" /\ caller[d].token = t
    BY <1>1 DEF RotationInv, Traced
  <2>2. QED
    BY <1>1, <1>4, <2>1 DEF App!InRotation
<1>9. SpentFirst'
  BY <1>1, <1>5 DEF RotationInv, SpentFirst, Tokens
<1>10. QED
  BY <1>6, <1>7, <1>8, <1>9 DEF RotationInv

\* What a failed fiber lets go is excused.
LEMMA FailIInv ==
  ASSUME SensibleApp, RotationInv, NEW c \in App!Fibers, App!Fail(c) PROVE RotationInv'
<1> USE DEF SensibleApp
<1>1. PICK pc \in {"gone", "idle"} : pc = (IF c = Builder THEN "gone" ELSE "idle") /\ App!At(c, pc, 0)
  BY DEF App!Fail
<1>2. /\ caller[c].pc \in App!InRotation \cup {"waiting"}
      /\ excused' = excused \cup ({caller[c].token} \ {0})
      /\ scope' = IF c = Builder THEN "closed" ELSE scope
      /\ UNCHANGED <<clock, tokens, held>>
  BY DEF App!Fail
<1>3. /\ caller'[c].pc = pc
      /\ \A d \in App!Fibers \ {c} : caller'[d] = caller[d]
      /\ caller' \in [App!Fibers -> [pc : Stages, token : 0..Len(tokens)]]
  <2>1. pc \in Stages /\ 0 \in 0..Len(tokens) /\ Shapes
    BY DEF RotationInv, Shapes, Stages, App!InRotation
  <2>2. QED
    BY <1>1, <2>1, AtEffect
<1>4. excused \subseteq excused' /\ excused' \subseteq Tokens
  <2>1. Len(tokens) \in Nat /\ caller[c].token \in 0..Len(tokens) /\ excused \subseteq Tokens
    BY DEF RotationInv, Shapes
  <2>2. {caller[c].token} \ {0} \subseteq Tokens
    BY <2>1 DEF Tokens
  <2>3. QED
    BY <1>2, <2>1, <2>2
<1>5. c = Builder <=> scope = "building"
  BY <1>2 DEF RotationInv, Phases, App!Fibers, Shapes, App!InRotation
<1>6. Shapes'
  BY <1>1, <1>2, <1>3, <1>4 DEF RotationInv, Shapes, Tokens
<1>7. Phases'
  BY <1>1, <1>2, <1>3, <1>5 DEF RotationInv, Phases, App!IsSpent, App!InRotation, App!Fibers
<1>8. Traced'
  <2> SUFFICES ASSUME NEW t \in Tokens, tokens[t].revoked = App!Never, clock < tokens[t].expiry,
                      t \notin excused'
               PROVE  /\ scope' # "closed"
                      /\ \/ t = held /\ \A d \in App!Fibers : caller'[d].pc \notin {"minting", "granted"}
                         \/ \E d \in App!Fibers : caller'[d].pc = "granted" /\ caller'[d].token = t
    BY <1>2 DEF Traced, Tokens
  <2>1. /\ t \notin excused /\ t # 0
        /\ caller[c].token # t
    BY <1>2 DEF Tokens, RotationInv, Shapes
  <2>2. scope # "closed"
    BY <2>1 DEF RotationInv, Traced
  <2>3. CASE t = held /\ \A d \in App!Fibers : caller[d].pc \notin {"minting", "granted"}
    BY <2>1, <2>2, <2>3, <1>1, <1>2, <1>3, <1>5 DEF RotationInv, Phases
  <2>4. CASE \E d \in App!Fibers : caller[d].pc = "granted" /\ caller[d].token = t
    <3>1. PICK d \in App!Fibers : caller[d].pc = "granted" /\ caller[d].token = t
      BY <2>4
    <3>2. d # c /\ caller'[d] = caller[d]
      BY <2>1, <3>1, <1>3
    <3>3. c # Builder
      BY <3>1, <3>2, <1>5 DEF RotationInv, Phases, App!Fibers
    <3>4. QED
      BY <2>2, <3>1, <3>2, <3>3, <1>2
  <2>5. QED
    BY <2>1, <2>3, <2>4 DEF RotationInv, Traced
<1>9. SpentFirst'
  BY <1>2 DEF RotationInv, SpentFirst, Tokens
<1>10. QED
  BY <1>6, <1>7, <1>8, <1>9 DEF RotationInv

\* The end of the scope leaves nothing that lives unexcused.
LEMMA CloseIInv == ASSUME SensibleApp, RotationInv, App!Close PROVE RotationInv'
<1> USE DEF SensibleApp
<1> DEFINE onTheWay == {caller[c].token : c \in {d \in Callers : caller[d].pc = "granted"}}
<1>1. PICK done \in BOOLEAN :
        /\ tokens' = App!Revoked(held, done)
        /\ excused' = excused \cup (IF done THEN {} ELSE {held}) \cup onTheWay
  BY DEF App!Close
<1>2. scope = "open" /\ scope' = "closed" /\ UNCHANGED <<clock, held, caller>>
  BY DEF App!Close
<1>3. held \in Tokens
  BY <1>2 DEF RotationInv, Shapes, Phases, Tokens
<1>4. /\ tokens' \in Seq(Token) /\ Len(tokens') = Len(tokens)
      /\ \A j \in Tokens : tokens'[j].expiry = tokens[j].expiry
      /\ \A j \in Tokens \ {held} : tokens'[j] = tokens[j]
      /\ done => tokens'[held].revoked # App!Never
  BY <1>1, <1>3, RevokedEffect DEF RotationInv
<1>5. \A c \in Callers : caller[c].pc = "granted" => caller[c].token \in onTheWay \cap Tokens
  BY DEF RotationInv, Shapes, Tokens, App!Fibers
<1>6. excused' \subseteq Tokens
  BY <1>1, <1>3, <1>5 DEF RotationInv, Shapes
<1>7. Shapes'
  BY <1>2, <1>4, <1>6 DEF RotationInv, Shapes, Tokens
<1>8. Phases'
  BY <1>2 DEF RotationInv, Phases
<1>9. Traced'
  <2> SUFFICES ASSUME NEW t \in Tokens, tokens'[t].revoked = App!Never, clock < tokens'[t].expiry,
                      t \notin excused'
               PROVE  FALSE
    BY <1>2, <1>4 DEF Traced, Tokens
  <2>1. t # held /\ t \notin excused /\ t \notin onTheWay
    BY <1>1, <1>4
  <2>2. PICK d \in App!Fibers : caller[d].pc = "granted" /\ caller[d].token = t
    BY <2>1, <1>4 DEF RotationInv, Traced
  <2>3. d \in Callers
    BY <2>2, <1>2 DEF RotationInv, Phases, App!Fibers
  <2>4. QED
    BY <2>1, <2>2, <2>3
<1>10. SpentFirst'
  BY <1>2 DEF SpentFirst
<1>11. QED
  BY <1>7, <1>8, <1>9, <1>10 DEF RotationInv

LEMMA NextRotationInv ==
  ASSUME SensibleApp PROVE RotationInv /\ [App!Next]_(App!vars) => RotationInv'
<1> SUFFICES ASSUME RotationInv, [App!Next]_(App!vars) PROVE RotationInv'
  OBVIOUS
<1> USE DEF SensibleApp
<1>1. ASSUME NEW c \in App!Fibers, App!Served(c) PROVE RotationInv'
  <2>1. caller[c].pc = "served" /\ App!At(c, "idle", 0) /\ UNCHANGED <<clock, tokens, held, scope, excused>>
    BY <1>1 DEF App!Served
  <2>2. "idle" \in Stages /\ 0 \in 0..Len(tokens) /\ Shapes
    BY DEF RotationInv, Shapes, Stages
  <2>3. /\ caller'[c].pc = "idle"
        /\ \A d \in App!Fibers \ {c} : caller'[d] = caller[d]
        /\ caller' \in [App!Fibers -> [pc : Stages, token : 0..Len(tokens)]]
    BY <2>1, <2>2, AtEffect
  <2>4. Shapes'
    BY <2>1, <2>3 DEF RotationInv, Shapes, Tokens
  <2>5. Phases'
    BY <2>1, <2>3 DEF RotationInv, Phases, App!IsSpent, App!InRotation, App!Fibers
  <2>6. Traced' /\ SpentFirst'
    <3>1. Tokens' = Tokens
      BY <2>1 DEF Tokens
    <3>2. \A d \in App!Fibers :
            caller[d].pc \in {"minting", "granted"} \/ caller'[d].pc \in {"minting", "granted"} =>
              caller'[d] = caller[d]
      BY <2>1, <2>3
    <3>3. Traced'
      BY <2>1, <3>1, <3>2 DEF RotationInv, Traced
    <3>4. SpentFirst'
      BY <2>1, <3>1 DEF RotationInv, SpentFirst
    <3>5. QED
      BY <3>3, <3>4
  <2>7. QED
    BY <2>4, <2>5, <2>6 DEF RotationInv
<1>2. CASE App!Tick
  <2>1. clock' = clock + 1 /\ UNCHANGED <<tokens, held, scope, caller, excused>>
    BY <1>2 DEF App!Tick
  <2>2. \A t \in Tokens : tokens[t].expiry \in Nat
    <3>1. \A t \in Tokens : tokens[t] \in Token
      BY DEF RotationInv, Shapes, Tokens
    <3>2. QED
      BY <3>1 DEF Token
  <2>3. Shapes' /\ SpentFirst'
    BY <2>1 DEF RotationInv, Shapes, SpentFirst, Tokens
  <2>4. Phases'
    <3>1. held # 0 /\ App!IsSpent(held) => App!IsSpent(held)'
      BY <2>1, <2>2 DEF App!IsSpent, RotationInv, Shapes, Tokens
    <3>2. QED
      BY <2>1, <3>1 DEF RotationInv, Phases
  <2>5. Traced'
    <3>1. \A t \in Tokens : clock' < tokens'[t].expiry => clock < tokens[t].expiry
      BY <2>1, <2>2 DEF RotationInv, Shapes
    <3>2. QED
      BY <2>1, <3>1 DEF RotationInv, Traced, Tokens
  <2>6. QED
    BY <2>3, <2>4, <2>5 DEF RotationInv
<1>3. CASE UNCHANGED App!vars
  BY <1>3 DEF App!vars, RotationInv, Shapes, Phases, Traced, SpentFirst, Tokens, App!IsSpent
<1>4. QED
  BY <1>1, <1>2, <1>3, MoveIInv, ReleaseIInv, GrantIInv, InstallIInv, FailIInv, CloseIInv DEF App!Next

\* Of all the tokens the rotating client had minted at most one lives, and
\* none after its scope, but for those a failure or an interrupt let go; and
\* while the scope is open none is revoked before it is spent: callers that
\* find the credential spent together rotate it once (makeRotatingClient).
THEOREM OneCredentialLives ==
  ASSUME SensibleApp
  PROVE  App!Spec => [](App!TypeOK /\ App!OneLive /\ App!RevokedWhenSpent)
<1>1. App!Init => RotationInv
  BY InitRotationInv
<1>2. RotationInv /\ [App!Next]_(App!vars) => RotationInv'
  BY NextRotationInv
<1>3. RotationInv => App!TypeOK /\ App!OneLive /\ App!RevokedWhenSpent
  <2> SUFFICES ASSUME RotationInv PROVE App!TypeOK /\ App!OneLive /\ App!RevokedWhenSpent
    OBVIOUS
  <2>1. DOMAIN tokens = Tokens /\ \A t \in Tokens : tokens[t] \in Token
    BY DEF RotationInv, Shapes, Tokens
  <2>2. App!TypeOK
    BY <2>1 DEF RotationInv, Shapes, App!TypeOK, Token
  <2>3. \A s, t \in App!Live \ excused : s = t
    BY <2>1 DEF RotationInv, Traced, Phases, App!Live, App!InRotation
  <2>5. scope = "closed" => App!Live \subseteq excused
    BY <2>1 DEF RotationInv, Traced, App!Live
  <2>6. App!RevokedWhenSpent
    BY <2>1 DEF RotationInv, SpentFirst, App!RevokedWhenSpent
  <2>7. QED
    BY <2>2, <2>3, <2>5, <2>6 DEF App!OneLive
<1>4. QED
  BY <1>1, <1>2, <1>3, PTL DEF App!Spec

----------------------------------------------------------------------------
(* The check document.                                                     *)

\* What the constants are: stamps above 0, the stamp of a document without one.
SensibleDoc == Runs \subseteq Nat \ {0} /\ Readable \in BOOLEAN

Registries == States \cup {Fresh}
Stamped == [stamp : Runs \cup {0}, shows : Registries]
PassStages == {"idle", "reading", "writing"}

DocShapes ==
  /\ document \in Stamped /\ late \subseteq [stamp : Runs, shows : Registries]
  /\ checks \in [Runs -> Registries] /\ version \in [Runs -> Nat]
  /\ reporter \in [Runs -> {"idle", "recorded", "counted"}] /\ latch \in [Runs -> BOOLEAN]
  /\ daemon \in [Runs -> [pc : {"waiting", "woken", "settling", "due", "dead"}, before : Nat]]
  /\ pass \in [Runs -> [Doc!Askers -> [pc : PassStages, checks : Registries]]]
  /\ written \in [Runs -> Stamped]
  /\ runScope \in [Runs -> {"open", "closing", "closed"}]
  /\ unsettled \in [Runs -> BOOLEAN] /\ astray \in [Runs -> BOOLEAN]

\* Where a pass can be, and what the end of a scope leaves.
DocPhase(r) ==
  /\ \A who, other \in Doc!Askers :
       pass[r][who] # Doc!NoPass /\ pass[r][other] # Doc!NoPass => who = other
  /\ \A who \in Doc!Askers : pass[r][who] # Doc!NoPass => pass[r][who].pc # "idle"
  /\ pass[r]["daemon"] # Doc!NoPass => daemon[r].pc = "due"
  /\ pass[r]["finalizer"] # Doc!NoPass => runScope[r] = "closing"
  /\ runScope[r] = "closed" => \A who \in Doc!Askers : pass[r][who] = Doc!NoPass
  /\ runScope[r] = "open" <=> daemon[r].pc # "dead"
  /\ runScope[r] # "open" => reporter[r] = "idle"
DocPhases == \A r \in Runs : DocPhase(r)

\* A report that is still being made, or that the daemon has yet to wake for;
\* and the passes that are still to come.
Reported(r) == reporter[r] # "idle" \/ latch[r]
Pending(r) ==
  \/ runScope[r] = "closing"
  \/ runScope[r] = "open" /\ (Reported(r) \/ daemon[r].pc # "waiting")

\* A pass that a report came too late for leaves another to come.
PassesSee ==
  \A r \in Runs : \A who \in Doc!Askers :
    pass[r][who] # Doc!NoPass /\ pass[r][who].checks # checks[r] =>
      /\ who # "finalizer" /\ Pending(r)
      /\ who = "daemon" => Reported(r)

\* What a run wrote is where it wrote it, unless it lost track.
Tracked ==
  /\ \A w \in late : astray[w.stamp]
  /\ ~Readable => \A r \in Runs :
       ~astray[r] /\ document.stamp \in {0, r} => document = written[r]

Current ==
  \A r \in Runs :
    ~unsettled[r] /\ ~astray[r] /\ document.stamp \in {0, r} /\ ~Pending(r)
      => document.shows = checks[r]

DocInv == DocShapes /\ DocPhases /\ PassesSee /\ Tracked /\ Current
----------------------------------------------------------------------------
LEMMA InitDocInv == ASSUME SensibleDoc PROVE Doc!Init => DocInv
<1> SUFFICES ASSUME Doc!Init PROVE DocInv
  OBVIOUS
<1>1. DocShapes
  BY DEF Doc!Init, DocShapes, Stamped, Registries, Doc!NoPass, PassStages
<1>2. DocPhases
  BY DEF Doc!Init, DocPhases, DocPhase, Doc!NoPass, Doc!Askers
<1>3. PassesSee /\ Tracked /\ Current
  BY DEF Doc!Init, PassesSee, Tracked, Current
<1>4. QED
  BY <1>1, <1>2, <1>3 DEF DocInv

\* What reports and the daemon do between passes.
LEMMA ReportDocInv ==
  ASSUME SensibleDoc, DocInv, NEW r \in Runs,
         (\E s \in States : Doc!Report(r, s)) \/ Doc!Count(r) \/ Doc!Open(r)
  PROVE  DocInv'
<1>1. CASE \E s \in States : Doc!Report(r, s)
  <2>1. PICK s \in States : Doc!Report(r, s)
    BY <1>1
  <2>2. /\ runScope[r] = "open" /\ reporter[r] = "idle" /\ reporter'[r] = "recorded"
        /\ \A q \in Runs \ {r} : checks'[q] = checks[q] /\ reporter'[q] = reporter[q]
        /\ UNCHANGED <<document, late, pass, written, unsettled, astray, version, latch, daemon, runScope>>
    BY <2>1 DEF Doc!Report, Doc!memory, DocInv, DocShapes
  <2>3. checks' \in [Runs -> Registries] /\ reporter' \in [Runs -> {"idle", "recorded", "counted"}]
    BY <2>1 DEF Doc!Report, DocInv, DocShapes, Registries
  <2>4. DocShapes'
    BY <2>2, <2>3 DEF DocInv, DocShapes
  <2>5. DocPhases'
    BY <2>2 DEF DocInv, DocPhases, DocPhase
  <2>6. Reported(r)' /\ Pending(r)' /\ pass[r]["finalizer"] = Doc!NoPass
    BY <2>2 DEF Reported, Pending, DocInv, DocPhases, DocPhase
  <2>7. \A q \in Runs \ {r} : (Reported(q)' <=> Reported(q)) /\ (Pending(q)' <=> Pending(q))
    BY <2>2 DEF Reported, Pending
  <2>8. PassesSee'
    BY <2>2, <2>6, <2>7 DEF DocInv, PassesSee
  <2>9. Tracked' /\ Current'
    BY <2>2, <2>6, <2>7 DEF DocInv, Tracked, Current
  <2>10. QED
    BY <2>4, <2>5, <2>8, <2>9 DEF DocInv
<1>2. CASE Doc!Count(r) \/ Doc!Open(r)
  <2>1. /\ UNCHANGED <<document, late, checks, daemon, pass, written, runScope, unsettled, astray>>
        /\ reporter[r] # "idle"
        /\ \A q \in Runs \ {r} : reporter'[q] = reporter[q] /\ latch'[q] = latch[q]
    BY <1>2 DEF Doc!Count, Doc!Open, DocInv, DocShapes
  <2>2. /\ reporter' \in [Runs -> {"idle", "recorded", "counted"}]
        /\ latch' \in [Runs -> BOOLEAN] /\ version' \in [Runs -> Nat]
    <3>1. CASE Doc!Count(r)
      BY <3>1 DEF Doc!Count, DocInv, DocShapes
    <3>2. CASE Doc!Open(r)
      BY <3>2 DEF Doc!Open, DocInv, DocShapes
    <3>3. QED
      BY <1>2, <3>1, <3>2
  <2>3. Reported(r)' /\ Reported(r)
    <3>1. CASE Doc!Count(r)
      BY <3>1 DEF Doc!Count, Reported, DocInv, DocShapes
    <3>2. CASE Doc!Open(r)
      BY <3>2 DEF Doc!Open, Reported, DocInv, DocShapes
    <3>3. QED
      BY <1>2, <3>1, <3>2
  <2>4. DocShapes'
    BY <2>1, <2>2 DEF DocInv, DocShapes
  <2>5. DocPhases'
    BY <2>1 DEF DocInv, DocPhases, DocPhase
  <2>6. \A q \in Runs \ {r} : (Reported(q)' <=> Reported(q)) /\ (Pending(q)' <=> Pending(q))
    BY <2>1 DEF Reported, Pending
  <2>7. Pending(r)' <=> Pending(r)
    BY <2>1, <2>3 DEF Pending
  <2>8. PassesSee'
    BY <2>1, <2>3, <2>6, <2>7 DEF DocInv, PassesSee
  <2>9. Tracked' /\ Current'
    BY <2>1, <2>6, <2>7 DEF DocInv, Tracked, Current
  <2>10. QED
    BY <2>4, <2>5, <2>8, <2>9 DEF DocInv
<1>3. QED
  BY <1>1, <1>2

LEMMA DaemonDocInv ==
  ASSUME SensibleDoc, DocInv, NEW r \in Runs, Doc!Wake(r) \/ Doc!CloseLatch(r) \/ Doc!Sleep(r)
  PROVE  DocInv'
<1>1. /\ UNCHANGED <<document, late, checks, version, reporter, pass, written, runScope, unsettled, astray>>
      /\ daemon[r].pc \in {"waiting", "woken", "settling"}
      /\ daemon[r].pc = "waiting" => latch[r]
  BY DEF Doc!Wake, Doc!CloseLatch, Doc!Sleep
<1>2. /\ daemon' \in [Runs -> [pc : {"waiting", "woken", "settling", "due", "dead"}, before : Nat]]
      /\ latch' \in [Runs -> BOOLEAN]
      /\ \A q \in Runs \ {r} : daemon'[q] = daemon[q] /\ latch'[q] = latch[q]
      /\ daemon'[r].pc \in {"woken", "settling", "due"}
  <2>1. version[r] \in Nat
    BY DEF DocInv, DocShapes
  <2>2. CASE Doc!Wake(r)
    BY <2>2 DEF Doc!Wake, Doc!DaemonGoes, DocInv, DocShapes
  <2>3. CASE Doc!CloseLatch(r)
    BY <2>1, <2>3 DEF Doc!CloseLatch, Doc!DaemonGoes, DocInv, DocShapes
  <2>4. CASE Doc!Sleep(r)
    <3>1. UNCHANGED latch /\ \E pc \in {"due", "settling"}, before \in Nat : Doc!DaemonGoes(r, pc, before)
      BY <2>1, <2>4 DEF Doc!Sleep
    <3>2. QED
      BY <3>1 DEF Doc!DaemonGoes, DocInv, DocShapes
  <2>5. QED
    BY <2>2, <2>3, <2>4
<1>3. DocShapes'
  BY <1>1, <1>2 DEF DocInv, DocShapes
<1>4. DocPhases'
  BY <1>1, <1>2 DEF DocInv, DocPhases, DocPhase
<1>5. runScope[r] = "open" /\ pass[r]["daemon"] = Doc!NoPass
  BY <1>1 DEF DocInv, DocPhases, DocPhase
<1>6. Pending(r)'
  BY <1>1, <1>2, <1>5 DEF Pending
<1>7. \A q \in Runs \ {r} : (Pending(q)' <=> Pending(q)) /\ (Reported(q)' <=> Reported(q))
  BY <1>1, <1>2 DEF Pending, Reported
<1>8. PassesSee'
  BY <1>1, <1>5, <1>6, <1>7 DEF DocInv, PassesSee
<1>9. Tracked' /\ Current'
  BY <1>1, <1>6, <1>7 DEF DocInv, Tracked, Current
<1>10. QED
  BY <1>3, <1>4, <1>8, <1>9 DEF DocInv

LEMMA BeginDocInv ==
  ASSUME SensibleDoc, DocInv, NEW r \in Runs, NEW who \in Doc!Askers, Doc!Begin(r, who)
  PROVE  DocInv'
<1>1. /\ UNCHANGED <<document, late, checks, reporter, written, unsettled, astray, version, latch,
                     daemon, runScope>>
      /\ Doc!Asks(r, who) /\ \A other \in Doc!Askers : pass[r][other] = Doc!NoPass
  BY DEF Doc!Begin, Doc!Gate, Doc!memory
<1>2. /\ pass' \in [Runs -> [Doc!Askers -> [pc : PassStages, checks : Registries]]]
      /\ \A q \in Runs \ {r} : pass'[q] = pass[q]
      /\ \A other \in Doc!Askers \ {who} : pass'[r][other] = Doc!NoPass
      /\ pass'[r][who] = [pc |-> "reading", checks |-> checks[r]]
  BY <1>1 DEF Doc!Begin, DocInv, DocShapes, PassStages
<1>3. DocShapes'
  BY <1>1, <1>2 DEF DocInv, DocShapes
<1>4. runScope[r] # "closed" /\ (who = "daemon" => daemon[r].pc = "due")
      /\ (who = "finalizer" => runScope[r] = "closing")
  BY <1>1 DEF Doc!Asks, DocInv, DocPhases, DocPhase, Doc!Askers
<1>5. DocPhases'
  <2>1. \A q \in Runs \ {r} : DocPhase(q)'
    BY <1>1, <1>2 DEF DocInv, DocPhases, DocPhase
  <2>2. DocPhase(r)'
    <3>1. runScope[r] = "open" <=> daemon[r].pc # "dead"
      BY DEF DocInv, DocPhases, DocPhase
    <3>2. runScope[r] # "open" => reporter[r] = "idle"
      BY DEF DocInv, DocPhases, DocPhase
    <3>3. {"daemon", "finalizer"} \subseteq Doc!Askers
      BY DEF Doc!Askers
    <3>4. pass'[r]["daemon"] # Doc!NoPass => who = "daemon"
      BY <1>2, <3>3
    <3>5. pass'[r]["finalizer"] # Doc!NoPass => who = "finalizer"
      BY <1>2, <3>3
    <3>6. \A any \in Doc!Askers : pass'[r][any] # Doc!NoPass => any = who
      BY <1>2
    <3>7. QED
      BY <1>1, <1>2, <1>4, <3>1, <3>2, <3>4, <3>5, <3>6 DEF DocPhase
  <2>3. QED
    BY <2>1, <2>2 DEF DocPhases
<1>6. \A q \in Runs : (Pending(q)' <=> Pending(q)) /\ (Reported(q)' <=> Reported(q))
  BY <1>1 DEF Pending, Reported
<1>7. PassesSee'
  BY <1>1, <1>2, <1>6 DEF DocInv, PassesSee
<1>8. Tracked' /\ Current'
  BY <1>1, <1>6 DEF DocInv, Tracked, Current
<1>9. QED
  BY <1>3, <1>5, <1>7, <1>8 DEF DocInv

\* How a pass ends.
LEMMA EndFacts ==
  ASSUME SensibleDoc, DocInv, NEW r \in Runs, NEW who \in Doc!Askers, NEW settled \in BOOLEAN,
         pass[r][who] # Doc!NoPass, Doc!End(r, who, settled), UNCHANGED <<checks, version, reporter, latch>>
  PROVE  /\ unsettled' \in [Runs -> BOOLEAN]
         /\ daemon' \in [Runs -> [pc : {"waiting", "woken", "settling", "due", "dead"}, before : Nat]]
         /\ runScope' \in [Runs -> {"open", "closing", "closed"}]
         /\ pass' \in [Runs -> [Doc!Askers -> [pc : PassStages, checks : Registries]]]
         /\ DocPhases' /\ PassesSee'
         /\ unsettled'[r] = ~settled
         /\ \A q \in Runs \ {r} : (Pending(q)' <=> Pending(q)) /\ unsettled'[q] = unsettled[q]
         /\ ~Pending(r)' => pass[r][who].checks = checks[r]
<1>1. /\ unsettled' \in [Runs -> BOOLEAN] /\ unsettled'[r] = ~settled
      /\ daemon' \in [Runs -> [pc : {"waiting", "woken", "settling", "due", "dead"}, before : Nat]]
      /\ runScope' \in [Runs -> {"open", "closing", "closed"}]
  BY DEF Doc!End, DocInv, DocShapes
<1>2. pass' \in [Runs -> [Doc!Askers -> [pc : PassStages, checks : Registries]]]
      /\ \A any \in Doc!Askers : pass'[r][any] = Doc!NoPass
  BY DEF Doc!End, DocInv, DocShapes, DocPhases, DocPhase, Doc!NoPass, PassStages, Registries
<1>3. \A q \in Runs \ {r} : pass'[q] = pass[q] /\ unsettled'[q] = unsettled[q]
                            /\ daemon'[q] = daemon[q] /\ runScope'[q] = runScope[q]
  BY DEF Doc!End, DocInv, DocShapes
<1>4. \A q \in Runs \ {r} : (Pending(q)' <=> Pending(q)) /\ (Reported(q)' <=> Reported(q))
  BY <1>3 DEF Pending, Reported
<1>5. /\ who = "daemon" => daemon[r].pc = "due" /\ daemon'[r].pc = "waiting" /\ runScope[r] = "open"
      /\ who # "daemon" => daemon' = daemon
      /\ who = "finalizer" => runScope[r] = "closing" /\ runScope'[r] = "closed"
      /\ who # "finalizer" => runScope' = runScope
  BY DEF Doc!End, DocInv, DocShapes, DocPhases, DocPhase
<1>6. DocPhases'
  <2>1. runScope'[r] = "open" <=> daemon'[r].pc # "dead"
    BY <1>5 DEF DocInv, DocPhases, DocPhase
  <2>2. runScope'[r] # "open" => reporter'[r] = "idle"
    BY <1>5 DEF DocInv, DocPhases, DocPhase
  <2>3. DocPhase(r)'
    BY <1>2, <2>1, <2>2 DEF DocPhase, Doc!Askers
  <2>4. \A q \in Runs \ {r} : DocPhase(q)'
    BY <1>3 DEF DocInv, DocPhases, DocPhase
  <2>5. QED
    BY <2>3, <2>4 DEF DocPhases
<1>7. PassesSee'
  BY <1>2, <1>3, <1>4 DEF DocInv, PassesSee
<1>8. ~Pending(r)' => pass[r][who].checks = checks[r]
  <2> SUFFICES ASSUME pass[r][who].checks # checks[r] PROVE Pending(r)'
    OBVIOUS
  <2>1. who # "finalizer" /\ Pending(r) /\ (who = "daemon" => Reported(r))
    BY DEF DocInv, PassesSee
  <2>2. Reported(r)' <=> Reported(r)
    BY DEF Reported
  <2>3. QED
    BY <1>5, <2>1, <2>2 DEF Pending
<1>9. QED
  BY <1>1, <1>2, <1>3, <1>4, <1>6, <1>7, <1>8

\* What is rendered, and that it is the one run's whose pass it is.
LEMMA RenderedFacts ==
  ASSUME SensibleDoc, DocInv, NEW r \in Runs, NEW who \in Doc!Askers
  PROVE  /\ Doc!Rendered(r, who) \in [stamp : Runs, shows : Registries]
         /\ Doc!Rendered(r, who) \in Stamped
         /\ Doc!Rendered(r, who).stamp = r /\ Doc!Rendered(r, who).shows = pass[r][who].checks
         /\ r # 0 /\ \A q \in Runs \ {r} : r \notin {0, q}
<1>1. pass[r][who] \in [pc : PassStages, checks : Registries]
  BY DEF DocInv, DocShapes
<1>2. r # 0
  BY DEF SensibleDoc
<1>3. QED
  BY <1>1, <1>2 DEF Doc!Rendered, Stamped

LEMMA ReadDocInv ==
  ASSUME SensibleDoc, DocInv, NEW r \in Runs, NEW who \in Doc!Askers, Doc!Read(r, who)
  PROVE  DocInv'
<1> DEFINE current == IF Readable THEN document ELSE written[r]
<1>1. /\ pass[r][who].pc = "reading" /\ pass[r][who] # Doc!NoPass
      /\ UNCHANGED <<document, late, checks, version, reporter, latch, written, astray>>
  BY DEF Doc!Read, Doc!NoPass
<1>2. Tracked'
  BY <1>1 DEF DocInv, Tracked
<1>3. ASSUME NEW settled \in BOOLEAN, Doc!End(r, who, settled),
             settled => current = Doc!Rendered(r, who)
      PROVE  DocInv'
  <2>1. /\ unsettled' \in [Runs -> BOOLEAN]
        /\ daemon' \in [Runs -> [pc : {"waiting", "woken", "settling", "due", "dead"}, before : Nat]]
        /\ runScope' \in [Runs -> {"open", "closing", "closed"}]
        /\ pass' \in [Runs -> [Doc!Askers -> [pc : PassStages, checks : Registries]]]
        /\ DocPhases' /\ PassesSee'
        /\ unsettled'[r] = ~settled
        /\ \A q \in Runs \ {r} : (Pending(q)' <=> Pending(q)) /\ unsettled'[q] = unsettled[q]
        /\ ~Pending(r)' => pass[r][who].checks = checks[r]
    BY <1>1, <1>3, EndFacts
  <2>2. DocShapes'
    BY <1>1, <2>1 DEF DocInv, DocShapes
  <2>3. ASSUME settled, ~astray[r], document.stamp \in {0, r}, ~Pending(r)'
        PROVE  document.shows = checks[r]
    <3>1. document = Doc!Rendered(r, who)
      BY <1>3, <2>3 DEF DocInv, Tracked
    <3>2. QED
      BY <2>1, <2>3, <3>1, RenderedFacts
  <2>4. Current'
    BY <1>1, <2>1, <2>3 DEF DocInv, Current
  <2>5. QED
    BY <1>2, <2>1, <2>2, <2>4 DEF DocInv
<1>4. ASSUME pass' = [pass EXCEPT ![r][who].pc = "writing"], UNCHANGED <<unsettled, daemon, runScope>>
      PROVE  DocInv'
  <2>1. /\ pass' \in [Runs -> [Doc!Askers -> [pc : PassStages, checks : Registries]]]
        /\ \A q \in Runs \ {r} : pass'[q] = pass[q]
        /\ \A any \in Doc!Askers \ {who} : pass'[r][any] = pass[r][any]
        /\ pass'[r][who].pc = "writing" /\ pass'[r][who].checks = pass[r][who].checks
        /\ pass'[r][who] # Doc!NoPass
    <3> DEFINE next == [pass[r][who] EXCEPT !.pc = "writing"]
    <3>1. pass \in [Runs -> [Doc!Askers -> [pc : PassStages, checks : Registries]]]
      BY DEF DocInv, DocShapes
    <3>2. pass' = [pass EXCEPT ![r] = [pass[r] EXCEPT ![who] = next]]
      BY <1>4
    <3>3. /\ next \in [pc : PassStages, checks : Registries]
          /\ next.pc = "writing" /\ next.checks = pass[r][who].checks
      BY <3>1 DEF PassStages
    <3>4. next # Doc!NoPass
      BY <3>3 DEF Doc!NoPass
    <3> HIDE DEF next
    <3>5. QED
      BY <3>1, <3>2, <3>3, <3>4
  <2>2. DocShapes'
    BY <1>1, <1>4, <2>1 DEF DocInv, DocShapes
  <2>3. \A q \in Runs : \A any \in Doc!Askers :
          (pass'[q][any] # Doc!NoPass <=> pass[q][any] # Doc!NoPass)
          /\ pass'[q][any].checks = pass[q][any].checks
    BY <1>1, <2>1
  <2>4. DocPhases'
    <3>1. \A q \in Runs \ {r} : DocPhase(q)'
      BY <1>1, <1>4, <2>1 DEF DocInv, DocPhases, DocPhase
    <3>2. \A any \in Doc!Askers : pass'[r][any] # Doc!NoPass => pass'[r][any].pc # "idle"
      BY <2>1 DEF DocInv, DocPhases, DocPhase
    <3>3. DocPhase(r)'
      BY <1>1, <1>4, <2>3, <3>2 DEF DocInv, DocPhases, DocPhase, Doc!Askers
    <3>4. QED
      BY <3>1, <3>3 DEF DocPhases
  <2>5. \A q \in Runs : (Pending(q)' <=> Pending(q)) /\ (Reported(q)' <=> Reported(q))
    BY <1>1, <1>4 DEF Pending, Reported
  <2>6. PassesSee'
    BY <1>1, <2>3, <2>5 DEF DocInv, PassesSee
  <2>7. Current'
    BY <1>1, <1>4, <2>5 DEF DocInv, Current
  <2>8. QED
    BY <1>2, <2>2, <2>4, <2>6, <2>7 DEF DocInv
<1>5. QED
  BY <1>3, <1>4 DEF Doc!Read

LEMMA WriteDocInv ==
  ASSUME SensibleDoc, DocInv, NEW r \in Runs, NEW who \in Doc!Askers, Doc!Write(r, who)
  PROVE  DocInv'
<1>1. /\ pass[r][who] # Doc!NoPass /\ document' = Doc!Rendered(r, who)
      /\ Doc!End(r, who, TRUE) /\ UNCHANGED <<late, checks, version, reporter, latch, astray>>
  <2>1. pass[r][who].pc = "writing" /\ Doc!NoPass.pc = "idle"
    BY DEF Doc!Write, Doc!NoPass
  <2>2. pass[r][who] # Doc!NoPass
    BY <2>1
  <2>3. /\ document' = Doc!Rendered(r, who) /\ Doc!End(r, who, TRUE)
        /\ UNCHANGED <<late, checks, version, reporter, latch, astray>>
    BY DEF Doc!Write
  <2>4. QED
    BY <2>2, <2>3
<1>2. /\ written' \in [Runs -> Stamped] /\ written'[r] = Doc!Rendered(r, who)
  BY RenderedFacts DEF Doc!Write, DocInv, DocShapes
<1>3. /\ unsettled' \in [Runs -> BOOLEAN]
      /\ daemon' \in [Runs -> [pc : {"waiting", "woken", "settling", "due", "dead"}, before : Nat]]
      /\ runScope' \in [Runs -> {"open", "closing", "closed"}]
      /\ pass' \in [Runs -> [Doc!Askers -> [pc : PassStages, checks : Registries]]]
      /\ DocPhases' /\ PassesSee'
      /\ ~Pending(r)' => pass[r][who].checks = checks[r]
  BY <1>1, EndFacts
<1>4. /\ document'.stamp = r /\ document'.shows = pass[r][who].checks /\ document' \in Stamped
      /\ \A q \in Runs \ {r} : document'.stamp \notin {0, q}
  BY <1>1, RenderedFacts
<1>5. DocShapes'
  BY <1>1, <1>2, <1>3, <1>4 DEF DocInv, DocShapes
<1>6. Tracked'
  BY <1>1, <1>2, <1>4 DEF DocInv, Tracked
<1>7. Current'
  BY <1>1, <1>3, <1>4 DEF Current
<1>8. QED
  BY <1>3, <1>5, <1>6, <1>7 DEF DocInv

\* What a pass that is given up may leave behind.
LEMMA GiveUpFacts ==
  ASSUME SensibleDoc, DocInv, NEW r \in Runs, NEW who \in Doc!Askers,
         Doc!GiveUp(r, who), UNCHANGED written
  PROVE  /\ document' \in Stamped /\ late' \subseteq [stamp : Runs, shows : Registries]
         /\ astray' \in [Runs -> BOOLEAN]
         /\ \A q \in Runs \ {r} :
              astray'[q] = astray[q] /\ (document'.stamp \in {0, q} => document' = document)
         /\ Tracked'
<1>1. CASE UNCHANGED <<document, late, astray>>
  BY <1>1 DEF DocInv, DocShapes, Tracked
<1>2. CASE /\ document' = Doc!Rendered(r, who) /\ UNCHANGED late
           /\ astray' = [astray EXCEPT ![r] = @ \/ ~Readable]
  <2>1. /\ astray' \in [Runs -> BOOLEAN] /\ \A q \in Runs \ {r} : astray'[q] = astray[q]
        /\ \A q \in Runs : astray[q] => astray'[q]
        /\ ~Readable => astray'[r]
    BY <1>2 DEF DocInv, DocShapes, SensibleDoc
  <2>2. document' \in Stamped /\ \A q \in Runs \ {r} : document'.stamp \notin {0, q}
    BY <1>2, RenderedFacts
  <2>3. \A w \in late : w.stamp \in Runs
    BY DEF DocInv, DocShapes
  <2>4. Tracked'
    BY <1>2, <2>1, <2>2, <2>3 DEF DocInv, Tracked
  <2>5. QED
    BY <1>2, <2>1, <2>2, <2>4 DEF DocInv, DocShapes
<1>3. CASE /\ late' = late \cup {Doc!Rendered(r, who)} /\ UNCHANGED document
           /\ astray' = [astray EXCEPT ![r] = TRUE]
  <2>1. /\ astray' \in [Runs -> BOOLEAN] /\ \A q \in Runs \ {r} : astray'[q] = astray[q]
        /\ \A q \in Runs : astray[q] => astray'[q]
        /\ astray'[r]
    BY <1>3 DEF DocInv, DocShapes
  <2>2. late' \subseteq [stamp : Runs, shows : Registries]
    BY <1>3, RenderedFacts DEF DocInv, DocShapes
  <2>3. \A w \in late' : astray'[w.stamp]
    BY <1>3, <2>1, RenderedFacts DEF DocInv, DocShapes, Tracked
  <2>4. Tracked'
    BY <1>3, <2>1, <2>3 DEF DocInv, Tracked
  <2>5. QED
    BY <1>3, <2>1, <2>2, <2>4 DEF DocInv, DocShapes
<1>4. QED
  BY <1>1, <1>2, <1>3 DEF Doc!GiveUp

LEMMA FailDocInv ==
  ASSUME SensibleDoc, DocInv, NEW r \in Runs, NEW who \in Doc!Askers, Doc!Fail(r, who)
  PROVE  DocInv'
<1>1. /\ pass[r][who] # Doc!NoPass /\ Doc!GiveUp(r, who) /\ Doc!End(r, who, FALSE)
      /\ UNCHANGED <<checks, version, reporter, latch>> /\ UNCHANGED written
  BY DEF Doc!Fail
<1>2. /\ unsettled' \in [Runs -> BOOLEAN]
      /\ daemon' \in [Runs -> [pc : {"waiting", "woken", "settling", "due", "dead"}, before : Nat]]
      /\ runScope' \in [Runs -> {"open", "closing", "closed"}]
      /\ pass' \in [Runs -> [Doc!Askers -> [pc : PassStages, checks : Registries]]]
      /\ DocPhases' /\ PassesSee'
      /\ unsettled'[r] = TRUE
      /\ \A q \in Runs \ {r} : (Pending(q)' <=> Pending(q)) /\ unsettled'[q] = unsettled[q]
  BY <1>1, EndFacts
<1>3. /\ document' \in Stamped /\ late' \subseteq [stamp : Runs, shows : Registries]
      /\ astray' \in [Runs -> BOOLEAN]
      /\ \A q \in Runs \ {r} :
           astray'[q] = astray[q] /\ (document'.stamp \in {0, q} => document' = document)
      /\ Tracked'
  BY <1>1, GiveUpFacts
<1>4. DocShapes'
  BY <1>1, <1>2, <1>3 DEF DocInv, DocShapes
<1>5. Current'
  <2>1. ASSUME NEW q \in Runs \ {r}, ~unsettled'[q], ~astray'[q], document'.stamp \in {0, q},
               ~Pending(q)'
        PROVE  document'.shows = checks'[q]
    BY <1>1, <1>2, <1>3, <2>1 DEF DocInv, Current
  <2>2. QED
    BY <1>2, <2>1 DEF Current
<1>6. QED
  BY <1>2, <1>3, <1>4, <1>5 DEF DocInv

LEMMA LandDocInv ==
  ASSUME SensibleDoc, DocInv, NEW w \in late, Doc!Land(w)
  PROVE  DocInv'
<1>1. /\ late' = late \ {w} /\ document' = w
      /\ UNCHANGED <<checks, version, reporter, latch, daemon, pass, written, runScope, unsettled, astray>>
  BY DEF Doc!Land
<1>2. w \in [stamp : Runs, shows : Registries] /\ astray[w.stamp]
  BY DEF DocInv, DocShapes, Tracked
<1>3. w \in Stamped /\ w.stamp \in Runs /\ w.stamp # 0
  BY <1>2 DEF Stamped, SensibleDoc
<1>4. DocShapes'
  BY <1>1, <1>3 DEF DocInv, DocShapes
<1>5. DocPhases' /\ PassesSee'
  BY <1>1 DEF DocInv, DocPhases, DocPhase, PassesSee, Pending, Reported
<1>6. Tracked' /\ Current'
  BY <1>1, <1>2, <1>3 DEF DocInv, Tracked, Current
<1>7. QED
  BY <1>4, <1>5, <1>6 DEF DocInv

LEMMA CloseDocInv ==
  ASSUME SensibleDoc, DocInv, NEW r \in Runs, Doc!Close(r)
  PROVE  DocInv'
<1>1. /\ runScope[r] = "open" /\ reporter[r] = "idle"
      /\ UNCHANGED <<checks, version, reporter, latch, written>>
  BY DEF Doc!Close
<1>2. /\ runScope' \in [Runs -> {"open", "closing", "closed"}] /\ runScope'[r] = "closing"
      /\ daemon' \in [Runs -> [pc : {"waiting", "woken", "settling", "due", "dead"}, before : Nat]]
      /\ daemon'[r].pc = "dead"
      /\ \A q \in Runs \ {r} : runScope'[q] = runScope[q] /\ daemon'[q] = daemon[q]
  BY DEF Doc!Close, DocInv, DocShapes
<1>3. "daemon" \in Doc!Askers /\ "finalizer" \in Doc!Askers /\ "caller" \in Doc!Askers
  BY DEF Doc!Askers
<1>4. /\ pass' \in [Runs -> [Doc!Askers -> [pc : PassStages, checks : Registries]]]
      /\ pass'[r]["daemon"] = Doc!NoPass
      /\ \A q \in Runs \ {r} : pass'[q] = pass[q]
      /\ \A any \in Doc!Askers \ {"daemon"} : pass'[r][any] = pass[r][any]
  <2>1. CASE pass[r]["daemon"] = Doc!NoPass
    BY <2>1 DEF Doc!Close, DocInv, DocShapes
  <2>2. CASE pass[r]["daemon"] # Doc!NoPass
    <3>1. pass' = [pass EXCEPT ![r]["daemon"] = Doc!NoPass]
      BY <2>2 DEF Doc!Close
    <3>2. Doc!NoPass \in [pc : PassStages, checks : Registries]
      BY DEF Doc!NoPass, PassStages, Registries
    <3>3. QED
      BY <1>3, <3>1, <3>2 DEF DocInv, DocShapes
  <2>3. QED
    BY <2>1, <2>2
<1>5. /\ document' \in Stamped /\ late' \subseteq [stamp : Runs, shows : Registries]
      /\ astray' \in [Runs -> BOOLEAN] /\ unsettled' \in [Runs -> BOOLEAN]
      /\ \A q \in Runs \ {r} :
           /\ astray'[q] = astray[q] /\ unsettled'[q] = unsettled[q]
           /\ document'.stamp \in {0, q} => document' = document
      /\ Tracked'
  <2>1. CASE pass[r]["daemon"] = Doc!NoPass
    <3>1. UNCHANGED <<document, late, astray, unsettled>>
      BY <2>1 DEF Doc!Close
    <3>2. QED
      BY <1>1, <3>1 DEF DocInv, DocShapes, Tracked
  <2>2. CASE pass[r]["daemon"] # Doc!NoPass
    <3>1. Doc!GiveUp(r, "daemon") /\ unsettled' = [unsettled EXCEPT ![r] = TRUE]
      BY <2>2 DEF Doc!Close
    <3>2. unsettled' \in [Runs -> BOOLEAN] /\ \A q \in Runs \ {r} : unsettled'[q] = unsettled[q]
      BY <3>1 DEF DocInv, DocShapes
    <3>3. QED
      BY <1>1, <1>3, <3>1, <3>2, GiveUpFacts
  <2>3. QED
    BY <2>1, <2>2
<1>6. DocShapes'
  BY <1>1, <1>2, <1>4, <1>5 DEF DocInv, DocShapes
<1>7. DocPhases'
  <2>1. ASSUME NEW q \in Runs \ {r} PROVE DocPhase(q)'
    <3>1. DocPhase(q)
      BY DEF DocInv, DocPhases
    <3>2. pass'[q] = pass[q] /\ daemon'[q] = daemon[q] /\ runScope'[q] = runScope[q]
          /\ reporter'[q] = reporter[q]
      BY <1>1, <1>2, <1>4
    <3>3. QED
      BY <3>1, <3>2 DEF DocPhase
  <2>2. \A any \in Doc!Askers : pass'[r][any] # Doc!NoPass => pass'[r][any] = pass[r][any]
    BY <1>4
  <2>3. DocPhase(r)
    BY DEF DocInv, DocPhases
  <2>4. DocPhase(r)'
    BY <1>1, <1>2, <1>4, <2>2, <2>3 DEF DocPhase
  <2>5. QED
    BY <2>1, <2>4 DEF DocPhases
<1>8. \A q \in Runs \ {r} : (Pending(q)' <=> Pending(q)) /\ (Reported(q)' <=> Reported(q))
  BY <1>1, <1>2 DEF Pending, Reported
<1>9. Pending(r)'
  BY <1>2 DEF Pending
<1>10. PassesSee'
  <2>1. \A q \in Runs \ {r} : \A who \in Doc!Askers :
          pass'[q][who] # Doc!NoPass /\ pass'[q][who].checks # checks'[q] =>
            /\ who # "finalizer" /\ Pending(q)'
            /\ who = "daemon" => Reported(q)'
    BY <1>1, <1>4, <1>8 DEF DocInv, PassesSee
  <2>2. \A who \in Doc!Askers :
          pass'[r][who] # Doc!NoPass /\ pass'[r][who].checks # checks'[r] =>
            who # "finalizer" /\ who # "daemon"
    BY <1>1, <1>3, <1>4 DEF DocInv, PassesSee
  <2>3. QED
    BY <1>9, <2>1, <2>2 DEF PassesSee
<1>11. Current'
  <2>1. ASSUME NEW q \in Runs \ {r}, ~unsettled'[q], ~astray'[q], document'.stamp \in {0, q},
               ~Pending(q)'
        PROVE  document'.shows = checks'[q]
    BY <1>1, <1>5, <1>8, <2>1 DEF DocInv, Current
  <2>2. QED
    BY <1>9, <2>1 DEF Current
<1>12. QED
  BY <1>5, <1>6, <1>7, <1>10, <1>11 DEF DocInv

LEMMA NextDocInv == ASSUME SensibleDoc, DocInv, [Doc!Next]_(Doc!vars) PROVE DocInv'
<1>1. ASSUME NEW r \in Runs,
             \/ \E s \in States : Doc!Report(r, s)
             \/ Doc!Count(r) \/ Doc!Open(r) \/ Doc!Wake(r) \/ Doc!CloseLatch(r)
             \/ Doc!Sleep(r) \/ Doc!Close(r)
      PROVE  DocInv'
  BY <1>1, ReportDocInv, DaemonDocInv, CloseDocInv
<1>2. ASSUME NEW r \in Runs, NEW who \in Doc!Askers,
             Doc!Begin(r, who) \/ Doc!Read(r, who) \/ Doc!Write(r, who) \/ Doc!Fail(r, who)
      PROVE  DocInv'
  BY <1>2, BeginDocInv, ReadDocInv, WriteDocInv, FailDocInv
<1>3. ASSUME NEW w \in late, Doc!Land(w) PROVE DocInv'
  BY <1>3, LandDocInv
<1>4. CASE UNCHANGED Doc!vars
  BY <1>4 DEF Doc!vars, DocInv, DocShapes, DocPhases, DocPhase, PassesSee, Tracked, Current, Pending, Reported
<1>5. QED
  BY <1>1, <1>2, <1>3, <1>4 DEF Doc!Next

\* A run that has come to rest shows its last report, for any runs, states and
\* number of reports, whether the sink has a read or not: whenever reports come
\* between the daemon's steps and whoever flushes meanwhile; unless its last
\* pass failed or was stale, another run wrote, or a write that the run gave up
\* landed behind its back (CheckDocument.make).
THEOREM RestShowsLast ==
  ASSUME SensibleDoc
  PROVE  Doc!Spec => [](Doc!TypeOK /\ Doc!DocumentIsCurrent)
<1>1. Doc!Init => DocInv
  BY InitDocInv
<1>2. DocInv /\ [Doc!Next]_(Doc!vars) => DocInv'
  BY NextDocInv
<1>3. DocInv => Doc!TypeOK
  <2> SUFFICES ASSUME DocInv PROVE Doc!TypeOK
    OBVIOUS
  <2>1. document \in [stamp : Runs \cup {0}, shows : States \cup {Fresh}]
    BY DEF DocInv, DocShapes, Stamped, Registries
  <2>2. QED
    BY <2>1 DEF Doc!TypeOK, DocInv, DocPhases, DocPhase
<1>4. DocInv => Doc!DocumentIsCurrent
  <2> SUFFICES ASSUME DocInv, NEW r \in Runs, Doc!AtRest(r) PROVE ~Pending(r)
    BY DEF Doc!DocumentIsCurrent, DocInv, Current
  <2>1. QED
    BY DEF Doc!AtRest, Pending, Reported, DocInv, DocPhases, DocPhase
<1>5. QED
  BY <1>1, <1>2, <1>3, <1>4, PTL DEF Doc!Spec

----------------------------------------------------------------------------
(* The key resolver.                                                        *)

CONSTANTS Fibers, Resolvers, ResolverOf, Ttl, MinRefetch, MayFail, MaxGeneration, MaxTime
VARIABLES time, since, store, attempt, last, fiber, fetched, failed

Jwks == INSTANCE JwksResolver WITH clock <- time, MaxClock <- MaxTime

\* The resolver counts as everybody does.
LEMMA KeysCount == ASSUME NEW S PROVE Jwks!Cardinality(S) = Cardinality(S)
  BY DEF Jwks!Cardinality, Cardinality

Sets == [generation : Nat \ {0}, at : Nat \ {0}, ended : Nat]
Holding == {"locked", "fetching", "saving"}
FiberStages == {"idle", "reading", "waiting", "accepted", "refused"} \cup Holding
Fiber == [pc : FiberStages, kid : Nat, now : Nat, knew : Int, set : Sets \cup {Jwks!NoSet}]
Times(r) == {set.at : set \in fetched[r]} \cup failed[r]

\* What the constants are: the layer refuses durations that are not positive.
SensibleKeys ==
  /\ Ttl \in Nat \ {0} /\ MinRefetch \in Nat \ {0}
  /\ MaxTime \in Nat \ {0} /\ MaxGeneration \in Nat \ {0}
  /\ ResolverOf \in [Fibers -> Resolvers]

KeyShapes ==
  /\ time \in 1..MaxTime
  /\ Jwks!Generation \in Nat \ {0} /\ since \in [1..Jwks!Generation -> 1..time]
  /\ attempt \in [Resolvers -> Int] /\ last \in [Resolvers -> Sets \cup {Jwks!NoSet}]
  /\ fetched \in [Resolvers -> SUBSET Sets] /\ failed \in [Resolvers -> SUBSET Nat]
  /\ store \subseteq UNION {fetched[r] : r \in Resolvers}
  /\ fiber \in [Fibers -> Fiber]
  /\ \A c \in Fibers :
       /\ fiber[c].now <= time /\ fiber[c].knew <= fiber[c].now
       /\ fiber[c].pc # "idle" => fiber[c].kid # 0 /\ fiber[c].now # 0

\* A set holds what the issuer had when the response came: no later generation
\* had come up by then.
True(set) ==
  /\ set.at <= set.ended /\ set.ended <= time
  /\ set.generation <= Jwks!Generation
  /\ \A g \in 1..Jwks!Generation : g > set.generation => since[g] >= set.ended
Truthful == \A r \in Resolvers : \A set \in fetched[r] : True(set)

\* The fetches of a resolver follow one another: its copy is the newest.
OneLocked ==
  \A c, d \in Fibers :
    fiber[c].pc \in Holding /\ fiber[d].pc \in Holding /\ ResolverOf[c] = ResolverOf[d] => c = d
NewestLast ==
  /\ \A r \in Resolvers :
       /\ last[r] \in fetched[r] \cup {Jwks!NoSet}
       /\ \A set \in fetched[r] : set.at <= last[r].at
  /\ \A c \in Fibers :
       /\ fiber[c].knew <= last[ResolverOf[c]].at
       /\ fiber[c].pc = "saving" =>
            fiber[c].set \in fetched[ResolverOf[c]] /\ fiber[c].set.at = fiber[c].now

\* The attempt on record is the one under way, or the last there was.
Busy(r) == \E c \in Fibers : ResolverOf[c] = r /\ fiber[c].pc = "fetching"
OnRecord ==
  \A r \in Resolvers :
    /\ attempt[r] <= time
    /\ \A t \in Times(r) : t <= attempt[r]
    /\ ~Busy(r) => attempt[r] \in Times(r) \cup {Jwks!Never}
    /\ \A c \in Fibers : ResolverOf[c] = r /\ fiber[c].pc = "fetching" =>
         attempt[r] = fiber[c].now /\ \A t \in Times(r) : fiber[c].now - t >= MinRefetch

KeysInv == KeyShapes /\ Truthful /\ OneLocked /\ NewestLast /\ OnRecord
----------------------------------------------------------------------------
LEMMA NeverFacts ==
  ASSUME SensibleKeys
  PROVE  /\ Jwks!Never \in Int /\ Jwks!Never < 0 /\ -Jwks!Never \in Nat
         /\ \A n \in Nat : n - Jwks!Never >= MinRefetch /\ n - Jwks!Never >= Ttl
         /\ Jwks!NoSet.at = Jwks!Never /\ Jwks!NoSet.ended = Jwks!Never /\ Jwks!NoSet.generation = 0
BY DEF SensibleKeys, Jwks!Never, Jwks!NoSet

\* Every set the store can answer with is fresh, and was fetched by someone.
LEMMA StoredSets ==
  ASSUME KeysInv, NEW now, NEW set \in Jwks!StoredFor(now)
  PROVE  \/ set = Jwks!NoSet
         \/ set \in Sets /\ True(set) /\ Jwks!Fresh(set, now)
<1>1. CASE set \in store
  <2>1. PICK r \in Resolvers : set \in fetched[r]
    BY <1>1 DEF KeysInv, KeyShapes
  <2>2. set \in Sets /\ True(set)
    BY <2>1 DEF KeysInv, KeyShapes, Truthful
  <2>3. QED
    BY <2>2 DEF Jwks!StoredFor
<1>2. QED
  BY <1>1 DEF Jwks!StoredFor

\* The set that is consulted.
LEMMA Consulted ==
  ASSUME SensibleKeys, KeysInv, NEW r \in Resolvers, NEW now \in Nat, NEW stored \in Jwks!StoredFor(now)
  PROVE  LET set == Jwks!Newest(stored, Jwks!LastFor(r, now)) IN
         /\ set \in Sets \cup {Jwks!NoSet}
         /\ set # Jwks!NoSet => True(set) /\ Jwks!Fresh(set, now)
         /\ set.at >= stored.at
         /\ set # Jwks!NoSet => set.at >= last[r].at
         /\ Jwks!Fresh(last[r], now) => set.at >= last[r].at
<1> DEFINE own == Jwks!LastFor(r, now)
           set == Jwks!Newest(stored, own)
<1>1. stored = Jwks!NoSet \/ (stored \in Sets /\ True(stored) /\ Jwks!Fresh(stored, now))
  BY StoredSets
<1>2. own = Jwks!NoSet \/ (own = last[r] /\ own \in Sets /\ True(own) /\ Jwks!Fresh(own, now))
  <2>1. CASE last[r] = Jwks!NoSet
    BY <2>1 DEF Jwks!LastFor
  <2>2. CASE last[r] # Jwks!NoSet
    <3>1. last[r] \in fetched[r] /\ last[r] \in Sets
      BY <2>2 DEF KeysInv, NewestLast, KeyShapes
    <3>2. True(last[r])
      BY <3>1 DEF KeysInv, Truthful
    <3>3. QED
      BY <3>1, <3>2 DEF Jwks!LastFor
  <2>3. QED
    BY <2>1, <2>2
<1>3. stored.at \in Int /\ own.at \in Int /\ last[r].at \in Int
  <2>1. \A x \in Sets \cup {Jwks!NoSet} : x.at \in Int
    BY NeverFacts DEF Sets
  <2>2. stored \in Sets \cup {Jwks!NoSet} /\ own \in Sets \cup {Jwks!NoSet} /\ last[r] \in Sets \cup {Jwks!NoSet}
    BY <1>1, <1>2 DEF KeysInv, KeyShapes
  <2>3. QED
    BY <2>1, <2>2
<1>4. set = (IF stored.at > own.at THEN stored ELSE own)
  BY DEF Jwks!Newest
<1>5. ~Jwks!Fresh(last[r], now) => now - last[r].at >= Ttl
  BY <1>3 DEF Jwks!Fresh, SensibleKeys
<1>6. Jwks!Fresh(last[r], now) => own = last[r]
  BY DEF Jwks!LastFor
<1>7. set # Jwks!NoSet /\ ~Jwks!Fresh(last[r], now) => set.at >= last[r].at
  <2> SUFFICES ASSUME set # Jwks!NoSet, ~Jwks!Fresh(last[r], now) PROVE set.at >= last[r].at
    OBVIOUS
  <2>1. own = Jwks!NoSet
    BY DEF Jwks!LastFor
  <2>2. set = stored
    BY <1>4, <2>1
  <2>3. now - stored.at < Ttl
    BY <1>1, <2>2 DEF Jwks!Fresh
  <2>4. QED
    BY <1>3, <1>5, <2>2, <2>3 DEF SensibleKeys
<1>8. set \in {stored, own} /\ set.at >= stored.at /\ set.at >= own.at
  BY <1>3, <1>4
<1>9. set \in Sets \cup {Jwks!NoSet} /\ (set # Jwks!NoSet => True(set) /\ Jwks!Fresh(set, now))
  BY <1>1, <1>2, <1>8
<1>10. Jwks!Fresh(last[r], now) => set.at >= last[r].at
  BY <1>6, <1>8
<1> HIDE DEF set, own
<1>11. QED
  BY <1>7, <1>8, <1>9, <1>10 DEF set, own

\* What a resolver knew when a caller asked.
LEMMA LatestIsLast ==
  ASSUME SensibleKeys, KeysInv, NEW r \in Resolvers
  PROVE  Jwks!LatestFetch(r) = last[r].at
<1> DEFINE S == {Jwks!Never} \cup {set.at : set \in fetched[r]}
<1>1. last[r].at \in S
  BY NeverFacts DEF KeysInv, NewestLast
<1>2. \A t \in S : t \in Int
  BY NeverFacts DEF KeysInv, KeyShapes, Sets
<1>3. \A t \in S : t <= last[r].at
  <2>1. \A set \in fetched[r] : set.at <= last[r].at
    BY DEF KeysInv, NewestLast
  <2>2. Jwks!Never <= last[r].at
    <3>1. \A x \in Sets \cup {Jwks!NoSet} : Jwks!Never <= x.at
      BY NeverFacts DEF Sets
    <3>2. QED
      BY <3>1 DEF KeysInv, KeyShapes
  <2>3. QED
    BY <2>1, <2>2
<1>4. \A t \in S : (\A u \in S : t >= u) => t = last[r].at
  <2> SUFFICES ASSUME NEW t \in S, \A u \in S : t >= u PROVE t = last[r].at
    OBVIOUS
  <2>1. t >= last[r].at /\ t <= last[r].at /\ t \in Int /\ last[r].at \in Int
    BY <1>1, <1>2, <1>3
  <2>2. QED
    BY <2>1
<1>5. last[r].at \in S /\ \A u \in S : last[r].at >= u
  BY <1>1, <1>2, <1>3
<1>6. Jwks!LatestFetch(r) = CHOOSE t \in S : \A u \in S : t >= u
  BY DEF Jwks!LatestFetch, Jwks!Max
<1> HIDE DEF S
<1>7. QED
  BY <1>4, <1>5, <1>6
LEMMA InitKeysInv == ASSUME SensibleKeys PROVE Jwks!Init => KeysInv
<1> SUFFICES ASSUME Jwks!Init PROVE KeysInv
  OBVIOUS
<1>1. Jwks!Generation = 1 /\ since \in [1..1 -> 1..1]
  <2>1. DOMAIN since = {1}
    BY DEF Jwks!Init
  <2>2. Cardinality({1}) = 1
    BY FS_Singleton
  <2>3. QED
    BY <2>1, <2>2, KeysCount DEF Jwks!Generation, Jwks!Init
<1>2. Jwks!NoSet \in Sets \cup {Jwks!NoSet} /\ Jwks!Idle \in Fiber
  BY NeverFacts DEF Jwks!Idle, Fiber, FiberStages
<1>3. Jwks!Idle.pc = "idle" /\ Jwks!Idle.now = 0 /\ Jwks!Idle.knew = Jwks!Never /\ Jwks!Never <= 0
  BY NeverFacts DEF Jwks!Idle
<1>4. KeyShapes
  BY <1>1, <1>2, <1>3, NeverFacts DEF Jwks!Init, KeyShapes, SensibleKeys
<1>5. Truthful
  BY DEF Jwks!Init, Truthful
<1>6. OneLocked
  BY <1>3 DEF Jwks!Init, OneLocked, Holding
<1>7. NewestLast
  BY <1>3, NeverFacts DEF Jwks!Init, NewestLast, SensibleKeys
<1>8. \A r \in Resolvers : Times(r) = {}
  BY DEF Jwks!Init, Times
<1>9. OnRecord
  BY <1>3, <1>8, NeverFacts DEF Jwks!Init, OnRecord
<1>10. QED
  BY <1>4, <1>5, <1>6, <1>7, <1>9 DEF KeysInv
----------------------------------------------------------------------------
(* What the steps of a fiber do.                                           *)

\* A set is as true as it was while the issuer does not rotate.
LEMMA TrueKept ==
  ASSUME UNCHANGED since, time' >= time, time \in Int, time' \in Int,
         NEW set, set.ended \in Int, set.at \in Int, True(set)
  PROVE  True(set)'
BY DEF True, Jwks!Generation

\* A fiber's move that fetches nothing.
LEMMA MoveKeysInv ==
  ASSUME SensibleKeys, KeysInv, NEW c \in Fibers, NEW f \in Fiber,
         fiber' = [fiber EXCEPT ![c] = f],
         UNCHANGED <<time, since, attempt, last, fetched, failed>>,
         store' \subseteq UNION {fetched[r] : r \in Resolvers},
         f.now <= time, f.knew <= f.now, f.knew <= last[ResolverOf[c]].at,
         f.pc # "idle" => f.kid # 0 /\ f.now # 0,
         fiber[c].pc # "fetching", f.pc \notin {"fetching", "saving"},
         f.pc \in Holding => ~Jwks!Locked(ResolverOf[c])
  PROVE  KeysInv'
<1>1. fiber'[c] = f /\ \A d \in Fibers \ {c} : fiber'[d] = fiber[d]
  BY DEF KeysInv, KeyShapes
<1>2. KeyShapes'
  BY <1>1 DEF KeysInv, KeyShapes, Jwks!Generation
<1>3. Truthful'
  BY DEF KeysInv, Truthful, True, Jwks!Generation
<1>4. OneLocked'
  <2> SUFFICES ASSUME NEW a \in Fibers, NEW b \in Fibers, a # b, ResolverOf[a] = ResolverOf[b],
                      fiber'[a].pc \in Holding, fiber'[b].pc \in Holding
               PROVE  FALSE
    BY DEF OneLocked
  <2>1. CASE a # c /\ b # c
    BY <1>1, <2>1 DEF KeysInv, OneLocked
  <2>2. CASE a = c
    BY <1>1, <2>2 DEF Jwks!Locked, Holding
  <2>3. CASE b = c
    BY <1>1, <2>3 DEF Jwks!Locked, Holding
  <2>4. QED
    BY <2>1, <2>2, <2>3
<1>5. NewestLast'
  BY <1>1 DEF KeysInv, NewestLast
<1>6. OnRecord'
  <2>1. \A r \in Resolvers : Times(r)' = Times(r)
    BY DEF Times
  <2>2. \A r \in Resolvers : Busy(r)' <=> Busy(r)
    BY <1>1 DEF Busy
  <2>3. QED
    BY <1>1, <2>1, <2>2 DEF KeysInv, OnRecord
<1>7. QED
  BY <1>2, <1>3, <1>4, <1>5, <1>6 DEF KeysInv

\* What is consulted stays what the fiber remembers of it.
LEMMA FiberFacts ==
  ASSUME SensibleKeys, KeysInv, NEW c \in Fibers
  PROVE  /\ fiber[c] \in Fiber /\ ResolverOf[c] \in Resolvers
         /\ fiber[c].now \in Nat /\ fiber[c].now <= time
         /\ fiber[c].knew \in Int /\ fiber[c].knew <= fiber[c].now
         /\ fiber[c].knew <= last[ResolverOf[c]].at
         /\ last[ResolverOf[c]].at \in Int /\ last[ResolverOf[c]].at <= time
         /\ time \in Nat
<1>1. fiber[c] \in Fiber /\ ResolverOf[c] \in Resolvers /\ time \in Nat
  BY DEF SensibleKeys, KeysInv, KeyShapes
<1>2. last[ResolverOf[c]].at \in Int /\ last[ResolverOf[c]].at <= time
  <2>1. CASE last[ResolverOf[c]] = Jwks!NoSet
    BY <1>1, <2>1, NeverFacts
  <2>2. CASE last[ResolverOf[c]] # Jwks!NoSet
    <3>1. last[ResolverOf[c]] \in fetched[ResolverOf[c]]
      BY <1>1, <2>2 DEF KeysInv, NewestLast
    <3>2. last[ResolverOf[c]] \in Sets /\ True(last[ResolverOf[c]])
      BY <1>1, <3>1 DEF KeysInv, Truthful, KeyShapes
    <3>3. QED
      BY <1>1, <3>2 DEF Sets, True
  <2>3. QED
    BY <2>1, <2>2
<1>3. QED
  BY <1>1, <1>2 DEF Fiber, KeysInv, KeyShapes, NewestLast

LEMMA AskKeysInv ==
  ASSUME SensibleKeys, KeysInv, NEW c \in Fibers, NEW kid \in Jwks!Kids, Jwks!Ask(c, kid)
  PROVE  KeysInv'
<1> DEFINE f == [Jwks!Idle EXCEPT !.pc = "reading", !.kid = kid, !.now = time,
                             !.knew = Jwks!LatestFetch(ResolverOf[c])]
<1>1. Jwks!LatestFetch(ResolverOf[c]) = last[ResolverOf[c]].at
  BY FiberFacts, LatestIsLast
<1>2. /\ f.pc = "reading" /\ f.kid = kid /\ f.now = time /\ f.knew = last[ResolverOf[c]].at
      /\ f.set = Jwks!NoSet /\ DOMAIN f = {"pc", "kid", "now", "knew", "set"}
  BY <1>1 DEF Jwks!Idle
<1>3. kid \in Nat /\ kid # 0
  BY DEF Jwks!Kids, SensibleKeys
<1>4. f \in Fiber
  BY <1>1, <1>3, FiberFacts DEF Jwks!Idle, Fiber, FiberStages
<1>5. fiber' = [fiber EXCEPT ![c] = f] /\ Jwks!Unchanged /\ fiber[c].pc # "fetching"
  BY DEF Jwks!Ask
<1> HIDE DEF f
<1>6. UNCHANGED <<time, since, attempt, last, fetched, failed>>
      /\ store' \subseteq UNION {fetched[r] : r \in Resolvers}
  BY <1>5 DEF Jwks!Unchanged, KeysInv, KeyShapes
<1>7. f.now <= time /\ f.knew <= f.now /\ f.knew <= last[ResolverOf[c]].at /\ f.now # 0
  BY <1>2, FiberFacts DEF KeysInv, KeyShapes
<1>8. QED
  BY <1>2, <1>3, <1>4, <1>5, <1>6, <1>7, MoveKeysInv DEF Holding

LEMMA LookKeysInv ==
  ASSUME SensibleKeys, KeysInv, NEW c \in Fibers, Jwks!Look(c)
  PROVE  KeysInv'
<1>1. PICK stored \in Jwks!StoredFor(fiber[c].now) :
        LET set == Jwks!Newest(stored, Jwks!LastFor(ResolverOf[c], fiber[c].now))
        IN  fiber' = [fiber EXCEPT ![c].pc = IF Jwks!HasKey(set, fiber[c].kid)
                                             THEN "accepted" ELSE "waiting",
                                   ![c].set = set]
  BY DEF Jwks!Look
<1> DEFINE set == Jwks!Newest(stored, Jwks!LastFor(ResolverOf[c], fiber[c].now))
           pc == IF Jwks!HasKey(set, fiber[c].kid) THEN "accepted" ELSE "waiting"
           f == [fiber[c] EXCEPT !.pc = pc, !.set = set]
<1>2. set \in Sets \cup {Jwks!NoSet}
  BY FiberFacts, Consulted
<1>3. pc \in {"accepted", "waiting"}
  OBVIOUS
<1>4. fiber' = [fiber EXCEPT ![c] = f]
  BY <1>1 DEF KeysInv, KeyShapes
<1>5. fiber[c].pc = "reading" /\ Jwks!Unchanged
  BY DEF Jwks!Look
<1> HIDE DEF set, pc
<1>6. /\ f \in Fiber /\ f.pc = pc /\ f.kid = fiber[c].kid /\ f.now = fiber[c].now
      /\ f.knew = fiber[c].knew
  BY <1>2, <1>3, FiberFacts DEF Fiber, FiberStages
<1> HIDE DEF f
<1>7. UNCHANGED <<time, since, attempt, last, fetched, failed>>
      /\ store' \subseteq UNION {fetched[r] : r \in Resolvers}
  BY <1>5 DEF Jwks!Unchanged, KeysInv, KeyShapes
<1>8. f.now <= time /\ f.knew <= f.now /\ f.knew <= last[ResolverOf[c]].at
      /\ f.kid # 0 /\ f.now # 0
  BY <1>5, <1>6, FiberFacts DEF KeysInv, KeyShapes
<1>9. QED
  BY <1>3, <1>4, <1>5, <1>6, <1>7, <1>8, MoveKeysInv DEF Holding

LEMMA LockKeysInv ==
  ASSUME SensibleKeys, KeysInv, NEW c \in Fibers, Jwks!Lock(c)
  PROVE  KeysInv'
<1> DEFINE f == [fiber[c] EXCEPT !.pc = "locked", !.now = time,
                                 !.knew = Jwks!LatestFetch(ResolverOf[c])]
<1>1. Jwks!LatestFetch(ResolverOf[c]) = last[ResolverOf[c]].at
  BY FiberFacts, LatestIsLast
<1>2. fiber' = [fiber EXCEPT ![c] = f]
  BY DEF Jwks!Lock, KeysInv, KeyShapes
<1>3. fiber[c].pc = "waiting" /\ Jwks!Unchanged /\ ~Jwks!Locked(ResolverOf[c])
  BY DEF Jwks!Lock
<1>4. /\ f \in Fiber /\ f.pc = "locked" /\ f.kid = fiber[c].kid /\ f.now = time
      /\ f.knew = last[ResolverOf[c]].at
  BY <1>1, FiberFacts DEF Fiber, FiberStages, Holding
<1> HIDE DEF f
<1>5. UNCHANGED <<time, since, attempt, last, fetched, failed>>
      /\ store' \subseteq UNION {fetched[r] : r \in Resolvers}
  BY <1>3 DEF Jwks!Unchanged, KeysInv, KeyShapes
<1>6. f.now <= time /\ f.knew <= f.now /\ f.knew <= last[ResolverOf[c]].at
      /\ f.kid # 0 /\ f.now # 0
  BY <1>3, <1>4, FiberFacts DEF KeysInv, KeyShapes
<1>7. QED
  BY <1>2, <1>3, <1>4, <1>5, <1>6, MoveKeysInv

LEMMA InterruptKeysInv ==
  ASSUME SensibleKeys, KeysInv, NEW c \in Fibers, Jwks!Interrupt(c)
  PROVE  KeysInv'
<1>1. /\ Jwks!Idle \in Fiber /\ Jwks!Idle.pc = "idle" /\ Jwks!Idle.now = 0 /\ Jwks!Idle.knew = Jwks!Never
      /\ Jwks!Never <= 0 /\ Jwks!Never \in Int
  BY NeverFacts DEF Jwks!Idle, Fiber, FiberStages
<1>2. Jwks!Never <= last[ResolverOf[c]].at
  <2>1. \A x \in Sets \cup {Jwks!NoSet} : Jwks!Never <= x.at
    BY NeverFacts DEF Sets
  <2>2. QED
    BY <2>1, FiberFacts DEF KeysInv, KeyShapes
<1>3. UNCHANGED <<time, since, attempt, last, fetched, failed>>
      /\ store' \subseteq UNION {fetched[r] : r \in Resolvers}
  BY DEF Jwks!Interrupt, Jwks!Unchanged, KeysInv, KeyShapes
<1>4. fiber' = [fiber EXCEPT ![c] = Jwks!Idle] /\ fiber[c].pc # "fetching" /\ 0 <= time
  BY FiberFacts DEF Jwks!Interrupt
<1>5. QED
  BY <1>1, <1>2, <1>3, <1>4, MoveKeysInv DEF Holding

LEMMA SaveKeysInv ==
  ASSUME SensibleKeys, KeysInv, NEW c \in Fibers, Jwks!Save(c)
  PROVE  KeysInv'
<1> DEFINE pc == IF Jwks!HasKey(fiber[c].set, fiber[c].kid) THEN "accepted" ELSE "refused"
           f == [fiber[c] EXCEPT !.pc = pc]
<1>1. pc \in {"accepted", "refused"}
  OBVIOUS
<1>2. fiber' = [fiber EXCEPT ![c] = f] /\ fiber[c].pc = "saving"
  BY DEF Jwks!Save, KeysInv, KeyShapes
<1>3. UNCHANGED <<time, since, attempt, last, fetched, failed>>
  BY DEF Jwks!Save
<1>4. store' \subseteq UNION {fetched[r] : r \in Resolvers}
  <2>1. fiber[c].set \in fetched[ResolverOf[c]]
    BY <1>2 DEF KeysInv, NewestLast
  <2>2. fiber[c].set \in UNION {fetched[r] : r \in Resolvers}
    BY <2>1, FiberFacts
  <2>3. QED
    BY <2>2 DEF Jwks!Save, KeysInv, KeyShapes
<1> HIDE DEF pc
<1>5. /\ f \in Fiber /\ f.pc = pc /\ f.kid = fiber[c].kid /\ f.now = fiber[c].now
      /\ f.knew = fiber[c].knew
  BY <1>1, FiberFacts DEF Fiber, FiberStages
<1> HIDE DEF f
<1>6. f.now <= time /\ f.knew <= f.now /\ f.knew <= last[ResolverOf[c]].at
      /\ f.kid # 0 /\ f.now # 0
  BY <1>2, <1>5, FiberFacts DEF KeysInv, KeyShapes
<1>7. QED
  BY <1>1, <1>2, <1>3, <1>4, <1>5, <1>6, MoveKeysInv DEF Holding

\* The three ways a look under the lock can end.
LEMMA RecheckCases ==
  ASSUME SensibleKeys, KeysInv, NEW c \in Fibers, Jwks!Recheck(c)
  PROVE  \E stored \in Jwks!StoredFor(fiber[c].now) :
           LET r == ResolverOf[c]
               now == fiber[c].now
               set == Jwks!Newest(stored, Jwks!LastFor(r, now))
           IN  \/ /\ Jwks!HasKey(set, fiber[c].kid) /\ UNCHANGED attempt
                  /\ fiber' = [fiber EXCEPT ![c] = [fiber[c] EXCEPT !.pc = "accepted", !.set = set]]
               \/ /\ ~Jwks!HasKey(set, fiber[c].kid) /\ Jwks!Gated(r, stored, now) /\ UNCHANGED attempt
                  /\ fiber' = [fiber EXCEPT ![c] = [fiber[c] EXCEPT !.pc = "refused", !.set = set]]
               \/ /\ ~Jwks!HasKey(set, fiber[c].kid) /\ ~Jwks!Gated(r, stored, now)
                  /\ attempt' = [attempt EXCEPT ![r] = now]
                  /\ fiber' = [fiber EXCEPT ![c] = [fiber[c] EXCEPT !.pc = "fetching", !.set = set]]
<1> DEFINE r == ResolverOf[c]
           now == fiber[c].now
           Set(stored) == Jwks!Newest(stored, Jwks!LastFor(r, now))
<1>1. PICK stored \in Jwks!StoredFor(now) :
        /\ fiber' = [fiber EXCEPT ![c].set = Set(stored),
                                  ![c].pc = IF Jwks!HasKey(Set(stored), fiber[c].kid) THEN "accepted"
                                            ELSE IF Jwks!Gated(r, stored, now) THEN "refused"
                                            ELSE "fetching"]
        /\ attempt' = IF Jwks!HasKey(Set(stored), fiber[c].kid) THEN attempt
                      ELSE [attempt EXCEPT ![r] = Jwks!AttemptAfter(r, now, Jwks!Gated(r, stored, now))]
  BY DEF Jwks!Recheck
<1>2. fiber \in [Fibers -> Fiber] /\ attempt \in [Resolvers -> Int] /\ r \in Resolvers
  BY FiberFacts DEF KeysInv, KeyShapes
<1>3. fiber[c] \in Fiber
  BY <1>2
<1> HIDE DEF Set
<1>4. CASE Jwks!HasKey(Set(stored), fiber[c].kid)
  <2>1. fiber' = [fiber EXCEPT ![c] = [fiber[c] EXCEPT !.pc = "accepted", !.set = Set(stored)]]
    BY <1>1, <1>2, <1>3, <1>4 DEF Fiber
  <2>2. QED
    BY <1>1, <1>4, <2>1 DEF Set
<1>5. CASE ~Jwks!HasKey(Set(stored), fiber[c].kid) /\ Jwks!Gated(r, stored, now)
  <2>1. fiber' = [fiber EXCEPT ![c] = [fiber[c] EXCEPT !.pc = "refused", !.set = Set(stored)]]
    BY <1>1, <1>2, <1>3, <1>5 DEF Fiber
  <2>2. attempt' = attempt
    BY <1>1, <1>2, <1>5 DEF Jwks!AttemptAfter
  <2>3. QED
    BY <1>5, <2>1, <2>2 DEF Set
<1>6. CASE ~Jwks!HasKey(Set(stored), fiber[c].kid) /\ ~Jwks!Gated(r, stored, now)
  <2>1. fiber' = [fiber EXCEPT ![c] = [fiber[c] EXCEPT !.pc = "fetching", !.set = Set(stored)]]
    BY <1>1, <1>2, <1>3, <1>6 DEF Fiber
  <2>2. attempt' = [attempt EXCEPT ![r] = now]
    BY <1>1, <1>6 DEF Jwks!AttemptAfter
  <2>3. QED
    BY <1>6, <2>1, <2>2 DEF Set
<1>7. QED
  BY <1>4, <1>5, <1>6

LEMMA RecheckKeysInv ==
  ASSUME SensibleKeys, KeysInv, NEW c \in Fibers, Jwks!Recheck(c)
  PROVE  KeysInv'
<1> DEFINE r == ResolverOf[c]
           now == fiber[c].now
<1>1. PICK stored \in Jwks!StoredFor(now) :
        LET set == Jwks!Newest(stored, Jwks!LastFor(r, now))
        IN  \/ /\ Jwks!HasKey(set, fiber[c].kid) /\ UNCHANGED attempt
               /\ fiber' = [fiber EXCEPT ![c] = [fiber[c] EXCEPT !.pc = "accepted", !.set = set]]
            \/ /\ ~Jwks!HasKey(set, fiber[c].kid) /\ Jwks!Gated(r, stored, now) /\ UNCHANGED attempt
               /\ fiber' = [fiber EXCEPT ![c] = [fiber[c] EXCEPT !.pc = "refused", !.set = set]]
            \/ /\ ~Jwks!HasKey(set, fiber[c].kid) /\ ~Jwks!Gated(r, stored, now)
               /\ attempt' = [attempt EXCEPT ![r] = now]
               /\ fiber' = [fiber EXCEPT ![c] = [fiber[c] EXCEPT !.pc = "fetching", !.set = set]]
  BY RecheckCases
<1> DEFINE set == Jwks!Newest(stored, Jwks!LastFor(r, now))
<1>2. set \in Sets \cup {Jwks!NoSet}
  BY FiberFacts, Consulted
<1>3. fiber[c].pc = "locked" /\ UNCHANGED <<time, since, store, last, fetched, failed>>
  BY DEF Jwks!Recheck
<1> HIDE DEF set
<1>4. ASSUME NEW pc \in {"accepted", "refused"}, UNCHANGED attempt,
             fiber' = [fiber EXCEPT ![c] = [fiber[c] EXCEPT !.pc = pc, !.set = set]]
      PROVE  KeysInv'
  <2> DEFINE f == [fiber[c] EXCEPT !.pc = pc, !.set = set]
  <2>1. /\ f \in Fiber /\ f.pc = pc /\ f.kid = fiber[c].kid /\ f.now = fiber[c].now
        /\ f.knew = fiber[c].knew
    BY <1>2, FiberFacts DEF Fiber, FiberStages
  <2>2. fiber' = [fiber EXCEPT ![c] = f]
    BY <1>4
  <2> HIDE DEF f
  <2>3. UNCHANGED <<time, since, attempt, last, fetched, failed>>
        /\ store' \subseteq UNION {fetched[q] : q \in Resolvers}
    BY <1>3, <1>4 DEF KeysInv, KeyShapes
  <2>4. f.now <= time /\ f.knew <= f.now /\ f.knew <= last[ResolverOf[c]].at
      /\ f.kid # 0 /\ f.now # 0
    BY <1>3, <2>1, FiberFacts DEF KeysInv, KeyShapes
  <2>5. QED
    BY <1>3, <2>1, <2>2, <2>3, <2>4, MoveKeysInv DEF Holding
<1>5. ASSUME ~Jwks!Gated(r, stored, now), attempt' = [attempt EXCEPT ![r] = now],
             fiber' = [fiber EXCEPT ![c] = [fiber[c] EXCEPT !.pc = "fetching", !.set = set]]
      PROVE  KeysInv'
  <2> DEFINE f == [fiber[c] EXCEPT !.pc = "fetching", !.set = set]
  <2>1. /\ f \in Fiber /\ f.pc = "fetching" /\ f.kid = fiber[c].kid /\ f.now = now
        /\ f.knew = fiber[c].knew
    BY <1>2, FiberFacts DEF Fiber, FiberStages, Holding
  <2>2. fiber' = [fiber EXCEPT ![c] = f]
    BY <1>5
  <2> HIDE DEF f
  <2>3. fiber'[c] = f /\ \A d \in Fibers \ {c} : fiber'[d] = fiber[d]
    BY <2>2 DEF KeysInv, KeyShapes
  <2>4. r \in Resolvers /\ now \in Nat /\ now <= time
    BY FiberFacts
  <2>5. KeyShapes'
    <3>1. fiber' \in [Fibers -> Fiber] /\ attempt' \in [Resolvers -> Int]
      BY <1>5, <2>1, <2>2, <2>4 DEF KeysInv, KeyShapes
    <3>2. \A d \in Fibers :
            /\ fiber'[d].now <= time /\ fiber'[d].knew <= fiber'[d].now
            /\ fiber'[d].pc # "idle" => fiber'[d].kid # 0 /\ fiber'[d].now # 0
      BY <1>3, <2>1, <2>3 DEF KeysInv, KeyShapes
    <3>3. QED
      BY <1>3, <3>1, <3>2 DEF KeysInv, KeyShapes, Jwks!Generation
  <2>6. Truthful'
    BY <1>3 DEF KeysInv, Truthful, True, Jwks!Generation
  <2>7. OneLocked'
    BY <1>3, <2>1, <2>3 DEF KeysInv, OneLocked, Holding
  <2>8. NewestLast'
    BY <1>3, <2>1, <2>3 DEF KeysInv, NewestLast
  <2>9. OnRecord'
    <3>1. now - attempt[r] >= MinRefetch
      <4>1. ~(now - attempt[r] < MinRefetch)
        BY <1>5 DEF Jwks!Gated
      <4>2. attempt[r] \in Int
        BY <2>4 DEF KeysInv, KeyShapes
      <4>3. QED
        BY <2>4, <4>1, <4>2 DEF SensibleKeys
    <3>2. \A q \in Resolvers : Times(q)' = Times(q)
      BY <1>3 DEF Times
    <3>3. attempt'[r] = now /\ \A q \in Resolvers \ {r} : attempt'[q] = attempt[q]
      BY <1>5, <2>4 DEF KeysInv, KeyShapes
    <3>4. \A q \in Resolvers \ {r} : Busy(q)' <=> Busy(q)
      BY <2>3 DEF Busy
    <3>5. Busy(r)'
      BY <2>1, <2>3 DEF Busy
    <3>6. \A t \in Times(r) : t \in Int /\ t <= attempt[r]
      BY <2>4 DEF KeysInv, KeyShapes, OnRecord, Times, Sets
    <3>7. \A t \in Times(r) : now - t >= MinRefetch /\ t <= now
      BY <2>4, <3>1, <3>6 DEF SensibleKeys, KeysInv, KeyShapes
    <3>8. \A d \in Fibers : ResolverOf[d] = r /\ fiber'[d].pc = "fetching" => d = c
      BY <1>3, <2>3 DEF KeysInv, OneLocked, Holding
    <3>9. \A d \in Fibers : ResolverOf[d] # r => fiber'[d] = fiber[d]
      BY <2>3
    <3>10. ASSUME NEW q \in Resolvers \ {r}
           PROVE  /\ attempt'[q] <= time
                  /\ \A t \in Times(q)' : t <= attempt'[q]
                  /\ ~Busy(q)' => attempt'[q] \in Times(q)' \cup {Jwks!Never}
                  /\ \A d \in Fibers : ResolverOf[d] = q /\ fiber'[d].pc = "fetching" =>
                       attempt'[q] = fiber'[d].now /\ \A t \in Times(q)' : fiber'[d].now - t >= MinRefetch
      BY <3>2, <3>3, <3>4, <3>9, <3>10 DEF KeysInv, OnRecord
    <3>11. /\ attempt'[r] <= time
           /\ \A t \in Times(r)' : t <= attempt'[r]
           /\ \A d \in Fibers : ResolverOf[d] = r /\ fiber'[d].pc = "fetching" =>
                attempt'[r] = fiber'[d].now /\ \A t \in Times(r)' : fiber'[d].now - t >= MinRefetch
      BY <2>1, <2>3, <2>4, <3>2, <3>3, <3>7, <3>8
    <3>12. QED
      BY <1>3, <3>5, <3>10, <3>11 DEF OnRecord
  <2>10. QED
    BY <2>5, <2>6, <2>7, <2>8, <2>9 DEF KeysInv
<1>6. QED
  BY <1>1, <1>4, <1>5 DEF set

LEMMA FetchKeysInv ==
  ASSUME SensibleKeys, KeysInv, NEW c \in Fibers, Jwks!Fetch(c)
  PROVE  KeysInv'
<1> DEFINE r == ResolverOf[c]
           set == [generation |-> Jwks!Generation, at |-> fiber[c].now, ended |-> time]
           f == [fiber[c] EXCEPT !.pc = "saving", !.set = set]
<1>1. /\ fiber[c].pc = "fetching" /\ UNCHANGED <<time, since, store, attempt, failed>>
      /\ last' = [last EXCEPT ![r] = set] /\ fetched' = [fetched EXCEPT ![r] = @ \cup {set}]
  BY DEF Jwks!Fetch
<1>2. fiber' = [fiber EXCEPT ![c] = f]
  BY DEF Jwks!Fetch, KeysInv, KeyShapes
<1>3. r \in Resolvers /\ fiber[c].now \in Nat /\ fiber[c].now <= time /\ time \in Nat
  BY FiberFacts
<1>4. attempt[r] = fiber[c].now /\ \A t \in Times(r) : fiber[c].now - t >= MinRefetch
  BY <1>1, <1>3 DEF KeysInv, OnRecord
<1>5. fiber[c].now # 0 /\ fiber[c].kid # 0
  BY <1>1 DEF KeysInv, KeyShapes
<1>6. set \in Sets /\ set.at = fiber[c].now /\ set.ended = time /\ set.generation = Jwks!Generation
  BY <1>3, <1>5 DEF Sets, KeysInv, KeyShapes
<1>7. True(set)
  <2>1. Jwks!Generation \in Nat
    BY DEF KeysInv, KeyShapes
  <2>2. QED
    BY <1>3, <1>6, <2>1 DEF True
<1> HIDE DEF set
<1>8. /\ f \in Fiber /\ f.pc = "saving" /\ f.kid = fiber[c].kid /\ f.now = fiber[c].now
      /\ f.knew = fiber[c].knew /\ f.set = set
  BY <1>6, FiberFacts DEF Fiber, FiberStages, Holding
<1> HIDE DEF f
<1>9. fiber'[c] = f /\ \A d \in Fibers \ {c} : fiber'[d] = fiber[d]
  BY <1>2 DEF KeysInv, KeyShapes
<1>10. /\ fetched'[r] = fetched[r] \cup {set} /\ last'[r] = set
       /\ \A q \in Resolvers \ {r} : fetched'[q] = fetched[q] /\ last'[q] = last[q]
  BY <1>1, <1>3 DEF KeysInv, KeyShapes
<1>11. Times(r)' = Times(r) \cup {fiber[c].now}
       /\ \A q \in Resolvers \ {r} : Times(q)' = Times(q)
  BY <1>1, <1>6, <1>10 DEF Times
<1>12. KeyShapes'
  <2>1. fiber' \in [Fibers -> Fiber]
    BY <1>2, <1>8 DEF KeysInv, KeyShapes
  <2>2. last' \in [Resolvers -> Sets \cup {Jwks!NoSet}] /\ fetched' \in [Resolvers -> SUBSET Sets]
    BY <1>1, <1>3, <1>6 DEF KeysInv, KeyShapes
  <2>3. \A d \in Fibers :
          /\ fiber'[d].now <= time /\ fiber'[d].knew <= fiber'[d].now
          /\ fiber'[d].pc # "idle" => fiber'[d].kid # 0 /\ fiber'[d].now # 0
    BY <1>5, <1>8, <1>9, FiberFacts DEF KeysInv, KeyShapes
  <2>4. store' \subseteq UNION {fetched'[q] : q \in Resolvers}
    <3>1. \A q \in Resolvers : fetched[q] \subseteq fetched'[q]
      BY <1>10
    <3>2. QED
      BY <1>1, <3>1 DEF KeysInv, KeyShapes
  <2>5. QED
    BY <1>1, <2>1, <2>2, <2>3, <2>4 DEF KeysInv, KeyShapes, Jwks!Generation
<1>13. Truthful'
  <2>1. \A q \in Resolvers : \A s \in fetched'[q] : True(s)
    BY <1>7, <1>10 DEF KeysInv, Truthful
  <2>2. QED
    BY <1>1, <2>1 DEF Truthful, True, Jwks!Generation
<1>14. OneLocked'
  BY <1>1, <1>8, <1>9 DEF KeysInv, OneLocked, Holding
<1>15. NewestLast'
  <2>1. ASSUME NEW q \in Resolvers
        PROVE  last'[q] \in fetched'[q] \cup {Jwks!NoSet} /\ \A s \in fetched'[q] : s.at <= last'[q].at
    <3>1. CASE q # r
      BY <1>10, <3>1 DEF KeysInv, NewestLast
    <3>2. CASE q = r
      <4>1. \A s \in fetched[r] : s.at <= fiber[c].now
        <5>1. \A s \in fetched[r] : s.at \in Times(r)
          BY DEF Times
        <5>2. \A s \in fetched[r] : s.at <= attempt[r]
          BY <1>3, <5>1 DEF KeysInv, OnRecord
        <5>3. QED
          BY <1>4, <5>2
      <4>2. \A s \in fetched[r] \cup {set} : s.at <= set.at
        BY <1>3, <1>6, <4>1
      <4>3. QED
        BY <1>10, <3>2, <4>2
    <3>3. QED
      BY <3>1, <3>2
  <2>2. ASSUME NEW d \in Fibers, ResolverOf[d] = r
        PROVE  fiber'[d].knew <= last'[r].at
    <3>1. last[r].at <= fiber[c].now
      <4>1. CASE last[r] = Jwks!NoSet
        BY <1>3, <4>1, NeverFacts
      <4>2. CASE last[r] # Jwks!NoSet
        <5>1. last[r] \in fetched[r]
          BY <1>3, <4>2 DEF KeysInv, NewestLast
        <5>2. last[r].at \in Times(r)
          BY <5>1 DEF Times
        <5>3. last[r].at <= attempt[r]
          BY <1>3, <5>2 DEF KeysInv, OnRecord
        <5>4. QED
          BY <1>4, <5>3
      <4>3. QED
        BY <4>1, <4>2
    <3>2. fiber[d].knew \in Int /\ last[r].at \in Int /\ fiber[d].knew <= last[r].at
      BY <2>2, FiberFacts
    <3>3. fiber[d].knew <= fiber[c].now
      BY <1>3, <3>1, <3>2
    <3>4. fiber'[d].knew = fiber[d].knew
      BY <1>8, <1>9
    <3>5. QED
      BY <1>6, <1>10, <3>3, <3>4
  <2>3. ASSUME NEW d \in Fibers, ResolverOf[d] # r
        PROVE  fiber'[d].knew <= last'[ResolverOf[d]].at
    <3>1. fiber'[d] = fiber[d] /\ ResolverOf[d] \in Resolvers \ {r}
      BY <1>9, <2>3, FiberFacts
    <3>2. QED
      BY <1>10, <3>1, FiberFacts
  <2>4. ASSUME NEW d \in Fibers, fiber'[d].pc = "saving"
        PROVE  fiber'[d].set \in fetched'[ResolverOf[d]] /\ fiber'[d].set.at = fiber'[d].now
    <3>1. CASE d = c
      BY <1>6, <1>8, <1>9, <1>10, <3>1
    <3>2. CASE d # c
      <4>1. fiber'[d] = fiber[d] /\ ResolverOf[d] \in Resolvers
        BY <1>9, <3>2, FiberFacts
      <4>2. fetched[ResolverOf[d]] \subseteq fetched'[ResolverOf[d]]
        BY <1>10, <4>1
      <4>3. QED
        BY <2>4, <4>1, <4>2 DEF KeysInv, NewestLast
    <3>3. QED
      BY <3>1, <3>2
  <2>5. QED
    BY <2>1, <2>2, <2>3, <2>4 DEF NewestLast
<1>16. OnRecord'
  <2>1. \A d \in Fibers : ResolverOf[d] = r => fiber'[d].pc # "fetching"
    BY <1>1, <1>8, <1>9 DEF KeysInv, OneLocked, Holding
  <2>2. /\ attempt'[r] <= time'
        /\ \A t \in Times(r)' : t <= attempt'[r]
        /\ attempt'[r] \in Times(r)'
    BY <1>1, <1>3, <1>4, <1>11 DEF KeysInv, OnRecord
  <2>3. ASSUME NEW q \in Resolvers \ {r}
        PROVE  /\ Busy(q)' <=> Busy(q)
               /\ \A d \in Fibers : ResolverOf[d] = q => fiber'[d] = fiber[d]
    BY <1>9 DEF Busy
  <2>4. QED
    BY <1>1, <1>11, <2>1, <2>2, <2>3 DEF KeysInv, OnRecord
<1>17. QED
  BY <1>12, <1>13, <1>14, <1>15, <1>16 DEF KeysInv

LEMMA FailFetchKeysInv ==
  ASSUME SensibleKeys, KeysInv, NEW c \in Fibers, Jwks!FailFetch(c)
  PROVE  KeysInv'
<1> DEFINE r == ResolverOf[c]
<1>1. r \in Resolvers /\ fiber[c].now \in Nat /\ fiber[c].now <= time /\ time \in Nat
  BY FiberFacts
<1>2. /\ fiber[c].pc = "fetching" /\ UNCHANGED <<time, since, store, attempt, fetched>>
      /\ failed' = [failed EXCEPT ![r] = @ \cup {attempt[r]}]
      /\ fiber' = [fiber EXCEPT ![c] = Jwks!Idle]
  BY DEF Jwks!FailFetch
<1>3. last' = last
  BY <1>1 DEF Jwks!FailFetch, Jwks!AfterFailure, KeysInv, KeyShapes
<1>4. fiber'[c] = Jwks!Idle /\ \A d \in Fibers \ {c} : fiber'[d] = fiber[d]
  BY <1>2 DEF KeysInv, KeyShapes
<1>5. /\ Jwks!Idle \in Fiber /\ Jwks!Idle.pc = "idle" /\ Jwks!Idle.now = 0 /\ Jwks!Idle.knew = Jwks!Never
      /\ Jwks!Never <= 0 /\ Jwks!Never \in Int
  BY NeverFacts DEF Jwks!Idle, Fiber, FiberStages
<1>6. attempt[r] = fiber[c].now
  BY <1>1, <1>2 DEF KeysInv, OnRecord
<1>7. /\ failed'[r] = failed[r] \cup {attempt[r]}
      /\ \A q \in Resolvers \ {r} : failed'[q] = failed[q]
  BY <1>1, <1>2 DEF KeysInv, KeyShapes
<1>8. Times(r)' = Times(r) \cup {attempt[r]}
      /\ \A q \in Resolvers \ {r} : Times(q)' = Times(q)
  BY <1>2, <1>7 DEF Times
<1>9. KeyShapes'
  <2>1. fiber' \in [Fibers -> Fiber] /\ failed' \in [Resolvers -> SUBSET Nat]
    BY <1>1, <1>2, <1>5, <1>6 DEF KeysInv, KeyShapes
  <2>2. \A d \in Fibers :
          /\ fiber'[d].now <= time /\ fiber'[d].knew <= fiber'[d].now
          /\ fiber'[d].pc # "idle" => fiber'[d].kid # 0 /\ fiber'[d].now # 0
    <3>1. fiber'[c].now = 0 /\ fiber'[c].knew <= 0 /\ fiber'[c].pc = "idle" /\ 0 <= time
      BY <1>1, <1>4, <1>5
    <3>2. \A d \in Fibers \ {c} :
            /\ fiber'[d].now <= time /\ fiber'[d].knew <= fiber'[d].now
            /\ fiber'[d].pc # "idle" => fiber'[d].kid # 0 /\ fiber'[d].now # 0
      BY <1>4 DEF KeysInv, KeyShapes
    <3>3. QED
      BY <3>1, <3>2
  <2>3. QED
    BY <1>2, <1>3, <2>1, <2>2 DEF KeysInv, KeyShapes, Jwks!Generation
<1>10. Truthful'
  BY <1>2 DEF KeysInv, Truthful, True, Jwks!Generation
<1>11. OneLocked'
  BY <1>4, <1>5 DEF KeysInv, OneLocked, Holding
<1>12. NewestLast'
  <2>1. Jwks!Never <= last[r].at
    <3>1. \A x \in Sets \cup {Jwks!NoSet} : Jwks!Never <= x.at
      BY NeverFacts DEF Sets
    <3>2. QED
      BY <1>1, <3>1 DEF KeysInv, KeyShapes
  <2>2. QED
    BY <1>2, <1>3, <1>4, <1>5, <2>1 DEF KeysInv, NewestLast
<1>13. OnRecord'
  <2>1. \A d \in Fibers : ResolverOf[d] = r => fiber'[d].pc # "fetching"
    BY <1>2, <1>4, <1>5 DEF KeysInv, OneLocked, Holding
  <2>2. /\ attempt'[r] <= time'
        /\ \A t \in Times(r)' : t <= attempt'[r]
        /\ attempt'[r] \in Times(r)'
    BY <1>1, <1>2, <1>6, <1>8 DEF KeysInv, OnRecord
  <2>3. ASSUME NEW q \in Resolvers \ {r}
        PROVE  /\ Busy(q)' <=> Busy(q)
               /\ \A d \in Fibers : ResolverOf[d] = q => fiber'[d] = fiber[d]
    BY <1>4 DEF Busy
  <2>4. QED
    BY <1>2, <1>8, <2>1, <2>2, <2>3 DEF KeysInv, OnRecord
<1>14. QED
  BY <1>9, <1>10, <1>11, <1>12, <1>13 DEF KeysInv

----------------------------------------------------------------------------
(* What the issuer and the clock do.                                       *)

\* The generations are the first so many, in the order of their coming.
LEMMA Rotated ==
  ASSUME SensibleKeys, KeysInv, Jwks!Rotate
  PROVE  /\ Jwks!Generation' = Jwks!Generation + 1
         /\ since' \in [1..Jwks!Generation' -> 1..time]
         /\ \A g \in 1..Jwks!Generation : since'[g] = since[g]
         /\ since'[Jwks!Generation + 1] = time
<1>1. Jwks!Generation \in Nat \ {0} /\ time \in Nat \ {0} /\ DOMAIN since = 1..Jwks!Generation
      /\ since \in [1..Jwks!Generation -> 1..time]
  BY DEF KeysInv, KeyShapes, SensibleKeys
<1>2. since' = [g \in 1..Jwks!Generation + 1 |-> IF g \in DOMAIN since THEN since[g] ELSE time]
  BY DEF Jwks!Rotate
<1>3. DOMAIN since' = 1..Jwks!Generation + 1
  BY <1>2
<1>4. Cardinality(1..Jwks!Generation + 1) = Jwks!Generation + 1
  BY <1>1, FS_Interval
<1>5. Jwks!Generation' = Jwks!Generation + 1
  <2>1. Jwks!Cardinality(DOMAIN since') = Jwks!Generation + 1
    BY <1>3, <1>4, KeysCount
  <2>2. QED
    BY <2>1 DEF Jwks!Generation
<1> HIDE DEF Jwks!Generation
<1>6. \A g \in 1..Jwks!Generation : since'[g] = since[g]
  BY <1>1, <1>2
<1>7. since'[Jwks!Generation + 1] = time
  BY <1>1, <1>2
<1>8. since' \in [1..Jwks!Generation + 1 -> 1..time]
  BY <1>1, <1>2
<1>9. QED
  BY <1>5, <1>6, <1>7, <1>8

\* What a set says of the past stays true.
LEMMA TrueRotated ==
  ASSUME SensibleKeys, KeysInv, Jwks!Rotate, NEW set \in Sets, True(set)
  PROVE  True(set)'
<1>1. Jwks!Generation \in Nat /\ time' = time /\ time \in Nat
  BY DEF Jwks!Rotate, KeysInv, KeyShapes, SensibleKeys
<1>2. set.generation \in Nat /\ set.at \in Nat /\ set.ended \in Nat
  BY DEF Sets
<1>3. \A g \in 1..Jwks!Generation + 1 : g > set.generation => since'[g] >= set.ended
  <2> SUFFICES ASSUME NEW g \in 1..Jwks!Generation + 1, g > set.generation
               PROVE  since'[g] >= set.ended
    OBVIOUS
  <2>1. CASE g \in 1..Jwks!Generation
    BY <2>1, Rotated DEF True
  <2>2. CASE g \notin 1..Jwks!Generation
    <3>1. g = Jwks!Generation + 1
      BY <1>1, <2>2
    <3>2. QED
      BY <1>1, <1>2, <3>1, Rotated DEF True
  <2>3. QED
    BY <2>1, <2>2
<1>4. Jwks!Generation' = Jwks!Generation + 1
  BY Rotated
<1>5. QED
  BY <1>1, <1>2, <1>3, <1>4 DEF True

LEMMA RotateKeysInv == ASSUME SensibleKeys, KeysInv, Jwks!Rotate PROVE KeysInv'
<1>1. UNCHANGED <<time, store, attempt, last, fiber, fetched, failed>>
  BY DEF Jwks!Rotate
<1>2. KeyShapes'
  <2>1. Jwks!Generation' \in Nat \ {0} /\ since' \in [1..Jwks!Generation' -> 1..time']
    BY <1>1, Rotated DEF KeysInv, KeyShapes
  <2>2. QED
    BY <1>1, <2>1 DEF KeysInv, KeyShapes
<1>3. Truthful'
  <2>1. \A r \in Resolvers : \A set \in fetched[r] : set \in Sets /\ True(set)
    BY DEF KeysInv, KeyShapes, Truthful
  <2>2. QED
    BY <1>1, <2>1, TrueRotated DEF Truthful
<1>4. OneLocked' /\ NewestLast'
  BY <1>1 DEF KeysInv, OneLocked, NewestLast
<1>5. OnRecord'
  BY <1>1 DEF KeysInv, OnRecord, Busy, Times
<1>6. QED
  BY <1>2, <1>3, <1>4, <1>5 DEF KeysInv

LEMMA TickKeysInv == ASSUME SensibleKeys, KeysInv, Jwks!Tick PROVE KeysInv'
<1>1. /\ time' = time + 1 /\ time < MaxTime
      /\ UNCHANGED <<since, store, attempt, last, fiber, fetched, failed>>
  BY DEF Jwks!Tick
<1>2. time \in Nat /\ time' \in Nat /\ time' >= time /\ Jwks!Generation' = Jwks!Generation
  BY <1>1 DEF KeysInv, KeyShapes, SensibleKeys, Jwks!Generation
<1>3. KeyShapes'
  <2>1. time' \in 1..MaxTime
    BY <1>1 DEF KeysInv, KeyShapes, SensibleKeys
  <2>2. since' \in [1..Jwks!Generation' -> 1..time']
    BY <1>1, <1>2 DEF KeysInv, KeyShapes
  <2>3. \A c \in Fibers : fiber[c].now <= time'
    BY <1>1, <1>2, FiberFacts
  <2>4. QED
    BY <1>1, <1>2, <2>1, <2>2, <2>3 DEF KeysInv, KeyShapes
<1>4. Truthful'
  <2>1. \A r \in Resolvers : \A set \in fetched[r] :
          set.at \in Int /\ set.ended \in Int /\ True(set)
    BY DEF KeysInv, KeyShapes, Truthful, Sets
  <2>2. QED
    BY <1>1, <1>2, <2>1, TrueKept DEF Truthful
<1>5. OneLocked' /\ NewestLast'
  BY <1>1 DEF KeysInv, OneLocked, NewestLast
<1>6. OnRecord'
  <2>1. \A r \in Resolvers : attempt[r] \in Int /\ attempt[r] <= time
    BY DEF KeysInv, KeyShapes, OnRecord
  <2>2. \A r \in Resolvers : attempt'[r] <= time'
    BY <1>1, <1>2, <2>1
  <2>3. QED
    BY <1>1, <2>2 DEF KeysInv, OnRecord, Busy, Times
<1>7. QED
  BY <1>3, <1>4, <1>5, <1>6 DEF KeysInv

LEMMA NextKeysInv == ASSUME SensibleKeys, KeysInv, [Jwks!Next]_(Jwks!vars) PROVE KeysInv'
<1>1. ASSUME NEW c \in Fibers, NEW kid \in Jwks!Kids, Jwks!Ask(c, kid) PROVE KeysInv'
  BY <1>1, AskKeysInv
<1>2. ASSUME NEW c \in Fibers,
             \/ Jwks!Look(c) \/ Jwks!Lock(c) \/ Jwks!Recheck(c) \/ Jwks!Fetch(c) \/ Jwks!FailFetch(c) \/ Jwks!Save(c)
             \/ Jwks!Interrupt(c)
      PROVE  KeysInv'
  BY <1>2, LookKeysInv, LockKeysInv, RecheckKeysInv, FetchKeysInv, FailFetchKeysInv, SaveKeysInv, InterruptKeysInv
<1>3. CASE Jwks!Rotate \/ Jwks!Tick
  BY <1>3, RotateKeysInv, TickKeysInv
<1>4. CASE UNCHANGED Jwks!vars
  BY <1>4 DEF Jwks!vars, KeysInv, KeyShapes, Truthful, True, OneLocked, NewestLast, OnRecord, Busy, Times, Jwks!Generation
<1>5. QED
  BY <1>1, <1>2, <1>3, <1>4 DEF Jwks!Next

\* The time and the sets that exist are as the code builds them, at each step.
THEOREM ResolverTyped ==
  ASSUME SensibleKeys
  PROVE  Jwks!Spec => []Jwks!TypeOK
<1>1. Jwks!Init => KeysInv
  BY InitKeysInv
<1>2. KeysInv /\ [Jwks!Next]_(Jwks!vars) => KeysInv'
  BY NextKeysInv
<1>3. KeysInv => Jwks!TypeOK
  BY DEF KeysInv, KeyShapes, NewestLast, Jwks!TypeOK
<1>4. QED
  BY <1>1, <1>2, <1>3, PTL DEF Jwks!Spec
----------------------------------------------------------------------------
(* What answers a token.                                                   *)

\* The set behind a yes: it has the key, is no older than the TTL, and had not
\* arrived before the last fetch the resolver knew of began.
Backed(f) ==
  /\ f.set \in Sets /\ Jwks!HasKey(f.set, f.kid) /\ True(f.set)
  /\ Jwks!Fresh(f.set, f.now) /\ f.set.ended >= f.knew
Answered == \A c \in Fibers : fiber[c].pc = "accepted" => Backed(fiber[c])

\* A fiber that is not the one to move keeps what backs its answer.
LEMMA BackedKept ==
  ASSUME SensibleKeys, KeysInv, [Jwks!Next]_(Jwks!vars), NEW c \in Fibers, fiber'[c] = fiber[c], Backed(fiber[c])
  PROVE  Backed(fiber[c])'
<1>1. True(fiber[c].set)'
  <2>1. CASE Jwks!Rotate
    BY <2>1, TrueRotated DEF Backed
  <2>2. CASE ~Jwks!Rotate
    <3>1. UNCHANGED since
      BY <2>2 DEF Jwks!Next, Jwks!Ask, Jwks!Look, Jwks!Lock, Jwks!Recheck, Jwks!Fetch, Jwks!FailFetch, Jwks!Save, Jwks!Interrupt, Jwks!Unchanged,
                  Jwks!Tick, Jwks!vars
    <3>2. time' \in {time, time + 1}
      BY <2>2 DEF Jwks!Next, Jwks!Ask, Jwks!Look, Jwks!Lock, Jwks!Recheck, Jwks!Fetch, Jwks!FailFetch, Jwks!Save, Jwks!Interrupt, Jwks!Unchanged,
                  Jwks!Tick, Jwks!vars
    <3>3. time \in Int /\ time' \in Int /\ time' >= time
      BY <3>2, FiberFacts
    <3>4. QED
      BY <3>1, <3>3, TrueKept DEF Backed, Sets
  <2>3. QED
    BY <2>1, <2>2
<1>2. QED
  BY <1>1 DEF Backed, Jwks!HasKey, Jwks!Fresh

\* What a look accepts is backed.
LEMMA HitIsBacked ==
  ASSUME SensibleKeys, KeysInv, NEW c \in Fibers, NEW stored \in Jwks!StoredFor(fiber[c].now),
         fiber[c].pc # "idle",
         Jwks!HasKey(Jwks!Newest(stored, Jwks!LastFor(ResolverOf[c], fiber[c].now)), fiber[c].kid)
  PROVE  Backed([fiber[c] EXCEPT !.pc = "accepted",
                                 !.set = Jwks!Newest(stored, Jwks!LastFor(ResolverOf[c], fiber[c].now))])
<1> DEFINE r == ResolverOf[c]
           set == Jwks!Newest(stored, Jwks!LastFor(r, fiber[c].now))
           f == [fiber[c] EXCEPT !.pc = "accepted", !.set = set]
<1>1. r \in Resolvers /\ fiber[c].now \in Nat
  BY FiberFacts
<1>2. /\ set \in Sets \cup {Jwks!NoSet}
      /\ set # Jwks!NoSet => True(set) /\ Jwks!Fresh(set, fiber[c].now)
      /\ set # Jwks!NoSet => set.at >= last[r].at
  BY <1>1, Consulted
<1>3. Jwks!HasKey(set, fiber[c].kid) /\ fiber[c].kid # 0
  BY DEF KeysInv, KeyShapes
<1> HIDE DEF set
<1>4. set # Jwks!NoSet
  BY <1>3, NeverFacts DEF Jwks!HasKey
<1>5. set \in Sets /\ True(set) /\ Jwks!Fresh(set, fiber[c].now) /\ set.at >= last[r].at
  BY <1>2, <1>4
<1>6. set.ended >= fiber[c].knew
  <2>1. set.at \in Int /\ set.ended \in Int /\ set.ended >= set.at
    BY <1>5 DEF Sets, True
  <2>2. fiber[c].knew <= last[r].at /\ fiber[c].knew \in Int /\ last[r].at \in Int
    BY FiberFacts
  <2>3. QED
    BY <1>5, <2>1, <2>2
<1>7. f.set = set /\ f.kid = fiber[c].kid /\ f.now = fiber[c].now /\ f.knew = fiber[c].knew
  BY FiberFacts DEF Fiber
<1> HIDE DEF f
<1>8. Backed(f)
  BY <1>3, <1>5, <1>6, <1>7 DEF Backed
<1>9. QED
  BY <1>8 DEF f, set

\* What a fetch brings in and answers with is backed.
LEMMA SavedIsBacked ==
  ASSUME SensibleKeys, KeysInv, NEW c \in Fibers, fiber[c].pc = "saving",
         Jwks!HasKey(fiber[c].set, fiber[c].kid)
  PROVE  Backed(fiber[c])
<1> DEFINE r == ResolverOf[c]
           set == fiber[c].set
<1>1. r \in Resolvers /\ fiber[c].now \in Nat
  BY FiberFacts
<1>2. set \in fetched[r] /\ set.at = fiber[c].now
  BY DEF KeysInv, NewestLast
<1>3. set \in Sets /\ True(set)
  BY <1>1, <1>2 DEF KeysInv, KeyShapes, Truthful
<1>4. set.ended >= fiber[c].knew
  BY <1>1, <1>2, <1>3, FiberFacts DEF Sets, True
<1>5. Jwks!Fresh(set, fiber[c].now)
  BY <1>1, <1>2 DEF Jwks!Fresh, SensibleKeys
<1>6. QED
  BY <1>3, <1>4, <1>5 DEF Backed

LEMMA AnsweredKept ==
  ASSUME SensibleKeys, KeysInv, Answered, [Jwks!Next]_(Jwks!vars)
  PROVE  Answered'
<1> SUFFICES ASSUME NEW d \in Fibers, fiber'[d].pc = "accepted" PROVE Backed(fiber[d])'
  BY DEF Answered
<1>1. CASE fiber'[d] = fiber[d]
  BY <1>1, BackedKept DEF Answered
<1>2. CASE fiber'[d] # fiber[d]
  <2>1. fiber \in [Fibers -> Fiber] /\ fiber[d] \in Fiber
    BY DEF KeysInv, KeyShapes
  <2>2. Jwks!Look(d) \/ Jwks!Recheck(d) \/ Jwks!Save(d)
    <3>1. PICK c \in Fibers :
            \/ \E kid \in Jwks!Kids : Jwks!Ask(c, kid)
            \/ Jwks!Look(c) \/ Jwks!Lock(c) \/ Jwks!Recheck(c) \/ Jwks!Fetch(c) \/ Jwks!FailFetch(c) \/ Jwks!Save(c)
            \/ Jwks!Interrupt(c)
      BY <1>2 DEF Jwks!Next, Jwks!vars, Jwks!Rotate, Jwks!Tick
    <3>2. c = d
      BY <1>2, <2>1, <3>1 DEF Jwks!Ask, Jwks!Look, Jwks!Lock, Jwks!Recheck, Jwks!Fetch, Jwks!FailFetch, Jwks!Save, Jwks!Interrupt
    <3>3. ~Jwks!Lock(d) /\ ~Jwks!Fetch(d)
      BY <2>1 DEF Jwks!Lock, Jwks!Fetch, Fiber
    <3>4. ~Jwks!FailFetch(d) /\ ~Jwks!Interrupt(d)
      BY <2>1 DEF Jwks!FailFetch, Jwks!Interrupt, Jwks!Idle
    <3>5. \A kid \in Jwks!Kids : ~Jwks!Ask(d, kid)
      BY <2>1 DEF Jwks!Ask, Jwks!Idle
    <3>6. QED
      BY <3>1, <3>2, <3>3, <3>4, <3>5
  <2>3. UNCHANGED <<time, since>>
    BY <2>2 DEF Jwks!Look, Jwks!Recheck, Jwks!Save, Jwks!Unchanged
  <2>4. CASE Jwks!Look(d)
    <3>1. PICK stored \in Jwks!StoredFor(fiber[d].now) :
            LET set == Jwks!Newest(stored, Jwks!LastFor(ResolverOf[d], fiber[d].now))
            IN  fiber' = [fiber EXCEPT ![d].pc = IF Jwks!HasKey(set, fiber[d].kid)
                                                 THEN "accepted" ELSE "waiting",
                                       ![d].set = set]
      BY <2>4 DEF Jwks!Look
    <3> DEFINE set == Jwks!Newest(stored, Jwks!LastFor(ResolverOf[d], fiber[d].now))
    <3>2. fiber[d].pc = "reading"
      BY <2>4 DEF Jwks!Look
    <3>3. Backed([fiber[d] EXCEPT !.pc = "accepted", !.set = set]) /\ Jwks!HasKey(set, fiber[d].kid)
          /\ fiber'[d] = [fiber[d] EXCEPT !.pc = "accepted", !.set = set]
      <4> HIDE DEF set
      <4>1. Jwks!HasKey(set, fiber[d].kid)
        BY <2>1, <3>1 DEF Fiber, set
      <4>2. fiber'[d] = [fiber[d] EXCEPT !.pc = "accepted", !.set = set]
        BY <2>1, <3>1, <4>1 DEF Fiber, set
      <4>3. QED
        BY <3>2, <4>1, <4>2, HitIsBacked DEF set
    <3>4. QED
      BY <2>3, <3>3 DEF Backed, True, Jwks!Generation, Jwks!HasKey, Jwks!Fresh
  <2>5. CASE Jwks!Recheck(d)
    <3>1. PICK stored \in Jwks!StoredFor(fiber[d].now) :
            LET set == Jwks!Newest(stored, Jwks!LastFor(ResolverOf[d], fiber[d].now))
            IN  \/ /\ Jwks!HasKey(set, fiber[d].kid)
                   /\ fiber' = [fiber EXCEPT ![d] = [fiber[d] EXCEPT !.pc = "accepted", !.set = set]]
                \/ fiber' = [fiber EXCEPT ![d] = [fiber[d] EXCEPT !.pc = "refused", !.set = set]]
                \/ fiber' = [fiber EXCEPT ![d] = [fiber[d] EXCEPT !.pc = "fetching", !.set = set]]
      BY <2>5, RecheckCases
    <3> DEFINE set == Jwks!Newest(stored, Jwks!LastFor(ResolverOf[d], fiber[d].now))
               became(pc) == fiber' = [fiber EXCEPT ![d] = [fiber[d] EXCEPT !.pc = pc, !.set = set]]
    <3>2. fiber[d].pc = "locked"
      BY <2>5 DEF Jwks!Recheck
    <3>3. Jwks!HasKey(set, fiber[d].kid)
          /\ fiber'[d] = [fiber[d] EXCEPT !.pc = "accepted", !.set = set]
      <4>1. \/ Jwks!HasKey(set, fiber[d].kid) /\ became("accepted")
            \/ became("refused") \/ became("fetching")
        BY <3>1
      <4> HIDE DEF set
      <4>2. \A pc : became(pc) =>
              fiber'[d] = [fiber[d] EXCEPT !.pc = pc, !.set = set] /\ fiber'[d].pc = pc
        BY <2>1 DEF Fiber
      <4> HIDE DEF became
      <4>3. QED
        BY <4>1, <4>2
    <3> HIDE DEF set
    <3>4. Backed([fiber[d] EXCEPT !.pc = "accepted", !.set = set])
      BY <3>2, <3>3, HitIsBacked DEF set
    <3>5. QED
      BY <2>3, <3>3, <3>4 DEF Backed, True, Jwks!Generation, Jwks!HasKey, Jwks!Fresh
  <2>6. CASE Jwks!Save(d)
    <3>1. fiber[d].pc = "saving" /\ Jwks!HasKey(fiber[d].set, fiber[d].kid)
          /\ fiber'[d] = [fiber[d] EXCEPT !.pc = "accepted"]
      BY <2>1, <2>6 DEF Jwks!Save, Fiber
    <3>2. /\ fiber'[d].set = fiber[d].set /\ fiber'[d].kid = fiber[d].kid
          /\ fiber'[d].now = fiber[d].now /\ fiber'[d].knew = fiber[d].knew
      BY <2>1, <3>1 DEF Fiber
    <3>3. Backed(fiber[d])
      BY <3>1, SavedIsBacked
    <3>4. QED
      BY <2>3, <3>2, <3>3 DEF Backed, True, Jwks!Generation, Jwks!HasKey, Jwks!Fresh
  <2>7. QED
    BY <2>2, <2>4, <2>5, <2>6
<1>3. QED
  BY <1>1, <1>2

\* An older set never re-admits a key, whatever the store answers and whenever
\* its answers come.
THEOREM NoOldSetAnswers ==
  ASSUME SensibleKeys
  PROVE  Jwks!Spec => []Jwks!NoKeyReadmitted
<1>1. Jwks!Init => KeysInv /\ Answered
  BY InitKeysInv DEF Jwks!Init, Answered, Jwks!Idle
<1>2. KeysInv /\ Answered /\ [Jwks!Next]_(Jwks!vars) => KeysInv' /\ Answered'
  BY NextKeysInv, AnsweredKept
<1>3. Answered => Jwks!NoKeyReadmitted
  BY DEF Answered, Backed, Jwks!NoKeyReadmitted
<1>4. QED
  BY <1>1, <1>2, <1>3, PTL DEF Jwks!Spec

\* A key that the issuer drops stops verifying once the TTL has passed.
THEOREM DroppedKeysExpire ==
  ASSUME SensibleKeys
  PROVE  Jwks!Spec => []Jwks!RevokedKeyStops
<1>1. Jwks!Init => KeysInv /\ Answered
  BY InitKeysInv DEF Jwks!Init, Answered, Jwks!Idle
<1>2. KeysInv /\ Answered /\ [Jwks!Next]_(Jwks!vars) => KeysInv' /\ Answered'
  BY NextKeysInv, AnsweredKept
<1>3. KeysInv /\ Answered => Jwks!RevokedKeyStops
  <2> SUFFICES ASSUME KeysInv, Answered, NEW c \in Fibers, fiber[c].pc = "accepted"
               PROVE  fiber[c].now - Jwks!Dropped(fiber[c].kid) < Ttl
    BY DEF Jwks!RevokedKeyStops
  <2> DEFINE kid == fiber[c].kid
             set == fiber[c].set
             now == fiber[c].now
  <2>1. /\ set \in Sets /\ kid = set.generation /\ True(set) /\ now - set.at < Ttl
    BY DEF Answered, Backed, Jwks!HasKey, Jwks!Fresh
  <2>2. /\ set.at \in Nat /\ set.ended \in Nat /\ set.at <= set.ended /\ kid \in Nat \ {0}
        /\ now \in Nat /\ now <= time
    BY <2>1, FiberFacts DEF Sets, True
  <2>3. /\ Jwks!Generation \in Nat /\ DOMAIN since = 1..Jwks!Generation /\ time \in 1..MaxTime
        /\ MaxTime \in Nat /\ Ttl \in Nat \ {0}
        /\ since \in [1..Jwks!Generation -> 1..time]
    BY DEF KeysInv, KeyShapes, SensibleKeys
  <2>4. \A g \in 1..Jwks!Generation : g > kid => since[g] >= set.ended
    BY <2>1 DEF True
  <2> HIDE DEF kid, set, now
  <2>5. CASE kid + 1 \in DOMAIN since
    <3>1. since[kid + 1] >= set.ended /\ since[kid + 1] \in Int
      BY <2>2, <2>3, <2>4, <2>5
    <3>2. now - since[kid + 1] < Ttl
      BY SMTT(30), <2>1, <2>2, <2>3, <3>1 DEF now
    <3>3. QED
      BY <2>5, <3>2 DEF Jwks!Dropped, kid, now
  <2>6. CASE kid + 1 \notin DOMAIN since
    <3>1. now - (MaxTime + 1) < Ttl
      BY <2>2, <2>3
    <3>2. QED
      BY <2>6, <3>1 DEF Jwks!Dropped, kid, now
  <2>7. QED
    BY <2>5, <2>6
<1>4. QED
  BY <1>1, <1>2, <1>3, PTL DEF Jwks!Spec
----------------------------------------------------------------------------
(* How often a resolver fetches.                                           *)

\* A fetch under way is dated apart from all the attempts before it.
LEMMA NewTime ==
  ASSUME SensibleKeys, KeysInv, NEW c \in Fibers, fiber[c].pc = "fetching"
  PROVE  LET r == ResolverOf[c] IN
         /\ r \in Resolvers /\ attempt[r] = fiber[c].now /\ fiber[c].now \in Nat
         /\ fiber[c].now \notin Times(r)
         /\ \A t \in Times(r) : t \in Nat /\ fiber[c].now - t >= MinRefetch
<1> DEFINE r == ResolverOf[c]
<1>1. r \in Resolvers /\ fiber[c].now \in Nat
  BY FiberFacts
<1>2. attempt[r] = fiber[c].now /\ \A t \in Times(r) : fiber[c].now - t >= MinRefetch
  BY <1>1 DEF KeysInv, OnRecord
<1>3. \A t \in Times(r) : t \in Nat
  BY <1>1 DEF Times, KeysInv, KeyShapes, Sets
<1>4. fiber[c].now \notin Times(r)
  BY <1>1, <1>2 DEF SensibleKeys
<1>5. QED
  BY <1>1, <1>2, <1>3, <1>4

\* Every attempt has a time of its own, an interval from the next.
Spaced(r) ==
  /\ IsFiniteSet(fetched[r]) /\ IsFiniteSet(failed[r]) /\ IsFiniteSet(Times(r))
  /\ \A s, t \in Times(r) : s < t => t - s >= MinRefetch
  /\ Cardinality(fetched[r]) + Cardinality(failed[r]) = Cardinality(Times(r))

\* One more time, when it comes an interval after all the others.
LEMMA OneMoreTime ==
  ASSUME SensibleKeys, NEW S, NEW now \in Nat, IsFiniteSet(S), now \notin S,
         \A s \in S : s \in Nat /\ now - s >= MinRefetch,
         \A s, t \in S : s < t => t - s >= MinRefetch
  PROVE  /\ IsFiniteSet(S \cup {now}) /\ Cardinality(S \cup {now}) = Cardinality(S) + 1
         /\ \A s, t \in S \cup {now} : s < t => t - s >= MinRefetch
<1>1. IsFiniteSet(S \cup {now}) /\ Cardinality(S \cup {now}) = Cardinality(S) + 1
  BY FS_AddElement
<1>2. \A s, t \in S \cup {now} : s < t => t - s >= MinRefetch
  BY DEF SensibleKeys
<1>3. QED
  BY <1>1, <1>2

LEMMA SpacedKept ==
  ASSUME SensibleKeys, KeysInv, \A r \in Resolvers : Spaced(r), [Jwks!Next]_(Jwks!vars)
  PROVE  \A r \in Resolvers : Spaced(r)'
<1>1. ASSUME NEW c \in Fibers, Jwks!Fetch(c) PROVE \A q \in Resolvers : Spaced(q)'
  <2> DEFINE r == ResolverOf[c]
             now == fiber[c].now
             set == [generation |-> Jwks!Generation, at |-> now, ended |-> time]
  <2>1. /\ r \in Resolvers /\ now \in Nat /\ now \notin Times(r)
        /\ \A t \in Times(r) : t \in Nat /\ now - t >= MinRefetch
    BY <1>1, NewTime DEF Jwks!Fetch
  <2>2. /\ fetched'[r] = fetched[r] \cup {set} /\ failed' = failed
        /\ \A q \in Resolvers \ {r} : fetched'[q] = fetched[q]
    BY <1>1, <2>1 DEF Jwks!Fetch, KeysInv, KeyShapes
  <2>3. Times(r)' = Times(r) \cup {now} /\ \A q \in Resolvers \ {r} : Times(q)' = Times(q)
    <3>1. set.at = now
      OBVIOUS
    <3> HIDE DEF set, now
    <3>2. QED
      BY <2>2, <3>1 DEF Times
  <2>4. set \notin fetched[r]
    BY <2>1 DEF Times
  <2> HIDE DEF set, now
  <2>5. /\ IsFiniteSet(Times(r)') /\ Cardinality(Times(r)') = Cardinality(Times(r)) + 1
        /\ \A s, t \in Times(r)' : s < t => t - s >= MinRefetch
    BY <2>1, <2>3, OneMoreTime DEF Spaced
  <2>6. IsFiniteSet(fetched'[r]) /\ Cardinality(fetched'[r]) = Cardinality(fetched[r]) + 1
    <3>1. IsFiniteSet(fetched[r])
      BY <2>1 DEF Spaced
    <3>2. /\ IsFiniteSet(fetched[r] \cup {set})
          /\ Cardinality(fetched[r] \cup {set}) = Cardinality(fetched[r]) + 1
      BY <2>4, <3>1, FS_AddElement
    <3>3. QED
      BY <2>2, <3>2
  <2>7. Cardinality(fetched[r]) \in Nat /\ Cardinality(failed[r]) \in Nat
    BY <2>1, FS_CardinalityType DEF Spaced
  <2>8. Cardinality(fetched'[r]) + Cardinality(failed'[r]) = Cardinality(Times(r)')
    BY <2>1, <2>2, <2>5, <2>6, <2>7 DEF Spaced
  <2>9. Spaced(r)'
    BY <2>1, <2>2, <2>5, <2>6, <2>8 DEF Spaced
  <2>10. QED
    BY <2>2, <2>3, <2>9 DEF Spaced
<1>2. ASSUME NEW c \in Fibers, Jwks!FailFetch(c) PROVE \A q \in Resolvers : Spaced(q)'
  <2> DEFINE r == ResolverOf[c]
             now == fiber[c].now
  <2>1. /\ r \in Resolvers /\ now \in Nat /\ now \notin Times(r) /\ attempt[r] = now
        /\ \A t \in Times(r) : t \in Nat /\ now - t >= MinRefetch
    BY <1>2, NewTime DEF Jwks!FailFetch
  <2>2. /\ failed'[r] = failed[r] \cup {now} /\ fetched' = fetched
        /\ \A q \in Resolvers \ {r} : failed'[q] = failed[q]
    BY <1>2, <2>1 DEF Jwks!FailFetch, KeysInv, KeyShapes
  <2>3. Times(r)' = Times(r) \cup {now} /\ \A q \in Resolvers \ {r} : Times(q)' = Times(q)
    BY <2>2 DEF Times
  <2>4. now \notin failed[r]
    BY <2>1 DEF Times
  <2> HIDE DEF now
  <2>5. /\ IsFiniteSet(Times(r)') /\ Cardinality(Times(r)') = Cardinality(Times(r)) + 1
        /\ \A s, t \in Times(r)' : s < t => t - s >= MinRefetch
    BY <2>1, <2>3, OneMoreTime DEF Spaced
  <2>6. IsFiniteSet(failed'[r]) /\ Cardinality(failed'[r]) = Cardinality(failed[r]) + 1
    <3>1. IsFiniteSet(failed[r])
      BY <2>1 DEF Spaced
    <3>2. /\ IsFiniteSet(failed[r] \cup {now})
          /\ Cardinality(failed[r] \cup {now}) = Cardinality(failed[r]) + 1
      BY <2>4, <3>1, FS_AddElement
    <3>3. QED
      BY <2>2, <3>2
  <2>7. Cardinality(fetched[r]) \in Nat /\ Cardinality(failed[r]) \in Nat
    BY <2>1, FS_CardinalityType DEF Spaced
  <2>8. Cardinality(fetched'[r]) + Cardinality(failed'[r]) = Cardinality(Times(r)')
    BY <2>1, <2>2, <2>5, <2>6, <2>7 DEF Spaced
  <2>9. Spaced(r)'
    BY <2>1, <2>2, <2>5, <2>6, <2>8 DEF Spaced
  <2>10. QED
    BY <2>2, <2>3, <2>9 DEF Spaced
<1>3. CASE UNCHANGED <<fetched, failed>>
  BY <1>3 DEF Spaced, Times
<1>4. QED
  BY <1>1, <1>2, <1>3
     DEF Jwks!Next, Jwks!Ask, Jwks!Look, Jwks!Lock, Jwks!Recheck, Jwks!Save, Jwks!Interrupt, Jwks!Unchanged, Jwks!Rotate, Jwks!Tick, Jwks!vars

\* Tokens with made-up keys do not make a resolver fetch more than once in an
\* interval, whatever fails and whoever is interrupted.
THEOREM FetchesAreSpaced ==
  ASSUME SensibleKeys
  PROVE  Jwks!Spec => []Jwks!FloodIsGated
<1> DEFINE FInv == KeysInv /\ \A r \in Resolvers : Spaced(r)
<1>1. Jwks!Init => FInv
  <2> SUFFICES ASSUME Jwks!Init, NEW r \in Resolvers PROVE Spaced(r)
    BY InitKeysInv
  <2>1. fetched[r] = {} /\ failed[r] = {} /\ Times(r) = {}
    BY DEF Jwks!Init, Times
  <2>2. QED
    BY <2>1, FS_EmptySet DEF Spaced
<1>2. FInv /\ [Jwks!Next]_(Jwks!vars) => FInv'
  BY NextKeysInv, SpacedKept
<1>3. FInv => Jwks!FloodIsGated
  BY KeysCount DEF Spaced, Times, Jwks!FloodIsGated
<1>4. QED
  BY <1>1, <1>2, <1>3, PTL DEF Jwks!Spec

----------------------------------------------------------------------------
(* A rotation is picked up.                                                *)

\* A set that lacks a key excuses a refusal, if it is younger than the interval.
Excused(f) ==
  \/ f.now - Jwks!Introduced(f.kid) < MinRefetch
  \/ Jwks!Dropped(f.kid) <= time

LEMMA YoungSetExcuses ==
  ASSUME SensibleKeys, KeysInv, NEW c \in Fibers, NEW set \in Sets, True(set),
         fiber[c].pc # "idle", ~Jwks!HasKey(set, fiber[c].kid), fiber[c].now - set.at < MinRefetch
  PROVE  Excused(fiber[c])
<1> DEFINE kid == fiber[c].kid
           now == fiber[c].now
<1>1. /\ set.generation \in Nat /\ set.at \in Nat /\ set.ended \in Nat /\ set.at <= set.ended
      /\ kid \in Nat \ {0} /\ kid # set.generation /\ set.generation <= Jwks!Generation
      /\ now \in Nat /\ now <= time /\ now - set.at < MinRefetch
      /\ \A g \in 1..Jwks!Generation : g > set.generation => since[g] >= set.ended
  BY FiberFacts DEF Sets, True, Jwks!HasKey, KeysInv, KeyShapes, Fiber
<1>2. /\ Jwks!Generation \in Nat /\ DOMAIN since = 1..Jwks!Generation /\ time \in 1..MaxTime
      /\ since \in [1..Jwks!Generation -> 1..time] /\ MaxTime \in Nat /\ MinRefetch \in Nat \ {0}
  BY DEF KeysInv, KeyShapes, SensibleKeys
<1> HIDE DEF kid, now
<1>3. CASE kid < set.generation
  <2>1. kid + 1 \in DOMAIN since
    BY <1>1, <1>2, <1>3
  <2>2. since[kid + 1] <= time
    BY <1>2, <2>1
  <2>3. QED
    BY <2>1, <2>2 DEF Excused, Jwks!Dropped, kid
<1>4. CASE kid > set.generation /\ kid \in DOMAIN since
  <2>1. since[kid] >= set.ended /\ since[kid] \in Int
    BY <1>1, <1>2, <1>4
  <2>2. now - since[kid] < MinRefetch
    BY <1>1, <1>2, <2>1
  <2>3. QED
    BY <1>4, <2>2 DEF Excused, Jwks!Introduced, kid, now
<1>5. CASE kid \notin DOMAIN since
  <2>1. now - (MaxTime + 1) < MinRefetch
    BY <1>1, <1>2
  <2>2. QED
    BY <1>5, <2>1 DEF Excused, Jwks!Introduced, kid, now
<1>6. QED
  BY <1>1, <1>2, <1>3, <1>4, <1>5

\* A gate that is closed was closed by a failure, or by a set that is younger
\* than the interval and is not newer than the one that was consulted.
LEMMA ClosedGate ==
  ASSUME SensibleKeys, MinRefetch <= Ttl, KeysInv, NEW c \in Fibers, fiber[c].pc = "locked",
         NEW stored \in Jwks!StoredFor(fiber[c].now), Jwks!Gated(ResolverOf[c], stored, fiber[c].now)
  PROVE  LET r == ResolverOf[c]
             now == fiber[c].now
             set == Jwks!Newest(stored, Jwks!LastFor(r, now))
         IN  \/ \E t \in failed[r] : now - t < MinRefetch
             \/ set \in Sets /\ True(set) /\ now - set.at < MinRefetch
<1> DEFINE r == ResolverOf[c]
           now == fiber[c].now
           set == Jwks!Newest(stored, Jwks!LastFor(r, now))
<1>1. r \in Resolvers /\ now \in Nat /\ last[r].at \in Int
  BY FiberFacts
<1>2. /\ set \in Sets \cup {Jwks!NoSet} /\ (set # Jwks!NoSet => True(set))
      /\ set.at >= stored.at
      /\ Jwks!Fresh(last[r], now) => set.at >= last[r].at
  BY <1>1, Consulted
<1>3. set.at \in Int /\ stored.at \in Int
  <2>1. \A x \in Sets \cup {Jwks!NoSet} : x.at \in Int
    BY NeverFacts DEF Sets
  <2>2. stored \in Sets \cup {Jwks!NoSet}
    BY StoredSets
  <2>3. QED
    BY <1>2, <2>1, <2>2
<1> HIDE DEF set
<1>4. ASSUME now - set.at < MinRefetch
      PROVE  set \in Sets /\ True(set) /\ now - set.at < MinRefetch
  <2>1. set # Jwks!NoSet
    BY <1>1, <1>4, NeverFacts DEF SensibleKeys
  <2>2. QED
    BY <1>2, <1>4, <2>1
<1>5. CASE now - stored.at < MinRefetch
  <2>1. now - set.at < MinRefetch
    BY <1>1, <1>2, <1>3, <1>5 DEF SensibleKeys
  <2>2. QED
    BY <1>4, <2>1 DEF set
<1>6. CASE now - attempt[r] < MinRefetch
  <2>1. attempt[r] \in Times(r) \cup {Jwks!Never} /\ \A t \in Times(r) : t <= attempt[r]
    <3>1. ~Busy(r)
      BY DEF Busy, KeysInv, OneLocked, Holding
    <3>2. QED
      BY <1>1, <3>1 DEF KeysInv, OnRecord
  <2>2. attempt[r] # Jwks!Never
    BY <1>1, <1>6, NeverFacts DEF SensibleKeys
  <2>3. CASE attempt[r] \in failed[r]
    BY <1>6, <2>3
  <2>4. CASE \E s \in fetched[r] : s.at = attempt[r]
    <3>1. PICK s \in fetched[r] : s.at = attempt[r]
      BY <2>4
    <3>2. s.at <= last[r].at /\ s.at \in Int
      BY <1>1 DEF KeysInv, NewestLast, KeyShapes, Sets
    <3>3. now - last[r].at < MinRefetch
      <4>1. now - s.at < MinRefetch
        BY <1>6, <3>1
      <4>2. QED
        BY <1>1, <3>2, <4>1 DEF SensibleKeys
    <3>4. Jwks!Fresh(last[r], now)
      BY <1>1, <3>3 DEF Jwks!Fresh, SensibleKeys
    <3>5. now - set.at < MinRefetch
      BY <1>1, <1>2, <1>3, <3>3, <3>4 DEF SensibleKeys
    <3>6. QED
      BY <1>4, <3>5 DEF set
  <2>5. QED
    BY <2>1, <2>2, <2>3, <2>4 DEF Times
<1>7. QED
  BY <1>5, <1>6 DEF Jwks!Gated

Picked(c) ==
  fiber[c].pc = "refused" =>
    Excused(fiber[c]) \/ \E t \in failed[ResolverOf[c]] : fiber[c].now - t < MinRefetch

\* An excuse stays one: no key comes up or goes in the past, and no failure is
\* forgotten.
LEMMA ExcuseKept ==
  ASSUME SensibleKeys, KeysInv, [Jwks!Next]_(Jwks!vars), NEW kid \in Nat, NEW now \in Nat, now <= time,
         now - Jwks!Introduced(kid) < MinRefetch \/ Jwks!Dropped(kid) <= time
  PROVE  now - Jwks!Introduced(kid)' < MinRefetch \/ Jwks!Dropped(kid)' <= time'
<1>1. /\ Jwks!Generation \in Nat \ {0} /\ DOMAIN since = 1..Jwks!Generation /\ time \in Nat
      /\ since \in [1..Jwks!Generation -> 1..time] /\ MinRefetch \in Nat \ {0} /\ MaxTime \in Nat
      /\ kid + 1 \in Nat
  BY DEF KeysInv, KeyShapes, SensibleKeys
<1>2. CASE Jwks!Rotate
  <2>1. DOMAIN since' = 1..Jwks!Generation + 1 /\ time' = time
        /\ (\A g \in 1..Jwks!Generation : since'[g] = since[g]) /\ since'[Jwks!Generation + 1] = time
    BY <1>2, Rotated DEF Jwks!Rotate
  <2>2. \A k \in Nat : k \in DOMAIN since => k \in DOMAIN since' /\ since'[k] = since[k]
    BY <1>1, <2>1
  <2>3. \A k \in Nat : k \in DOMAIN since' /\ k \notin DOMAIN since => since'[k] = time
    BY <1>1, <2>1
  <2>4. Jwks!Introduced(kid)' = Jwks!Introduced(kid) \/ Jwks!Introduced(kid)' = time
    BY <2>2, <2>3 DEF Jwks!Introduced
  <2>5. Jwks!Dropped(kid)' = Jwks!Dropped(kid) \/ Jwks!Dropped(kid)' = time
    BY <1>1, <2>2, <2>3 DEF Jwks!Dropped
  <2>6. QED
    BY <1>1, <2>1, <2>4, <2>5
<1>3. CASE ~Jwks!Rotate
  <2>1. UNCHANGED since /\ time' \in {time, time + 1}
    BY <1>3 DEF Jwks!Next, Jwks!Ask, Jwks!Look, Jwks!Lock, Jwks!Recheck, Jwks!Fetch, Jwks!FailFetch, Jwks!Save, Jwks!Interrupt, Jwks!Unchanged,
                Jwks!Tick, Jwks!vars
  <2>2. Jwks!Introduced(kid)' = Jwks!Introduced(kid) /\ Jwks!Dropped(kid)' = Jwks!Dropped(kid)
    BY <2>1 DEF Jwks!Introduced, Jwks!Dropped
  <2>3. Jwks!Dropped(kid) \in Int
    BY <1>1 DEF Jwks!Dropped
  <2>4. QED
    BY <1>1, <2>1, <2>2, <2>3
<1>4. QED
  BY <1>2, <1>3

LEMMA ExcusedKept ==
  ASSUME SensibleKeys, KeysInv, [Jwks!Next]_(Jwks!vars), NEW c \in Fibers, fiber'[c] = fiber[c], Excused(fiber[c])
  PROVE  Excused(fiber[c])'
<1>1. fiber[c].kid \in Nat /\ fiber[c].now \in Nat /\ fiber[c].now <= time
  BY FiberFacts DEF Fiber
<1>2. \A kid, now \in Nat :
        now <= time /\ (now - Jwks!Introduced(kid) < MinRefetch \/ Jwks!Dropped(kid) <= time)
        => now - Jwks!Introduced(kid)' < MinRefetch \/ Jwks!Dropped(kid)' <= time'
  BY ExcuseKept
<1>3. QED
  BY <1>1, <1>2 DEF Excused, Jwks!Introduced, Jwks!Dropped

LEMMA PickedKept ==
  ASSUME SensibleKeys, MinRefetch <= Ttl, KeysInv, [Jwks!Next]_(Jwks!vars), NEW d \in Fibers, Picked(d)
  PROVE  Picked(d)'
<1> SUFFICES ASSUME fiber'[d].pc = "refused"
             PROVE  \/ Excused(fiber[d])'
                    \/ \E t \in failed'[ResolverOf[d]] : fiber'[d].now - t < MinRefetch
  BY DEF Picked
<1>1. ResolverOf[d] \in Resolvers /\ fiber \in [Fibers -> Fiber] /\ fiber[d] \in Fiber
  BY FiberFacts DEF KeysInv, KeyShapes
<1>2. failed[ResolverOf[d]] \subseteq failed'[ResolverOf[d]]
  <2>1. ASSUME NEW c \in Fibers, Jwks!FailFetch(c)
        PROVE  failed[ResolverOf[d]] \subseteq failed'[ResolverOf[d]]
    BY <1>1, <2>1, FiberFacts DEF Jwks!FailFetch, KeysInv, KeyShapes
  <2>2. CASE UNCHANGED failed
    BY <2>2
  <2>3. QED
    BY <2>1, <2>2 DEF Jwks!Next, Jwks!Ask, Jwks!Look, Jwks!Lock, Jwks!Recheck, Jwks!Fetch, Jwks!Save, Jwks!Interrupt, Jwks!Unchanged,
                      Jwks!Rotate, Jwks!Tick, Jwks!vars
<1>3. CASE fiber'[d] = fiber[d]
  BY <1>2, <1>3, ExcusedKept DEF Picked
<1>4. CASE fiber'[d] # fiber[d]
  <2>1. Jwks!Recheck(d) \/ Jwks!Save(d)
    <3>1. PICK c \in Fibers :
            \/ \E kid \in Jwks!Kids : Jwks!Ask(c, kid)
            \/ Jwks!Look(c) \/ Jwks!Lock(c) \/ Jwks!Recheck(c) \/ Jwks!Fetch(c) \/ Jwks!FailFetch(c) \/ Jwks!Save(c)
            \/ Jwks!Interrupt(c)
      BY <1>4 DEF Jwks!Next, Jwks!vars, Jwks!Rotate, Jwks!Tick
    <3>2. c = d
      BY <1>1, <1>4, <3>1 DEF Jwks!Ask, Jwks!Look, Jwks!Lock, Jwks!Recheck, Jwks!Fetch, Jwks!FailFetch, Jwks!Save, Jwks!Interrupt
    <3>3. ~Jwks!Lock(d) /\ ~Jwks!Fetch(d)
      BY <1>1 DEF Jwks!Lock, Jwks!Fetch, Fiber
    <3>4. ~Jwks!Look(d)
      <4>1. ASSUME Jwks!Look(d) PROVE fiber'[d].pc \in {"accepted", "waiting"}
        BY <1>1, <4>1 DEF Jwks!Look, Fiber
      <4>2. QED
        BY <4>1
    <3>5. ~Jwks!FailFetch(d) /\ ~Jwks!Interrupt(d)
      BY <1>1 DEF Jwks!FailFetch, Jwks!Interrupt, Jwks!Idle
    <3>6. \A kid \in Jwks!Kids : ~Jwks!Ask(d, kid)
      BY <1>1 DEF Jwks!Ask, Jwks!Idle
    <3>7. QED
      BY <3>1, <3>2, <3>3, <3>4, <3>5, <3>6
  <2>2. UNCHANGED <<time, since, failed>>
    BY <2>1 DEF Jwks!Recheck, Jwks!Save
  <2>3. ASSUME fiber'[d].now = fiber[d].now, fiber'[d].kid = fiber[d].kid, Excused(fiber[d])
        PROVE  Excused(fiber[d])'
    BY <2>2, <2>3 DEF Excused, Jwks!Introduced, Jwks!Dropped
  <2>4. CASE Jwks!Recheck(d)
    <3>1. PICK stored \in Jwks!StoredFor(fiber[d].now) :
            LET set == Jwks!Newest(stored, Jwks!LastFor(ResolverOf[d], fiber[d].now))
            IN  \/ fiber' = [fiber EXCEPT ![d] = [fiber[d] EXCEPT !.pc = "accepted", !.set = set]]
                \/ /\ ~Jwks!HasKey(set, fiber[d].kid) /\ Jwks!Gated(ResolverOf[d], stored, fiber[d].now)
                   /\ fiber' = [fiber EXCEPT ![d] = [fiber[d] EXCEPT !.pc = "refused", !.set = set]]
                \/ fiber' = [fiber EXCEPT ![d] = [fiber[d] EXCEPT !.pc = "fetching", !.set = set]]
      BY <2>4, RecheckCases
    <3> DEFINE set == Jwks!Newest(stored, Jwks!LastFor(ResolverOf[d], fiber[d].now))
               became(pc) == fiber' = [fiber EXCEPT ![d] = [fiber[d] EXCEPT !.pc = pc, !.set = set]]
    <3>2. fiber[d].pc = "locked"
      BY <2>4 DEF Jwks!Recheck
    <3>3. /\ ~Jwks!HasKey(set, fiber[d].kid) /\ Jwks!Gated(ResolverOf[d], stored, fiber[d].now)
          /\ fiber'[d].now = fiber[d].now /\ fiber'[d].kid = fiber[d].kid
      <4>1. \/ ~Jwks!HasKey(set, fiber[d].kid) /\ Jwks!Gated(ResolverOf[d], stored, fiber[d].now)
                 /\ became("refused")
            \/ became("accepted") \/ became("fetching")
        BY <3>1
      <4> HIDE DEF set
      <4>2. \A pc : became(pc) =>
              fiber'[d].pc = pc /\ fiber'[d].now = fiber[d].now /\ fiber'[d].kid = fiber[d].kid
        BY <1>1 DEF Fiber
      <4> HIDE DEF became
      <4>3. QED
        BY <4>1, <4>2
    <3>4. \/ \E t \in failed[ResolverOf[d]] : fiber[d].now - t < MinRefetch
          \/ set \in Sets /\ True(set) /\ fiber[d].now - set.at < MinRefetch
      BY <3>2, <3>3, ClosedGate
    <3> HIDE DEF set, became
    <3>5. (\E t \in failed[ResolverOf[d]] : fiber[d].now - t < MinRefetch) \/ Excused(fiber[d])
      BY <3>2, <3>3, <3>4, YoungSetExcuses
    <3>6. QED
      BY <1>2, <2>3, <3>3, <3>5
  <2>5. CASE Jwks!Save(d)
    <3>1. /\ fiber[d].pc = "saving" /\ ~Jwks!HasKey(fiber[d].set, fiber[d].kid)
          /\ fiber'[d].now = fiber[d].now /\ fiber'[d].kid = fiber[d].kid
      BY <1>1, <2>5 DEF Jwks!Save, Fiber
    <3>2. fiber[d].set \in fetched[ResolverOf[d]] /\ fiber[d].set.at = fiber[d].now
      BY <3>1 DEF KeysInv, NewestLast
    <3>3. fiber[d].set \in Sets /\ True(fiber[d].set)
      BY <1>1, <3>2 DEF KeysInv, KeyShapes, Truthful
    <3>4. fiber[d].now - fiber[d].set.at < MinRefetch
      BY <3>2, FiberFacts DEF SensibleKeys
    <3>5. Excused(fiber[d])
      BY <3>1, <3>3, <3>4, YoungSetExcuses
    <3>6. QED
      BY <2>3, <3>1, <3>5
  <2>6. QED
    BY <2>1, <2>4, <2>5
<1>5. QED
  BY <1>3, <1>4

\* But a rotation is picked up: with an interval that is no longer than the TTL,
\* a key that the issuer has had for as long as the interval is refused only if
\* a fetch came to nothing within it.
THEOREM RotationsArrive ==
  ASSUME SensibleKeys, MinRefetch <= Ttl
  PROVE  Jwks!Spec => []Jwks!RotationPickedUp
<1> DEFINE RInv == KeysInv /\ \A c \in Fibers : Picked(c)
<1>1. Jwks!Init => RInv
  BY InitKeysInv DEF Jwks!Init, Picked, Jwks!Idle
<1>2. RInv /\ [Jwks!Next]_(Jwks!vars) => RInv'
  BY NextKeysInv, PickedKept
<1>3. RInv => Jwks!RotationPickedUp
  BY DEF Picked, Excused, Jwks!RotationPickedUp
<1>4. QED
  BY <1>1, <1>2, <1>3, PTL DEF Jwks!Spec
============================================================================
