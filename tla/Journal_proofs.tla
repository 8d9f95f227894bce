--------------------------- MODULE Journal_proofs ---------------------------
(* Proofs about Journal, for any number of writers, subscribers, cursors and  *)
(* lines.  Whatever other processes do to the file and whenever fibers are    *)
(* interrupted, the write permit has one holder, nothing but a reopen is      *)
(* written after a terminal the engine knows of, and no truncation is         *)
(* invented.  While the file is only appended to, by whole lines, the hub     *)
(* carries its lines in order, nothing that is consumed is missed by the      *)
(* stream or by `latest`, and a subscriber's replay joins its live tail.      *)
EXTENDS Journal, TLAPS, FiniteSetTheorems, SequenceTheorems, WellFoundedInduction

Holding == {"stat", "write", "fstat", "scan"}
Seeding == {"resume", "tail"}

\* The fields that the steps below look at.
Fields ==
  /\ DOMAIN wr = Writers
  /\ \A w \in Writers : "pc" \in DOMAIN wr[w]
  /\ \A w \in Writers : wr[w].pc \in {"queued", "stat", "write"} => "kind" \in DOMAIN wr[w]
  /\ {"pc", "after", "built"} \subseteq DOMAIN sup
  /\ sup.after \in {"loop", "follow", "await", "created"}
  /\ sup.built \in BOOLEAN

\* The permit belongs to an append from its second look at `closed` until it is
\* linked or fails (engine.ts:436), or to a seed.
PermitHeld ==
  /\ \A w \in Writers : (permit = w) <=> wr[w].pc \in Holding
  /\ sup.built /\ sup.pc \in Seeding => permit = Supervisor

\* Nothing happens before the layer is built (engine.ts:679-684).
NotBuilt ==
  /\ sup.pc = "construct" => ~sup.built
  /\ ~sup.built => /\ sup.pc \in {"construct", "resume", "tail"}
                   /\ permit = NoOne
                   /\ \A w \in Writers : wr[w].pc = "idle"
                   /\ closer = "open"

\* What the stat has admitted is still admissible when it is written: nobody
\* else moves `latest` while the permit is held.
StillAdmissible ==
  \A w \in Writers : wr[w].pc = "write" => (TerminalTail => wr[w].kind = "reopen")

IInv == Fields /\ PermitHeld /\ NotBuilt /\ StillAdmissible

LEMMA InitIInv == Init => IInv
  BY JournalAssumption
     DEF Init, IInv, Fields, PermitHeld, NotBuilt, StillAdmissible, Holding, Seeding,
         Idle, TerminalTail, None

\* A step that leaves the permit, the appends, `latest`, the finalizer and the
\* supervisor's place alone.
LEMMA Bystander ==
  ASSUME IInv, UNCHANGED <<permit, wr, latest, sup>>, closer' = closer \/ sup.built
  PROVE  IInv'
  BY DEF IInv, Fields, PermitHeld, NotBuilt, StillAdmissible, TerminalTail

\* A step of one append.  What it writes to `latest` it writes under the permit.
LEMMA AppendMoves ==
  ASSUME IInv, NEW w \in Writers, NEW a,
         wr' = [wr EXCEPT ![w] = a], UNCHANGED <<sup, closer>>, sup.built,
         "pc" \in DOMAIN a, a.pc \in {"queued", "stat", "write"} => "kind" \in DOMAIN a,
         a.pc \in Holding => permit \in {NoOne, w} /\ permit' = w,
         a.pc \notin Holding => permit' = IF permit = w THEN NoOne ELSE permit,
         a.pc = "write" => (TerminalTail => a.kind = "reopen"),
         latest' = latest \/ (permit = w /\ a.pc # "write")
  PROVE  IInv'
<1> USE DEF IInv, Holding
<1>1. Fields'
  BY DEF Fields
<1>2. /\ NoOne \notin Writers /\ Supervisor \notin Writers
      /\ permit \in {NoOne, w} => ~(sup.built /\ sup.pc \in Seeding)
      /\ \A v \in Writers : v # w => wr'[v] = wr[v]
      /\ wr'[w] = a
  BY JournalAssumption DEF Fields, PermitHeld
<1>3. PermitHeld'
  BY <1>2 DEF PermitHeld
<1>4. NotBuilt'
  BY DEF NotBuilt
<1>5. StillAdmissible'
  <2>1. CASE latest' = latest
    BY <2>1, <1>2 DEF StillAdmissible, TerminalTail
  <2>2. CASE permit = w /\ a.pc # "write"
    \* Nobody else is about to write.
    BY <2>2, <1>2 DEF StillAdmissible, PermitHeld
  <2>3. QED
    BY <2>1, <2>2
<1>6. QED
  BY <1>1, <1>3, <1>4, <1>5

\* A step of the supervisor or the finalizer.
LEMMA SupervisorMoves ==
  ASSUME IInv, UNCHANGED wr,
         {"pc", "after", "built"} \subseteq DOMAIN sup',
         sup'.after \in {"loop", "follow", "await", "created"}, sup'.built \in BOOLEAN,
         sup.built => sup'.built, sup'.pc # "construct",
         ~sup'.built => sup'.pc \in {"resume", "tail"} /\ permit' = NoOne /\ closer' = "open",
         sup'.built /\ sup'.pc \in Seeding => permit' = Supervisor,
         \/ permit' = permit
         \/ permit = NoOne /\ permit' = Supervisor
         \/ permit = Supervisor /\ permit' = NoOne,
         latest' = latest \/ permit \in {NoOne, Supervisor}
  PROVE  IInv'
<1> USE DEF IInv
<1>1. Fields'
  BY DEF Fields
<1>2. NoOne \notin Writers /\ Supervisor \notin Writers
  BY JournalAssumption
<1>3. PermitHeld'
  BY <1>2 DEF PermitHeld, Holding
<1>4. NotBuilt'
  BY DEF NotBuilt
<1>5. StillAdmissible'
  BY <1>2 DEF StillAdmissible, TerminalTail, PermitHeld, Holding
<1>6. QED
  BY <1>1, <1>3, <1>4, <1>5

LEMMA AppendStep ==
  ASSUME IInv, NEW w \in Writers
  PROVE  /\ \A kind \in Kinds : Append_(w, kind) => IInv'
         /\ WriterStep(w) \/ WriteFails(w) \/ Interrupt(w) => IInv'
<1> USE DEF Holding, At, Idle, AppendRest, WriteRest, ConcludeRest, disk, adopted
<1>1. wr[w].pc # "idle" => sup.built
  BY DEF IInv, NotBuilt
<1>2. /\ DOMAIN wr = Writers
      /\ "pc" \in DOMAIN wr[w]
      /\ wr[w].pc \in {"queued", "stat", "write"} => "kind" \in DOMAIN wr[w]
      /\ (permit = w) <=> wr[w].pc \in Holding
      /\ w # NoOne
  BY JournalAssumption DEF IInv, Fields, PermitHeld
<1>3. ASSUME NEW kind \in Kinds, Append_(w, kind) PROVE IInv'
  BY <1>2, <1>3, AppendMoves DEF Append_
<1>4. ASSUME Fails(w), wr[w].pc # "idle", permit \in {w, NoOne}, UNCHANGED <<latest, sup, closer>>
      PROVE  IInv'
  <2> DEFINE a == [pc |-> "idle"]
  <2>1. /\ "pc" \in DOMAIN a /\ a.pc = "idle"
        /\ wr' = [wr EXCEPT ![w] = a] /\ permit' = NoOne
    BY <1>4 DEF Fails
  <2>2. sup.built /\ permit' = (IF permit = w THEN NoOne ELSE permit)
    BY <1>1, <1>4, <2>1
  <2> HIDE DEF a
  <2>3. QED
    BY <1>4, <2>1, <2>2, AppendMoves
<1>5. ASSUME Enter(w) PROVE IInv'
  <2>1. CASE closed
    BY <1>4, <1>5, <2>1 DEF Enter, Free
  <2>2. CASE ~closed
    BY <1>1, <1>2, <1>5, <2>2, AppendMoves DEF Enter, Free
  <2>3. QED
    BY <2>1, <2>2
<1>6. ASSUME Stat(w) PROVE IInv'
  <2>1. CASE Admissible(wr[w].kind)
    BY <1>1, <1>2, <1>6, <2>1, AppendMoves DEF Stat, Admissible
  <2>2. CASE ~Admissible(wr[w].kind)
    BY <1>2, <1>4, <1>6, <2>2 DEF Stat
  <2>3. QED
    BY <2>1, <2>2
<1>7. ASSUME Write(w) PROVE IInv'
  <2> DEFINE a == [pc |-> "fstat", kind |-> wr[w].kind, file |-> OpenedAt]
  <2>1. /\ sup.built /\ permit = w
        /\ wr' = [wr EXCEPT ![w] = a]
        /\ UNCHANGED <<permit, latest, sup, closer>>
    BY <1>1, <1>2, <1>7 DEF Write
  <2>2. "pc" \in DOMAIN a /\ a.pc = "fstat"
    OBVIOUS
  <2>3. QED
    BY <2>1, <2>2, AppendMoves
<1>8. ASSUME NEW own, NEW before, NEW after, NEW end, At(w, "fstat") \/ At(w, "scan"),
             Conclude(w, own, before, after, end), UNCHANGED <<sup, closer>>
      PROVE  IInv'
  <2>1. CASE own.kind = "odd"
    BY <1>2, <1>4, <1>8, <2>1 DEF Conclude
  <2>2. CASE own.kind # "odd"
    BY <1>1, <1>2, <1>8, <2>2, AppendMoves DEF Conclude
  <2>3. QED
    BY <2>1, <2>2
<1>9. ASSUME Fstat(w) PROVE IInv'
  <2> DEFINE end == Size(files[wr[w].file])
             own == Guessed(w, end)
  <2>1. CASE own.start = consumed
    BY <1>8, <1>9, <2>1 DEF Fstat
  <2>2. CASE own.start # consumed
    BY <1>1, <1>2, <1>9, <2>2, AppendMoves DEF Fstat
  <2>3. QED
    BY <2>1, <2>2
<1>10. ASSUME ScanGap(w) PROVE IInv'
  <2> DEFINE gap == Items(path, consumed, wr[w].end)
             own == Guessed(w, wr[w].end)
             n == FoundAt(gap, own)
  <2>1. CASE n # 0
    BY <1>8, <1>10, <2>1 DEF ScanGap
  <2>2. CASE n = 0
    BY <1>8, <1>10, <2>2 DEF ScanGap
  <2>3. QED
    BY <2>1, <2>2
<1>11. ASSUME ScanFails(w) PROVE IInv'
  BY <1>2, <1>4, <1>11 DEF ScanFails
<1>12. ASSUME Answer(w) PROVE IInv'
  BY <1>1, <1>2, <1>12, AppendMoves DEF Answer
<1>13. ASSUME WriteFails(w) PROVE IInv'
  BY <1>2, <1>4, <1>13 DEF WriteFails
<1>14. ASSUME Interrupt(w) PROVE IInv'
  <2>1. /\ sup.built
        /\ wr' = [wr EXCEPT ![w] = Idle]
        /\ permit' = IF permit = w THEN NoOne ELSE permit
        /\ UNCHANGED <<latest, sup, closer>>
    BY <1>1, <1>14 DEF Interrupt, Relinquished
  <2>2. "pc" \in DOMAIN Idle /\ Idle.pc = "idle"
    OBVIOUS
  <2>3. QED
    <3> HIDE DEF Idle
    <3> QED  BY <2>1, <2>2, AppendMoves
<1>15. QED
  BY <1>3, <1>5, <1>6, <1>7, <1>9, <1>10, <1>11, <1>12, <1>13, <1>14 DEF WriterStep

\* Where the supervisor goes when an ingest ends.
LEMMA SupervisorPlaces ==
  ASSUME Fields,
         NEW s \in {NextCycle, Returned, Failed} \cup
                   {IngestThen(after) : after \in {"loop", "follow", "await", "created"}}
  PROVE  /\ {"pc", "after", "built"} \subseteq DOMAIN s
         /\ s.after \in {"loop", "follow", "await", "created"}
         /\ s.built = sup.built
         /\ s.pc \in {"look", "gone", "follow", "await", "ingest"}
BY DEF Fields, NextCycle, Returned, Failed, IngestThen, Settled

LEMMA SupervisorStepKeeps == IInv /\ SupervisorStep => IInv'
<1> SUFFICES ASSUME IInv, SupervisorStep PROVE IInv'
  OBVIOUS
<1> USE DEF SupAt, EngineRest, LookRest, disk, adopted, Seeding
<1>1. /\ Fields
      /\ sup.built /\ sup.pc \in Seeding => permit = Supervisor
      /\ sup.pc = "construct" => ~sup.built
      /\ ~sup.built => sup.pc \in {"construct", "resume", "tail"} /\ permit = NoOne /\ closer = "open"
  BY DEF IInv, PermitHeld, NotBuilt
<1>2. ASSUME sup.built, UNCHANGED <<latest, wr, closer>>,
             \/ permit' = permit
             \/ permit = Supervisor /\ permit' = NoOne,
             {"pc", "after", "built"} \subseteq DOMAIN sup', sup'.built,
             sup'.after \in {"loop", "follow", "await", "created"},
             sup'.pc \notin Seeding \cup {"construct"}
      PROVE  IInv'
  BY <1>2, SupervisorMoves
<1>3. CASE Construct
  BY <1>1, <1>3, SupervisorMoves DEF Construct, Fields, Built
<1>4. CASE SeedFails
  BY <1>1, <1>4, SupervisorMoves, SupervisorPlaces DEF SeedFails, Fields, Built
<1>5. CASE SeedResume
  BY <1>1, <1>5, SupervisorMoves DEF SeedResume, Fields
<1>6. CASE SeedLatest
  BY <1>1, <1>6, SupervisorMoves DEF SeedLatest, Fields, Built
<1>7. CASE Look
  BY <1>1, <1>2, <1>7 DEF Look, Fields
<1>8. CASE Arm
  BY <1>1, <1>2, <1>8, SupervisorPlaces DEF Arm, Armed
<1>9. CASE Follow
  BY <1>1, <1>2, <1>9, SupervisorPlaces DEF Follow
<1>10. CASE ArmDirectory
  BY <1>1, <1>2, <1>10 DEF ArmDirectory, SupGoes, Fields
<1>11. CASE Check
  BY <1>1, <1>2, <1>11, SupervisorPlaces DEF Check, SupGoes, Fields
<1>12. CASE Await
  BY <1>1, <1>2, <1>12, SupervisorPlaces DEF Await
<1>13. CASE Floor
  BY <1>1, <1>2, <1>13 DEF Floor, Fields
<1>14. CASE Sample
  BY <1>1, <1>2, <1>14, SupervisorPlaces DEF Sample, Fields
<1>15. CASE Judge
  BY <1>1, <1>2, <1>15, SupervisorPlaces DEF Judge, SupGoes, Fields
<1>16. CASE ReadGap
  <2>1. CASE path = 0
    BY <1>1, <1>2, <1>16, <2>1, SupervisorPlaces DEF ReadGap
  <2>2. CASE path # 0
    BY <1>1, <1>16, <2>2, SupervisorMoves DEF ReadGap, Free, SupGoes, Fields
  <2>3. QED
    BY <2>1, <2>2
<1>17. CASE PublishedGap
  BY <1>1, <1>2, <1>17, SupervisorPlaces DEF PublishedGap
<1>18. CASE Reseed
  BY <1>1, <1>18, SupervisorMoves DEF Reseed, Free, SupGoes, Fields
<1>19. CASE Announce
  BY <1>1, <1>2, <1>19, SupervisorPlaces DEF Announce
<1>20. QED
  BY <1>3, <1>4, <1>5, <1>6, <1>7, <1>8, <1>9, <1>10, <1>11, <1>12, <1>13, <1>14,
     <1>15, <1>16, <1>17, <1>18, <1>19 DEF SupervisorStep

LEMMA CloserStepKeeps == IInv /\ (Close \/ CloserStep \/ GiveUp) => IInv'
<1> SUFFICES ASSUME IInv, Close \/ CloserStep \/ GiveUp PROVE IInv'
  OBVIOUS
<1> USE DEF disk, adopted
<1>1. closer # "open" => sup.built
  BY DEF IInv, NotBuilt
<1>2. CASE Close
  BY <1>2, Bystander DEF Close
<1>3. CASE Capture
  BY <1>1, <1>3, Bystander DEF Capture
<1>4. ASSUME NEW how, Finalized(how), closer = "draining" PROVE IInv'
  <2>1. /\ {"pc", "after", "built"} \subseteq DOMAIN sup'
        /\ sup'.after = sup.after /\ sup'.built = sup.built /\ sup'.pc = "gone"
        /\ sup.after \in {"loop", "follow", "await", "created"}
        /\ UNCHANGED <<wr, latest>>
        /\ permit' = IF permit = Supervisor THEN NoOne ELSE permit
    BY <1>4 DEF Finalized, SupGoes, Relinquished, IInv, Fields
  <2>2. QED
    BY <1>1, <1>4, <2>1, SupervisorMoves DEF Seeding
<1>5. QED
  BY <1>2, <1>3, <1>4 DEF CloserStep, EndStreams, GiveUp

LEMMA OthersKeep ==
  IInv /\ (OthersStep \/ BreachStep \/ PublishStep) => IInv'
BY Bystander
   DEF OthersStep, OtherAppends, OtherTears, OtherCompletes, Others, adopted, fibers,
       BreachStep, Breach, Truncate, Replace, RemoveFile, Create, PublishStep, Publish, disk

LEMMA ReaderStepKeeps ==
  ASSUME IInv, NEW r \in Readers,
         (\E cursor \in Cursors : Subscribe(r, cursor)) \/ ReaderStep(r) \/ Leave(r)
  PROVE  IInv'
BY Bystander
   DEF Subscribe, ReaderStep, ReplayStat, Replay, Take, Leave, SubscriberRest, disk, adopted

LEMMA NextIInv == IInv /\ [Next]_vars => IInv'
<1> SUFFICES ASSUME IInv, [Next]_vars PROVE IInv'
  OBVIOUS
<1>1. CASE UNCHANGED vars
  BY <1>1, Bystander DEF vars, adopted, fibers
<1>2. CASE Next
  BY <1>2, OthersKeep, SupervisorStepKeeps, CloserStepKeeps, AppendStep, ReaderStepKeeps DEF Next
<1>3. QED
  BY <1>1, <1>2

LEMMA Invariance == Spec => []IInv
  BY InitIInv, NextIInv, PTL DEF Spec

\* The write permit is held by the append that is between its second look at
\* `closed` and its link, and by no other: it is never shared and never lost,
\* however appends fail or are interrupted (engine.ts:436).
THEOREM PermitHasOneHolder ==
  Spec => [](\A w \in Writers : (permit = w) <=> wr[w].pc \in {"stat", "write", "fstat", "scan"})
<1>1. IInv => \A w \in Writers : (permit = w) <=> wr[w].pc \in {"stat", "write", "fstat", "scan"}
  BY DEF IInv, PermitHeld, Holding
<1>2. QED
  BY <1>1, Invariance, PTL

\* Nothing but a reopen is written after a terminal the engine knows of, also by
\* appends that queued before it and across a reseed (engine.ts:443-447).
THEOREM NothingAfterTerminal == Spec => TerminalRespected
<1>1. IInv => (\A w \in Writers : At(w, "write") /\ wr'[w].pc = "fstat" =>
                 (TerminalTail => wr[w].kind = "reopen"))
  BY DEF IInv, StillAdmissible, At
<1>2. QED
  BY <1>1, Invariance, PTL DEF TerminalRespected


------------------------------------------------------------------------------
(* Least and greatest elements.                                               *)

LEMMA LeastExists ==
  ASSUME NEW T, T \subseteq Nat, T # {}
  PROVE  \E x \in T : \A y \in T : x <= y
<1>1. PICK x \in T : \A y \in T : ~ (<<y, x>> \in OpToRel(<, Nat))
  BY NatLessThanWellFounded, WFMin
<1>2. \A y \in T : ~(y < x)
  BY <1>1 DEF OpToRel
<1>3. QED
  BY <1>2

LEMMA GreatestExists ==
  ASSUME NEW N \in Nat, NEW T, T \subseteq 0..N, T # {}
  PROVE  \E x \in T : \A y \in T : x >= y
<1> DEFINE D == {d \in Nat : N - d \in T}
<1>1. D # {}
  <2>1. PICK t \in T : TRUE
    OBVIOUS
  <2>2. N - t \in D
    BY <2>1
  <2>3. QED
    BY <2>2
<1>2. PICK d \in D : \A e \in D : d <= e
  BY <1>1, LeastExists
<1>3. \A y \in T : N - y \in D
  OBVIOUS
<1>4. \A y \in T : N - d >= y
  BY <1>2, <1>3
<1>5. QED
  BY <1>2, <1>4

\* The index of the last readable item.
LEMMA LastValid ==
  ASSUME NEW S, NEW items \in Seq(S), NEW n, n = SelectLastInSeq(items, Valid)
  PROVE  \/ n = 0 /\ \A m \in 1..Len(items) : ~Valid(items[m])
         \/ /\ n \in 1..Len(items) /\ Valid(items[n])
            /\ \A m \in (n + 1)..Len(items) : ~Valid(items[m])
<1> DEFINE I == {i \in 1..Len(items) : Valid(items[i])}
<1>1. n = IF I # {} THEN Max(I) ELSE 0
  BY DEF SelectLastInSeq
<1>2. CASE I = {}
  BY <1>1, <1>2
<1>3. CASE I # {}
  <2>1. Len(items) \in Nat /\ I \subseteq 0..Len(items)
    OBVIOUS
  <2>2. \E x \in I : \A y \in I : x >= y
    BY <1>3, <2>1, GreatestExists
  <2>3. Max(I) \in I /\ \A y \in I : Max(I) >= y
    BY <2>2 DEF Max
  <2>4. \A m \in (n + 1)..Len(items) : m \notin I
    BY <1>1, <1>3, <2>1, <2>3
  <2>5. n \in 1..Len(items) /\ Valid(items[n])
    BY <1>1, <1>3, <2>3
  <2>6. ASSUME NEW m \in (n + 1)..Len(items) PROVE ~Valid(items[m])
    <3>1. m \in 1..Len(items)
      BY <2>1, <2>5
    <3>2. QED
      BY <2>4, <3>1
  <2>7. QED
    BY <2>5, <2>6
<1>4. QED
  BY <1>2, <1>3

\* Where the first job whose baton is still to be passed stands.
LEMMA FirstUndone ==
  ASSUME NEW S, NEW jobs \in Seq(S), NEW n, n = SelectInSeq(jobs, LAMBDA job : ~job.done)
  PROVE  \/ n = 0 /\ \A m \in 1..Len(jobs) : jobs[m].done
         \/ /\ n \in 1..Len(jobs) /\ ~jobs[n].done
            /\ \A m \in 1..(n - 1) : jobs[m].done
<1> DEFINE I == {i \in 1..Len(jobs) : ~jobs[i].done}
<1>1. n = IF I # {} THEN Min(I) ELSE 0
  BY DEF SelectInSeq
<1>2. CASE I = {}
  BY <1>1, <1>2
<1>3. CASE I # {}
  <2>1. Len(jobs) \in Nat /\ I \subseteq Nat
    OBVIOUS
  <2>2. \E x \in I : \A y \in I : x <= y
    BY <1>3, <2>1, LeastExists
  <2>3. Min(I) \in I /\ \A y \in I : Min(I) <= y
    BY <2>2 DEF Min
  <2>4. \A m \in 1..(n - 1) : m \notin I
    BY <1>1, <1>3, <2>1, <2>3
  <2>5. n \in 1..Len(jobs) /\ ~jobs[n].done
    BY <1>1, <1>3, <2>3
  <2>6. \A m \in 1..(n - 1) : jobs[m].done
    BY <2>1, <2>4, <2>5
  <2>7. QED
    BY <2>5, <2>6
<1>4. QED
  BY <1>2, <1>3

------------------------------------------------------------------------------
(* What the operators return.                                                 *)

Line == [start : Nat, end : Nat, kind : ItemKinds]
File == [lines : Seq(Line), torn : {"none", "other", "own"}]
Job == [items : Seq(Item), by : Writers \cup {Supervisor}, done : BOOLEAN, pending : BOOLEAN]
Message == Item \cup {Resync, End}

LEMMA FileParts ==
  ASSUME NEW f \in File
  PROVE  /\ f.lines \in Seq(Line) /\ f.torn \in {"none", "other", "own"}
         /\ EndOf(f) \in Nat /\ Size(f) \in Nat
         /\ EndOf(f) <= Size(f) /\ Size(f) <= EndOf(f) + 1
<1>1. f.lines \in Seq(Line) /\ f.torn \in {"none", "other", "own"}
  BY DEF File
<1>2. EndOf(f) \in Nat
  <2>1. CASE f.lines = <<>>
    BY <2>1 DEF EndOf
  <2>2. CASE f.lines # <<>>
    <3>1. Len(f.lines) \in 1..Len(f.lines)
      BY <1>1, <2>2, EmptySeq
    <3>2. f.lines[Len(f.lines)] \in Line
      BY <1>1, <3>1, ElementOfSeq
    <3>3. QED
      BY <2>2, <3>2 DEF EndOf, Last, Line
  <2>3. QED
    BY <2>1, <2>2
<1>3. QED
  BY <1>1, <1>2 DEF Size

LEMMA LandedIsFile ==
  ASSUME NEW f \in File, NEW kind \in ItemKinds
  PROVE  /\ Landed(f, kind) \in File
         /\ Size(Landed(f, kind)) = Size(f) + 2
         /\ EndOf(Landed(f, kind)) = Size(f) + 2
         /\ Landed(f, kind).torn = "none"
         /\ Len(Landed(f, kind).lines) = Len(f.lines) + 1
         /\ \A n \in 1..Len(f.lines) : Landed(f, kind).lines[n] = f.lines[n]
         /\ Landed(f, kind).lines[Len(f.lines) + 1] =
              [start |-> EndOf(f), end |-> Size(f) + 2,
               kind |-> IF f.torn = "none" THEN kind ELSE "bad"]
<1> DEFINE line == [start |-> EndOf(f), end |-> Size(f) + 2,
                    kind |-> IF f.torn = "none" THEN kind ELSE "bad"]
<1>1. line \in Line
  BY FileParts DEF Line, ItemKinds
<1>2. line.end = Size(f) + 2
  OBVIOUS
<1> HIDE DEF line
<1>3. Landed(f, kind) = [lines |-> Append(f.lines, line), torn |-> "none"]
  BY DEF Landed, line
<1>4. f.lines \in Seq(Line)
  BY FileParts
<1>5. /\ Append(f.lines, line) \in Seq(Line)
      /\ Append(f.lines, line) # <<>>
      /\ Len(Append(f.lines, line)) = Len(f.lines) + 1
      /\ \A n \in 1..Len(f.lines) : Append(f.lines, line)[n] = f.lines[n]
      /\ Append(f.lines, line)[Len(f.lines) + 1] = line
  BY <1>1, <1>4, AppendProperties
<1>6. Landed(f, kind) \in File
  BY <1>3, <1>5 DEF File
<1>7. EndOf(Landed(f, kind)) = Size(f) + 2
  BY <1>2, <1>3, <1>5 DEF EndOf, Last
<1>8. Size(Landed(f, kind)) = Size(f) + 2
  BY <1>3, <1>7, FileParts DEF Size
<1>9. QED
  BY <1>3, <1>5, <1>6, <1>7, <1>8 DEF line

LEMMA FileOfIsFile ==
  ASSUME NEW kinds \in Seq(LineKinds)
  PROVE  /\ FileOf(kinds) \in File
         /\ FileOf(kinds).torn = "none"
         /\ Len(FileOf(kinds).lines) = Len(kinds)
         /\ \A n \in 1..Len(kinds) :
              FileOf(kinds).lines[n] = [start |-> 2 * n - 2, end |-> 2 * n, kind |-> kinds[n]]
<1> DEFINE lines == [n \in DOMAIN kinds |-> [start |-> 2 * n - 2, end |-> 2 * n, kind |-> kinds[n]]]
<1>1. DOMAIN kinds = 1..Len(kinds) /\ Len(kinds) \in Nat
  OBVIOUS
<1>2. ASSUME NEW n \in 1..Len(kinds) PROVE lines[n] \in Line
  <2>1. kinds[n] \in LineKinds
    OBVIOUS
  <2>2. 2 * n - 2 \in Nat /\ 2 * n \in Nat
    BY <1>1
  <2>3. QED
    BY <1>1, <2>1, <2>2 DEF Line, ItemKinds
<1>3. lines \in Seq(Line) /\ Len(lines) = Len(kinds)
  <2>1. lines = [n \in 1..Len(kinds) |-> lines[n]]
    BY <1>1
  <2> HIDE DEF lines
  <2>2. QED
    BY <1>1, <1>2, <2>1, IsASeq
<1>4. FileOf(kinds) = [lines |-> lines, torn |-> "none"]
  BY DEF FileOf
<1>5. \A n \in 1..Len(kinds) : lines[n] = [start |-> 2 * n - 2, end |-> 2 * n, kind |-> kinds[n]]
  BY <1>1
<1> HIDE DEF lines
<1>6. QED
  BY <1>3, <1>4, <1>5 DEF File

LEMMA EmptyFile == FileOf(<<>>) \in File /\ FileOf(<<>>).lines = <<>> /\ FileOf(<<>>).torn = "none"
<1>1. <<>> \in Seq(LineKinds) /\ Len(<<>>) = 0
  BY EmptySeq
<1>2. FileOf(<<>>) \in File /\ Len(FileOf(<<>>).lines) = 0 /\ FileOf(<<>>).torn = "none"
  BY <1>1, FileOfIsFile
<1>3. QED
  BY <1>2, FileParts, EmptySeq

\* Lines are counted.
LEMMA UpToCounts ==
  ASSUME NEW lines \in Seq(Line), NEW offset
  PROVE  UpTo(lines, offset) \in 0..Len(lines)
<1> DEFINE T == {n \in DOMAIN lines : lines[n].end <= offset}
<1>1. IsFiniteSet(1..Len(lines)) /\ Cardinality(1..Len(lines)) = Len(lines)
  <2>1. Len(lines) \in Nat /\ 1 \in Int /\ Len(lines) \in Int
    OBVIOUS
  <2>2. IsFiniteSet(1..Len(lines))
        /\ Cardinality(1..Len(lines)) = IF 1 > Len(lines) THEN 0 ELSE Len(lines) - 1 + 1
    BY <2>1, FS_Interval
  <2>3. QED
    BY <2>1, <2>2
<1>2. T \in SUBSET (1..Len(lines))
  OBVIOUS
<1>3. IsFiniteSet(T) /\ Cardinality(T) <= Len(lines)
  BY <1>1, <1>2, FS_Subset
<1>4. Cardinality(T) \in Nat
  BY <1>3, FS_CardinalityType
<1>5. QED
  BY <1>3, <1>4 DEF UpTo

ItemOf(i, line, from) ==
  [file |-> i, end |-> line.end,
   start |-> IF line.start < from THEN from ELSE line.start,
   kind |-> IF line.start < from THEN "bad" ELSE line.kind]

LEMMA ItemsAre ==
  ASSUME NEW i \in Nat, files[i].lines \in Seq(Line), NEW from \in Int, NEW to
  PROVE  /\ Items(i, from, to) \in Seq(Item)
         /\ Len(Items(i, from, to)) =
              IF UpTo(files[i].lines, to) >= UpTo(files[i].lines, from)
              THEN UpTo(files[i].lines, to) - UpTo(files[i].lines, from) ELSE 0
         /\ \A n \in 1..Len(Items(i, from, to)) :
              /\ UpTo(files[i].lines, from) + n \in 1..Len(files[i].lines)
              /\ Items(i, from, to)[n] =
                   ItemOf(i, files[i].lines[UpTo(files[i].lines, from) + n], from)
<1> DEFINE lines == files[i].lines
           skipped == UpTo(lines, from)
           last == UpTo(lines, to)
           total == IF last >= skipped THEN last - skipped ELSE 0
           items == [n \in 1..total |-> ItemOf(i, lines[skipped + n], from)]
<1>1. skipped \in 0..Len(lines) /\ last \in 0..Len(lines) /\ Len(lines) \in Nat
  BY UpToCounts
<1>2. total \in Nat /\ 1..(last - skipped) = 1..total
  BY <1>1
<1>3. Items(i, from, to) = [n \in 1..(last - skipped) |-> ItemOf(i, lines[skipped + n], from)]
  BY DEF Items, ItemOf
<1>4. Items(i, from, to) = items
  BY <1>2, <1>3
<1>5. ASSUME NEW n \in 1..total
      PROVE  skipped + n \in 1..Len(lines) /\ ItemOf(i, lines[skipped + n], from) \in Item
  <2>1. skipped + n \in 1..Len(lines)
    BY <1>1
  <2>2. lines[skipped + n] \in Line
    BY <2>1, ElementOfSeq
  <2> HIDE DEF lines, skipped
  <2>3. QED
    BY <2>1, <2>2 DEF ItemOf, Item, Line, ItemKinds
<1> HIDE DEF lines, skipped, last, total
<1>6. items \in Seq(Item) /\ Len(items) = total
  BY <1>2, <1>5, IsASeq
<1>7. \A n \in 1..total : items[n] = ItemOf(i, lines[skipped + n], from)
  OBVIOUS
<1> HIDE DEF items
<1>8. QED
  BY <1>4, <1>5, <1>6, <1>7 DEF total, lines, skipped, last

LEMMA LastEnvelopeIsItem ==
  ASSUME NEW items \in Seq(Item), NEW otherwise \in Item \cup {None}
  PROVE  LastEnvelope(items, otherwise) \in Item \cup {None}
<1> DEFINE n == SelectLastInSeq(items, Valid)
<1>1. n = 0 \/ n \in 1..Len(items)
  BY LastValid
<1>2. QED
  BY <1>1 DEF LastEnvelope

LEMMA TrimmedIsJobs ==
  ASSUME NEW S, NEW jobs \in Seq(S)
  PROVE  Trimmed(jobs) \in Seq(S)
<1> DEFINE n == SelectInSeq(jobs, LAMBDA job : ~job.done)
<1>1. n = 0 \/ n \in 1..Len(jobs)
  BY FirstUndone
<1>2. Trimmed(jobs) = IF n = 0 THEN <<>> ELSE SubSeq(jobs, n, Len(jobs))
  BY DEF Trimmed
<1> HIDE DEF n
<1>3. CASE n = 0
  BY <1>2, <1>3, EmptySeq
<1>4. CASE n # 0
  <2>1. n \in Int /\ Len(jobs) \in Int /\ \A i \in n..Len(jobs) : jobs[i] \in S
    BY <1>1, <1>4
  <2>2. QED
    BY <1>2, <1>4, <2>1, SubSeqProperties
<1>5. QED
  BY <1>3, <1>4

MarkedBy(by) == [n \in DOMAIN chain |-> [chain[n] EXCEPT !.done = @ \/ chain[n].by = by]]

LEMMA MarkedJobs ==
  ASSUME chain \in Seq(Job), NEW by
  PROVE  /\ MarkedBy(by) \in Seq(Job) /\ Len(MarkedBy(by)) = Len(chain)
         /\ \A n \in 1..Len(chain) :
              /\ MarkedBy(by)[n].items = chain[n].items
              /\ MarkedBy(by)[n].by = chain[n].by
              /\ MarkedBy(by)[n].pending = chain[n].pending
              /\ MarkedBy(by)[n].done = (chain[n].done \/ chain[n].by = by)
         /\ PassedBy(by) = Trimmed(MarkedBy(by))
<1>1. DOMAIN chain = 1..Len(chain) /\ Len(chain) \in Nat
  OBVIOUS
<1>2. ASSUME NEW n \in 1..Len(chain)
      PROVE  /\ MarkedBy(by)[n] \in Job
             /\ MarkedBy(by)[n].items = chain[n].items
             /\ MarkedBy(by)[n].by = chain[n].by
             /\ MarkedBy(by)[n].pending = chain[n].pending
             /\ MarkedBy(by)[n].done = (chain[n].done \/ chain[n].by = by)
  <2>1. chain[n] \in Job
    OBVIOUS
  <2>2. MarkedBy(by)[n] = [chain[n] EXCEPT !.done = chain[n].done \/ chain[n].by = by]
    BY <1>1 DEF MarkedBy
  <2>3. (chain[n].done \/ chain[n].by = by) \in BOOLEAN
    BY <2>1 DEF Job
  <2>4. QED
    BY <2>1, <2>2, <2>3 DEF Job
<1>3. MarkedBy(by) = [n \in 1..Len(chain) |-> MarkedBy(by)[n]]
  BY <1>1 DEF MarkedBy
<1>4. MarkedBy(by) \in Seq(Job) /\ Len(MarkedBy(by)) = Len(chain)
  BY <1>1, <1>2, <1>3, IsASeq
<1>5. PassedBy(by) = Trimmed(MarkedBy(by))
  BY DEF PassedBy, MarkedBy
<1>6. QED
  BY <1>2, <1>4, <1>5

LEMMA PassedIsChain ==
  ASSUME chain \in Seq(Job), NEW by
  PROVE  PassedBy(by) \in Seq(Job)
BY MarkedJobs, TrimmedIsJobs

------------------------------------------------------------------------------
(* Types: what every variable holds.                                          *)

SupPlaces == {"construct", "resume", "tail", "look", "arm", "arm directory", "follow", "check",
              "await", "ingest", "sample", "judge", "read", "publish", "reseed", "announce", "gone"}
Fiber == [pc : SupPlaces, after : {"loop", "follow", "await", "created"}, built : BOOLEAN, floor : Nat,
          size : Nat, file : Nat, startedAt : Nat, idle : Nat, base : Nat]

Append0 == [pc : {"idle", "publish"}]
Append1 == [pc : {"queued", "stat", "write"}, kind : Kinds]
Append2 == [pc : {"fstat"}, kind : Kinds, file : Nat]
Append3 == [pc : {"scan"}, kind : Kinds, file : Nat, end : Nat]
Appending == Append0 \cup Append1 \cup Append2 \cup Append3

Subscribed == [pc : {"stat", "replay", "live", "ended", "failed", "left"}, live : BOOLEAN,
               cursor : Nat \cup {NoCursor}, through : Nat, from : Nat, size : Nat,
               queue : Seq(Message), got : Seq(Item)]

Torn == [kind : LineKinds, file : Nat]

DiskT ==
  /\ files \in Seq(File) /\ path \in 0..Len(files)
  /\ half \in Torn \cup {None}
  /\ half # None => half.file \in 1..Len(files)
AdoptedT == consumed \in Nat /\ identity \in 0..Len(files) /\ latest \in Item \cup {None}
ChainT == chain \in Seq(Job) /\ sent \in Seq(Item)
AppendT ==
  /\ wr \in [Writers -> Appending]
  /\ \A w \in Writers : wr[w].pc \in {"fstat", "scan"} => wr[w].file \in 1..Len(files)
FiberT == sup \in Fiber /\ sup.file \in 0..Len(files)
ReaderT ==
  /\ sub \in [Readers -> Subscribed \cup {NotSubscribed}]
  /\ \A r \in Readers : Len(sub[r].queue) <= Capacity
RestT ==
  /\ permit \in Writers \cup {NoOne, Supervisor} /\ breaches \in Nat
  /\ closer \in {"open", "refusing", "draining", "ended", "gave up"}

TInv == DiskT /\ AdoptedT /\ ChainT /\ AppendT /\ FiberT /\ ReaderT /\ RestT

LEMMA Frame ==
  ASSUME TInv, DiskT', Len(files') >= Len(files)
  PROVE  /\ UNCHANGED <<consumed, identity, latest>> => AdoptedT'
         /\ UNCHANGED <<chain, sent>> => ChainT'
         /\ UNCHANGED wr => AppendT'
         /\ UNCHANGED sup => FiberT'
         /\ UNCHANGED sub => ReaderT'
         /\ UNCHANGED <<permit, breaches, closer>> => RestT'
<1> Len(files) \in Nat /\ Len(files') \in Nat
  BY DEF TInv, DiskT
<1>1. UNCHANGED <<consumed, identity, latest>> => AdoptedT'
  BY DEF TInv, AdoptedT
<1>2. UNCHANGED <<chain, sent>> => ChainT'
  BY DEF TInv, ChainT
<1>3. UNCHANGED wr => AppendT'
  BY DEF TInv, AppendT
<1>4. UNCHANGED sup => FiberT'
  BY DEF TInv, FiberT
<1>5. UNCHANGED sub => ReaderT'
  BY DEF TInv, ReaderT
<1>6. UNCHANGED <<permit, breaches, closer>> => RestT'
  BY DEF TInv, RestT
<1>7. QED
  BY <1>1, <1>2, <1>3, <1>4, <1>5, <1>6

LEMMA SameDisk ==
  ASSUME TInv, UNCHANGED <<files, path, half>>
  PROVE  DiskT' /\ Len(files') >= Len(files)
BY DEF TInv, DiskT

LEMMA FilesChange ==
  ASSUME TInv, NEW f \in File
  PROVE  /\ \A i \in 1..Len(files) :
              /\ [files EXCEPT ![i] = f] \in Seq(File)
              /\ Len([files EXCEPT ![i] = f]) = Len(files)
              /\ [files EXCEPT ![i] = f][i] = f
              /\ \A j \in 1..Len(files) : j # i => [files EXCEPT ![i] = f][j] = files[j]
         /\ Append(files, f) \in Seq(File)
         /\ Len(Append(files, f)) = Len(files) + 1
         /\ Append(files, f)[Len(files) + 1] = f
         /\ \A j \in 1..Len(files) : Append(files, f)[j] = files[j]
<1>1. files \in Seq(File)
  BY DEF TInv, DiskT
<1>2. DOMAIN files = 1..Len(files)
  BY <1>1
<1>3. ASSUME NEW i \in 1..Len(files)
      PROVE  [files EXCEPT ![i] = f] \in Seq(File) /\ Len([files EXCEPT ![i] = f]) = Len(files)
  BY <1>1, <1>3, ExceptSeq
<1>4. QED
  BY <1>1, <1>2, <1>3, AppendProperties

LEMMA PathFile ==
  ASSUME TInv
  PROVE  /\ \A i \in 1..Len(files) : files[i] \in File
         /\ path # 0 => path \in 1..Len(files) /\ files[path] \in File
         /\ Len(files) \in Nat /\ Len(files) + 1 > 0
BY DEF TInv, DiskT

\* A step that is not the engine's.
LEMMA TypedOthers == TInv /\ (OthersStep \/ BreachStep) => TInv'
<1> SUFFICES ASSUME TInv, OthersStep \/ BreachStep PROVE TInv'
  OBVIOUS
<1> USE DEF Others, adopted, fibers
<1>1. /\ files \in Seq(File) /\ path \in 0..Len(files) /\ Len(files) \in Nat
      /\ half \in Torn \cup {None} /\ (half # None => half.file \in 1..Len(files))
      /\ breaches \in Nat
  BY PathFile DEF TInv, DiskT, RestT
<1>2. ASSUME UNCHANGED <<consumed, identity, latest, permit, chain, sent, wr, sub, sup, closer>>,
             breaches' \in Nat, DiskT', Len(files') >= Len(files)
      PROVE  TInv'
  BY <1>2, Frame DEF TInv, RestT
<1>3. ASSUME NEW i \in 1..Len(files), NEW f \in File, files' = [files EXCEPT ![i] = f],
             UNCHANGED path, half' \in Torn \cup {None},
             half' # None => half'.file \in 1..Len(files)
      PROVE  DiskT' /\ Len(files') >= Len(files)
  BY <1>1, <1>3, FilesChange DEF DiskT
<1>4. ASSUME NEW f \in File, files' = Append(files, f), path' = Len(files'), UNCHANGED half
      PROVE  DiskT' /\ Len(files') >= Len(files)
  BY <1>1, <1>4, FilesChange DEF DiskT
<1>5. ASSUME NEW kind \in OtherKinds, OtherAppends(kind) PROVE TInv'
  <2>1. path \in 1..Len(files) /\ files[path] \in File /\ kind \in ItemKinds
    BY <1>5, PathFile, JournalAssumption DEF OtherAppends, ItemKinds
  <2>2. Landed(files[path], kind) \in File
    BY <2>1, LandedIsFile
  <2>3. files' = [files EXCEPT ![path] = Landed(files[path], kind)] /\ UNCHANGED <<path, half, breaches>>
    BY <1>5 DEF OtherAppends
  <2>4. DiskT' /\ Len(files') >= Len(files)
    BY <1>1, <1>3, <2>1, <2>2, <2>3
  <2>5. QED
    BY <1>1, <1>2, <1>5, <2>3, <2>4 DEF OtherAppends
<1>6. ASSUME NEW kind \in OtherKinds, OtherTears(kind) PROVE TInv'
  <2>1. path \in 1..Len(files) /\ files[path] \in File /\ kind \in LineKinds
    BY <1>6, PathFile, JournalAssumption DEF OtherTears
  <2> DEFINE f == [files[path] EXCEPT !.torn = "other"]
  <2>2. f \in File
    BY <2>1 DEF File
  <2>3. files' = [files EXCEPT ![path] = f] /\ UNCHANGED <<path, breaches>>
        /\ half' = [kind |-> kind, file |-> path]
    BY <1>6 DEF OtherTears
  <2>4. half' \in Torn /\ half'.file \in 1..Len(files)
    BY <1>1, <2>1, <2>3 DEF Torn
  <2> HIDE DEF f
  <2>5. DiskT' /\ Len(files') >= Len(files)
    BY <1>3, <2>1, <2>2, <2>3, <2>4
  <2>6. QED
    BY <1>1, <1>2, <1>6, <2>3, <2>5 DEF OtherTears
<1>7. ASSUME OtherCompletes PROVE TInv'
  <2> DEFINE f == files[half.file]
             whole == [f EXCEPT !.torn = "none"]
             bad == [start |-> EndOf(f), end |-> Size(f) + 1, kind |-> "bad"]
             g == IF f.torn = "other" THEN Landed(whole, half.kind)
                  ELSE [f EXCEPT !.lines = Append(@, bad)]
  <2>1. half # None /\ half.file \in 1..Len(files) /\ half.kind \in ItemKinds /\ f \in File
    BY <1>1, <1>7, PathFile DEF OtherCompletes, Torn, ItemKinds
  <2>2. whole \in File
    BY <2>1 DEF File
  <2>3. bad \in Line
    BY <2>1, FileParts DEF Line, ItemKinds
  <2>4. f.lines \in Seq(Line)
    BY <2>1, FileParts
  <2> HIDE DEF bad
  <2>5. Append(f.lines, bad) \in Seq(Line)
    BY <2>3, <2>4, AppendProperties
  <2>6. [f EXCEPT !.lines = Append(@, bad)] \in File
    BY <2>1, <2>5 DEF File
  <2>7. g \in File
    BY <2>1, <2>2, <2>6, LandedIsFile
  <2>8. files' = [files EXCEPT ![half.file] = g] /\ UNCHANGED <<path, breaches>> /\ half' = None
    BY <1>7 DEF OtherCompletes, bad
  <2> HIDE DEF f, g
  <2>9. DiskT' /\ Len(files') >= Len(files)
    BY <1>3, <2>1, <2>7, <2>8
  <2>10. QED
    BY <1>1, <1>2, <1>7, <2>8, <2>9 DEF OtherCompletes
<1>8. ASSUME NEW n \in 0..(MaxLines - 1), Truncate(n) PROVE TInv'
  <2>1. path \in 1..Len(files) /\ files[path] \in File
    BY <1>8, PathFile DEF Truncate, Breach
  <2>2. files[path].lines \in Seq(Line) /\ n \in Nat /\ n < Len(files[path].lines)
    BY <1>8, <2>1, FileParts, JournalAssumption DEF Truncate
  <2>3. SubSeq(files[path].lines, 1, n) \in Seq(Line)
    <3>1. \A i \in 1..n : files[path].lines[i] \in Line
      BY <2>2
    <3>2. n \in Int /\ 1 \in Int
      BY <2>2
    <3>3. QED
      BY <3>1, <3>2, SubSeqProperties
  <2> DEFINE f == [lines |-> SubSeq(files[path].lines, 1, n), torn |-> "none"]
  <2>4. f \in File
    BY <2>3 DEF File
  <2>5. files' = [files EXCEPT ![path] = f] /\ UNCHANGED <<path, half>> /\ breaches' = breaches + 1
    BY <1>8 DEF Truncate, Breach
  <2> HIDE DEF f
  <2>6. DiskT' /\ Len(files') >= Len(files)
    BY <1>1, <1>3, <2>1, <2>4, <2>5
  <2>7. QED
    BY <1>1, <1>2, <1>8, <2>5, <2>6 DEF Truncate, Breach
<1>9. ASSUME NEW start \in StartFiles \ {<<>>}, Replace(start[1]) PROVE TInv'
  <2>1. start[1] \in Seq(LineKinds)
    <3>1. start \in Seq(Seq(LineKinds)) /\ start # <<>>
      BY JournalAssumption
    <3>2. 1 \in 1..Len(start)
      BY <3>1, EmptySeq
    <3>3. QED
      BY <3>1, <3>2, ElementOfSeq
  <2>2. FileOf(start[1]) \in File
    BY <2>1, FileOfIsFile
  <2>3. files' = Append(files, FileOf(start[1])) /\ path' = Len(files')
        /\ UNCHANGED half /\ breaches' = breaches + 1
    BY <1>9 DEF Replace, Breach
  <2>4. DiskT' /\ Len(files') >= Len(files)
    BY <1>4, <2>2, <2>3
  <2>5. QED
    BY <1>1, <1>2, <1>9, <2>3, <2>4 DEF Replace, Breach
<1>10. ASSUME RemoveFile PROVE TInv'
  <2>1. DiskT' /\ Len(files') >= Len(files)
    BY <1>1, <1>10 DEF RemoveFile, Breach, DiskT
  <2>2. QED
    BY <1>1, <1>2, <1>10, <2>1 DEF RemoveFile, Breach
<1>11. ASSUME Create PROVE TInv'
  <2>1. files' = Append(files, FileOf(<<>>)) /\ path' = Len(files') /\ UNCHANGED <<half, breaches>>
    BY <1>11 DEF Create
  <2>2. DiskT' /\ Len(files') >= Len(files)
    BY <1>4, <2>1, EmptyFile
  <2>3. QED
    BY <1>1, <1>2, <1>11, <2>1, <2>2 DEF Create
<1>12. QED
  BY <1>5, <1>6, <1>7, <1>8, <1>9, <1>10, <1>11 DEF OthersStep, BreachStep

\* One append moves.
LEMMA TypedMove ==
  ASSUME TInv, NEW w \in Writers, NEW a \in Appending,
         wr' = [wr EXCEPT ![w] = a], Len(files') >= Len(files), Len(files') \in Nat,
         a.pc \in {"fstat", "scan"} => a.file \in 1..Len(files')
  PROVE  AppendT'
BY PathFile DEF TInv, AppendT

LEMMA AppendParts ==
  ASSUME TInv, NEW w \in Writers
  PROVE  /\ wr[w] \in Appending
         /\ wr[w].pc \in {"queued", "stat", "write"} => wr[w] \in Append1
         /\ wr[w].pc = "fstat" => wr[w] \in Append2
         /\ wr[w].pc = "scan" => wr[w] \in Append3
         /\ wr[w].pc \in {"fstat", "scan"} => wr[w].file \in 1..Len(files)
         /\ wr[w].pc \in {"queued", "stat", "write", "fstat", "scan"} => wr[w].kind \in Kinds
         /\ Idle \in Appending /\ Idle.pc = "idle"
         /\ w # NoOne /\ w # Supervisor
<1>1. wr[w] \in Appending
  BY DEF TInv, AppendT
<1>2. /\ wr[w].pc \in {"queued", "stat", "write"} => wr[w] \in Append1
      /\ wr[w].pc = "fstat" => wr[w] \in Append2
      /\ wr[w].pc = "scan" => wr[w] \in Append3
  BY <1>1 DEF Appending, Append0, Append1, Append2, Append3
<1>3. QED
  BY <1>1, <1>2, JournalAssumption DEF TInv, AppendT, Append1, Append2, Append3, Appending, Append0, Idle

LEMMA LinkIsChain ==
  ASSUME TInv, NEW items \in Seq(Item), NEW by \in Writers \cup {Supervisor}
  PROVE  /\ Link(items, by) \in Seq(Job) /\ Len(Link(items, by)) = Len(chain) + 1
         /\ \A n \in 1..Len(chain) : Link(items, by)[n] = chain[n]
         /\ Link(items, by)[Len(chain) + 1] =
              [items |-> items, by |-> by, done |-> FALSE, pending |-> FALSE]
<1> DEFINE job == [items |-> items, by |-> by, done |-> FALSE, pending |-> FALSE]
<1>1. job \in Job
  BY DEF Job
<1> HIDE DEF job
<1>2. chain \in Seq(Job)
  BY DEF TInv, ChainT
<1>3. Link(items, by) = Append(chain, job)
  BY DEF Link, job
<1>4. QED
  BY <1>1, <1>2, <1>3, AppendProperties DEF job

\* Where an append finds its own line.
LEMMA FoundAtIs ==
  ASSUME NEW gap \in Seq(Item), NEW own, NEW n, n = FoundAt(gap, own)
  PROVE  \/ n = 0 /\ \A m \in 1..Len(gap) : ~(gap[m].kind = own.kind /\ gap[m].start <= own.start)
         \/ /\ n \in 1..Len(gap) /\ gap[n].kind = own.kind /\ gap[n].start <= own.start
            /\ \A m \in 1..Len(gap) :
                 m > n => ~(gap[m].kind = own.kind /\ gap[m].start <= own.start)
<1> DEFINE I == {i \in 1..Len(gap) : gap[i].kind = own.kind /\ gap[i].start <= own.start}
<1>1. n = IF I # {} THEN Max(I) ELSE 0
  BY DEF FoundAt, SelectLastInSeq
<1>2. CASE I = {}
  BY <1>1, <1>2
<1>3. CASE I # {}
  <2>1. Len(gap) \in Nat /\ I \subseteq 0..Len(gap)
    OBVIOUS
  <2>2. \E x \in I : \A y \in I : x >= y
    BY <1>3, <2>1, GreatestExists
  <2>3. Max(I) \in I /\ \A y \in I : Max(I) >= y
    BY <2>2 DEF Max
  <2>4. n \in I
    BY <1>1, <1>3, <2>3
  <2>5. ASSUME NEW m \in 1..Len(gap), m > n PROVE m \notin I
    BY <1>1, <1>3, <2>1, <2>3, <2>4, <2>5
  <2>6. QED
    BY <2>4, <2>5
<1>4. QED
  BY <1>2, <1>3

\* The lines before the own one, and those after it.
LEMMA GapSplits ==
  ASSUME NEW gap \in Seq(Item), NEW n \in 1..Len(gap)
  PROVE  /\ gap[n] \in Item /\ Last(gap) \in Item /\ Last(gap) = gap[Len(gap)]
         /\ SubSeq(gap, 1, n - 1) \in Seq(Item) /\ SubSeq(gap, n + 1, Len(gap)) \in Seq(Item)
         /\ Len(SubSeq(gap, 1, n - 1)) = n - 1
         /\ Len(SubSeq(gap, n + 1, Len(gap))) = Len(gap) - n
         /\ \A m \in 1..(n - 1) : SubSeq(gap, 1, n - 1)[m] = gap[m]
         /\ \A m \in 1..(Len(gap) - n) : SubSeq(gap, n + 1, Len(gap))[m] = gap[n + m]
<1>1. Len(gap) \in Nat /\ n \in Nat /\ n <= Len(gap) /\ n >= 1
  OBVIOUS
<1>2. gap[n] \in Item /\ gap[Len(gap)] \in Item /\ Last(gap) = gap[Len(gap)]
  BY <1>1, ElementOfSeq DEF Last
<1>3. /\ SubSeq(gap, 1, n - 1) \in Seq(Item)
      /\ Len(SubSeq(gap, 1, n - 1)) = n - 1
      /\ \A m \in 1..(n - 1) : SubSeq(gap, 1, n - 1)[m] = gap[m]
  <2>1. 1 \in Int /\ n - 1 \in Int /\ \A i \in 1..(n - 1) : gap[i] \in Item
    BY <1>1
  <2>2. /\ SubSeq(gap, 1, n - 1) \in Seq(Item)
        /\ Len(SubSeq(gap, 1, n - 1)) = IF 1 <= n - 1 THEN (n - 1) - 1 + 1 ELSE 0
        /\ \A i \in 1..((n - 1) - 1 + 1) : SubSeq(gap, 1, n - 1)[i] = gap[1 + i - 1]
    BY <2>1, SubSeqProperties
  <2>3. QED
    BY <1>1, <2>2
<1>4. /\ SubSeq(gap, n + 1, Len(gap)) \in Seq(Item)
      /\ Len(SubSeq(gap, n + 1, Len(gap))) = Len(gap) - n
      /\ \A m \in 1..(Len(gap) - n) : SubSeq(gap, n + 1, Len(gap))[m] = gap[n + m]
  <2>1. n + 1 \in Int /\ Len(gap) \in Int /\ \A i \in (n + 1)..Len(gap) : gap[i] \in Item
    BY <1>1
  <2>2. /\ SubSeq(gap, n + 1, Len(gap)) \in Seq(Item)
        /\ Len(SubSeq(gap, n + 1, Len(gap))) =
             IF n + 1 <= Len(gap) THEN Len(gap) - (n + 1) + 1 ELSE 0
        /\ \A i \in 1..(Len(gap) - (n + 1) + 1) :
             SubSeq(gap, n + 1, Len(gap))[i] = gap[n + 1 + i - 1]
    BY <2>1, SubSeqProperties
  <2>3. QED
    BY <1>1, <2>2
<1>5. QED
  BY <1>2, <1>3, <1>4

LEMMA BatchIsItems ==
  ASSUME NEW before \in Seq(Item), NEW own \in Item, NEW after \in Seq(Item)
  PROVE  /\ Batch(before, own, after) \in Seq(Item)
         /\ Len(Batch(before, own, after)) = Len(before) + 1 + Len(after)
         /\ \A m \in 1..Len(before) : Batch(before, own, after)[m] = before[m]
         /\ Batch(before, own, after)[Len(before) + 1] = own
         /\ \A m \in 1..Len(after) : Batch(before, own, after)[Len(before) + 1 + m] = after[m]
<1>1. <<own>> \in Seq(Item) /\ Len(<<own>>) = 1 /\ <<own>>[1] = own
  OBVIOUS
<1>2. /\ before \o <<own>> \in Seq(Item) /\ Len(before \o <<own>>) = Len(before) + 1
      /\ \A m \in 1..Len(before) : (before \o <<own>>)[m] = before[m]
      /\ (before \o <<own>>)[Len(before) + 1] = own
  BY <1>1, ConcatProperties
<1>3. QED
  BY <1>2, ConcatProperties DEF Batch

LEMMA TypedConclude ==
  ASSUME TInv, NEW w \in Writers, NEW own \in Item, NEW before \in Seq(Item),
         NEW after \in Seq(Item), NEW end \in Nat,
         Conclude(w, own, before, after, end), ConcludeRest' = ConcludeRest
  PROVE  TInv'
<1> USE DEF ConcludeRest, disk
<1>1. DiskT' /\ Len(files') >= Len(files) /\ Len(files') \in Nat
  BY SameDisk, PathFile
<1>2. ReaderT' /\ FiberT'
  BY <1>1, Frame
<1>3. consumed \in Nat /\ consumed' \in Nat
  BY DEF TInv, AdoptedT, Conclude, Larger
<1>4. Idle \in Appending /\ Idle.pc = "idle" /\ [pc |-> "publish"] \in Appending
  BY DEF Idle, Appending, Append0
<1>5. CASE own.kind = "odd"
  <2>1. /\ wr' = [wr EXCEPT ![w] = Idle] /\ permit' = NoOne
        /\ UNCHANGED <<latest, chain, identity, sent, closer, breaches, files>>
    BY <1>5 DEF Conclude, Fails
  <2>2. AppendT'
    BY <1>1, <1>4, <2>1, TypedMove
  <2>3. AdoptedT' /\ ChainT' /\ RestT'
    BY <1>1, <1>3, <2>1, Frame DEF TInv, AdoptedT, RestT
  <2>4. QED
    BY <1>1, <1>2, <2>2, <2>3 DEF TInv
<1>6. CASE own.kind # "odd"
  <2>1. /\ wr' = [wr EXCEPT ![w] = [pc |-> "publish"]] /\ permit' = NoOne
        /\ latest' = LastEnvelope(after, own)
        /\ chain' = Link(Batch(before, own, after), w)
        /\ UNCHANGED <<identity, sent, closer, breaches, files>>
    BY <1>6 DEF Conclude, Newest
  <2>2. AppendT'
    BY <1>1, <1>4, <2>1, TypedMove
  <2>3. latest' \in Item \cup {None}
    BY <2>1, LastEnvelopeIsItem
  <2>4. chain' \in Seq(Job)
    BY <2>1, BatchIsItems, LinkIsChain
  <2>5. AdoptedT' /\ ChainT' /\ RestT'
    BY <1>1, <1>3, <2>1, <2>3, <2>4 DEF TInv, AdoptedT, RestT, ChainT
  <2>6. QED
    BY <1>1, <1>2, <2>2, <2>5 DEF TInv
<1>7. QED
  BY <1>5, <1>6

LEMMA GuessedIsItem ==
  ASSUME TInv, NEW w \in Writers, wr[w].pc \in {"fstat", "scan"}, NEW end \in Nat
  PROVE  Guessed(w, end) \in Item
<1>1. wr[w].file \in Nat /\ wr[w].kind \in ItemKinds
  BY AppendParts, PathFile, JournalAssumption DEF ItemKinds
<1>2. QED
  BY <1>1 DEF Guessed, Item

LEMMA TypedAppends ==
  ASSUME TInv, NEW w \in Writers,
         \/ \E kind \in Kinds : Append_(w, kind)
         \/ WriterStep(w) \/ WriteFails(w) \/ Interrupt(w)
  PROVE  TInv'
<1> USE DEF At
<1>1. /\ path \in 0..Len(files) /\ files \in Seq(File) /\ Len(files) \in Nat
      /\ half \in Torn \cup {None} /\ (half # None => half.file \in 1..Len(files))
      /\ permit \in Writers \cup {NoOne, Supervisor}
  BY PathFile DEF TInv, DiskT, RestT
\* A step that leaves the disk, what was adopted and the chain alone.
<1>2. ASSUME NEW a \in Appending, a.pc \in {"fstat", "scan"} => a.file \in 1..Len(files),
             wr' = [wr EXCEPT ![w] = a], permit' \in Writers \cup {NoOne, Supervisor},
             UNCHANGED AppendRest
      PROVE  TInv'
  <2>1. DiskT' /\ Len(files') >= Len(files) /\ Len(files') \in Nat
    BY <1>1, <1>2, SameDisk DEF AppendRest, disk
  <2>2. AppendT'
    BY <1>2, <2>1, TypedMove DEF AppendRest, disk
  <2>3. AdoptedT' /\ ChainT' /\ FiberT' /\ ReaderT' /\ RestT'
    BY <1>2, <2>1, Frame DEF AppendRest, disk, adopted, TInv, RestT
  <2>4. QED
    BY <2>1, <2>2, <2>3 DEF TInv
<1>3. ASSUME Fails(w), UNCHANGED AppendRest PROVE TInv'
  BY <1>2, <1>3, AppendParts DEF Fails, RestT
<1>4. ASSUME NEW kind \in Kinds, Append_(w, kind) PROVE TInv'
  <2>1. [pc |-> "queued", kind |-> kind] \in Appending
    BY DEF Appending, Append1
  <2>2. QED
    BY <1>1, <1>2, <1>4, <2>1 DEF Append_
<1>5. ASSUME Enter(w) PROVE TInv'
  <2>1. CASE closed
    BY <1>3, <1>5, <2>1 DEF Enter
  <2>2. CASE ~closed
    <3> DEFINE a == [wr[w] EXCEPT !.pc = "stat"]
    <3>1. a \in Appending /\ a.pc = "stat"
      BY <1>5, AppendParts DEF Enter, Append1, Appending
    <3>2. wr' = [wr EXCEPT ![w] = a] /\ permit' = w /\ UNCHANGED AppendRest
      BY <1>5, <2>2 DEF Enter
    <3> HIDE DEF a
    <3>3. QED
      BY <1>2, <3>1, <3>2
  <2>3. QED
    BY <2>1, <2>2
<1>6. ASSUME Stat(w) PROVE TInv'
  <2>1. CASE ~Admissible(wr[w].kind)
    BY <1>3, <1>6, <2>1 DEF Stat
  <2>2. CASE Admissible(wr[w].kind)
    <3> DEFINE a == [wr[w] EXCEPT !.pc = "write"]
    <3>1. a \in Appending /\ a.pc = "write"
      BY <1>6, AppendParts DEF Stat, Append1, Appending
    <3>2. wr' = [wr EXCEPT ![w] = a] /\ permit' = permit /\ UNCHANGED AppendRest
      BY <1>6, <2>2 DEF Stat
    <3> HIDE DEF a
    <3>3. QED
      BY <1>1, <1>2, <3>1, <3>2
  <2>3. QED
    BY <2>1, <2>2
<1>7. ASSUME Write(w) PROVE TInv'
  <2> DEFINE a == [pc |-> "fstat", kind |-> wr[w].kind, file |-> OpenedAt]
             old == IF path = 0 THEN FileOf(<<>>) ELSE files[path]
             new == Landed(old, wr[w].kind)
  <2>1. wr[w].kind \in Kinds /\ wr[w].kind \in ItemKinds
    BY <1>7, AppendParts, JournalAssumption DEF Write, ItemKinds
  <2>2. old \in File
    BY EmptyFile, PathFile
  <2>3. new \in File
    BY <2>1, <2>2, LandedIsFile
  <2>4. /\ Target \in Seq(File) /\ Len(Target) >= Len(files) /\ OpenedAt \in 1..Len(Target)
        /\ Target[OpenedAt] = old
    BY <1>1, EmptyFile, FilesChange, PathFile DEF Target, OpenedAt
  <2>5. /\ files' = [Target EXCEPT ![OpenedAt] = new] /\ path' = OpenedAt
        /\ wr' = [wr EXCEPT ![w] = a]
        /\ UNCHANGED <<permit, half, breaches, consumed, identity, latest, chain, sent, sub, sup, closer>>
    BY <1>7, <2>4 DEF Write, WriteRest, adopted
  <2> HIDE DEF new, old
  <2>6. files' \in Seq(File) /\ Len(files') = Len(Target)
    BY <2>3, <2>4, <2>5, ExceptSeq
  <2>7. DiskT' /\ Len(files') >= Len(files) /\ Len(files') \in Nat
    BY <1>1, <2>4, <2>5, <2>6 DEF DiskT
  <2>8. a \in Appending /\ a.file \in 1..Len(files')
    BY <2>1, <2>4, <2>6 DEF Appending, Append2
  <2> HIDE DEF a
  <2>9. AppendT'
    BY <2>5, <2>7, <2>8, TypedMove
  <2>10. AdoptedT' /\ ChainT' /\ FiberT' /\ ReaderT' /\ RestT'
    BY <2>5, <2>7, Frame
  <2>11. QED
    BY <2>7, <2>9, <2>10 DEF TInv
<1>8. ASSUME WriteFails(w) PROVE TInv'
  <2>1. /\ wr' = [wr EXCEPT ![w] = Idle] /\ permit' = NoOne
        /\ UNCHANGED <<path, half, breaches, consumed, identity, latest, chain, sent, sub, sup, closer>>
    BY <1>8 DEF WriteFails, WriteRest, adopted, Fails
  <2> DEFINE f == [files[path] EXCEPT !.torn = "own"]
  <2>2. path \in 1..Len(files) /\ f \in File
    BY <1>8, PathFile DEF WriteFails, File
  <2>3. files' = files \/ files' = [files EXCEPT ![path] = f]
    BY <1>8 DEF WriteFails
  <2> HIDE DEF f
  <2>4. DiskT' /\ Len(files') >= Len(files) /\ Len(files') \in Nat
    BY <1>1, <2>1, <2>2, <2>3, FilesChange DEF DiskT
  <2>5. AppendT'
    BY <2>1, <2>4, TypedMove, AppendParts
  <2>6. AdoptedT' /\ ChainT' /\ FiberT' /\ ReaderT' /\ RestT'
    BY <2>1, <2>4, Frame DEF TInv, RestT
  <2>7. QED
    BY <2>4, <2>5, <2>6 DEF TInv
<1>9. ASSUME Fstat(w) PROVE TInv'
  <2> DEFINE end == Size(files[wr[w].file])
             own == Guessed(w, end)
             a == [pc |-> "scan", kind |-> wr[w].kind, file |-> wr[w].file, end |-> end]
  <2>1. /\ wr[w].pc = "fstat" /\ wr[w].file \in 1..Len(files) /\ wr[w].kind \in Kinds
        /\ wr[w].file \in Nat
    BY <1>1, <1>9, AppendParts DEF Fstat
  <2>2. end \in Nat
    BY <2>1, PathFile, FileParts
  <2>3. own \in Item /\ <<>> \in Seq(Item)
    BY <2>1, <2>2, GuessedIsItem, EmptySeq
  <2>4. a \in Appending /\ a.pc = "scan" /\ a.file = wr[w].file
    BY <2>1, <2>2 DEF Appending, Append3
  <2>5. /\ UNCHANGED ConcludeRest
        /\ IF own.start = consumed THEN Conclude(w, own, <<>>, <<>>, end)
           ELSE wr' = [wr EXCEPT ![w] = a] /\ UNCHANGED <<consumed, permit, latest, chain>>
    BY <1>9 DEF Fstat
  <2> HIDE DEF end, own, a
  <2>6. CASE own.start = consumed
    BY <2>2, <2>3, <2>5, <2>6, TypedConclude
  <2>7. CASE own.start # consumed
    BY <1>1, <1>2, <2>1, <2>4, <2>5, <2>7 DEF ConcludeRest, AppendRest, adopted
  <2>8. QED
    BY <2>6, <2>7
<1>10. ASSUME ScanGap(w) PROVE TInv'
  <2> DEFINE gap == Items(path, consumed, wr[w].end)
             own == Guessed(w, wr[w].end)
             n == FoundAt(gap, own)
  <2>1. wr[w].pc = "scan" /\ wr[w].end \in Nat /\ path # 0 /\ consumed \in Nat
    BY <1>10, AppendParts DEF ScanGap, Append3, TInv, AdoptedT
  <2>2. gap \in Seq(Item)
    <3>1. path \in Nat /\ consumed \in Int /\ files[path].lines \in Seq(Line)
      BY <1>1, <2>1, PathFile, FileParts
    <3>2. QED
      BY <3>1, ItemsAre
  <2>3. own \in Item /\ <<>> \in Seq(Item)
    BY <2>1, GuessedIsItem, EmptySeq
  <2>4. n = 0 \/ n \in 1..Len(gap)
    BY <2>2, FoundAtIs
  <2>5. /\ UNCHANGED ConcludeRest
        /\ IF n # 0
           THEN Conclude(w, gap[n], SubSeq(gap, 1, n - 1), SubSeq(gap, n + 1, Len(gap)), Last(gap).end)
           ELSE Conclude(w, own, gap, <<>>, wr[w].end)
    BY <1>10 DEF ScanGap
  <2> HIDE DEF gap, own, n
  <2>6. CASE n # 0
    <3>1. /\ gap[n] \in Item /\ Last(gap) \in Item
          /\ SubSeq(gap, 1, n - 1) \in Seq(Item) /\ SubSeq(gap, n + 1, Len(gap)) \in Seq(Item)
      BY <2>2, <2>4, <2>6, GapSplits
    <3>2. Last(gap).end \in Nat
      BY <3>1 DEF Item
    <3>3. QED
      BY <2>5, <2>6, <3>1, <3>2, TypedConclude
  <2>7. CASE n = 0
    BY <2>1, <2>2, <2>3, <2>5, <2>7, TypedConclude
  <2>8. QED
    BY <2>6, <2>7
<1>11. ASSUME ScanFails(w) PROVE TInv'
  BY <1>3, <1>11 DEF ScanFails
<1>12. ASSUME wr' = [wr EXCEPT ![w] = Idle], chain' = PassedBy(w),
              permit' \in Writers \cup {NoOne, Supervisor},
              UNCHANGED <<disk, adopted, sent, sub, sup, watch, closer>>
       PROVE  TInv'
  <2>1. DiskT' /\ Len(files') >= Len(files) /\ Len(files') \in Nat
    BY <1>1, <1>12, SameDisk DEF disk
  <2>2. AppendT'
    BY <1>12, <2>1, TypedMove, AppendParts
  <2>3. ChainT'
    BY <1>12, PassedIsChain DEF TInv, ChainT
  <2>4. AdoptedT' /\ FiberT' /\ ReaderT' /\ RestT'
    BY <1>12, <2>1, Frame DEF disk, adopted, TInv, RestT
  <2>5. QED
    BY <2>1, <2>2, <2>3, <2>4 DEF TInv
<1>13. ASSUME Answer(w) PROVE TInv'
  BY <1>1, <1>12, <1>13 DEF Answer
<1>14. ASSUME Interrupt(w) PROVE TInv'
  BY <1>1, <1>12, <1>14 DEF Interrupt, Relinquished
<1>15. QED
  BY <1>4, <1>5, <1>6, <1>7, <1>8, <1>9, <1>10, <1>11, <1>13, <1>14 DEF WriterStep

\* Where the supervisor goes, and what it keeps.
LEMMA FiberGoes ==
  ASSUME TInv
  PROVE  /\ \A pc \in SupPlaces :
              /\ [sup EXCEPT !.pc = pc] \in Fiber
              /\ [sup EXCEPT !.pc = pc].file = sup.file
              /\ [sup EXCEPT !.pc = pc].pc = pc
         /\ \A s \in {NextCycle, Returned, Failed} \cup
                     {IngestThen(after) : after \in {"loop", "follow", "await", "created"}} :
              s \in Fiber /\ s.file = 0
         /\ Built \in Fiber /\ Built.file = sup.file
<1>1. sup \in Fiber
  BY DEF TInv, FiberT
<1>2. ASSUME NEW pc \in SupPlaces
      PROVE  /\ [sup EXCEPT !.pc = pc] \in Fiber
             /\ [sup EXCEPT !.pc = pc].file = sup.file
             /\ [sup EXCEPT !.pc = pc].pc = pc
  BY <1>1, <1>2 DEF Fiber
<1>3. Settled \in Fiber /\ Settled.file = 0
  <2>1. Settled = [[[sup EXCEPT !.floor = 0] EXCEPT !.size = 0] EXCEPT !.file = 0]
    BY <1>1 DEF Settled, Fiber
  <2>2. \A s \in Fiber : [s EXCEPT !.floor = 0] \in Fiber /\ [s EXCEPT !.size = 0] \in Fiber
                         /\ [s EXCEPT !.file = 0] \in Fiber /\ [s EXCEPT !.file = 0].file = 0
    BY DEF Fiber
  <2> HIDE DEF Settled
  <2>3. QED
    BY <1>1, <2>1, <2>2
<1> HIDE DEF Settled
<1>4. ASSUME NEW s \in Fiber
      PROVE  /\ \A pc \in SupPlaces : [s EXCEPT !.pc = pc] \in Fiber /\ [s EXCEPT !.pc = pc].file = s.file
             /\ \A after \in {"loop", "follow", "await", "created"} :
                  [s EXCEPT !.after = after] \in Fiber /\ [s EXCEPT !.after = after].file = s.file
             /\ \A n \in Nat : [s EXCEPT !.idle = n] \in Fiber /\ [s EXCEPT !.idle = n].file = s.file
             /\ [s EXCEPT !.built = TRUE] \in Fiber /\ [s EXCEPT !.built = TRUE].file = s.file
  BY DEF Fiber
<1>5. NextCycle \in Fiber /\ NextCycle.file = 0
  <2> DEFINE idle == IF consumed = sup.startedAt THEN sup.idle + 1 ELSE 0
             there == IF idle > MaxRearms THEN "gone" ELSE "look"
  <2>1. idle \in Nat /\ there \in SupPlaces
    <3>1. sup.idle \in Nat
      BY <1>1 DEF Fiber
    <3>2. idle \in Nat
      BY <3>1
    <3>3. QED
      BY <3>2 DEF SupPlaces
  <2>2. NextCycle = [Settled EXCEPT !.idle = idle, !.pc = there]
    BY DEF NextCycle
  <2> HIDE DEF idle, there
  <2> DEFINE idled == [Settled EXCEPT !.idle = idle]
  <2>3. NextCycle = [idled EXCEPT !.pc = there]
    BY <1>3, <2>2 DEF Fiber
  <2>4. idled \in Fiber /\ idled.file = 0
    BY <1>3, <1>4, <2>1
  <2> HIDE DEF idled
  <2>5. [idled EXCEPT !.pc = there] \in Fiber /\ [idled EXCEPT !.pc = there].file = idled.file
    BY <1>4, <2>1, <2>4
  <2>6. QED
    BY <2>3, <2>4, <2>5
<1>6. ASSUME NEW after \in {"loop", "follow", "await", "created"}
      PROVE  IngestThen(after) \in Fiber /\ IngestThen(after).file = 0
  <2>1. IngestThen(after) = [[Settled EXCEPT !.pc = "ingest"] EXCEPT !.after = after]
    BY <1>3 DEF IngestThen, Fiber
  <2>2. "ingest" \in SupPlaces
    BY DEF SupPlaces
  <2>3. [Settled EXCEPT !.pc = "ingest"] \in Fiber /\ [Settled EXCEPT !.pc = "ingest"].file = 0
    BY <1>3, <1>4, <2>2
  <2> DEFINE there == [Settled EXCEPT !.pc = "ingest"]
  <2>4. there \in Fiber /\ there.file = 0 /\ IngestThen(after) = [there EXCEPT !.after = after]
    BY <2>1, <2>3
  <2> HIDE DEF there
  <2>5. /\ [there EXCEPT !.after = after] \in Fiber
        /\ [there EXCEPT !.after = after].file = there.file
    BY <1>4, <2>4
  <2>6. QED
    BY <2>4, <2>5
<1>7. sup.after \in {"loop", "follow", "await", "created"}
  BY <1>1 DEF Fiber
<1>8. Returned \in Fiber /\ Returned.file = 0
  BY ZenonT(30), <1>3, <1>4, <1>5, <1>7 DEF Returned, SupPlaces
<1>9. Failed \in Fiber /\ Failed.file = 0
  BY <1>3, <1>4, <1>5, <1>6, <1>7 DEF Failed, SupPlaces
<1>10. Built \in Fiber /\ Built.file = sup.file
  <2>1. Built = [[sup EXCEPT !.pc = "look"] EXCEPT !.built = TRUE]
    BY <1>1 DEF Built, Fiber
  <2>2. QED
    BY ZenonT(30), <1>1, <1>4, <2>1 DEF SupPlaces
<1>11. QED
  BY <1>2, <1>5, <1>6, <1>8, <1>9, <1>10

\* What the hub delivers while it has room.
LEMMA DeliveredIsTyped ==
  ASSUME TInv, HubHasRoom, NEW message \in Message, sub' = Delivered(message)
  PROVE  /\ ReaderT'
         /\ \A r \in Readers :
              /\ ~Attached(r) => sub'[r] = sub[r]
              /\ Attached(r) =>
                   /\ sub[r] \in Subscribed
                   /\ sub'[r] = [sub[r] EXCEPT !.queue = Append(@, message)]
<1>1. ASSUME NEW r \in Readers
      PROVE  /\ sub'[r] \in Subscribed \cup {NotSubscribed} /\ Len(sub'[r].queue) <= Capacity
             /\ ~Attached(r) => sub'[r] = sub[r]
             /\ Attached(r) =>
                  /\ sub[r] \in Subscribed
                  /\ sub'[r] = [sub[r] EXCEPT !.queue = Append(@, message)]
  <2>1. /\ sub[r] \in Subscribed \cup {NotSubscribed} /\ Len(sub[r].queue) <= Capacity
        /\ Capacity \in Nat
    BY JournalAssumption DEF TInv, ReaderT
  <2>2. CASE ~Attached(r)
    <3>1. sub'[r] = sub[r]
      BY <2>2 DEF Delivered
    <3>2. QED
      BY <2>1, <2>2, <3>1
  <2>3. CASE Attached(r)
    <3>1. sub[r] \in Subscribed
      BY <2>1, <2>3 DEF Attached, NotSubscribed
    <3>2. sub'[r] = [sub[r] EXCEPT !.queue = Append(sub[r].queue, message)]
      BY <2>3 DEF Delivered
    <3>3. sub[r].queue \in Seq(Message) /\ Len(sub[r].queue) < Capacity
      BY <2>3, <3>1 DEF HubHasRoom, Subscribed
    <3>4. /\ Append(sub[r].queue, message) \in Seq(Message)
          /\ Len(Append(sub[r].queue, message)) = Len(sub[r].queue) + 1
      BY <3>3, AppendProperties
    <3>5. sub'[r] \in Subscribed /\ sub'[r].queue = Append(sub[r].queue, message)
      BY <3>1, <3>2, <3>4 DEF Subscribed
    <3>6. Len(sub[r].queue) \in Nat
      BY <3>3
    <3>7. Len(sub'[r].queue) <= Capacity
      BY <2>1, <3>3, <3>4, <3>5, <3>6
    <3>8. QED
      BY <2>3, <3>1, <3>2, <3>5, <3>7
  <2>4. QED
    BY <2>2, <2>3
<1>2. sub' = [r \in Readers |-> sub'[r]]
  BY DEF Delivered
<1>3. QED
  BY <1>1, <1>2 DEF ReaderT

LEMMA TypedSupervisor == TInv /\ SupervisorStep => TInv'
<1> SUFFICES ASSUME TInv, SupervisorStep PROVE TInv'
  OBVIOUS
<1> USE DEF SupAt, EngineRest, LookRest, disk, adopted
<1>1. /\ path \in 0..Len(files) /\ Len(files) \in Nat
      /\ permit \in Writers \cup {NoOne, Supervisor}
      /\ consumed \in Nat /\ identity \in 0..Len(files) /\ latest \in Item \cup {None}
      /\ breaches \in Nat /\ closer \in {"open", "refusing", "draining", "ended", "gave up"}
      /\ chain \in Seq(Job) /\ sent \in Seq(Item)
      /\ sup \in Fiber /\ sup.file \in 0..Len(files)
  BY PathFile DEF TInv, DiskT, RestT, AdoptedT, ChainT, FiberT
<1>2. ASSUME UNCHANGED <<files, path, half, breaches, wr, sub, closer>>,
             sup' \in Fiber, sup'.file \in 0..Len(files),
             consumed' \in Nat, identity' \in 0..Len(files), latest' \in Item \cup {None},
             chain' \in Seq(Job), UNCHANGED sent, permit' \in Writers \cup {NoOne, Supervisor}
      PROVE  TInv'
  <2>1. DiskT' /\ Len(files') >= Len(files)
    BY <1>2, SameDisk
  <2>2. AppendT' /\ ReaderT'
    BY <1>2, <2>1, Frame
  <2>3. AdoptedT' /\ ChainT' /\ FiberT' /\ RestT'
    BY <1>1, <1>2 DEF AdoptedT, ChainT, FiberT, RestT
  <2>4. QED
    BY <2>1, <2>2, <2>3 DEF TInv
<1>3. /\ \A pc \in SupPlaces : [sup EXCEPT !.pc = pc] \in Fiber /\ [sup EXCEPT !.pc = pc].file = sup.file
      /\ \A s \in {NextCycle, Returned, Failed} \cup
                  {IngestThen(after) : after \in {"loop", "follow", "await", "created"}} :
           s \in Fiber /\ s.file = 0
      /\ Built \in Fiber /\ Built.file = sup.file
  BY FiberGoes
<1>4. ASSUME UNCHANGED LookRest, sup' \in Fiber, sup'.file \in 0..Len(files) PROVE TInv'
  BY <1>1, <1>2, <1>4
<1>5. 0 \in 0..Len(files) /\ path \in Nat
  <2>1. path \in 0..Len(files) /\ Len(files) \in Nat
    BY <1>1
  <2>2. QED
    BY <2>1
<1>6. ASSUME UNCHANGED LookRest,
             \/ sup' \in {NextCycle, Returned, Failed}
             \/ \E after \in {"loop", "follow", "await", "created"} : sup' = IngestThen(after)
             \/ \E pc \in SupPlaces : sup' = [sup EXCEPT !.pc = pc]
      PROVE  TInv'
  BY <1>1, <1>3, <1>4, <1>5, <1>6
<1>7. CASE Construct
  <2>1. sup' \in Fiber /\ sup'.file = sup.file
    BY <1>3, <1>7 DEF Construct, SupPlaces
  <2>2. identity' = path
    BY <1>7 DEF Construct
  <2>3. QED
    BY <1>1, <1>2, <1>7, <2>1, <2>2 DEF Construct
<1>8. CASE SeedFails
  <2>1. sup' \in Fiber /\ sup'.file \in {0, sup.file}
    BY <1>3, <1>8 DEF SeedFails
  <2>2. QED
    BY <1>1, <1>2, <1>5, <1>8, <2>1 DEF SeedFails
<1>9. CASE SeedResume
  <2>1. ResumePoint \in Nat
    BY <1>9, PathFile, FileParts DEF SeedResume, ResumePoint
  <2>2. sup' = [[sup EXCEPT !.pc = "tail"] EXCEPT !.base = ResumePoint]
    BY <1>1, <1>9 DEF SeedResume, Fiber
  <2>3. \A s \in Fiber : [s EXCEPT !.base = ResumePoint] \in Fiber
                         /\ [s EXCEPT !.base = ResumePoint].file = s.file
    BY <2>1 DEF Fiber
  <2>4. sup' \in Fiber /\ sup'.file = sup.file
    BY <1>1, <1>3, <2>2, <2>3 DEF SupPlaces
  <2>5. QED
    BY <1>1, <1>2, <1>9, <2>1, <2>4 DEF SeedResume
<1>10. CASE SeedLatest
  <2>1. sup' \in Fiber /\ sup'.file = sup.file
    BY <1>3, <1>10 DEF SeedLatest, SupPlaces
  <2>2. AllItems(path) \in Seq(Item)
    <3>1. path # 0 /\ path \in Nat /\ 0 \in Int
      BY <1>5, <1>10 DEF SeedLatest
    <3>2. files[path].lines \in Seq(Line)
      BY <3>1, PathFile, FileParts
    <3>3. QED
      BY <3>1, <3>2, ItemsAre DEF AllItems
  <2>3. latest' \in Item \cup {None}
    BY <1>10, <2>2, LastEnvelopeIsItem DEF SeedLatest
  <2>4. QED
    BY <1>1, <1>2, <1>10, <2>1, <2>3 DEF SeedLatest
<1>11. CASE Look
  <2> DEFINE there == IF path = 0 THEN "arm directory" ELSE "arm"
  <2>1. there \in SupPlaces
    BY DEF SupPlaces
  <2>2. sup' = [sup EXCEPT !.pc = there, !.startedAt = consumed]
    BY <1>11 DEF Look
  <2> HIDE DEF there
  <2>3. sup' = [[sup EXCEPT !.pc = there] EXCEPT !.startedAt = consumed]
    BY <1>1, <2>2 DEF Fiber
  <2>4. \A s \in Fiber : [s EXCEPT !.startedAt = consumed] \in Fiber
                         /\ [s EXCEPT !.startedAt = consumed].file = s.file
    BY <1>1 DEF Fiber
  <2>5. sup' \in Fiber /\ sup'.file = sup.file
    BY <1>3, <2>1, <2>3, <2>4
  <2>6. QED
    BY <1>1, <1>4, <1>11, <2>5 DEF Look
<1>12. CASE Arm
  BY <1>6, <1>12 DEF Arm, Armed
<1>13. CASE Follow
  BY <1>6, <1>13 DEF Follow
<1>14. CASE ArmDirectory
  BY <1>6, <1>14 DEF ArmDirectory, SupGoes, SupPlaces
<1>15. CASE Check
  BY <1>6, <1>15 DEF Check, SupGoes, SupPlaces
<1>16. CASE Await
  BY <1>6, <1>16 DEF Await
<1>17. CASE Floor
  <2>1. sup' = [[sup EXCEPT !.pc = "sample"] EXCEPT !.floor = consumed]
    BY <1>1, <1>17 DEF Floor, Fiber
  <2>2. \A s \in Fiber : [s EXCEPT !.floor = consumed] \in Fiber
                         /\ [s EXCEPT !.floor = consumed].file = s.file
    BY <1>1 DEF Fiber
  <2>3. sup' \in Fiber /\ sup'.file = sup.file
    BY <1>3, <2>1, <2>2 DEF SupPlaces
  <2>4. QED
    BY <1>1, <1>4, <1>17, <2>3 DEF Floor
<1>18. CASE Sample
  <2>1. CASE path = 0
    BY <1>6, <1>18, <2>1 DEF Sample
  <2>2. CASE path # 0
    <3> DEFINE size == Size(files[path])
    <3>1. size \in Nat /\ path \in Nat
      BY <1>5, <2>2, PathFile, FileParts
    <3>2. sup' = [sup EXCEPT !.pc = "judge", !.file = path, !.size = size]
      BY <1>18, <2>2 DEF Sample
    <3> HIDE DEF size
    <3>3. sup' = [[[sup EXCEPT !.pc = "judge"] EXCEPT !.file = path] EXCEPT !.size = size]
      BY <1>1, <3>2 DEF Fiber
    <3>4. \A s \in Fiber : /\ [s EXCEPT !.file = path] \in Fiber /\ [s EXCEPT !.file = path].file = path
                           /\ [s EXCEPT !.size = size] \in Fiber /\ [s EXCEPT !.size = size].file = s.file
      BY <3>1 DEF Fiber
    <3>5. sup' \in Fiber /\ sup'.file = path
      BY ZenonT(30), <1>3, <3>3, <3>4 DEF SupPlaces
    <3>6. QED
      BY <1>1, <1>4, <1>18, <3>5 DEF Sample
  <2>3. QED
    BY <2>1, <2>2
<1>19. CASE Judge
  <2>1. sup' \in Fiber /\ sup'.file \in {0, sup.file}
    BY <1>3, <1>19 DEF Judge, SupGoes, SupPlaces
  <2>2. identity' \in {identity, sup.file}
    BY <1>19 DEF Judge
  <2>3. QED
    BY <1>1, <1>2, <1>5, <1>19, <2>1, <2>2 DEF Judge
<1>20. CASE ReadGap
  <2>1. CASE path = 0
    BY <1>1, <1>2, <1>3, <1>5, <1>20, <2>1 DEF ReadGap
  <2>2. CASE path # 0
    <3> DEFINE gap == Items(path, consumed, sup.size)
    <3>1. gap \in Seq(Item)
      <4>1. consumed \in Int
        BY DEF TInv, AdoptedT
      <4>2. path \in Nat /\ files[path].lines \in Seq(Line)
        BY <1>5, <2>2, PathFile, FileParts
      <4>3. QED
        BY <4>1, <4>2, ItemsAre
    <3>2. /\ consumed' = IF gap = <<>> THEN consumed ELSE Last(gap).end
          /\ latest' = LastEnvelope(gap, latest)
          /\ chain' = Link(gap, Supervisor)
          /\ sup' = [sup EXCEPT !.pc = "publish"]
          /\ UNCHANGED <<EngineRest, identity, permit, watch>>
      BY <1>20, <2>2 DEF ReadGap, SupGoes
    <3> HIDE DEF gap
    <3>3. consumed' \in Nat
      <4>1. CASE gap = <<>>
        BY <1>1, <3>2, <4>1
      <4>2. CASE gap # <<>>
        <5>1. Len(gap) \in 1..Len(gap)
          BY <3>1, <4>2, EmptySeq
        <5>2. Last(gap) \in Item
          BY <3>1, <5>1, ElementOfSeq DEF Last
        <5>3. QED
          BY <3>2, <4>2, <5>2 DEF Item
      <4>3. QED
        BY <4>1, <4>2
    <3>4. latest' \in Item \cup {None}
      BY <1>1, <3>1, <3>2, LastEnvelopeIsItem
    <3>5. chain' \in Seq(Job)
      BY <3>1, <3>2, LinkIsChain
    <3>6. sup' \in Fiber /\ sup'.file = sup.file
      BY <1>3, <3>2 DEF SupPlaces
    <3>7. QED
      BY <1>1, <1>2, <3>2, <3>3, <3>4, <3>5, <3>6
  <2>3. QED
    BY <2>1, <2>2
<1>21. CASE PublishedGap
  BY <1>1, <1>2, <1>3, <1>5, <1>21, PassedIsChain DEF PublishedGap
<1>22. CASE Reseed
  <2>1. CASE path = 0
    <3>1. sup' = [[sup EXCEPT !.pc = "announce"] EXCEPT !.base = 0]
      BY <1>1, <1>22, <2>1 DEF Reseed, Fiber
    <3>2. \A s \in Fiber : [s EXCEPT !.base = 0] \in Fiber /\ [s EXCEPT !.base = 0].file = s.file
      BY DEF Fiber
    <3>3. sup' \in Fiber /\ sup'.file = sup.file
      BY <1>3, <3>1, <3>2 DEF SupPlaces
    <3>4. QED
      BY <1>1, <1>2, <1>5, <1>22, <2>1, <3>3 DEF Reseed
  <2>2. CASE path # 0
    <3>1. sup' \in Fiber /\ sup'.file = sup.file
      BY <1>3, <1>22, <2>2 DEF Reseed, SupGoes, SupPlaces
    <3>2. QED
      BY <1>1, <1>2, <1>22, <2>2, <3>1 DEF Reseed
  <2>3. QED
    BY <2>1, <2>2
<1>23. CASE Announce
  <2>1. DiskT' /\ Len(files') >= Len(files)
    BY <1>23, SameDisk DEF Announce
  <2>2. sup' \in Fiber /\ sup'.file \in 0..Len(files)
    BY <1>3, <1>5, <1>23 DEF Announce
  <2>3. AdoptedT' /\ ChainT' /\ AppendT' /\ RestT'
    BY <1>23, <2>1, Frame DEF Announce
  <2>4. FiberT'
    BY <1>23, <2>2 DEF Announce, FiberT
  <2>5. ReaderT'
    BY <1>23, DeliveredIsTyped DEF Announce, Message
  <2>6. QED
    BY <2>1, <2>3, <2>4, <2>5 DEF TInv
<1>24. QED
  BY <1>7, <1>8, <1>9, <1>10, <1>11, <1>12, <1>13, <1>14, <1>15, <1>16, <1>17, <1>18, <1>19,
     <1>20, <1>21, <1>22, <1>23 DEF SupervisorStep

LEMMA TypedPublish == TInv /\ PublishStep => TInv'
<1> SUFFICES ASSUME TInv, NEW n \in DOMAIN chain, Publish(n) PROVE TInv'
  BY DEF PublishStep
<1> DEFINE rest == Tail(chain[n].items)
           job == [chain[n] EXCEPT !.items = rest]
<1>1. chain \in Seq(Job) /\ sent \in Seq(Item) /\ n \in 1..Len(chain) /\ chain[n] \in Job
  BY DEF TInv, ChainT
<1>2. chain[n].items \in Seq(Item) /\ chain[n].items # <<>>
  BY <1>1 DEF Publish, Job
<1>3. Head(chain[n].items) \in Item /\ rest \in Seq(Item)
  BY <1>2, HeadTailProperties
<1> HIDE DEF rest
<1>4. job \in Job
  BY <1>1, <1>3 DEF Job
<1>5. /\ sent' = Append(sent, Head(chain[n].items)) /\ sub' = Delivered(Head(chain[n].items))
      /\ chain' = [chain EXCEPT ![n] = job]
      /\ HubHasRoom
      /\ UNCHANGED <<disk, adopted, permit, wr, sup, watch, closer>>
  BY DEF Publish, rest
<1> HIDE DEF job
<1>6. ChainT'
  BY <1>1, <1>3, <1>4, <1>5, ExceptSeq, AppendProperties DEF ChainT
<1>7. DiskT' /\ Len(files') >= Len(files)
  BY <1>5, SameDisk DEF disk
<1>8. AdoptedT' /\ AppendT' /\ FiberT' /\ RestT'
  BY <1>5, <1>7, Frame DEF disk, adopted
<1>9. ReaderT'
  BY <1>3, <1>5, DeliveredIsTyped DEF Message
<1>10. QED
  BY <1>6, <1>7, <1>8, <1>9 DEF TInv

LEMMA TypedReaders ==
  ASSUME TInv, NEW r \in Readers,
         (\E cursor \in Cursors : Subscribe(r, cursor)) \/ ReaderStep(r) \/ Leave(r)
  PROVE  TInv'
<1>1. UNCHANGED SubscriberRest
  BY DEF Subscribe, ReaderStep, ReplayStat, Replay, Take, Leave
<1>2. DiskT' /\ Len(files') >= Len(files)
  BY <1>1, SameDisk DEF SubscriberRest, disk
<1>3. AdoptedT' /\ ChainT' /\ AppendT' /\ FiberT' /\ RestT'
  BY <1>1, <1>2, Frame DEF SubscriberRest, disk, adopted
<1>4. /\ sub \in [Readers -> Subscribed \cup {NotSubscribed}]
      /\ \A s \in Readers : Len(sub[s].queue) <= Capacity
      /\ Capacity \in Nat /\ consumed \in Nat
      /\ sub[r].pc # "off" => sub[r] \in Subscribed
  BY JournalAssumption DEF TInv, ReaderT, AdoptedT, NotSubscribed
<1>5. ASSUME NEW s \in Subscribed, Len(s.queue) <= Capacity, sub' = [sub EXCEPT ![r] = s]
      PROVE  ReaderT'
  BY <1>4, <1>5 DEF ReaderT
<1>6. <<>> \in Seq(Message) /\ <<>> \in Seq(Item) /\ Len(<<>>) = 0 /\ Len(<<>>) <= Capacity
  BY <1>4, EmptySeq
<1>7. ASSUME NEW how \in {"ended", "failed", "left"}, NEW got \in Seq(Item), sub[r] \in Subscribed,
             Leaves(r, how, got)
      PROVE  ReaderT'
  <2> DEFINE s == [[[sub[r] EXCEPT !.pc = how] EXCEPT !.queue = <<>>] EXCEPT !.got = got]
  <2>1. s \in Subscribed /\ s.queue = <<>>
    BY <1>6, <1>7 DEF Subscribed
  <2>2. sub' = [sub EXCEPT ![r] = s]
    BY <1>4, <1>7 DEF Leaves
  <2> HIDE DEF s
  <2>3. QED
    BY <1>5, <1>6, <2>1, <2>2
<1>8. ASSUME NEW cursor \in Cursors, Subscribe(r, cursor) PROVE ReaderT'
  <2> DEFINE s == [pc |-> IF cursor # NoCursor THEN "stat" ELSE IF Over THEN "ended" ELSE "live",
                   live |-> ~Over, cursor |-> cursor, through |-> Larger(cursor, 0),
                   from |-> IF cursor = NoCursor THEN consumed ELSE cursor,
                   size |-> 0, queue |-> <<>>, got |-> <<>>]
  <2>1. cursor \in Nat \cup {NoCursor} /\ Larger(cursor, 0) \in Nat /\ (cursor # NoCursor => cursor \in Nat)
    BY JournalAssumption DEF NoCursor, Larger
  <2>2. (~Over) \in BOOLEAN
    BY DEF Over, closed
  <2>3. s \in Subscribed
    BY <1>4, <1>6, <2>1, <2>2 DEF Subscribed
  <2>4. sub' = [sub EXCEPT ![r] = s] /\ s.queue = <<>>
    BY <1>8 DEF Subscribe
  <2> HIDE DEF s
  <2>5. QED
    BY <1>5, <1>6, <2>3, <2>4
<1>9. ASSUME ReplayStat(r) PROVE ReaderT'
  <2>1. CASE path = 0
    BY <1>4, <1>6, <1>7, <1>9, <2>1 DEF ReplayStat
  <2>2. CASE path # 0
    <3> DEFINE size == Size(files[path])
               s == [[sub[r] EXCEPT !.pc = "replay"] EXCEPT !.size = size]
    <3>1. size \in Nat
      BY <2>2, PathFile, FileParts
    <3>2. sub[r] \in Subscribed
      BY <1>4, <1>9 DEF ReplayStat
    <3>3. sub' = [sub EXCEPT ![r] = s]
      BY <1>4, <1>9, <2>2 DEF ReplayStat
    <3> HIDE DEF size
    <3>4. s \in Subscribed /\ s.queue = sub[r].queue
      BY <3>1, <3>2 DEF Subscribed
    <3> HIDE DEF s
    <3>5. QED
      BY <1>4, <1>5, <3>3, <3>4
  <2>3. QED
    BY <2>1, <2>2
<1>10. ASSUME Replay(r) PROVE ReaderT'
  <2>1. CASE path = 0
    BY <1>4, <1>6, <1>7, <1>10, <2>1 DEF Replay
  <2>2. CASE path # 0
    <3> DEFINE items == Items(path, sub[r].cursor, sub[r].size)
               through == IF items = <<>> THEN sub[r].through ELSE Last(items).end
               there == IF sub[r].live THEN "live" ELSE "ended"
               s == [[[sub[r] EXCEPT !.got = items] EXCEPT !.through = through] EXCEPT !.pc = there]
    <3>1. sub[r] \in Subscribed
      BY <1>4, <1>10 DEF Replay
    <3>2. items \in Seq(Item)
      <4>1. sub[r].cursor \in Int
        BY <3>1 DEF Subscribed, NoCursor
      <4>2. path \in Nat /\ files[path].lines \in Seq(Line)
        BY <2>2, PathFile, FileParts
      <4>3. QED
        BY <4>1, <4>2, ItemsAre
    <3>3. sub' = [sub EXCEPT ![r].got = items, ![r].through = through, ![r].pc = there]
      BY <1>10, <2>2 DEF Replay
    <3> HIDE DEF items
    <3>4. through \in Nat
      <4>1. CASE items = <<>>
        BY <3>1, <4>1 DEF Subscribed
      <4>2. CASE items # <<>>
        <5>1. Len(items) \in 1..Len(items)
          BY <3>2, <4>2, EmptySeq
        <5>2. Last(items) \in Item
          BY <3>2, <5>1, ElementOfSeq DEF Last
        <5>3. QED
          BY <4>2, <5>2 DEF Item
      <4>3. QED
        BY <4>1, <4>2
    <3> HIDE DEF through
    <3>5. s \in Subscribed /\ s.queue = sub[r].queue
      BY <3>1, <3>2, <3>4 DEF Subscribed
    <3>6. sub' = [sub EXCEPT ![r] = s]
      BY <1>4, <3>3
    <3> HIDE DEF s
    <3>7. QED
      BY <1>4, <1>5, <3>5, <3>6
  <2>3. QED
    BY <2>1, <2>2
<1>11. ASSUME Take(r) PROVE ReaderT'
  <2> DEFINE item == Head(sub[r].queue)
             got == Received(r, item)
             s == [[sub[r] EXCEPT !.got = got] EXCEPT !.queue = Tail(sub[r].queue)]
  <2>1. sub[r] \in Subscribed /\ sub[r].queue \in Seq(Message) /\ sub[r].queue # <<>>
        /\ sub[r].got \in Seq(Item)
    BY <1>4, <1>11 DEF Take, Subscribed
  <2>2. /\ item \in Message /\ Tail(sub[r].queue) \in Seq(Message)
        /\ Len(Tail(sub[r].queue)) = Len(sub[r].queue) - 1 /\ Len(sub[r].queue) \in Nat
    BY <2>1, HeadTailProperties
  <2>3. CASE item \in {Resync, End}
    BY <1>7, <1>11, <2>1, <2>3 DEF Take, Resync, End
  <2>4. CASE item \notin {Resync, End}
    <3>1. item \in Item
      BY <2>2, <2>4 DEF Message
    <3> HIDE DEF item
    <3>2. got \in Seq(Item)
      BY <2>1, <3>1, AppendProperties DEF Received
    <3>3. Leaves(r, "ended", got) \/ sub' = [sub EXCEPT ![r].got = got, ![r].queue = Tail(@)]
      BY <1>11, <2>4 DEF Take, item
    <3> HIDE DEF got
    <3>4. CASE Leaves(r, "ended", got)
      BY <1>7, <2>1, <3>2, <3>4
    <3>5. CASE sub' = [sub EXCEPT ![r].got = got, ![r].queue = Tail(@)]
      <4>1. s \in Subscribed /\ s.queue = Tail(sub[r].queue)
        BY <2>1, <2>2, <3>2 DEF Subscribed
      <4>2. sub' = [sub EXCEPT ![r] = s]
        BY <1>4, <3>5
      <4>3. Len(sub[r].queue) <= Capacity
        BY <1>4
      <4>4. Len(s.queue) <= Capacity
        BY <1>4, <2>2, <4>1, <4>3
      <4> HIDE DEF s
      <4>5. QED
        BY <1>5, <4>1, <4>2, <4>4
    <3>6. QED
      BY <3>3, <3>4, <3>5
  <2>5. QED
    BY <2>3, <2>4
<1>12. ASSUME Leave(r) PROVE ReaderT'
  <2>1. sub[r] \in Subscribed /\ sub[r].got \in Seq(Item)
    BY <1>4, <1>12 DEF Leave, Attached, Subscribed, NotSubscribed
  <2>2. QED
    BY <1>7, <1>12, <2>1 DEF Leave
<1>13. ReaderT'
  BY <1>8, <1>9, <1>10, <1>11, <1>12 DEF ReaderStep
<1>14. QED
  BY <1>2, <1>3, <1>13 DEF TInv

LEMMA TypedClosers == TInv /\ (Close \/ CloserStep \/ GiveUp) => TInv'
<1> SUFFICES ASSUME TInv, Close \/ CloserStep \/ GiveUp PROVE TInv'
  OBVIOUS
<1> USE DEF disk, adopted
<1>1. UNCHANGED <<files, path, half, breaches, consumed, identity, latest, sent, wr>>
  BY DEF Close, CloserStep, Capture, EndStreams, GiveUp, Finalized
<1>2. DiskT' /\ Len(files') >= Len(files)
  BY <1>1, SameDisk
<1>3. AdoptedT' /\ AppendT'
  BY <1>1, <1>2, Frame
<1>4. /\ chain \in Seq(Job) /\ sent \in Seq(Item) /\ breaches \in Nat
      /\ permit \in Writers \cup {NoOne, Supervisor}
  BY DEF TInv, ChainT, RestT
<1>5. CASE Close
  BY <1>1, <1>2, <1>3, <1>4, <1>5, Frame DEF Close, TInv, RestT
<1>6. CASE Capture
  <2>1. chain' \in Seq(Job)
    <3>1. CASE chain = <<>>
      BY <1>4, <1>6, <3>1 DEF Capture
    <3>2. CASE chain # <<>>
      <4>1. Len(chain) \in 1..Len(chain)
        BY <1>4, <3>2, EmptySeq
      <4>2. chain[Len(chain)] \in Job
        BY <1>4, <4>1, ElementOfSeq
      <4> DEFINE job == [chain[Len(chain)] EXCEPT !.pending = TRUE]
      <4>3. job \in Job
        BY <4>2 DEF Job
      <4>4. chain' = [chain EXCEPT ![Len(chain)] = job]
        BY <1>6, <3>2 DEF Capture
      <4> HIDE DEF job
      <4>5. QED
        BY <1>4, <4>1, <4>3, <4>4, ExceptSeq
    <3>3. QED
      BY <3>1, <3>2
  <2>2. ChainT' /\ RestT'
    BY <1>1, <1>4, <1>6, <2>1 DEF Capture, ChainT, RestT
  <2>3. FiberT' /\ ReaderT'
    BY <1>2, <1>6, Frame DEF Capture
  <2>4. QED
    BY <1>2, <1>3, <2>2, <2>3 DEF TInv
<1>7. ASSUME NEW how \in {"ended", "gave up"}, Finalized(how), ReaderT' PROVE TInv'
  <2>1. ChainT'
    BY <1>1, <1>4, <1>7, PassedIsChain DEF Finalized, ChainT
  <2>2. RestT'
    BY <1>1, <1>4, <1>7 DEF Finalized, Relinquished, RestT
  <2>3. FiberT'
    BY <1>1, <1>7, FiberGoes DEF Finalized, SupGoes, SupPlaces, FiberT, TInv
  <2>4. QED
    BY <1>2, <1>3, <1>7, <2>1, <2>2, <2>3 DEF TInv
<1>8. CASE EndStreams
  <2>1. ReaderT'
    BY <1>8, DeliveredIsTyped DEF EndStreams, Message
  <2>2. QED
    BY <1>7, <1>8, <2>1 DEF EndStreams
<1>9. CASE GiveUp
  <2>1. ReaderT'
    BY <1>2, <1>9, Frame DEF GiveUp
  <2>2. QED
    BY <1>7, <1>9, <2>1 DEF GiveUp
<1>10. QED
  BY <1>5, <1>6, <1>8, <1>9 DEF CloserStep

LEMMA InitTyped == Init => TInv
<1> SUFFICES ASSUME Init PROVE TInv
  OBVIOUS
<1>1. PICK start \in StartFiles : files = [n \in DOMAIN start |-> FileOf(start[n])]
  BY DEF Init
<1>2. start \in Seq(Seq(LineKinds)) /\ Len(start) \in Nat /\ DOMAIN start = 1..Len(start)
  BY JournalAssumption
<1>3. \A n \in 1..Len(start) : FileOf(start[n]) \in File
  BY <1>2, ElementOfSeq, FileOfIsFile
<1>4. files = [n \in 1..Len(start) |-> FileOf(start[n])]
  BY <1>1, <1>2
<1>5. files \in Seq(File) /\ Len(files) = Len(start)
  BY <1>2, <1>3, <1>4, IsASeq
<1>6. DiskT
  BY <1>2, <1>5 DEF Init, DiskT, None
<1>7. AdoptedT /\ RestT
  BY <1>2, <1>5 DEF Init, AdoptedT, RestT
<1>8. ChainT
  BY EmptySeq DEF Init, ChainT
<1>9. AppendT
  BY DEF Init, AppendT, Appending, Append0, Idle
<1>10. FiberT
  BY <1>2, <1>5 DEF Init, FiberT, Fiber, SupPlaces
<1>11. ReaderT
  <2>1. NotSubscribed.queue = <<>> /\ Len(<<>>) = 0 /\ Capacity \in Nat
    BY EmptySeq, JournalAssumption DEF NotSubscribed
  <2>2. sub = [r \in Readers |-> NotSubscribed]
    BY DEF Init
  <2>3. QED
    BY <2>1, <2>2 DEF ReaderT
<1>12. QED
  BY <1>6, <1>7, <1>8, <1>9, <1>10, <1>11 DEF TInv

LEMMA NextTyped == TInv /\ [Next]_vars => TInv'
<1> SUFFICES ASSUME TInv, [Next]_vars PROVE TInv'
  OBVIOUS
<1>1. CASE UNCHANGED vars
  <2>1. UNCHANGED <<files, path, half, breaches, consumed, identity, latest, permit, chain, sent,
                    wr, sub, sup, closer>>
    BY <1>1 DEF vars, disk, adopted, fibers
  <2>2. DiskT' /\ Len(files') >= Len(files)
    BY <2>1, SameDisk
  <2>3. QED
    BY <2>1, <2>2, Frame DEF TInv
<1>2. CASE Next
  BY <1>2, TypedOthers, TypedSupervisor, TypedPublish, TypedAppends, TypedReaders, TypedClosers DEF Next
<1>3. QED
  BY <1>1, <1>2

LEMMA TypesHold == Spec => []TInv
  BY InitTyped, NextTyped, PTL DEF Spec

\* The supervisor holds the permit during a seed only.
SeedHolds == permit = Supervisor => sup.pc \in Seeding

LEMMA NextSeedHolds == TInv /\ SeedHolds /\ [Next]_vars => SeedHolds'
<1> SUFFICES ASSUME TInv, SeedHolds, [Next]_vars PROVE SeedHolds'
  OBVIOUS
<1> USE DEF SeedHolds, Seeding, disk, adopted, fibers
<1>1. NoOne # Supervisor /\ Supervisor \notin Writers
  BY JournalAssumption
<1>2. CASE UNCHANGED <<permit, sup>>
  BY <1>2
<1>3. CASE OthersStep \/ BreachStep \/ PublishStep
  BY <1>2, <1>3 DEF OthersStep, OtherAppends, OtherTears, OtherCompletes, Others, BreachStep, Breach,
     Truncate, Replace, RemoveFile, Create, PublishStep, Publish
<1>4. ASSUME NEW w \in Writers,
             \/ \E kind \in Kinds : Append_(w, kind)
             \/ WriterStep(w) \/ WriteFails(w) \/ Interrupt(w)
      PROVE  SeedHolds'
  <2>1. sup' = sup /\ permit' \in {permit, NoOne, w}
    BY <1>4 DEF Append_, AppendRest, WriterStep, WriteFails, Interrupt, Enter, Fails, Stat, Write,
       WriteRest, Fstat, ScanGap, ScanFails, Answer, Conclude, ConcludeRest, Relinquished
  <2>2. QED
    BY <1>1, <2>1
<1>5. CASE SupervisorStep
  <2> USE DEF SupAt, SupGoes, EngineRest, LookRest
  <2>1. CASE SeedFails \/ SeedLatest
    BY <1>1, <2>1 DEF SeedFails, SeedLatest
  <2>2. CASE SeedResume \/ Reseed
    <3>1. sup \in Fiber
      BY DEF TInv, FiberT
    <3>2. \/ permit' = NoOne
          \/ sup'.pc \in {"resume", "tail"}
          \/ permit' = permit /\ sup.pc = "reseed"
      BY <2>2, <3>1 DEF SeedResume, Reseed, Fiber
    <3>3. QED
      BY <1>1, <3>2
  <2>3. CASE sup.pc \notin Seeding /\ ~Reseed
    BY <1>5, <2>3 DEF SupervisorStep, Construct, SeedFails, SeedResume, SeedLatest, Look, Arm, Follow,
       ArmDirectory, Check, Await, Floor, Sample, Judge, ReadGap, PublishedGap, Announce
  <2>4. QED
    BY <1>5, <2>1, <2>2, <2>3 DEF SupervisorStep, Construct, Look, Arm, Follow,
       ArmDirectory, Check, Await, Floor, Sample, Judge, ReadGap, PublishedGap, Announce
<1>6. CASE \E r \in Readers : \/ \E cursor \in Cursors : Subscribe(r, cursor)
                             \/ ReaderStep(r) \/ Leave(r)
  BY <1>2, <1>6 DEF Subscribe, ReaderStep, ReplayStat, Replay, Take, Leave, SubscriberRest
<1>7. CASE Close \/ CloserStep \/ GiveUp
  BY <1>1, <1>7 DEF Close, CloserStep, Capture, EndStreams, GiveUp, Finalized, Relinquished
<1>8. CASE UNCHANGED vars
  BY <1>2, <1>8 DEF vars
<1>9. QED
  BY <1>3, <1>4, <1>5, <1>6, <1>7, <1>8 DEF Next

LEMMA TypesImply == TInv /\ IInv /\ SeedHolds => TypeOK
<1> SUFFICES ASSUME TInv, IInv, SeedHolds PROVE TypeOK
  OBVIOUS
<1>1. \A i \in DOMAIN files : LineIn(files[i]) /\ files[i].torn \in {"none", "other", "own"}
  <2> SUFFICES ASSUME NEW i \in DOMAIN files
               PROVE  LineIn(files[i]) /\ files[i].torn \in {"none", "other", "own"}
    OBVIOUS
  <2>1. files[i] \in File
    BY DEF TInv, DiskT
  <2>2. files[i].lines \in Seq(Line) /\ files[i].torn \in {"none", "other", "own"}
    BY <2>1, FileParts
  <2>3. \A n \in DOMAIN files[i].lines : files[i].lines[n] \in Line
    BY <2>2
  <2>4. QED
    BY <2>2, <2>3 DEF LineIn, Line
<1>2. path \in 0..Len(files) /\ identity \in 0..Len(files) /\ consumed \in Nat /\ latest \in Item \cup {None}
  BY DEF TInv, DiskT, AdoptedT
<1>3. \A w \in Writers : (permit = w) <=> wr[w].pc \in {"stat", "write", "fstat", "scan"}
  BY DEF IInv, PermitHeld, Holding
<1>4. permit = Supervisor => sup.pc \in {"resume", "tail"}
  BY DEF SeedHolds, Seeding
<1>5. \A r \in Readers : Len(sub[r].queue) <= Capacity
  BY DEF TInv, ReaderT
<1>6. \A n \in DOMAIN chain : \A m \in DOMAIN chain[n].items : chain[n].items[m] \in Item
  <2> SUFFICES ASSUME NEW n \in DOMAIN chain
               PROVE  \A m \in DOMAIN chain[n].items : chain[n].items[m] \in Item
    OBVIOUS
  <2>1. chain[n] \in Job
    BY DEF TInv, ChainT
  <2>2. chain[n].items \in Seq(Item)
    BY <2>1 DEF Job
  <2>3. QED
    BY <2>2
<1>7. QED
  BY <1>1, <1>2, <1>3, <1>4, <1>5, <1>6 DEF TypeOK

\* Every line, offset and job is what it is taken for, whatever other processes
\* do to the file and wherever fibers fail; the permit is held by an append
\* under way or by a seed, and no subscriber's queue exceeds the hub's capacity.
THEOREM Typed == Spec => []TypeOK
<1>1. Init => SeedHolds
  BY JournalAssumption DEF Init, SeedHolds
<1>2. QED
  BY <1>1, TypesHold, Invariance, NextTyped, NextSeedHolds, TypesImply, PTL DEF Spec

------------------------------------------------------------------------------
(* The lines of a file lie one behind the other.                              *)

OrderedFile(f) ==
  \A n \in 1..Len(f.lines) :
    /\ f.lines[n].start < f.lines[n].end
    /\ \A m \in 1..Len(f.lines) : m < n => f.lines[m].end <= f.lines[n].start

LEMMA OrderedEnd ==
  ASSUME NEW f \in File, OrderedFile(f)
  PROVE  \A n \in 1..Len(f.lines) : f.lines[n] \in Line /\ f.lines[n].end <= EndOf(f)
<1> SUFFICES ASSUME NEW n \in 1..Len(f.lines)
             PROVE  f.lines[n] \in Line /\ f.lines[n].end <= EndOf(f)
  OBVIOUS
<1>1. f.lines \in Seq(Line) /\ Len(f.lines) \in Nat /\ f.lines # <<>> /\ Len(f.lines) \in 1..Len(f.lines)
  BY FileParts, EmptySeq
<1>2. f.lines[n] \in Line /\ f.lines[Len(f.lines)] \in Line
  BY <1>1
<1>3. EndOf(f) = f.lines[Len(f.lines)].end
  BY <1>1 DEF EndOf, Last
<1>4. CASE n = Len(f.lines)
  BY <1>2, <1>3, <1>4 DEF Line
<1>5. CASE n < Len(f.lines)
  <2>1. f.lines[n].end <= f.lines[Len(f.lines)].start
    BY <1>1, <1>5 DEF OrderedFile
  <2>2. f.lines[Len(f.lines)].start < f.lines[Len(f.lines)].end
    BY <1>1 DEF OrderedFile
  <2>3. QED
    BY <1>2, <1>3, <2>1, <2>2 DEF Line
<1>6. QED
  BY <1>1, <1>4, <1>5

\* A line more, behind the others.
LEMMA OrderedMore ==
  ASSUME NEW f \in File, OrderedFile(f), NEW line \in Line, line.start = EndOf(f), line.start < line.end,
         NEW g, g.lines = Append(f.lines, line)
  PROVE  OrderedFile(g)
<1> DEFINE lines == Append(f.lines, line)
<1>1. f.lines \in Seq(Line) /\ Len(f.lines) \in Nat
  BY FileParts
<1>2. /\ Len(lines) = Len(f.lines) + 1
      /\ \A n \in 1..Len(f.lines) : lines[n] = f.lines[n]
      /\ lines[Len(f.lines) + 1] = line
  BY <1>1, AppendProperties
<1> HIDE DEF lines
<1>3. SUFFICES ASSUME NEW n \in 1..Len(lines)
               PROVE  /\ lines[n].start < lines[n].end
                      /\ \A m \in 1..Len(lines) : m < n => lines[m].end <= lines[n].start
  BY DEF OrderedFile, lines
<1>4. CASE n \in 1..Len(f.lines)
  <2>1. \A m \in 1..Len(lines) : m < n => m \in 1..Len(f.lines)
    BY <1>1, <1>2, <1>4
  <2>2. QED
    BY <1>2, <1>4, <2>1 DEF OrderedFile
<1>5. CASE n = Len(f.lines) + 1
  <2>1. \A m \in 1..Len(lines) : m < n => m \in 1..Len(f.lines)
    BY <1>1, <1>2, <1>5
  <2>2. \A m \in 1..Len(f.lines) : f.lines[m].end <= EndOf(f)
    BY OrderedEnd
  <2>3. QED
    BY <1>2, <1>5, <2>1, <2>2
<1>6. QED
  BY <1>1, <1>2, <1>4, <1>5

\* A line that lands is behind the others, and so is one that ends a fragment.
LEMMA LandedOrdered ==
  ASSUME NEW f \in File, OrderedFile(f), NEW kind \in ItemKinds
  PROVE  OrderedFile(Landed(f, kind))
<1> DEFINE line == [start |-> EndOf(f), end |-> Size(f) + 2,
                    kind |-> IF f.torn = "none" THEN kind ELSE "bad"]
<1>1. line \in Line /\ line.start = EndOf(f) /\ line.start < line.end
  BY FileParts DEF Line, ItemKinds
<1>2. Landed(f, kind).lines = Append(f.lines, line)
  BY DEF Landed
<1> HIDE DEF line
<1>3. QED
  BY <1>1, <1>2, OrderedMore

LEMMA FileOfOrdered ==
  ASSUME NEW kinds \in Seq(LineKinds)
  PROVE  OrderedFile(FileOf(kinds))
<1> DEFINE lines == FileOf(kinds).lines
<1>1. Len(kinds) \in Nat
  OBVIOUS
<1>2. /\ Len(lines) = Len(kinds)
      /\ \A n \in 1..Len(kinds) : lines[n].start = 2 * n - 2 /\ lines[n].end = 2 * n
  <2>1. Len(lines) = Len(kinds)
    BY FileOfIsFile
  <2>2. ASSUME NEW n \in 1..Len(kinds) PROVE lines[n].start = 2 * n - 2 /\ lines[n].end = 2 * n
    <3>1. lines[n] = [start |-> 2 * n - 2, end |-> 2 * n, kind |-> kinds[n]]
      BY FileOfIsFile
    <3> HIDE DEF lines
    <3>2. QED
      BY <3>1
  <2>3. QED
    BY <2>1, <2>2
<1> HIDE DEF lines
<1>3. \A n \in 1..Len(lines) :
        /\ lines[n].start < lines[n].end
        /\ \A m \in 1..Len(lines) : m < n => lines[m].end <= lines[n].start
  BY <1>1, <1>2
<1>4. QED
  BY <1>3 DEF OrderedFile, lines

\* What a step does to the files.
DiskStep ==
  \/ UNCHANGED <<files, path, half, breaches>>
  \/ OthersStep \/ BreachStep
  \/ \E w \in Writers : Write(w) \/ WriteFails(w)

LEMMA NextDisk == [Next]_vars => DiskStep
<1> SUFFICES ASSUME [Next]_vars PROVE DiskStep
  OBVIOUS
<1> USE DEF disk, adopted, fibers, DiskStep
<1>1. CASE UNCHANGED vars
  BY <1>1 DEF vars
<1>2. CASE OthersStep \/ BreachStep
  BY <1>2
<1>3. CASE SupervisorStep
  BY <1>3 DEF SupervisorStep, Construct, SeedFails, SeedResume, SeedLatest, Look, Arm, Follow,
     ArmDirectory, Check, Await, Floor, Sample, Judge, ReadGap, PublishedGap, Reseed, Announce,
     EngineRest, LookRest
<1>4. CASE PublishStep
  BY <1>4 DEF PublishStep, Publish
<1>5. ASSUME NEW w \in Writers,
             \/ \E kind \in Kinds : Append_(w, kind)
             \/ WriterStep(w) \/ WriteFails(w) \/ Interrupt(w)
      PROVE  DiskStep
  BY <1>5 DEF Append_, AppendRest, WriterStep, Interrupt, Enter, Stat,
       Fstat, ScanGap, ScanFails, Answer, ConcludeRest
<1>6. CASE \E r \in Readers : \/ \E cursor \in Cursors : Subscribe(r, cursor)
                             \/ ReaderStep(r) \/ Leave(r)
  BY <1>6 DEF Subscribe, ReaderStep, ReplayStat, Replay, Take, Leave, SubscriberRest
<1>7. CASE Close \/ CloserStep \/ GiveUp
  BY <1>7 DEF Close, CloserStep, Capture, EndStreams, GiveUp, Finalized
<1>8. QED
  BY <1>1, <1>2, <1>3, <1>4, <1>5, <1>6, <1>7 DEF Next

Ordered == \A i \in 1..Len(files) : OrderedFile(files[i])

LEMMA NextOrdered == TInv /\ Ordered /\ [Next]_vars => Ordered'
<1> SUFFICES ASSUME TInv, Ordered, DiskStep PROVE Ordered'
  BY NextDisk
<1>1. files \in Seq(File) /\ Len(files) \in Nat /\ path \in 0..Len(files)
  BY PathFile DEF TInv, DiskT
<1>2. ASSUME NEW i \in 1..Len(files), NEW f \in File, OrderedFile(f), files' = [files EXCEPT ![i] = f]
      PROVE  Ordered'
  <2>1. Len(files') = Len(files) /\ files'[i] = f
        /\ \A j \in 1..Len(files) : j # i => files'[j] = files[j]
    BY <1>2, FilesChange
  <2>2. QED
    BY <1>2, <2>1 DEF Ordered
<1>3. ASSUME NEW f \in File, OrderedFile(f), files' = Append(files, f) PROVE Ordered'
  <2>1. Len(files') = Len(files) + 1 /\ files'[Len(files) + 1] = f
        /\ \A j \in 1..Len(files) : files'[j] = files[j]
    BY <1>3, FilesChange
  <2>2. \A j \in 1..Len(files') : j \in 1..Len(files) \/ j = Len(files) + 1
    BY <1>1, <2>1
  <2>3. QED
    BY <1>3, <2>1, <2>2 DEF Ordered
<1>4. path # 0 => path \in 1..Len(files) /\ files[path] \in File /\ OrderedFile(files[path])
  BY PathFile DEF Ordered
<1>5. CASE UNCHANGED <<files, path, half, breaches>>
  BY <1>5 DEF Ordered
<1>6. ASSUME NEW kind \in OtherKinds, OtherAppends(kind) PROVE Ordered'
  <2>1. kind \in ItemKinds /\ path # 0 /\ files' = [files EXCEPT ![path] = Landed(files[path], kind)]
    BY <1>6, JournalAssumption DEF OtherAppends, ItemKinds
  <2>2. QED
    BY <1>2, <1>4, <2>1, LandedIsFile, LandedOrdered
<1>7. ASSUME path # 0, NEW torn \in {"other", "own"}, files' = [files EXCEPT ![path].torn = torn]
      PROVE  Ordered'
  <2> DEFINE f == [files[path] EXCEPT !.torn = torn]
  <2>1. f \in File /\ f.lines = files[path].lines
    BY <1>4, <1>7 DEF File
  <2>2. files' = [files EXCEPT ![path] = f]
    BY <1>7
  <2> HIDE DEF f
  <2>3. OrderedFile(f)
    BY <1>4, <1>7, <2>1 DEF OrderedFile
  <2>4. QED
    BY <1>2, <1>4, <1>7, <2>1, <2>2, <2>3
<1>8. ASSUME OtherCompletes PROVE Ordered'
  <2> DEFINE f == files[half.file]
             whole == [f EXCEPT !.torn = "none"]
             bad == [start |-> EndOf(f), end |-> Size(f) + 1, kind |-> "bad"]
             joined == [f EXCEPT !.lines = Append(@, bad)]
  <2>1. half # None /\ half.file \in 1..Len(files) /\ half.kind \in ItemKinds /\ f \in File /\ OrderedFile(f)
    BY <1>8, PathFile DEF OtherCompletes, Torn, ItemKinds, TInv, DiskT, Ordered
  <2>2. whole \in File /\ whole.lines = f.lines
    BY <2>1 DEF File
  <2>3. OrderedFile(whole)
    BY <2>1, <2>2 DEF OrderedFile
  <2>4. bad \in Line /\ bad.start = EndOf(f) /\ bad.start < bad.end
    BY <2>1, FileParts DEF Line, ItemKinds
  <2>5. f.lines \in Seq(Line)
    BY <2>1, FileParts
  <2> HIDE DEF bad
  <2>6. Append(f.lines, bad) \in Seq(Line)
    BY <2>4, <2>5, AppendProperties
  <2>7. joined \in File /\ joined.lines = Append(f.lines, bad)
    BY <2>1, <2>6 DEF File
  <2>8. files' = [files EXCEPT ![half.file] =
                    IF f.torn = "other" THEN Landed(whole, half.kind) ELSE joined]
    BY <1>8 DEF OtherCompletes, bad
  <2> HIDE DEF f, whole, joined
  <2>9. OrderedFile(joined)
    BY <2>1, <2>4, <2>7, OrderedMore
  <2>10. Landed(whole, half.kind) \in File /\ OrderedFile(Landed(whole, half.kind))
    BY <2>1, <2>2, <2>3, LandedIsFile, LandedOrdered
  <2>11. QED
    BY <1>2, <2>1, <2>7, <2>8, <2>9, <2>10
<1>9. ASSUME NEW n \in 0..(MaxLines - 1), Truncate(n) PROVE Ordered'
  <2> DEFINE lines == files[path].lines
             f == [lines |-> SubSeq(lines, 1, n), torn |-> "none"]
  <2>1. path \in 1..Len(files) /\ files[path] \in File /\ OrderedFile(files[path])
    BY <1>4, <1>9 DEF Truncate, Breach
  <2>2. lines \in Seq(Line) /\ n \in Nat /\ n < Len(lines) /\ Len(lines) \in Nat
    BY <1>9, <2>1, FileParts, JournalAssumption DEF Truncate
  <2>3. /\ SubSeq(lines, 1, n) \in Seq(Line) /\ Len(SubSeq(lines, 1, n)) = n
        /\ \A i \in 1..n : SubSeq(lines, 1, n)[i] = lines[i]
    <3>1. n \in Int /\ 1 \in Int /\ \A i \in 1..n : lines[i] \in Line
      BY <2>2
    <3>2. /\ SubSeq(lines, 1, n) \in Seq(Line)
          /\ Len(SubSeq(lines, 1, n)) = IF 1 <= n THEN n - 1 + 1 ELSE 0
          /\ \A i \in 1..(n - 1 + 1) : SubSeq(lines, 1, n)[i] = lines[1 + i - 1]
      BY <3>1, SubSeqProperties
    <3>3. QED
      BY <2>2, <3>2
  <2>4. f \in File /\ f.lines = SubSeq(lines, 1, n)
    BY <2>3 DEF File
  <2>5. files' = [files EXCEPT ![path] = f]
    BY <1>9 DEF Truncate
  <2> HIDE DEF f
  <2>6. OrderedFile(f)
    <3>1. 1..Len(f.lines) \subseteq 1..Len(lines)
      BY <2>2, <2>3, <2>4
    <3>2. \A i \in 1..Len(f.lines) : f.lines[i] = lines[i]
      BY <2>3, <2>4
    <3>3. QED
      BY <2>1, <3>1, <3>2 DEF OrderedFile
  <2>7. QED
    BY <1>2, <2>1, <2>4, <2>5, <2>6
<1>10. ASSUME NEW start \in StartFiles \ {<<>>}, Replace(start[1]) PROVE Ordered'
  <2>1. start[1] \in Seq(LineKinds)
    <3>1. start \in Seq(Seq(LineKinds)) /\ start # <<>>
      BY JournalAssumption
    <3>2. 1 \in 1..Len(start)
      BY <3>1, EmptySeq
    <3>3. QED
      BY <3>1, <3>2, ElementOfSeq
  <2>2. QED
    BY <1>3, <1>10, <2>1, FileOfIsFile, FileOfOrdered DEF Replace
<1>11. ASSUME RemoveFile PROVE Ordered'
  BY <1>11 DEF RemoveFile, Ordered
<1>12. FileOf(<<>>) \in File /\ OrderedFile(FileOf(<<>>))
  BY EmptyFile, EmptySeq DEF OrderedFile
<1>13. ASSUME Create PROVE Ordered'
  BY <1>3, <1>12, <1>13 DEF Create
<1>14. ASSUME NEW w \in Writers, Write(w) PROVE Ordered'
  <2>1. wr[w].kind \in ItemKinds
    BY <1>14, AppendParts, JournalAssumption DEF Write, At, ItemKinds
  <2>2. CASE path # 0
    <3>1. files' = [files EXCEPT ![path] = Landed(files[path], wr[w].kind)]
      BY <1>14, <2>2 DEF Write, Target, OpenedAt
    <3>2. QED
      BY <1>2, <1>4, <2>1, <2>2, <3>1, LandedIsFile, LandedOrdered
  <2>3. CASE path = 0
    <3> DEFINE empty == FileOf(<<>>)
               new == Landed(empty, wr[w].kind)
               here == Len(files) + 1
    <3>1. new \in File /\ OrderedFile(new)
      BY <1>12, <2>1, LandedIsFile, LandedOrdered
    <3>2. /\ Append(files, empty) \in Seq(File) /\ Len(Append(files, empty)) = here
          /\ Append(files, empty)[here] = empty
          /\ \A j \in 1..Len(files) : Append(files, empty)[j] = files[j]
      BY <1>12, FilesChange
    <3>3. files' = [Append(files, empty) EXCEPT ![here] = new]
      BY <1>14, <2>3, <3>2 DEF Write, Target, OpenedAt
    <3> HIDE DEF empty, new
    <3>4. /\ Len(files') = here
          /\ \A j \in 1..here : files'[j] = IF j = here THEN new ELSE Append(files, empty)[j]
      <4> DEFINE longer == Append(files, empty)
      <4>1. longer \in Seq(File) /\ Len(longer) = here /\ here \in 1..Len(longer)
        BY <1>1, <3>2
      <4>2. files' = [longer EXCEPT ![here] = new]
        BY <3>3
      <4> HIDE DEF longer
      <4>3. /\ Len(files') = Len(longer)
            /\ \A j \in 1..Len(longer) : files'[j] = IF j = here THEN new ELSE longer[j]
        BY <3>1, <4>1, <4>2, ExceptSeq
      <4>4. QED
        BY <4>1, <4>3 DEF longer
    <3>5. \A j \in 1..Len(files') : j # here => j \in 1..Len(files)
      BY <1>1, <3>4
    <3>6. QED
      BY <3>1, <3>2, <3>4, <3>5 DEF Ordered
  <2>4. QED
    BY <2>2, <2>3
<1>15. ASSUME NEW w \in Writers, WriteFails(w) PROVE Ordered'
  BY <1>5, <1>7, <1>15 DEF WriteFails, Ordered
<1>16. QED
  BY <1>5, <1>6, <1>7, <1>8, <1>9, <1>10, <1>11, <1>13, <1>14, <1>15
     DEF DiskStep, OthersStep, BreachStep, OtherTears

LEMMA InitOrdered == Init => Ordered
<1> SUFFICES ASSUME Init, NEW i \in 1..Len(files) PROVE OrderedFile(files[i])
  BY DEF Ordered
<1>1. PICK start \in StartFiles : files = [n \in DOMAIN start |-> FileOf(start[n])]
  BY DEF Init
<1>2. start \in Seq(Seq(LineKinds)) /\ DOMAIN start = 1..Len(start) /\ Len(start) \in Nat
  BY JournalAssumption
<1>3. files = [n \in 1..Len(start) |-> FileOf(start[n])]
  BY <1>1, <1>2
<1>4. i \in 1..Len(start)
  <2>1. files \in Seq(File)
    BY InitTyped DEF TInv, DiskT
  <2>2. DOMAIN files = 1..Len(files) /\ DOMAIN files = 1..Len(start)
    BY <1>3, <2>1
  <2>3. QED
    BY <2>2
<1>5. QED
  BY <1>2, <1>3, <1>4, ElementOfSeq, FileOfOrdered

------------------------------------------------------------------------------
(* A journal whose contract has not been broken yet.                          *)

Bytes == IF path = 0 THEN 0 ELSE Size(files[path])

\* While nothing has been truncated, replaced or removed there is one file, it
\* only grows, and no offset that anybody holds is beyond its end.
OneFile == breaches = 0 => Len(files) <= 1 /\ path = Len(files)
Within ==
  breaches = 0 =>
    /\ consumed <= Bytes
    /\ \A w \in Writers : wr[w].pc = "scan" => wr[w].end <= Bytes
\* What an ingest has sampled is never behind its floor.
NoBreachSeen ==
  breaches = 0 =>
    /\ sup.pc = "sample" => sup.floor <= consumed
    /\ sup.pc = "judge" => sup.file # 0 /\ sup.floor <= sup.size
    /\ sup.pc \notin {"reseed", "announce"}
    /\ sup.built => sup.pc \notin Seeding

Unbroken == OneFile /\ Within /\ NoBreachSeen

LEMMA BytesAre ==
  ASSUME TInv
  PROVE  /\ Bytes \in Nat
         /\ path # 0 => EndOf(files[path]) \in Nat /\ EndOf(files[path]) <= Bytes
BY PathFile, FileParts DEF Bytes

LEMMA DiskGrows ==
  ASSUME TInv, TInv', OneFile, DiskStep, breaches' = 0
  PROVE  /\ breaches = 0 /\ Len(files') <= 1 /\ path' = Len(files')
         /\ Bytes' >= Bytes /\ (path # 0 => path' # 0)
<1>1. /\ files \in Seq(File) /\ Len(files) \in Nat /\ path \in 0..Len(files) /\ breaches \in Nat
      /\ files' \in Seq(File) /\ Len(files') \in Nat
  <2>1. files \in Seq(File) /\ path \in 0..Len(files) /\ files' \in Seq(File)
    BY DEF TInv, DiskT
  <2>2. breaches \in Nat
    BY DEF TInv, RestT
  <2>3. QED
    BY <2>1, <2>2
<1>2. \A f \in File : Size(f) \in Nat
  BY FileParts
<1>3. Bytes \in Nat
  BY BytesAre
<1>4. breaches = 0
  BY <1>1 DEF DiskStep, OthersStep, OtherAppends, OtherTears, OtherCompletes, BreachStep, Truncate,
     Replace, RemoveFile, Breach, Create, Write, WriteFails, WriteRest
<1>5. Len(files) <= 1 /\ path = Len(files)
  BY <1>4 DEF OneFile
<1>6. CASE UNCHANGED <<files, path>>
  BY <1>3, <1>4, <1>5, <1>6 DEF Bytes
<1>7. ASSUME path # 0, NEW g \in File, Size(g) >= Size(files[path]), files' = [files EXCEPT ![path] = g],
             path' = path
      PROVE  Len(files') <= 1 /\ path' = Len(files') /\ Bytes' >= Bytes /\ path' # 0
  <2>1. path \in 1..Len(files)
    BY <1>7, PathFile
  <2>2. Len(files') = Len(files) /\ files'[path] = g
    BY <1>7, <2>1, FilesChange
  <2>3. QED
    BY <1>5, <1>7, <2>2 DEF Bytes
<1>8. ASSUME path = 0, NEW g \in File, Len(files') = Len(files) + 1, path' = Len(files')
      PROVE  Len(files') <= 1 /\ path' = Len(files') /\ Bytes' >= Bytes /\ path' # 0
  <2>1. Bytes = 0 /\ path' = 1 /\ Len(files') = 1
    <3>1. Bytes = 0
      BY <1>8 DEF Bytes
    <3>2. Len(files) = 0
      BY <1>5, <1>8
    <3>3. QED
      BY <1>8, <3>1, <3>2
  <2>2. Bytes' \in Nat
    <3>1. files'[1] \in File
      BY <1>1, <2>1
    <3>2. Bytes' = Size(files'[1])
      BY <2>1 DEF Bytes, Size, EndOf
    <3>3. QED
      BY <1>2, <3>1, <3>2
  <2>3. QED
    BY <2>1, <2>2
<1>9. path # 0 => path \in 1..Len(files) /\ files[path] \in File
  BY PathFile
<1>10. ASSUME NEW kind \in OtherKinds, OtherAppends(kind)
       PROVE  Len(files') <= 1 /\ path' = Len(files') /\ Bytes' >= Bytes /\ (path # 0 => path' # 0)
  <2>1. kind \in ItemKinds /\ path # 0 /\ path' = path
        /\ files' = [files EXCEPT ![path] = Landed(files[path], kind)]
    BY <1>10, JournalAssumption DEF OtherAppends, ItemKinds
  <2>2. Landed(files[path], kind) \in File /\ Size(Landed(files[path], kind)) >= Size(files[path])
    <3>1. files[path] \in File /\ Size(files[path]) \in Nat
      BY <1>2, <1>9, <2>1
    <3>2. Landed(files[path], kind) \in File /\ Size(Landed(files[path], kind)) = Size(files[path]) + 2
      BY <2>1, <3>1, LandedIsFile
    <3>3. QED
      BY <3>1, <3>2
  <2>3. QED
    BY <1>7, <2>1, <2>2
<1>11. ASSUME path # 0, NEW torn \in {"other", "own"}, files' = [files EXCEPT ![path].torn = torn],
              path' = path, files[path].torn = "none"
       PROVE  Len(files') <= 1 /\ path' = Len(files') /\ Bytes' >= Bytes /\ path' # 0
  <2> DEFINE f == [files[path] EXCEPT !.torn = torn]
  <2>1. f \in File /\ f.lines = files[path].lines /\ f.torn = torn
    BY <1>9, <1>11 DEF File
  <2>2. files' = [files EXCEPT ![path] = f]
    BY <1>11
  <2> HIDE DEF f
  <2>3. EndOf(f) = EndOf(files[path]) /\ EndOf(f) \in Nat
    BY <2>1, FileParts DEF EndOf
  <2>4. Size(f) >= Size(files[path])
    BY <1>11, <2>1, <2>3 DEF Size
  <2>5. QED
    BY <1>7, <1>11, <2>1, <2>2, <2>4
<1>12. ASSUME OtherCompletes
       PROVE  Len(files') <= 1 /\ path' = Len(files') /\ Bytes' >= Bytes /\ path' # 0
  <2> DEFINE f == files[path]
             whole == [f EXCEPT !.torn = "none"]
             bad == [start |-> EndOf(f), end |-> Size(f) + 1, kind |-> "bad"]
             joined == [f EXCEPT !.lines = Append(@, bad)]
  <2>1. half # None /\ half.file \in 1..Len(files) /\ half.kind \in ItemKinds
    BY <1>12 DEF OtherCompletes, Torn, ItemKinds, TInv, DiskT
  <2>2. half.file = path /\ path # 0 /\ f \in File /\ path' = path
    BY <1>1, <1>5, <1>9, <1>12, <2>1 DEF OtherCompletes
  <2>3. /\ whole \in File /\ whole.lines = f.lines /\ whole.torn = "none"
        /\ EndOf(f) \in Nat /\ Size(f) <= EndOf(f) + 1 /\ Size(f) \in Nat
    BY <2>2, FileParts DEF File
  <2>4. bad \in Line /\ bad.end = Size(f) + 1
    BY <2>2, FileParts DEF Line, ItemKinds
  <2>5. f.lines \in Seq(Line)
    BY <2>2, FileParts
  <2> HIDE DEF bad
  <2>6. /\ Append(f.lines, bad) \in Seq(Line) /\ Append(f.lines, bad) # <<>>
        /\ Last(Append(f.lines, bad)) = bad
    BY <2>4, <2>5, AppendProperties DEF Last
  <2>7. joined \in File /\ joined.lines = Append(f.lines, bad)
    BY <2>2, <2>6 DEF File
  <2>8. files' = [files EXCEPT ![path] = IF f.torn = "other" THEN Landed(whole, half.kind) ELSE joined]
    BY <1>12, <2>2 DEF OtherCompletes, bad
  <2> HIDE DEF f, whole, joined
  <2>9. EndOf(joined) = Size(f) + 1 /\ Size(joined) >= EndOf(joined) /\ EndOf(joined) \in Nat
        /\ Size(joined) \in Nat
    BY <2>4, <2>6, <2>7, FileParts DEF EndOf
  <2>10. Size(joined) >= Size(f)
    BY <2>3, <2>9
  <2>11. EndOf(whole) = EndOf(f)
    BY <2>3 DEF EndOf
  <2>12. Size(whole) = EndOf(f)
    BY <2>3, <2>11 DEF Size
  <2>13. Landed(whole, half.kind) \in File /\ Size(Landed(whole, half.kind)) = Size(whole) + 2
    BY <2>1, <2>3, LandedIsFile
  <2>14. Size(Landed(whole, half.kind)) >= Size(f)
    BY <2>3, <2>12, <2>13
  <2>15. QED
    BY <1>7, <2>2, <2>7, <2>8, <2>10, <2>13, <2>14 DEF f
<1>13. ASSUME BreachStep
       PROVE  Len(files') <= 1 /\ path' = Len(files') /\ Bytes' >= Bytes /\ (path # 0 => path' # 0)
  <2>1. Create
    BY <1>1, <1>4, <1>13 DEF BreachStep, Truncate, Replace, RemoveFile, Breach
  <2>2. Len(files') = Len(files) + 1
    BY <2>1, EmptyFile, FilesChange DEF Create
  <2>3. QED
    BY <1>8, <2>1, <2>2, EmptyFile DEF Create
<1>14. ASSUME NEW w \in Writers, Write(w)
       PROVE  Len(files') <= 1 /\ path' = Len(files') /\ Bytes' >= Bytes /\ (path # 0 => path' # 0)
  <2>1. wr[w].kind \in ItemKinds
    BY <1>14, AppendParts, JournalAssumption DEF Write, At, ItemKinds
  <2>2. CASE path # 0
    <3>1. files' = [files EXCEPT ![path] = Landed(files[path], wr[w].kind)] /\ path' = path
      BY <1>14, <2>2 DEF Write, Target, OpenedAt
    <3>2. Landed(files[path], wr[w].kind) \in File
          /\ Size(Landed(files[path], wr[w].kind)) >= Size(files[path])
      <4>1. files[path] \in File /\ Size(files[path]) \in Nat
        BY <1>2, <1>9, <2>2
      <4>2. /\ Landed(files[path], wr[w].kind) \in File
            /\ Size(Landed(files[path], wr[w].kind)) = Size(files[path]) + 2
        BY <2>1, <4>1, LandedIsFile
      <4>3. QED
        BY <4>1, <4>2
    <3>3. QED
      BY <1>7, <2>2, <3>1, <3>2
  <2>3. CASE path = 0
    <3> DEFINE empty == FileOf(<<>>)
               new == Landed(empty, wr[w].kind)
               here == Len(files) + 1
               longer == Append(files, empty)
    <3>1. new \in File
      BY <2>1, EmptyFile, LandedIsFile
    <3>2. longer \in Seq(File) /\ Len(longer) = here /\ here \in 1..Len(longer)
      BY <1>1, EmptyFile, FilesChange
    <3>3. files' = [longer EXCEPT ![here] = new] /\ path' = here
      BY <1>14, <2>3, <3>2 DEF Write, Target, OpenedAt
    <3> HIDE DEF empty, new, longer
    <3>4. Len(files') = here
      BY <3>1, <3>2, <3>3, ExceptSeq
    <3>5. QED
      BY <1>8, <2>3, <3>1, <3>3, <3>4
  <2>4. QED
    BY <2>2, <2>3
<1>15. ASSUME NEW w \in Writers, WriteFails(w)
       PROVE  Len(files') <= 1 /\ path' = Len(files') /\ Bytes' >= Bytes /\ (path # 0 => path' # 0)
  BY <1>4, <1>6, <1>11, <1>15 DEF WriteFails
<1>16. ASSUME NEW kind \in OtherKinds, OtherTears(kind)
       PROVE  Len(files') <= 1 /\ path' = Len(files') /\ Bytes' >= Bytes /\ (path # 0 => path' # 0)
  BY <1>11, <1>16 DEF OtherTears
<1>17. QED
  BY <1>4, <1>6, <1>10, <1>12, <1>13, <1>14, <1>15, <1>16 DEF DiskStep, OthersStep

Settling == {"gone", "look", "follow", "await", "ingest"}

\* The supervisor's fiber when an ingest is over, and when it is built.
LEMMA FiberSettles ==
  ASSUME TInv
  PROVE  /\ \A s \in {NextCycle, Returned, Failed, Built} \cup
                     {IngestThen(after) : after \in {"loop", "follow", "await", "created"}} :
              s.pc \in Settling /\ s.base = sup.base /\ (sup.built => s.built)
         /\ Built.built
<1>1. sup \in Fiber
  BY DEF TInv, FiberT
<1>2. Settled \in Fiber /\ Settled.base = sup.base /\ Settled.built = sup.built
  <2>1. Settled = [[[sup EXCEPT !.floor = 0] EXCEPT !.size = 0] EXCEPT !.file = 0]
    BY <1>1 DEF Settled, Fiber
  <2>2. \A s \in Fiber : /\ [s EXCEPT !.floor = 0] \in Fiber /\ [s EXCEPT !.size = 0] \in Fiber
                         /\ [s EXCEPT !.file = 0] \in Fiber
                         /\ [s EXCEPT !.floor = 0].base = s.base /\ [s EXCEPT !.floor = 0].built = s.built
                         /\ [s EXCEPT !.size = 0].base = s.base /\ [s EXCEPT !.size = 0].built = s.built
                         /\ [s EXCEPT !.file = 0].base = s.base /\ [s EXCEPT !.file = 0].built = s.built
    BY DEF Fiber
  <2> HIDE DEF Settled
  <2>3. QED
    BY ZenonT(30), <1>1, <2>1, <2>2
<1>3. ASSUME NEW s \in Fiber, s.base = sup.base, s.built = sup.built
      PROVE  /\ \A pc \in SupPlaces :
                  LET t == [s EXCEPT !.pc = pc]
                  IN  t \in Fiber /\ t.pc = pc /\ t.base = sup.base /\ t.built = sup.built
             /\ \A after \in {"loop", "follow", "await", "created"} :
                  LET t == [s EXCEPT !.after = after]
                  IN  t \in Fiber /\ t.pc = s.pc /\ t.base = sup.base /\ t.built = sup.built
             /\ \A n \in Nat :
                  LET t == [s EXCEPT !.idle = n]
                  IN  t \in Fiber /\ t.pc = s.pc /\ t.base = sup.base /\ t.built = sup.built
  BY <1>3 DEF Fiber
<1> HIDE DEF Settled
<1>4. NextCycle.pc \in Settling /\ NextCycle.base = sup.base /\ NextCycle.built = sup.built
  <2> DEFINE idle == IF consumed = sup.startedAt THEN sup.idle + 1 ELSE 0
             there == IF idle > MaxRearms THEN "gone" ELSE "look"
  <2>1. idle \in Nat /\ there \in SupPlaces /\ there \in Settling
    <3>1. sup.idle \in Nat
      BY <1>1 DEF Fiber
    <3>2. idle \in Nat
      BY <3>1
    <3>3. QED
      BY <3>2 DEF SupPlaces, Settling
  <2>2. NextCycle = [Settled EXCEPT !.idle = idle, !.pc = there]
    BY DEF NextCycle
  <2> HIDE DEF idle, there
  <2> DEFINE waiting == [Settled EXCEPT !.idle = idle]
  <2>3. NextCycle = [waiting EXCEPT !.pc = there]
    BY <1>2, <2>2 DEF Fiber
  <2>4. waiting \in Fiber /\ waiting.base = sup.base /\ waiting.built = sup.built
    BY <1>2, <1>3, <2>1
  <2> HIDE DEF waiting
  <2>5. QED
    BY <1>3, <2>1, <2>3, <2>4
<1>5. ASSUME NEW after \in {"loop", "follow", "await", "created"}
      PROVE  /\ IngestThen(after).pc \in Settling /\ IngestThen(after).base = sup.base
             /\ IngestThen(after).built = sup.built
  <2> DEFINE there == [Settled EXCEPT !.pc = "ingest"]
  <2>1. IngestThen(after) = [there EXCEPT !.after = after]
    BY <1>2 DEF IngestThen, Fiber
  <2>2. there \in Fiber /\ there.pc = "ingest" /\ there.base = sup.base /\ there.built = sup.built
    BY <1>2, <1>3 DEF SupPlaces
  <2> HIDE DEF there
  <2>3. QED
    BY <1>3, <2>1, <2>2 DEF Settling
<1>6. sup.after \in {"loop", "follow", "await", "created"}
  BY <1>1 DEF Fiber
<1>7. Returned.pc \in Settling /\ Returned.base = sup.base /\ Returned.built = sup.built
  <2>1. CASE sup.after \in {"loop", "created"}
    BY <1>4, <2>1 DEF Returned
  <2>2. CASE sup.after \notin {"loop", "created"}
    <3>1. sup.after \in SupPlaces /\ sup.after \in Settling
      BY <1>6, <2>2 DEF SupPlaces, Settling
    <3>2. Returned = [Settled EXCEPT !.pc = sup.after]
      BY <2>2 DEF Returned
    <3>3. QED
      BY <1>2, <1>3, <3>1, <3>2
  <2>3. QED
    BY <2>1, <2>2
<1>8. Failed.pc \in Settling /\ Failed.base = sup.base /\ Failed.built = sup.built
  BY ZenonT(30), <1>2, <1>3, <1>4, <1>5, <1>6 DEF Failed, SupPlaces, Settling
<1>9. Built.pc \in Settling /\ Built.base = sup.base /\ Built.built
  BY <1>1 DEF Built, Fiber, Settling
<1>10. QED
  BY <1>4, <1>5, <1>7, <1>8, <1>9

\* No line read from the file ends beyond it.
LEMMA GapEnds ==
  ASSUME TInv, Ordered, path # 0, NEW from \in Nat, NEW to, NEW gap, gap = Items(path, from, to)
  PROVE  /\ gap \in Seq(Item)
         /\ \A n \in 1..Len(gap) : gap[n].end <= EndOf(files[path])
         /\ gap # <<>> => Last(gap).end \in Nat /\ Last(gap).end <= EndOf(files[path])
<1>1. /\ path \in 1..Len(files) /\ path \in Nat /\ files[path] \in File /\ OrderedFile(files[path])
      /\ files[path].lines \in Seq(Line) /\ from \in Int
  <2>1. path \in 1..Len(files) /\ files[path] \in File
    BY PathFile
  <2>2. path \in Nat /\ from \in Int
    BY <2>1
  <2>3. OrderedFile(files[path]) /\ files[path].lines \in Seq(Line)
    BY <2>1, FileParts DEF Ordered
  <2>4. QED
    BY <2>1, <2>2, <2>3
<1>2. gap \in Seq(Item)
  BY <1>1, ItemsAre
<1>3. ASSUME NEW n \in 1..Len(gap) PROVE gap[n].end <= EndOf(files[path])
  <2> DEFINE m == UpTo(files[path].lines, from) + n
  <2>1. m \in 1..Len(files[path].lines) /\ gap[n] = ItemOf(path, files[path].lines[m], from)
    BY <1>1, ItemsAre
  <2> HIDE DEF m
  <2>2. gap[n].end = files[path].lines[m].end
    BY <2>1 DEF ItemOf
  <2>3. QED
    BY <1>1, <2>1, <2>2, OrderedEnd
<1>4. ASSUME gap # <<>> PROVE Last(gap).end \in Nat /\ Last(gap).end <= EndOf(files[path])
  <2>1. Len(gap) \in 1..Len(gap)
    BY <1>2, <1>4, EmptySeq
  <2>2. Last(gap) = gap[Len(gap)] /\ Last(gap) \in Item
    BY <1>2, <2>1, ElementOfSeq DEF Last
  <2>3. QED
    BY <1>3, <2>1, <2>2 DEF Item
<1>5. QED
  BY <1>2, <1>3, <1>4

\* An append concludes no further than the file reaches, and no further back
\* than what is consumed.
LEMMA ConcludesWithin ==
  ASSUME TInv, Ordered, OneFile, Within, breaches = 0, NEW w \in Writers, Fstat(w) \/ ScanGap(w)
  PROVE  /\ consumed' \in Nat /\ consumed' >= consumed /\ consumed' <= Bytes
         /\ \A v \in Writers : wr'[v].pc = "scan" => wr'[v].end <= Bytes
         /\ UNCHANGED <<files, path, breaches, sup>>
<1> USE DEF At
<1>1. consumed \in Nat /\ Bytes \in Nat /\ consumed <= Bytes
  BY BytesAre DEF TInv, AdoptedT, Within
<1>2. DOMAIN wr = Writers
  BY DEF TInv, AppendT
<1>3. UNCHANGED <<files, path, breaches, sup>>
  BY DEF Fstat, ScanGap, ConcludeRest, disk
<1>4. ASSUME NEW own, NEW before, NEW after, NEW end \in Nat, end <= Bytes,
             Conclude(w, own, before, after, end)
      PROVE  /\ consumed' \in Nat /\ consumed' >= consumed /\ consumed' <= Bytes
             /\ \A v \in Writers : wr'[v].pc = "scan" => wr'[v].end <= Bytes
  <2>1. consumed' = Larger(consumed, end)
    BY <1>4 DEF Conclude
  <2>2. wr' = [wr EXCEPT ![w] = Idle] \/ wr' = [wr EXCEPT ![w] = [pc |-> "publish"]]
    BY <1>4 DEF Conclude, Fails
  <2>3. QED
    BY <1>1, <1>2, <1>4, <2>1, <2>2 DEF Larger, Idle, Within
<1>5. CASE Fstat(w)
  <2> DEFINE end == Size(files[wr[w].file])
  <2>1. wr[w].pc = "fstat" /\ wr[w].file \in 1..Len(files)
    BY <1>5, AppendParts DEF Fstat
  <2>2. wr[w].file = path /\ path # 0
    <3>1. Len(files) <= 1 /\ path = Len(files) /\ Len(files) \in Nat
      BY PathFile DEF OneFile
    <3>2. QED
      BY <2>1, <3>1
  <2>3. end = Bytes
    BY <2>2 DEF Bytes
  <2> HIDE DEF end
  <2>4. \/ Conclude(w, Guessed(w, end), <<>>, <<>>, end)
        \/ /\ wr' = [wr EXCEPT ![w] = [pc |-> "scan", kind |-> wr[w].kind, file |-> wr[w].file, end |-> end]]
           /\ consumed' = consumed
    BY <1>5 DEF Fstat, end
  <2>5. QED
    BY <1>1, <1>2, <1>3, <1>4, <2>3, <2>4 DEF Within
<1>6. CASE ScanGap(w)
  <2> DEFINE gap == Items(path, consumed, wr[w].end)
             own == Guessed(w, wr[w].end)
             n == FoundAt(gap, own)
  <2>1. wr[w].pc = "scan" /\ path # 0
    BY <1>6 DEF ScanGap
  <2>2. wr[w].end \in Nat /\ wr[w].end <= Bytes
    BY <2>1, AppendParts DEF Append3, Within
  <2>3. /\ gap \in Seq(Item)
        /\ gap # <<>> => Last(gap).end \in Nat /\ Last(gap).end <= EndOf(files[path])
    BY <1>1, <2>1, GapEnds
  <2>4. n = 0 \/ n \in 1..Len(gap)
    BY <2>3, FoundAtIs
  <2>5. IF n # 0
        THEN Conclude(w, gap[n], SubSeq(gap, 1, n - 1), SubSeq(gap, n + 1, Len(gap)), Last(gap).end)
        ELSE Conclude(w, own, gap, <<>>, wr[w].end)
    BY <1>6 DEF ScanGap
  <2> HIDE DEF gap, own, n
  <2>6. CASE n # 0
    <3>1. gap # <<>>
      BY <2>3, <2>4, <2>6, EmptySeq
    <3>2. Last(gap).end \in Nat /\ Last(gap).end <= Bytes
      <4>1. EndOf(files[path]) \in Nat /\ EndOf(files[path]) <= Bytes
        BY <2>1, BytesAre
      <4>2. QED
        BY <1>1, <2>3, <3>1, <4>1
    <3>3. QED
      BY <1>3, <1>4, <2>5, <2>6, <3>2
  <2>7. CASE n = 0
    BY <1>3, <1>4, <2>2, <2>5, <2>7
  <2>8. QED
    BY <2>6, <2>7
<1>7. QED
  BY <1>5, <1>6

LEMMA NextUnbroken ==
  ASSUME TInv, TInv', IInv, Ordered, Unbroken, [Next]_vars
  PROVE  Unbroken'
<1> SUFFICES ASSUME breaches' = 0 PROVE Unbroken'
  BY DEF Unbroken, OneFile, Within, NoBreachSeen
<1> USE DEF Seeding
<1>1. DiskStep /\ OneFile /\ Within /\ NoBreachSeen
  BY NextDisk DEF Unbroken
<1>2. /\ breaches = 0 /\ Len(files') <= 1 /\ path' = Len(files')
      /\ Bytes' >= Bytes /\ (path # 0 => path' # 0)
  BY <1>1, DiskGrows
<1>3. /\ consumed \in Nat /\ Bytes \in Nat /\ Bytes' \in Nat /\ consumed <= Bytes
      /\ \A w \in Writers : wr[w].pc = "scan" => wr[w].end \in Nat /\ wr[w].end <= Bytes
  <2>1. consumed \in Nat /\ Bytes \in Nat /\ Bytes' \in Nat
    <3>1. consumed \in Nat /\ Bytes \in Nat
      BY BytesAre DEF TInv, AdoptedT
    <3>2. Bytes' \in Nat
      <4>1. \A f \in File : Size(f) \in Nat
        BY FileParts
      <4>2. path' # 0 => files'[path'] \in File
        BY DEF TInv, DiskT
      <4>3. Bytes' = IF path' = 0 THEN 0 ELSE Size(files'[path'])
        BY DEF Bytes, Size, EndOf
      <4>4. QED
        BY <4>1, <4>2, <4>3
    <3>3. QED
      BY <3>1, <3>2
  <2>2. \A w \in Writers : wr[w].pc = "scan" => wr[w].end \in Nat
    BY AppendParts DEF Append3
  <2>3. QED
    BY <1>1, <1>2, <2>1, <2>2 DEF Within
<1>4. OneFile'
  BY <1>2 DEF OneFile
\* Where `consumed` and the scans under way may go.
<1>5. ASSUME consumed' \in Nat, consumed' <= Bytes,
             \A w \in Writers : wr'[w].pc = "scan" => wr'[w].end \in Nat /\ wr'[w].end <= Bytes
      PROVE  Within'
  BY <1>2, <1>3, <1>5 DEF Within
<1>6. ASSUME UNCHANGED <<consumed, wr>> PROVE Within'
  BY <1>3, <1>5, <1>6
<1>7. sup \in Fiber /\ sup.floor \in Nat /\ sup.size \in Nat
  BY DEF TInv, FiberT, Fiber
<1>8. ASSUME UNCHANGED sup, consumed' \in Nat, consumed' >= consumed PROVE NoBreachSeen'
  BY <1>1, <1>2, <1>3, <1>7, <1>8 DEF NoBreachSeen
<1>9. ASSUME sup'.pc \in Settling PROVE NoBreachSeen'
  BY <1>9 DEF NoBreachSeen, Settling
<1>10. ASSUME UNCHANGED <<consumed, wr, sup>> PROVE Unbroken'
  BY <1>3, <1>4, <1>6, <1>8, <1>10 DEF Unbroken
<1>11. CASE UNCHANGED vars \/ OthersStep \/ BreachStep \/ PublishStep
  BY <1>10, <1>11 DEF vars, adopted, fibers, OthersStep, OtherAppends, OtherTears, OtherCompletes,
     Others, BreachStep, Breach, Truncate, Replace, RemoveFile, Create, PublishStep, Publish
<1>12. ASSUME NEW w \in Writers,
              \/ \E kind \in Kinds : Append_(w, kind)
              \/ WriterStep(w) \/ WriteFails(w) \/ Interrupt(w)
       PROVE  Unbroken'
  <2>1. CASE Fstat(w) \/ ScanGap(w)
    <3>1. /\ consumed' \in Nat /\ consumed' >= consumed /\ consumed' <= Bytes
          /\ \A v \in Writers : wr'[v].pc = "scan" => wr'[v].end <= Bytes
          /\ UNCHANGED sup
      BY <1>1, <1>2, <2>1, ConcludesWithin
    <3>2. \A v \in Writers : wr'[v].pc = "scan" => wr'[v].end \in Nat
      <4>1. \A v \in Writers : wr'[v] \in Appending
        BY DEF TInv, AppendT
      <4>2. QED
        BY <4>1 DEF Appending, Append0, Append1, Append2, Append3
    <3>3. Within'
      BY <1>5, <3>1, <3>2
    <3>4. QED
      BY <1>4, <1>8, <3>1, <3>3 DEF Unbroken
  <2>2. CASE ~(Fstat(w) \/ ScanGap(w))
    <3>1. /\ UNCHANGED <<consumed, sup>>
          /\ wr'[w].pc # "scan" /\ \A v \in Writers : v # w => wr'[v] = wr[v]
      <4>1. DOMAIN wr = Writers /\ wr[w] \in Appending
        BY DEF TInv, AppendT
      <4>2. wr[w].pc = "queued" => [wr[w] EXCEPT !.pc = "stat"].pc = "stat"
        BY <4>1, AppendParts DEF Append1
      <4>3. wr[w].pc = "stat" => [wr[w] EXCEPT !.pc = "write"].pc = "write"
        BY <4>1, AppendParts DEF Append1
      <4>4. Idle.pc # "scan"
        BY DEF Idle
      <4>5. CASE WriteFails(w) \/ Interrupt(w) \/ \E kind \in Kinds : Append_(w, kind)
        BY <4>1, <4>4, <4>5 DEF WriteFails, WriteRest, Fails, Interrupt, Append_, AppendRest, adopted
      <4>6. CASE Enter(w)
        BY <4>1, <4>2, <4>4, <4>6 DEF Enter, AppendRest, Fails, At, adopted
      <4>7. CASE Stat(w)
        BY <4>1, <4>3, <4>4, <4>7 DEF Stat, AppendRest, Fails, At, adopted
      <4>8. CASE Write(w)
        BY <4>1, <4>8 DEF Write, WriteRest, adopted
      <4>9. CASE ScanFails(w) \/ Answer(w)
        BY <4>1, <4>4, <4>9 DEF ScanFails, AppendRest, Fails, Answer, adopted
      <4>10. QED
        BY <1>12, <2>2, <4>1, <4>5, <4>6, <4>7, <4>8, <4>9 DEF WriterStep
    <3>2. Within'
      BY <1>3, <1>5, <3>1
    <3>3. QED
      BY <1>3, <1>4, <1>8, <3>1, <3>2 DEF Unbroken
  <2>3. QED
    BY <2>1, <2>2
<1>13. CASE SupervisorStep
  <2> USE DEF SupAt, SupGoes, EngineRest, LookRest, disk, adopted
  <2>1. /\ UNCHANGED <<files, path>> /\ UNCHANGED wr
        /\ \A s \in {NextCycle, Returned, Failed, Built} \cup
                     {IngestThen(after) : after \in {"loop", "follow", "await", "created"}} :
             s.pc \in Settling /\ (sup.built => s.built)
    <3>1. UNCHANGED <<files, path, wr>>
      BY <1>13 DEF SupervisorStep, Construct, SeedFails, SeedResume, SeedLatest, Look, Arm, Follow,
         ArmDirectory, Check, Await, Floor, Sample, Judge, ReadGap, PublishedGap, Reseed, Announce
    <3>2. QED
      BY <3>1, FiberSettles
  <2>2. ASSUME UNCHANGED consumed, sup'.pc \in Settling \/
               (sup'.pc \notin {"sample", "judge", "reseed", "announce"} /\
                (sup'.built => sup'.pc \notin Seeding))
        PROVE  Unbroken'
    BY <1>4, <1>6, <1>9, <2>1, <2>2 DEF Unbroken, NoBreachSeen
  <2>3. \A pc \in SupPlaces :
          [sup EXCEPT !.pc = pc].pc = pc /\ [sup EXCEPT !.pc = pc].built = sup.built
    BY <1>7 DEF Fiber
  <2>4. CASE Construct
    <3>1. ~sup.built
      BY <2>4 DEF Construct, IInv, NotBuilt
    <3>2. QED
      BY <2>1, <2>2, <2>3, <2>4, <3>1 DEF Construct, SupPlaces
  <2>5. CASE SeedFails \/ SeedLatest
    <3>1. ~sup.built
      BY <1>1, <1>2, <2>5 DEF SeedFails, SeedLatest, NoBreachSeen
    <3>2. QED
      BY <2>1, <2>2, <2>5, <3>1 DEF SeedFails, SeedLatest
  <2>6. CASE SeedResume
    <3>1. ~sup.built /\ path # 0
      BY <1>1, <1>2, <2>6 DEF SeedResume, NoBreachSeen
    <3>2. sup'.pc = "tail" /\ ~sup'.built
      BY <1>7, <2>6, <3>1 DEF SeedResume, Fiber
    <3>3. consumed' \in Nat /\ consumed' <= Bytes
      BY <2>6, <3>1, BytesAre DEF SeedResume, ResumePoint
    <3>4. Within'
      BY <1>3, <1>5, <2>1, <3>3
    <3>5. QED
      BY <1>4, <3>2, <3>4 DEF Unbroken, NoBreachSeen
  <2>7. CASE Look
    <3>1. sup'.pc \in {"arm", "arm directory"} /\ UNCHANGED consumed
      BY <1>7, <2>7 DEF Look, Fiber
    <3>2. QED
      BY <2>2, <3>1
  <2>8. CASE Arm \/ Follow \/ ArmDirectory \/ Check \/ Await
    <3>1. UNCHANGED consumed
      BY <2>8 DEF Arm, Follow, ArmDirectory, Check, Await
    <3>2. \/ sup' = NextCycle
          \/ \E after \in {"loop", "follow", "await", "created"} : sup' = IngestThen(after)
          \/ sup' = [sup EXCEPT !.pc = "check"] \/ sup' = [sup EXCEPT !.pc = "await"]
      BY <2>8 DEF Arm, Armed, Follow, ArmDirectory, Check, Await
    <3>3. sup'.pc \in Settling \/ sup'.pc \in {"check", "await"}
      <4>1. /\ NextCycle.pc \in Settling
            /\ \A after \in {"loop", "follow", "await", "created"} : IngestThen(after).pc \in Settling
        BY <2>1
      <4>2. \A pc \in {"check", "await"} : [sup EXCEPT !.pc = pc].pc = pc
        BY <2>3 DEF SupPlaces
      <4>3. QED
        BY <3>2, <4>1, <4>2
    <3>4. QED
      BY <2>2, <3>1, <3>3
  <2>9. CASE Floor
    <3>1. sup'.pc = "sample" /\ sup'.floor = consumed /\ UNCHANGED consumed /\ sup'.built = sup.built
      BY <1>7, <2>9 DEF Floor, Fiber
    <3>2. NoBreachSeen'
      BY <1>3, <3>1 DEF NoBreachSeen
    <3>3. QED
      BY <1>4, <1>6, <2>1, <3>1, <3>2 DEF Unbroken
  <2>10. CASE Sample
    <3>1. CASE path = 0
      BY <2>1, <2>2, <2>10, <3>1 DEF Sample
    <3>2. CASE path # 0
      <4>1. /\ sup'.pc = "judge" /\ sup'.file = path /\ sup'.size = Bytes /\ sup'.floor = sup.floor
            /\ UNCHANGED consumed
        BY <1>7, <2>10, <3>2 DEF Sample, Fiber, Bytes
      <4>2. sup.floor <= consumed
        BY <1>1, <1>2, <2>10 DEF Sample, NoBreachSeen
      <4>3. NoBreachSeen'
        BY <1>3, <1>7, <3>2, <4>1, <4>2 DEF NoBreachSeen
      <4>4. QED
        BY <1>4, <1>6, <2>1, <4>1, <4>3 DEF Unbroken
    <3>3. QED
      BY <3>1, <3>2
  <2>11. CASE Judge
    <3>1. sup.file # 0 /\ sup.floor <= sup.size
      BY <1>1, <1>2, <2>11 DEF Judge, NoBreachSeen
    <3>2. ~Shrunk
      BY <1>7, <3>1 DEF Shrunk
    <3>3. ~Replaced
      <4>1. identity \in 0..Len(files) /\ sup.file \in 0..Len(files) /\ Len(files) \in Nat
        BY PathFile DEF TInv, AdoptedT, FiberT
      <4>2. Len(files) <= 1
        BY <1>1, <1>2 DEF OneFile
      <4>3. QED
        BY <3>1, <4>1, <4>2 DEF Replaced
    <3>4. sup' \in {Returned, [sup EXCEPT !.pc = "read"]} /\ UNCHANGED consumed
      BY <2>11, <3>2, <3>3 DEF Judge
    <3>5. QED
      BY <2>1, <2>2, <2>3, <3>4 DEF SupPlaces
  <2>12. CASE ReadGap
    <3>1. CASE path = 0
      BY <2>1, <2>2, <2>12, <3>1 DEF ReadGap
    <3>2. CASE path # 0
      <4> DEFINE gap == Items(path, consumed, sup.size)
      <4>1. /\ consumed' = IF gap = <<>> THEN consumed ELSE Last(gap).end
            /\ sup' = [sup EXCEPT !.pc = "publish"]
        BY <2>12, <3>2 DEF ReadGap
      <4>2. gap # <<>> => Last(gap).end \in Nat /\ Last(gap).end <= EndOf(files[path])
        BY <1>3, <3>2, GapEnds
      <4> HIDE DEF gap
      <4>3. EndOf(files[path]) \in Nat /\ EndOf(files[path]) <= Bytes
        BY <3>2, BytesAre
      <4>4. consumed' \in Nat /\ consumed' <= Bytes
        BY <1>3, <4>1, <4>2, <4>3
      <4>5. Within'
        BY <1>3, <1>5, <2>1, <4>4
      <4>6. sup'.pc = "publish"
        BY <2>3, <4>1 DEF SupPlaces
      <4>7. QED
        BY <1>4, <4>5, <4>6 DEF Unbroken, NoBreachSeen
    <3>3. QED
      BY <3>1, <3>2
  <2>13. CASE PublishedGap
    BY <2>1, <2>2, <2>13 DEF PublishedGap
  <2>14. ~Reseed /\ ~Announce
    BY <1>1, <1>2 DEF Reseed, Announce, NoBreachSeen
  <2>15. QED
    BY <1>13, <2>4, <2>5, <2>6, <2>7, <2>8, <2>9, <2>10, <2>11, <2>12, <2>13, <2>14 DEF SupervisorStep
<1>14. CASE \E r \in Readers : \/ \E cursor \in Cursors : Subscribe(r, cursor)
                              \/ ReaderStep(r) \/ Leave(r)
  BY <1>10, <1>14 DEF Subscribe, ReaderStep, ReplayStat, Replay, Take, Leave, SubscriberRest, adopted
<1>15. CASE Close \/ CloserStep \/ GiveUp
  <2>1. UNCHANGED <<consumed, wr>> /\ (UNCHANGED sup \/ sup' = [sup EXCEPT !.pc = "gone"])
    BY <1>15 DEF Close, CloserStep, Capture, EndStreams, GiveUp, Finalized, SupGoes, adopted
  <2>2. [sup EXCEPT !.pc = "gone"].pc \in Settling
    BY <1>7 DEF Fiber, Settling
  <2>3. NoBreachSeen'
    <3>1. CASE UNCHANGED sup
      BY <1>3, <1>8, <2>1, <3>1
    <3>2. CASE sup' = [sup EXCEPT !.pc = "gone"]
      BY <1>9, <2>2, <3>2
    <3>3. QED
      BY <2>1, <3>1, <3>2
  <2>4. QED
    BY <1>4, <1>6, <2>1, <2>3 DEF Unbroken
<1>16. QED
  BY <1>11, <1>12, <1>13, <1>14, <1>15 DEF Next

LEMMA InitUnbroken == Init => Unbroken
<1> SUFFICES ASSUME Init PROVE Unbroken
  OBVIOUS
<1>1. TInv
  BY InitTyped
<1>2. PICK start \in StartFiles : files = [n \in DOMAIN start |-> FileOf(start[n])]
  BY DEF Init
<1>3. Len(files) <= 1
  <2>1. start \in Seq(Seq(LineKinds)) /\ Len(start) <= 1 /\ DOMAIN start = 1..Len(start)
    BY JournalAssumption
  <2>2. DOMAIN files = 1..Len(start) /\ DOMAIN files = 1..Len(files)
    BY <1>1, <1>2, <2>1 DEF TInv, DiskT
  <2>3. Len(files) \in Nat /\ Len(start) \in Nat
    BY <1>1, <2>1, PathFile
  <2>4. Len(files) = Len(start)
    BY <2>2, <2>3
  <2>5. QED
    BY <2>1, <2>4
<1>4. Bytes \in Nat
  BY <1>1, BytesAre
<1>5. QED
  BY <1>3, <1>4 DEF Init, Unbroken, OneFile, Within, NoBreachSeen, Seeding, Idle

\* A journal that nobody has truncated, replaced or removed is never announced
\* as truncated: what an ingest compares has been sampled in an order that an
\* append cannot invert, however the two overlap (engine.ts:580-587).
THEOREM NeverTruncated == Spec => []NoFalseResync
<1>1. Unbroken /\ TInv => NoFalseResync
  <2> SUFFICES ASSUME Unbroken, TInv, sup.pc = "reseed" PROVE breaches > 0
    BY DEF NoFalseResync, SupAt
  <2>1. breaches \in Nat /\ breaches # 0
    BY DEF Unbroken, NoBreachSeen, TInv, RestT
  <2>2. QED
    BY <2>1
<1>2. QED
  BY <1>1, TypesHold, Invariance, InitTyped, NextTyped, InitOrdered, NextOrdered,
     InitUnbroken, NextUnbroken, PTL DEF Spec

------------------------------------------------------------------------------
(* The publish chain, while nobody is interrupted.                            *)

LEMMA TrimmedIs ==
  ASSUME NEW S, NEW jobs \in Seq(S)
  PROVE  \E k \in 0..Len(jobs) :
           /\ Len(Trimmed(jobs)) = Len(jobs) - k
           /\ \A n \in 1..(Len(jobs) - k) : Trimmed(jobs)[n] = jobs[k + n]
           /\ \A n \in 1..k : jobs[n].done
           /\ k < Len(jobs) => ~jobs[k + 1].done
<1> DEFINE first == SelectInSeq(jobs, LAMBDA job : ~job.done)
<1>1. \/ first = 0 /\ \A m \in 1..Len(jobs) : jobs[m].done
      \/ /\ first \in 1..Len(jobs) /\ ~jobs[first].done
         /\ \A m \in 1..(first - 1) : jobs[m].done
  BY FirstUndone
<1>2. Trimmed(jobs) = IF first = 0 THEN <<>> ELSE SubSeq(jobs, first, Len(jobs))
  BY DEF Trimmed
<1>3. Len(jobs) \in Nat
  OBVIOUS
<1> HIDE DEF first
<1>4. CASE first = 0
  <2>1. Trimmed(jobs) = <<>> /\ Len(<<>>) = 0 /\ \A m \in 1..Len(jobs) : jobs[m].done
    BY <1>1, <1>2, <1>4
  <2>2. Len(jobs) \in 0..Len(jobs) /\ Len(jobs) - Len(jobs) = 0
    BY <1>3
  <2>3. QED
    BY <1>3, <2>1, <2>2
<1>5. CASE first # 0
  <2>1. first \in 1..Len(jobs) /\ ~jobs[first].done /\ \A m \in 1..(first - 1) : jobs[m].done
    BY <1>1, <1>5
  <2>2. /\ Len(Trimmed(jobs)) = Len(jobs) - first + 1
        /\ \A n \in 1..(Len(jobs) - first + 1) : Trimmed(jobs)[n] = jobs[first + n - 1]
    <3>1. first \in Int /\ Len(jobs) \in Int /\ \A i \in first..Len(jobs) : jobs[i] \in S
      BY <1>3, <2>1
    <3>2. /\ Len(SubSeq(jobs, first, Len(jobs))) =
               IF first <= Len(jobs) THEN Len(jobs) - first + 1 ELSE 0
          /\ \A i \in 1..(Len(jobs) - first + 1) : SubSeq(jobs, first, Len(jobs))[i] = jobs[first + i - 1]
      BY <3>1, SubSeqProperties
    <3>3. QED
      BY <1>2, <1>5, <2>1, <3>2
  <2>3. PICK k \in 0..Len(jobs) : first = k + 1
    BY <1>3, <2>1
  <2>4. Len(jobs) - k = Len(jobs) - first + 1 /\ \A n \in 1..(Len(jobs) - k) : k + n = first + n - 1
    BY <1>3, <2>1, <2>3
  <2>5. QED
    BY <2>1, <2>2, <2>3, <2>4
<1>6. QED
  BY <1>4, <1>5

\* Who has a job on the chain, and what the finalizer waits for.
NoneDone == \A n \in 1..Len(chain) : ~chain[n].done
OneJobEach == \A m, n \in 1..Len(chain) : chain[m].by = chain[n].by => m = n
JobsUnderWay ==
  \A n \in 1..Len(chain) :
    IF chain[n].by = Supervisor THEN sup.pc = "publish" ELSE wr[chain[n].by].pc = "publish"
NobodyHolds == closer \in {"draining", "ended"} => \A w \in Writers : wr[w].pc \notin Holding
Awaited ==
  closer = "draining" =>
    \A n \in 1..Len(chain) : chain[n].by # Supervisor =>
      \E m \in 1..Len(chain) : m >= n /\ chain[m].pending
EndedIsEmpty == closer = "ended" => chain = <<>> /\ sup.pc = "gone"
GaveUp == closer = "gave up"
Batons ==
  ~GaveUp =>
    NoneDone /\ OneJobEach /\ JobsUnderWay /\ NobodyHolds /\ Awaited /\ EndedIsEmpty

LEMMA ChainParts ==
  ASSUME TInv
  PROVE  /\ chain \in Seq(Job) /\ Len(chain) \in Nat /\ DOMAIN chain = 1..Len(chain)
         /\ \A n \in 1..Len(chain) :
              /\ chain[n] \in Job /\ chain[n].items \in Seq(Item)
              /\ chain[n].by \in Writers \cup {Supervisor}
              /\ chain[n].done \in BOOLEAN /\ chain[n].pending \in BOOLEAN
<1>1. chain \in Seq(Job)
  BY DEF TInv, ChainT
<1>2. \A n \in 1..Len(chain) : chain[n] \in Job
  BY <1>1
<1>3. QED
  BY <1>1, <1>2 DEF Job

\* While no baton is passed ahead of time, the job at the head is the one that
\* publishes and the one that is forgotten.
LEMMA PassedAlone ==
  ASSUME TInv, NoneDone, OneJobEach, NEW by, Published(by)
  PROVE  /\ 1 \in 1..Len(chain) /\ chain[1].by = by /\ chain[1].items = <<>>
         /\ Len(PassedBy(by)) = Len(chain) - 1
         /\ \A n \in 1..(Len(chain) - 1) : PassedBy(by)[n] = chain[n + 1]
<1>1. /\ chain \in Seq(Job) /\ Len(chain) \in Nat /\ DOMAIN chain = 1..Len(chain)
      /\ \A n \in 1..Len(chain) : chain[n] \in Job
  BY ChainParts
<1>2. PICK n \in 1..Len(chain) : MayPublish(n) /\ chain[n].by = by /\ chain[n].items = <<>>
  BY <1>1 DEF Published
<1>3. n = 1
  <2>1. n > 1 => n - 1 \in 1..Len(chain) /\ chain[n - 1].done
    BY <1>1, <1>2 DEF MayPublish
  <2>2. QED
    BY <1>1, <1>2, <2>1 DEF NoneDone
<1> DEFINE marked == MarkedBy(by)
<1>4. /\ marked \in Seq(Job) /\ Len(marked) = Len(chain) /\ PassedBy(by) = Trimmed(marked)
      /\ \A m \in 1..Len(chain) :
           /\ marked[m].items = chain[m].items /\ marked[m].by = chain[m].by
           /\ marked[m].pending = chain[m].pending
           /\ marked[m].done = (chain[m].done \/ chain[m].by = by)
  BY <1>1, MarkedJobs
<1> HIDE DEF marked
<1>5. PICK k \in 0..Len(marked) :
        /\ Len(Trimmed(marked)) = Len(marked) - k
        /\ \A m \in 1..(Len(marked) - k) : Trimmed(marked)[m] = marked[k + m]
        /\ \A m \in 1..k : marked[m].done
        /\ k < Len(marked) => ~marked[k + 1].done
  BY <1>4, TrimmedIs
<1>6. marked[1].done
  BY <1>2, <1>3, <1>4
<1>7. \A m \in 2..Len(chain) : ~marked[m].done
  <2> SUFFICES ASSUME NEW m \in 2..Len(chain) PROVE ~marked[m].done
    OBVIOUS
  <2>1. m \in 1..Len(chain) /\ m # 1
    OBVIOUS
  <2>2. chain[m].by # by
    BY <1>2, <1>3, <2>1 DEF OneJobEach
  <2>3. QED
    BY <1>4, <2>1, <2>2 DEF NoneDone
<1>8. k = 1
  <2>1. k # 0
    BY <1>1, <1>2, <1>4, <1>5, <1>6
  <2>2. ~(k >= 2)
    BY <1>1, <1>4, <1>5, <1>7
  <2>3. QED
    BY <1>1, <1>4, <1>5, <2>1, <2>2
<1>9. \A m \in 2..Len(chain) : marked[m] = chain[m]
  <2> SUFFICES ASSUME NEW m \in 2..Len(chain) PROVE marked[m] = chain[m]
    OBVIOUS
  <2>1. m \in 1..Len(chain)
    OBVIOUS
  <2>2. marked[m] \in Job /\ chain[m] \in Job
    BY <1>1, <1>4, <2>1
  <2>3. marked[m].done = chain[m].done
    <3>1. marked[m].done = FALSE /\ chain[m].done = FALSE
      BY <1>7, <2>1, <2>2 DEF NoneDone, Job
    <3>2. QED
      BY <3>1
  <2>4. QED
    <3>1. \A job \in Job : job = [items |-> job.items, by |-> job.by, done |-> job.done,
                                  pending |-> job.pending]
      BY DEF Job
    <3>2. QED
      BY <1>4, <2>1, <2>2, <2>3, <3>1
<1>10. \A m \in 1..(Len(chain) - 1) : m + 1 \in 2..Len(chain) /\ 1 + m = m + 1
  BY <1>1
<1>11. QED
  BY <1>1, <1>2, <1>3, <1>4, <1>5, <1>8, <1>9, <1>10

LEMMA HeadPublishes ==
  ASSUME TInv, NoneDone, NEW n \in 1..Len(chain), MayPublish(n)
  PROVE  n = 1
BY ChainParts DEF NoneDone, MayPublish

\* A step that leaves the chain and the finalizer alone.
LEMMA BatonsStay ==
  ASSUME TInv, Batons, UNCHANGED <<chain, closer>>,
         \A w \in Writers : wr[w].pc = "publish" => wr'[w].pc = "publish",
         sup.pc = "publish" => sup'.pc = "publish",
         sup.pc = "gone" => sup'.pc = "gone",
         closed => \A w \in Writers : wr'[w].pc \in Holding => wr[w].pc \in Holding
  PROVE  Batons'
<1> SUFFICES ASSUME ~GaveUp PROVE Batons'
  BY DEF Batons, GaveUp
<1>1. NoneDone /\ OneJobEach /\ JobsUnderWay /\ NobodyHolds /\ Awaited /\ EndedIsEmpty
  BY DEF Batons
<1>2. NoneDone' /\ OneJobEach' /\ Awaited'
  BY <1>1 DEF NoneDone, OneJobEach, Awaited
<1>3. JobsUnderWay'
  <2>1. \A n \in 1..Len(chain) : chain[n].by # Supervisor => chain[n].by \in Writers
    BY ChainParts
  <2>2. QED
    BY <1>1, <2>1 DEF JobsUnderWay
<1>4. NobodyHolds' /\ EndedIsEmpty'
  BY <1>1 DEF NobodyHolds, EndedIsEmpty, closed
<1>5. QED
  BY <1>2, <1>3, <1>4 DEF Batons, GaveUp

\* A job more, of somebody who has none.
LEMMA BatonsLink ==
  ASSUME TInv, Batons, ~GaveUp, NEW items \in Seq(Item), NEW by \in Writers \cup {Supervisor},
         chain' = Link(items, by), closer' = closer, closer # "ended",
         by # Supervisor => closer # "draining",
         by = Supervisor => sup.pc # "publish" /\ sup'.pc = "publish" /\ wr' = wr,
         by # Supervisor => /\ wr[by].pc # "publish" /\ wr'[by].pc = "publish" /\ sup' = sup
                            /\ \A w \in Writers : w # by => wr'[w] = wr[w]
  PROVE  Batons'
<1>1. NoneDone /\ OneJobEach /\ JobsUnderWay /\ NobodyHolds /\ Awaited /\ EndedIsEmpty
  BY DEF Batons
<1>2. /\ chain \in Seq(Job) /\ Len(chain) \in Nat
      /\ \A n \in 1..Len(chain) : chain[n].by \in Writers \cup {Supervisor}
  BY ChainParts
<1> DEFINE job == [items |-> items, by |-> by, done |-> FALSE, pending |-> FALSE]
           N == Len(chain)
<1>3. /\ Len(chain') = N + 1 /\ chain'[N + 1] = job
      /\ \A n \in 1..N : chain'[n] = chain[n]
  BY LinkIsChain
<1>4. job.by = by /\ job.done = FALSE
  OBVIOUS
<1> HIDE DEF job
<1>5. \A n \in 1..Len(chain') : n \in 1..N \/ n = N + 1
  <2>1. N \in Nat /\ Len(chain') = N + 1
    BY <1>2, <1>3
  <2> HIDE DEF N
  <2>2. QED
    BY <2>1
<1>6. \A n \in 1..N : chain[n].by # by
  <2> SUFFICES ASSUME NEW n \in 1..N, chain[n].by = by PROVE FALSE
    OBVIOUS
  <2>1. IF by = Supervisor THEN sup.pc = "publish" ELSE wr[by].pc = "publish"
    BY <1>1 DEF JobsUnderWay
  <2>2. QED
    BY <2>1
<1>7. NoneDone'
  BY <1>1, <1>3, <1>4, <1>5 DEF NoneDone
<1>8. OneJobEach'
  <2> SUFFICES ASSUME NEW m \in 1..Len(chain'), NEW n \in 1..Len(chain'), chain'[m].by = chain'[n].by
               PROVE  m = n
    BY DEF OneJobEach
  <2>1. CASE m \in 1..N /\ n \in 1..N
    BY <1>1, <1>3, <2>1 DEF OneJobEach
  <2>2. CASE ~(m \in 1..N /\ n \in 1..N)
    BY <1>3, <1>4, <1>5, <1>6, <2>2
  <2>3. QED
    BY <2>1, <2>2
<1>9. JobsUnderWay'
  <2> SUFFICES ASSUME NEW n \in 1..Len(chain')
               PROVE  IF chain'[n].by = Supervisor THEN sup'.pc = "publish" ELSE wr'[chain'[n].by].pc = "publish"
    BY DEF JobsUnderWay
  <2>1. CASE n \in 1..N
    <3>1. chain'[n].by = chain[n].by /\ chain[n].by # by /\ chain[n].by \in Writers \cup {Supervisor}
      BY <1>2, <1>3, <1>6, <2>1
    <3>2. IF chain[n].by = Supervisor THEN sup.pc = "publish" ELSE wr[chain[n].by].pc = "publish"
      BY <1>1, <2>1 DEF JobsUnderWay
    <3>3. QED
      BY <3>1, <3>2
  <2>2. CASE n = N + 1
    BY <1>3, <1>4, <2>2
  <2>3. QED
    BY <1>5, <2>1, <2>2
<1>10. NobodyHolds'
  <2>1. CASE by = Supervisor
    BY <1>1, <2>1 DEF NobodyHolds
  <2>2. CASE by # Supervisor
    BY <2>2 DEF NobodyHolds
  <2>3. QED
    BY <2>1, <2>2
<1>11. Awaited'
  <2> SUFFICES ASSUME closer' = "draining", NEW n \in 1..Len(chain'), chain'[n].by # Supervisor
               PROVE  \E m \in 1..Len(chain') : m >= n /\ chain'[m].pending
    BY DEF Awaited
  <2>1. n \in 1..N /\ closer = "draining"
    BY <1>3, <1>4, <1>5
  <2>2. PICK m \in 1..N : m >= n /\ chain[m].pending
    BY <1>1, <1>3, <2>1 DEF Awaited
  <2>3. m \in 1..Len(chain') /\ chain'[m] = chain[m]
    BY <1>2, <1>3
  <2>4. QED
    BY <2>2, <2>3
<1>12. EndedIsEmpty'
  BY DEF EndedIsEmpty
<1>13. QED
  BY <1>7, <1>8, <1>9, <1>10, <1>11, <1>12 DEF Batons, GaveUp

\* The head of the chain is answered.
LEMMA BatonsPass ==
  ASSUME TInv, Batons, ~GaveUp, NEW by \in Writers \cup {Supervisor}, Published(by),
         chain' = PassedBy(by), closer' = closer,
         by = Supervisor => wr' = wr,
         by # Supervisor => /\ sup' = sup /\ wr'[by].pc \notin Holding
                            /\ \A w \in Writers : w # by => wr'[w] = wr[w]
  PROVE  Batons'
<1>1. NoneDone /\ OneJobEach /\ JobsUnderWay /\ NobodyHolds /\ Awaited /\ EndedIsEmpty
  BY DEF Batons
<1>2. /\ chain \in Seq(Job) /\ Len(chain) \in Nat
      /\ \A n \in 1..Len(chain) : chain[n].by \in Writers \cup {Supervisor}
  BY ChainParts
<1>3. /\ 1 \in 1..Len(chain) /\ chain[1].by = by
      /\ Len(chain') = Len(chain) - 1
      /\ \A n \in 1..(Len(chain) - 1) : chain'[n] = chain[n + 1]
  BY <1>1, PassedAlone
<1>4. /\ Len(chain') \in Nat
      /\ \A n \in 1..Len(chain') : n + 1 \in 1..Len(chain) /\ chain'[n] = chain[n + 1] /\ n >= 1 /\ n \in Int
  <2> DEFINE N == Len(chain)
  <2>1. N \in Nat /\ 1 \in 1..N /\ Len(chain') = N - 1
    BY <1>2, <1>3
  <2>2. \A n \in 1..Len(chain') : n \in 1..(N - 1)
    BY <2>1
  <2>3. QED
    <3> HIDE DEF N
    <3>1. N - 1 \in Nat /\ \A n \in 1..(N - 1) : n + 1 \in 1..N /\ n >= 1 /\ n \in Int
      BY <2>1
    <3>2. QED
      BY <1>3, <2>1, <2>2, <3>1 DEF N
<1>5. NoneDone'
  BY <1>1, <1>4 DEF NoneDone
<1>6. OneJobEach'
  <2> SUFFICES ASSUME NEW m \in 1..Len(chain'), NEW n \in 1..Len(chain'), chain'[m].by = chain'[n].by
               PROVE  m = n
    BY DEF OneJobEach
  <2>1. m + 1 = n + 1
    BY <1>1, <1>4 DEF OneJobEach
  <2>2. QED
    BY <1>4, <2>1
<1>7. \A n \in 1..Len(chain') : chain[n + 1].by # by
  <2> SUFFICES ASSUME NEW n \in 1..Len(chain'), chain[n + 1].by = by PROVE FALSE
    OBVIOUS
  <2>1. n + 1 = 1
    BY <1>1, <1>3, <1>4 DEF OneJobEach
  <2>2. QED
    BY <1>4, <2>1
<1>8. JobsUnderWay'
  <2> SUFFICES ASSUME NEW n \in 1..Len(chain')
               PROVE  IF chain'[n].by = Supervisor THEN sup'.pc = "publish" ELSE wr'[chain'[n].by].pc = "publish"
    BY DEF JobsUnderWay
  <2>1. /\ chain'[n].by = chain[n + 1].by /\ chain[n + 1].by # by
        /\ chain[n + 1].by \in Writers \cup {Supervisor}
    BY <1>2, <1>4, <1>7
  <2>2. IF chain[n + 1].by = Supervisor THEN sup.pc = "publish" ELSE wr[chain[n + 1].by].pc = "publish"
    BY <1>1, <1>4 DEF JobsUnderWay
  <2>3. CASE by = Supervisor
    BY <2>1, <2>2, <2>3
  <2>4. CASE by # Supervisor
    BY <2>1, <2>2, <2>4
  <2>5. QED
    BY <2>3, <2>4
<1>9. NobodyHolds'
  BY <1>1 DEF NobodyHolds
<1>10. Awaited'
  <2> SUFFICES ASSUME closer' = "draining", NEW n \in 1..Len(chain'), chain'[n].by # Supervisor
               PROVE  \E m \in 1..Len(chain') : m >= n /\ chain'[m].pending
    BY DEF Awaited
  <2>1. n + 1 \in 1..Len(chain) /\ chain[n + 1].by # Supervisor
    BY <1>4
  <2>2. PICK m \in 1..Len(chain) : m >= n + 1 /\ chain[m].pending
    BY <1>1, <2>1 DEF Awaited
  <2>3. m - 1 \in 1..Len(chain') /\ m - 1 >= n
    BY <1>2, <1>3, <2>1, <2>2
  <2>4. chain'[m - 1] = chain[(m - 1) + 1] /\ (m - 1) + 1 = m
    BY <1>4, <2>3
  <2>5. QED
    BY <2>2, <2>3, <2>4
<1>11. EndedIsEmpty'
  BY <1>1, <1>3 DEF EndedIsEmpty
<1>12. QED
  BY <1>5, <1>6, <1>8, <1>9, <1>10, <1>11 DEF Batons, GaveUp

LEMMA NextBatons ==
  ASSUME ~MayInterrupt, TInv, IInv, Batons, [Next]_vars
  PROVE  Batons'
<1> USE DEF disk, adopted, fibers
<1>1. CASE GaveUp'
  BY <1>1 DEF Batons
<1>2. CASE ~GaveUp'
  <2> USE <1>2
  <2>1. CASE UNCHANGED vars \/ OthersStep \/ BreachStep
    BY <2>1, BatonsStay DEF vars, OthersStep, OtherAppends, OtherTears, OtherCompletes,
       Others, BreachStep, Breach, Truncate, Replace, RemoveFile, Create
  <2>2. CASE PublishStep
    <3>1. PICK n \in 1..Len(chain) : Publish(n)
      BY <2>2, ChainParts DEF PublishStep
    <3>2. /\ chain' = [chain EXCEPT ![n].items = Tail(@)]
          /\ UNCHANGED <<wr, sup, closer>>
      BY <3>1 DEF Publish
    <3>3. /\ chain \in Seq(Job) /\ Len(chain) \in Nat
          /\ \A m \in 1..Len(chain) : chain[m] \in Job
      BY ChainParts
    <3>4. /\ Len(chain') = Len(chain)
          /\ \A m \in 1..Len(chain) : /\ chain'[m].by = chain[m].by /\ chain'[m].done = chain[m].done
                                      /\ chain'[m].pending = chain[m].pending
      <4> DEFINE job == [chain[n] EXCEPT !.items = Tail(@)]
      <4>1. /\ job.by = chain[n].by /\ job.done = chain[n].done /\ job.pending = chain[n].pending
        BY <3>3 DEF Job
      <4>2. chain' = [chain EXCEPT ![n] = job]
        BY <3>2
      <4>3. DOMAIN chain = 1..Len(chain) /\ DOMAIN chain' = 1..Len(chain)
        BY <3>3, <4>2
      <4>4. Len(chain') = Len(chain)
        <5>1. chain' \in Seq(Job)
          BY <2>2, TypedPublish DEF TInv, ChainT
        <5>2. Len(chain') \in Nat /\ DOMAIN chain' = 1..Len(chain')
          BY <5>1
        <5>3. QED
          BY <3>3, <4>3, <5>2
      <4> HIDE DEF job
      <4>5. QED
        BY <4>1, <4>2, <4>3, <4>4
    <3>5. CASE GaveUp
      BY <1>2, <3>2, <3>5 DEF GaveUp
    <3>6. CASE ~GaveUp
      <4>1. NoneDone /\ OneJobEach /\ JobsUnderWay /\ NobodyHolds /\ Awaited /\ EndedIsEmpty
        BY <3>6 DEF Batons
      <4>2. NoneDone'
        BY <3>4, <4>1 DEF NoneDone
      <4>3. OneJobEach'
        BY <3>4, <4>1 DEF OneJobEach
      <4>4. JobsUnderWay'
        BY <3>2, <3>4, <4>1 DEF JobsUnderWay
      <4>5. NobodyHolds'
        BY <3>2, <4>1 DEF NobodyHolds
      <4>6. Awaited'
        BY <3>2, <3>4, <4>1 DEF Awaited
      <4>7. EndedIsEmpty'
        <5>1. chain # <<>>
          BY <3>1, <3>3, EmptySeq
        <5>2. QED
          BY <3>2, <4>1, <5>1 DEF EndedIsEmpty
      <4>8. QED
        BY <4>2, <4>3, <4>4, <4>5, <4>6, <4>7 DEF Batons
    <3>7. QED
      BY <3>5, <3>6
  <2>3. ASSUME NEW w \in Writers,
               \/ \E kind \in Kinds : Append_(w, kind)
               \/ WriterStep(w) \/ WriteFails(w) \/ Interrupt(w)
        PROVE  Batons'
    <3>1. /\ DOMAIN wr = Writers /\ wr[w] \in Appending /\ UNCHANGED <<sup, closer>>
          /\ w # Supervisor
      <4>1. DOMAIN wr = Writers /\ wr[w] \in Appending
        BY DEF TInv, AppendT
      <4>2. UNCHANGED <<sup, closer>>
        BY <2>3 DEF Append_, AppendRest, WriterStep, WriteFails, Interrupt, Enter, Stat, Write,
           WriteRest, Fstat, ScanGap, ScanFails, Answer, ConcludeRest
      <4>3. QED
        BY <4>1, <4>2, AppendParts
    <3>2. ~GaveUp
      BY <1>2, <3>1 DEF GaveUp
    \* The fiber moves, and links nothing.
    <3>3. ASSUME UNCHANGED chain, wr[w].pc # "publish", \A v \in Writers : v # w => wr'[v] = wr[v],
                 wr'[w].pc \in Holding => wr[w].pc \in Holding \/ ~closed
          PROVE  Batons'
      BY <3>1, <3>3, BatonsStay
    <3>4. \A a : wr' = [wr EXCEPT ![w] = a] => wr'[w] = a /\ \A v \in Writers : v # w => wr'[v] = wr[v]
      BY <3>1
    <3>5. /\ wr[w].pc \in {"queued", "stat", "write"} => "pc" \in DOMAIN wr[w]
          /\ Idle.pc = "idle"
      BY <3>1 DEF Appending, Append0, Append1, Append2, Append3, Idle
    <3>6. CASE \E kind \in Kinds : Append_(w, kind)
      BY <3>3, <3>4, <3>6 DEF Append_, AppendRest, At, Holding
    <3>7. ASSUME Fails(w), wr[w].pc # "publish", UNCHANGED chain PROVE Batons'
      BY <3>3, <3>4, <3>5, <3>7 DEF Fails, Holding
    <3>8. CASE Enter(w)
      <4>1. CASE closed
        BY <3>7, <3>8, <4>1 DEF Enter, At, AppendRest
      <4>2. CASE ~closed
        BY <3>3, <3>4, <3>8, <4>2 DEF Enter, At, AppendRest
      <4>3. QED
        BY <4>1, <4>2
    <3>9. CASE Stat(w)
      <4>1. CASE ~Admissible(wr[w].kind)
        BY <3>7, <3>9, <4>1 DEF Stat, At, AppendRest
      <4>2. CASE Admissible(wr[w].kind)
        BY <3>3, <3>4, <3>9, <4>2 DEF Stat, At, AppendRest, Holding
      <4>3. QED
        BY <4>1, <4>2
    <3>10. CASE Write(w)
      BY <3>3, <3>4, <3>10 DEF Write, WriteRest, At, Holding
    <3>11. CASE WriteFails(w)
      BY <3>7, <3>11 DEF WriteFails, WriteRest, At
    <3>12. ASSUME wr[w].pc \in {"fstat", "scan"}, NEW own \in Item, NEW before \in Seq(Item),
                  NEW after \in Seq(Item), NEW end, Conclude(w, own, before, after, end)
           PROVE  Batons'
      <4>1. CASE own.kind = "odd"
        BY <3>7, <3>12, <4>1 DEF Conclude
      <4>2. CASE own.kind # "odd"
        <5> DEFINE batch == Batch(before, own, after)
        <5>1. batch \in Seq(Item)
          BY <3>12, BatchIsItems
        <5>2. chain' = Link(batch, w) /\ wr' = [wr EXCEPT ![w] = [pc |-> "publish"]]
          BY <4>2, <3>12 DEF Conclude
        <5> HIDE DEF batch
        <5>3. wr'[w].pc = "publish" /\ \A v \in Writers : v # w => wr'[v] = wr[v]
          BY <3>4, <5>2
        <5>4. closer \notin {"draining", "ended"}
          BY <3>2, <3>12 DEF Batons, NobodyHolds, Holding
        <5>5. wr[w].pc # "publish"
          BY <3>12
        <5>6. QED
          BY <3>1, <3>2, <5>1, <5>2, <5>3, <5>4, <5>5, BatonsLink
      <4>3. QED
        BY <4>1, <4>2
    <3>13. CASE Fstat(w)
      <4> DEFINE end == Size(files[wr[w].file])
                 own == Guessed(w, end)
                 a == [pc |-> "scan", kind |-> wr[w].kind, file |-> wr[w].file, end |-> end]
      <4>1. wr[w].pc = "fstat" /\ wr[w].file \in 1..Len(files)
        BY <3>13, AppendParts DEF Fstat, At
      <4>2. end \in Nat
        BY <4>1, PathFile, FileParts
      <4>3. own \in Item /\ <<>> \in Seq(Item)
        BY <4>1, <4>2, GuessedIsItem, EmptySeq
      <4>4. /\ a.pc = "scan"
            /\ \/ Conclude(w, own, <<>>, <<>>, end)
               \/ wr' = [wr EXCEPT ![w] = a] /\ UNCHANGED chain
        BY <3>13 DEF Fstat
      <4> HIDE DEF end, own, a
      <4>5. CASE Conclude(w, own, <<>>, <<>>, end)
        BY <3>12, <4>1, <4>3, <4>5
      <4>6. CASE wr' = [wr EXCEPT ![w] = a] /\ UNCHANGED chain
        BY <3>3, <3>4, <4>1, <4>4, <4>6 DEF Holding
      <4>7. QED
        BY <4>4, <4>5, <4>6
    <3>14. CASE ScanGap(w)
      <4> DEFINE gap == Items(path, consumed, wr[w].end)
                 own == Guessed(w, wr[w].end)
                 n == FoundAt(gap, own)
      <4>1. wr[w].pc = "scan" /\ wr[w].end \in Nat /\ path # 0 /\ consumed \in Int
        BY <3>14, AppendParts DEF ScanGap, At, Append3, TInv, AdoptedT
      <4>2. gap \in Seq(Item)
        <5>1. path \in 1..Len(files) /\ files[path] \in File
          BY <4>1, PathFile
        <5>2. path \in Nat /\ files[path].lines \in Seq(Line)
          BY <5>1, FileParts
        <5>3. QED
          BY <4>1, <5>2, ItemsAre
      <4>3. own \in Item /\ <<>> \in Seq(Item)
        BY <4>1, GuessedIsItem, EmptySeq
      <4>4. n = 0 \/ n \in 1..Len(gap)
        BY <4>2, FoundAtIs
      <4>5. IF n # 0
            THEN Conclude(w, gap[n], SubSeq(gap, 1, n - 1), SubSeq(gap, n + 1, Len(gap)), Last(gap).end)
            ELSE Conclude(w, own, gap, <<>>, wr[w].end)
        BY <3>14 DEF ScanGap
      <4> HIDE DEF gap, own, n
      <4>6. CASE n # 0
        <5>1. /\ gap[n] \in Item
              /\ SubSeq(gap, 1, n - 1) \in Seq(Item) /\ SubSeq(gap, n + 1, Len(gap)) \in Seq(Item)
          BY <4>2, <4>4, <4>6, GapSplits
        <5>2. QED
          BY <3>12, <4>1, <4>5, <4>6, <5>1
      <4>7. CASE n = 0
        BY <3>12, <4>1, <4>2, <4>3, <4>5, <4>7
      <4>8. QED
        BY <4>6, <4>7
    <3>15. CASE ScanFails(w)
      BY <3>7, <3>15 DEF ScanFails, AppendRest, At
    <3>16. CASE Answer(w)
      <4>1. /\ Published(w) /\ chain' = PassedBy(w) /\ wr'[w].pc = "idle"
            /\ \A v \in Writers : v # w => wr'[v] = wr[v]
        BY <3>4, <3>5, <3>16 DEF Answer
      <4>2. QED
        BY <3>1, <3>2, <4>1, BatonsPass DEF Holding
    <3>17. QED
      BY <2>3, <3>6, <3>8, <3>9, <3>10, <3>11, <3>13, <3>14, <3>15, <3>16 DEF WriterStep, Interrupt
  <2>4. CASE SupervisorStep
    <3> USE DEF SupAt, SupGoes, EngineRest, LookRest
    <3>1. UNCHANGED <<wr, closer>>
      BY <2>4 DEF SupervisorStep, Construct, SeedFails, SeedResume, SeedLatest, Look, Arm, Follow,
         ArmDirectory, Check, Await, Floor, Sample, Judge, ReadGap, PublishedGap, Reseed, Announce
    <3>2. ~GaveUp
      BY <1>2, <3>1 DEF GaveUp
    <3>3. ASSUME UNCHANGED chain, sup.pc \notin {"publish", "gone"} PROVE Batons'
      BY <3>1, <3>3, BatonsStay
    <3>4. CASE ReadGap
      <4>1. CASE path = 0
        BY <3>3, <3>4, <4>1 DEF ReadGap
      <4>2. CASE path # 0
        <5> DEFINE gap == Items(path, consumed, sup.size)
        <5>1. gap \in Seq(Item)
          <6>1. path \in 1..Len(files) /\ files[path] \in File
            BY <4>2, PathFile
          <6>2. path \in Nat /\ files[path].lines \in Seq(Line) /\ consumed \in Int
            BY <6>1, FileParts DEF TInv, AdoptedT
          <6>3. QED
            BY <6>2, ItemsAre
        <5>2. /\ chain' = Link(gap, Supervisor) /\ sup' = [sup EXCEPT !.pc = "publish"]
              /\ sup.pc = "read"
          BY <3>4, <4>2 DEF ReadGap
        <5> HIDE DEF gap
        <5>3. sup'.pc = "publish"
          BY <5>2 DEF TInv, FiberT, Fiber
        <5>4. closer # "ended"
          BY <3>2, <5>2 DEF Batons, EndedIsEmpty
        <5>5. QED
          BY <3>1, <3>2, <5>1, <5>2, <5>3, <5>4, BatonsLink
      <4>3. QED
        BY <4>1, <4>2
    <3>5. CASE PublishedGap
      BY <3>1, <3>2, <3>5, BatonsPass DEF PublishedGap
    <3>6. QED
      BY <2>4, <3>3, <3>4, <3>5 DEF SupervisorStep, Construct, SeedFails, SeedResume, SeedLatest, Look,
         Arm, Follow, ArmDirectory, Check, Await, Floor, Sample, Judge, Reseed, Announce
  <2>5. CASE \E r \in Readers : \/ \E cursor \in Cursors : Subscribe(r, cursor)
                                \/ ReaderStep(r) \/ Leave(r)
    BY <2>5, BatonsStay DEF Subscribe, ReaderStep, ReplayStat, Replay, Take, Leave, SubscriberRest
  <2>6. CASE Close
    <3>1. closer = "open" /\ closer' = "refusing" /\ UNCHANGED <<chain, wr, sup>>
      BY <2>6 DEF Close, closed
    <3>2. ~GaveUp
      BY <3>1 DEF GaveUp
    <3>3. QED
      BY <3>1, <3>2 DEF Batons, NoneDone, OneJobEach, JobsUnderWay, NobodyHolds, Awaited, EndedIsEmpty
  <2>7. CASE Capture
    <3>1. /\ permit = NoOne /\ closer' = "draining" /\ UNCHANGED <<wr, sup>> /\ closer = "refusing"
          /\ chain' = IF chain = <<>> THEN chain ELSE [chain EXCEPT ![Len(chain)].pending = TRUE]
      BY <2>7 DEF Capture, Free
    <3>2. NoneDone /\ OneJobEach /\ JobsUnderWay
      BY <3>1 DEF Batons, GaveUp
    <3>3. NobodyHolds'
      <4>1. \A w \in Writers : w # NoOne
        BY JournalAssumption
      <4>2. QED
        BY <3>1, <4>1 DEF NobodyHolds, IInv, PermitHeld
    <3>4. EndedIsEmpty'
      BY <3>1 DEF EndedIsEmpty
    <3>5. CASE chain = <<>>
      <4>1. chain' = chain /\ Len(chain') = 0
        BY <3>1, <3>5, EmptySeq
      <4>2. 1..0 = {}
        OBVIOUS
      <4>3. QED
        BY <3>3, <3>4, <4>1, <4>2 DEF Batons, NoneDone, OneJobEach, JobsUnderWay, Awaited
    <3>6. CASE chain # <<>>
      <4> DEFINE N == Len(chain)
                 job == [chain[N] EXCEPT !.pending = TRUE]
      <4>1. /\ chain \in Seq(Job) /\ N \in Nat /\ N \in 1..N /\ chain[N] \in Job /\ DOMAIN chain = 1..N
        BY <3>6, ChainParts, EmptySeq
      <4>2. chain' = [chain EXCEPT ![N] = job]
        BY <3>1, <3>6
      <4>3. job \in Job /\ job.by = chain[N].by /\ job.done = chain[N].done /\ job.pending
        BY <4>1 DEF Job
      <4> HIDE DEF N, job
      <4>4. /\ Len(chain') = N
            /\ \A n \in 1..N : chain'[n] = IF n = N THEN job ELSE chain[n]
        <5>1. Len(chain') = Len(chain) /\ \A n \in 1..Len(chain) : chain'[n] = IF n = N THEN job ELSE chain[n]
          BY <4>1, <4>2, <4>3, ExceptSeq DEF N
        <5>2. QED
          BY <5>1 DEF N
      <4>5. \A n \in 1..N : chain'[n].by = chain[n].by /\ chain'[n].done = chain[n].done
        BY <4>3, <4>4
      <4>6. NoneDone'
        BY <3>2, <4>4, <4>5 DEF NoneDone, N
      <4>7. OneJobEach'
        BY <3>2, <4>4, <4>5 DEF OneJobEach, N
      <4>8. JobsUnderWay'
        BY <3>1, <3>2, <4>4, <4>5 DEF JobsUnderWay, N
      <4>9. Awaited'
        <5>1. N \in 1..Len(chain') /\ chain'[N].pending /\ \A n \in 1..Len(chain') : N >= n
          BY <4>1, <4>3, <4>4
        <5>2. QED
          BY <5>1 DEF Awaited
      <4>10. QED
        BY <3>3, <3>4, <4>6, <4>7, <4>8, <4>9 DEF Batons
    <3>7. QED
      BY <3>5, <3>6
  <2>8. CASE EndStreams
    <3>1. /\ Drained /\ closer = "draining" /\ closer' = "ended" /\ chain' = PassedBy(Supervisor)
          /\ sup' = [sup EXCEPT !.pc = "gone"] /\ UNCHANGED wr
      BY <2>8 DEF EndStreams, Finalized, SupGoes
    <3>2. NoneDone /\ OneJobEach /\ JobsUnderWay /\ NobodyHolds /\ Awaited
      BY <3>1 DEF Batons, GaveUp
    <3>3. \A n \in 1..Len(chain) : chain[n].by = Supervisor
      <4>1. \A n \in 1..Len(chain) : ~chain[n].pending
        BY <3>1, <3>2, ChainParts DEF Drained, NoneDone
      <4>2. QED
        BY <3>1, <3>2, <4>1 DEF Awaited
    <3> DEFINE marked == MarkedBy(Supervisor)
    <3>4. /\ marked \in Seq(Job) /\ Len(marked) = Len(chain) /\ PassedBy(Supervisor) = Trimmed(marked)
          /\ \A n \in 1..Len(marked) : marked[n].done
      BY ZenonT(30), <3>3, ChainParts, MarkedJobs
    <3> HIDE DEF marked
    <3>5. PICK k \in 0..Len(marked) :
            /\ Len(Trimmed(marked)) = Len(marked) - k
            /\ k < Len(marked) => ~marked[k + 1].done
      BY <3>4, TrimmedIs
    <3>6. Trimmed(marked) = <<>>
      <4>1. Len(marked) \in Nat /\ Trimmed(marked) \in Seq(Job)
        BY <3>4, TrimmedIsJobs
      <4>2. k = Len(marked)
        BY <3>4, <3>5, <4>1
      <4>3. Len(Trimmed(marked)) = 0
        BY <3>5, <4>1, <4>2
      <4>4. QED
        BY <4>1, <4>3, EmptySeq
    <3>7. chain' = <<>> /\ Len(chain') = 0 /\ 1..0 = {}
      BY <3>1, <3>4, <3>6, EmptySeq
    <3>8. sup'.pc = "gone"
      BY <3>1 DEF TInv, FiberT, Fiber
    <3>9. NobodyHolds' /\ EndedIsEmpty' /\ Awaited'
      BY <3>1, <3>2, <3>7, <3>8 DEF NobodyHolds, EndedIsEmpty, Awaited
    <3>10. NoneDone' /\ OneJobEach' /\ JobsUnderWay'
      BY <3>7 DEF NoneDone, OneJobEach, JobsUnderWay
    <3>11. QED
      BY <3>9, <3>10 DEF Batons
  <2>9. CASE GiveUp
    BY <1>2, <2>9 DEF GiveUp, Finalized, GaveUp
  <2>10. QED
    BY <2>1, <2>2, <2>3, <2>4, <2>5, <2>6, <2>7, <2>8, <2>9 DEF Next, CloserStep
<1>3. QED
  BY <1>1, <1>2

LEMMA InitBatons == Init => Batons
<1> SUFFICES ASSUME Init PROVE Batons
  OBVIOUS
<1>1. chain = <<>> /\ Len(chain) = 0 /\ closer = "open" /\ 1..0 = {}
  BY EmptySeq DEF Init
<1>2. QED
  BY <1>1 DEF Batons, NoneDone, OneJobEach, JobsUnderWay, NobodyHolds, Awaited, EndedIsEmpty

\* The end of the streams does not overtake an append that was accepted, unless
\* an append is interrupted: whatever the finalizer waits for is the last of the
\* accepted appends, and the ones ahead of it are answered before it
\* (Journal.ts:91-94, engine.ts:764-768).
THEOREM EndIsLast == ASSUME ~MayInterrupt PROVE Spec => []EndAfterAppends
<1>1. Batons => EndAfterAppends
  <2> SUFFICES ASSUME Batons, closer = "ended", NEW n \in DOMAIN chain PROVE FALSE
    BY DEF EndAfterAppends
  <2>1. chain = <<>>
    BY DEF Batons, EndedIsEmpty, GaveUp
  <2>2. QED
    BY <2>1
<1>2. QED
  BY <1>1, TypesHold, Invariance, InitBatons, NextBatons, PTL DEF Spec

------------------------------------------------------------------------------
(* A journal that is only ever appended to, a whole line at a time.           *)

Ruly == ~MayTear /\ ~MayFail /\ MaxBreaches = 0

StraightFile(f) ==
  /\ f.torn = "none"
  /\ \A n \in 1..Len(f.lines) : f.lines[n].start = 2 * n - 2 /\ f.lines[n].end = 2 * n
Straight == breaches = 0 /\ half = None /\ \A i \in 1..Len(files) : StraightFile(files[i])

Count == IF path = 0 THEN 0 ELSE Len(files[path].lines)
\* The n-th line of the journal, as it is read.
LineItem(n) ==
  [file |-> path, start |-> 2 * n - 2, end |-> 2 * n, kind |-> files[path].lines[n].kind]

LEMMA StraightSizes ==
  ASSUME NEW f \in File, StraightFile(f)
  PROVE  Len(f.lines) \in Nat /\ EndOf(f) = 2 * Len(f.lines) /\ Size(f) = 2 * Len(f.lines)
<1>1. f.lines \in Seq(Line) /\ Len(f.lines) \in Nat
  BY FileParts
<1>2. EndOf(f) = 2 * Len(f.lines)
  <2>1. CASE f.lines = <<>>
    <3>1. Len(f.lines) = 0 /\ EndOf(f) = 0
      BY <2>1, EmptySeq DEF EndOf
    <3>2. QED
      BY <3>1
  <2>2. CASE f.lines # <<>>
    <3>1. Len(f.lines) \in 1..Len(f.lines)
      BY <1>1, <2>2, EmptySeq
    <3>2. EndOf(f) = f.lines[Len(f.lines)].end
      BY <2>2 DEF EndOf, Last
    <3>3. QED
      BY <3>1, <3>2 DEF StraightFile
  <2>3. QED
    BY <2>1, <2>2
<1>3. Size(f) = EndOf(f)
  BY <1>1, <1>2 DEF Size, StraightFile
<1>4. QED
  BY <1>1, <1>2, <1>3

LEMMA LandedStraight ==
  ASSUME NEW f \in File, StraightFile(f), NEW kind \in ItemKinds
  PROVE  /\ StraightFile(Landed(f, kind))
         /\ Len(Landed(f, kind).lines) = Len(f.lines) + 1
         /\ \A n \in 1..Len(f.lines) : Landed(f, kind).lines[n] = f.lines[n]
         /\ Landed(f, kind).lines[Len(f.lines) + 1].kind = kind
<1> DEFINE g == Landed(f, kind)
           N == Len(f.lines)
<1>1. N \in Nat /\ EndOf(f) = 2 * N /\ Size(f) = 2 * N
  BY StraightSizes
<1>2. /\ g.torn = "none" /\ Len(g.lines) = N + 1
      /\ \A n \in 1..N : g.lines[n] = f.lines[n]
      /\ g.lines[N + 1] = [start |-> EndOf(f), end |-> Size(f) + 2,
                           kind |-> IF f.torn = "none" THEN kind ELSE "bad"]
  BY LandedIsFile
<1> HIDE DEF g
<1>3. /\ g.lines[N + 1].kind = kind
      /\ g.lines[N + 1].start = 2 * (N + 1) - 2
      /\ g.lines[N + 1].end = 2 * (N + 1)
  BY <1>1, <1>2 DEF StraightFile
<1>4. \A n \in 1..(N + 1) : g.lines[n].start = 2 * n - 2 /\ g.lines[n].end = 2 * n
  <2> SUFFICES ASSUME NEW n \in 1..(N + 1)
               PROVE  g.lines[n].start = 2 * n - 2 /\ g.lines[n].end = 2 * n
    OBVIOUS
  <2>1. CASE n \in 1..N
    BY <1>2, <2>1 DEF StraightFile
  <2>2. CASE n = N + 1
    BY <1>3, <2>2
  <2>3. QED
    BY <1>1, <2>1, <2>2
<1>5. QED
  BY <1>2, <1>3, <1>4 DEF g, StraightFile

LEMMA CountParts ==
  ASSUME TInv, Straight
  PROVE  /\ Count \in Nat
         /\ Bytes = 2 * Count
         /\ path # 0 => /\ files[path] \in File /\ StraightFile(files[path]) /\ Count = Len(files[path].lines)
                        /\ EndOf(files[path]) = 2 * Count /\ Size(files[path]) = 2 * Count
         /\ \A n \in 1..Count : path # 0 /\ LineItem(n) \in Item
<1>1. CASE path = 0
  BY <1>1 DEF Count, Bytes
<1>2. CASE path # 0
  <2>1. path \in 1..Len(files) /\ files[path] \in File /\ Len(files) \in Nat
    BY <1>2, PathFile
  <2>2. StraightFile(files[path])
    BY <2>1 DEF Straight
  <2>3. /\ Len(files[path].lines) \in Nat
        /\ EndOf(files[path]) = 2 * Len(files[path].lines) /\ Size(files[path]) = 2 * Len(files[path].lines)
    BY <2>1, <2>2, StraightSizes
  <2>4. ASSUME NEW n \in 1..Count PROVE LineItem(n) \in Item
    <3>1. n \in 1..Len(files[path].lines) /\ files[path].lines \in Seq(Line)
      BY <1>2, <2>1, FileParts DEF Count
    <3>2. files[path].lines[n] \in Line
      BY <3>1, ElementOfSeq
    <3>3. 2 * n \in Nat /\ 2 * n - 2 \in Int /\ path \in Nat
      BY <2>1, <2>3, <3>1
    <3>4. QED
      BY <3>2, <3>3 DEF LineItem, Item, Line
  <2>5. QED
    BY <1>2, <2>1, <2>2, <2>3, <2>4 DEF Count, Bytes
<1>3. QED
  BY <1>1, <1>2

\* How many lines there are up to an offset.
LEMMA StraightUpTo ==
  ASSUME NEW f \in File, StraightFile(f), NEW offset \in Nat
  PROVE  /\ UpTo(f.lines, offset) \in 0..Len(f.lines)
         /\ \A n \in 1..Len(f.lines) : n <= UpTo(f.lines, offset) <=> 2 * n <= offset
<1>1. f.lines \in Seq(Line) /\ Len(f.lines) \in Nat /\ DOMAIN f.lines = 1..Len(f.lines)
  BY FileParts
<1> DEFINE N == Len(f.lines)
           T == {n \in 0..N : 2 * n <= offset}
<1>2. PICK k \in T : \A n \in T : k >= n
  <2>1. N \in Nat /\ T \subseteq 0..N
    BY <1>1
  <2>2. 0 \in T
    BY <1>1
  <2> HIDE DEF T, N
  <2>3. QED
    BY <2>1, <2>2, GreatestExists
<1>3. k \in 0..N /\ \A n \in 1..N : n <= k <=> 2 * n <= offset
  <2> HIDE DEF N
  <2>1. k \in 0..N /\ 2 * k <= offset /\ N \in Nat
    BY <1>1 DEF N
  <2>2. ASSUME NEW n \in 1..N, n <= k PROVE 2 * n <= offset
    BY <2>1, <2>2
  <2>3. ASSUME NEW n \in 1..N, 2 * n <= offset PROVE n <= k
    <3>1. n \in T
      BY <2>1, <2>3
    <3>2. QED
      BY <1>2, <2>1, <3>1
  <2>4. QED
    BY <2>1, <2>2, <2>3
<1>4. {n \in DOMAIN f.lines : f.lines[n].end <= offset} = 1..k
  <2>1. \A n \in 1..N : f.lines[n].end = 2 * n
    BY DEF StraightFile
  <2> HIDE DEF T
  <2>2. QED
    BY <1>1, <1>3, <2>1
<1>5. Cardinality(1..k) = k
  <2>1. k \in Nat /\ k \in Int /\ 1 \in Int
    BY <1>3
  <2>2. Cardinality(1..k) = IF 1 > k THEN 0 ELSE k - 1 + 1
    BY <2>1, FS_Interval
  <2>3. QED
    BY <2>1, <2>2
<1>6. UpTo(f.lines, offset) = k
  BY <1>4, <1>5 DEF UpTo
<1>7. QED
  BY <1>3, <1>6

\* A whole line keeps its place from one scan to the next.
Skipped(offset) == UpTo(files[path].lines, offset)

LEMMA StraightItems ==
  ASSUME TInv, Straight, path # 0, NEW from \in Nat, NEW to \in Nat
  PROVE  /\ Items(path, from, to) \in Seq(Item)
         /\ Skipped(from) \in 0..Count /\ Skipped(to) \in 0..Count
         /\ \A n \in 1..Count : /\ n <= Skipped(from) <=> 2 * n <= from
                                /\ n <= Skipped(to) <=> 2 * n <= to
         /\ Len(Items(path, from, to)) =
              IF Skipped(to) >= Skipped(from) THEN Skipped(to) - Skipped(from) ELSE 0
         /\ \A n \in 1..Len(Items(path, from, to)) :
              /\ Skipped(from) + n \in 1..Count
              /\ Items(path, from, to)[n].end = 2 * (Skipped(from) + n)
              /\ Items(path, from, to)[n].start =
                   IF 2 * (Skipped(from) + n) - 2 < from THEN from ELSE 2 * (Skipped(from) + n) - 2
              /\ 2 * (Skipped(from) + n) - 2 >= from =>
                   Items(path, from, to)[n] = LineItem(Skipped(from) + n)
<1> DEFINE a == Skipped(from)
           b == Skipped(to)
<1>1. /\ files[path] \in File /\ StraightFile(files[path]) /\ Count = Len(files[path].lines) /\ Count \in Nat
  BY CountParts
<1>2. path \in Nat /\ files[path].lines \in Seq(Line) /\ from \in Int
  <2>1. path \in 1..Len(files)
    BY PathFile
  <2>2. QED
    BY <1>1, <2>1, FileParts
<1>3. /\ a \in 0..Count /\ b \in 0..Count
      /\ \A n \in 1..Count : (n <= a <=> 2 * n <= from) /\ (n <= b <=> 2 * n <= to)
  BY <1>1, StraightUpTo DEF Skipped
<1> DEFINE items == Items(path, from, to)
<1>4. /\ items \in Seq(Item)
      /\ Len(items) = IF b >= a THEN b - a ELSE 0
      /\ \A n \in 1..Len(items) : /\ a + n \in 1..Len(files[path].lines)
                                  /\ items[n] = ItemOf(path, files[path].lines[a + n], from)
  BY <1>2, ItemsAre DEF Skipped
<1> HIDE DEF items
<1>5. ASSUME NEW n \in 1..Len(items)
      PROVE  /\ a + n \in 1..Count
             /\ items[n].end = 2 * (a + n)
             /\ items[n].start = IF 2 * (a + n) - 2 < from THEN from ELSE 2 * (a + n) - 2
             /\ 2 * (a + n) - 2 >= from => items[n] = LineItem(a + n)
  <2> DEFINE m == a + n
             line == files[path].lines[m]
  <2>1. m \in 1..Count /\ items[n] = ItemOf(path, line, from)
    BY <1>1, <1>4, <1>5
  <2>2. line.start = 2 * m - 2 /\ line.end = 2 * m
    BY <1>1, <2>1 DEF StraightFile
  <2>3. m \in Int /\ 2 * m - 2 \in Int
    BY <2>1
  <2>4. 2 * m - 2 >= from => ~(line.start < from)
    BY <2>2, <2>3
  <2>5. LineItem(m) = [file |-> path, start |-> 2 * m - 2, end |-> 2 * m, kind |-> line.kind]
    BY DEF LineItem
  <2> HIDE DEF m, line
  <2>6. items[n].end = 2 * m /\ items[n].start = IF 2 * m - 2 < from THEN from ELSE 2 * m - 2
    BY <2>1, <2>2 DEF ItemOf
  <2>7. 2 * m - 2 >= from => items[n] = LineItem(m)
    BY <2>1, <2>2, <2>4, <2>5 DEF ItemOf
  <2>8. QED
    BY <2>1, <2>6, <2>7 DEF m
<1>6. QED
  BY <1>3, <1>4, <1>5 DEF items

\* A step leaves the lines there are where they are, and adds at most one.
LEMMA Grows ==
  ASSUME Ruly, TInv, TInv', Straight, OneFile, DiskStep
  PROVE  /\ Straight' /\ Count' \in Nat
         /\ Count' = Count \/ Count' = Count + 1
         /\ path # 0 => path' = path
         /\ \A n \in 1..Count : LineItem(n)' = LineItem(n)
         /\ \A w \in Writers : Write(w) =>
              /\ Count' = Count + 1
              /\ \A n : n = Count + 1 => LineItem(n)'.kind = wr[w].kind
<1>1. /\ files \in Seq(File) /\ Len(files) \in Nat /\ path = Len(files) /\ path \in {0, 1}
      /\ path \in Nat
      /\ breaches = 0 /\ half = None
  <2>1. breaches = 0 /\ half = None
    BY DEF Straight
  <2>2. files \in Seq(File) /\ Len(files) <= 1 /\ path = Len(files) /\ Len(files) \in Nat
    BY <2>1, PathFile DEF OneFile, TInv, DiskT
  <2>3. QED
    BY <2>1, <2>2
<1>2. breaches' = 0
  BY <1>1 DEF DiskStep, OthersStep, OtherAppends, OtherTears, OtherCompletes, BreachStep, Truncate,
     Replace, RemoveFile, Create, Breach, Write, WriteRest, WriteFails, Ruly
<1>3. Len(files') <= 1 /\ path' = Len(files') /\ (path # 0 => path' # 0)
  BY <1>2, DiskGrows
<1>4. /\ Count \in Nat
      /\ path # 0 => files[path] \in File /\ StraightFile(files[path]) /\ Count = Len(files[path].lines)
  BY CountParts
<1>5. ASSUME path # 0, NEW kind \in ItemKinds, path' = path, half' = None,
             files' = [files EXCEPT ![path] = Landed(files[path], kind)]
      PROVE  /\ Straight' /\ Count' = Count + 1
             /\ \A n \in 1..Count : LineItem(n)' = LineItem(n)
             /\ \A n : n = Count + 1 => LineItem(n)'.kind = kind
  <2> DEFINE new == Landed(files[path], kind)
             old == files[path]
  <2>1. path \in 1..Len(files)
    BY <1>1, <1>5
  <2>2. /\ new \in File /\ StraightFile(new) /\ Len(new.lines) = Len(old.lines) + 1
        /\ \A n \in 1..Len(old.lines) : new.lines[n] = old.lines[n]
        /\ new.lines[Len(old.lines) + 1].kind = kind
    BY <1>4, <1>5, LandedStraight, LandedIsFile
  <2>3. files'[path] = new /\ Len(files') = Len(files)
    BY <1>5, <2>1, <2>2, FilesChange
  <2> HIDE DEF new
  <2>4. Straight'
    <3>1. \A i \in 1..Len(files') : files'[i] = new
      BY <1>1, <1>5, <2>3
    <3>2. QED
      BY <1>2, <1>5, <2>2, <3>1 DEF Straight
  <2>5. Count' = Len(new.lines) /\ Count = Len(old.lines)
    BY <1>4, <1>5, <2>3 DEF Count
  <2>6. \A n : LineItem(n)' = [file |-> path, start |-> 2 * n - 2, end |-> 2 * n, kind |-> new.lines[n].kind]
    BY <1>5, <2>3 DEF LineItem
  <2>7. \A n \in 1..Count : LineItem(n)' = LineItem(n)
    BY <2>2, <2>5, <2>6 DEF LineItem
  <2>8. QED
    BY <2>2, <2>4, <2>5, <2>6, <2>7
<1>6. ASSUME path = 0, NEW f \in File, StraightFile(f), half' = None,
             Len(files') = 1, path' = 1, files'[1] = f
      PROVE  /\ Straight' /\ Count' = Len(f.lines) /\ Count = 0
             /\ \A n \in 1..Count : LineItem(n)' = LineItem(n)
             /\ \A n : LineItem(n)'.kind = f.lines[n].kind
  <2>1. Straight'
    BY <1>2, <1>6 DEF Straight
  <2>2. Count' = Len(f.lines) /\ Count = 0
    BY <1>6 DEF Count
  <2>3. QED
    BY <1>6, <2>1, <2>2 DEF LineItem
<1>7. ASSUME UNCHANGED <<files, path, half>>
      PROVE  Straight' /\ Count' = Count /\ \A n \in 1..Count : LineItem(n)' = LineItem(n)
  BY <1>2, <1>7 DEF Straight, Count, LineItem
<1>8. ~\E w \in Writers : WriteFails(w)
  BY DEF WriteFails, Ruly
<1>9. CASE UNCHANGED <<files, path, half, breaches>>
  <2>1. ~\E w \in Writers : Write(w)
    <3> SUFFICES ASSUME NEW w \in Writers, Write(w) PROVE FALSE
      OBVIOUS
    <3>1. wr[w].kind \in ItemKinds
      BY AppendParts, JournalAssumption DEF Write, At, ItemKinds
    <3>2. path # 0
      BY <1>1, <1>9 DEF Write, OpenedAt
    <3>3. files' = [files EXCEPT ![path] = Landed(files[path], wr[w].kind)]
      BY <3>2 DEF Write, Target, OpenedAt
    <3>4. Count' = Count + 1
      BY <1>1, <1>5, <1>9, <3>1, <3>2, <3>3
    <3>5. QED
      BY <1>4, <1>7, <1>9, <3>4
  <2>2. QED
    BY <1>4, <1>7, <1>9, <2>1
<1>10. ASSUME OthersStep \/ BreachStep, ~UNCHANGED <<files, path, half, breaches>>
       PROVE  /\ Straight' /\ Count' \in Nat
              /\ Count' = Count \/ Count' = Count + 1
              /\ path # 0 => path' = path
              /\ \A n \in 1..Count : LineItem(n)' = LineItem(n)
              /\ UNCHANGED wr
  <2>1. \/ \E kind \in OtherKinds : OtherAppends(kind)
        \/ Create
    BY <1>1, <1>10 DEF OthersStep, OtherTears, OtherCompletes, BreachStep, Truncate, Replace,
       RemoveFile, Breach, Ruly
  <2>2. ASSUME NEW kind \in OtherKinds, OtherAppends(kind)
        PROVE  /\ kind \in ItemKinds /\ path # 0 /\ path' = path /\ half' = None
               /\ files' = [files EXCEPT ![path] = Landed(files[path], kind)]
    BY <1>1, <2>2, JournalAssumption DEF OtherAppends, ItemKinds
  <2>3. ASSUME Create
        PROVE  /\ path = 0 /\ half' = None /\ Len(files') = 1 /\ path' = 1
               /\ files'[1] = FileOf(<<>>) /\ StraightFile(FileOf(<<>>)) /\ Len(FileOf(<<>>).lines) = 0
    <3>1. path = 0 /\ Len(files) = 0 /\ files' = Append(files, FileOf(<<>>)) /\ half' = None
      BY <1>1, <2>3 DEF Create
    <3>2. Len(files') = 1 /\ files'[1] = FileOf(<<>>)
      BY <3>1, EmptyFile, FilesChange
    <3>3. Len(FileOf(<<>>).lines) = 0 /\ 1..0 = {}
      BY EmptyFile, EmptySeq
    <3>4. StraightFile(FileOf(<<>>))
      BY <3>3, EmptyFile DEF StraightFile
    <3>5. QED
      BY <1>3, <3>1, <3>2, <3>3, <3>4
  <2>4. UNCHANGED wr
    BY <2>1 DEF OtherAppends, Create, Others, fibers
  <2>5. CASE \E kind \in OtherKinds : OtherAppends(kind)
    BY <1>4, <1>5, <2>2, <2>4, <2>5
  <2>6. CASE Create
    BY <1>6, <2>3, <2>4, <2>6, EmptyFile
  <2>7. QED
    BY <2>1, <2>5, <2>6
<1>11. ASSUME NEW w \in Writers, Write(w)
       PROVE  /\ Straight' /\ Count' \in Nat /\ Count' = Count + 1
              /\ path # 0 => path' = path
              /\ \A n \in 1..Count : LineItem(n)' = LineItem(n)
              /\ \A n : n = Count + 1 => LineItem(n)'.kind = wr[w].kind
  <2>1. wr[w].kind \in ItemKinds /\ half' = None
    BY <1>1, <1>11, AppendParts, JournalAssumption DEF Write, WriteRest, At, ItemKinds
  <2>2. CASE path # 0
    <3>1. files' = [files EXCEPT ![path] = Landed(files[path], wr[w].kind)] /\ path' = path
      BY <1>11, <2>2 DEF Write, Target, OpenedAt
    <3>2. /\ Straight' /\ Count' = Count + 1
          /\ \A n \in 1..Count : LineItem(n)' = LineItem(n)
          /\ \A n : n = Count + 1 => LineItem(n)'.kind = wr[w].kind
      BY <1>5, <2>1, <2>2, <3>1
    <3>3. Count' \in Nat
      BY <1>4, <3>2
    <3>4. QED
      BY <3>1, <3>2, <3>3
  <2>3. CASE path = 0
    <3> DEFINE empty == FileOf(<<>>)
               new == Landed(empty, wr[w].kind)
               longer == Append(files, empty)
    <3>1. /\ empty \in File /\ StraightFile(empty) /\ Len(empty.lines) = 0
      <4>1. Len(FileOf(<<>>).lines) = 0 /\ 1..0 = {}
        BY EmptyFile, EmptySeq
      <4>2. StraightFile(FileOf(<<>>))
        BY <4>1, EmptyFile DEF StraightFile
      <4>3. QED
        BY <4>1, <4>2, EmptyFile
    <3> HIDE DEF empty
    <3>2. /\ new \in File /\ StraightFile(new) /\ Len(new.lines) = 1 /\ new.lines[1].kind = wr[w].kind
      <4>1. /\ new \in File /\ StraightFile(new) /\ Len(new.lines) = Len(empty.lines) + 1
            /\ new.lines[Len(empty.lines) + 1].kind = wr[w].kind
        BY <2>1, <3>1, LandedIsFile, LandedStraight
      <4>2. Len(empty.lines) + 1 = 1
        BY <3>1
      <4> HIDE DEF new
      <4>3. QED
        BY <4>1, <4>2
    <3>3. longer \in Seq(File) /\ Len(longer) = 1 /\ Len(files) = 0 /\ 1 \in 1..Len(longer)
          /\ longer[1] = empty
      BY <1>1, <2>3, <3>1, FilesChange
    <3>4. files' = [longer EXCEPT ![1] = new] /\ path' = 1
      BY <1>11, <2>3, <3>3 DEF Write, Target, OpenedAt, empty
    <3> HIDE DEF new, longer
    <3>5. Len(files') = 1 /\ files'[1] = new
      BY <3>2, <3>3, <3>4, ExceptSeq
    <3>6. Straight' /\ Count' = 1 /\ Count = 0 /\ \A n : LineItem(n)'.kind = new.lines[n].kind
      BY <1>6, <2>1, <2>3, <3>2, <3>4, <3>5
    <3>7. QED
      BY <2>3, <3>2, <3>6
  <2>4. QED
    BY <2>2, <2>3
<1>12. CASE OthersStep \/ BreachStep
  <2>1. CASE UNCHANGED <<files, path, half, breaches>>
    BY <1>9, <2>1
  <2>2. CASE ~UNCHANGED <<files, path, half, breaches>>
    <3>1. UNCHANGED wr
      BY <1>10, <1>12, <2>2
    <3>2. ~\E w \in Writers : Write(w)
      <4>1. \A w \in Writers : Write(w) => wr[w].pc = "write" /\ wr'[w].pc = "fstat"
        BY DEF Write, At, TInv, AppendT
      <4>2. QED
        BY <3>1, <4>1
    <3>3. QED
      BY <1>10, <1>12, <2>2, <3>2
  <2>3. QED
    BY <2>1, <2>2
<1>13. ASSUME NEW w \in Writers, NEW v \in Writers, Write(w), Write(v) PROVE w = v
  <2>1. \A x \in Writers : Write(x) => wr[x].pc = "write" /\ wr'[x].pc = "fstat"
                                        /\ \A y \in Writers : y # x => wr'[y] = wr[y]
    BY DEF Write, At, TInv, AppendT
  <2>2. wr[w].pc = "write" /\ wr'[w].pc = "fstat" /\ (v # w => wr'[w] = wr[w])
    BY <1>13, <2>1
  <2>3. QED
    BY <2>2
<1>14. CASE \E w \in Writers : Write(w)
  BY <1>11, <1>13, <1>14
<1>15. QED
  BY <1>8, <1>9, <1>12, <1>14 DEF DiskStep

LEMMA InitStraight == Init => Straight
<1> SUFFICES ASSUME Init PROVE Straight
  OBVIOUS
<1>1. PICK start \in StartFiles : files = [n \in DOMAIN start |-> FileOf(start[n])]
  BY DEF Init
<1>2. start \in Seq(Seq(LineKinds)) /\ DOMAIN start = 1..Len(start) /\ Len(start) \in Nat
  BY JournalAssumption
<1>3. ASSUME NEW i \in 1..Len(files) PROVE StraightFile(files[i])
  <2>1. files \in Seq(File)
    BY InitTyped DEF TInv, DiskT
  <2>2. DOMAIN files = 1..Len(files) /\ DOMAIN files = 1..Len(start)
    BY <1>1, <1>2, <2>1
  <2>3. i \in 1..Len(start) /\ files[i] = FileOf(start[i]) /\ start[i] \in Seq(LineKinds)
    BY <1>1, <1>2, <2>2, ElementOfSeq
  <2> DEFINE kinds == start[i]
             lines == FileOf(kinds).lines
  <2>4. /\ FileOf(kinds).torn = "none" /\ Len(lines) = Len(kinds)
        /\ \A n \in 1..Len(kinds) : lines[n] = [start |-> 2 * n - 2, end |-> 2 * n, kind |-> kinds[n]]
    BY <2>3, FileOfIsFile
  <2> HIDE DEF lines, kinds
  <2>5. \A n \in 1..Len(lines) : lines[n].start = 2 * n - 2 /\ lines[n].end = 2 * n
    <3> SUFFICES ASSUME NEW n \in 1..Len(lines) PROVE lines[n].start = 2 * n - 2 /\ lines[n].end = 2 * n
      OBVIOUS
    <3>1. lines[n] = [start |-> 2 * n - 2, end |-> 2 * n, kind |-> kinds[n]]
      BY <2>4
    <3>2. QED
      BY <3>1
  <2>6. QED
    BY <2>3, <2>4, <2>5 DEF StraightFile, lines, kinds
<1>4. QED
  BY <1>3 DEF Init, Straight

------------------------------------------------------------------------------
(* Lines c + 1 to e of the journal, as an append or an ingest links them.     *)

Run(batch, c, e) ==
  /\ batch \in Seq(Item) /\ Len(batch) = e - c
  /\ \A n \in 1..(e - c) : batch[n] = LineItem(c + n)

\* The last readable one of them.
NewestOf(item, c, e) ==
  \E m \in (c + 1)..e :
    /\ item = LineItem(m) /\ Valid(LineItem(m))
    /\ \A k \in (m + 1)..e : ~Valid(LineItem(k))

LEMMA LineItemIs ==
  ASSUME NEW n
  PROVE  /\ LineItem(n).file = path /\ LineItem(n).start = 2 * n - 2 /\ LineItem(n).end = 2 * n
         /\ LineItem(n).kind = files[path].lines[n].kind
BY DEF LineItem

LEMMA GapIsRun ==
  ASSUME TInv, Straight, path # 0, NEW c \in 0..Count, NEW e \in 0..Count,
         NEW from \in Nat, NEW to \in Nat, NEW gap, gap = Items(path, from, to)
  PROVE  from = 2 * c /\ to = 2 * e =>
           /\ c <= e => Run(gap, c, e)
           /\ c < e => gap # <<>> /\ Last(gap).end = to
           /\ c >= e => gap = <<>>
<1>1. Count \in Nat /\ c \in Nat /\ e \in Nat
  BY CountParts
<1> DEFINE a == Skipped(from)
           b == Skipped(to)
<1>2. /\ gap \in Seq(Item)
      /\ a \in 0..Count /\ b \in 0..Count
      /\ \A n \in 1..Count : (n <= a <=> 2 * n <= from) /\ (n <= b <=> 2 * n <= to)
      /\ Len(gap) = IF b >= a THEN b - a ELSE 0
      /\ \A n \in 1..Len(gap) :
              /\ a + n \in 1..Count
              /\ 2 * (a + n) - 2 >= from => gap[n] = LineItem(a + n)
  BY StraightItems
<1> HIDE DEF a, b
<1> SUFFICES ASSUME from = 2 * c, to = 2 * e
             PROVE  /\ c <= e => Run(gap, c, e)
                    /\ c < e => gap # <<>> /\ Last(gap).end = to
                    /\ c >= e => gap = <<>>
  OBVIOUS
<1>3. \A n \in 1..Count : (n <= a <=> n <= c) /\ (n <= b <=> n <= e)
  <2>1. \A n \in 1..Count : (2 * n <= from <=> n <= c) /\ (2 * n <= to <=> n <= e)
    BY <1>1
  <2>2. QED
    BY <1>2, <2>1
<1>4. a = c /\ b = e
  <2>1. ASSUME NEW x \in 0..Count, NEW y \in 0..Count, \A n \in 1..Count : n <= x <=> n <= y
        PROVE  x = y
    <3>1. ~(x < y)
      <4>1. x < y => y \in 1..Count
        BY <1>1
      <4>2. QED
        BY <1>1, <2>1, <4>1
    <3>2. ~(y < x)
      <4>1. y < x => x \in 1..Count
        BY <1>1
      <4>2. QED
        BY <1>1, <2>1, <4>1
    <3>3. QED
      BY <1>1, <3>1, <3>2
  <2>2. QED
    BY <1>2, <1>3, <2>1
<1>5. ASSUME c <= e PROVE Run(gap, c, e)
  <2>1. Len(gap) = e - c
    BY <1>1, <1>2, <1>4, <1>5
  <2>2. ASSUME NEW n \in 1..(e - c) PROVE gap[n] = LineItem(c + n)
    <3>1. 2 * (c + n) - 2 >= from
      BY <1>1
    <3>2. QED
      BY <1>2, <1>4, <2>1, <3>1
  <2>3. QED
    BY <1>2, <2>1, <2>2 DEF Run
<1>6. ASSUME c < e PROVE gap # <<>> /\ Last(gap).end = to
  <2>1. Run(gap, c, e) /\ e - c \in 1..(e - c) /\ c + (e - c) = e
    BY <1>1, <1>5, <1>6
  <2>2. Len(gap) = e - c /\ gap[e - c] = LineItem(e) /\ gap # <<>>
    BY <2>1, EmptySeq DEF Run
  <2>3. Last(gap) = LineItem(e)
    BY <2>2 DEF Last
  <2>4. QED
    BY <2>2, <2>3, LineItemIs
<1>7. ASSUME c >= e PROVE gap = <<>>
  <2>1. Len(gap) = 0
    BY <1>1, <1>2, <1>4, <1>7
  <2>2. QED
    BY <1>2, <2>1, EmptySeq
<1>8. QED
  BY <1>5, <1>6, <1>7

\* The lines ahead of the own one, the own one and those behind it are the lines.
LEMMA BatchIsRun ==
  ASSUME NEW c \in Nat, NEW e \in Nat, c < e, NEW gap, Run(gap, c, e), NEW n \in 1..Len(gap)
  PROVE  Run(Batch(SubSeq(gap, 1, n - 1), gap[n], SubSeq(gap, n + 1, Len(gap))), c, e)
<1> DEFINE before == SubSeq(gap, 1, n - 1)
           after == SubSeq(gap, n + 1, Len(gap))
           batch == Batch(before, gap[n], after)
           N == Len(gap)
<1>1. gap \in Seq(Item) /\ N = e - c /\ \A m \in 1..N : gap[m] = LineItem(c + m)
  BY DEF Run
<1>2. N \in Nat /\ n \in 1..N /\ n \in Nat
  BY <1>1
<1>3. /\ gap[n] \in Item /\ before \in Seq(Item) /\ after \in Seq(Item)
      /\ Len(before) = n - 1 /\ Len(after) = N - n
      /\ \A m \in 1..(n - 1) : before[m] = gap[m]
      /\ \A m \in 1..(N - n) : after[m] = gap[n + m]
  BY <1>1, GapSplits
<1> HIDE DEF before, after
<1>4. /\ batch \in Seq(Item)
      /\ Len(batch) = Len(before) + 1 + Len(after)
      /\ \A m \in 1..Len(before) : batch[m] = before[m]
      /\ batch[Len(before) + 1] = gap[n]
      /\ \A m \in 1..Len(after) : batch[Len(before) + 1 + m] = after[m]
  BY <1>3, BatchIsItems
<1> HIDE DEF batch, N
<1>5. Len(batch) = N /\ Len(before) + 1 = n
  BY <1>2, <1>3, <1>4
<1>6. ASSUME NEW m \in 1..N PROVE batch[m] = gap[m]
  <2>1. CASE m < n
    <3>1. m \in 1..(n - 1)
      BY <1>2, <2>1
    <3>2. QED
      BY <1>3, <1>4, <3>1
  <2>2. CASE m = n
    BY <1>4, <1>5, <2>2
  <2>3. CASE m > n
    <3>1. m - n \in 1..(N - n) /\ n + (m - n) = m
      BY <1>2, <2>3
    <3>2. batch[n + (m - n)] = after[m - n] /\ after[m - n] = gap[n + (m - n)]
      BY <1>3, <1>4, <1>5, <3>1
    <3>3. QED
      BY <3>1, <3>2
  <2>4. QED
    BY <1>2, <2>1, <2>2, <2>3
<1>7. QED
  BY <1>1, <1>4, <1>5, <1>6 DEF Run, batch, before, after, N

\* `latest` moves to the last readable line, if there is one.
LEMMA LatestOfRun ==
  ASSUME NEW c \in Nat, NEW e \in Nat, c <= e, NEW batch, Run(batch, c, e), NEW otherwise
  PROVE  \/ NewestOf(LastEnvelope(batch, otherwise), c, e)
         \/ /\ LastEnvelope(batch, otherwise) = otherwise
            /\ \A k \in (c + 1)..e : ~Valid(LineItem(k))
<1> DEFINE n == SelectLastInSeq(batch, Valid)
<1>1. batch \in Seq(Item) /\ Len(batch) = e - c /\ \A m \in 1..(e - c) : batch[m] = LineItem(c + m)
  BY DEF Run
<1>2. \/ n = 0 /\ \A m \in 1..Len(batch) : ~Valid(batch[m])
      \/ /\ n \in 1..Len(batch) /\ Valid(batch[n])
         /\ \A m \in 1..Len(batch) : m > n => ~Valid(batch[m])
  <2>1. \/ n = 0 /\ \A m \in 1..Len(batch) : ~Valid(batch[m])
        \/ /\ n \in 1..Len(batch) /\ Valid(batch[n])
           /\ \A m \in (n + 1)..Len(batch) : ~Valid(batch[m])
    BY <1>1, LastValid
  <2> HIDE DEF n
  <2>2. n \in 1..Len(batch) => \A m \in 1..Len(batch) : m > n => m \in (n + 1)..Len(batch)
    OBVIOUS
  <2>3. QED
    BY <2>1, <2>2
<1>3. LastEnvelope(batch, otherwise) = IF n = 0 THEN otherwise ELSE batch[n]
  BY DEF LastEnvelope
<1> HIDE DEF n
<1>4. \A k \in (c + 1)..e : k - c \in 1..(e - c) /\ c + (k - c) = k
  OBVIOUS
<1>5. CASE n = 0
  <2>1. ASSUME NEW k \in (c + 1)..e PROVE ~Valid(LineItem(k))
    <3>1. k - c \in 1..Len(batch) /\ batch[k - c] = LineItem(c + (k - c)) /\ c + (k - c) = k
      BY <1>1, <1>4
    <3>2. ~Valid(batch[k - c])
      BY <1>2, <1>5, <3>1
    <3>3. QED
      BY <3>1, <3>2
  <2>2. QED
    BY <1>3, <1>5, <2>1
<1>6. CASE n # 0
  <2>1. /\ n \in 1..(e - c) /\ Valid(batch[n]) /\ c + n \in (c + 1)..e /\ batch[n] = LineItem(c + n)
    BY <1>1, <1>2, <1>6
  <2>2. ASSUME NEW k \in (c + n + 1)..e PROVE ~Valid(LineItem(k))
    <3>1. k \in (c + 1)..e /\ k - c > n
      BY <2>1
    <3>2. k - c \in 1..Len(batch) /\ batch[k - c] = LineItem(c + (k - c)) /\ c + (k - c) = k
      BY <1>1, <1>4, <3>1
    <3>3. ~Valid(batch[k - c])
      BY <1>2, <1>6, <3>1, <3>2
    <3>4. QED
      BY <3>2, <3>3
  <2>3. QED
    BY <1>3, <1>6, <2>1, <2>2 DEF NewestOf
<1>7. QED
  BY <1>5, <1>6

\* What an append and an ingest hold are offsets between two lines, and the line
\* an append has written is among those it has yet to consume.
Placed ==
  /\ \E c \in 0..Count : consumed = 2 * c
  /\ \E s \in 0..Count : sup.size = 2 * s
  /\ \A w \in Writers :
       /\ wr[w].pc = "fstat" =>
            \E j \in 1..Count : 2 * j - 2 >= consumed /\ LineItem(j).kind = wr[w].kind
       /\ wr[w].pc = "scan" =>
            \E e \in 0..Count : /\ wr[w].end = 2 * e
                                /\ \E j \in 1..e : 2 * j - 2 >= consumed /\ LineItem(j).kind = wr[w].kind

\* How an append concludes: it consumes and links every line up to its own one
\* and those behind it that it has seen.
LEMMA AppendConcludes ==
  ASSUME TInv, Straight, OneFile, Placed, NEW w \in Writers, Fstat(w) \/ ScanGap(w)
  PROVE  \E c \in 0..Count, e \in 0..Count :
           /\ consumed = 2 * c /\ c < e
           /\ \/ /\ wr[w].pc = "fstat" /\ e = Count
                 /\ wr' = [wr EXCEPT ![w] = [pc |-> "scan", kind |-> wr[w].kind, file |-> wr[w].file, end |-> 2 * e]]
                 /\ UNCHANGED <<consumed, permit, latest, chain>>
              \/ /\ consumed' = 2 * e /\ Fails(w) /\ UNCHANGED <<latest, chain>> /\ "odd" \in Kinds
              \/ /\ consumed' = 2 * e /\ permit' = NoOne /\ wr' = [wr EXCEPT ![w] = [pc |-> "publish"]]
                 /\ NewestOf(latest', c, e)
                 /\ \E batch : Run(batch, c, e) /\ chain' = Link(batch, w)
<1>1. Count \in Nat /\ consumed \in Nat
  BY CountParts DEF TInv, AdoptedT
<1>2. /\ wr[w].kind \in Kinds /\ wr[w].file = path /\ path # 0 /\ wr[w].pc \in {"fstat", "scan"}
  <2>1. wr[w].pc \in {"fstat", "scan"}
    BY DEF Fstat, ScanGap, At
  <2>2. wr[w].kind \in Kinds /\ wr[w].file \in 1..Len(files)
    BY <2>1, AppendParts
  <2>3. Len(files) <= 1 /\ path = Len(files) /\ Len(files) \in Nat
    BY PathFile DEF OneFile, Straight
  <2>4. QED
    BY <2>1, <2>2, <2>3
<1>3. wr[w].kind # "odd" => wr[w].kind \in Readable
  BY <1>2, JournalAssumption DEF LineKinds, Readable
\* What the own line is, and what follows from how it ends.
<1>4. ASSUME NEW c \in 0..Count, NEW e \in 0..Count, c < e, NEW own, NEW before, NEW after, NEW end,
             own.kind = wr[w].kind, Run(Batch(before, own, after), c, e),
             own.kind # "odd" => NewestOf(LastEnvelope(after, own), c, e),
             end = 2 * e, consumed = 2 * c,
             Conclude(w, own, before, after, end)
      PROVE  \/ /\ consumed' = 2 * e /\ Fails(w) /\ UNCHANGED <<latest, chain>> /\ "odd" \in Kinds
             \/ /\ consumed' = 2 * e /\ permit' = NoOne /\ wr' = [wr EXCEPT ![w] = [pc |-> "publish"]]
                /\ NewestOf(latest', c, e)
                /\ \E batch : Run(batch, c, e) /\ chain' = Link(batch, w)
  <2>1. consumed' = Larger(consumed, end)
    BY <1>4 DEF Conclude
  <2>2. consumed' = 2 * e
    BY <1>1, <1>4, <2>1 DEF Larger
  <2>3. CASE own.kind = "odd"
    BY <1>2, <1>4, <2>2, <2>3 DEF Conclude
  <2>4. CASE own.kind # "odd"
    <3>1. /\ latest' = LastEnvelope(after, own) /\ chain' = Link(Batch(before, own, after), w)
          /\ wr' = [wr EXCEPT ![w] = [pc |-> "publish"]] /\ permit' = NoOne
      BY <1>4, <2>4 DEF Conclude, Newest
    <3>2. QED
      BY <1>4, <2>2, <2>4, <3>1
  <2>5. QED
    BY <2>3, <2>4
<1>5. CASE Fstat(w)
  <2> DEFINE end == Size(files[wr[w].file])
             own == Guessed(w, end)
             a == [pc |-> "scan", kind |-> wr[w].kind, file |-> wr[w].file, end |-> end]
  <2>1. wr[w].pc = "fstat" /\ end = 2 * Count
    BY <1>2, <1>5, CountParts DEF Fstat, At
  <2>2. IF own.start = consumed
        THEN Conclude(w, own, <<>>, <<>>, end)
        ELSE wr' = [wr EXCEPT ![w] = a] /\ UNCHANGED <<consumed, permit, latest, chain>>
    BY <1>5 DEF Fstat
  <2>3. /\ own.file = path /\ own.start = end - 2 /\ own.end = end /\ own.kind = wr[w].kind
        /\ own = [file |-> path, start |-> end - 2, end |-> end, kind |-> wr[w].kind]
    BY <1>2 DEF Guessed
  <2> HIDE DEF own
  <2>4. PICK c \in 0..Count : consumed = 2 * c
    BY DEF Placed
  <2>5. PICK j \in 1..Count : 2 * j - 2 >= consumed /\ LineItem(j).kind = wr[w].kind
    BY <2>1 DEF Placed
  <2>6. c < Count /\ Count \in 0..Count
    BY <1>1, <2>4, <2>5
  <2>7. CASE own.start # consumed
    BY <2>1, <2>2, <2>4, <2>6, <2>7
  <2>8. CASE own.start = consumed
    <3>1. c = Count - 1 /\ j = Count
      BY <1>1, <2>1, <2>3, <2>4, <2>5, <2>8
    <3>2. own = LineItem(Count)
      <4>1. LineItem(Count) = [file |-> path, start |-> 2 * Count - 2, end |-> 2 * Count, kind |-> wr[w].kind]
        BY <2>5, <3>1 DEF LineItem
      <4>2. QED
        BY <2>1, <2>3, <4>1
    <3>3. Run(Batch(<<>>, own, <<>>), c, Count)
      <4> DEFINE batch == Batch(<<>>, own, <<>>)
      <4>1. own \in Item /\ <<>> \in Seq(Item) /\ Len(<<>>) = 0
        BY <2>6, <1>1, <3>2, CountParts, EmptySeq
      <4>2. batch \in Seq(Item) /\ Len(batch) = 1 /\ batch[1] = own
        <5>1. /\ batch \in Seq(Item) /\ Len(batch) = Len(<<>>) + 1 + Len(<<>>)
              /\ batch[Len(<<>>) + 1] = own
          BY <4>1, BatchIsItems
        <5>2. Len(<<>>) + 1 = 1 /\ Len(<<>>) + 1 + Len(<<>>) = 1
          BY <4>1
        <5> HIDE DEF batch
        <5>3. QED
          BY <5>1, <5>2
      <4> HIDE DEF batch
      <4>3. Count - c = 1 /\ c + 1 = Count /\ \A n \in 1..1 : n = 1
        BY <1>1, <3>1
      <4>4. QED
        BY <3>2, <4>2, <4>3 DEF Run, batch
    <3>4. own.kind # "odd" => NewestOf(LastEnvelope(<<>>, own), c, Count)
      <4>1. <<>> \in Seq(Item) /\ Len(<<>>) = 0
        BY EmptySeq
      <4>2. SelectLastInSeq(<<>>, Valid) = 0
        <5> DEFINE n == SelectLastInSeq(<<>>, Valid)
        <5>1. n = 0 \/ n \in 1..Len(<<>>)
          BY <4>1, LastValid
        <5>2. QED
          BY <4>1, <5>1
      <4>3. LastEnvelope(<<>>, own) = own
        BY <4>2 DEF LastEnvelope
      <4>4. Count \in (c + 1)..Count /\ (Count + 1)..Count = {}
        BY <1>1, <3>1
      <4>5. own.kind # "odd" => Valid(LineItem(Count))
        BY <1>3, <2>3, <3>2 DEF Valid
      <4>6. QED
        BY <3>2, <4>3, <4>4, <4>5 DEF NewestOf
    <3>5. Conclude(w, own, <<>>, <<>>, end)
      BY <2>2, <2>8
    <3> HIDE DEF end
    <3>6. \/ /\ consumed' = 2 * Count /\ Fails(w) /\ UNCHANGED <<latest, chain>> /\ "odd" \in Kinds
          \/ /\ consumed' = 2 * Count /\ permit' = NoOne /\ wr' = [wr EXCEPT ![w] = [pc |-> "publish"]]
             /\ NewestOf(latest', c, Count)
             /\ \E batch : Run(batch, c, Count) /\ chain' = Link(batch, w)
      BY <1>4, <2>1, <2>3, <2>4, <2>6, <3>3, <3>4, <3>5
    <3>7. QED
      BY <2>4, <2>6, <3>6
  <2>9. QED
    BY <2>7, <2>8
<1>6. CASE ScanGap(w)
  <2> DEFINE gap == Items(path, consumed, wr[w].end)
             own == Guessed(w, wr[w].end)
             n == FoundAt(gap, own)
  <2>1. wr[w].pc = "scan" /\ wr[w].end \in Nat
    BY <1>6, AppendParts DEF ScanGap, At, Append3
  <2>2. \A c \in 0..Count, e \in 0..Count :
          consumed = 2 * c /\ wr[w].end = 2 * e =>
           /\ c <= e => Run(gap, c, e)
           /\ c < e => gap # <<>> /\ Last(gap).end = wr[w].end
    BY <1>1, <1>2, <2>1, GapIsRun
  <2>3. own.kind = wr[w].kind /\ own.start = wr[w].end - 2
    BY DEF Guessed
  <2>4. IF n # 0
        THEN Conclude(w, gap[n], SubSeq(gap, 1, n - 1), SubSeq(gap, n + 1, Len(gap)), Last(gap).end)
        ELSE Conclude(w, own, gap, <<>>, wr[w].end)
    BY <1>6 DEF ScanGap
  <2> HIDE DEF gap, own
  <2>5. PICK c \in 0..Count : consumed = 2 * c
    BY DEF Placed
  <2>6. PICK e \in 0..Count : /\ wr[w].end = 2 * e
                              /\ \E j \in 1..e : 2 * j - 2 >= consumed /\ LineItem(j).kind = wr[w].kind
    BY <2>1 DEF Placed
  <2>7. PICK j \in 1..e : 2 * j - 2 >= consumed /\ LineItem(j).kind = wr[w].kind
    BY <2>6
  <2>8. c < e /\ j - c \in 1..(e - c) /\ c + (j - c) = j /\ c \in Nat /\ e \in Nat
    BY <1>1, <2>5, <2>7
  <2>9. Run(gap, c, e) /\ gap # <<>> /\ Last(gap).end = wr[w].end
    BY <2>2, <2>5, <2>6, <2>8
  <2>10. gap \in Seq(Item) /\ Len(gap) = e - c /\ \A m \in 1..(e - c) : gap[m] = LineItem(c + m)
    BY <2>9 DEF Run
  <2>11. /\ n \in 1..Len(gap) /\ n # 0 /\ gap[n].kind = wr[w].kind
    <3>1. \/ n = 0 /\ \A m \in 1..Len(gap) : ~(gap[m].kind = own.kind /\ gap[m].start <= own.start)
          \/ n \in 1..Len(gap) /\ gap[n].kind = own.kind
      <4>1. \/ n = 0 /\ \A m \in 1..Len(gap) : ~(gap[m].kind = own.kind /\ gap[m].start <= own.start)
            \/ /\ n \in 1..Len(gap) /\ gap[n].kind = own.kind /\ gap[n].start <= own.start
               /\ \A m \in 1..Len(gap) :
                    m > n => ~(gap[m].kind = own.kind /\ gap[m].start <= own.start)
        BY <2>10, FoundAtIs
      <4>2. QED
        BY <4>1
    <3>2. gap[j - c] = LineItem(j) /\ j - c \in 1..Len(gap)
      BY <2>8, <2>10
    <3>3. gap[j - c].kind = own.kind /\ gap[j - c].start <= own.start
      <4>1. gap[j - c].kind = own.kind
        BY <2>3, <2>7, <3>2
      <4>2. gap[j - c].start = 2 * j - 2 /\ own.start = 2 * e - 2
        BY <2>3, <2>6, <3>2, LineItemIs
      <4>3. 2 * j - 2 <= 2 * e - 2
        BY <2>7, <2>8
      <4>4. QED
        BY <4>1, <4>2, <4>3
    <3>4. n # 0
      BY <3>1, <3>2, <3>3
    <3>5. QED
      BY <2>3, <3>1, <3>4
  <2> HIDE DEF n
  <2> DEFINE before == SubSeq(gap, 1, n - 1)
             after == SubSeq(gap, n + 1, Len(gap))
  <2>12. Run(Batch(before, gap[n], after), c, e)
    BY <2>8, <2>9, <2>11, BatchIsRun
  <2>13. gap[n].kind # "odd" => NewestOf(LastEnvelope(after, gap[n]), c, e)
    <3> SUFFICES ASSUME gap[n].kind # "odd" PROVE NewestOf(LastEnvelope(after, gap[n]), c, e)
      OBVIOUS
    <3>1. c + n \in (c + 1)..e /\ gap[n] = LineItem(c + n) /\ Valid(LineItem(c + n)) /\ n \in Nat
      <4>1. n \in 1..(e - c) /\ gap[n] = LineItem(c + n)
        BY <2>10, <2>11
      <4>2. Valid(LineItem(c + n))
        BY <1>3, <2>11, <4>1 DEF Valid
      <4>3. QED
        BY <2>8, <4>1, <4>2
    <3>2. Run(after, c + n, e)
      <4>1. /\ after \in Seq(Item) /\ Len(after) = Len(gap) - n
            /\ \A m \in 1..(Len(gap) - n) : after[m] = gap[n + m]
        BY <2>10, <2>11, GapSplits
      <4> HIDE DEF after
      <4>2. Len(gap) - n = e - (c + n)
        BY <2>8, <2>10, <3>1
      <4>3. ASSUME NEW m \in 1..(e - (c + n)) PROVE after[m] = LineItem((c + n) + m)
        <5>1. n + m \in 1..(e - c) /\ c + (n + m) = (c + n) + m
          BY <2>8, <3>1
        <5>2. QED
          BY <2>10, <4>1, <4>2, <5>1
      <4>4. QED
        BY <4>1, <4>2, <4>3 DEF Run
    <3> HIDE DEF after
    <3>3. \/ NewestOf(LastEnvelope(after, gap[n]), c + n, e)
          \/ /\ LastEnvelope(after, gap[n]) = gap[n]
             /\ \A k \in (c + n + 1)..e : ~Valid(LineItem(k))
      <4>1. c + n \in Nat /\ c + n <= e
        BY <2>8, <3>1
      <4>2. QED
        BY <2>8, <3>2, <4>1, LatestOfRun
    <3>4. CASE NewestOf(LastEnvelope(after, gap[n]), c + n, e)
      <4>1. (c + n + 1)..e \subseteq (c + 1)..e
        BY <2>8, <3>1
      <4>2. QED
        BY <3>4, <4>1 DEF NewestOf
    <3>5. CASE LastEnvelope(after, gap[n]) = gap[n] /\ \A k \in (c + n + 1)..e : ~Valid(LineItem(k))
      BY <3>1, <3>5 DEF NewestOf
    <3>6. QED
      BY <3>3, <3>4, <3>5
  <2> HIDE DEF before, after
  <2>14. Conclude(w, gap[n], before, after, Last(gap).end)
    BY <2>4, <2>11 DEF before, after
  <2>15. \/ /\ consumed' = 2 * e /\ Fails(w) /\ UNCHANGED <<latest, chain>> /\ "odd" \in Kinds
         \/ /\ consumed' = 2 * e /\ permit' = NoOne /\ wr' = [wr EXCEPT ![w] = [pc |-> "publish"]]
            /\ NewestOf(latest', c, e)
            /\ \E batch : Run(batch, c, e) /\ chain' = Link(batch, w)
    BY <1>4, <2>5, <2>6, <2>8, <2>9, <2>11, <2>12, <2>13, <2>14
  <2>16. QED
    BY <2>5, <2>8, <2>15
<1>7. QED
  BY <1>5, <1>6

\* What an ingest consumes and links under the permit.
LEMMA GapIngested ==
  ASSUME TInv, Straight, Placed, ReadGap, path # 0
  PROVE  \E c \in 0..Count, e \in 0..Count :
           /\ consumed = 2 * c /\ c <= e /\ consumed' = 2 * e
           /\ \E batch : Run(batch, c, e) /\ chain' = Link(batch, Supervisor)
           /\ \/ NewestOf(latest', c, e)
              \/ latest' = latest /\ \A k \in (c + 1)..e : ~Valid(LineItem(k))
<1> DEFINE gap == Items(path, consumed, sup.size)
<1>1. Count \in Nat /\ consumed \in Nat /\ sup.size \in Nat
  BY CountParts DEF TInv, AdoptedT, FiberT, Fiber
<1>2. /\ consumed' = IF gap = <<>> THEN consumed ELSE Last(gap).end
      /\ latest' = LastEnvelope(gap, latest)
      /\ chain' = Link(gap, Supervisor)
  BY DEF ReadGap
<1>3. \A c \in 0..Count, e \in 0..Count :
        consumed = 2 * c /\ sup.size = 2 * e =>
          /\ c <= e => Run(gap, c, e)
          /\ c < e => gap # <<>> /\ Last(gap).end = sup.size
          /\ c >= e => gap = <<>>
  BY <1>1, GapIsRun
<1> HIDE DEF gap
<1>4. PICK c \in 0..Count : consumed = 2 * c
  BY DEF Placed
<1>5. PICK s \in 0..Count : sup.size = 2 * s
  BY DEF Placed
<1>6. PICK e \in 0..Count : c <= e /\ consumed' = 2 * e /\ Run(gap, c, e)
  <2>1. CASE c < s
    <3>1. Run(gap, c, s) /\ gap # <<>> /\ Last(gap).end = sup.size /\ c <= s
      BY <1>1, <1>3, <1>4, <1>5, <2>1
    <3>2. QED
      BY <1>2, <1>5, <3>1
  <2>2. CASE c >= s
    <3>1. gap = <<>> /\ gap \in Seq(Item) /\ Len(gap) = 0
      BY <1>3, <1>4, <1>5, <2>2, EmptySeq
    <3>2. c - c = 0 /\ 1..0 = {} /\ c <= c
      BY <1>1
    <3>3. Run(gap, c, c)
      BY <3>1, <3>2 DEF Run
    <3>4. QED
      BY <1>2, <1>4, <3>1, <3>2, <3>3
  <2>3. QED
    BY <1>1, <2>1, <2>2
<1>7. \/ NewestOf(LastEnvelope(gap, latest), c, e)
      \/ LastEnvelope(gap, latest) = latest /\ \A k \in (c + 1)..e : ~Valid(LineItem(k))
  <2>1. c \in Nat /\ e \in Nat
    BY <1>1
  <2>2. QED
    BY <1>6, <2>1, LatestOfRun
<1>8. QED
  BY <1>2, <1>4, <1>6, <1>7

\* An ingest that is over remembers no size.
LEMMA FiberSizes ==
  ASSUME TInv
  PROVE  /\ \A s \in {NextCycle, Returned, Failed} \cup
                     {IngestThen(after) : after \in {"loop", "follow", "await", "created"}} : s.size = 0
         /\ Built.size = sup.size
<1>1. sup \in Fiber
  BY DEF TInv, FiberT
<1>2. Settled \in Fiber /\ Settled.size = 0
  <2>1. Settled = [[[sup EXCEPT !.floor = 0] EXCEPT !.size = 0] EXCEPT !.file = 0]
    BY <1>1 DEF Settled, Fiber
  <2>2. \A s \in Fiber : /\ [s EXCEPT !.floor = 0] \in Fiber
                         /\ [s EXCEPT !.size = 0] \in Fiber /\ [s EXCEPT !.size = 0].size = 0
                         /\ [s EXCEPT !.file = 0] \in Fiber /\ [s EXCEPT !.file = 0].size = s.size
    BY DEF Fiber
  <2> HIDE DEF Settled
  <2>3. QED
    BY <1>1, <2>1, <2>2
<1> HIDE DEF Settled
<1>3. \A x : [Settled EXCEPT !.pc = x].size = 0
  BY <1>2 DEF Fiber
<1>4. \A x, y : [Settled EXCEPT !.pc = x, !.after = y].size = 0 /\ [Settled EXCEPT !.idle = y, !.pc = x].size = 0
  BY <1>2 DEF Fiber
<1>5. NextCycle.size = 0 /\ \A after \in {"loop", "follow", "await", "created"} : IngestThen(after).size = 0
  BY <1>4 DEF NextCycle, IngestThen
<1>6. Returned.size = 0
  BY <1>3, <1>5 DEF Returned
<1>7. Failed.size = 0
  <2>1. sup.after \in {"loop", "follow", "await", "created"}
    BY <1>1 DEF Fiber
  <2>2. QED
    BY <1>3, <1>5, <2>1 DEF Failed
<1>8. Built.size = sup.size
  BY <1>1 DEF Built, Fiber
<1>9. QED
  BY <1>5, <1>6, <1>7, <1>8

LEMMA NextPlaced ==
  ASSUME Ruly, TInv, TInv', IInv, Unbroken, Straight, Placed, [Next]_vars
  PROVE  Straight' /\ Placed'
<1> USE DEF disk, adopted, fibers, At, SupAt
<1>1. DiskStep /\ OneFile
  BY NextDisk DEF Unbroken
<1>2. /\ Straight' /\ Count' \in Nat /\ Count \in Nat /\ Count' >= Count
      /\ \A n \in 1..Count : LineItem(n)' = LineItem(n)
  <2>1. /\ Straight' /\ Count' \in Nat /\ (Count' = Count \/ Count' = Count + 1)
        /\ \A n \in 1..Count : LineItem(n)' = LineItem(n)
    BY <1>1, Grows
  <2>2. QED
    BY <2>1, CountParts
<1> SUFFICES Placed'
  BY <1>2
<1>3. /\ DOMAIN wr = Writers
      /\ \A w \in Writers : (permit = w) <=> wr[w].pc \in Holding
      /\ \A w \in Writers : w # NoOne
  BY JournalAssumption DEF TInv, AppendT, IInv, PermitHeld
<1>4. sup \in Fiber /\ sup' \in Fiber
  BY DEF TInv, FiberT
\* `consumed` stays, and no append comes to an end.
<1>5. ASSUME UNCHANGED consumed, \E s \in 0..Count' : sup'.size = 2 * s,
             \A v \in Writers : wr'[v].pc \in {"fstat", "scan"} => wr'[v] = wr[v]
      PROVE  Placed'
  <2>1. \E c \in 0..Count' : consumed' = 2 * c
    <3>1. PICK c \in 0..Count : consumed = 2 * c
      BY DEF Placed
    <3>2. c \in 0..Count'
      BY <1>2
    <3>3. QED
      BY <1>5, <3>1, <3>2
  <2>2. ASSUME NEW w \in Writers, wr'[w].pc = "fstat"
        PROVE  \E j \in 1..Count' : 2 * j - 2 >= consumed' /\ LineItem(j)'.kind = wr'[w].kind
    <3>1. PICK j \in 1..Count : 2 * j - 2 >= consumed /\ LineItem(j).kind = wr[w].kind
      BY <1>5, <2>2 DEF Placed
    <3>2. j \in 1..Count' /\ LineItem(j)' = LineItem(j)
      BY <1>2
    <3>3. QED
      BY <1>5, <2>2, <3>1, <3>2
  <2>3. ASSUME NEW w \in Writers, wr'[w].pc = "scan"
        PROVE  \E e \in 0..Count' :
                 /\ wr'[w].end = 2 * e
                 /\ \E j \in 1..e : 2 * j - 2 >= consumed' /\ LineItem(j)'.kind = wr'[w].kind
    <3>1. PICK e \in 0..Count :
            /\ wr[w].end = 2 * e
            /\ \E j \in 1..e : 2 * j - 2 >= consumed /\ LineItem(j).kind = wr[w].kind
      BY <1>5, <2>3 DEF Placed
    <3>2. e \in 0..Count' /\ \A j \in 1..e : LineItem(j)' = LineItem(j)
      BY <1>2
    <3>3. QED
      BY <1>5, <2>3, <3>1, <3>2
  <2>4. QED
    BY <1>5, <2>1, <2>2, <2>3 DEF Placed
\* `consumed` moves, and nobody appends any more.
<1>6. ASSUME \E e \in 0..Count : consumed' = 2 * e, \E s \in 0..Count' : sup'.size = 2 * s,
             \A v \in Writers : wr'[v].pc \notin {"fstat", "scan"}
      PROVE  Placed'
  <2>1. \E c \in 0..Count' : consumed' = 2 * c
    BY <1>2, <1>6
  <2>2. QED
    BY <1>6, <2>1 DEF Placed
<1>7. \E s \in 0..Count' : sup.size = 2 * s
  <2>1. PICK s \in 0..Count : sup.size = 2 * s
    BY DEF Placed
  <2>2. s \in 0..Count'
    BY <1>2
  <2>3. QED
    BY <2>1, <2>2
<1>8. 0 \in 0..Count' /\ 2 * 0 = 0
  BY <1>2
<1>9. CASE UNCHANGED vars \/ OthersStep \/ BreachStep \/ PublishStep
  <2>1. UNCHANGED <<consumed, wr, sup>>
    BY <1>9 DEF vars, OthersStep, OtherAppends, OtherTears, OtherCompletes,
     Others, BreachStep, Breach, Truncate, Replace, RemoveFile, Create, PublishStep, Publish
  <2>2. QED
    BY <1>2, <1>5, <1>7, <2>1
<1>10. ASSUME NEW w \in Writers,
              \/ \E kind \in Kinds : Append_(w, kind)
              \/ WriterStep(w) \/ WriteFails(w) \/ Interrupt(w)
       PROVE  Placed'
  <2>1. UNCHANGED sup
    BY <1>10 DEF Append_, AppendRest, WriterStep, WriteFails, Interrupt, Enter, Stat, Write,
       WriteRest, Fstat, ScanGap, ScanFails, Answer, ConcludeRest
  <2>2. \A a : wr' = [wr EXCEPT ![w] = a] => wr'[w] = a /\ \A v \in Writers : v # w => wr'[v] = wr[v]
    BY <1>3
  <2>3. Idle.pc = "idle" /\ \A x : [pc |-> x].pc = x
    BY DEF Idle
  <2>4. CASE Fstat(w) \/ ScanGap(w)
    <3>1. PICK c \in 0..Count, e \in 0..Count :
           /\ consumed = 2 * c /\ c < e
           /\ \/ /\ wr[w].pc = "fstat" /\ e = Count
                 /\ wr' = [wr EXCEPT ![w] = [pc |-> "scan", kind |-> wr[w].kind, file |-> wr[w].file, end |-> 2 * e]]
                 /\ UNCHANGED <<consumed, permit, latest, chain>>
              \/ /\ consumed' = 2 * e /\ Fails(w) /\ UNCHANGED <<latest, chain>> /\ "odd" \in Kinds
              \/ /\ consumed' = 2 * e /\ permit' = NoOne /\ wr' = [wr EXCEPT ![w] = [pc |-> "publish"]]
                 /\ NewestOf(latest', c, e)
                 /\ \E batch : Run(batch, c, e) /\ chain' = Link(batch, w)
      BY <1>1, <2>4, AppendConcludes
    <3>2. wr[w].pc \in {"fstat", "scan"} /\ \A v \in Writers : v # w => wr[v].pc \notin Holding
      <4>1. wr[w].pc \in {"fstat", "scan"}
        BY <2>4 DEF Fstat, ScanGap
      <4>2. permit = w
        BY <1>3, <4>1 DEF Holding
      <4>3. QED
        BY <1>3, <4>1, <4>2
    <3>3. CASE \/ consumed' = 2 * e /\ Fails(w)
               \/ consumed' = 2 * e /\ wr' = [wr EXCEPT ![w] = [pc |-> "publish"]]
      <4>1. \A v \in Writers : wr'[v].pc \notin {"fstat", "scan"}
        BY <2>2, <2>3, <3>2, <3>3 DEF Fails, Holding
      <4>2. QED
        BY <1>6, <1>7, <2>1, <3>3, <4>1
    <3>4. CASE /\ wr[w].pc = "fstat" /\ e = Count /\ UNCHANGED consumed
               /\ wr' = [wr EXCEPT ![w] = [pc |-> "scan", kind |-> wr[w].kind, file |-> wr[w].file, end |-> 2 * e]]
      <4> DEFINE a == [pc |-> "scan", kind |-> wr[w].kind, file |-> wr[w].file, end |-> 2 * e]
      <4>1. a.pc = "scan" /\ a.kind = wr[w].kind /\ a.end = 2 * e
        OBVIOUS
      <4>2. wr'[w] = a /\ \A v \in Writers : v # w => wr'[v] = wr[v]
        BY <2>2, <3>4
      <4> HIDE DEF a
      <4>3. PICK j \in 1..Count : 2 * j - 2 >= consumed /\ LineItem(j).kind = wr[w].kind
        BY <3>4 DEF Placed
      <4>4. e \in 0..Count' /\ j \in 1..e /\ LineItem(j)' = LineItem(j)
        BY <1>2, <3>4
      <4>5. \E c2 \in 0..Count' : consumed' = 2 * c2
        <5>1. c \in 0..Count'
          BY <1>2
        <5>2. QED
          BY <3>1, <3>4, <5>1
      <4>6. \A v \in Writers : v # w => wr'[v].pc \notin {"fstat", "scan"}
        BY <3>2, <4>2 DEF Holding
      <4>7. \E e2 \in 0..Count' :
              /\ wr'[w].end = 2 * e2
              /\ \E j2 \in 1..e2 : 2 * j2 - 2 >= consumed' /\ LineItem(j2)'.kind = wr'[w].kind
        BY <3>4, <4>1, <4>2, <4>3, <4>4
      <4>8. QED
        BY <1>7, <2>1, <4>1, <4>2, <4>5, <4>6, <4>7 DEF Placed
    <3>5. QED
      BY <3>1, <3>3, <3>4
  <2>5. CASE Write(w)
    <3>1. UNCHANGED consumed /\ wr'[w] = [pc |-> "fstat", kind |-> wr[w].kind, file |-> OpenedAt]
      BY <2>2, <2>5 DEF Write, WriteRest
    <3>2. Count' = Count + 1 /\ \A n : n = Count + 1 => LineItem(n)'.kind = wr[w].kind
      BY <1>1, <2>5, Grows
    <3>3. wr'[w].pc = "fstat" /\ wr'[w].kind = wr[w].kind
      BY <3>1
    <3>4. PICK c \in 0..Count : consumed = 2 * c
      BY DEF Placed
    <3>5. PICK j \in 1..Count' : j = Count + 1
      BY <1>2, <3>2
    <3>6. 2 * j - 2 >= consumed' /\ LineItem(j)'.kind = wr'[w].kind /\ c \in 0..Count'
      BY <1>2, <3>1, <3>2, <3>3, <3>4, <3>5
    <3>7. \A v \in Writers : v # w => wr'[v].pc \notin {"fstat", "scan"}
      <4>1. wr[w].pc = "write" /\ \A v \in Writers : v # w => wr'[v] = wr[v]
        BY <2>2, <2>5 DEF Write
      <4>2. permit = w
        BY <1>3, <4>1 DEF Holding
      <4>3. QED
        BY <1>3, <4>1, <4>2 DEF Holding
    <3>8. QED
      BY <1>7, <2>1, <3>1, <3>3, <3>4, <3>6, <3>7 DEF Placed
  <2>6. CASE ~(Fstat(w) \/ ScanGap(w) \/ Write(w))
    <3>1. UNCHANGED consumed /\ wr'[w].pc \notin {"fstat", "scan"} /\ \A v \in Writers : v # w => wr'[v] = wr[v]
      <4>1. wr[w] \in Appending
        BY AppendParts
      <4>2. wr[w].pc = "queued" => [wr[w] EXCEPT !.pc = "stat"].pc = "stat"
        BY <4>1, AppendParts DEF Append1
      <4>3. wr[w].pc = "stat" => [wr[w] EXCEPT !.pc = "write"].pc = "write"
        BY <4>1, AppendParts DEF Append1
      <4>4. CASE WriteFails(w) \/ Interrupt(w) \/ \E kind \in Kinds : Append_(w, kind)
        BY <2>2, <2>3, <4>4 DEF WriteFails, WriteRest, Fails, Interrupt, Append_, AppendRest
      <4>5. CASE Enter(w)
        BY <2>2, <2>3, <4>2, <4>5 DEF Enter, AppendRest, Fails
      <4>6. CASE Stat(w)
        BY <2>2, <2>3, <4>3, <4>6 DEF Stat, AppendRest, Fails
      <4>7. CASE ScanFails(w) \/ Answer(w)
        BY <2>2, <2>3, <4>7 DEF ScanFails, AppendRest, Fails, Answer
      <4>8. QED
        BY <1>10, <2>6, <4>4, <4>5, <4>6, <4>7 DEF WriterStep
    <3>2. QED
      BY <1>5, <1>7, <2>1, <3>1
  <2>7. QED
    BY <2>4, <2>5, <2>6
<1>11. CASE SupervisorStep
  <2> USE DEF SupGoes, EngineRest, LookRest
  <2>1. UNCHANGED wr
    BY <1>11 DEF SupervisorStep, Construct, SeedFails, SeedResume, SeedLatest, Look, Arm, Follow,
       ArmDirectory, Check, Await, Floor, Sample, Judge, ReadGap, PublishedGap, Reseed, Announce
  <2>2. ASSUME UNCHANGED consumed, sup'.size = sup.size \/ sup'.size = 0 PROVE Placed'
    <3>1. \E s \in 0..Count' : sup'.size = 2 * s
      BY <1>7, <1>8, <2>2
    <3>2. QED
      BY <1>5, <2>1, <2>2, <3>1
  <2>3. \A x : [sup EXCEPT !.pc = x].size = sup.size
    BY <1>4 DEF Fiber
  <2>4. /\ \A s \in {NextCycle, Returned, Failed} \cup
                    {IngestThen(after) : after \in {"loop", "follow", "await", "created"}} : s.size = 0
        /\ Built.size = sup.size
    BY FiberSizes
  <2>5. NoBreachSeen /\ breaches = 0
    BY DEF Unbroken, Straight
  <2>6. CASE Construct \/ SeedFails \/ SeedLatest
    BY <2>2, <2>3, <2>4, <2>6 DEF Construct, SeedFails, SeedLatest
  <2>7. CASE SeedResume
    <3>1. ~sup.built /\ path # 0
      BY <2>5, <2>7 DEF SeedResume, NoBreachSeen, Seeding
    <3>2. \A w \in Writers : wr[w].pc \notin Holding
      BY <1>3, <3>1 DEF IInv, NotBuilt
    <3>3. consumed' = 2 * Count /\ Count \in 0..Count
      BY <1>2, <2>7, <3>1, CountParts DEF SeedResume, ResumePoint
    <3>4. sup'.size = sup.size
      BY <1>4, <2>7 DEF SeedResume, Fiber
    <3>5. QED
      BY <1>6, <1>7, <2>1, <3>2, <3>3, <3>4 DEF Holding
  <2>8. CASE Look
    <3>1. sup'.size = sup.size /\ UNCHANGED consumed
      BY <1>4, <2>8 DEF Look, Fiber
    <3>2. QED
      BY <2>2, <3>1
  <2>9. CASE Arm \/ Follow \/ ArmDirectory \/ Check \/ Await
    <3>1. UNCHANGED consumed
      BY <2>9 DEF Arm, Follow, ArmDirectory, Check, Await
    <3>2. \/ sup' = NextCycle
          \/ \E after \in {"loop", "follow", "await", "created"} : sup' = IngestThen(after)
          \/ sup' = [sup EXCEPT !.pc = "check"] \/ sup' = [sup EXCEPT !.pc = "await"]
      BY <2>9 DEF Arm, Armed, Follow, ArmDirectory, Check, Await
    <3>3. QED
      BY <2>2, <2>3, <2>4, <3>1, <3>2
  <2>10. CASE Floor
    <3>1. sup'.size = sup.size /\ UNCHANGED consumed
      BY <1>4, <2>10 DEF Floor, Fiber
    <3>2. QED
      BY <2>2, <3>1
  <2>11. CASE Sample
    <3>1. CASE path = 0
      BY <2>2, <2>4, <2>11, <3>1 DEF Sample
    <3>2. CASE path # 0
      <4>1. sup'.size = 2 * Count /\ UNCHANGED consumed
        BY <1>4, <2>11, <3>2, CountParts DEF Sample, Fiber
      <4>2. Count \in 0..Count'
        BY <1>2
      <4>3. QED
        BY <1>5, <2>1, <4>1, <4>2
    <3>3. QED
      BY <3>1, <3>2
  <2>12. CASE Judge
    BY <2>2, <2>3, <2>4, <2>12 DEF Judge
  <2>13. CASE ReadGap
    <3>1. CASE path = 0
      BY <2>2, <2>4, <2>13, <3>1 DEF ReadGap
    <3>2. CASE path # 0
      <4>1. \E e \in 0..Count : consumed' = 2 * e
        BY <2>13, <3>2, GapIngested
      <4>2. \A w \in Writers : wr[w].pc \notin Holding
        BY <1>3, <2>13 DEF ReadGap, Free
      <4>3. sup'.size = sup.size
        BY <2>3, <2>13, <3>2 DEF ReadGap
      <4>4. QED
        BY <1>6, <1>7, <2>1, <4>1, <4>2, <4>3 DEF Holding
    <3>3. QED
      BY <3>1, <3>2
  <2>14. CASE PublishedGap
    BY <2>2, <2>4, <2>14 DEF PublishedGap
  <2>15. ~Reseed /\ ~Announce
    BY <2>5 DEF Reseed, Announce, NoBreachSeen
  <2>16. QED
    BY <1>11, <2>6, <2>7, <2>8, <2>9, <2>10, <2>11, <2>12, <2>13, <2>14, <2>15 DEF SupervisorStep
<1>12. CASE \E r \in Readers : \/ \E cursor \in Cursors : Subscribe(r, cursor)
                              \/ ReaderStep(r) \/ Leave(r)
  <2>1. UNCHANGED <<consumed, wr, sup>>
    BY <1>12 DEF Subscribe, ReaderStep, ReplayStat, Replay, Take, Leave, SubscriberRest
  <2>2. QED
    BY <1>5, <1>7, <2>1
<1>13. CASE Close \/ CloserStep \/ GiveUp
  <2>1. UNCHANGED <<consumed, wr>> /\ (UNCHANGED sup \/ sup' = [sup EXCEPT !.pc = "gone"])
    BY <1>13 DEF Close, CloserStep, Capture, EndStreams, GiveUp, Finalized, SupGoes
  <2>2. sup'.size = sup.size
    BY <1>4, <2>1 DEF Fiber
  <2>3. QED
    BY <1>5, <1>7, <2>1, <2>2
<1>14. QED
  BY <1>2, <1>9, <1>10, <1>11, <1>12, <1>13 DEF Next

LEMMA InitPlaced == Init => Placed
<1> SUFFICES ASSUME Init PROVE Placed
  OBVIOUS
<1>1. Count \in Nat
  BY InitTyped, InitStraight, CountParts
<1>2. 0 \in 0..Count /\ 2 * 0 = 0
  BY <1>1
<1>3. consumed = 0 /\ sup.size = 0 /\ \A w \in Writers : wr[w].pc = "idle"
  BY DEF Init, Idle
<1>4. QED
  BY <1>2, <1>3 DEF Placed

------------------------------------------------------------------------------
(* What a step does to the chain, to what is published and to what counts as  *)
(* consumed, while nobody is interrupted and the finalizer has not given up.  *)

SameItems ==
  /\ Len(chain') = Len(chain)
  /\ \A n \in 1..Len(chain) : chain'[n].items = chain[n].items
Keeps ==
  /\ UNCHANGED sent /\ SameItems
  /\ \/ UNCHANGED <<consumed, latest>> /\ sup'.base = sup.base
     \/ SeedResume \/ SeedLatest
     \/ /\ "odd" \in Kinds /\ UNCHANGED latest /\ sup'.base = sup.base
        /\ \E c \in 0..Count, e \in 0..Count : consumed = 2 * c /\ c <= e /\ consumed' = 2 * e
Links ==
  /\ UNCHANGED <<sent, sub, path>> /\ closer' = closer /\ closer # "ended" /\ sup'.base = sup.base
  /\ \E c \in 0..Count, e \in 0..Count, by \in Writers \cup {Supervisor} :
       /\ consumed = 2 * c /\ c <= e /\ consumed' = 2 * e
       /\ \/ NewestOf(latest', c, e)
          \/ latest' = latest /\ \A k \in (c + 1)..e : ~Valid(LineItem(k))
       /\ \E batch : Run(batch, c, e) /\ chain' = Link(batch, by)
Passes ==
  /\ UNCHANGED <<sent, sub, consumed, latest, path>> /\ closer' = closer /\ sup'.base = sup.base
  /\ 1 \in 1..Len(chain) /\ chain[1].items = <<>>
  /\ Len(chain') = Len(chain) - 1
  /\ \A n \in 1..(Len(chain) - 1) : chain'[n] = chain[n + 1]
PublishesHead ==
  /\ UNCHANGED <<consumed, latest, path, sup>> /\ closer' = closer
  /\ 1 \in 1..Len(chain) /\ chain[1].items # <<>> /\ HubHasRoom
  /\ sent' = Append(sent, Head(chain[1].items))
  /\ sub' = Delivered(Head(chain[1].items))
  /\ chain' = [chain EXCEPT ![1].items = Tail(@)]
Ends ==
  /\ UNCHANGED <<sent, consumed, latest, path>> /\ sup'.base = sup.base
  /\ chain' = <<>> /\ closer' = "ended" /\ sub' = Delivered(End) /\ HubHasRoom

ChainStep == Keeps \/ Links \/ Passes \/ PublishesHead \/ Ends

\* The job at the head is the one that publishes.
LEMMA HeadStep ==
  ASSUME TInv, Batons, ~GaveUp', PublishStep
  PROVE  PublishesHead
<1> USE DEF disk, adopted
<1>1. PICK n \in 1..Len(chain) : Publish(n)
  BY ChainParts DEF PublishStep
<1>2. ~GaveUp /\ NoneDone
  <2>1. closer' = closer
    BY <1>1 DEF Publish
  <2>2. QED
    BY <2>1 DEF GaveUp, Batons
<1>3. n = 1
  BY <1>1, <1>2, HeadPublishes DEF Publish
<1>4. QED
  BY <1>1, <1>3 DEF Publish, PublishesHead

LEMMA EndStep ==
  ASSUME TInv, Batons', ~GaveUp', EndStreams
  PROVE  Ends
<1>1. /\ UNCHANGED <<sent, consumed, latest, path>> /\ closer' = "ended" /\ sub' = Delivered(End) /\ HubHasRoom
      /\ sup' = [sup EXCEPT !.pc = "gone"]
  BY DEF EndStreams, Finalized, disk, adopted, SupGoes
<1>2. chain' = <<>>
  BY <1>1 DEF Batons, EndedIsEmpty
<1>3. sup'.base = sup.base
  BY <1>1 DEF TInv, FiberT, Fiber
<1>4. QED
  BY <1>1, <1>2, <1>3 DEF Ends

LEMMA NextChainStep ==
  ASSUME Ruly, ~MayInterrupt, TInv, IInv, Unbroken, Straight, Placed, Batons, Batons', ~GaveUp',
         [Next]_vars
  PROVE  ChainStep
<1> USE DEF disk, adopted, fibers, At, SupAt, SupGoes
<1>1. ASSUME UNCHANGED <<sent, chain, consumed, latest>>, sup'.base = sup.base PROVE ChainStep
  BY <1>1 DEF ChainStep, Keeps, SameItems
<1>2. sup \in Fiber
  BY DEF TInv, FiberT
<1>3. CASE UNCHANGED vars \/ OthersStep \/ BreachStep
  <2>1. /\ UNCHANGED <<sent, chain, consumed, latest, sup>>
    BY <1>3 DEF vars, OthersStep, OtherAppends, OtherTears, OtherCompletes,
       Others, BreachStep, Breach, Truncate, Replace, RemoveFile, Create
  <2>2. QED
    BY <1>1, <2>1
<1>4. CASE PublishStep
  BY <1>4, HeadStep DEF ChainStep
<1>5. ASSUME NEW w \in Writers,
             \/ \E kind \in Kinds : Append_(w, kind)
             \/ WriterStep(w) \/ WriteFails(w) \/ Interrupt(w)
      PROVE  ChainStep
  <2>1. CASE Fstat(w) \/ ScanGap(w)
    <3>1. OneFile
      BY DEF Unbroken
    <3>2. PICK c \in 0..Count, e \in 0..Count :
           /\ consumed = 2 * c /\ c < e
           /\ \/ /\ wr[w].pc = "fstat" /\ e = Count
                 /\ wr' = [wr EXCEPT ![w] = [pc |-> "scan", kind |-> wr[w].kind, file |-> wr[w].file, end |-> 2 * e]]
                 /\ UNCHANGED <<consumed, permit, latest, chain>>
              \/ /\ consumed' = 2 * e /\ Fails(w) /\ UNCHANGED <<latest, chain>> /\ "odd" \in Kinds
              \/ /\ consumed' = 2 * e /\ permit' = NoOne /\ wr' = [wr EXCEPT ![w] = [pc |-> "publish"]]
                 /\ NewestOf(latest', c, e)
                 /\ \E batch : Run(batch, c, e) /\ chain' = Link(batch, w)
      BY <2>1, <3>1, AppendConcludes
    <3>3. UNCHANGED <<sent, sub, sup, path, closer>>
      BY <2>1 DEF Fstat, ScanGap, ConcludeRest
    <3>4. c <= e
      BY <3>2, CountParts
    <3>5. CASE UNCHANGED <<consumed, latest, chain>>
      BY <1>1, <3>3, <3>5
    <3>6. CASE consumed' = 2 * e /\ UNCHANGED <<latest, chain>> /\ "odd" \in Kinds
      BY <3>2, <3>3, <3>4, <3>6 DEF ChainStep, Keeps, SameItems
    <3>7. CASE /\ consumed' = 2 * e /\ NewestOf(latest', c, e)
               /\ \E batch : Run(batch, c, e) /\ chain' = Link(batch, w)
      <4>1. closer # "ended"
        <5>1. ~GaveUp /\ wr[w].pc \in Holding
          BY <2>1, <3>3 DEF GaveUp, Fstat, ScanGap, Holding
        <5>2. QED
          BY <5>1 DEF Batons, NobodyHolds
      <4>2. w \in Writers \cup {Supervisor}
        OBVIOUS
      <4>3. QED
        BY <3>2, <3>3, <3>4, <3>7, <4>1, <4>2 DEF ChainStep, Links
    <3>8. QED
      BY <3>2, <3>5, <3>6, <3>7
  <2>2. CASE Answer(w)
    <3>1. Published(w) /\ chain' = PassedBy(w) /\ UNCHANGED <<sent, sub, consumed, latest, path, closer, sup>>
      BY <2>2 DEF Answer
    <3>2. NoneDone /\ OneJobEach
      BY <3>1 DEF Batons, GaveUp
    <3>3. QED
      BY <3>1, <3>2, PassedAlone DEF ChainStep, Passes
  <2>3. CASE ~(Fstat(w) \/ ScanGap(w) \/ Answer(w))
    <3>1. UNCHANGED <<sent, chain, consumed, latest, sup>>
      BY <1>5, <2>3 DEF Append_, AppendRest, WriterStep, WriteFails, Interrupt, Enter, Stat, Write,
         WriteRest, ScanFails
    <3>2. QED
      BY <1>1, <3>1
  <2>4. QED
    BY <2>1, <2>2, <2>3
<1>6. CASE SupervisorStep
  <2> USE DEF EngineRest, LookRest
  <2>1. /\ \A s \in {NextCycle, Returned, Failed, Built} \cup
                    {IngestThen(after) : after \in {"loop", "follow", "await", "created"}} : s.base = sup.base
        /\ \A x : [sup EXCEPT !.pc = x].base = sup.base
    BY <1>2, FiberSettles DEF Fiber
  <2>2. NoBreachSeen /\ breaches = 0
    BY DEF Unbroken, Straight
  <2>3. CASE SeedResume \/ SeedLatest
    BY <2>3 DEF SeedResume, SeedLatest, ChainStep, Keeps, SameItems
  <2>4. CASE Construct \/ SeedFails \/ Judge
    BY <1>1, <2>1, <2>4 DEF Construct, SeedFails, Judge
  <2>5. CASE Look \/ Floor
    <3>1. sup'.base = sup.base
      BY <1>2, <2>5 DEF Look, Floor, Fiber
    <3>2. QED
      BY <1>1, <2>5, <3>1 DEF Look, Floor
  <2>6. CASE Sample
    <3>1. sup'.base = sup.base
      <4>1. CASE path = 0
        BY <2>1, <2>6, <4>1 DEF Sample
      <4>2. CASE path # 0
        BY <1>2, <2>6, <4>2 DEF Sample, Fiber
      <4>3. QED
        BY <4>1, <4>2
    <3>2. QED
      BY <1>1, <2>6, <3>1 DEF Sample
  <2>7. CASE Arm \/ Follow \/ ArmDirectory \/ Check \/ Await
    <3>1. UNCHANGED <<sent, chain, consumed, latest>>
      BY <2>7 DEF Arm, Follow, ArmDirectory, Check, Await
    <3>2. \/ sup' = NextCycle
          \/ \E after \in {"loop", "follow", "await", "created"} : sup' = IngestThen(after)
          \/ sup' = [sup EXCEPT !.pc = "check"] \/ sup' = [sup EXCEPT !.pc = "await"]
      BY <2>7 DEF Arm, Armed, Follow, ArmDirectory, Check, Await
    <3>3. sup'.base = sup.base
      <4>1. NextCycle.base = sup.base
        BY <2>1
      <4>2. \A after \in {"loop", "follow", "await", "created"} : IngestThen(after).base = sup.base
        BY <2>1
      <4>3. [sup EXCEPT !.pc = "check"].base = sup.base /\ [sup EXCEPT !.pc = "await"].base = sup.base
        BY <2>1
      <4>4. QED
        BY <3>2, <4>1, <4>2, <4>3
    <3>4. QED
      BY <1>1, <3>1, <3>3
  <2>8. CASE ReadGap
    <3>1. CASE path = 0
      BY <1>1, <2>1, <2>8, <3>1 DEF ReadGap
    <3>2. CASE path # 0
      <4>1. UNCHANGED <<sent, sub, path, closer>> /\ sup'.base = sup.base /\ sup.pc = "read"
        BY <2>1, <2>8, <3>2 DEF ReadGap
      <4>2. closer # "ended"
        <5>1. ~GaveUp
          BY <4>1 DEF GaveUp
        <5>2. QED
          BY <4>1, <5>1 DEF Batons, EndedIsEmpty
      <4>3. Supervisor \in Writers \cup {Supervisor}
        OBVIOUS
      <4>4. \E c \in 0..Count, e \in 0..Count :
             /\ consumed = 2 * c /\ c <= e /\ consumed' = 2 * e
             /\ \E batch : Run(batch, c, e) /\ chain' = Link(batch, Supervisor)
             /\ \/ NewestOf(latest', c, e)
                \/ latest' = latest /\ \A k \in (c + 1)..e : ~Valid(LineItem(k))
        BY <2>8, <3>2, GapIngested
      <4>5. QED
        BY <4>1, <4>2, <4>3, <4>4 DEF ChainStep, Links
    <3>3. QED
      BY <3>1, <3>2
  <2>9. CASE PublishedGap
    <3>1. /\ Published(Supervisor) /\ chain' = PassedBy(Supervisor)
          /\ UNCHANGED <<sent, sub, consumed, latest, path, closer>> /\ sup'.base = sup.base
      BY <2>1, <2>9 DEF PublishedGap
    <3>2. NoneDone /\ OneJobEach
      BY <3>1 DEF Batons, GaveUp
    <3>3. QED
      BY <3>1, <3>2, PassedAlone DEF ChainStep, Passes
  <2>10. ~Reseed /\ ~Announce
    BY <2>2 DEF Reseed, Announce, NoBreachSeen
  <2>11. QED
    BY <1>6, <2>3, <2>4, <2>5, <2>6, <2>7, <2>8, <2>9, <2>10 DEF SupervisorStep
<1>7. CASE \E r \in Readers : \/ \E cursor \in Cursors : Subscribe(r, cursor)
                             \/ ReaderStep(r) \/ Leave(r)
  <2>1. UNCHANGED <<sent, chain, consumed, latest, sup>>
    BY <1>7 DEF Subscribe, ReaderStep, ReplayStat, Replay, Take, Leave, SubscriberRest
  <2>2. QED
    BY <1>1, <2>1
<1>8. CASE Close
  BY <1>1, <1>8 DEF Close
<1>9. CASE Capture
  <2>1. UNCHANGED <<sent, consumed, latest, sup>>
        /\ chain' = IF chain = <<>> THEN chain ELSE [chain EXCEPT ![Len(chain)].pending = TRUE]
    BY <1>9 DEF Capture
  <2>2. SameItems
    <3>1. CASE chain = <<>>
      BY <2>1, <3>1 DEF SameItems
    <3>2. CASE chain # <<>>
      <4> DEFINE N == Len(chain)
                 job == [chain[N] EXCEPT !.pending = TRUE]
      <4>1. /\ chain \in Seq(Job) /\ N \in Nat /\ N \in 1..N /\ chain[N] \in Job /\ DOMAIN chain = 1..N
        BY <3>2, ChainParts, EmptySeq
      <4>2. chain' = [chain EXCEPT ![N] = job]
        BY <2>1, <3>2
      <4>3. job \in Job /\ job.items = chain[N].items
        BY <4>1 DEF Job
      <4> HIDE DEF N, job
      <4>4. /\ Len(chain') = Len(chain)
            /\ \A n \in 1..Len(chain) : chain'[n] = IF n = N THEN job ELSE chain[n]
        BY <4>1, <4>2, <4>3, ExceptSeq DEF N
      <4>5. QED
        BY <4>3, <4>4 DEF SameItems
    <3>3. QED
      BY <3>1, <3>2
  <2>3. QED
    BY <2>1, <2>2 DEF ChainStep, Keeps
<1>10. CASE EndStreams
  BY <1>10, EndStep DEF ChainStep
<1>11. ~GiveUp
  BY DEF GiveUp, Finalized, GaveUp
<1>12. QED
  BY <1>3, <1>4, <1>5, <1>6, <1>7, <1>8, <1>9, <1>10, <1>11 DEF Next, CloserStep

------------------------------------------------------------------------------
(* The order in which lines are published.                                    *)

Before(a, b) == a.end <= b.start
\* x is consumed, and what is still to be published follows it.
Ahead(x) ==
  /\ x.end <= consumed
  /\ \A n \in 1..Len(chain) : \A k \in 1..Len(chain[n].items) : Before(x, chain[n].items[k])
ChainInOrder ==
  /\ \A n \in 1..Len(chain) : \A k \in 1..Len(chain[n].items) : chain[n].items[k].end <= consumed
  /\ \A n \in 1..Len(chain) : \A j, k \in 1..Len(chain[n].items) :
       j < k => Before(chain[n].items[j], chain[n].items[k])
  /\ \A m, n \in 1..Len(chain) : m < n =>
       \A j \in 1..Len(chain[m].items), k \in 1..Len(chain[n].items) :
         Before(chain[m].items[j], chain[n].items[k])

\* A step that links nothing takes jobs and items from the front, if any.
ShiftsBy(d) ==
  \A n \in 1..Len(chain') :
    /\ n + d \in 1..Len(chain)
    /\ \E e \in Nat : \A k \in 1..Len(chain'[n].items) :
         /\ k + e \in 1..Len(chain[n + d].items)
         /\ chain'[n].items[k] = chain[n + d].items[k + e]
Shifts == \E d \in Nat : ShiftsBy(d)

LEMMA LinkedItems ==
  ASSUME TInv
  PROVE  \A n \in 1..Len(chain) : \A k \in 1..Len(chain[n].items) :
           /\ chain[n].items[k] \in Item
           /\ chain[n].items[k].start \in Int /\ chain[n].items[k].end \in Int
<1>1. \A n \in 1..Len(chain) : chain[n].items \in Seq(Item)
  BY ChainParts
<1>2. \A n \in 1..Len(chain) : \A k \in 1..Len(chain[n].items) : chain[n].items[k] \in Item
  BY <1>1
<1>3. \A x \in Item : x.start \in Int /\ x.end \in Int
  BY DEF Item
<1>4. QED
  BY <1>2, <1>3

LEMMA HeadIs ==
  ASSUME TInv, 1 \in 1..Len(chain), chain[1].items # <<>>
  PROVE  /\ 1 \in 1..Len(chain[1].items) /\ Head(chain[1].items) = chain[1].items[1]
         /\ Head(chain[1].items) \in Item
<1>1. chain[1].items \in Seq(Item)
  BY ChainParts
<1>2. Len(chain[1].items) \in Nat /\ Len(chain[1].items) # 0
  BY <1>1, EmptySeq
<1>3. QED
  BY <1>1, <1>2

\* Taking the head leaves the other items where they are.
LEMMA HeadTaken ==
  ASSUME TInv, 1 \in 1..Len(chain), chain[1].items # <<>>,
         chain' = [chain EXCEPT ![1].items = Tail(@)]
  PROVE  /\ Len(chain') = Len(chain)
         /\ \A n \in 1..Len(chain) :
              /\ chain'[n].by = chain[n].by /\ chain'[n].done = chain[n].done
              /\ chain'[n].pending = chain[n].pending
              /\ n # 1 => chain'[n].items = chain[n].items
         /\ Len(chain'[1].items) = Len(chain[1].items) - 1
         /\ \A k \in 1..(Len(chain[1].items) - 1) : chain'[1].items[k] = chain[1].items[k + 1]
<1> DEFINE job == [chain[1] EXCEPT !.items = Tail(@)]
<1>1. /\ chain \in Seq(Job) /\ chain[1] \in Job /\ chain[1].items \in Seq(Item)
      /\ Len(chain[1].items) \in Nat /\ Len(chain[1].items) # 0
  BY ChainParts, EmptySeq
<1>2. /\ Tail(chain[1].items) \in Seq(Item) /\ Len(Tail(chain[1].items)) = Len(chain[1].items) - 1
      /\ \A k \in 1..(Len(chain[1].items) - 1) : Tail(chain[1].items)[k] = chain[1].items[k + 1]
  BY <1>1
<1>3. /\ job \in Job /\ job.items = Tail(chain[1].items) /\ job.by = chain[1].by
      /\ job.done = chain[1].done /\ job.pending = chain[1].pending
  BY <1>1, <1>2 DEF Job
<1>4. chain' = [chain EXCEPT ![1] = job]
  OBVIOUS
<1> HIDE DEF job
<1>5. /\ Len(chain') = Len(chain)
      /\ \A n \in 1..Len(chain) : chain'[n] = IF n = 1 THEN job ELSE chain[n]
  <2>1. \A i \in 1..Len(chain) :
          /\ Len([chain EXCEPT ![i] = job]) = Len(chain)
          /\ \A n \in 1..Len(chain) : [chain EXCEPT ![i] = job][n] = IF n = i THEN job ELSE chain[n]
    BY <1>1, <1>3, ExceptSeq
  <2>2. /\ Len([chain EXCEPT ![1] = job]) = Len(chain)
        /\ \A n \in 1..Len(chain) : [chain EXCEPT ![1] = job][n] = IF n = 1 THEN job ELSE chain[n]
    BY <2>1
  <2>3. QED
    BY <1>4, <2>2
<1>6. QED
  BY <1>2, <1>3, <1>5

LEMMA StepShifts ==
  ASSUME TInv, Keeps \/ Passes \/ PublishesHead \/ Ends
  PROVE  Shifts
<1>1. Len(chain) \in Nat /\ \A n \in 1..Len(chain) : Len(chain[n].items) \in Nat
  BY ChainParts
<1>2. CASE Keeps
  <2>1. SameItems
    BY <1>2 DEF Keeps
  <2>2. \A n \in 1..Len(chain') : n + 0 = n /\ n \in 1..Len(chain) /\ chain'[n].items = chain[n].items
    BY <1>1, <2>1 DEF SameItems
  <2>3. ASSUME NEW n \in 1..Len(chain')
        PROVE  /\ n + 0 \in 1..Len(chain)
               /\ \E e \in Nat : \A k \in 1..Len(chain'[n].items) :
                    /\ k + e \in 1..Len(chain[n + 0].items)
                    /\ chain'[n].items[k] = chain[n + 0].items[k + e]
    <3>1. \A k \in 1..Len(chain'[n].items) : k + 0 = k
      BY <1>1, <2>2
    <3>2. QED
      BY <2>2, <3>1
  <2>4. ShiftsBy(0)
    BY <2>3 DEF ShiftsBy
  <2>5. QED
    BY <2>4 DEF Shifts
<1>3. CASE Passes
  <2>1. /\ 1 \in 1..Len(chain) /\ Len(chain') = Len(chain) - 1
        /\ \A n \in 1..(Len(chain) - 1) : chain'[n] = chain[n + 1]
    BY <1>3 DEF Passes
  <2>2. \A n \in 1..Len(chain') : n + 1 \in 1..Len(chain) /\ chain'[n] = chain[n + 1]
    BY <1>1, <2>1
  <2>3. ASSUME NEW n \in 1..Len(chain')
        PROVE  /\ n + 1 \in 1..Len(chain)
               /\ \E e \in Nat : \A k \in 1..Len(chain'[n].items) :
                    /\ k + e \in 1..Len(chain[n + 1].items)
                    /\ chain'[n].items[k] = chain[n + 1].items[k + e]
    <3>1. \A k \in 1..Len(chain[n + 1].items) : k + 0 = k
      BY <1>1, <2>2
    <3>2. QED
      BY <2>2, <3>1
  <2>4. ShiftsBy(1)
    BY <2>3 DEF ShiftsBy
  <2>5. QED
    BY <2>4 DEF Shifts
<1>4. CASE PublishesHead
  <2>1. /\ Len(chain') = Len(chain)
        /\ \A n \in 1..Len(chain) : n # 1 => chain'[n].items = chain[n].items
        /\ Len(chain'[1].items) = Len(chain[1].items) - 1
        /\ \A k \in 1..(Len(chain[1].items) - 1) : chain'[1].items[k] = chain[1].items[k + 1]
        /\ 1 \in 1..Len(chain)
    BY <1>4, HeadTaken DEF PublishesHead
  <2>2. ASSUME NEW n \in 1..Len(chain')
        PROVE  /\ n + 0 \in 1..Len(chain)
               /\ \E e \in Nat : \A k \in 1..Len(chain'[n].items) :
                    /\ k + e \in 1..Len(chain[n + 0].items)
                    /\ chain'[n].items[k] = chain[n + 0].items[k + e]
    <3>1. n \in 1..Len(chain) /\ n + 0 = n
      BY <1>1, <2>1
    <3>2. CASE n = 1
      <4>1. \A k \in 1..Len(chain'[1].items) :
              k + 1 \in 1..Len(chain[1].items) /\ chain'[1].items[k] = chain[1].items[k + 1]
        BY <1>1, <2>1
      <4>2. QED
        BY <3>1, <3>2, <4>1
    <3>3. CASE n # 1
      <4>1. chain'[n].items = chain[n].items
        BY <2>1, <3>1, <3>3
      <4>2. \A k \in 1..Len(chain[n].items) : k + 0 = k
        BY <1>1, <3>1
      <4>3. QED
        BY <3>1, <4>1, <4>2
    <3>4. QED
      BY <3>2, <3>3
  <2>3. ShiftsBy(0)
    BY <2>2 DEF ShiftsBy
  <2>4. QED
    BY <2>3 DEF Shifts
<1>5. CASE Ends
  <2>1. Len(chain') = 0
    BY <1>5, EmptySeq DEF Ends
  <2>2. \A n \in 1..Len(chain') : FALSE
    BY <2>1
  <2>3. ShiftsBy(0)
    BY <2>2 DEF ShiftsBy
  <2>4. QED
    BY <2>3 DEF Shifts
<1>6. QED
  BY <1>2, <1>3, <1>4, <1>5

LEMMA ShiftsInOrder ==
  ASSUME TInv, Shifts, ChainInOrder, consumed \in Int, consumed' \in Int, consumed <= consumed'
  PROVE  /\ ChainInOrder'
         /\ \A x \in Item : Ahead(x) => Ahead(x)'
<1>1. PICK d \in Nat : \A n \in 1..Len(chain') :
        /\ n + d \in 1..Len(chain)
        /\ \E e \in Nat : \A k \in 1..Len(chain'[n].items) :
             /\ k + e \in 1..Len(chain[n + d].items)
             /\ chain'[n].items[k] = chain[n + d].items[k + e]
  BY DEF Shifts, ShiftsBy
<1>2. ASSUME NEW n \in 1..Len(chain'), NEW k \in 1..Len(chain'[n].items)
      PROVE  chain'[n].items[k].end <= consumed'
  <2>1. PICK e \in Nat : /\ k + e \in 1..Len(chain[n + d].items)
                         /\ chain'[n].items[k] = chain[n + d].items[k + e]
    BY <1>1
  <2>2. /\ chain[n + d].items[k + e].end \in Int
        /\ chain[n + d].items[k + e].end <= consumed
    BY <1>1, <2>1, LinkedItems DEF ChainInOrder
  <2>3. QED
    BY <2>1, <2>2
<1>3. ASSUME NEW n \in 1..Len(chain'), NEW j \in 1..Len(chain'[n].items),
             NEW k \in 1..Len(chain'[n].items), j < k
      PROVE  Before(chain'[n].items[j], chain'[n].items[k])
  <2>1. PICK e \in Nat : \A i \in 1..Len(chain'[n].items) :
          /\ i + e \in 1..Len(chain[n + d].items)
          /\ chain'[n].items[i] = chain[n + d].items[i + e]
    BY <1>1
  <2>2. j + e < k + e
    BY <1>3
  <2>3. n + d \in 1..Len(chain)
    BY <1>1
  <2>4. Before(chain[n + d].items[j + e], chain[n + d].items[k + e])
    BY <2>1, <2>2, <2>3 DEF ChainInOrder
  <2>5. QED
    BY <2>1, <2>4
<1>4. ASSUME NEW m \in 1..Len(chain'), NEW n \in 1..Len(chain'), m < n,
             NEW j \in 1..Len(chain'[m].items), NEW k \in 1..Len(chain'[n].items)
      PROVE  Before(chain'[m].items[j], chain'[n].items[k])
  <2>1. PICK e \in Nat : /\ j + e \in 1..Len(chain[m + d].items)
                         /\ chain'[m].items[j] = chain[m + d].items[j + e]
    BY <1>1
  <2>2. PICK f \in Nat : /\ k + f \in 1..Len(chain[n + d].items)
                         /\ chain'[n].items[k] = chain[n + d].items[k + f]
    BY <1>1
  <2>3. m + d < n + d
    BY <1>4
  <2>4. m + d \in 1..Len(chain) /\ n + d \in 1..Len(chain)
    BY <1>1
  <2>5. Before(chain[m + d].items[j + e], chain[n + d].items[k + f])
    BY <2>1, <2>2, <2>3, <2>4 DEF ChainInOrder
  <2>6. QED
    BY <2>1, <2>2, <2>5
<1>5. ASSUME NEW x \in Item, Ahead(x) PROVE Ahead(x)'
  <2>1. x.end \in Int /\ x.end <= consumed
    BY <1>5 DEF Ahead, Item
  <2>2. x.end <= consumed'
    BY <2>1
  <2>3. ASSUME NEW n \in 1..Len(chain'), NEW k \in 1..Len(chain'[n].items)
        PROVE  Before(x, chain'[n].items[k])
    <3>1. PICK e \in Nat : /\ k + e \in 1..Len(chain[n + d].items)
                           /\ chain'[n].items[k] = chain[n + d].items[k + e]
      BY <1>1
    <3>2. Before(x, chain[n + d].items[k + e])
      BY <1>1, <1>5, <3>1 DEF Ahead
    <3>3. QED
      BY <3>1, <3>2
  <2>4. QED
    BY <2>2, <2>3 DEF Ahead
<1>6. ChainInOrder'
  BY <1>2, <1>3, <1>4 DEF ChainInOrder
<1>7. QED
  BY <1>5, <1>6

LEMMA RunPlaces ==
  ASSUME NEW c \in Nat, NEW e \in Nat, NEW batch, Run(batch, c, e)
  PROVE  /\ \A k \in 1..Len(batch) :
              /\ batch[k] = LineItem(c + k) /\ k <= e - c
              /\ batch[k].start = 2 * (c + k) - 2 /\ batch[k].end = 2 * (c + k)
         /\ batch \in Seq(Item) /\ Len(batch) = e - c
<1>1. \A k \in 1..Len(batch) : batch[k] = LineItem(c + k) /\ k <= e - c
  BY DEF Run
<1>2. \A k \in 1..Len(batch) : batch[k].start = 2 * (c + k) - 2 /\ batch[k].end = 2 * (c + k)
  BY <1>1, LineItemIs
<1>3. QED
  BY <1>1, <1>2 DEF Run

\* What is linked begins where everything linked before it has ended.
LEMMA LinksInOrder ==
  ASSUME TInv, ChainInOrder, Links, consumed \in Nat, Count \in Nat
  PROVE  /\ ChainInOrder'
         /\ \A x \in Item : Ahead(x) => Ahead(x)'
<1>1. PICK c \in 0..Count, e \in 0..Count, by \in Writers \cup {Supervisor} :
        /\ consumed = 2 * c /\ c <= e /\ consumed' = 2 * e
        /\ \E batch : Run(batch, c, e) /\ chain' = Link(batch, by)
  BY DEF Links
<1>2. PICK batch : Run(batch, c, e) /\ chain' = Link(batch, by)
  BY <1>1
<1> DEFINE N == Len(chain)
<1>3. c \in Nat /\ e \in Nat /\ N \in Nat
  BY ChainParts
<1>4. /\ \A k \in 1..Len(batch) : /\ k <= e - c /\ k \in Nat /\ k >= 1
                                  /\ batch[k].start = 2 * (c + k) - 2 /\ batch[k].end = 2 * (c + k)
      /\ batch \in Seq(Item)
  BY <1>2, <1>3, RunPlaces
<1>5. /\ Len(chain') = N + 1 /\ chain'[N + 1].items = batch
      /\ \A n \in 1..N : chain'[n] = chain[n]
  <2>1. /\ Len(Link(batch, by)) = Len(chain) + 1
        /\ \A n \in 1..Len(chain) : Link(batch, by)[n] = chain[n]
        /\ Link(batch, by)[Len(chain) + 1] = [items |-> batch, by |-> by, done |-> FALSE, pending |-> FALSE]
    BY <1>4, LinkIsChain
  <2>2. Link(batch, by)[Len(chain) + 1].items = batch
    BY <2>1
  <2>3. QED
    BY <1>2, <2>1, <2>2
<1>6. \A n \in 1..Len(chain') : n \in 1..N \/ n = N + 1
  <2> HIDE DEF N
  <2>1. QED
    BY <1>3, <1>5
<1>7. \A k \in 1..Len(batch) : /\ batch[k].start >= consumed /\ batch[k].end <= consumed'
                               /\ batch[k].start \in Int
  BY <1>1, <1>3, <1>4
<1>8. \A j, k \in 1..Len(batch) : j < k => Before(batch[j], batch[k])
  <2> SUFFICES ASSUME NEW j \in 1..Len(batch), NEW k \in 1..Len(batch), j < k
               PROVE  batch[j].end <= batch[k].start
    BY DEF Before
  <2>1. 2 * (c + j) <= 2 * (c + k) - 2
    BY <1>3
  <2>2. QED
    BY <1>4, <2>1
<1>9. consumed <= consumed' /\ consumed' \in Nat
  BY <1>1, <1>3
<1>10. ASSUME NEW n \in 1..Len(chain'), NEW k \in 1..Len(chain'[n].items)
       PROVE  chain'[n].items[k].end <= consumed'
  <2>1. CASE n \in 1..N
    <3>1. chain[n].items[k].end \in Int /\ chain[n].items[k].end <= consumed
      BY <1>5, <2>1, LinkedItems DEF ChainInOrder
    <3>2. QED
      BY <1>5, <1>9, <2>1, <3>1
  <2>2. CASE n = N + 1
    BY <1>5, <1>7, <2>2
  <2>3. QED
    BY <1>6, <2>1, <2>2
<1>11. ASSUME NEW n \in 1..Len(chain'), NEW j \in 1..Len(chain'[n].items),
              NEW k \in 1..Len(chain'[n].items), j < k
       PROVE  Before(chain'[n].items[j], chain'[n].items[k])
  <2>1. CASE n \in 1..N
    BY <1>5, <1>11, <2>1 DEF ChainInOrder
  <2>2. CASE n = N + 1
    BY <1>5, <1>8, <1>11, <2>2
  <2>3. QED
    BY <1>6, <2>1, <2>2
\* What precedes everything there was precedes what is linked.
<1>12. ASSUME NEW x, x.end \in Int, x.end <= consumed, NEW k \in 1..Len(batch)
       PROVE  Before(x, batch[k])
  BY <1>7, <1>12 DEF Before
<1>13. ASSUME NEW m \in 1..Len(chain'), NEW n \in 1..Len(chain'), m < n,
              NEW j \in 1..Len(chain'[m].items), NEW k \in 1..Len(chain'[n].items)
       PROVE  Before(chain'[m].items[j], chain'[n].items[k])
  <2>1. m \in 1..N
    <3> HIDE DEF N
    <3>1. n <= N + 1
      BY <1>3, <1>6
    <3>2. QED
      BY <1>3, <1>6, <1>13, <3>1
  <2>2. CASE n \in 1..N
    BY <1>5, <1>13, <2>1, <2>2 DEF ChainInOrder
  <2>3. CASE n = N + 1
    <3>1. chain[m].items[j].end \in Int /\ chain[m].items[j].end <= consumed
      BY <1>5, <2>1, LinkedItems DEF ChainInOrder
    <3>2. QED
      BY <1>5, <1>12, <2>1, <2>3, <3>1
  <2>4. QED
    BY <1>6, <2>2, <2>3
<1>14. ASSUME NEW x \in Item, Ahead(x) PROVE Ahead(x)'
  <2>1. x.end \in Int /\ x.end <= consumed
    BY <1>14 DEF Ahead, Item
  <2>2. x.end <= consumed'
    BY <1>9, <2>1
  <2>3. ASSUME NEW n \in 1..Len(chain'), NEW k \in 1..Len(chain'[n].items)
        PROVE  Before(x, chain'[n].items[k])
    <3>1. CASE n \in 1..N
      BY <1>5, <1>14, <3>1 DEF Ahead
    <3>2. CASE n = N + 1
      BY <1>5, <1>12, <2>1, <3>2
    <3>3. QED
      BY <1>6, <3>1, <3>2
  <2>4. QED
    BY <2>2, <2>3 DEF Ahead
<1>15. ChainInOrder'
  BY <1>10, <1>11, <1>13 DEF ChainInOrder
<1>16. QED
  BY <1>14, <1>15

\* `consumed` never moves back.
LEMMA ConsumedGrows ==
  ASSUME TInv, Placed, Count \in Nat, Straight, ChainStep
  PROVE  consumed \in Nat /\ consumed' \in Nat /\ consumed <= consumed'
<1>1. PICK c \in 0..Count : consumed = 2 * c
  BY DEF Placed
<1>2. consumed \in Nat
  BY DEF TInv, AdoptedT
<1>3. CASE UNCHANGED consumed
  BY <1>2, <1>3
<1>4. CASE \E a \in 0..Count, e \in 0..Count : consumed = 2 * a /\ a <= e /\ consumed' = 2 * e
  BY <1>2, <1>4
<1>5. CASE SeedResume
  <2>1. consumed' = EndOf(files[path]) /\ path # 0
    BY <1>5 DEF SeedResume, ResumePoint
  <2>2. consumed' = 2 * Count
    BY <2>1, StraightSizes, CountParts
  <2>3. QED
    BY <1>1, <1>2, <2>2
<1>6. QED
  BY <1>3, <1>4, <1>5 DEF ChainStep, Keeps, Links, Passes, PublishesHead, Ends, SeedLatest

SentInOrder ==
  /\ \A m \in 1..Len(sent) : Ahead(sent[m])
  /\ \A m, n \in 1..Len(sent) : m < n => Before(sent[m], sent[n])
InOrder == ~GaveUp => ChainInOrder /\ SentInOrder

\* What the steps of an undisturbed journal preserve together: the first five
\* also when appends are interrupted.
Steady == TInv /\ IInv /\ Unbroken /\ Straight /\ Placed
Undisturbed == Steady /\ Batons

LEMMA InitUndisturbed == Init => Undisturbed
BY InitTyped, InitIInv, InitUnbroken, InitStraight, InitPlaced, InitBatons DEF Undisturbed, Steady

LEMMA NextSteady ==
  ASSUME Ruly, Steady, Ordered, [Next]_vars
  PROVE  Steady'
<1>1. TInv' /\ IInv'
  BY NextTyped, NextIInv DEF Steady
<1>2. Unbroken'
  BY <1>1, NextUnbroken DEF Steady
<1>3. Straight' /\ Placed'
  BY <1>1, NextPlaced DEF Steady
<1>4. QED
  BY <1>1, <1>2, <1>3 DEF Steady

LEMMA NextUndisturbed ==
  ASSUME Ruly, ~MayInterrupt, Undisturbed, Ordered, [Next]_vars
  PROVE  Undisturbed'
<1>1. Steady'
  BY NextSteady DEF Undisturbed
<1>2. Batons'
  BY <1>1, NextBatons DEF Undisturbed, Steady
<1>3. QED
  BY <1>1, <1>2 DEF Undisturbed

LEMMA SteadyHolds == ASSUME Ruly PROVE Spec => [](Steady /\ Ordered)
<1>1. Steady => TInv
  BY DEF Steady
<1>2. Init => Steady
  BY InitUndisturbed DEF Undisturbed
<1>3. QED
  BY <1>1, <1>2, NextSteady, InitOrdered, NextOrdered, PTL DEF Spec

LEMMA UndisturbedHolds == ASSUME Ruly, ~MayInterrupt PROVE Spec => [](Undisturbed /\ Ordered)
<1>1. Undisturbed => TInv
  BY DEF Undisturbed, Steady
<1>2. QED
  BY <1>1, InitUndisturbed, NextUndisturbed, InitOrdered, NextOrdered, PTL DEF Spec

\* Every step is one of the ways the chain moves, and the order survives each.
LEMMA ChainMoves ==
  ASSUME Ruly, ~MayInterrupt, Undisturbed, Undisturbed', ~GaveUp', [Next]_vars
  PROVE  /\ ChainStep /\ ~GaveUp
         /\ consumed \in Nat /\ consumed' \in Nat /\ consumed <= consumed'
         /\ Count \in Nat
         /\ ChainInOrder => ChainInOrder' /\ \A x \in Item : Ahead(x) => Ahead(x)'
<1>1. ChainStep
  BY NextChainStep DEF Undisturbed, Steady
<1>2. Count \in Nat
  BY CountParts DEF Undisturbed, Steady
<1>3. consumed \in Nat /\ consumed' \in Nat /\ consumed <= consumed'
  BY <1>1, <1>2, ConsumedGrows DEF Undisturbed, Steady
<1>4. ~GaveUp
  <2>1. CASE [Next]_vars /\ closer = "gave up"
    <3>1. closer' = closer
      BY <2>1 DEF Next, vars, fibers, disk, adopted, OthersStep, OtherAppends, OtherTears, OtherCompletes, Others,
         BreachStep, Breach, Truncate, Replace, RemoveFile, Create, SupervisorStep, Construct, SeedFails,
         SeedResume, SeedLatest, Look, Arm, Follow, ArmDirectory, Check, Await, Floor, Sample, Judge,
         ReadGap, PublishedGap, Reseed, Announce, EngineRest, LookRest, PublishStep, Publish,
         Append_, AppendRest, WriterStep, WriteFails, Interrupt, Enter, Stat, Write, WriteRest, Fstat,
         ScanGap, ConcludeRest, ScanFails, Answer, Subscribe, ReaderStep, ReplayStat, Replay, Take, Leave,
         SubscriberRest, Close, closed, CloserStep, Capture, EndStreams, GiveUp
    <3>2. QED
      BY <2>1, <3>1 DEF GaveUp
  <2>2. QED
    BY <2>1 DEF GaveUp
<1>5. ASSUME ChainInOrder PROVE ChainInOrder' /\ \A x \in Item : Ahead(x) => Ahead(x)'
  <2>1. CASE Links
    BY <1>2, <1>3, <1>5, <2>1, LinksInOrder DEF Undisturbed, Steady
  <2>2. CASE ~Links
    <3>1. Shifts
      BY <1>1, <2>2, StepShifts DEF ChainStep, Undisturbed, Steady
    <3>2. QED
      BY <1>3, <1>5, <3>1, ShiftsInOrder DEF Undisturbed, Steady
  <2>3. QED
    BY <2>1, <2>2
<1>6. QED
  BY <1>1, <1>2, <1>3, <1>4, <1>5

\* The item at the head of the chain follows everything published, and the rest
\* of the chain follows it.
LEMMA HeadInOrder ==
  ASSUME TInv, ChainInOrder, PublishesHead, consumed \in Nat
  PROVE  /\ Head(chain[1].items) \in Item
         /\ \A x : x = Head(chain[1].items) => Ahead(x)'
         /\ \A x : Ahead(x) => Before(x, Head(chain[1].items))
<1>1. /\ 1 \in 1..Len(chain) /\ chain[1].items # <<>>
      /\ chain' = [chain EXCEPT ![1].items = Tail(@)] /\ consumed' = consumed
  BY DEF PublishesHead
<1> DEFINE h == Head(chain[1].items)
<1>2. 1 \in 1..Len(chain[1].items) /\ h = chain[1].items[1] /\ h \in Item
  BY <1>1, HeadIs
<1>3. /\ Len(chain') = Len(chain)
      /\ \A n \in 1..Len(chain) : n # 1 => chain'[n].items = chain[n].items
      /\ Len(chain'[1].items) = Len(chain[1].items) - 1
      /\ \A k \in 1..(Len(chain[1].items) - 1) : chain'[1].items[k] = chain[1].items[k + 1]
  BY <1>1, HeadTaken
<1> HIDE DEF h
<1>4. \A x : Ahead(x) => Before(x, h)
  BY <1>1, <1>2 DEF Ahead
<1>5. h.end <= consumed'
  BY <1>1, <1>2 DEF ChainInOrder
<1>6. ASSUME NEW n \in 1..Len(chain'), NEW k \in 1..Len(chain'[n].items)
      PROVE  Before(h, chain'[n].items[k])
  <2>1. CASE n = 1
    <3>1. Len(chain[1].items) \in Nat
      BY <1>1, ChainParts
    <3>2. k \in 1..(Len(chain[1].items) - 1)
      BY <1>3, <1>6, <2>1
    <3>3. k + 1 \in 1..Len(chain[1].items) /\ 1 < k + 1
      BY <3>1, <3>2
    <3>4. Before(chain[1].items[1], chain[1].items[k + 1])
      BY <1>1, <1>2, <3>3 DEF ChainInOrder
    <3>5. QED
      BY <1>2, <1>3, <2>1, <3>2, <3>4
  <2>2. CASE n # 1
    <3>1. n \in 1..Len(chain) /\ 1 < n /\ chain'[n].items = chain[n].items
      BY <1>3, <1>6, <2>2
    <3>2. Before(chain[1].items[1], chain[n].items[k])
      BY <1>1, <1>2, <1>6, <3>1 DEF ChainInOrder
    <3>3. QED
      BY <1>2, <3>1, <3>2
  <2>3. QED
    BY <2>1, <2>2
<1>7. ASSUME NEW x, x = h PROVE Ahead(x)'
  <2>1. x.end <= consumed'
    BY <1>5, <1>7
  <2>2. \A n \in 1..Len(chain') : \A k \in 1..Len(chain'[n].items) : Before(x, chain'[n].items[k])
    BY <1>6, <1>7
  <2>3. QED
    BY <2>1, <2>2 DEF Ahead
<1>8. QED
  BY <1>2, <1>4, <1>7 DEF h

LEMMA NextInOrder ==
  ASSUME Ruly, ~MayInterrupt, Undisturbed, Undisturbed', InOrder, [Next]_vars
  PROVE  InOrder'
<1> SUFFICES ASSUME ~GaveUp' PROVE ChainInOrder' /\ SentInOrder'
  BY DEF InOrder
<1>1. /\ ChainStep /\ ~GaveUp /\ consumed \in Nat
      /\ ChainInOrder => ChainInOrder' /\ \A x \in Item : Ahead(x) => Ahead(x)'
  BY ChainMoves
<1>2. ChainInOrder /\ SentInOrder
  BY <1>1 DEF InOrder
<1>3. ChainInOrder' /\ \A x \in Item : Ahead(x) => Ahead(x)'
  BY <1>1, <1>2
<1>4. sent \in Seq(Item) /\ Len(sent) \in Nat /\ \A m \in 1..Len(sent) : sent[m] \in Item
  BY DEF Undisturbed, Steady, TInv, ChainT
<1>5. CASE UNCHANGED sent
  <2>1. \A m \in 1..Len(sent) : Ahead(sent[m])'
    <3> SUFFICES ASSUME NEW m \in 1..Len(sent) PROVE Ahead(sent[m])'
      OBVIOUS
    <3>1. \A x : x = sent[m] => Ahead(x)'
      BY <1>2, <1>3, <1>4 DEF SentInOrder
    <3>2. \A x : x = sent'[m] => Ahead(x)'
      BY <1>5, <3>1
    <3>3. QED
      BY <3>2 DEF Ahead
  <2>2. QED
    BY <1>2, <1>3, <1>5, <2>1 DEF SentInOrder
<1>6. CASE PublishesHead
  <2>1. PICK h \in Item : /\ sent' = Append(sent, h) /\ Ahead(h)'
                          /\ \A x : Ahead(x) => Before(x, h)
    <3>1. /\ Head(chain[1].items) \in Item
          /\ \A x : x = Head(chain[1].items) => Ahead(x)'
          /\ \A x : Ahead(x) => Before(x, Head(chain[1].items))
      BY <1>1, <1>2, <1>6, HeadInOrder DEF Undisturbed, Steady
    <3>2. sent' = Append(sent, Head(chain[1].items))
      BY <1>6 DEF PublishesHead
    <3>3. QED
      BY <3>1, <3>2
  <2>2. /\ Len(sent') = Len(sent) + 1
        /\ \A m \in 1..Len(sent) : sent'[m] = sent[m]
        /\ sent'[Len(sent) + 1] = h
    BY <1>4, <2>1, AppendProperties
  <2>3. \A m \in 1..Len(sent') : m \in 1..Len(sent) \/ m = Len(sent) + 1
    BY <1>4, <2>2
  <2>4. ASSUME NEW m \in 1..Len(sent') PROVE \A x : x = sent'[m] => Ahead(x)'
    <3>1. CASE m \in 1..Len(sent)
      <4>1. \A x : x = sent[m] => Ahead(x)'
        BY <1>2, <1>3, <1>4, <3>1 DEF SentInOrder
      <4>2. QED
        BY <2>2, <3>1, <4>1
    <3>2. CASE m = Len(sent) + 1
      <4>1. \A x : x = h => Ahead(x)'
        BY <2>1
      <4>2. QED
        BY <2>2, <3>2, <4>1
    <3>3. QED
      BY <2>3, <3>1, <3>2
  <2>5. ASSUME NEW m \in 1..Len(sent'), NEW n \in 1..Len(sent'), m < n PROVE Before(sent'[m], sent'[n])
    <3>1. m \in 1..Len(sent)
      BY <1>4, <2>2, <2>5
    <3>2. CASE n \in 1..Len(sent)
      BY <1>2, <2>2, <2>5, <3>1, <3>2 DEF SentInOrder
    <3>3. CASE n = Len(sent) + 1
      BY <1>2, <2>1, <2>2, <3>1, <3>3 DEF SentInOrder
    <3>4. QED
      BY <2>3, <3>2, <3>3
  <2>6. \A m \in 1..Len(sent') : Ahead(sent[m])'
    BY <2>4 DEF Ahead
  <2>7. QED
    BY <1>3, <2>5, <2>6 DEF SentInOrder
<1>7. QED
  BY <1>1, <1>3, <1>5, <1>6 DEF ChainStep, Keeps, Links, Passes, Ends

LEMMA InitInOrder == Init => InOrder
<1> SUFFICES ASSUME Init PROVE InOrder
  OBVIOUS
<1>1. chain = <<>> /\ sent = <<>> /\ Len(<<>>) = 0
  BY EmptySeq DEF Init
<1>2. Len(chain) = 0 /\ Len(sent) = 0
  BY <1>1
<1>3. (\A n \in 1..Len(chain) : FALSE) /\ (\A n \in 1..Len(sent) : FALSE)
  BY <1>2
<1>4. QED
  BY <1>3 DEF InOrder, ChainInOrder, SentInOrder

\* The hub carries the lines of the journal in the file's order, each once, for
\* any number of appends, of lines of other writers between them and of ingests
\* under way: the gaps that are consumed follow each other, and the baton keeps
\* them in that order until the last of their lines is published
\* (engine.ts:247-254, 474-478).
THEOREM HubKeepsOrder ==
  ASSUME Ruly, ~MayInterrupt
  PROVE  Spec => [](closer # "gave up" => HubInFileOrder)
<1>1. TInv /\ InOrder => (closer # "gave up" => HubInFileOrder)
  <2> SUFFICES ASSUME TInv, InOrder, ~GaveUp, NEW m \in DOMAIN sent, NEW n \in DOMAIN sent, m < n
               PROVE  sent[m].end <= sent[n].start
    BY DEF HubInFileOrder, GaveUp
  <2>1. DOMAIN sent = 1..Len(sent)
    BY DEF TInv, ChainT
  <2>2. QED
    BY <2>1 DEF InOrder, SentInOrder, Before
<1>2. Undisturbed => TInv
  BY DEF Undisturbed, Steady
<1>3. QED
  BY <1>1, <1>2, UndisturbedHolds, InitInOrder, NextInOrder, PTL DEF Spec

------------------------------------------------------------------------------
(* What is consumed is published, or will be.                                 *)

\* Published, or linked to be.
Linked(x) == \E n \in 1..Len(chain) : \E k \in 1..Len(chain[n].items) : chain[n].items[k] = x
Out(x) == (\E m \in 1..Len(sent) : sent[m] = x) \/ Linked(x)

Streaming == closer # "ended" /\ ~GaveUp
Accounted ==
  Streaming => \A n \in 1..Count : 2 * n - 2 >= sup.base /\ 2 * n <= consumed => Out(LineItem(n))

LEMMA OverStays ==
  ASSUME [Next]_vars
  PROVE  /\ closer \in {"ended", "gave up"} => closer' = closer
         /\ ~Streaming => ~Streaming'
<1> SUFFICES ASSUME closer \in {"ended", "gave up"} PROVE closer' = closer
  BY DEF Streaming, GaveUp
<1>1. QED
  BY DEF Next, vars, fibers, disk, adopted, OthersStep, OtherAppends, OtherTears, OtherCompletes, Others,
     BreachStep, Breach, Truncate, Replace, RemoveFile, Create, SupervisorStep, Construct, SeedFails,
     SeedResume, SeedLatest, Look, Arm, Follow, ArmDirectory, Check, Await, Floor, Sample, Judge,
     ReadGap, PublishedGap, Reseed, Announce, EngineRest, LookRest, PublishStep, Publish,
     Append_, AppendRest, WriterStep, WriteFails, Interrupt, Enter, Stat, Write, WriteRest, Fstat,
     ScanGap, ConcludeRest, ScanFails, Answer, Subscribe, ReaderStep, ReplayStat, Replay, Take, Leave,
     SubscriberRest, Close, closed, CloserStep, Capture, EndStreams, GiveUp

LEMMA LinkedAre ==
  ASSUME TInv, NEW batch \in Seq(Item), NEW by \in Writers \cup {Supervisor}
  PROVE  /\ Len(Link(batch, by)) = Len(chain) + 1
         /\ \A n \in 1..Len(chain) : Link(batch, by)[n] = chain[n]
         /\ Link(batch, by)[Len(chain) + 1].items = batch
<1>1. /\ Len(Link(batch, by)) = Len(chain) + 1
      /\ \A n \in 1..Len(chain) : Link(batch, by)[n] = chain[n]
      /\ Link(batch, by)[Len(chain) + 1] = [items |-> batch, by |-> by, done |-> FALSE, pending |-> FALSE]
  BY LinkIsChain
<1>2. QED
  BY <1>1

\* What is linked stays so until it is published.
LEMMA LinkedStays ==
  ASSUME TInv, Count \in Nat, Keeps \/ Links \/ Passes \/ PublishesHead, NEW x, Linked(x)
  PROVE  Linked(x)' \/ (PublishesHead /\ x = Head(chain[1].items))
<1>1. /\ Len(chain) \in Nat /\ \A n \in 1..Len(chain) : Len(chain[n].items) \in Nat
  BY ChainParts
<1>2. PICK n \in 1..Len(chain) : \E k \in 1..Len(chain[n].items) : chain[n].items[k] = x
  BY DEF Linked
<1>3. PICK k \in 1..Len(chain[n].items) : chain[n].items[k] = x
  BY <1>2
<1>4. CASE Keeps
  <2>1. Len(chain') = Len(chain) /\ \A m \in 1..Len(chain) : chain'[m].items = chain[m].items
    BY <1>4 DEF Keeps, SameItems
  <2>2. QED
    BY <1>3, <2>1 DEF Linked
<1>5. CASE Links
  <2>1. \E c \in 0..Count, e \in 0..Count, by \in Writers \cup {Supervisor} :
          \E batch : Run(batch, c, e) /\ chain' = Link(batch, by)
    BY <1>5 DEF Links
  <2>2. PICK batch \in Seq(Item), by \in Writers \cup {Supervisor} : chain' = Link(batch, by)
    BY <2>1 DEF Run
  <2>3. Len(chain') = Len(chain) + 1 /\ \A m \in 1..Len(chain) : chain'[m] = chain[m]
    BY <2>2, LinkedAre
  <2>4. n \in 1..Len(chain') /\ chain'[n] = chain[n]
    BY <1>1, <2>3
  <2>5. QED
    BY <1>3, <2>4 DEF Linked
<1>6. CASE Passes
  <2>1. /\ 1 \in 1..Len(chain) /\ Len(chain') = Len(chain) - 1
        /\ \A m \in 1..(Len(chain) - 1) : chain'[m] = chain[m + 1]
        /\ Len(chain[1].items) = 0
    BY <1>6, EmptySeq DEF Passes
  <2>2. n # 1
    BY <1>3, <2>1
  <2>3. n - 1 \in 1..(Len(chain) - 1) /\ (n - 1) + 1 = n
    BY <1>1, <2>2
  <2>4. n - 1 \in 1..Len(chain') /\ chain'[n - 1] = chain[n]
    BY <2>1, <2>3
  <2>5. \E i \in 1..Len(chain') : \E j \in 1..Len(chain'[i].items) : chain'[i].items[j] = x
    BY <1>3, <2>4
  <2>6. QED
    BY <2>5 DEF Linked
<1>7. CASE PublishesHead
  <2>1. /\ 1 \in 1..Len(chain) /\ chain[1].items # <<>>
        /\ chain' = [chain EXCEPT ![1].items = Tail(@)]
    BY <1>7 DEF PublishesHead
  <2>2. Head(chain[1].items) = chain[1].items[1]
    BY <2>1, HeadIs
  <2>3. /\ Len(chain') = Len(chain)
        /\ \A m \in 1..Len(chain) : m # 1 => chain'[m].items = chain[m].items
        /\ Len(chain'[1].items) = Len(chain[1].items) - 1
        /\ \A m \in 1..(Len(chain[1].items) - 1) : chain'[1].items[m] = chain[1].items[m + 1]
    BY <2>1, HeadTaken
  <2>4. CASE n # 1
    <3>1. n \in 1..Len(chain') /\ k \in 1..Len(chain'[n].items) /\ chain'[n].items[k] = x
      BY <1>3, <2>3, <2>4
    <3>2. QED
      BY <3>1 DEF Linked
  <2>5. CASE n = 1 /\ k = 1
    BY <1>3, <1>7, <2>2, <2>5
  <2>6. CASE n = 1 /\ k # 1
    <3>1. k \in 1..Len(chain[1].items) /\ Len(chain[1].items) \in Nat
      BY <1>1, <2>1, <2>6
    <3>2. k - 1 \in 1..(Len(chain[1].items) - 1) /\ (k - 1) + 1 = k
      BY <2>6, <3>1
    <3>3. k - 1 \in 1..Len(chain'[1].items) /\ chain'[1].items[k - 1] = x /\ 1 \in 1..Len(chain')
      BY <1>3, <2>1, <2>3, <2>6, <3>2
    <3>4. QED
      BY <3>3 DEF Linked
  <2>7. QED
    BY <2>4, <2>5, <2>6
<1>8. QED
  BY <1>5, <1>6, <1>7, <1>4

LEMMA OutStays ==
  ASSUME TInv, Count \in Nat, Keeps \/ Links \/ Passes \/ PublishesHead, NEW x, Out(x)
  PROVE  Out(x)'
<1>1. sent \in Seq(Item) /\ Len(sent) \in Nat
  BY DEF TInv, ChainT
<1>2. CASE ~PublishesHead
  <2>1. sent' = sent
    BY <1>2 DEF Keeps, Links, Passes
  <2>2. Linked(x) => Linked(x)'
    BY <1>2, LinkedStays
  <2>3. QED
    BY <2>1, <2>2 DEF Out
<1>3. CASE PublishesHead
  <2> DEFINE h == Head(chain[1].items)
  <2>1. sent' = Append(sent, h) /\ h \in Item
    BY <1>3, HeadIs DEF PublishesHead
  <2>2. Linked(x) => Linked(x)' \/ x = h
    BY LinkedStays
  <2> HIDE DEF h
  <2>3. /\ Len(sent') = Len(sent) + 1 /\ sent'[Len(sent) + 1] = h
        /\ \A m \in 1..Len(sent) : sent'[m] = sent[m]
    BY <1>1, <2>1, AppendProperties
  <2>4. Len(sent) + 1 \in 1..Len(sent') /\ \A m \in 1..Len(sent) : m \in 1..Len(sent')
    BY <1>1, <2>3
  <2>5. QED
    BY <2>2, <2>3, <2>4 DEF Out
<1>4. QED
  BY <1>2, <1>3

\* The lines of the journal stay, and lines are added behind them.
LEMMA LinesStay ==
  ASSUME Ruly, Steady, Steady', [Next]_vars
  PROVE  /\ Count \in Nat /\ Count' \in Nat /\ Count <= Count'
         /\ \A n \in 1..Count : LineItem(n)' = LineItem(n)
<1>1. DiskStep /\ OneFile
  BY NextDisk DEF Steady, Unbroken
<1>2. Count \in Nat
  BY CountParts DEF Steady
<1>3. /\ Count' \in Nat /\ \A n \in 1..Count : LineItem(n)' = LineItem(n)
      /\ Count' = Count \/ Count' = Count + 1
  BY <1>1, Grows DEF Steady
<1>4. QED
  BY <1>2, <1>3

\* What becomes consumed is linked by the same step, but for a seed's.
LEMMA NewlyLinked ==
  ASSUME Ruly, "odd" \notin Kinds, Undisturbed, Undisturbed', ChainStep, ~SeedResume, [Next]_vars,
         NEW n \in 1..Count', 2 * n <= consumed', ~(2 * n <= consumed)
  PROVE  n \in 1..Count /\ Linked(LineItem(n))'
<1>1. Count \in Nat /\ Count' \in Nat /\ \A m \in 1..Count : LineItem(m)' = LineItem(m)
  BY LinesStay DEF Undisturbed
<1>2. consumed \in Nat /\ consumed' \in Nat
  BY DEF Undisturbed, Steady, TInv, AdoptedT
<1>3. consumed' # consumed
  OBVIOUS
<1>4. Links
  BY <1>3 DEF ChainStep, Keeps, Passes, PublishesHead, Ends, SeedLatest
<1>5. PICK c \in 0..Count, e \in 0..Count, by \in Writers \cup {Supervisor} :
        /\ consumed = 2 * c /\ c <= e /\ consumed' = 2 * e
        /\ \E batch : Run(batch, c, e) /\ chain' = Link(batch, by)
  BY <1>4 DEF Links
<1>6. PICK batch : Run(batch, c, e) /\ chain' = Link(batch, by)
  BY <1>5
<1>7. n \in 1..Count /\ n - c \in 1..(e - c) /\ c + (n - c) = n
  BY <1>1, <1>5
<1>8. batch \in Seq(Item) /\ Len(batch) = e - c /\ batch[n - c] = LineItem(n)
  BY <1>6, <1>7 DEF Run
<1>9. Len(chain') = Len(chain) + 1 /\ chain'[Len(chain) + 1].items = batch /\ Len(chain) \in Nat
  BY <1>6, <1>8, LinkedAre, ChainParts DEF Undisturbed, Steady
<1>10. Len(chain) + 1 \in 1..Len(chain')
  BY <1>9
<1>11. LineItem(n)' = LineItem(n)
  BY <1>1, <1>7
<1>12. QED
  BY <1>7, <1>8, <1>9, <1>10, <1>11 DEF Linked

LEMMA NextAccounted ==
  ASSUME Ruly, ~MayInterrupt, "odd" \notin Kinds, Undisturbed, Undisturbed', Accounted, [Next]_vars
  PROVE  Accounted'
<1> SUFFICES ASSUME Streaming', NEW n \in 1..Count', 2 * n - 2 >= sup'.base, 2 * n <= consumed'
             PROVE  Out(LineItem(n))'
  BY DEF Accounted
<1>1. Streaming
  BY OverStays
<1>2. ChainStep /\ Count \in Nat /\ consumed \in Nat /\ consumed' \in Nat
  BY ChainMoves DEF Streaming
<1>3. Count' \in Nat /\ \A m \in 1..Count : LineItem(m)' = LineItem(m)
  BY LinesStay DEF Undisturbed
<1>4. \A m \in 1..Count : 2 * m - 2 >= sup.base /\ 2 * m <= consumed => Out(LineItem(m))
  BY <1>1 DEF Accounted
<1>5. ~Ends
  BY DEF Ends, Streaming
<1>6. PICK a \in 0..Count : consumed = 2 * a
  BY DEF Undisturbed, Steady, Placed
\* What was accounted for still is.
<1>7. ASSUME n \in 1..Count, Out(LineItem(n)) PROVE Out(LineItem(n))'
  <2>1. \A x : x = LineItem(n) => Out(x)'
    BY <1>2, <1>5, <1>7, OutStays DEF ChainStep, Undisturbed, Steady
  <2>2. \A x : x = LineItem(n)' => Out(x)'
    BY <1>3, <1>7, <2>1
  <2>3. QED
    BY <2>2 DEF Out
<1>8. ASSUME 2 * n <= consumed, sup'.base = sup.base PROVE Out(LineItem(n))'
  <2>1. n \in 1..Count
    BY <1>2, <1>3, <1>6, <1>8
  <2>2. QED
    BY <1>4, <1>7, <1>8, <2>1
<1>9. CASE UNCHANGED consumed /\ sup'.base = sup.base
  BY <1>8, <1>9
<1>10. CASE SeedResume
  <2>1. consumed' = EndOf(files[path]) /\ path # 0 /\ sup' = [sup EXCEPT !.pc = "tail", !.base = EndOf(files[path])]
    BY <1>10 DEF SeedResume, ResumePoint
  <2>2. sup'.base = EndOf(files[path])
    BY <2>1 DEF Undisturbed, Steady, TInv, FiberT, Fiber
  <2>3. 2 * n - 2 >= consumed'
    BY <2>1, <2>2
  <2>4. QED
    BY <1>2, <1>3, <2>3
<1>11. CASE SeedLatest
  <2>1. UNCHANGED consumed /\ \/ sup' = [sup EXCEPT !.pc = "announce"]
                              \/ sup' = Built
    BY <1>11 DEF SeedLatest
  <2>2. sup'.base = sup.base
    BY <2>1 DEF Built, Undisturbed, Steady, TInv, FiberT, Fiber
  <2>3. QED
    BY <1>9, <2>1, <2>2
<1>12. CASE ~SeedResume /\ ~SeedLatest
  <2>1. sup'.base = sup.base
    BY <1>2, <1>5, <1>12 DEF ChainStep, Keeps, Links, Passes, PublishesHead
  <2>2. CASE 2 * n <= consumed
    BY <1>8, <2>1, <2>2
  <2>3. CASE ~(2 * n <= consumed)
    BY <1>2, <1>12, <2>3, NewlyLinked DEF Out
  <2>4. QED
    BY <2>2, <2>3
<1>13. QED
  BY <1>10, <1>11, <1>12

------------------------------------------------------------------------------
(* What `latest` was read from.                                               *)

\* x is the last readable one of the first n lines, or None if there is none.
IsLatest(x, n) ==
  \/ x = None /\ \A m \in 1..n : ~Valid(LineItem(m))
  \/ \E m \in 1..n : /\ x = LineItem(m) /\ Valid(LineItem(m))
                     /\ \A k \in 1..n : k > m => ~Valid(LineItem(k))
LatestKnown ==
  IF sup.built THEN \E n \in 0..Count : 2 * n >= consumed /\ IsLatest(latest, n)
  ELSE latest = None

LEMMA NotYetBuilt ==
  ASSUME TInv, IInv, ~sup.built, [Next]_vars
  PROVE  SeedResume \/ SeedLatest \/ Construct \/ SeedFails \/ UNCHANGED <<sup, latest, consumed>>
<1> USE DEF disk, adopted, fibers, At, SupAt
<1>1. /\ sup.pc \in {"construct", "resume", "tail"} /\ closer = "open" /\ permit = NoOne
      /\ \A w \in Writers : wr[w].pc = "idle"
  BY DEF IInv, NotBuilt
<1>2. CASE UNCHANGED vars \/ OthersStep \/ BreachStep
  BY <1>2 DEF vars, OthersStep, OtherAppends, OtherTears, OtherCompletes,
       Others, BreachStep, Breach, Truncate, Replace, RemoveFile, Create
<1>3. CASE SupervisorStep
  BY <1>1, <1>3 DEF SupervisorStep, Look, Arm, Follow, ArmDirectory, Check, Await, Floor, Sample, Judge,
     ReadGap, PublishedGap, Reseed, Announce
<1>4. CASE PublishStep
  BY <1>4 DEF PublishStep, Publish
<1>5. ASSUME NEW w \in Writers,
             \/ \E kind \in Kinds : Append_(w, kind)
             \/ WriterStep(w) \/ WriteFails(w) \/ Interrupt(w)
      PROVE  UNCHANGED <<sup, latest, consumed>>
  BY <1>1, <1>5 DEF Append_, AppendRest, WriterStep, WriteFails, Interrupt, Enter, Stat, Write, WriteRest,
     Fstat, ScanGap, ScanFails, Answer
<1>6. CASE \E r \in Readers : \/ \E cursor \in Cursors : Subscribe(r, cursor)
                              \/ ReaderStep(r) \/ Leave(r)
  BY <1>6 DEF Subscribe, ReaderStep, ReplayStat, Replay, Take, Leave, SubscriberRest
<1>7. CASE Close \/ CloserStep \/ GiveUp
  BY <1>1, <1>7 DEF Close, CloserStep, Capture, EndStreams, GiveUp
<1>8. QED
  BY <1>2, <1>3, <1>4, <1>5, <1>6, <1>7 DEF Next

LEMMA LatestMoves ==
  ASSUME NEW c \in Nat, NEW e \in Nat, c <= e, NEW x
  PROVE  /\ NewestOf(x, c, e) => IsLatest(x, e)
         /\ \A n \in Nat : IsLatest(x, n) /\ c <= n /\ (\A k \in (c + 1)..e : ~Valid(LineItem(k))) =>
              \E m \in {n, e} : m >= e /\ IsLatest(x, m)
<1>1. ASSUME NewestOf(x, c, e) PROVE IsLatest(x, e)
  <2>1. PICK m \in (c + 1)..e : /\ x = LineItem(m) /\ Valid(LineItem(m))
                                /\ \A k \in (m + 1)..e : ~Valid(LineItem(k))
    BY <1>1 DEF NewestOf
  <2>2. m \in 1..e /\ \A k \in 1..e : k > m => k \in (m + 1)..e
    OBVIOUS
  <2>3. QED
    BY <2>1, <2>2 DEF IsLatest
<1>2. ASSUME NEW n \in Nat, IsLatest(x, n), c <= n, \A k \in (c + 1)..e : ~Valid(LineItem(k))
      PROVE  \E m \in {n, e} : m >= e /\ IsLatest(x, m)
  <2>1. CASE n >= e
    BY <1>2, <2>1
  <2>2. CASE n < e
    <3>1. \A k \in 1..e : k > n => ~Valid(LineItem(k))
      BY <1>2
    <3>2. CASE x = None /\ \A m \in 1..n : ~Valid(LineItem(m))
      <4>1. \A k \in 1..e : ~Valid(LineItem(k))
        BY <3>1, <3>2
      <4>2. IsLatest(x, e)
        BY <3>2, <4>1 DEF IsLatest
      <4>3. QED
        BY <4>2
    <3>3. CASE \E m \in 1..n : /\ x = LineItem(m) /\ Valid(LineItem(m))
                               /\ \A k \in 1..n : k > m => ~Valid(LineItem(k))
      <4>1. PICK m \in 1..n : /\ x = LineItem(m) /\ Valid(LineItem(m))
                              /\ \A k \in 1..n : k > m => ~Valid(LineItem(k))
        BY <3>3
      <4>2. m \in 1..e /\ \A k \in 1..e : k > m => ~Valid(LineItem(k))
        BY <2>2, <3>1, <4>1
      <4>3. IsLatest(x, e)
        BY <4>1, <4>2 DEF IsLatest
      <4>4. QED
        BY <4>3
    <3>4. QED
      BY <1>2, <3>2, <3>3 DEF IsLatest
  <2>3. QED
    BY <1>2, <2>1, <2>2
<1>3. QED
  BY <1>1, <1>2

\* Every line of the journal, read from its beginning.
LEMMA AllLines ==
  ASSUME TInv, Straight, path # 0
  PROVE  Run(AllItems(path), 0, Count)
<1>1. Count \in Nat /\ EndOf(files[path]) = 2 * Count
  BY CountParts
<1>2. 0 \in 0..Count /\ Count \in 0..Count /\ 0 \in Nat /\ EndOf(files[path]) \in Nat
  BY <1>1
<1>3. 0 = 2 * 0 /\ 0 <= Count
  BY <1>1
<1>4. \A gap : gap = Items(path, 0, EndOf(files[path])) => Run(gap, 0, Count)
  <2> DEFINE to == EndOf(files[path])
  <2>1. to \in Nat
    BY <1>2
  <2> HIDE DEF to
  <2>2. \A from \in Nat : \A gap : gap = Items(path, from, to) =>
          (from = 2 * 0 /\ to = 2 * Count => (0 <= Count => Run(gap, 0, Count)))
    BY <1>2, <2>1, GapIsRun
  <2>3. QED
    BY <1>1, <1>2, <1>3, <2>2 DEF to
<1>5. QED
  BY <1>4 DEF AllItems

LEMMA LatestOfAll ==
  ASSUME NEW n \in Nat, NEW batch, Run(batch, 0, n)
  PROVE  IsLatest(LastEnvelope(batch, None), n)
<1>1. 0 \in Nat /\ 0 <= n
  OBVIOUS
<1>2. \/ NewestOf(LastEnvelope(batch, None), 0, n)
      \/ LastEnvelope(batch, None) = None /\ \A k \in (0 + 1)..n : ~Valid(LineItem(k))
  BY <1>1, LatestOfRun
<1>3. CASE NewestOf(LastEnvelope(batch, None), 0, n)
  BY <1>1, <1>3, LatestMoves
<1>4. CASE LastEnvelope(batch, None) = None /\ \A k \in (0 + 1)..n : ~Valid(LineItem(k))
  BY <1>4 DEF IsLatest
<1>5. QED
  BY <1>2, <1>3, <1>4

LEMMA BuiltStays ==
  ASSUME TInv, IInv, sup.built, [Next]_vars
  PROVE  sup'.built
<1> USE DEF disk, adopted, fibers, SupAt, SupGoes
<1>1. sup \in Fiber /\ \A x : [sup EXCEPT !.pc = x].built = sup.built
  BY DEF TInv, FiberT, Fiber
<1>2. CASE UNCHANGED sup
  BY <1>2
<1>3. CASE SupervisorStep
  <2> USE DEF EngineRest, LookRest
  <2>1. \A s \in {NextCycle, Returned, Failed, Built} \cup
                 {IngestThen(after) : after \in {"loop", "follow", "await", "created"}} : s.built
    BY FiberSettles
  <2>2. NextCycle.built /\ Returned.built /\ Failed.built /\ Built.built
    BY <2>1
  <2>3. \A after \in {"loop", "follow", "await", "created"} : IngestThen(after).built
    BY <2>1
  <2>4. CASE Construct \/ SeedFails \/ SeedLatest
    BY <1>1, <2>2, <2>4 DEF Construct, SeedFails, SeedLatest
  <2>5. CASE SeedResume \/ Look \/ Floor \/ Reseed
    BY <1>1, <2>5 DEF SeedResume, Look, Floor, Reseed, Fiber
  <2>6. CASE Sample
    <3>1. CASE path = 0
      BY <2>2, <2>6, <3>1 DEF Sample
    <3>2. CASE path # 0
      BY <1>1, <2>6, <3>2 DEF Sample, Fiber
    <3>3. QED
      BY <3>1, <3>2
  <2>7. CASE Arm \/ Follow \/ ArmDirectory \/ Check \/ Await
    <3>1. \/ sup' = NextCycle
          \/ \E after \in {"loop", "follow", "await", "created"} : sup' = IngestThen(after)
          \/ sup' = [sup EXCEPT !.pc = "check"] \/ sup' = [sup EXCEPT !.pc = "await"]
      BY <2>7 DEF Arm, Armed, Follow, ArmDirectory, Check, Await
    <3>2. QED
      BY <1>1, <2>2, <2>3, <3>1
  <2>8. CASE Judge \/ ReadGap \/ PublishedGap \/ Announce
    BY <1>1, <2>2, <2>8 DEF Judge, ReadGap, PublishedGap, Announce
  <2>9. QED
    BY <1>3, <2>4, <2>5, <2>6, <2>7, <2>8 DEF SupervisorStep
<1>4. CASE CloserStep \/ GiveUp
  BY <1>1, <1>4 DEF CloserStep, Capture, EndStreams, GiveUp, Finalized
<1>5. CASE ~SupervisorStep /\ ~CloserStep /\ ~GiveUp
  <2>1. UNCHANGED sup
    BY <1>5 DEF Next, vars, OthersStep, OtherAppends, OtherTears, OtherCompletes, Others,
       BreachStep, Breach, Truncate, Replace, RemoveFile, Create, PublishStep, Publish,
       Append_, AppendRest, WriterStep, WriteFails, Interrupt, Enter, Stat, Write, WriteRest, Fstat,
       ScanGap, ConcludeRest, ScanFails, Answer, Subscribe, ReaderStep, ReplayStat, Replay, Take, Leave,
       SubscriberRest, Close
  <2>2. QED
    BY <1>2, <2>1
<1>6. QED
  BY <1>3, <1>4, <1>5

\* What a step reads of the file: an append or an ingest consumes the lines that
\* follow what is consumed, and `latest` is the last readable one of them.
Reads ==
  \/ UNCHANGED <<consumed, latest>> \/ SeedResume \/ SeedLatest
  \/ \E c \in 0..Count, e \in 0..Count :
       /\ consumed = 2 * c /\ c <= e /\ consumed' = 2 * e
       /\ \/ "odd" \in Kinds /\ UNCHANGED latest
          \/ NewestOf(latest', c, e)
          \/ latest' = latest /\ \A k \in (c + 1)..e : ~Valid(LineItem(k))

LEMMA NextReads ==
  ASSUME Ruly, Steady, [Next]_vars
  PROVE  Reads
<1> USE DEF disk, adopted, fibers, At, SupAt
<1>1. CASE UNCHANGED <<consumed, latest>>
  BY <1>1 DEF Reads
<1>2. CASE UNCHANGED vars \/ OthersStep \/ BreachStep \/ PublishStep
  <2>1. UNCHANGED <<consumed, latest>>
    BY <1>2 DEF vars, OthersStep, OtherAppends, OtherTears, OtherCompletes,
       Others, BreachStep, Breach, Truncate, Replace, RemoveFile, Create, PublishStep, Publish
  <2>2. QED
    BY <1>1, <2>1
<1>3. ASSUME NEW w \in Writers,
             \/ \E kind \in Kinds : Append_(w, kind)
             \/ WriterStep(w) \/ WriteFails(w) \/ Interrupt(w)
      PROVE  Reads
  <2>1. CASE Fstat(w) \/ ScanGap(w)
    <3>1. PICK c \in 0..Count, e \in 0..Count :
           /\ consumed = 2 * c /\ c < e
           /\ \/ UNCHANGED <<consumed, latest>>
              \/ consumed' = 2 * e /\ UNCHANGED latest /\ "odd" \in Kinds
              \/ consumed' = 2 * e /\ NewestOf(latest', c, e)
      BY <2>1, AppendConcludes DEF Steady, Unbroken
    <3>2. c <= e
      BY <3>1, CountParts DEF Steady
    <3>3. QED
      BY <1>1, <3>1, <3>2 DEF Reads
  <2>2. CASE ~(Fstat(w) \/ ScanGap(w))
    <3>1. UNCHANGED <<consumed, latest>>
      BY <1>3, <2>2 DEF Append_, AppendRest, WriterStep, WriteFails, Interrupt, Enter, Stat, Write,
         WriteRest, ScanFails, Answer
    <3>2. QED
      BY <1>1, <3>1
  <2>3. QED
    BY <2>1, <2>2
<1>4. CASE SupervisorStep
  <2> USE DEF EngineRest, LookRest
  <2>1. CASE SeedResume \/ SeedLatest
    BY <2>1 DEF Reads
  <2>2. CASE ReadGap
    <3>1. CASE path = 0
      BY <1>1, <2>2, <3>1 DEF ReadGap
    <3>2. CASE path # 0
      BY <2>2, <3>2, GapIngested DEF Steady, Reads
    <3>3. QED
      BY <3>1, <3>2
  <2>3. ~Reseed
    BY DEF Reseed, Steady, Unbroken, NoBreachSeen, Straight
  <2>4. CASE ~SeedResume /\ ~SeedLatest /\ ~ReadGap
    <3>1. UNCHANGED <<consumed, latest>>
      BY <1>4, <2>3, <2>4 DEF SupervisorStep, Construct, SeedFails, Look, Arm, Follow, ArmDirectory, Check,
         Await, Floor, Sample, Judge, PublishedGap, Announce
    <3>2. QED
      BY <1>1, <3>1
  <2>5. QED
    BY <2>1, <2>2, <2>4
<1>5. CASE \E r \in Readers : \/ \E cursor \in Cursors : Subscribe(r, cursor)
                              \/ ReaderStep(r) \/ Leave(r)
  <2>1. UNCHANGED <<consumed, latest>>
    BY <1>5 DEF Subscribe, ReaderStep, ReplayStat, Replay, Take, Leave, SubscriberRest
  <2>2. QED
    BY <1>1, <2>1
<1>6. CASE Close \/ CloserStep \/ GiveUp
  <2>1. UNCHANGED <<consumed, latest>>
    BY <1>6 DEF Close, CloserStep, Capture, EndStreams, GiveUp, Finalized
  <2>2. QED
    BY <1>1, <2>1
<1>7. QED
  BY <1>2, <1>3, <1>4, <1>5, <1>6 DEF Next

LEMMA NextLatestKnown ==
  ASSUME Ruly, "odd" \notin Kinds, Steady, Steady', LatestKnown, [Next]_vars
  PROVE  LatestKnown'
<1>1. Reads /\ consumed \in Nat /\ consumed' \in Nat
  BY NextReads DEF Steady, TInv, AdoptedT
<1>2. Count \in Nat /\ Count' \in Nat /\ \A n \in 1..Count : LineItem(n)' = LineItem(n)
  BY LinesStay
<1>3. Count <= Count'
  BY LinesStay
<1>4. PICK a \in 0..Count : consumed = 2 * a
  BY DEF Steady, Placed
\* A prefix of the lines is read as before.
<1>5. ASSUME NEW n \in 0..Count, NEW x, IsLatest(x, n), latest' = x, 2 * n >= consumed'
      PROVE  LatestKnown' \/ ~sup'.built
  <2>1. \A m \in 1..n : m \in 1..Count
    BY <1>1, <1>2
  <2>2. \A m \in 1..n : LineItem(m)' = LineItem(m)
    BY <1>2, <2>1
  <2>3. IsLatest(x, n)'
    BY <1>5, <2>2 DEF IsLatest, Valid
  <2>4. IsLatest(latest, n)'
    BY <1>5, <2>3 DEF IsLatest
  <2>5. n \in 0..Count'
    BY <1>1, <1>2, <1>3
  <2>6. QED
    BY <1>5, <2>4, <2>5 DEF LatestKnown
<1>6. ASSUME ~sup'.built, latest' = None PROVE LatestKnown'
  BY <1>6 DEF LatestKnown
<1>7. CASE SeedLatest
  <2>1. latest' = LastEnvelope(AllItems(path), None) /\ UNCHANGED consumed /\ path # 0
    BY <1>7 DEF SeedLatest
  <2>2. Run(AllItems(path), 0, Count)
    BY <2>1, AllLines DEF Steady
  <2>3. IsLatest(LastEnvelope(AllItems(path), None), Count)
    BY <1>2, <2>2, LatestOfAll
  <2>4. Count \in 0..Count /\ 2 * Count >= consumed'
    BY <1>1, <1>2, <1>4, <2>1
  <2>5. sup'.built
    <3>1. ~sup.built
      BY <1>7 DEF SeedLatest, SupAt, Steady, Unbroken, Straight, NoBreachSeen, Seeding
    <3>2. sup' = Built
      BY <1>7, <3>1 DEF SeedLatest
    <3>3. QED
      BY <3>2, FiberSettles DEF Steady
  <2>6. QED
    BY <1>5, <2>1, <2>3, <2>4, <2>5
<1>8. CASE ~sup.built /\ ~SeedLatest
  <2>1. latest = None
    BY <1>8 DEF LatestKnown
  <2>2. UNCHANGED latest
    BY <1>8, NotYetBuilt DEF Steady, SeedResume, Construct, SeedFails, EngineRest, adopted
  <2>3. CASE SeedResume
    <3>1. sup' = [sup EXCEPT !.pc = "tail", !.base = EndOf(files[path])]
      BY <2>3 DEF SeedResume, ResumePoint
    <3>2. sup'.built = sup.built
      BY <3>1 DEF Steady, TInv, FiberT, Fiber
    <3>3. QED
      BY <1>6, <1>8, <2>1, <2>2, <3>2
  <2>4. CASE Construct \/ SeedFails
    <3>1. UNCHANGED consumed
      BY <2>4 DEF Construct, SeedFails, adopted
    <3>2. CASE path # 0
      <4>1. sup' = [sup EXCEPT !.pc = "resume"]
        BY <2>4, <3>2 DEF Construct, SeedFails
      <4>2. sup'.built = sup.built
        BY <4>1 DEF Steady, TInv, FiberT, Fiber
      <4>3. QED
        BY <1>6, <1>8, <2>1, <2>2, <4>2
    <3>3. CASE path = 0
      <4>1. Count = 0
        BY <3>3 DEF Count
      <4>2. IsLatest(None, 0) /\ 0 \in 0..Count /\ 2 * 0 >= consumed'
        <5>1. consumed' = 0
          BY <1>4, <3>1, <4>1
        <5>2. \A m \in 1..0 : FALSE
          OBVIOUS
        <5>3. QED
          BY <1>1, <1>2, <5>1, <5>2 DEF IsLatest
      <4>3. QED
        BY <1>5, <1>6, <2>1, <2>2, <4>2
    <3>4. QED
      BY <3>2, <3>3
  <2>5. CASE UNCHANGED <<sup, latest, consumed>>
    BY <1>6, <1>8, <2>1, <2>5
  <2>6. QED
    BY <1>8, <2>3, <2>4, <2>5, NotYetBuilt DEF Steady
<1>9. CASE sup.built /\ ~SeedLatest
  <2>1. PICK n \in 0..Count : 2 * n >= consumed /\ IsLatest(latest, n)
    BY <1>9 DEF LatestKnown
  <2>2. sup'.built
    BY <1>9, BuiltStays DEF Steady
  <2>3. CASE UNCHANGED <<consumed, latest>>
    BY <1>5, <2>1, <2>2, <2>3
  <2>4. ASSUME NEW c \in 0..Count, NEW e \in 0..Count, consumed = 2 * c, c <= e, consumed' = 2 * e,
               \/ NewestOf(latest', c, e)
               \/ latest' = latest /\ \A k \in (c + 1)..e : ~Valid(LineItem(k))
        PROVE  LatestKnown'
    <3>1. c \in Nat /\ e \in Nat /\ n \in Nat /\ c <= n
      BY <1>1, <2>1, <2>4
    <3>2. CASE NewestOf(latest', c, e)
      <4>1. IsLatest(latest', e)
        BY <2>4, <3>1, <3>2, LatestMoves
      <4>2. 2 * e >= consumed'
        BY <2>4, <3>1
      <4>3. QED
        BY <1>5, <2>2, <4>1, <4>2
    <3>3. CASE latest' = latest /\ \A k \in (c + 1)..e : ~Valid(LineItem(k))
      <4>1. PICK m \in {n, e} : m >= e /\ IsLatest(latest, m)
        BY <2>1, <2>4, <3>1, <3>3, LatestMoves
      <4>2. m \in 0..Count /\ 2 * m >= consumed'
        BY <1>1, <2>4, <3>1, <4>1
      <4>3. QED
        BY <1>5, <2>2, <3>3, <4>1, <4>2
    <3>4. QED
      BY <2>4, <3>2, <3>3
  <2>5. ~SeedResume
    BY <1>9 DEF SeedResume, SupAt, Steady, Unbroken, Straight, NoBreachSeen, Seeding
  <2>6. QED
    BY <1>1, <1>9, <2>3, <2>4, <2>5 DEF Reads
<1>10. QED
  BY <1>7, <1>8, <1>9

LEMMA SkippedNothing == Steady /\ Accounted => NothingSkipped
<1> SUFFICES ASSUME Steady, Accounted, Quiet, Streaming PROVE ConsumedItems(sup.base) \subseteq Range(sent) \cup InFlight
  BY DEF NothingSkipped, Streaming, GaveUp
<1>1. path # 0
  BY DEF Quiet
<1>2. Run(AllItems(path), 0, Count) /\ Count \in Nat
  BY <1>1, AllLines, CountParts DEF Steady
<1>3. /\ \A n \in 1..Len(chain) : chain[n].items \in Seq(Item)
      /\ DOMAIN chain = 1..Len(chain) /\ sent \in Seq(Item)
  BY ChainParts DEF Steady, TInv, ChainT
<1>4. ASSUME NEW x, Out(x) PROVE x \in Range(sent) \cup InFlight
  <2>1. CASE \E m \in 1..Len(sent) : sent[m] = x
    BY <1>3, <2>1 DEF Range
  <2>2. ASSUME NEW n \in 1..Len(chain), NEW k \in 1..Len(chain[n].items), chain[n].items[k] = x
        PROVE  x \in InFlight
    <3>1. k \in DOMAIN chain[n].items
      BY <1>3
    <3>2. x \in Range(chain[n].items)
      BY <2>2, <3>1 DEF Range
    <3>3. QED
      BY <1>3, <3>2 DEF InFlight
  <2>3. QED
    BY <1>4, <2>1, <2>2 DEF Out, Linked
<1>5. ASSUME NEW x \in ConsumedItems(sup.base) PROVE Out(x)
  <2>1. x \in Range(AllItems(path)) /\ x.start >= sup.base /\ x.end <= consumed
    BY <1>5 DEF ConsumedItems
  <2>2. PICK n \in 1..Len(AllItems(path)) : AllItems(path)[n] = x
    BY <1>2, <2>1 DEF Run, Range
  <2>3. n \in 1..Count /\ 0 + n = n /\ x = LineItem(0 + n)
    BY <1>2, <2>2 DEF Run
  <2>4. x = LineItem(n)
    BY <2>3
  <2>5. x.start = 2 * n - 2 /\ x.end = 2 * n
    BY <2>4, LineItemIs
  <2>6. QED
    BY <2>1, <2>3, <2>4, <2>5 DEF Accounted
<1>6. QED
  BY <1>4, <1>5

LEMMA LatestFollows == Steady /\ LatestKnown => LatestIsTail
<1> SUFFICES ASSUME Steady, LatestKnown, Quiet
             PROVE  \E n \in 0..Len(files[path].lines) :
                      /\ latest = LastEnvelope(SubSeq(AllItems(path), 1, n), None)
                      /\ ConsumedItems(0) \subseteq Range(SubSeq(AllItems(path), 1, n))
  BY DEF LatestIsTail
<1>1. path # 0 /\ sup.built
  BY DEF Quiet
<1>2. Run(AllItems(path), 0, Count) /\ Count \in Nat /\ Count = Len(files[path].lines)
  BY <1>1, AllLines, CountParts DEF Steady
<1>3. PICK n \in 0..Count : 2 * n >= consumed /\ IsLatest(latest, n)
  BY <1>1 DEF LatestKnown
<1> DEFINE all == AllItems(path)
           seen == SubSeq(all, 1, n)
<1>4. all \in Seq(Item) /\ Len(all) = Count /\ \A m \in 1..Count : all[m] = LineItem(m)
  <2>1. \A m \in 1..Count : 0 + m = m
    BY <1>2
  <2>2. QED
    BY <1>2, <2>1 DEF Run
<1> HIDE DEF all
<1>5. Run(seen, 0, n)
  <2>1. n \in Nat /\ n <= Count /\ 1 \in Int /\ n \in Int
    BY <1>2
  <2>2. \A i \in 1..n : all[i] \in Item
    BY <1>4, <2>1
  <2>3. seen \in Seq(Item) /\ Len(seen) = n /\ \A i \in 1..n : seen[i] = all[i]
    <3>1. /\ SubSeq(all, 1, n) \in Seq(Item)
          /\ Len(SubSeq(all, 1, n)) = IF 1 <= n THEN n - 1 + 1 ELSE 0
          /\ \A i \in 1..(n - 1 + 1) : SubSeq(all, 1, n)[i] = all[1 + i - 1]
      BY <2>1, <2>2, SubSeqProperties
    <3>2. n - 1 + 1 = n /\ \A i \in 1..n : 1 + i - 1 = i
      BY <2>1
    <3>3. 1 <= n \/ n = 0
      BY <2>1
    <3>4. Len(SubSeq(all, 1, n)) = n
      BY <3>1, <3>2, <3>3
    <3>5. QED
      BY <3>1, <3>2, <3>4
  <2>4. \A i \in 1..n : i \in 1..Count /\ 0 + i = i
    BY <1>2, <2>1
  <2> HIDE DEF seen
  <2>5. n - 0 = n
    BY <2>1
  <2>6. QED
    BY <1>4, <2>3, <2>4, <2>5 DEF Run
<1>6. IsLatest(LastEnvelope(seen, None), n)
  BY <1>2, <1>5, LatestOfAll
<1> HIDE DEF seen
<1>7. latest = LastEnvelope(seen, None)
  <2>1. \A m \in 1..n : LineItem(m) # None
    <3>1. \A m \in 1..n : m \in 1..Count
      BY <1>2
    <3>2. \A m \in 1..Count : LineItem(m) \in Item
      BY CountParts DEF Steady
    <3>3. None \notin Item
      BY DEF None, Item, ItemKinds, LineKinds
    <3>4. QED
      BY <3>1, <3>2, <3>3
  <2>2. ASSUME NEW x, NEW y, IsLatest(x, n), IsLatest(y, n) PROVE x = y
    <3>1. CASE x = None /\ \A m \in 1..n : ~Valid(LineItem(m))
      BY <2>2, <3>1 DEF IsLatest
    <3>2. CASE \E m \in 1..n : /\ x = LineItem(m) /\ Valid(LineItem(m))
                               /\ \A k \in 1..n : k > m => ~Valid(LineItem(k))
      <4>1. PICK m \in 1..n : /\ x = LineItem(m) /\ Valid(LineItem(m))
                              /\ \A k \in 1..n : k > m => ~Valid(LineItem(k))
        BY <3>2
      <4>2. PICK l \in 1..n : /\ y = LineItem(l) /\ Valid(LineItem(l))
                              /\ \A k \in 1..n : k > l => ~Valid(LineItem(k))
        BY <2>2, <4>1 DEF IsLatest
      <4>3. ~(l > m) /\ ~(m > l)
        BY <4>1, <4>2
      <4>4. l = m
        BY <4>3
      <4>5. QED
        BY <4>1, <4>2, <4>4
    <3>3. QED
      BY <2>2, <3>1, <3>2 DEF IsLatest
  <2>3. QED
    BY <1>3, <1>6, <2>2
<1>8. ASSUME NEW x \in ConsumedItems(0) PROVE x \in Range(seen)
  <2>1. x \in Range(all) /\ x.end <= consumed
    BY <1>8 DEF ConsumedItems, all
  <2>2. PICK m \in 1..Count : all[m] = x
    BY <1>4, <2>1 DEF Range
  <2>3. x = LineItem(m) /\ x.end = 2 * m
    BY <1>4, <2>2, LineItemIs
  <2>4. m <= n
    <3>1. consumed \in Nat
      BY DEF Steady, TInv, AdoptedT
    <3>2. QED
      BY <1>2, <1>3, <2>1, <2>3, <3>1
  <2>5. m \in 1..n /\ 0 + m = m /\ n - 0 = n
    BY <1>2, <2>4
  <2>6. seen \in Seq(Item) /\ Len(seen) = n /\ seen[m] = x
    BY <1>5, <2>3, <2>5 DEF Run
  <2>7. QED
    BY <2>5, <2>6 DEF Range
<1>9. QED
  BY <1>2, <1>7, <1>8 DEF seen, all

\* `latest` is the last valid envelope of what has been consumed, or of somewhat
\* more after a seed: neither another writer's line nor an interrupted append
\* makes it fall behind (Journal.ts:43-49, engine.ts:483-517).
THEOREM LatestIsNewest ==
  ASSUME Ruly, "odd" \notin Kinds
  PROVE  Spec => []LatestIsTail
<1>1. Init => LatestKnown
  BY DEF Init, LatestKnown
<1>2. QED
  BY <1>1, SteadyHolds, NextLatestKnown, LatestFollows, PTL DEF Spec

\* And the stream misses none of it: what counts as consumed has been published,
\* or is linked and will be (README.md:145, engine.ts:483-517, 635-646).
THEOREM MissesNothing ==
  ASSUME Ruly, ~MayInterrupt, "odd" \notin Kinds
  PROVE  Spec => []NothingMissing
<1>1. Init => Accounted
  <2> SUFFICES ASSUME Init, NEW n \in 1..Count, 2 * n <= consumed PROVE FALSE
    BY DEF Accounted
  <2>1. consumed = 0 /\ Count \in Nat
    BY InitUndisturbed, CountParts DEF Init, Undisturbed, Steady
  <2>2. QED
    BY <2>1
<1>2. Undisturbed => Steady
  BY DEF Undisturbed
<1>3. NothingSkipped /\ LatestIsTail => NothingMissing
  BY DEF NothingMissing
<1>4. QED
  BY <1>1, <1>2, <1>3, UndisturbedHolds, NextAccounted, SkippedNothing, LatestIsNewest, PTL DEF Spec

------------------------------------------------------------------------------
(* What a subscriber has been given, and what waits for it in the hub.        *)

Ascending(items) == \A m, n \in 1..Len(items) : m < n => Before(items[m], items[n])

QueueFits(s) ==
  /\ \A k \in 1..Len(s.queue) :
       /\ s.queue[k] # Resync /\ (closer # "ended" => s.queue[k] # End)
       /\ s.queue[k] \in Item => Ahead(s.queue[k])
  /\ \A j, k \in 1..Len(s.queue) :
       j < k /\ s.queue[j] \in Item /\ s.queue[k] \in Item => Before(s.queue[j], s.queue[k])
\* What comes from the hub follows what is replayed, and what has come from it
\* is followed by what waits there.
GotFits(s) ==
  /\ s.pc \in {"off", "stat", "replay"} => s.got = <<>>
  /\ s.pc \in {"stat", "replay"} => s.cursor \in Nat /\ s.from = s.cursor /\ s.through = s.cursor
  /\ Ascending(s.got)
  /\ s.pc = "live" =>
       \A m \in 1..Len(s.got) :
         \/ s.got[m].end <= s.through
         \/ /\ Ahead(s.got[m])
            /\ \A k \in 1..Len(s.queue) : s.queue[k] \in Item => Before(s.got[m], s.queue[k])
Fits(s) == QueueFits(s) /\ GotFits(s)

ReadInOrder == ~GaveUp => \A r \in Readers : Fits(sub[r])

LEMMA EndIsNoItem == End \notin Item /\ Resync \notin Item /\ End # Resync
BY DEF End, Resync, Item, ItemKinds, LineKinds

LEMMA Subscribers ==
  ASSUME TInv, NEW r \in Readers
  PROVE  /\ sub[r].queue \in Seq(Message) /\ sub[r].got \in Seq(Item)
         /\ Len(sub[r].queue) \in Nat /\ Len(sub[r].got) \in Nat
         /\ sub[r].pc # "off" => sub[r] \in Subscribed
<1>1. sub[r] \in Subscribed \cup {NotSubscribed}
  BY DEF TInv, ReaderT
<1>2. <<>> \in Seq(Message) /\ <<>> \in Seq(Item)
  BY EmptySeq
<1>3. CASE sub[r] = NotSubscribed
  BY <1>2, <1>3 DEF NotSubscribed
<1>4. CASE sub[r] \in Subscribed
  BY <1>4 DEF Subscribed
<1>5. QED
  BY <1>1, <1>3, <1>4

LEMMA FitsNext ==
  ASSUME NEW r \in Readers, \A s : s = sub'[r] => Fits(s)'
  PROVE  Fits(sub[r])'
BY DEF Fits, QueueFits, GotFits, Ahead

LEMMA FitsStays ==
  ASSUME NEW s, s.queue \in Seq(Message), s.got \in Seq(Item), Fits(s),
         \A x \in Item : Ahead(x) => Ahead(x)', closer = "ended" => closer' = "ended"
  PROVE  Fits(s)'
<1>1. \A m \in 1..Len(s.got) : s.got[m] \in Item
  OBVIOUS
<1>2. QueueFits(s)'
  BY DEF Fits, QueueFits
<1>3. GotFits(s)'
  BY <1>1 DEF Fits, GotFits
<1>4. QED
  BY <1>2, <1>3 DEF Fits

\* A message more in the hub.
LEMMA FitsMore ==
  ASSUME NEW s \in Subscribed, NEW x \in Message, x # Resync, Fits(s),
         \A y \in Item : Ahead(y) => Ahead(y)', closer = "ended" => closer' = "ended",
         x \in Item => Ahead(x)' /\ \A y : Ahead(y) => Before(y, x),
         x = End => closer' = "ended"
  PROVE  \A t : t = [s EXCEPT !.queue = Append(@, x)] => Fits(t)'
<1> SUFFICES ASSUME NEW t, t = [s EXCEPT !.queue = Append(@, x)] PROVE Fits(t)'
  OBVIOUS
<1>1. /\ s.queue \in Seq(Message) /\ s.got \in Seq(Item) /\ Len(s.queue) \in Nat
      /\ t.queue = Append(s.queue, x) /\ t.got = s.got /\ t.pc = s.pc /\ t.through = s.through
      /\ t.cursor = s.cursor /\ t.from = s.from
  BY DEF Subscribed
<1> DEFINE N == Len(s.queue)
<1>2. Len(t.queue) = N + 1 /\ t.queue[N + 1] = x /\ \A k \in 1..N : t.queue[k] = s.queue[k]
  BY <1>1, AppendProperties
<1>3. Fits(s)'
  BY <1>1, FitsStays
<1>4. \A k \in 1..Len(t.queue) : k \in 1..N \/ k = N + 1
  <2>1. N \in Nat
    BY <1>1
  <2> HIDE DEF N
  <2>2. QED
    BY <1>2, <2>1
<1>5. \A k \in 1..N : s.queue[k] \in Item => Before(s.queue[k], x) \/ x \notin Item
  BY DEF Fits, QueueFits
<1>6. ASSUME NEW k \in 1..Len(t.queue)
      PROVE  /\ t.queue[k] # Resync /\ (closer' # "ended" => t.queue[k] # End)
             /\ t.queue[k] \in Item => Ahead(t.queue[k])'
  <2>1. CASE k \in 1..N
    <3>1. /\ s.queue[k] # Resync /\ (closer' # "ended" => s.queue[k] # End)
          /\ s.queue[k] \in Item => \A y : y = s.queue[k] => Ahead(y)'
      BY <2>1 DEF Fits, QueueFits
    <3>2. \A y : y = t.queue[k] => (y \in Item => Ahead(y)')
      BY <1>2, <2>1, <3>1
    <3>3. QED
      BY <1>2, <2>1, <3>1, <3>2
  <2>2. CASE k = N + 1
    <3>1. \A y : y = x /\ x \in Item => Ahead(y)'
      OBVIOUS
    <3>2. \A y : y = t.queue[k] /\ y \in Item => Ahead(y)'
      BY <1>2, <2>2, <3>1
    <3>3. QED
      BY <1>2, <2>2, <3>2
  <2>3. QED
    BY <1>4, <2>1, <2>2
<1>7. ASSUME NEW j \in 1..Len(t.queue), NEW k \in 1..Len(t.queue), j < k,
             t.queue[j] \in Item, t.queue[k] \in Item
      PROVE  Before(t.queue[j], t.queue[k])
  <2>1. j \in 1..N
    <3>1. N \in Nat /\ k <= N + 1
      BY <1>1, <1>4
    <3> HIDE DEF N
    <3>2. QED
      BY <1>4, <1>7, <3>1
  <2>2. CASE k \in 1..N
    BY <1>2, <1>7, <2>1, <2>2 DEF Fits, QueueFits
  <2>3. CASE k = N + 1
    BY <1>2, <1>5, <1>7, <2>1, <2>3
  <2>4. QED
    BY <1>4, <2>2, <2>3
<1>8. QueueFits(t)'
  BY <1>6, <1>7 DEF QueueFits
<1>9. ASSUME s.pc = "live", NEW m \in 1..Len(t.got)
      PROVE  \/ t.got[m].end <= t.through
             \/ /\ \A y : y = t.got[m] => Ahead(y)'
                /\ \A k \in 1..Len(t.queue) : t.queue[k] \in Item => Before(t.got[m], t.queue[k])
  <2>1. CASE s.got[m].end <= s.through
    BY <1>1, <2>1
  <2>2. CASE /\ Ahead(s.got[m])
             /\ \A k \in 1..N : s.queue[k] \in Item => Before(s.got[m], s.queue[k])
    <3>1. s.got[m] \in Item
      BY <1>1, <1>9
    <3>2. \A y : y = s.got[m] => Ahead(y)'
      BY <2>2, <3>1
    <3>3. x \in Item => Before(s.got[m], x)
      BY <2>2
    <3>4. ASSUME NEW k \in 1..Len(t.queue), t.queue[k] \in Item PROVE Before(t.got[m], t.queue[k])
      BY <1>1, <1>2, <1>4, <2>2, <3>3, <3>4
    <3>5. QED
      BY <1>1, <3>2, <3>4
  <2>3. QED
    BY <1>1, <1>9, <2>1, <2>2 DEF Fits, GotFits
<1>10. GotFits(t)'
  <2>1. /\ (t.pc \in {"off", "stat", "replay"} => t.got = <<>>) /\ Ascending(t.got)
        /\ t.pc \in {"stat", "replay"} => t.cursor \in Nat /\ t.from = t.cursor /\ t.through = t.cursor
    BY <1>1 DEF Fits, GotFits
  <2>2. Ascending(t.got)'
    BY <2>1 DEF Ascending
  <2>3. ASSUME t.pc = "live", NEW m \in 1..Len(t.got)
        PROVE  \/ t.got[m].end <= t.through
               \/ /\ Ahead(t.got[m])'
                  /\ \A k \in 1..Len(t.queue) : t.queue[k] \in Item => Before(t.got[m], t.queue[k])
    <3>1. (\A y : y = t.got[m] => Ahead(y)') => Ahead(t.got[m])'
      OBVIOUS
    <3>2. QED
      BY <1>1, <1>9, <2>3, <3>1
  <2>4. QED
    BY <2>1, <2>2, <2>3 DEF GotFits
<1>11. QED
  BY <1>8, <1>10 DEF Fits

ReaderMoves(r) == (\E cursor \in Cursors : Subscribe(r, cursor)) \/ ReaderStep(r) \/ Leave(r)

LEMMA NextMoves ==
  ASSUME Ruly, ~MayInterrupt, Undisturbed, Undisturbed', ~GaveUp', [Next]_vars
  PROVE  \/ \E r \in Readers : ReaderMoves(r)
         \/ PublishesHead \/ Ends
         \/ UNCHANGED sub /\ (Keeps \/ Links \/ Passes)
<1>1. ChainStep
  BY ChainMoves
<1>2. CASE PublishStep
  BY <1>2, HeadStep DEF Undisturbed, Steady
<1>3. CASE EndStreams
  BY <1>3, EndStep DEF Undisturbed, Steady
<1>4. ~Announce
  BY DEF Announce, SupAt, Undisturbed, Steady, Unbroken, NoBreachSeen, Straight
<1>5. CASE ~PublishStep /\ ~EndStreams /\ ~(\E r \in Readers : ReaderMoves(r))
  <2>1. UNCHANGED sub
    BY <1>4, <1>5 DEF Next, vars, fibers, disk, adopted, OthersStep, OtherAppends, OtherTears, OtherCompletes,
       Others, BreachStep, Breach, Truncate, Replace, RemoveFile, Create, SupervisorStep, Construct, SeedFails,
       SeedResume, SeedLatest, Look, Arm, Follow, ArmDirectory, Check, Await, Floor, Sample, Judge,
       ReadGap, PublishedGap, Reseed, EngineRest, LookRest,
       Append_, AppendRest, WriterStep, WriteFails, Interrupt, Enter, Stat, Write, WriteRest, Fstat,
       ScanGap, ConcludeRest, ScanFails, Answer, Close, CloserStep, Capture, GiveUp, ReaderMoves
  <2>2. QED
    BY <1>1, <2>1 DEF ChainStep
<1>6. QED
  BY <1>2, <1>3, <1>5

\* The lines of a replay, each at its place in the file.
LEMMA ReplayPlaces ==
  ASSUME TInv, Straight, path # 0, NEW from \in Nat, NEW to \in Nat
  PROVE  \E a \in Nat :
           /\ Items(path, from, to) \in Seq(Item)
           /\ \A n \in 1..Len(Items(path, from, to)) :
                /\ Items(path, from, to)[n].end = 2 * (a + n)
                /\ Items(path, from, to)[n].start =
                     IF 2 * (a + n) - 2 < from THEN from ELSE 2 * (a + n) - 2
<1>1. Skipped(from) \in Nat
  <2>1. Count \in Nat
    BY CountParts
  <2>2. Skipped(from) \in 0..Count
    BY StraightItems
  <2>3. QED
    BY <2>1, <2>2
<1>2. WITNESS Skipped(from) \in Nat
<1>3. QED
  BY StraightItems

LEMMA ReplayAscends ==
  ASSUME TInv, Straight, path # 0, NEW from \in Nat, NEW to \in Nat, NEW items, items = Items(path, from, to)
  PROVE  /\ items \in Seq(Item) /\ Ascending(items)
         /\ items # <<>> => \A m \in 1..Len(items) : items[m].end <= Last(items).end
<1>1. PICK a \in Nat :
        /\ items \in Seq(Item)
        /\ \A n \in 1..Len(items) :
             /\ items[n].end = 2 * (a + n)
             /\ items[n].start = IF 2 * (a + n) - 2 < from THEN from ELSE 2 * (a + n) - 2
  BY ZenonT(30), ReplayPlaces
<1>2. Len(items) \in Nat /\ a \in Nat
  BY <1>1
<1>3. ASSUME NEW m \in 1..Len(items), NEW n \in 1..Len(items), m < n PROVE Before(items[m], items[n])
  <2>1. items[m].end = 2 * (a + m) /\ 2 * (a + m) <= 2 * (a + n) - 2
    BY <1>1, <1>2, <1>3
  <2>2. items[n].start >= 2 * (a + n) - 2 /\ items[n].start \in Int
    BY SMTT(30), <1>1, <1>2
  <2>3. QED
    BY <1>2, <2>1, <2>2 DEF Before
<1>4. ASSUME items # <<>>, NEW m \in 1..Len(items) PROVE items[m].end <= Last(items).end
  <2>1. Len(items) \in 1..Len(items) /\ Last(items) = items[Len(items)]
    BY <1>1, <1>2, <1>4 DEF Last
  <2>2. Last(items).end = 2 * (a + Len(items)) /\ items[m].end = 2 * (a + m)
    BY <1>1, <2>1
  <2>3. QED
    BY <1>2, <2>2
<1>5. QED
  BY <1>1, <1>3, <1>4 DEF Ascending

LEMMA FitsLeaving ==
  ASSUME NEW s, s.queue = <<>>, Ascending(s.got), s.pc \notin {"off", "stat", "replay", "live"}
  PROVE  Fits(s)
<1>1. Len(s.queue) = 0
  BY EmptySeq
<1>2. \A k \in 1..Len(s.queue) : FALSE
  BY <1>1
<1>3. QED
  BY <1>2 DEF Fits, QueueFits, GotFits

LEMMA NothingAscends == Ascending(<<>>)
<1>1. \A m \in 1..Len(<<>>) : FALSE
  BY EmptySeq
<1>2. QED
  BY <1>1 DEF Ascending

\* What is taken follows what has been given, and is followed by what waits.
LEMMA ReceivedFits ==
  ASSUME NEW r \in Readers, sub[r] \in Subscribed, sub[r].pc = "live", 1 \in 1..Len(sub[r].queue),
         Fits(sub[r]), sub[r].queue[1] \in Item
  PROVE  /\ Ascending(Received(r, sub[r].queue[1]))
         /\ \A t : t = [[sub[r] EXCEPT !.got = Received(r, sub[r].queue[1])] EXCEPT !.queue = Tail(@)] => Fits(t)
<1> DEFINE G == sub[r].got
           Q == sub[r].queue
           M == Len(G)
           N == Len(Q)
           got == Received(r, Q[1])
<1>1. /\ G \in Seq(Item) /\ Q \in Seq(Message) /\ M \in Nat /\ N \in Nat
      /\ sub[r].through \in Nat /\ Q # <<>>
  <2>1. N # 0 /\ G \in Seq(Item) /\ Q \in Seq(Message) /\ sub[r].through \in Nat
    BY DEF Subscribed
  <2>2. Q # <<>>
    BY <2>1, EmptySeq
  <2>3. QED
    BY <2>1, <2>2
<1>2. /\ Tail(Q) \in Seq(Message) /\ Len(Tail(Q)) = N - 1
      /\ \A k \in 1..(N - 1) : Tail(Q)[k] = Q[k + 1]
  BY <1>1, HeadTailProperties
<1>3. /\ \A k \in 1..N : /\ Q[k] # Resync /\ (closer # "ended" => Q[k] # End)
                         /\ Q[k] \in Item => Ahead(Q[k])
      /\ \A j, k \in 1..N : j < k /\ Q[j] \in Item /\ Q[k] \in Item => Before(Q[j], Q[k])
      /\ Ascending(G)
      /\ \A m \in 1..M : \/ G[m].end <= sub[r].through
                        \/ /\ Ahead(G[m])
                           /\ \A k \in 1..N : Q[k] \in Item => Before(G[m], Q[k])
  BY DEF Fits, QueueFits, GotFits
<1>4. \A m \in 1..M : G[m] \in Item
  BY <1>1
<1> DEFINE T == sub[r].through
           x == Q[1]
<1>5. x \in Item /\ T \in Nat /\ Ahead(x)
  BY <1>1, <1>3
<1>6. got = IF x.start >= T THEN Append(G, x) ELSE G
  BY DEF Received
<1>7. /\ Len(Append(G, x)) = M + 1 /\ Append(G, x)[M + 1] = x
      /\ \A m \in 1..M : Append(G, x)[m] = G[m]
  BY <1>1, <1>5, AppendProperties
<1>8. \A k \in 1..(N - 1) : k + 1 \in 1..N /\ 1 < k + 1
  <2>1. N \in Nat
    BY <1>1
  <2> HIDE DEF N
  <2>2. QED
    BY <2>1
<1>9. 1 \in 1..N
  OBVIOUS
<1> HIDE DEF G, Q, M, N, T, x, got
<1>10. ASSUME NEW m \in 1..M, x.start >= T PROVE Before(G[m], x)
  <2>1. CASE G[m].end <= T
    <3>1. G[m].end \in Nat /\ x.start \in Int
      BY <1>4, <1>5 DEF Item
    <3>2. QED
      BY <1>5, <1>10, <2>1, <3>1 DEF Before
  <2>2. CASE \A k \in 1..N : Q[k] \in Item => Before(G[m], Q[k])
    BY <1>5, <1>9, <2>2 DEF x
  <2>3. QED
    BY <1>3, <2>1, <2>2 DEF T
<1>11. \/ got = G
       \/ /\ Len(got) = M + 1 /\ got[M + 1] = x /\ \A m \in 1..M : got[m] = G[m]
          /\ \A m \in 1..M : Before(G[m], x)
  <2>1. CASE x.start >= T
    BY <1>6, <1>7, <1>10, <2>1
  <2>2. CASE ~(x.start >= T)
    BY <1>6, <2>2
  <2>3. QED
    BY <2>1, <2>2
<1>12. \A m \in 1..(M + 1) : m \in 1..M \/ m = M + 1
  BY <1>1
<1>13. Ascending(got)
  <2>1. CASE got = G
    BY <1>3, <2>1
  <2>2. CASE /\ Len(got) = M + 1 /\ got[M + 1] = x /\ \A m \in 1..M : got[m] = G[m]
             /\ \A m \in 1..M : Before(G[m], x)
    <3> SUFFICES ASSUME NEW m \in 1..Len(got), NEW n \in 1..Len(got), m < n
                 PROVE  Before(got[m], got[n])
      BY DEF Ascending
    <3>1. m \in 1..M
      BY <1>1, <2>2
    <3>2. CASE n \in 1..M
      <4>1. Before(G[m], G[n])
        BY <1>3, <3>1, <3>2 DEF Ascending, M
      <4>2. QED
        BY <2>2, <3>1, <3>2, <4>1
    <3>3. CASE n = M + 1
      BY <2>2, <3>1, <3>3
    <3>4. QED
      BY <1>12, <2>2, <3>2, <3>3
  <2>3. QED
    BY <1>11, <2>1, <2>2
<1>14. ASSUME NEW k \in 1..(N - 1), Tail(Q)[k] \in Item PROVE Before(x, Tail(Q)[k])
  BY <1>2, <1>3, <1>5, <1>8, <1>9, <1>14 DEF x
<1>15. ASSUME NEW m \in 1..Len(got)
       PROVE  \/ got[m].end <= T
              \/ /\ Ahead(got[m])
                 /\ \A k \in 1..(N - 1) : Tail(Q)[k] \in Item => Before(got[m], Tail(Q)[k])
  <2>1. \A i \in 1..M : \/ G[i].end <= T
                       \/ /\ Ahead(G[i])
                          /\ \A k \in 1..(N - 1) : Tail(Q)[k] \in Item => Before(G[i], Tail(Q)[k])
    BY <1>2, <1>3, <1>8 DEF T
  <2>2. CASE m \in 1..M
    BY <1>11, <2>1, <2>2
  <2>3. CASE m \notin 1..M
    <3>1. Len(got) = M + 1 /\ got[M + 1] = x /\ m = M + 1
      BY <1>11, <1>12, <2>3 DEF M
    <3>2. QED
      BY <1>5, <1>14, <3>1
  <2>4. QED
    BY <2>2, <2>3
<1>16. ASSUME NEW t, t = [[sub[r] EXCEPT !.got = got] EXCEPT !.queue = Tail(@)] PROVE Fits(t)
  <2>1. t.pc = "live" /\ t.queue = Tail(Q) /\ t.got = got /\ t.through = T
    BY <1>16 DEF Subscribed, Q, T
  <2>2. Len(t.queue) = N - 1
    BY <1>2, <2>1
  <2>3. \A k \in 1..(N - 1) :
          /\ t.queue[k] # Resync /\ (closer # "ended" => t.queue[k] # End)
          /\ t.queue[k] \in Item => Ahead(t.queue[k])
    BY <1>2, <1>3, <1>8, <2>1
  <2>4. \A j, k \in 1..(N - 1) :
          j < k /\ t.queue[j] \in Item /\ t.queue[k] \in Item => Before(t.queue[j], t.queue[k])
    <3> SUFFICES ASSUME NEW j \in 1..(N - 1), NEW k \in 1..(N - 1), j < k,
                        t.queue[j] \in Item, t.queue[k] \in Item
                 PROVE  Before(t.queue[j], t.queue[k])
      OBVIOUS
    <3>1. t.queue[j] = Q[j + 1] /\ t.queue[k] = Q[k + 1] /\ j + 1 < k + 1
      BY <1>1, <1>2, <2>1
    <3>2. QED
      BY <1>3, <1>8, <3>1
  <2>5. QueueFits(t)
    BY <2>2, <2>3, <2>4 DEF QueueFits
  <2>6. GotFits(t)
    BY <1>13, <1>15, <2>1, <2>2 DEF GotFits
  <2>7. QED
    BY <2>5, <2>6 DEF Fits
<1>17. Ascending(got) /\ \A t : t = [[sub[r] EXCEPT !.got = got] EXCEPT !.queue = Tail(@)] => Fits(t)
  BY <1>13, <1>16
<1>18. QED
  BY <1>17 DEF got, Q

LEMMA FitsReader ==
  ASSUME TInv, TInv', Straight, NEW r \in Readers, ReaderMoves(r), \A q \in Readers : Fits(sub[q])
  PROVE  \A q \in Readers : Fits(sub[q])'
<1>1. UNCHANGED <<consumed, chain, closer, path, files>>
  BY DEF ReaderMoves, Subscribe, ReaderStep, ReplayStat, Replay, Take, Leave, SubscriberRest, disk, adopted
<1>2. \A s : Fits(s) => Fits(s)'
  BY <1>1 DEF Fits, QueueFits, GotFits, Ahead
<1>3. \A s : sub' = [sub EXCEPT ![r] = s] => sub'[r] = s /\ \A q \in Readers : q # r => sub'[q] = sub[q]
  BY DEF TInv, ReaderT
<1>4. ASSUME NEW s, sub' = [sub EXCEPT ![r] = s], Fits(s) PROVE \A q \in Readers : Fits(sub[q])'
  <2> SUFFICES ASSUME NEW q \in Readers PROVE \A t : t = sub'[q] => Fits(t)'
    BY FitsNext
  <2>1. CASE q = r
    BY <1>2, <1>3, <1>4, <2>1
  <2>2. CASE q # r
    BY <1>2, <1>3, <1>4, <2>2
  <2>3. QED
    BY <2>1, <2>2
<1>5. /\ sub \in [Readers -> Subscribed \cup {NotSubscribed}]
      /\ sub[r].queue \in Seq(Message) /\ sub[r].got \in Seq(Item)
      /\ Len(sub[r].queue) \in Nat /\ Len(sub[r].got) \in Nat
      /\ sub[r].pc # "off" => sub[r] \in Subscribed
      /\ Fits(sub[r])
  BY Subscribers DEF TInv, ReaderT
<1>6. ASSUME NEW how \in {"ended", "failed", "left"}, NEW got, Ascending(got), sub[r] \in Subscribed,
             Leaves(r, how, got)
      PROVE  \A q \in Readers : Fits(sub[q])'
  <2> DEFINE s == [[[sub[r] EXCEPT !.pc = how] EXCEPT !.queue = <<>>] EXCEPT !.got = got]
  <2>1. s.pc = how /\ s.queue = <<>> /\ s.got = got
    BY <1>6 DEF Subscribed
  <2>2. sub' = [sub EXCEPT ![r] = s]
    BY <1>5, <1>6 DEF Leaves
  <2> HIDE DEF s
  <2>3. Fits(s)
    BY <1>6, <2>1, FitsLeaving
  <2>4. QED
    BY <1>4, <2>2, <2>3
<1>7. ASSUME NEW cursor \in Cursors, Subscribe(r, cursor) PROVE \A q \in Readers : Fits(sub[q])'
  <2> DEFINE s == [pc |-> IF cursor # NoCursor THEN "stat" ELSE IF Over THEN "ended" ELSE "live",
                   live |-> ~Over, cursor |-> cursor, through |-> Larger(cursor, 0),
                   from |-> IF cursor = NoCursor THEN consumed ELSE cursor,
                   size |-> 0, queue |-> <<>>, got |-> <<>>]
  <2>1. /\ sub' = [sub EXCEPT ![r] = s] /\ s.queue = <<>> /\ s.got = <<>>
        /\ s.pc = "stat" <=> cursor # NoCursor
        /\ s.pc # "replay" /\ s.cursor = cursor /\ s.through = Larger(cursor, 0)
        /\ cursor # NoCursor => s.from = cursor
    BY <1>7 DEF Subscribe
  <2> HIDE DEF s
  <2>2. cursor # NoCursor => cursor \in Nat /\ Larger(cursor, 0) = cursor
    BY JournalAssumption DEF NoCursor, Larger
  <2>3. Fits(s)
    <3>1. Len(s.queue) = 0 /\ Len(s.got) = 0
      BY <2>1, EmptySeq
    <3>2. (\A k \in 1..Len(s.queue) : FALSE) /\ (\A k \in 1..Len(s.got) : FALSE)
      BY <3>1
    <3>3. QED
      BY <2>1, <2>2, <3>2 DEF Fits, QueueFits, GotFits, Ascending
  <2>4. QED
    BY <1>4, <2>1, <2>3
<1>8. ASSUME ReplayStat(r) PROVE \A q \in Readers : Fits(sub[q])'
  <2>1. sub[r] \in Subscribed /\ sub[r].pc = "stat"
    BY <1>5, <1>8 DEF ReplayStat
  <2>2. CASE path = 0
    BY <1>6, <1>8, <2>1, <2>2, NothingAscends DEF ReplayStat
  <2>3. CASE path # 0
    <3> DEFINE size == Size(files[path])
               s == [[sub[r] EXCEPT !.pc = "replay"] EXCEPT !.size = size]
    <3>1. sub' = [sub EXCEPT ![r] = s]
      BY <1>5, <1>8, <2>3 DEF ReplayStat
    <3> HIDE DEF size
    <3>2. /\ s.pc = "replay" /\ s.queue = sub[r].queue /\ s.got = sub[r].got
          /\ s.cursor = sub[r].cursor /\ s.from = sub[r].from /\ s.through = sub[r].through
      BY <2>1 DEF Subscribed
    <3> HIDE DEF s
    <3>3. Fits(s)
      BY <1>5, <2>1, <3>2 DEF Fits, QueueFits, GotFits
    <3>4. QED
      BY <1>4, <3>1, <3>3
  <2>4. QED
    BY <2>2, <2>3
<1>9. ASSUME Replay(r) PROVE \A q \in Readers : Fits(sub[q])'
  <2>1. sub[r] \in Subscribed /\ sub[r].pc = "replay"
    BY <1>5, <1>9 DEF Replay
  <2>2. CASE path = 0
    BY <1>6, <1>9, <2>1, <2>2, NothingAscends DEF Replay
  <2>3. CASE path # 0
    <3> DEFINE items == Items(path, sub[r].cursor, sub[r].size)
               through == IF items = <<>> THEN sub[r].through ELSE Last(items).end
               there == IF sub[r].live THEN "live" ELSE "ended"
               s == [[[sub[r] EXCEPT !.got = items] EXCEPT !.through = through] EXCEPT !.pc = there]
    <3>1. sub' = [sub EXCEPT ![r] = s]
      BY <1>5, <1>9, <2>1, <2>3 DEF Replay, Subscribed
    <3> HIDE DEF through, items, there
    <3>2. s.pc = there /\ s.queue = sub[r].queue /\ s.got = items /\ s.through = through
      BY <2>1 DEF Subscribed
    <3> HIDE DEF s
    <3>3. /\ items \in Seq(Item) /\ Ascending(items)
          /\ items # <<>> => \A m \in 1..Len(items) : items[m].end <= Last(items).end
      <4>1. sub[r].size \in Nat /\ sub[r].cursor \in Nat
        BY <1>5, <2>1 DEF Subscribed, Fits, GotFits
      <4>2. QED
        BY <2>3, <4>1, ReplayAscends DEF items
    <3>4. \A m \in 1..Len(items) : items[m].end <= through
      <4>1. CASE items = <<>>
        BY <4>1, EmptySeq
      <4>2. CASE items # <<>>
        BY <3>3, <4>2 DEF through
      <4>3. QED
        BY <4>1, <4>2
    <3>5. there \in {"live", "ended"}
      BY DEF there
    <3>6. Fits(s)
      BY <1>5, <3>2, <3>3, <3>4, <3>5 DEF Fits, QueueFits, GotFits
    <3>7. QED
      BY <1>4, <3>1, <3>6
  <2>4. QED
    BY <2>2, <2>3
<1>10. ASSUME Take(r) PROVE \A q \in Readers : Fits(sub[q])'
  <2> DEFINE x == sub[r].queue[1]
  <2>1. sub[r] \in Subscribed /\ sub[r].pc = "live" /\ sub[r].queue # <<>>
    BY <1>5, <1>10 DEF Take
  <2>2. 1 \in 1..Len(sub[r].queue) /\ x = Head(sub[r].queue) /\ x \in Message
    <3>1. Len(sub[r].queue) # 0
      BY <1>5, <2>1, EmptySeq
    <3>2. 1 \in 1..Len(sub[r].queue)
      BY <1>5, <3>1
    <3>3. QED
      BY <1>5, <2>1, <3>2, HeadTailProperties
  <2>3. Ascending(sub[r].got) /\ x # Resync
    BY <1>5, <2>2 DEF Fits, QueueFits, GotFits
  <2>4. CASE x = End
    <3>1. Leaves(r, "ended", sub[r].got)
      BY <1>10, <2>2, <2>4 DEF Take, End, Resync
    <3>2. QED
      BY <1>6, <2>1, <2>3, <3>1
  <2>5. CASE x # End
    <3>1. x \in Item
      BY <2>2, <2>3, <2>5 DEF Message
    <3>2. /\ Ascending(Received(r, x))
          /\ \A t : t = [[sub[r] EXCEPT !.got = Received(r, x)] EXCEPT !.queue = Tail(@)] => Fits(t)
      BY <1>5, <2>1, <2>2, <3>1, ReceivedFits
    <3>3. CASE x.kind = "terminal"
      <4>1. Leaves(r, "ended", Received(r, x))
        BY <1>10, <2>2, <2>3, <2>5, <3>3 DEF Take
      <4>2. QED
        BY <1>6, <2>1, <3>2, <4>1
    <3>4. CASE x.kind # "terminal"
      <4> DEFINE t == [[sub[r] EXCEPT !.got = Received(r, x)] EXCEPT !.queue = Tail(@)]
      <4>1. sub' = [sub EXCEPT ![r].got = Received(r, x), ![r].queue = Tail(@)]
        BY <1>10, <2>2, <2>3, <2>5, <3>4 DEF Take
      <4>2. sub' = [sub EXCEPT ![r] = t]
        BY <1>5, <4>1
      <4>3. QED
        BY <1>4, <3>2, <4>2
    <3>5. QED
      BY <3>3, <3>4
  <2>6. QED
    BY <2>4, <2>5
<1>11. CASE Leave(r)
  <2>1. sub[r] \in Subscribed
    BY <1>5, <1>11 DEF Leave, Attached
  <2>2. QED
    BY <1>5, <1>6, <1>11, <2>1 DEF Leave, Fits, GotFits
<1>12. QED
  BY <1>7, <1>8, <1>9, <1>10, <1>11 DEF ReaderMoves, ReaderStep

LEMMA NextReadInOrder ==
  ASSUME Ruly, ~MayInterrupt, Undisturbed, Undisturbed', InOrder, ReadInOrder, [Next]_vars
  PROVE  ReadInOrder'
<1> SUFFICES ASSUME ~GaveUp' PROVE \A r \in Readers : Fits(sub[r])'
  BY DEF ReadInOrder
<1>1. /\ ~GaveUp /\ consumed \in Nat
      /\ ChainInOrder => ChainInOrder' /\ \A x \in Item : Ahead(x) => Ahead(x)'
  BY ChainMoves
<1>2. ChainInOrder /\ (\A r \in Readers : Fits(sub[r])) /\ \A x \in Item : Ahead(x) => Ahead(x)'
  BY <1>1 DEF InOrder, ReadInOrder
<1>3. TInv /\ TInv' /\ Straight
  BY DEF Undisturbed, Steady
<1>4. closer = "ended" => closer' = "ended"
  BY OverStays
<1>5. ASSUME NEW r \in Readers, sub'[r] = sub[r] PROVE Fits(sub[r])'
  <2>1. sub[r].queue \in Seq(Message) /\ sub[r].got \in Seq(Item) /\ Fits(sub[r])
    BY <1>2, <1>3, Subscribers
  <2>2. \A s : s.queue \in Seq(Message) /\ s.got \in Seq(Item) /\ Fits(s) => Fits(s)'
    BY <1>2, <1>4, FitsStays
  <2>3. \A s : s = sub'[r] => Fits(s)'
    BY <1>5, <2>1, <2>2
  <2>4. QED
    BY <2>3, FitsNext
\* A message reaches whoever is attached.
<1>6. ASSUME NEW x \in Message, HubHasRoom, sub' = Delivered(x), x # Resync,
             x \in Item => Ahead(x)' /\ \A y : Ahead(y) => Before(y, x),
             x = End => closer' = "ended"
      PROVE  \A r \in Readers : Fits(sub[r])'
  <2> SUFFICES ASSUME NEW r \in Readers PROVE Fits(sub[r])'
    OBVIOUS
  <2>1. /\ ~Attached(r) => sub'[r] = sub[r]
        /\ Attached(r) => sub[r] \in Subscribed /\ sub'[r] = [sub[r] EXCEPT !.queue = Append(@, x)]
    BY <1>3, <1>6, DeliveredIsTyped
  <2>2. CASE ~Attached(r)
    BY <1>5, <2>1, <2>2
  <2>3. CASE Attached(r)
    <3>1. \A s \in Subscribed : Fits(s) => \A t : t = [s EXCEPT !.queue = Append(@, x)] => Fits(t)'
      BY <1>2, <1>4, <1>6, FitsMore
    <3>2. \A t : t = sub'[r] => Fits(t)'
      BY <1>2, <2>1, <2>3, <3>1
    <3>3. QED
      BY <3>2, FitsNext
  <2>4. QED
    BY <2>2, <2>3
<1>7. CASE \E r \in Readers : ReaderMoves(r)
  <2>1. PICK r \in Readers : ReaderMoves(r)
    BY <1>7
  <2>2. QED
    BY <1>2, <1>3, <2>1, FitsReader
<1>8. CASE PublishesHead
  <2>1. PICK h \in Item : /\ sub' = Delivered(h) /\ Ahead(h)' /\ HubHasRoom
                          /\ \A y : Ahead(y) => Before(y, h)
    <3>1. /\ Head(chain[1].items) \in Item
          /\ \A x : x = Head(chain[1].items) => Ahead(x)'
          /\ \A x : Ahead(x) => Before(x, Head(chain[1].items))
      BY <1>1, <1>2, <1>3, <1>8, HeadInOrder
    <3>2. sub' = Delivered(Head(chain[1].items)) /\ HubHasRoom
      BY <1>8 DEF PublishesHead
    <3>3. QED
      BY <3>1, <3>2
  <2>2. h \in Message /\ h # Resync /\ h # End
    BY EndIsNoItem DEF Message
  <2>3. QED
    BY <1>6, <2>1, <2>2
<1>9. CASE Ends
  <2>1. closer' = "ended" /\ sub' = Delivered(End) /\ End \in Message /\ End # Resync /\ End \notin Item
    BY <1>9, EndIsNoItem DEF Ends, Message
  <2>2. HubHasRoom
    BY <1>9 DEF Ends
  <2>3. QED
    BY <1>6, <2>1, <2>2
<1>10. CASE UNCHANGED sub
  BY <1>5, <1>10
<1>11. QED
  BY <1>7, <1>8, <1>9, <1>10, NextMoves

LEMMA InitReadInOrder == Init => ReadInOrder
<1> SUFFICES ASSUME Init, NEW r \in Readers PROVE Fits(sub[r])
  BY DEF ReadInOrder
<1>1. sub[r].pc = "off" /\ sub[r].queue = <<>> /\ sub[r].got = <<>> /\ Len(<<>>) = 0
  BY EmptySeq DEF Init, NotSubscribed
<1>2. (\A k \in 1..Len(sub[r].queue) : FALSE) /\ \A k \in 1..Len(sub[r].got) : FALSE
  BY <1>1
<1>3. QED
  BY <1>1, <1>2 DEF Fits, QueueFits, GotFits, Ascending

------------------------------------------------------------------------------
(* The seam: what a subscriber has, will take, or will be sent.               *)

Given(s, x) == \E m \in 1..Len(s.got) : s.got[m] = x
Waits(s, x) == \E k \in 1..Len(s.queue) : s.queue[k] = x

\* A subscriber that is attached misses nothing that becomes consumed: at first
\* beyond the region it is to replay, then beyond its cursor.  What it drops as
\* already replayed, it has.
Joins(s) ==
  /\ s.pc = "live" => s.live
  /\ s.pc = "replay" /\ s.live =>
       \A n \in 1..Count : 2 * n > s.size /\ 2 * n <= consumed =>
         Waits(s, LineItem(n)) \/ Linked(LineItem(n))
  /\ s.pc = "live" =>
       /\ s.through <= s.from \/ s.through <= 2 * Count
       /\ \A n \in 1..Count : 2 * n - 2 >= s.from /\ 2 * n <= consumed =>
            Given(s, LineItem(n)) \/ Waits(s, LineItem(n)) \/ Linked(LineItem(n))
       /\ \A n \in 1..Count : 2 * n - 2 >= s.from /\ 2 * n - 2 < s.through => Given(s, LineItem(n))
Joined ==
  Streaming => \A r \in Readers : (~sup.built => sub[r].pc = "off") /\ Joins(sub[r])

LEMMA JoinsNext ==
  ASSUME NEW r \in Readers, \A s : s = sub'[r] => Joins(s)'
  PROVE  Joins(sub[r])'
BY DEF Joins, Given, Waits

LEMMA NotJoining ==
  ASSUME NEW s, s.pc \notin {"replay", "live"}
  PROVE  Joins(s)
BY DEF Joins

\* Whatever is consumed by a step, and whatever is published by it.
LEMMA JoinsOn ==
  ASSUME Ruly, ~MayInterrupt, "odd" \notin Kinds, Undisturbed, Undisturbed', ~GaveUp', ~SeedResume, [Next]_vars,
         NEW s \in Subscribed, NEW t, Joins(s),
         t.pc = s.pc, t.live = s.live, t.size = s.size, t.got = s.got, t.from = s.from, t.through = s.through,
         \A x : Waits(s, x) => Waits(t, x),
         s.pc \in {"replay", "live"} /\ s.live => \A x : Linked(x) => Linked(x)' \/ Waits(t, x)
  PROVE  Joins(t)'
<1>1. /\ ChainStep /\ Count \in Nat /\ consumed \in Nat /\ consumed' \in Nat
  BY ChainMoves
<1>2. /\ Count' \in Nat /\ Count <= Count' /\ \A m \in 1..Count : LineItem(m)' = LineItem(m)
  BY LinesStay DEF Undisturbed
<1>3. PICK a \in 0..Count : consumed = 2 * a
  BY DEF Undisturbed, Steady, Placed
<1>4. ASSUME NEW n \in 1..Count', 2 * n <= consumed'
      PROVE  /\ n \in 1..Count /\ LineItem(n)' = LineItem(n)
             /\ 2 * n <= consumed \/ Linked(LineItem(n))'
  <2>1. CASE 2 * n <= consumed
    <3>1. n \in 1..Count
      BY <1>1, <1>2, <1>3, <2>1
    <3>2. QED
      BY <1>2, <2>1, <3>1
  <2>2. CASE ~(2 * n <= consumed)
    <3>1. n \in 1..Count /\ Linked(LineItem(n))'
      BY <1>1, <1>4, <2>2, NewlyLinked
    <3>2. QED
      BY <1>2, <3>1
  <2>3. QED
    BY <2>1, <2>2
<1>5. s.from \in Nat /\ s.through \in Nat /\ s.size \in Nat
  BY DEF Subscribed
<1>6. ASSUME NEW n \in 1..Count, s.pc \in {"replay", "live"}, s.live,
             LineItem(n)' = LineItem(n), Linked(LineItem(n))
      PROVE  Linked(LineItem(n))' \/ Waits(t, LineItem(n)')
  <2>1. \A x : x = LineItem(n) => Linked(x)' \/ Waits(t, x)
    BY <1>6
  <2>2. \A x : x = LineItem(n)' => Linked(x)' \/ Waits(t, x)
    BY <1>6, <2>1
  <2>3. QED
    BY <2>2 DEF Linked
<1>7. t.pc = "live" => t.live
  BY DEF Joins
<1>8. ASSUME t.pc = "replay", t.live, NEW n \in 1..Count', 2 * n > t.size, 2 * n <= consumed'
      PROVE  Waits(t, LineItem(n)') \/ Linked(LineItem(n))'
  <2>1. n \in 1..Count /\ LineItem(n)' = LineItem(n) /\ (2 * n <= consumed \/ Linked(LineItem(n))')
    BY <1>4, <1>8
  <2>2. CASE 2 * n <= consumed
    <3>1. Waits(s, LineItem(n)) \/ Linked(LineItem(n))
      BY <1>8, <2>1, <2>2 DEF Joins
    <3>2. QED
      BY <1>6, <1>8, <2>1, <3>1
  <2>3. QED
    BY <2>1, <2>2
<1>9. ASSUME t.pc = "live", NEW n \in 1..Count', 2 * n - 2 >= t.from, 2 * n <= consumed'
      PROVE  Given(t, LineItem(n)') \/ Waits(t, LineItem(n)') \/ Linked(LineItem(n))'
  <2>1. n \in 1..Count /\ LineItem(n)' = LineItem(n) /\ (2 * n <= consumed \/ Linked(LineItem(n))')
    BY <1>4, <1>9
  <2>2. CASE 2 * n <= consumed
    <3>1. Given(s, LineItem(n)) \/ Waits(s, LineItem(n)) \/ Linked(LineItem(n))
      BY <1>9, <2>1, <2>2 DEF Joins
    <3>2. Given(s, LineItem(n)) => Given(t, LineItem(n)')
      BY <2>1 DEF Given
    <3>3. QED
      BY <1>6, <1>7, <1>9, <2>1, <3>1, <3>2
  <2>3. QED
    BY <2>1, <2>2
<1>10. ASSUME t.pc = "live"
       PROVE  /\ t.through <= t.from \/ t.through <= 2 * Count'
              /\ \A n \in 1..Count' : 2 * n - 2 >= t.from /\ 2 * n - 2 < t.through => Given(t, LineItem(n)')
  <2>1. s.through <= s.from \/ s.through <= 2 * Count
    BY <1>10 DEF Joins
  <2>2. t.through <= t.from \/ t.through <= 2 * Count'
    BY <1>1, <1>2, <1>5, <2>1
  <2>3. ASSUME NEW n \in 1..Count', 2 * n - 2 >= t.from, 2 * n - 2 < t.through PROVE Given(t, LineItem(n)')
    <3>1. n \in 1..Count
      BY <1>1, <1>2, <1>5, <2>1, <2>3
    <3>2. Given(s, LineItem(n)) /\ LineItem(n)' = LineItem(n)
      BY <1>2, <1>10, <2>3, <3>1 DEF Joins
    <3>3. QED
      BY <3>2 DEF Given
  <2>4. QED
    BY <2>2, <2>3
<1>11. QED
  <2>1. \A n : (Linked(LineItem(n)))' <=> Linked(LineItem(n))'
    OBVIOUS
  <2>2. (t.pc = "replay" /\ t.live =>
          \A n \in 1..Count : 2 * n > t.size /\ 2 * n <= consumed =>
            Waits(t, LineItem(n)) \/ Linked(LineItem(n)))'
    BY <1>8 DEF Waits
  <2>3. (t.pc = "live" =>
          /\ t.through <= t.from \/ t.through <= 2 * Count
          /\ \A n \in 1..Count : 2 * n - 2 >= t.from /\ 2 * n <= consumed =>
               Given(t, LineItem(n)) \/ Waits(t, LineItem(n)) \/ Linked(LineItem(n))
          /\ \A n \in 1..Count : 2 * n - 2 >= t.from /\ 2 * n - 2 < t.through => Given(t, LineItem(n)))'
    BY <1>9, <1>10 DEF Waits, Given
  <2>4. QED
    BY <1>7, <2>2, <2>3 DEF Joins

\* The replay gives every line between the cursor and the size it was taken at.
LEMMA ReplayJoins ==
  ASSUME TInv, Straight, path # 0, NEW s \in Subscribed, s.pc = "replay", Joins(s), Fits(s)
  PROVE  \A items, through, there :
           /\ items = Items(path, s.cursor, s.size)
           /\ through = IF items = <<>> THEN s.through ELSE Last(items).end
           /\ there = IF s.live THEN "live" ELSE "ended"
           => \A t : t = [[[s EXCEPT !.got = items] EXCEPT !.through = through] EXCEPT !.pc = there] => Joins(t)
<1> DEFINE a == Skipped(s.cursor)
           b == Skipped(s.size)
<1>1. /\ s.cursor \in Nat /\ s.from = s.cursor /\ s.through = s.cursor
  BY DEF Fits, GotFits
<1>2. s.size \in Nat
  BY DEF Subscribed
<1>3. /\ Items(path, s.cursor, s.size) \in Seq(Item)
      /\ a \in 0..Count /\ b \in 0..Count /\ Count \in Nat
      /\ \A n \in 1..Count : /\ n <= a <=> 2 * n <= s.cursor
                             /\ n <= b <=> 2 * n <= s.size
      /\ Len(Items(path, s.cursor, s.size)) = IF b >= a THEN b - a ELSE 0
      /\ \A n \in 1..Len(Items(path, s.cursor, s.size)) :
           /\ Items(path, s.cursor, s.size)[n].end = 2 * (a + n)
           /\ 2 * (a + n) - 2 >= s.cursor => Items(path, s.cursor, s.size)[n] = LineItem(a + n)
  <2>1. s.cursor \in Nat
    BY <1>1
  <2>2. \A from, to \in Nat :
          /\ Items(path, from, to) \in Seq(Item)
          /\ Skipped(from) \in 0..Count /\ Skipped(to) \in 0..Count
          /\ \A n \in 1..Count : /\ n <= Skipped(from) <=> 2 * n <= from
                                 /\ n <= Skipped(to) <=> 2 * n <= to
          /\ Len(Items(path, from, to)) =
               IF Skipped(to) >= Skipped(from) THEN Skipped(to) - Skipped(from) ELSE 0
          /\ \A n \in 1..Len(Items(path, from, to)) :
               /\ Items(path, from, to)[n].end = 2 * (Skipped(from) + n)
               /\ 2 * (Skipped(from) + n) - 2 >= from =>
                    Items(path, from, to)[n] = LineItem(Skipped(from) + n)
    BY ZenonT(30), StraightItems
  <2>3. Count \in Nat
    BY CountParts
  <2>4. QED
    BY ZenonT(30), <1>2, <2>1, <2>2, <2>3
<1> HIDE DEF a, b
<1> SUFFICES ASSUME NEW items, NEW through, NEW there, NEW t,
                    items = Items(path, s.cursor, s.size),
                    through = IF items = <<>> THEN s.through ELSE Last(items).end,
                    there = IF s.live THEN "live" ELSE "ended",
                    t = [[[s EXCEPT !.got = items] EXCEPT !.through = through] EXCEPT !.pc = there]
             PROVE  Joins(t)
  OBVIOUS
<1> DEFINE N == Len(items)
<1>4. /\ t.pc = there /\ t.live = s.live /\ t.got = items /\ t.through = through
      /\ t.from = s.from /\ t.queue = s.queue
  BY DEF Subscribed
<1>5. /\ items \in Seq(Item) /\ a \in 0..Count /\ b \in 0..Count /\ Count \in Nat
      /\ \A n \in 1..Count : /\ n <= a <=> 2 * n <= s.cursor
                             /\ n <= b <=> 2 * n <= s.size
      /\ N = IF b >= a THEN b - a ELSE 0
      /\ \A n \in 1..N : /\ items[n].end = 2 * (a + n)
                         /\ 2 * (a + n) - 2 >= s.cursor => items[n] = LineItem(a + n)
  BY <1>3
<1> HIDE DEF N
<1>6. CASE there = "ended"
  BY <1>4, <1>6, NotJoining
<1>7. CASE there # "ended"
  <2>1. there = "live" /\ s.live
    BY <1>7
  <2>2. ASSUME NEW n \in 1..Count, 2 * n - 2 >= s.cursor, 2 * n <= s.size PROVE Given(t, LineItem(n))
    <3>1. n <= b /\ ~(n <= a)
      BY <1>1, <1>5, <2>2
    <3>2. n - a \in 1..N /\ a + (n - a) = n
      BY <1>5, <3>1
    <3>3. items[n - a] = LineItem(n)
      BY <1>5, <2>2, <3>2
    <3>4. QED
      BY <1>4, <3>2, <3>3 DEF Given, N
  <2>3. \/ items = <<>> /\ through = s.cursor
        \/ items # <<>> /\ through = 2 * b /\ N \in 1..N
    <3>1. CASE items = <<>>
      BY <1>1, <3>1
    <3>2. CASE items # <<>>
      <4>1. N # 0 /\ N \in Nat
        BY <1>5, <3>2, EmptySeq DEF N
      <4>2. N \in 1..N /\ a + N = b
        BY <1>5, <4>1
      <4>3. Last(items).end = 2 * (a + N)
        BY <1>5, <4>2 DEF Last, N
      <4>4. QED
        BY <3>2, <4>2, <4>3
    <3>3. QED
      BY <3>1, <3>2
  <2>4. through <= s.from \/ through <= 2 * Count
    BY <1>1, <1>5, <2>3
  <2>5. ASSUME NEW n \in 1..Count, 2 * n - 2 >= s.cursor, 2 * n - 2 < through PROVE Given(t, LineItem(n))
    <3>1. through = 2 * b
      BY <1>1, <1>5, <2>3, <2>5
    <3>2. n <= b
      BY <1>5, <2>5, <3>1
    <3>3. 2 * n <= s.size
      BY <1>5, <3>2
    <3>4. QED
      BY <2>2, <2>5, <3>3
  <2>6. ASSUME NEW n \in 1..Count, 2 * n - 2 >= s.cursor, 2 * n <= consumed
        PROVE  Given(t, LineItem(n)) \/ Waits(t, LineItem(n)) \/ Linked(LineItem(n))
    <3>1. CASE 2 * n <= s.size
      BY <2>2, <2>6, <3>1
    <3>2. CASE ~(2 * n <= s.size)
      <4>1. 2 * n > s.size
        BY <1>2, <1>5, <3>2
      <4>2. Waits(s, LineItem(n)) \/ Linked(LineItem(n))
        BY <2>1, <2>6, <4>1 DEF Joins
      <4>3. QED
        BY <1>4, <4>2 DEF Waits
    <3>3. QED
      BY <3>1, <3>2
  <2>7. QED
    BY <1>4, <1>1, <2>1, <2>4, <2>5, <2>6 DEF Joins
<1>8. QED
  BY <1>6, <1>7

\* What is taken is given, or was before.
LEMMA TakenJoins ==
  ASSUME TInv, NEW r \in Readers, sub[r] \in Subscribed, sub[r].pc = "live", 1 \in 1..Len(sub[r].queue),
         Joins(sub[r])
  PROVE  \A t : t = [[sub[r] EXCEPT !.got = Received(r, sub[r].queue[1])] EXCEPT !.queue = Tail(@)] => Joins(t)
<1> DEFINE G == sub[r].got
           Q == sub[r].queue
           x == Q[1]
           got == Received(r, x)
<1> SUFFICES ASSUME NEW t, t = [[sub[r] EXCEPT !.got = got] EXCEPT !.queue = Tail(@)] PROVE Joins(t)
  OBVIOUS
<1>1. /\ t.pc = "live" /\ t.live = sub[r].live /\ t.got = got /\ t.queue = Tail(Q)
      /\ t.from = sub[r].from /\ t.through = sub[r].through
  BY DEF Subscribed
<1>2. G \in Seq(Item) /\ Q \in Seq(Message) /\ Len(G) \in Nat /\ Len(Q) \in Nat /\ Len(Q) # 0
  BY DEF Subscribed
<1>3. Q # <<>>
  BY <1>2, EmptySeq
<1>4. /\ Len(Tail(Q)) = Len(Q) - 1 /\ \A k \in 1..(Len(Q) - 1) : Tail(Q)[k] = Q[k + 1]
  BY <1>2, <1>3, HeadTailProperties
<1>5. got = IF x.start >= sub[r].through THEN Append(G, x) ELSE G
  BY DEF Received
<1>6. Len(Append(G, x)) = Len(G) + 1 /\ Append(G, x)[Len(G) + 1] = x
      /\ \A m \in 1..Len(G) : Append(G, x)[m] = G[m]
  BY <1>2, AppendProperties
<1>7. Len(G) + 1 \in 1..(Len(G) + 1) /\ \A m \in 1..Len(G) : m \in 1..(Len(G) + 1)
  BY <1>2
<1>8. ASSUME NEW y, Given(sub[r], y) PROVE Given(t, y)
  BY <1>1, <1>5, <1>6, <1>7, <1>8 DEF Given
<1>9. x.start >= sub[r].through => Given(t, x)
  BY <1>1, <1>5, <1>6, <1>7 DEF Given
<1>10. ASSUME NEW y, Waits(sub[r], y), y # x PROVE Waits(t, y)
  <2>1. PICK k \in 1..Len(Q) : Q[k] = y
    BY <1>10 DEF Waits
  <2>2. k # 1
    BY <1>10, <2>1
  <2>3. k - 1 \in 1..(Len(Q) - 1) /\ (k - 1) + 1 = k
    BY <1>2, <2>2
  <2>4. Tail(Q)[k - 1] = y
    BY <1>4, <2>1, <2>3
  <2>5. QED
    BY <1>1, <1>4, <2>3, <2>4 DEF Waits
<1> HIDE DEF G, Q, x, got
<1>11. /\ t.live
       /\ t.through <= t.from \/ t.through <= 2 * Count
       /\ \A n \in 1..Count : 2 * n - 2 >= t.from /\ 2 * n - 2 < t.through => Given(t, LineItem(n))
  BY <1>1, <1>8 DEF Joins
<1>12. ASSUME NEW n \in 1..Count, 2 * n - 2 >= t.from, 2 * n <= consumed
       PROVE  Given(t, LineItem(n)) \/ Waits(t, LineItem(n)) \/ Linked(LineItem(n))
  <2>1. Given(sub[r], LineItem(n)) \/ Waits(sub[r], LineItem(n)) \/ Linked(LineItem(n))
    BY <1>1, <1>12 DEF Joins
  <2>2. CASE LineItem(n) = x
    <3>1. x.start = 2 * n - 2
      BY <2>2, LineItemIs
    <3>2. t.through \in Nat /\ n \in Int
      BY <1>1 DEF Subscribed
    <3>3. CASE 2 * n - 2 < t.through
      BY <1>11, <1>12, <3>3
    <3>4. CASE ~(2 * n - 2 < t.through)
      <4>1. 2 * n - 2 >= t.through
        BY <3>2, <3>4
      <4>2. x.start >= sub[r].through
        BY <1>1, <3>1, <4>1
      <4>3. QED
        BY <1>9, <2>2, <4>2
    <3>5. QED
      BY <3>3, <3>4
  <2>3. CASE LineItem(n) # x
    BY <1>8, <1>10, <2>1, <2>3
  <2>4. QED
    BY <2>2, <2>3
<1>13. QED
  BY <1>1, <1>11, <1>12 DEF Joins

LEMMA JoinsReader ==
  ASSUME TInv, Straight, consumed <= 2 * Count, NEW r \in Readers, ReaderMoves(r),
         \A q \in Readers : Fits(sub[q]), \A q \in Readers : Joins(sub[q])
  PROVE  \A q \in Readers : Joins(sub[q])'
<1>1. UNCHANGED <<consumed, chain, closer, path, files>>
  BY DEF ReaderMoves, Subscribe, ReaderStep, ReplayStat, Replay, Take, Leave, SubscriberRest, disk, adopted
<1>2. \A s : Joins(s) => Joins(s)'
  <2>1. Count' = Count /\ (\A n : LineItem(n)' = LineItem(n))
    BY <1>1 DEF Count, LineItem
  <2>2. \A n : Linked(LineItem(n)) => Linked(LineItem(n))'
    BY <1>1, <2>1 DEF Linked
  <2>3. QED
    BY <1>1, <2>1, <2>2 DEF Joins, Given, Waits
<1>3. \A s : sub' = [sub EXCEPT ![r] = s] => sub'[r] = s /\ \A q \in Readers : q # r => sub'[q] = sub[q]
  BY DEF TInv, ReaderT
<1>4. ASSUME NEW s, sub' = [sub EXCEPT ![r] = s], Joins(s) PROVE \A q \in Readers : Joins(sub[q])'
  <2> SUFFICES ASSUME NEW q \in Readers PROVE \A t : t = sub'[q] => Joins(t)'
    BY JoinsNext
  <2>1. CASE q = r
    BY <1>2, <1>3, <1>4, <2>1
  <2>2. CASE q # r
    BY <1>2, <1>3, <1>4, <2>2
  <2>3. QED
    BY <2>1, <2>2
<1>5. /\ sub \in [Readers -> Subscribed \cup {NotSubscribed}]
      /\ sub[r].pc # "off" => sub[r] \in Subscribed
      /\ sub[r].queue \in Seq(Message) /\ Len(sub[r].queue) \in Nat
      /\ Fits(sub[r]) /\ Joins(sub[r])
  BY Subscribers DEF TInv, ReaderT
<1>6. ASSUME NEW how \in {"ended", "failed", "left"}, NEW got, sub[r] \in Subscribed, Leaves(r, how, got)
      PROVE  \A q \in Readers : Joins(sub[q])'
  <2> DEFINE s == [[[sub[r] EXCEPT !.pc = how] EXCEPT !.queue = <<>>] EXCEPT !.got = got]
  <2>1. s.pc = how
    BY <1>6 DEF Subscribed
  <2>2. sub' = [sub EXCEPT ![r] = s]
    BY <1>5, <1>6 DEF Leaves
  <2> HIDE DEF s
  <2>3. Joins(s)
    BY <2>1, NotJoining
  <2>4. QED
    BY <1>4, <2>2, <2>3
<1>7. consumed \in Nat /\ Count \in Nat
  BY CountParts DEF TInv, AdoptedT
<1>8. ASSUME NEW cursor \in Cursors, Subscribe(r, cursor) PROVE \A q \in Readers : Joins(sub[q])'
  <2> DEFINE s == [pc |-> IF cursor # NoCursor THEN "stat" ELSE IF Over THEN "ended" ELSE "live",
                   live |-> ~Over, cursor |-> cursor, through |-> Larger(cursor, 0),
                   from |-> IF cursor = NoCursor THEN consumed ELSE cursor,
                   size |-> 0, queue |-> <<>>, got |-> <<>>]
  <2>1. /\ sub' = [sub EXCEPT ![r] = s] /\ s.pc \in {"stat", "ended", "live"}
        /\ s.pc = "live" => s.live /\ s.from = consumed /\ s.through = 0
    <3>1. sub' = [sub EXCEPT ![r] = s]
      BY <1>8 DEF Subscribe
    <3>2. s.pc = "live" => cursor = NoCursor /\ ~Over
      OBVIOUS
    <3>3. Larger(NoCursor, 0) = 0
      BY DEF NoCursor, Larger
    <3>4. QED
      BY <3>1, <3>2, <3>3
  <2> HIDE DEF s
  <2>2. Joins(s)
    <3>1. CASE s.pc = "live"
      <4>1. s.through <= s.from
        BY <1>7, <2>1, <3>1
      <4>2. \A n \in 1..Count : ~(2 * n - 2 >= s.from /\ 2 * n <= consumed)
        BY <1>7, <2>1, <3>1
      <4>3. \A n \in 1..Count : ~(2 * n - 2 < s.through)
        BY <1>7, <2>1, <3>1
      <4>4. QED
        BY <2>1, <3>1, <4>1, <4>2, <4>3 DEF Joins
    <3>2. CASE s.pc # "live"
      BY <2>1, <3>2, NotJoining
    <3>3. QED
      BY <3>1, <3>2
  <2>3. QED
    BY <1>4, <2>1, <2>2
<1>9. ASSUME ReplayStat(r) PROVE \A q \in Readers : Joins(sub[q])'
  <2>1. sub[r] \in Subscribed /\ sub[r].pc = "stat"
    BY <1>5, <1>9 DEF ReplayStat
  <2>2. CASE path = 0
    BY <1>6, <1>9, <2>1, <2>2 DEF ReplayStat
  <2>3. CASE path # 0
    <3> DEFINE size == Size(files[path])
               s == [[sub[r] EXCEPT !.pc = "replay"] EXCEPT !.size = size]
    <3>1. sub' = [sub EXCEPT ![r] = s]
      BY <1>5, <1>9, <2>3 DEF ReplayStat
    <3>2. size = 2 * Count
      BY <2>3, CountParts
    <3> HIDE DEF size
    <3>3. s.pc = "replay" /\ s.size = size
      BY <2>1 DEF Subscribed
    <3> HIDE DEF s
    <3>4. \A n \in 1..Count : ~(2 * n > s.size)
      BY <1>7, <3>2, <3>3
    <3>5. Joins(s)
      BY <3>3, <3>4 DEF Joins
    <3>6. QED
      BY <1>4, <3>1, <3>5
  <2>4. QED
    BY <2>2, <2>3
<1>10. ASSUME Replay(r) PROVE \A q \in Readers : Joins(sub[q])'
  <2>1. sub[r] \in Subscribed /\ sub[r].pc = "replay"
    BY <1>5, <1>10 DEF Replay
  <2>2. CASE path = 0
    BY <1>6, <1>10, <2>1, <2>2 DEF Replay
  <2>3. CASE path # 0
    <3> DEFINE items == Items(path, sub[r].cursor, sub[r].size)
               through == IF items = <<>> THEN sub[r].through ELSE Last(items).end
               there == IF sub[r].live THEN "live" ELSE "ended"
               s == [[[sub[r] EXCEPT !.got = items] EXCEPT !.through = through] EXCEPT !.pc = there]
    <3>1. sub' = [sub EXCEPT ![r] = s]
      BY <1>5, <1>10, <2>1, <2>3 DEF Replay, Subscribed
    <3>2. Joins(s)
      <4>1. \A b, t, h :
              /\ b = items
              /\ t = IF b = <<>> THEN sub[r].through ELSE Last(b).end
              /\ h = IF sub[r].live THEN "live" ELSE "ended"
              => \A z : z = [[[sub[r] EXCEPT !.got = b] EXCEPT !.through = t] EXCEPT !.pc = h] => Joins(z)
        BY <1>5, <2>1, <2>3, ReplayJoins
      <4> HIDE DEF items
      <4>2. QED
        BY <4>1
    <3> HIDE DEF s
    <3>3. QED
      BY <1>4, <3>1, <3>2
  <2>4. QED
    BY <2>2, <2>3
<1>11. ASSUME Take(r) PROVE \A q \in Readers : Joins(sub[q])'
  <2> DEFINE x == sub[r].queue[1]
  <2>1. sub[r] \in Subscribed /\ sub[r].pc = "live" /\ sub[r].queue # <<>>
    BY <1>5, <1>11 DEF Take
  <2>2. 1 \in 1..Len(sub[r].queue) /\ x = Head(sub[r].queue)
    <3>1. Len(sub[r].queue) # 0
      BY <1>5, <2>1, EmptySeq
    <3>2. 1 \in 1..Len(sub[r].queue)
      BY <1>5, <3>1
    <3>3. QED
      BY <1>5, <2>1, <3>2, HeadTailProperties
  <2>3. \A t : t = [[sub[r] EXCEPT !.got = Received(r, x)] EXCEPT !.queue = Tail(@)] => Joins(t)
    BY <1>5, <2>1, <2>2, TakenJoins
  <2> HIDE DEF x
  <2>4. CASE x = Resync \/ x = End \/ x.kind = "terminal"
    <3>1. \E how \in {"failed", "ended"}, got \in {sub[r].got, Received(r, x)} : Leaves(r, how, got)
      BY <1>11, <2>2, <2>4 DEF Take
    <3>2. QED
      BY <1>6, <2>1, <3>1
  <2>5. CASE ~(x = Resync \/ x = End \/ x.kind = "terminal")
    <3> DEFINE t == [[sub[r] EXCEPT !.got = Received(r, x)] EXCEPT !.queue = Tail(@)]
    <3>1. sub' = [sub EXCEPT ![r].got = Received(r, x), ![r].queue = Tail(@)]
      BY <1>11, <2>2, <2>5 DEF Take
    <3>2. sub' = [sub EXCEPT ![r] = t]
      BY <1>5, <3>1
    <3>3. QED
      BY <1>4, <2>3, <3>2
  <2>6. QED
    BY <2>4, <2>5
<1>12. CASE Leave(r)
  <2>1. sub[r] \in Subscribed
    BY <1>5, <1>12 DEF Leave, Attached
  <2>2. QED
    BY <1>6, <1>12, <2>1 DEF Leave
<1>13. QED
  BY <1>8, <1>9, <1>10, <1>11, <1>12 DEF ReaderMoves, ReaderStep

LEMMA NextJoined ==
  ASSUME Ruly, ~MayInterrupt, "odd" \notin Kinds, Undisturbed, Undisturbed', ReadInOrder, Joined, [Next]_vars
  PROVE  Joined'
<1> SUFFICES ASSUME Streaming' PROVE \A r \in Readers : (~sup'.built => sub'[r].pc = "off") /\ Joins(sub[r])'
  BY DEF Joined
<1>1. Streaming /\ ~GaveUp /\ ~GaveUp'
  BY OverStays DEF Streaming
<1>2. /\ \A r \in Readers : (~sup.built => sub[r].pc = "off") /\ Joins(sub[r])
      /\ \A r \in Readers : Fits(sub[r])
  BY <1>1 DEF Joined, ReadInOrder
<1>3. TInv /\ IInv /\ Straight
  BY DEF Undisturbed, Steady
<1>4. ~sup'.built => ~sup.built
  BY <1>3, BuiltStays
<1>5. /\ consumed \in Nat /\ consumed <= 2 * Count
  <2>1. PICK a \in 0..Count : consumed = 2 * a
    BY DEF Undisturbed, Steady, Placed
  <2>2. consumed \in Nat /\ Count \in Nat
    BY <1>3, CountParts DEF TInv, AdoptedT
  <2>3. QED
    BY <2>1, <2>2
\* A step of a subscriber, which nobody is before the engine is built.
<1>6. CASE \E r \in Readers : ReaderMoves(r)
  <2>1. PICK r \in Readers : ReaderMoves(r)
    BY <1>6
  <2>2. \A q \in Readers : Joins(sub[q])'
    BY <1>2, <1>3, <1>5, <2>1, JoinsReader
  <2>3. sup.built
    BY <1>2, <2>1 DEF ReaderMoves, Subscribe, ReaderStep, ReplayStat, Replay, Take, Leave, Attached
  <2>4. QED
    BY <1>4, <2>2, <2>3
\* A step that leaves them alone or gives each of them a message.
<1>7. ASSUME ~SeedResume, NEW r \in Readers, NEW x \in Message,
             \/ sub'[r] = sub[r]
             \/ Attached(r) /\ sub[r] \in Subscribed /\ sub'[r] = [sub[r] EXCEPT !.queue = Append(@, x)],
             Attached(r) => \A y : Linked(y) => Linked(y)' \/ (y = x /\ sub'[r] # sub[r])
      PROVE  Joins(sub[r])'
  <2>1. CASE sub[r].pc \notin {"replay", "live"}
    <3>1. sub'[r].pc = sub[r].pc
      BY <1>7 DEF Subscribed
    <3>2. \A s : s.pc \notin {"replay", "live"} => Joins(s)'
      BY DEF Joins
    <3>3. \A s : s = sub'[r] => Joins(s)'
      BY <2>1, <3>1, <3>2
    <3>4. QED
      BY <3>3, JoinsNext
  <2>2. CASE sub[r].pc \in {"replay", "live"}
    <3>1. sub[r] \in Subscribed /\ sub[r].queue \in Seq(Message) /\ Len(sub[r].queue) \in Nat
      BY <1>3, <2>2, Subscribers
    <3>2. /\ sub'[r].pc = sub[r].pc /\ sub'[r].live = sub[r].live /\ sub'[r].size = sub[r].size
          /\ sub'[r].got = sub[r].got /\ sub'[r].from = sub[r].from /\ sub'[r].through = sub[r].through
          /\ \/ sub'[r] = sub[r]
             \/ sub'[r].queue = Append(sub[r].queue, x)
      BY <1>7, <3>1 DEF Subscribed
    <3>3. /\ Len(Append(sub[r].queue, x)) = Len(sub[r].queue) + 1
          /\ Append(sub[r].queue, x)[Len(sub[r].queue) + 1] = x
          /\ \A k \in 1..Len(sub[r].queue) : Append(sub[r].queue, x)[k] = sub[r].queue[k]
      BY <3>1, AppendProperties
    <3>4. /\ Len(sub[r].queue) + 1 \in 1..(Len(sub[r].queue) + 1)
          /\ \A k \in 1..Len(sub[r].queue) : k \in 1..(Len(sub[r].queue) + 1)
      BY <3>1
    <3>5. \A y : Waits(sub[r], y) => Waits(sub'[r], y)
      BY <3>2, <3>3, <3>4 DEF Waits
    <3>6. sub'[r] # sub[r] => Waits(sub'[r], x)
      BY <3>2, <3>3, <3>4 DEF Waits
    <3>7. sub[r].live => \A y : Linked(y) => Linked(y)' \/ Waits(sub'[r], y)
      BY <1>7, <2>2, <3>6 DEF Attached
    <3>8. \A s \in Subscribed : \A t :
            /\ Joins(s)
            /\ t.pc = s.pc /\ t.live = s.live /\ t.size = s.size /\ t.got = s.got
            /\ t.from = s.from /\ t.through = s.through
            /\ \A y : Waits(s, y) => Waits(t, y)
            /\ s.pc \in {"replay", "live"} /\ s.live => \A y : Linked(y) => Linked(y)' \/ Waits(t, y)
            => Joins(t)'
      BY <1>1, <1>7, JoinsOn
    <3>9. \A t : t = sub'[r] => Joins(t)'
      BY <1>2, <3>1, <3>2, <3>5, <3>7, <3>8
    <3>10. QED
      BY <3>9, JoinsNext
  <2>3. QED
    BY <2>1, <2>2
<1>8. ASSUME ~sup.built, ~(\E r \in Readers : ReaderMoves(r)) PROVE \A r \in Readers : sub'[r].pc = "off"
  <2> SUFFICES ASSUME NEW r \in Readers PROVE sub'[r].pc = "off"
    OBVIOUS
  <2>1. sub[r].pc = "off" /\ ~Attached(r)
    BY <1>2, <1>8 DEF Attached
  <2>2. CASE PublishesHead
    <3>1. sub' = Delivered(Head(chain[1].items))
      BY <2>2 DEF PublishesHead
    <3>2. sub'[r] = sub[r]
      BY <2>1, <3>1 DEF Delivered
    <3>3. QED
      BY <2>1, <3>2
  <2>3. CASE UNCHANGED sub
    BY <2>1, <2>3
  <2>4. QED
    BY <1>1, <1>8, <2>2, <2>3, NextMoves DEF Ends, Streaming
<1>9. CASE ~(\E r \in Readers : ReaderMoves(r))
  <2>1. CASE SeedResume
    <3>1. ~sup.built
      BY <2>1 DEF SeedResume, SupAt, Undisturbed, Steady, Unbroken, Straight, NoBreachSeen, Seeding
    <3>2. \A r \in Readers : sub'[r].pc = "off"
      BY <1>8, <1>9, <3>1
    <3>3. \A s : s.pc = "off" => Joins(s)'
      BY DEF Joins
    <3>4. \A r \in Readers : \A s : s = sub'[r] => Joins(s)'
      BY <3>2, <3>3
    <3>5. QED
      BY <3>2, <3>4, JoinsNext
  <2>2. CASE ~SeedResume /\ PublishesHead
    <3> DEFINE h == Head(chain[1].items)
    <3>1. sub' = Delivered(h) /\ HubHasRoom /\ h \in Item
      BY <1>3, <2>2, HeadIs DEF PublishesHead
    <3>2. \A y : Linked(y) => Linked(y)' \/ y = h
      BY <1>3, <2>2, LinkedStays, CountParts
    <3> HIDE DEF h
    <3>3. h \in Message
      BY <3>1 DEF Message
    <3>4. ASSUME NEW r \in Readers PROVE Joins(sub[r])'
      <4>1. /\ ~Attached(r) => sub'[r] = sub[r]
            /\ Attached(r) => sub[r] \in Subscribed /\ sub'[r] = [sub[r] EXCEPT !.queue = Append(@, h)]
        BY <1>3, <3>1, <3>3, DeliveredIsTyped
      <4>2. Attached(r) => sub'[r] # sub[r]
        <5>1. sub[r].queue \in Seq(Message)
          BY <1>3, Subscribers
        <5>2. Len(sub[r].queue) \in Nat /\ Len(Append(sub[r].queue, h)) = Len(sub[r].queue) + 1
          BY <3>3, <5>1, AppendProperties
        <5>3. Append(sub[r].queue, h) # sub[r].queue
          BY <5>2
        <5>4. Attached(r) => sub'[r].queue = Append(sub[r].queue, h)
          BY <4>1 DEF Subscribed
        <5>5. QED
          BY <5>3, <5>4
      <4>3. QED
        BY <1>7, <2>2, <3>2, <3>3, <4>1, <4>2
    <3>5. QED
      BY <1>4, <1>8, <1>9, <3>4
  <2>3. CASE ~SeedResume /\ ~PublishesHead
    <3>1. UNCHANGED sub /\ (Keeps \/ Links \/ Passes)
      BY <1>1, <1>9, <2>3, NextMoves DEF Ends, Streaming
    <3>2. \A y : Linked(y) => Linked(y)'
      BY <1>3, <2>3, <3>1, LinkedStays, CountParts
    <3>3. End \in Message
      BY DEF Message
    <3>4. ASSUME NEW r \in Readers PROVE Joins(sub[r])'
      BY <1>7, <2>3, <3>1, <3>2, <3>3
    <3>5. QED
      BY <1>4, <1>8, <1>9, <3>4
  <2>4. QED
    BY <2>1, <2>2, <2>3
<1>10. QED
  BY <1>6, <1>9

LEMMA SeamFollows == Steady /\ ReadInOrder /\ Joined => (closer # "gave up" => SeamIsExact)
<1> SUFFICES ASSUME Steady, ReadInOrder, Joined, ~GaveUp, NEW r \in Readers
             PROVE  /\ sub[r].pc \in {"live", "ended"} =>
                         \A m, n \in DOMAIN sub[r].got : m < n => sub[r].got[m].end <= sub[r].got[n].start
                    /\ sub[r].pc = "live" /\ Quiet /\ Streaming =>
                         ConsumedItems(sub[r].from) \subseteq
                           Range(sub[r].got) \cup Range(sub[r].queue) \cup InFlight
  BY DEF SeamIsExact, Streaming, GaveUp
<1>1. TInv
  BY DEF Steady
<1>2. sub[r].queue \in Seq(Message) /\ sub[r].got \in Seq(Item)
  BY <1>1, Subscribers
<1>3. DOMAIN sub[r].queue = 1..Len(sub[r].queue) /\ DOMAIN sub[r].got = 1..Len(sub[r].got)
  BY <1>2
<1>4. \A m, n \in DOMAIN sub[r].got : m < n => sub[r].got[m].end <= sub[r].got[n].start
  BY <1>3 DEF ReadInOrder, Fits, GotFits, Ascending, Before
<1>5. ASSUME sub[r].pc = "live", Quiet, Streaming, NEW x \in ConsumedItems(sub[r].from)
      PROVE  x \in Range(sub[r].got) \cup Range(sub[r].queue) \cup InFlight
  <2>1. path # 0
    BY <1>5 DEF Quiet
  <2>2. Run(AllItems(path), 0, Count) /\ Count \in Nat
    BY <2>1, AllLines, CountParts DEF Steady
  <2>3. x \in Range(AllItems(path)) /\ x.start >= sub[r].from /\ x.end <= consumed
    BY <1>5 DEF ConsumedItems
  <2>4. PICK n \in 1..Len(AllItems(path)) : AllItems(path)[n] = x
    BY <2>2, <2>3 DEF Run, Range
  <2>5. n \in 1..Count /\ 0 + n = n /\ x = LineItem(0 + n)
    BY <2>2, <2>4 DEF Run
  <2>6. x = LineItem(n)
    BY <2>5
  <2>7. x.start = 2 * n - 2 /\ x.end = 2 * n
    BY <2>6, LineItemIs
  <2>8. Given(sub[r], x) \/ Waits(sub[r], x) \/ Linked(x)
    BY <1>5, <2>3, <2>5, <2>6, <2>7 DEF Joined, Joins
  <2>9. CASE Given(sub[r], x)
    BY <1>3, <2>9 DEF Given, Range
  <2>10. CASE Waits(sub[r], x)
    BY <1>3, <2>10 DEF Waits, Range
  <2>11. CASE Linked(x)
    <3>1. /\ \A l \in 1..Len(chain) : chain[l].items \in Seq(Item)
          /\ DOMAIN chain = 1..Len(chain)
      BY <1>1, ChainParts
    <3>2. PICK i \in 1..Len(chain) : \E k \in 1..Len(chain[i].items) : chain[i].items[k] = x
      BY <2>11 DEF Linked
    <3>3. x \in Range(chain[i].items)
      BY <3>1, <3>2 DEF Range
    <3>4. QED
      BY <3>1, <3>3 DEF InFlight
  <2>12. QED
    BY <2>8, <2>9, <2>10, <2>11
<1>6. QED
  BY <1>4, <1>5

\* Replay and live tail are one seam: whatever is appended, published or read
\* while a subscriber replays, and wherever its cursor is, it is given every line
\* from there on, in order and once, until the finalizer stops waiting for it
\* (Journal.ts:83-86, engine.ts:534-569).
THEOREM SeamHolds ==
  ASSUME Ruly, ~MayInterrupt, "odd" \notin Kinds
  PROVE  Spec => [](closer # "gave up" => SeamIsExact)
<1>1. Init => Joined
  <2> SUFFICES ASSUME Init, NEW r \in Readers PROVE sub[r].pc = "off" /\ Joins(sub[r])
    BY DEF Joined
  <2>1. sub[r].pc = "off"
    BY DEF Init, NotSubscribed
  <2>2. QED
    BY <2>1, NotJoining
<1>2. Undisturbed => Steady
  BY DEF Undisturbed
<1>3. QED
  BY <1>1, <1>2, UndisturbedHolds, InitInOrder, NextInOrder, InitReadInOrder, NextReadInOrder, NextJoined,
     SeamFollows, PTL DEF Spec
==============================================================================
