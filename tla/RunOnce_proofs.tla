-------------------------- MODULE RunOnce_proofs --------------------------
(***************************************************************************)
(* RunOnce, for any processes, hosts, crashes and failures: the exclusion  *)
(* of breakers (takeBreaker in runOnceMachine.ts), whatever the ages; then *)
(* types; then, while no work outlives the ages that protect a live owner, *)
(* the exclusion of workers, the soundness of trust, and what is left.     *)
(*                                                                         *)
(* The argument for the breakers is the one the code's comment gives.  A   *)
(* process that has listed the tickets has its own among them, so of two   *)
(* that have listed, the later one found the ticket of the earlier one: it *)
(* still has to judge it, or has judged it live and is contended.  Whoever *)
(* acts has judged every ticket and is not contended, so two cannot act    *)
(* together.                                                               *)
(***************************************************************************)
EXTENDS RunOnce, TLAPS

Ticketed == {"ink", "list", "rivals"} \cup Breaking
Listed == {"rivals"} \cup Breaking
Outside == PcValues \ Ticketed

Shape ==
    /\ pc \in [Procs -> PcValues]
    /\ tickets \subseteq Ticket
    /\ todo \in [Procs -> SUBSET Ticket]
    /\ contended \in [Procs -> BOOLEAN]

HasTicket == \A p \in Procs : pc[p] \in Ticketed => TicketOf(p) \in tickets

(* p knows that q contends: it is still to judge q's ticket, or has found  *)
(* some ticket live.                                                       *)
Knows(p, q) == TicketOf(q) \in todo[p] \/ contended[p]

Aware ==
    \A p, q \in Procs :
        p # q /\ pc[p] \in Listed /\ pc[q] \in Listed => Knows(p, q) \/ Knows(q, p)

Clear == \A p \in Procs : pc[p] \in Breaking => todo[p] = {} /\ ~contended[p]

IInv == Shape /\ HasTicket /\ Aware /\ Clear

LEMMA TicketsDiffer ==
    ASSUME NEW p \in Procs, NEW q \in Procs
    PROVE  /\ TicketOf(p) \in Ticket
           /\ p # q => TicketOf(p) # TicketOf(q)
           /\ TicketOf(p).of = p /\ TicketOf(p).left = FALSE
BY DEF TicketOf, Ticket

LEMMA Places ==
    /\ Breaking \subseteq Listed /\ Listed \subseteq Ticketed /\ Ticketed \subseteq PcValues
    /\ Outside \cap Ticketed = {} /\ Outside \subseteq PcValues
    /\ "rivals" \notin Breaking /\ "rivals" \in Listed
    /\ {"ink", "list"} \cap Listed = {} /\ {"ink", "list"} \subseteq Ticketed
    /\ {"idle", "ended", "crashed"} \subseteq Outside
BY DEF Breaking, Listed, Ticketed, Outside, PcValues, Working, Releasing

-----------------------------------------------------------------------------
(* A process that stays away from the tickets, or goes on acting.          *)
LEMMA Elsewhere ==
    ASSUME IInv, NEW p \in Procs,
           \/ pc[p] \in Outside /\ pc'[p] \in Outside
           \/ pc[p] \in Breaking /\ pc'[p] \in Breaking,
           pc' = [pc EXCEPT ![p] = pc'[p]],
           UNCHANGED <<tickets, todo, contended>>
    PROVE  IInv'
<1>1. Shape'
  BY Places DEF IInv, Shape
<1>2. \A q \in Procs : pc'[q] \in Ticketed => pc[q] \in Ticketed
  BY Places DEF IInv, Shape
<1>3. \A q \in Procs : pc'[q] \in Listed => pc[q] \in Listed
  BY Places DEF IInv, Shape
<1>4. \A q \in Procs : pc'[q] \in Breaking => pc[q] \in Breaking
  BY Places DEF IInv, Shape
<1>5. HasTicket'
  BY <1>2 DEF IInv, HasTicket, TicketOf
<1>6. Aware'
  BY <1>3 DEF IInv, Aware, Knows, TicketOf
<1>7. Clear'
  BY <1>4 DEF IInv, Clear
<1> QED BY <1>1, <1>5, <1>6, <1>7 DEF IInv

(* A process that leaves, its ticket torn up or not, and its lists cleared *)
(* or not.  The tickets of the others stay where they are.                 *)
LEMMA Leaves ==
    ASSUME IInv, NEW p \in Procs, NEW there \in Outside,
           pc' = [pc EXCEPT ![p] = there],
           tickets' \subseteq Ticket,
           todo' \in [Procs -> SUBSET Ticket],
           contended' \in [Procs -> BOOLEAN],
           \A q \in Procs \ {p} : TicketOf(q) \in tickets => TicketOf(q) \in tickets',
           \A q, r \in Procs \ {p} : TicketOf(q) \in todo[r] => TicketOf(q) \in todo'[r],
           \A r \in Procs \ {p} : todo[r] = {} => todo'[r] = {},
           \A r \in Procs \ {p} : contended'[r] = contended[r]
    PROVE  IInv'
<1>1. Shape'
  BY Places DEF IInv, Shape
<1>2. \A q \in Procs : pc'[q] \in Ticketed => q # p /\ pc'[q] = pc[q]
  BY Places DEF IInv, Shape
<1>3. HasTicket'
  BY <1>2 DEF IInv, HasTicket, TicketOf
<1>4. \A q \in Procs : pc'[q] \in Listed => q \in Procs \ {p} /\ pc[q] \in Listed
  BY <1>2, Places
<1>5. Aware'
  <2> SUFFICES ASSUME NEW q \in Procs, NEW r \in Procs, q # r,
                      pc'[q] \in Listed, pc'[r] \in Listed
               PROVE  Knows(q, r)' \/ Knows(r, q)'
    BY DEF Aware
  <2>1. Knows(q, r) \/ Knows(r, q)
    BY <1>4 DEF IInv, Aware
  <2>2. Knows(q, r) => Knows(q, r)'
    BY <1>4 DEF Knows, TicketOf
  <2>3. Knows(r, q) => Knows(r, q)'
    BY <1>4 DEF Knows, TicketOf
  <2> QED BY <2>1, <2>2, <2>3
<1>6. Clear'
  BY <1>2, Places DEF IInv, Clear
<1> QED BY <1>1, <1>3, <1>5, <1>6 DEF IInv

LEMMA TornUp ==
    ASSUME IInv, NEW p \in Procs, NEW there \in Outside,
           pc' = [pc EXCEPT ![p] = there], TearUp(TicketOf(p)),
           contended' = [contended EXCEPT ![p] = FALSE] \/ UNCHANGED contended
    PROVE  IInv'
<1>1. \A q \in Procs \ {p} : TicketOf(q) # TicketOf(p)
  BY TicketsDiffer
<1>2. tickets' \subseteq Ticket /\ todo' \in [Procs -> SUBSET Ticket] /\ contended' \in [Procs -> BOOLEAN]
  BY DEF IInv, Shape, TearUp
<1>3. \A r \in Procs : todo'[r] = todo[r] \ {TicketOf(p)}
  BY DEF TearUp
<1>4. tickets' = tickets \ {TicketOf(p)}
  BY DEF TearUp
<1>5. \A r \in Procs \ {p} : contended'[r] = contended[r]
  BY DEF IInv, Shape
<1>6. \A q \in Procs \ {p} : TicketOf(q) \in tickets => TicketOf(q) \in tickets'
  BY <1>1, <1>4
<1>7. \A q, r \in Procs \ {p} : TicketOf(q) \in todo[r] => TicketOf(q) \in todo'[r]
  BY <1>1, <1>3
<1>8. \A r \in Procs \ {p} : todo[r] = {} => todo'[r] = {}
  BY <1>3
<1> QED BY <1>2, <1>5, <1>6, <1>7, <1>8, Leaves

-----------------------------------------------------------------------------
LEMMA Initially == Init => IInv
BY Places DEF Init, IInv, Shape, HasTicket, Aware, Clear, Knows, Ticket,
              PcValues, Ticketed, Listed, Breaking, Working, Releasing

(* The steps that touch the tickets.                                       *)
LEMMA TicketSteps ==
    ASSUME IInv, NEW p \in Procs,
           TakeTicket(p) \/ InkTicket(p) \/ List(p) \/ JudgeRival(p)
             \/ Withdraw(p) \/ Proceed(p) \/ Unticket(p)
    PROVE  IInv'
<1>1. ASSUME TakeTicket(p) PROVE IInv'
  <2>0. pc[p] \in Outside /\ "pause" \in Outside
    BY <1>1 DEF TakeTicket, Outside, PcValues, Ticketed, Breaking, Working, Releasing
  <2>1. CASE Goto(p, "pause") /\ UNCHANGED tickets
    <3>1. pc'[p] = "pause" /\ pc' = [pc EXCEPT ![p] = pc'[p]]
      BY <2>1 DEF Goto, IInv, Shape
    <3> QED BY <1>1, <2>0, <2>1, <3>1, Elsewhere DEF TakeTicket
  <2>2. CASE Goto(p, "ink") /\ tickets' = tickets \cup {TicketOf(p)}
    <3>1. pc' = [pc EXCEPT ![p] = "ink"] /\ UNCHANGED <<todo, contended>>
      BY <1>1, <2>2 DEF TakeTicket, Goto
    <3>2. Shape'
      BY <2>2, <3>1, TicketsDiffer, Places DEF IInv, Shape
    <3>3. HasTicket'
      BY <2>2, <3>1 DEF IInv, Shape, HasTicket, TicketOf
    <3>4. \A q \in Procs : pc'[q] \in Listed => pc[q] \in Listed
      BY <3>1, Places DEF IInv, Shape
    <3>5. Aware'
      BY <3>1, <3>4 DEF IInv, Aware, Knows, TicketOf
    <3>6. Clear'
      BY <3>1, Places DEF IInv, Shape, Clear
    <3> QED BY <3>2, <3>3, <3>5, <3>6 DEF IInv
  <2> QED BY <1>1, <2>1, <2>2 DEF TakeTicket
<1>2. ASSUME InkTicket(p) PROVE IInv'
  <2>1. CASE Goto(p, "list") /\ UNCHANGED <<tickets, todo>>
    <3>1. pc' = [pc EXCEPT ![p] = "list"] /\ UNCHANGED <<tickets, todo, contended>> /\ pc[p] = "ink"
      BY <1>2, <2>1 DEF InkTicket, Goto
    <3>2. Shape'
      BY <3>1, Places DEF IInv, Shape
    <3>3. HasTicket'
      BY <3>1, Places DEF IInv, Shape, HasTicket, TicketOf
    <3>4. \A q \in Procs : pc'[q] \in Listed => pc[q] \in Listed
      BY <3>1, Places DEF IInv, Shape
    <3>5. Aware'
      BY <3>1, <3>4 DEF IInv, Aware, Knows, TicketOf
    <3>6. Clear'
      BY <3>1, Places DEF IInv, Shape, Clear
    <3> QED BY <3>2, <3>3, <3>5, <3>6 DEF IInv
  <2>2. CASE /\ Goto(p, "pause")
             /\ LET Leave(S) == IF TicketOf(p) \in S
                                THEN (S \ {TicketOf(p)}) \cup {[of |-> p, left |-> TRUE]} ELSE S
                IN  tickets' = Leave(tickets) /\ todo' = [q \in Procs |-> Leave(todo[q])]
    <3> DEFINE gone == [of |-> p, left |-> TRUE]
    <3>1. pc' = [pc EXCEPT ![p] = "pause"] /\ UNCHANGED contended /\ "pause" \in Outside
      BY <1>2, <2>2 DEF InkTicket, Goto, Outside, PcValues, Ticketed, Breaking
    <3>2. gone \in Ticket
      BY DEF Ticket
    <3>3. tickets' = IF TicketOf(p) \in tickets
                     THEN (tickets \ {TicketOf(p)}) \cup {gone} ELSE tickets
      BY <2>2
    <3>4. todo' = [q \in Procs |-> IF TicketOf(p) \in todo[q]
                     THEN (todo[q] \ {TicketOf(p)}) \cup {gone} ELSE todo[q]]
      BY <2>2
    <3>5. \A q \in Procs \ {p} : TicketOf(q) # TicketOf(p)
      BY TicketsDiffer
    <3> HIDE DEF gone
    <3>6. tickets' \subseteq Ticket
      BY <3>2, <3>3 DEF IInv, Shape
    <3>7. todo' \in [Procs -> SUBSET Ticket]
      BY <3>2, <3>4 DEF IInv, Shape
    <3>8. contended' \in [Procs -> BOOLEAN] /\ \A r \in Procs \ {p} : contended'[r] = contended[r]
      BY <3>1 DEF IInv, Shape
    <3>9. \A q \in Procs \ {p} : TicketOf(q) \in tickets => TicketOf(q) \in tickets'
      BY <3>3, <3>5
    <3>10. \A q, r \in Procs \ {p} : TicketOf(q) \in todo[r] => TicketOf(q) \in todo'[r]
      BY <3>4, <3>5
    <3>11. \A r \in Procs \ {p} : todo[r] = {} => todo'[r] = {}
      BY <3>4
    <3> QED BY <3>1, <3>6, <3>7, <3>8, <3>9, <3>10, <3>11, Leaves
  <2> QED BY <1>2, <2>1, <2>2 DEF InkTicket
<1>3. ASSUME List(p) PROVE IInv'
  <2>1. pc' = [pc EXCEPT ![p] = "rivals"] /\ pc[p] = "list" /\ UNCHANGED tickets
    BY <1>3 DEF List, Goto
  <2>2. \A q \in Procs \ {p} : todo'[q] = todo[q] /\ contended'[q] = contended[q] /\ pc'[q] = pc[q]
    BY <1>3, <2>1 DEF List, IInv, Shape
  <2>3. contended'[p] \/ todo'[p] = tickets \ {TicketOf(p)}
    BY <1>3 DEF List, IInv, Shape
  <2>4. Shape'
    BY <1>3, <2>1, Places DEF List, IInv, Shape
  <2>5. HasTicket'
    BY <2>1, Places DEF IInv, Shape, HasTicket, TicketOf
  <2>6. \A q \in Procs \ {p} : pc[q] \in Listed => Knows(p, q)'
    <3> SUFFICES ASSUME NEW q \in Procs \ {p}, pc[q] \in Listed
                 PROVE  Knows(p, q)'
      OBVIOUS
    <3>1. TicketOf(q) \in tickets /\ TicketOf(q) # TicketOf(p)
      BY Places, TicketsDiffer DEF IInv, HasTicket
    <3> QED BY <2>3, <3>1 DEF Knows, TicketOf
  <2>7. Aware'
    <3> SUFFICES ASSUME NEW q \in Procs, NEW r \in Procs, q # r,
                        pc'[q] \in Listed, pc'[r] \in Listed
                 PROVE  Knows(q, r)' \/ Knows(r, q)'
      BY DEF Aware
    <3>1. CASE q = p
      BY <2>2, <2>6, <3>1
    <3>2. CASE r = p
      BY <2>2, <2>6, <3>2
    <3>3. CASE q # p /\ r # p
      <4>1. Knows(q, r) \/ Knows(r, q)
        BY <2>2, <3>3 DEF IInv, Aware
      <4> QED BY <2>2, <3>3, <4>1 DEF Knows, TicketOf
    <3> QED BY <3>1, <3>2, <3>3
  <2>8. Clear'
    BY <2>1, <2>2, Places DEF IInv, Shape, Clear
  <2> QED BY <2>4, <2>5, <2>7, <2>8 DEF IInv
<1>4. ASSUME JudgeRival(p) PROVE IInv'
  <2>1. pc[p] = "rivals" /\ UNCHANGED pc
    BY <1>4 DEF JudgeRival
  <2>2. PICK t \in todo[p] :
          \/ Deserted(t) /\ TearUp(t) /\ UNCHANGED contended
          \/ /\ todo' = [todo EXCEPT ![p] = @ \ {t}]
             /\ contended' = [contended EXCEPT ![p] = TRUE]
             /\ UNCHANGED tickets
    BY <1>4 DEF JudgeRival
  <2>3. ASSUME Deserted(t), TearUp(t), UNCHANGED contended PROVE IInv'
    <3>1. \A q \in Procs : pc[q] \in Ticketed => TicketOf(q) # t
      <4> SUFFICES ASSUME NEW q \in Procs, pc[q] \in Ticketed, TicketOf(q) = t PROVE FALSE
        OBVIOUS
      <4>1. ~Live(q)
        BY <2>3, TicketsDiffer DEF Deserted
      <4> QED BY <4>1, Places DEF Live
    <3>2. tickets' = tickets \ {t} /\ \A q \in Procs : todo'[q] = todo[q] \ {t}
      BY <2>3 DEF TearUp
    <3>3. Shape'
      BY <2>1, <2>3 DEF TearUp, IInv, Shape
    <3>4. HasTicket'
      BY <2>1, <3>1, <3>2 DEF IInv, HasTicket, TicketOf
    <3>5. \A q, r \in Procs : pc[r] \in Listed /\ Knows(q, r) => Knows(q, r)'
      BY <2>3, <3>1, <3>2, Places DEF Knows, TicketOf
    <3>6. Aware'
      BY <2>1, <3>5 DEF IInv, Aware
    <3>7. Clear'
      BY <2>1, <2>3, <3>2 DEF IInv, Clear
    <3> QED BY <3>3, <3>4, <3>6, <3>7 DEF IInv
  <2>4. ASSUME todo' = [todo EXCEPT ![p] = @ \ {t}],
               contended' = [contended EXCEPT ![p] = TRUE], UNCHANGED tickets
        PROVE  IInv'
    <3>1. Shape'
      BY <2>1, <2>4 DEF IInv, Shape
    <3>2. HasTicket'
      BY <2>1, <2>4 DEF IInv, HasTicket, TicketOf
    <3>3. contended'[p] /\ \A q \in Procs \ {p} : todo'[q] = todo[q] /\ contended'[q] = contended[q]
      BY <2>4 DEF IInv, Shape
    <3>4. \A q, r \in Procs : Knows(q, r) => Knows(q, r)'
      BY <3>3 DEF Knows, TicketOf
    <3>5. Aware'
      BY <2>1, <3>4 DEF IInv, Aware
    <3>6. Clear'
      BY <2>1, <3>3, Places DEF IInv, Clear
    <3> QED BY <3>1, <3>2, <3>5, <3>6 DEF IInv
  <2> QED BY <2>2, <2>3, <2>4
<1>5. ASSUME Withdraw(p) PROVE IInv'
  <2>1. "pause" \in Outside
    BY DEF Outside, PcValues, Ticketed, Breaking
  <2> QED BY <1>5, <2>1, TornUp DEF Withdraw, Goto
<1>6. ASSUME Proceed(p) PROVE IInv'
  <2>1. /\ pc[p] = "rivals" /\ todo[p] = {} /\ ~contended[p]
        /\ pc' = [pc EXCEPT ![p] = "recheck"] /\ UNCHANGED <<tickets, todo, contended>>
    BY <1>6 DEF Proceed, Goto, breaking
  <2>2. "recheck" \in Breaking
    BY DEF Breaking
  <2>3. Shape'
    BY <2>1, <2>2, Places DEF IInv, Shape
  <2>4. HasTicket'
    BY <2>1, Places DEF IInv, Shape, HasTicket, TicketOf
  <2>5. \A q \in Procs : pc'[q] \in Listed => pc[q] \in Listed
    BY <2>1, Places DEF IInv, Shape
  <2>6. Aware'
    BY <2>1, <2>5 DEF IInv, Aware, Knows, TicketOf
  <2>7. Clear'
    BY <2>1 DEF IInv, Shape, Clear
  <2> QED BY <2>3, <2>4, <2>6, <2>7 DEF IInv
<1>7. ASSUME Unticket(p) PROVE IInv'
  <2>1. {"pause", "look"} \subseteq Outside
    BY DEF Outside, PcValues, Ticketed, Breaking
  <2>2. PICK there \in Outside : pc' = [pc EXCEPT ![p] = there]
    BY <1>7, <2>1 DEF Unticket, Goto
  <2> QED BY <1>7, <2>2, TornUp DEF Unticket
<1> QED BY <1>1, <1>2, <1>3, <1>4, <1>5, <1>6, <1>7

-----------------------------------------------------------------------------
(* The other steps of a process that breaks a lock.                        *)
LEMMA BreakingSteps ==
    ASSUME IInv, NEW p \in Procs,
           Recheck(p) \/ Rename(p) \/ Judge(p) \/ Restore(p) \/ Refill(p)
    PROVE  IInv'
<1>0. pc \in [Procs -> PcValues]
  BY DEF IInv, Shape
<1>1. UNCHANGED <<tickets, todo, contended>>
  BY DEF Recheck, Rename, Judge, Restore, Refill, breaking
<1>2. pc[p] \in Breaking
  BY DEF Recheck, Rename, Judge, Restore, Refill, Breaking
<1>3. PICK there \in Breaking : pc' = [pc EXCEPT ![p] = there]
  BY DEF Recheck, Rename, Judge, Restore, Refill, Breaking, Entomb, PutBack, Goto
<1>4. pc'[p] = there
  BY <1>0, <1>3
<1> QED BY <1>1, <1>2, <1>3, <1>4, Elsewhere

(* The steps of a process that does not break a lock.                      *)
LEMMA OutsideSteps ==
    ASSUME IInv, NEW p \in Procs,
           Call(p) \/ Poll(p) \/ Own(p) \/ Interrupt(p)
    PROVE  IInv'
<1>0. pc \in [Procs -> PcValues]
  BY DEF IInv, Shape
<1>1. UNCHANGED <<tickets, todo, contended>>
  BY DEF Call, Poll, Own, Interrupt, Look, Gauge, Decide, Pause, Create, Fill, Verify, Repair,
         Late, Succeed, FailWork, Truncate, Mark, Release, Rejudge, Reset, Rewrite, Alone, breaking
<1>2. pc[p] \in Outside
  BY DEF Call, Poll, Own, Interrupt, Look, Gauge, Decide, Pause, Create, Fill, Verify, Repair,
         Late, Succeed, FailWork, Truncate, Mark, Release, Rejudge, Reset, Rewrite, Alone,
         Outside, PcValues, Ticketed, Breaking, Working, Releasing
<1>3. \E there \in Outside : pc' = [pc EXCEPT ![p] = there]
  <2> USE DEF Goto, Outside, PcValues, Ticketed, Breaking, Working, Releasing
  <2>1. ASSUME Call(p) \/ Interrupt(p) PROVE \E there \in Outside : pc' = [pc EXCEPT ![p] = there]
    BY <2>1 DEF Call, Interrupt
  <2>2. ASSUME Look(p) \/ Gauge(p) \/ Pause(p)
        PROVE  \E there \in Outside : pc' = [pc EXCEPT ![p] = there]
    BY <2>2 DEF Look, Gauge, Pause
  <2>3. ASSUME Decide(p) PROVE \E there \in Outside : pc' = [pc EXCEPT ![p] = there]
    BY <2>3 DEF Decide
  <2>4. ASSUME Create(p) \/ Fill(p) \/ Verify(p) \/ Repair(p) \/ Late(p)
        PROVE  \E there \in Outside : pc' = [pc EXCEPT ![p] = there]
    BY <2>4 DEF Create, Fill, Verify, Repair, Late
  <2>5. ASSUME Succeed(p) \/ FailWork(p) \/ Truncate(p) \/ Mark(p) \/ Alone(p)
        PROVE  \E there \in Outside : pc' = [pc EXCEPT ![p] = there]
    BY <2>5 DEF Succeed, FailWork, Truncate, Mark, Alone
  <2>6. ASSUME Release(p) \/ Rejudge(p) \/ Reset(p) \/ Rewrite(p)
        PROVE  \E there \in Outside : pc' = [pc EXCEPT ![p] = there]
    BY <2>6 DEF Release, Rejudge, Reset, Rewrite, Entomb, PutBack
  <2> HIDE DEF Goto, Outside, PcValues, Ticketed, Breaking, Working, Releasing
  <2> QED BY <2>1, <2>2, <2>3, <2>4, <2>5, <2>6 DEF Poll, Own
<1>4. PICK there \in Outside : pc' = [pc EXCEPT ![p] = there]
  BY <1>3
<1>5. pc'[p] = there
  BY <1>0, <1>4
<1> QED BY <1>1, <1>2, <1>4, <1>5, Elsewhere

LEMMA CrashSteps ==
    ASSUME IInv, NEW p \in Procs, Crash(p)
    PROVE  IInv'
<1>1. /\ pc' = [pc EXCEPT ![p] = "crashed"] /\ UNCHANGED tickets
      /\ todo' = [todo EXCEPT ![p] = {}] /\ contended' = [contended EXCEPT ![p] = FALSE]
  BY DEF Crash, Goto
<1>2. tickets' \subseteq Ticket /\ todo' \in [Procs -> SUBSET Ticket] /\ contended' \in [Procs -> BOOLEAN]
  BY <1>1 DEF IInv, Shape
<1>3. \A q \in Procs \ {p} : todo'[q] = todo[q] /\ contended'[q] = contended[q]
  BY <1>1 DEF IInv, Shape
<1>4. "crashed" \in Outside
  BY Places
<1> QED BY <1>1, <1>2, <1>3, <1>4, Leaves

LEMMA Inductive == IInv /\ [Next]_vars => IInv'
<1> SUFFICES ASSUME IInv, [Next]_vars PROVE IInv'
  OBVIOUS
<1>1. ASSUME UNCHANGED <<pc, tickets, todo, contended>> PROVE IInv'
  BY <1>1 DEF IInv, Shape, HasTicket, Aware, Clear, Knows, TicketOf
<1>2. ASSUME NEW p \in Procs, Call(p) \/ Step(p) \/ Interrupt(p) PROVE IInv'
  BY <1>2, TicketSteps, BreakingSteps, OutsideSteps DEF Step, Break
<1>3. ASSUME NEW p \in Procs, Deadline(p) PROVE IInv'
  BY <1>1, <1>3 DEF Deadline, breaking
<1>4. ASSUME NEW p \in Procs, Crash(p) PROVE IInv'
  BY <1>4, CrashSteps
<1>5. ASSUME Age PROVE IInv'
  BY <1>1, <1>5 DEF Age, breaking
<1>6. ASSUME UNCHANGED vars PROVE IInv'
  BY <1>1, <1>6 DEF vars
<1> QED BY <1>2, <1>3, <1>4, <1>5, <1>6 DEF Next

LEMMA Excludes == IInv => BreakersExclude
BY Places DEF IInv, Aware, Knows, Clear, BreakersExclude

(* Of any number of processes, on any hosts, crashing at any moment, with  *)
(* file operations that fail, at most one acts on a lock it judged dead.   *)
THEOREM OneBreaker == Spec => []BreakersExclude
<1>1. Spec => []IInv
  BY Initially, Inductive, PTL DEF Spec
<1> QED BY <1>1, Excludes, PTL

(* Types.  A tomb is read only by the process that has filled it, and a    *)
(* nonce is written only by a process that has created a lock.             *)
Burying == {"judge", "restore", "refill", "rejudge", "reset", "rewrite"}
Owning == {"fill", "verify", "repair"} \cup Working \cup Releasing

Opened ==
    \A p \in Procs :
        /\ pc[p] \in Burying => tomb[p] # Absent
        /\ pc[p] \in Owning => creates[p] # 0

TInv == TypeOK /\ Opened

LEMMA MineIsNonce ==
    ASSUME TypeOK, NEW p \in Procs, creates[p] # 0
    PROVE  Mine(p) \in Nonces /\ Mine(p)[1] = p
BY RunOnceAssumption DEF TypeOK, Mine, Nonces

(* A file whose record is written.                                         *)
Inked(f, p, text) == IF Unwritten(f, p) THEN [f EXCEPT !.text = text, !.age = 0] ELSE f

LEMMA InkedFile ==
    ASSUME NEW f \in File \cup {Absent}, NEW p, NEW text \in Nonces \cup {Empty}
    PROVE  Inked(f, p, text) \in File \cup {Absent} /\ (f # Absent => Inked(f, p, text) # Absent)
<1>1. CASE f = Absent
  BY <1>1 DEF Inked, Unwritten
<1>2. CASE f \in File
  <2>1. [f EXCEPT !.text = text, !.age = 0] = [[f EXCEPT !.text = text] EXCEPT !.age = 0]
    BY <1>2, SMT DEF File
  <2>2. \A g \in File : [g EXCEPT !.text = text] \in File /\ [g EXCEPT !.age = 0] \in File
    BY DEF File
  <2>3. Inked(f, p, text) \in File
    BY <1>2, <2>1, <2>2 DEF Inked
  <2> QED BY <1>2, <2>3, RunOnceAssumption
<1> QED BY <1>1, <1>2

LEMMA Landed ==
    ASSUME NEW p, NEW tombs, NEW text, LandIn(tombs, p, text)
    PROVE  /\ lock' = Inked(lock, p, text)
           /\ tomb' = [q \in Procs |-> Inked(tombs[q], p, text)]
BY DEF LandIn, Inked

LEMMA LandedTypes ==
    ASSUME lock \in File \cup {Absent}, NEW tombs \in [Procs -> File \cup {Absent}],
           NEW p, NEW text \in Nonces \cup {Empty}, LandIn(tombs, p, text)
    PROVE  /\ lock' \in File \cup {Absent} /\ tomb' \in [Procs -> File \cup {Absent}]
           /\ \A q \in Procs : tombs[q] # Absent => tomb'[q] # Absent
<1>1. \A q \in Procs : tombs[q] \in File \cup {Absent}
  OBVIOUS
<1> QED BY <1>1, Landed, InkedFile

LEMMA NewFile ==
    ASSUME NEW p \in Procs
    PROVE  [by |-> p, text |-> Empty, age |-> 0] \in File
BY DEF File

LEMMA TypesInitially == Init => TInv
<1> SUFFICES ASSUME Init PROVE TInv
  OBVIOUS
<1>1. 0 \in 0..MaxCreates
  BY RunOnceAssumption
<1>2. TypeOK
  BY <1>1 DEF Init, TypeOK, PcValues
<1>3. Opened
  BY DEF Init, Opened, Burying, Owning, Working, Releasing
<1> QED BY <1>2, <1>3 DEF TInv

LEMMA PollTypes ==
    ASSUME TInv, NEW p \in Procs,
           Call(p) \/ Poll(p) \/ Interrupt(p) \/ Deadline(p)
    PROVE  TInv'
<1> USE DEF TInv, TypeOK, Opened, PcValues, Burying, Owning, Working, Releasing, Breaking,
            Goto, files, breaking, memory, history
<1>1. ASSUME Call(p) PROVE TInv'
  BY <1>1 DEF Call, Over
<1>2. ASSUME Look(p) PROVE TInv'
  BY <1>2 DEF Look, File
<1>3. ASSUME Gauge(p) PROVE TInv'
  <2>1. PICK record \in Nonces \cup {Empty, Absent}, found \in BOOLEAN, more \in SUBSET Nonces :
          /\ owner' = [owner EXCEPT ![p] = record]
          /\ ripe' = [ripe EXCEPT ![p] = found]
          /\ observed' = [observed EXCEPT ![p] = @ \cup more]
    <3>1. CASE owner[p] = Absent /\ lock = Absent
      <4>1. /\ owner' = [owner EXCEPT ![p] = Absent] /\ ripe' = [ripe EXCEPT ![p] = ripe[p]]
            /\ observed' = [observed EXCEPT ![p] = @ \cup {}]
        BY <1>3, <3>1 DEF Gauge
      <4> QED BY <4>1
    <3>2. CASE ~(owner[p] = Absent /\ lock = Absent)
      <4> DEFINE record == IF owner[p] = Absent THEN Empty ELSE owner[p]
                 age == IF lock = Absent THEN 0 ELSE lock.age
      <4>1. PICK alive :
              /\ owner' = [owner EXCEPT ![p] = record]
              /\ ripe' = [ripe EXCEPT ![p] = Breakable(alive, age)]
              /\ observed' = [observed EXCEPT ![p] = @ \cup ({record} \ {Empty})]
        BY <1>3, <3>2 DEF Gauge
      <4>2. Breakable(alive, age) \in BOOLEAN
        BY DEF Breakable
      <4>3. record \in Nonces \cup {Empty, Absent} /\ {record} \ {Empty} \in SUBSET Nonces
        OBVIOUS
      <4> QED BY <4>1, <4>2, <4>3
    <3> QED BY <3>1, <3>2
  <2> QED BY <1>3, <2>1 DEF Gauge
<1>4. ASSUME Decide(p) PROVE TInv'
  BY <1>4 DEF Decide, Trusts, Trust
<1>5. ASSUME Pause(p) \/ Interrupt(p) PROVE TInv'
  BY <1>5 DEF Pause, Interrupt
<1>6. ASSUME Deadline(p) PROVE TInv'
  BY <1>6 DEF Deadline
<1> QED BY <1>1, <1>2, <1>3, <1>4, <1>5, <1>6 DEF Poll

LEMMA TicketTypes ==
    ASSUME TInv, NEW p \in Procs,
           TakeTicket(p) \/ InkTicket(p) \/ List(p) \/ JudgeRival(p) \/ Withdraw(p) \/ Proceed(p)
    PROVE  TInv'
<1>1. /\ UNCHANGED <<files, memory, history>>
      /\ inked' \subseteq Procs /\ contended' \in [Procs -> BOOLEAN]
  BY DEF TakeTicket, InkTicket, List, JudgeRival, Withdraw, Proceed, breaking, TInv, TypeOK
<1>2. pc' = pc \/ \E there \in {"ink", "list", "rivals", "pause", "recheck"} : pc' = [pc EXCEPT ![p] = there]
  BY DEF TakeTicket, InkTicket, List, JudgeRival, Withdraw, Proceed, Goto
<1>3. pc' \in [Procs -> PcValues] /\ Opened'
  BY <1>1, <1>2 DEF TInv, TypeOK, Opened, PcValues, Burying, Owning, Working, Releasing, Breaking,
                    files, memory
<1>4. tickets' \subseteq Ticket /\ todo' \in [Procs -> SUBSET Ticket]
  <2> USE DEF TInv, TypeOK
  <2>1. [of |-> p, left |-> TRUE] \in Ticket /\ TicketOf(p) \in Ticket
    BY DEF Ticket, TicketOf
  <2>2. CASE TakeTicket(p)
    BY <2>1, <2>2 DEF TakeTicket
  <2>3. CASE InkTicket(p)
    <3> DEFINE gone == [of |-> p, left |-> TRUE]
               mine == TicketOf(p)
    <3>1. gone \in Ticket
      BY <2>1
    <3>2. \/ UNCHANGED <<tickets, todo>>
          \/ /\ tickets' = IF mine \in tickets THEN (tickets \ {mine}) \cup {gone} ELSE tickets
             /\ todo' = [q \in Procs |-> IF mine \in todo[q] THEN (todo[q] \ {mine}) \cup {gone} ELSE todo[q]]
      BY <2>3 DEF InkTicket
    <3> HIDE DEF gone, mine
    <3> QED BY <3>1, <3>2
  <2>4. CASE List(p)
    BY <2>4 DEF List
  <2>5. CASE JudgeRival(p)
    BY <2>5 DEF JudgeRival, TearUp
  <2>6. CASE Withdraw(p) \/ Proceed(p)
    BY <2>6 DEF Withdraw, Proceed, TearUp, breaking
  <2> QED BY <2>2, <2>3, <2>4, <2>5, <2>6
<1> QED BY <1>1, <1>3, <1>4 DEF TInv, TypeOK, files, memory, history

LEMMA BreakTypes ==
    ASSUME TInv, NEW p \in Procs, Break(p)
    PROVE  TInv'
<1> USE DEF TInv, TypeOK, Opened, PcValues, Burying, Owning, Working, Releasing, Breaking,
            Goto, files, breaking, memory, history
<1>1. ASSUME TakeTicket(p) \/ InkTicket(p) \/ List(p) \/ JudgeRival(p) \/ Withdraw(p) \/ Proceed(p)
      PROVE  TInv'
  BY <1>1, TicketTypes
<1>6. ASSUME Recheck(p) PROVE TInv'
  BY <1>6 DEF Recheck, File
<1>7. ASSUME Rename(p) PROVE TInv'
  BY <1>7 DEF Rename, Entomb
<1>8. ASSUME Judge(p) PROVE TInv'
  BY <1>8 DEF Judge, File
<1>9. ASSUME Restore(p) PROVE TInv'
  BY <1>9, NewFile DEF Restore, PutBack
<1>10. ASSUME Refill(p) PROVE TInv'
  <2>1. tomb[p] \in File /\ tomb[p].text \in Nonces \cup {Empty}
    BY <1>10 DEF Refill, File
  <2>2. lock' \in File \cup {Absent} /\ tomb' \in [Procs -> File \cup {Absent}]
    BY <1>10, <2>1, LandedTypes DEF Refill, Refilled
  <2>3. \A q \in Procs \ {p} : tomb[q] # Absent => tomb'[q] # Absent
    <3>1. CASE LandIn([tomb EXCEPT ![p] = Absent], p, tomb[p].text)
      <4> DEFINE tombs == [tomb EXCEPT ![p] = Absent]
      <4>1. tombs \in [Procs -> File \cup {Absent}] /\ \A q \in Procs \ {p} : tombs[q] = tomb[q]
        OBVIOUS
      <4>2. \A q \in Procs : tombs[q] # Absent => tomb'[q] # Absent
        BY <2>1, <3>1, <4>1, LandedTypes
      <4> QED BY <4>1, <4>2
    <3>2. CASE tomb' = [tomb EXCEPT ![p] = Absent]
      BY <3>2
    <3> QED BY <1>10, <3>1, <3>2 DEF Refill, Refilled
  <2> QED BY <1>10, <2>2, <2>3 DEF Refill
<1>11. ASSUME Unticket(p) PROVE TInv'
  BY <1>11 DEF Unticket, TearUp
<1> QED BY <1>1, <1>6, <1>7, <1>8, <1>9, <1>10, <1>11 DEF Break

LEMMA OwnTypes ==
    ASSUME TInv, NEW p \in Procs, Own(p)
    PROVE  TInv'
<1> USE DEF TInv, TypeOK, Opened, PcValues, Burying, Owning, Working, Releasing, Breaking,
            Goto, files, breaking, memory, history
<1>1. ASSUME Create(p) PROVE TInv'
  BY <1>1, NewFile, RunOnceAssumption DEF Create
<1>2. ASSUME Fill(p) PROVE TInv'
  BY <1>2, LandedTypes, MineIsNonce DEF Fill
<1>3. ASSUME Verify(p) PROVE TInv'
  BY <1>3 DEF Verify
<1>4. ASSUME Repair(p) PROVE TInv'
  BY <1>4, MineIsNonce DEF Repair, File
<1>5. ASSUME Late(p) PROVE TInv'
  BY <1>5 DEF Late, Trusts, Trust
<1>6. ASSUME Succeed(p) \/ FailWork(p) PROVE TInv'
  BY <1>6, MineIsNonce DEF Succeed, FailWork
<1>7. ASSUME Truncate(p) \/ Mark(p) PROVE TInv'
  BY <1>7, MineIsNonce DEF Truncate, Mark
<1>8. ASSUME Release(p) PROVE TInv'
  BY <1>8 DEF Release, Entomb
<1>9. ASSUME Rejudge(p) PROVE TInv'
  BY <1>9 DEF Rejudge
<1>10. ASSUME Reset(p) PROVE TInv'
  BY <1>10, NewFile DEF Reset, PutBack
<1>11. ASSUME Rewrite(p) PROVE TInv'
  <2>1. tomb[p] \in File /\ tomb[p].text \in Nonces \cup {Empty}
    BY <1>11 DEF Rewrite, File
  <2>2. lock' \in File \cup {Absent} /\ tomb' \in [Procs -> File \cup {Absent}]
    BY <1>11, <2>1, LandedTypes DEF Rewrite, Refilled
  <2>3. \A q \in Procs \ {p} : tomb[q] # Absent => tomb'[q] # Absent
    <3>1. CASE LandIn([tomb EXCEPT ![p] = Absent], p, tomb[p].text)
      <4> DEFINE tombs == [tomb EXCEPT ![p] = Absent]
      <4>1. tombs \in [Procs -> File \cup {Absent}] /\ \A q \in Procs \ {p} : tombs[q] = tomb[q]
        OBVIOUS
      <4>2. \A q \in Procs : tombs[q] # Absent => tomb'[q] # Absent
        BY <2>1, <3>1, <4>1, LandedTypes
      <4> QED BY <4>1, <4>2
    <3>2. CASE tomb' = [tomb EXCEPT ![p] = Absent]
      BY <3>2
    <3> QED BY <1>11, <3>1, <3>2 DEF Rewrite, Refilled
  <2> QED BY <1>11, <2>2, <2>3 DEF Rewrite
<1>12. ASSUME Alone(p) PROVE TInv'
  BY <1>12 DEF Alone
<1> QED BY <1>1, <1>2, <1>3, <1>4, <1>5, <1>6, <1>7, <1>8, <1>9, <1>10, <1>11, <1>12 DEF Own

LEMMA TypesInductive == TInv /\ [Next]_vars => TInv'
<1> SUFFICES ASSUME TInv, [Next]_vars PROVE TInv'
  OBVIOUS
<1>1. ASSUME NEW p \in Procs, Call(p) \/ Step(p) \/ Interrupt(p) \/ Deadline(p) PROVE TInv'
  BY <1>1, PollTypes, BreakTypes, OwnTypes DEF Step
<1>2. ASSUME NEW p \in Procs, Crash(p) PROVE TInv'
  BY <1>2 DEF Crash, TInv, TypeOK, Opened, PcValues, Burying, Owning, Working, Releasing,
              Breaking, Goto, history
<1>3. ASSUME Age PROVE TInv'
  BY <1>3, RunOnceAssumption DEF Age, File, TInv, TypeOK, Opened, breaking, memory, history
<1>4. ASSUME UNCHANGED vars PROVE TInv'
  BY <1>4 DEF vars, TInv, TypeOK, Opened
<1> QED BY <1>1, <1>2, <1>3, <1>4 DEF Next

-----------------------------------------------------------------------------
(* Custody: while no work outlives the ages that protect a live owner, the *)
(* lock a process keeps stays where it is.  A record is judged dead only   *)
(* when its process keeps no lock any more, and an empty lock only when    *)
(* the one who made it does not, so what is renamed is what was judged and *)
(* nothing is ever put back.                                               *)
Holding == {"verify", "release"} \cup Working
Keeping == {"fill"} \cup Holding
After == {"rejudge", "alone", "ended", "crashed"}
Unreached == {"repair", "restore", "refill", "reset", "rewrite"}
Judging == {"ticket", "ink", "list", "rivals", "recheck", "rename", "judge"}

Spread(q) == \E p \in Procs : Host[p] # Host[q]

(* q's record may be in a file, and q keeps no lock any more.              *)
Written(q) == creates[q] # 0 /\ pc[q] # "fill"
Lost(q) == creates[q] # 0 /\ pc[q] \notin Keeping

Once == \A p \in Procs : creates[p] # 0 => pc[p] \in Keeping \cup After

NotReached == \A p \in Procs : pc[p] \notin Unreached

Kept ==
    \A p \in Procs :
        /\ pc[p] = "fill" => lock # Absent /\ lock.by = p /\ lock.text = Empty /\ lock.age = 0
        /\ pc[p] \in Holding =>
             /\ lock # Absent /\ lock.text = Mine(p) /\ lock.age < 2
             /\ Spread(p) => lock.age = 0

LockOf ==
    lock # Absent =>
        /\ creates[Holder] # 0
        /\ pc[Holder] \in Keeping \/ MayLeave(Holder)
        /\ lock.text # Empty => Written(lock.text[1])
        /\ lock.text = Empty /\ lock.age > 0 => Lost(lock.by)

Judged ==
    \A p \in Procs :
        /\ owner[p] \notin {Absent, Empty} => Written(owner[p][1])
        /\ ripe[p] => pc[p] = "decide"
        /\ ripe[p] \/ pc[p] \in Judging => owner[p] # Absent
        /\ (ripe[p] \/ pc[p] \in Judging) /\ owner[p] # Empty => Lost(owner[p][1])

Breaks ==
    \A p \in Procs :
        /\ pc[p] = "rename" => lock # Absent /\ StillBreakable(owner[p], lock)
        /\ pc[p] = "judge" => /\ StillBreakable(owner[p], tomb[p])
                              /\ tomb[p].text = Empty => Lost(tomb[p].by)
        /\ pc[p] = "rejudge" => tomb[p].text = Mine(p)

CInv == Once /\ NotReached /\ Kept /\ LockOf /\ Judged /\ Breaks

LEMMA Stages ==
    /\ Working \subseteq Holding /\ Holding \subseteq Keeping /\ Keeping \subseteq Owning
    /\ "fill" \in Keeping /\ "fill" \notin Holding
    /\ Keeping \cap After = {} /\ Keeping \cap Unreached = {} /\ Keeping \cap Judging = {}
    /\ {"rename", "judge", "rejudge"} \cap Keeping = {}
    /\ {"rename", "judge"} \subseteq Judging /\ {"rename", "judge"} \subseteq Breaking
BY DEF Working, Holding, Keeping, Owning, Releasing, After, Unreached, Judging, Breaking

LEMMA LockTypes ==
    ASSUME TInv
    PROVE  /\ lock # Absent => lock \in File /\ lock.by \in Procs /\ lock.age \in 0..2
                               /\ lock.text \in Nonces \cup {Empty} /\ Holder \in Procs
           /\ \A p \in Procs : tomb[p] # Absent => tomb[p] \in File /\ tomb[p].by \in Procs
                               /\ tomb[p].text \in Nonces \cup {Empty}
           /\ \A n \in Nonces : n[1] \in Procs /\ n # Empty /\ n # Absent
BY RunOnceAssumption DEF TInv, TypeOK, File, Holder, Nonces

(* A step that leaves the files and the locks created alone, but for the   *)
(* private tomb of the process that makes it.                              *)
LEMMA Quiet ==
    ASSUME TInv, CInv, NEW p \in Procs, NEW there \in PcValues,
           pc[p] # "crashed", pc' = [pc EXCEPT ![p] = there],
           UNCHANGED <<lock, creates>>,
           \A q \in Procs \ {p} : owner'[q] = owner[q] /\ ripe'[q] = ripe[q] /\ tomb'[q] = tomb[q],
           there \notin Unreached \cup {"fill", "judge", "rejudge"},
           there \in Holding => pc[p] \in Holding,
           creates[p] # 0 => there \in Keeping \cup After,
           pc[p] \in Keeping => there \in Keeping \/ there = "crashed" \/ p \in Failing,
           owner'[p] \notin {Absent, Empty} => owner'[p][1] \in Procs /\ Written(owner'[p][1]),
           ripe'[p] => there = "decide",
           ripe'[p] \/ there \in Judging => owner'[p] # Absent,
           (ripe'[p] \/ there \in Judging) /\ owner'[p] # Empty => Lost(owner'[p][1]),
           there = "rename" => lock # Absent /\ StillBreakable(owner'[p], lock)
    PROVE  CInv'
<1>1. pc'[p] = there /\ \A q \in Procs \ {p} : pc'[q] = pc[q]
  BY DEF TInv, TypeOK
<1> DEFINE StillWritten(q) == creates[q] # 0 /\ pc'[q] # "fill"
           StillLost(q) == creates[q] # 0 /\ pc'[q] \notin Keeping
           StillLeaves(q) == pc'[q] = "crashed" \/ q \in Failing
<1>2. \A q \in Procs : Written(q) => StillWritten(q)
  BY <1>1 DEF Written
<1>3. \A q \in Procs : Lost(q) => StillLost(q)
  BY <1>1, Stages DEF Lost, Keeping
<1>4. Once'
  BY <1>1 DEF CInv, Once
<1>5. NotReached'
  BY <1>1 DEF CInv, NotReached
<1>6. \A q \in Procs : Mine(q)' = Mine(q) /\ (MayLeave(q) => StillLeaves(q))
  BY <1>1 DEF Mine, MayLeave
<1>7. Kept'
  <2>1. \A q \in Procs : pc'[q] = "fill" => pc[q] = "fill"
    BY <1>1
  <2>2. \A q \in Procs : pc'[q] \in Holding => pc[q] \in Holding
    BY <1>1
  <2> QED BY <1>6, <2>1, <2>2 DEF CInv, Kept, Spread
<1>8. LockOf'
  <2> SUFFICES ASSUME lock # Absent
               PROVE  /\ creates[Holder] # 0
                      /\ pc'[Holder] \in Keeping \/ StillLeaves(Holder)
                      /\ lock.text # Empty => StillWritten(lock.text[1])
                      /\ lock.text = Empty /\ lock.age > 0 => StillLost(lock.by)
    BY DEF LockOf, Holder, Written, Lost, MayLeave
  <2>1. Holder \in Procs /\ lock.by \in Procs /\ (lock.text # Empty => lock.text[1] = Holder)
    BY LockTypes DEF Holder
  <2>2. creates[Holder] # 0
    BY DEF CInv, LockOf
  <2>3. pc'[Holder] \in Keeping \/ StillLeaves(Holder)
    <3>1. pc[Holder] \in Keeping \/ MayLeave(Holder)
      BY DEF CInv, LockOf
    <3>2. pc[Holder] \in Keeping => pc'[Holder] \in Keeping \/ pc'[Holder] = "crashed" \/ Holder \in Failing
      BY <1>1, <2>1
    <3> QED BY <1>6, <2>1, <3>1, <3>2 DEF MayLeave
  <2>4. lock.text # Empty => StillWritten(lock.text[1])
    BY <1>2, <2>1 DEF CInv, LockOf
  <2>5. lock.text = Empty /\ lock.age > 0 => StillLost(lock.by)
    BY <1>3, <2>1 DEF CInv, LockOf
  <2> QED BY <2>2, <2>3, <2>4, <2>5
<1>9. Judged'
  <2> SUFFICES ASSUME NEW q \in Procs
               PROVE  /\ owner'[q] \notin {Absent, Empty} => StillWritten(owner'[q][1])
                      /\ ripe'[q] => pc'[q] = "decide"
                      /\ ripe'[q] \/ pc'[q] \in Judging => owner'[q] # Absent
                      /\ (ripe'[q] \/ pc'[q] \in Judging) /\ owner'[q] # Empty => StillLost(owner'[q][1])
    BY DEF Judged, Written, Lost
  <2>1. owner'[q] \notin {Absent, Empty} => owner'[q][1] \in Procs
    <3>1. CASE q = p
      BY <3>1
    <3>2. CASE q # p
      BY <3>2, LockTypes DEF TInv, TypeOK
    <3> QED BY <3>1, <3>2
  <2>2. owner'[q] \notin {Absent, Empty} => Written(owner'[q][1])
    <3>1. CASE q = p
      BY <3>1
    <3>2. CASE q # p
      BY <3>2 DEF CInv, Judged
    <3> QED BY <3>1, <3>2
  <2>3. ripe'[q] => pc'[q] = "decide"
    BY <1>1 DEF CInv, Judged
  <2>4. ripe'[q] \/ pc'[q] \in Judging => owner'[q] # Absent
    BY <1>1 DEF CInv, Judged
  <2>5. (ripe'[q] \/ pc'[q] \in Judging) /\ owner'[q] # Empty => Lost(owner'[q][1])
    <3>1. CASE q = p
      BY <1>1, <3>1
    <3>2. CASE q # p
      BY <1>1, <3>2 DEF CInv, Judged
    <3> QED BY <3>1, <3>2
  <2> QED BY <1>2, <1>3, <2>1, <2>2, <2>3, <2>4, <2>5
<1>10. Breaks'
  <2> SUFFICES ASSUME NEW q \in Procs
               PROVE  /\ pc'[q] = "rename" => lock # Absent /\ StillBreakable(owner'[q], lock)
                      /\ pc'[q] = "judge" => /\ StillBreakable(owner'[q], tomb'[q])
                                             /\ tomb'[q].text = Empty => StillLost(tomb'[q].by)
                      /\ pc'[q] = "rejudge" => tomb'[q].text = Mine(q)
    BY <1>6 DEF Breaks, StillBreakable, Lost
  <2>1. CASE q = p
    BY <1>1, <2>1
  <2>2. CASE q # p
    <3>1. /\ pc[q] = "rename" => lock # Absent /\ StillBreakable(owner[q], lock)
          /\ pc[q] = "judge" => /\ StillBreakable(owner[q], tomb[q])
                                /\ tomb[q].text = Empty => Lost(tomb[q].by)
          /\ pc[q] = "rejudge" => tomb[q].text = Mine(q)
      BY DEF CInv, Breaks
    <3>2. pc[q] = "judge" => tomb[q].by \in Procs
      BY LockTypes DEF TInv, Opened, Burying
    <3> QED BY <1>1, <1>3, <2>2, <3>1, <3>2
  <2> QED BY <2>1, <2>2
<1> QED BY <1>4, <1>5, <1>7, <1>8, <1>9, <1>10 DEF CInv

(* The same for a step that keeps what a poll has found.                   *)
LEMMA QuietMove ==
    ASSUME TInv, CInv, NEW p \in Procs, NEW there \in PcValues,
           pc[p] # "crashed", pc' = [pc EXCEPT ![p] = there],
           UNCHANGED <<lock, creates, tomb>>,
           \A q \in Procs : owner'[q] = owner[q] \/ (q = p /\ owner'[q] = Absent),
           \A q \in Procs : ripe'[q] = ripe[q] \/ (q = p /\ ~ripe'[q]),
           there \notin Unreached \cup {"fill", "judge", "rejudge"},
           there \in Holding => pc[p] \in Holding,
           creates[p] # 0 => there \in Keeping \cup After,
           pc[p] \in Keeping => there \in Keeping \/ there = "crashed" \/ p \in Failing,
           pc[p] = "decide" => ~ripe'[p],
           there \in Judging => pc[p] \in Judging /\ owner'[p] = owner[p],
           there = "rename" => lock # Absent /\ StillBreakable(owner'[p], lock)
    PROVE  CInv'
<1>1. owner'[p] \notin {Absent, Empty} => owner'[p][1] \in Procs /\ Written(owner'[p][1])
  BY LockTypes DEF TInv, TypeOK, CInv, Judged
<1>2. ~ripe'[p]
  BY DEF CInv, Judged
<1>3. there \in Judging => owner'[p] # Absent
  BY DEF CInv, Judged
<1>4. there \in Judging /\ owner'[p] # Empty => Lost(owner'[p][1])
  BY DEF CInv, Judged
<1>5. \A q \in Procs \ {p} : owner'[q] = owner[q] /\ ripe'[q] = ripe[q] /\ tomb'[q] = tomb[q]
  OBVIOUS
<1> QED BY <1>1, <1>2, <1>3, <1>4, <1>5, Quiet

LEMMA QuietSteps ==
    ASSUME TInv, CInv, NEW p \in Procs,
           \/ Call(p) \/ Pause(p) \/ Interrupt(p) \/ TakeTicket(p) \/ InkTicket(p) \/ List(p)
           \/ Withdraw(p) \/ Proceed(p) \/ Recheck(p) \/ Unticket(p)
           \/ Late(p) \/ Succeed(p) \/ FailWork(p) \/ Truncate(p) \/ Mark(p) \/ Alone(p) \/ Verify(p)
    PROVE  CInv'
<1> USE DEF TInv, TypeOK, files, memory, history, breaking
<1>1. UNCHANGED <<lock, creates, tomb, ripe>> /\ \A q \in Procs : owner'[q] = owner[q] \/ (q = p /\ owner'[q] = Absent)
  BY DEF Call, Pause, Interrupt, TakeTicket, InkTicket, List, Withdraw, Proceed, Recheck, Unticket,
         Late, Succeed, FailWork, Truncate, Mark, Alone, Verify
<1>2. pc[p] \notin {"crashed", "decide", "fill"} \cup Holding \/ pc[p] \in Holding
  BY DEF Call, Pause, Interrupt, TakeTicket, InkTicket, List, Withdraw, Proceed, Recheck, Unticket,
         Late, Succeed, FailWork, Truncate, Mark, Alone, Verify, Holding, Working
<1>3. creates[p] # 0 => pc[p] \in Holding \/ pc[p] = "alone"
  BY <1>2 DEF CInv, Once, Keeping, After, Call, Pause, Interrupt, TakeTicket, InkTicket, List, Withdraw,
              Proceed, Recheck, Unticket, Alone, Late, Succeed, FailWork, Truncate, Mark, Verify, Holding, Working
<1>4. CASE Call(p) \/ Pause(p) \/ Interrupt(p)
  <2>1. PICK there \in {"look", "alone", "ended"} : pc' = [pc EXCEPT ![p] = there]
    BY <1>4 DEF Call, Pause, Interrupt, Goto
  <2>2. pc[p] \in {"idle", "pause"}
    BY <1>4 DEF Call, Pause, Interrupt
  <2> QED BY <1>1, <1>2, <1>3, <2>1, <2>2, QuietMove
          DEF PcValues, Unreached, Holding, Keeping, Judging, Working, After
<1>5. CASE TakeTicket(p) \/ InkTicket(p) \/ List(p) \/ Withdraw(p) \/ Proceed(p)
  <2>1. PICK there \in {"ink", "list", "rivals", "recheck", "pause"} : pc' = [pc EXCEPT ![p] = there]
    BY <1>5 DEF TakeTicket, InkTicket, List, Withdraw, Proceed, Goto
  <2>2. pc[p] \in {"ticket", "ink", "list", "rivals"} /\ UNCHANGED owner
    BY <1>5 DEF TakeTicket, InkTicket, List, Withdraw, Proceed
  <2> QED BY <1>1, <1>2, <1>3, <2>1, <2>2, QuietMove
          DEF PcValues, Unreached, Holding, Keeping, Judging, Working, Breaking, After
<1>6. CASE Recheck(p)
  <2>1. PICK there \in {"rename", "unticket"} :
          /\ pc' = [pc EXCEPT ![p] = there]
          /\ there = "rename" => lock # Absent /\ StillBreakable(owner[p], lock)
    BY <1>6 DEF Recheck, Goto
  <2>2. pc[p] = "recheck" /\ UNCHANGED owner
    BY <1>6 DEF Recheck
  <2> QED BY <1>1, <1>2, <1>3, <2>1, <2>2, QuietMove
          DEF PcValues, Unreached, Holding, Keeping, Judging, Working, Breaking, After
<1>7. CASE Unticket(p)
  <2>1. PICK there \in {"pause", "look"} : pc' = [pc EXCEPT ![p] = there]
    BY <1>7 DEF Unticket, Goto
  <2>2. pc[p] \in {"unticket", "stuck"}
    BY <1>7 DEF Unticket
  <2> QED BY <1>1, <1>2, <1>3, <2>1, <2>2, QuietMove
          DEF PcValues, Unreached, Holding, Keeping, Judging, Working, Breaking, After
<1>8. CASE Late(p) \/ Succeed(p) \/ FailWork(p) \/ Truncate(p) \/ Mark(p)
  <2>1. PICK there \in {"release", "run", "truncate", "mark"} : pc' = [pc EXCEPT ![p] = there]
    BY <1>8 DEF Late, Succeed, FailWork, Truncate, Mark, Goto
  <2>2. pc[p] \in Working /\ UNCHANGED owner
    BY <1>8 DEF Late, Succeed, FailWork, Truncate, Mark, Working
  <2> QED BY <1>1, <1>2, <1>3, <2>1, <2>2, QuietMove
          DEF PcValues, Unreached, Holding, Keeping, Judging, Working, Releasing, After
<1>9. CASE Verify(p)
  <2>1. lock # Absent /\ lock.text = Mine(p)
    BY <1>9 DEF CInv, Kept, Verify, Holding
  <2>2. pc' = [pc EXCEPT ![p] = "late"] /\ pc[p] = "verify" /\ UNCHANGED owner
    BY <1>9, <2>1 DEF Verify, Goto
  <2> QED BY <1>1, <1>2, <1>3, <2>2, QuietMove
          DEF PcValues, Unreached, Holding, Keeping, Judging, Working, After
<1>10. CASE Alone(p)
  <2>1. pc' = [pc EXCEPT ![p] = "ended"] /\ pc[p] = "alone" /\ UNCHANGED owner
    BY <1>10 DEF Alone, Goto
  <2> QED BY <1>1, <1>2, <1>3, <2>1, QuietMove
          DEF PcValues, Unreached, Holding, Keeping, Judging, Working, After
<1> QED BY <1>4, <1>5, <1>6, <1>7, <1>8, <1>9, <1>10

LEMMA CrashCustody ==
    ASSUME TInv, CInv, NEW p \in Procs, Crash(p)
    PROVE  CInv'
<1>1. /\ pc' = [pc EXCEPT ![p] = "crashed"] /\ UNCHANGED <<lock, creates>> /\ pc[p] # "crashed"
      /\ \A q \in Procs \ {p} : owner'[q] = owner[q] /\ ripe'[q] = ripe[q] /\ tomb'[q] = tomb[q]
      /\ owner'[p] = Absent /\ ~ripe'[p]
  BY DEF Crash, Goto, Live, TInv, TypeOK
<1> QED BY <1>1, Quiet DEF PcValues, Unreached, Holding, Keeping, Judging, Working, After

(* What a poll reads as a record is in the file.                           *)
LEMMA LookCustody ==
    ASSUME TInv, CInv, NEW p \in Procs, Look(p)
    PROVE  CInv'
<1> USE DEF TInv, TypeOK
<1>1. /\ pc' = [pc EXCEPT ![p] = "gauge"] /\ UNCHANGED <<lock, creates, tomb, ripe>> /\ pc[p] = "look"
      /\ \A q \in Procs \ {p} : owner'[q] = owner[q]
      /\ owner'[p] = IF lock = Absent THEN Absent ELSE lock.text
  BY DEF Look, Goto, files
<1>2. owner'[p] \notin {Absent, Empty} => owner'[p][1] \in Procs /\ Written(owner'[p][1])
  BY <1>1, LockTypes DEF CInv, LockOf
<1>3. ~ripe'[p]
  BY <1>1 DEF CInv, Judged
<1>4. creates[p] = 0
  BY <1>1 DEF CInv, Once, Keeping, Holding, Working, After
<1> QED BY <1>1, <1>2, <1>3, <1>4, Quiet DEF PcValues, Unreached, Holding, Keeping, Judging, Working, After

(* A record is found breakable only when its process keeps no lock.        *)
LEMMA GaugeCustody ==
    ASSUME TInv, CInv, NEW p \in Procs, Gauge(p)
    PROVE  CInv'
<1> USE DEF TInv, TypeOK
<1>1. /\ pc' = [pc EXCEPT ![p] = "decide"] /\ UNCHANGED <<lock, creates, tomb>> /\ pc[p] = "gauge"
      /\ \A q \in Procs \ {p} : owner'[q] = owner[q] /\ ripe'[q] = ripe[q]
  BY DEF Gauge, Goto, files
<1>2. creates[p] = 0 /\ ~ripe[p]
  BY <1>1 DEF CInv, Once, Keeping, Holding, Working, After, Judged
<1>3. CASE owner[p] = Absent /\ lock = Absent
  <2>1. owner'[p] = owner[p] /\ ~ripe'[p]
    BY <1>2, <1>3 DEF Gauge
  <2> QED BY <1>1, <1>2, <1>3, <2>1, Quiet DEF PcValues, Unreached, Holding, Keeping, Judging, Working, After
<1>4. CASE ~(owner[p] = Absent /\ lock = Absent)
  <2> DEFINE record == IF owner[p] = Absent THEN Empty ELSE owner[p]
             age == IF lock = Absent THEN 0 ELSE lock.age
  <2>1. PICK alive \in IF record = Empty THEN {"unknown"} ELSE Probes(p, record[1]) :
          owner'[p] = record /\ ripe'[p] = Breakable(alive, age)
    BY <1>4 DEF Gauge
  <2>2. record # Absent
    BY RunOnceAssumption
  <2>3. record # Empty => record[1] \in Procs /\ Written(record[1])
    BY LockTypes DEF CInv, Judged
  <2>4. ASSUME record # Empty, Breakable(alive, age) PROVE Lost(record[1])
    <3> DEFINE q == record[1]
    <3>1. q \in Procs /\ creates[q] # 0 /\ pc[q] # "fill"
      BY <2>3, <2>4 DEF Written
    <3>2. pc[q] \in Holding => lock # Absent /\ lock.age < 2 /\ (Spread(q) => lock.age = 0)
      BY <3>1 DEF CInv, Kept
    <3>3. pc[q] \in Holding => Live(q)
      BY DEF Live, Holding, Working
    <3>4. ~(pc[q] \in Holding)
      <4> SUFFICES ASSUME pc[q] \in Holding PROVE FALSE
        OBVIOUS
      <4>1. age < 2 /\ (Spread(q) => age = 0) /\ lock.age \in 0..2
        BY <3>2, LockTypes
      <4>2. alive \in Probes(p, q)
        BY <2>1, <2>4
      <4>3. alive = "unknown" => Spread(q)
        BY <3>3, <4>2 DEF Probes, Spread
      <4>4. alive # "dead"
        BY <3>3, <4>2 DEF Probes
      <4> QED BY <2>4, <3>2, <4>1, <4>3, <4>4 DEF Breakable
    <3> QED BY <3>1, <3>4 DEF Lost, Keeping
  <2> HIDE DEF record, age
  <2> QED BY <1>1, <1>2, <2>1, <2>2, <2>3, <2>4, Quiet
          DEF PcValues, Unreached, Holding, Keeping, Judging, Working, After
<1> QED BY <1>3, <1>4

LEMMA DecideCustody ==
    ASSUME TInv, CInv, NEW p \in Procs, Decide(p)
    PROVE  CInv'
<1> USE DEF TInv, TypeOK
<1>1. PICK there \in {"ended", "create", "alone", "ticket", "pause"} :
        /\ pc' = [pc EXCEPT ![p] = there]
        /\ there = "ticket" => ripe[p]
  BY DEF Decide, Goto
<1>2. UNCHANGED <<lock, creates, tomb>> /\ pc[p] = "decide" /\ pc'[p] = there
  BY <1>1 DEF Decide, files
<1>3. /\ \A q \in Procs \ {p} : owner'[q] = owner[q] /\ ripe'[q] = ripe[q]
      /\ ~ripe'[p] /\ owner'[p] = IF there = "ticket" THEN owner[p] ELSE Absent
  BY <1>2 DEF Decide
<1>4. creates[p] = 0
  BY <1>2 DEF CInv, Once, Keeping, Holding, Working, After
<1>5. owner[p] \notin {Absent, Empty} => owner[p][1] \in Procs /\ Written(owner[p][1])
  BY LockTypes DEF CInv, Judged
<1>6. there = "ticket" => owner[p] # Absent /\ (owner[p] # Empty => Lost(owner[p][1]))
  BY <1>1 DEF CInv, Judged
<1> QED BY <1>1, <1>2, <1>3, <1>4, <1>5, <1>6, Quiet
        DEF PcValues, Unreached, Holding, Keeping, Judging, Working, After

LEMMA FrameCustody ==
    ASSUME CInv, UNCHANGED <<lock, tomb, pc, creates, owner, ripe>>
    PROVE  CInv'
BY DEF CInv, Once, NotReached, Kept, LockOf, Judged, Breaks, Holder, MayLeave, Written, Lost, Mine,
       StillBreakable

(* The tomb a process judges holds what it judged before.                  *)
LEMMA TombCustody ==
    ASSUME TInv, CInv, NEW p \in Procs, Judge(p) \/ Rejudge(p)
    PROVE  CInv'
<1> USE DEF TInv, TypeOK
<1>1. CASE Judge(p)
  <2>1. pc[p] = "judge" /\ StillBreakable(owner[p], tomb[p])
    BY <1>1 DEF Judge, CInv, Breaks
  <2>2. /\ pc' = [pc EXCEPT ![p] = "unticket"] /\ UNCHANGED <<lock, creates, owner, ripe>>
        /\ \A q \in Procs \ {p} : tomb'[q] = tomb[q]
    BY <1>1, <2>1 DEF Judge, Goto
  <2>3. creates[p] = 0 /\ ~ripe[p]
    BY <2>1 DEF CInv, Once, Keeping, Holding, Working, After, Judged
  <2>4. owner[p] \notin {Absent, Empty} => owner[p][1] \in Procs /\ Written(owner[p][1])
    BY LockTypes DEF CInv, Judged
  <2> QED BY <2>1, <2>2, <2>3, <2>4, Quiet
          DEF PcValues, Unreached, Holding, Keeping, Judging, Working, Breaking, After
<1>2. CASE Rejudge(p)
  <2>1. pc[p] = "rejudge" /\ tomb[p].text = Mine(p)
    BY <1>2 DEF Rejudge, CInv, Breaks
  <2>2. /\ pc' = [pc EXCEPT ![p] = "ended"] /\ UNCHANGED <<lock, creates, owner, ripe>>
        /\ \A q \in Procs \ {p} : tomb'[q] = tomb[q]
    BY <1>2, <2>1 DEF Rejudge, Goto, memory
  <2>3. ~ripe[p]
    BY <2>1 DEF CInv, Judged
  <2>4. owner[p] \notin {Absent, Empty} => owner[p][1] \in Procs /\ Written(owner[p][1])
    BY LockTypes DEF CInv, Judged
  <2> QED BY <2>1, <2>2, <2>3, <2>4, Quiet
          DEF PcValues, Unreached, Holding, Keeping, Judging, Working, Breaking, After
<1> QED BY <1>1, <1>2

(* A lock is created where there is none, by a process that never had one. *)
LEMMA CreateCustody ==
    ASSUME TInv, CInv, NEW p \in Procs, Create(p)
    PROVE  CInv'
<1> USE DEF TInv, TypeOK
<1>0. pc[p] = "create" /\ creates[p] = 0 /\ ~ripe[p] /\ UNCHANGED <<tomb, owner, ripe>>
  BY DEF Create, CInv, Once, Keeping, Holding, Working, After, Judged
<1>1. CASE UNCHANGED <<lock, creates>>
  <2>1. PICK there \in {"look", "alone"} : pc' = [pc EXCEPT ![p] = there]
    BY <1>0, <1>1 DEF Create, Goto
  <2> QED BY <1>0, <1>1, <2>1, QuietMove
          DEF PcValues, Unreached, Holding, Keeping, Judging, Working, Breaking, After
<1>2. CASE ~UNCHANGED <<lock, creates>>
  <2>1. /\ lock = Absent /\ lock' = [by |-> p, text |-> Empty, age |-> 0]
        /\ creates' = [creates EXCEPT ![p] = @ + 1] /\ pc' = [pc EXCEPT ![p] = "fill"]
    BY <1>2 DEF Create, Goto
  <2>2. /\ creates'[p] # 0 /\ pc'[p] = "fill"
        /\ \A q \in Procs \ {p} : creates'[q] = creates[q] /\ pc'[q] = pc[q]
    BY <1>0, <2>1
  <2>3. lock' # Absent /\ lock'.by = p /\ lock'.text = Empty /\ lock'.age = 0
    BY <2>1, NewFile, RunOnceAssumption
  <2>4. Once'
    BY <2>2 DEF CInv, Once, Keeping
  <2>5. NotReached'
    BY <2>2 DEF CInv, NotReached, Unreached
  <2>6. \A q \in Procs : pc[q] \notin Keeping
    BY <2>1, Stages DEF CInv, Kept, Keeping
  <2>7. Kept'
    BY <2>2, <2>3, <2>6 DEF Kept, Keeping, Holding, Working
  <2>8. LockOf'
    BY <2>2, <2>3 DEF LockOf, Holder, Keeping
  <2>9. \A q \in Procs : creates[q] # 0 => q # p
    BY <1>0
  <2>10. \A q \in Procs : owner[q] \notin {Absent, Empty} => owner[q][1] \in Procs
    BY LockTypes
  <2>11. Judged'
    <3> SUFFICES ASSUME NEW q \in Procs
                 PROVE  /\ owner[q] \notin {Absent, Empty} => creates'[owner[q][1]] # 0 /\ pc'[owner[q][1]] # "fill"
                        /\ ripe[q] => pc'[q] = "decide"
                        /\ ripe[q] \/ pc'[q] \in Judging => owner[q] # Absent
                        /\ (ripe[q] \/ pc'[q] \in Judging) /\ owner[q] # Empty =>
                             creates'[owner[q][1]] # 0 /\ pc'[owner[q][1]] \notin Keeping
      BY <1>0 DEF Judged, Written, Lost
    <3>1. pc'[q] \in Judging => pc[q] \in Judging
      BY <2>2 DEF Judging
    <3>2. ripe[q] => pc'[q] = "decide"
      BY <1>0, <2>2 DEF CInv, Judged
    <3> QED BY <2>2, <2>9, <2>10, <3>1, <3>2 DEF CInv, Judged, Written, Lost
  <2>12. Breaks'
    <3> SUFFICES ASSUME NEW q \in Procs
                 PROVE  /\ pc'[q] # "rename"
                        /\ pc'[q] = "judge" =>
                             /\ StillBreakable(owner[q], tomb[q])
                             /\ tomb[q].text = Empty => creates'[tomb[q].by] # 0 /\ pc'[tomb[q].by] \notin Keeping
                        /\ pc'[q] = "rejudge" => tomb[q].text = <<q, creates'[q]>>
      BY <1>0 DEF Breaks, StillBreakable, Lost, Mine
    <3>1. pc'[q] # "rename"
      BY <2>1, <2>2 DEF CInv, Breaks
    <3>2. pc'[q] \in {"judge", "rejudge"} => q # p /\ pc[q] = pc'[q]
      BY <2>2
    <3>3. pc[q] = "judge" => tomb[q].by \in Procs
      BY LockTypes DEF Opened, Burying
    <3> QED BY <2>2, <2>9, <3>1, <3>2, <3>3 DEF CInv, Breaks, Lost, Mine
  <2> QED BY <2>4, <2>5, <2>7, <2>8, <2>11, <2>12 DEF CInv
<1> QED BY <1>1, <1>2

(* The record lands in the lock its process has made.                      *)
LEMMA FillCustody ==
    ASSUME TInv, CInv, NEW p \in Procs, Fill(p)
    PROVE  CInv'
<1> USE DEF TInv, TypeOK
<1>0. /\ pc[p] = "fill" /\ ~ripe[p] /\ UNCHANGED <<creates, owner, ripe>>
      /\ lock # Absent /\ lock.by = p /\ lock.text = Empty /\ lock.age = 0
  BY DEF Fill, memory, CInv, Kept, Judged
<1>1. CASE p \in Failing /\ UNCHANGED <<lock, tomb>> /\ Goto(p, "alone")
  BY <1>0, <1>1, QuietMove
     DEF Goto, PcValues, Unreached, Holding, Keeping, Judging, Working, Breaking, After
<1>2. CASE LandIn(tomb, p, Mine(p)) /\ Goto(p, "verify")
  <2>1. pc' = [pc EXCEPT ![p] = "verify"] /\ pc'[p] = "verify" /\ \A q \in Procs \ {p} : pc'[q] = pc[q]
    BY <1>2 DEF Goto
  <2>2. creates[p] # 0 /\ Mine(p) \in Nonces /\ Mine(p)[1] = p
    BY <1>0, MineIsNonce DEF Opened, Owning
  <2>3. lock' # Absent /\ lock'.by = p /\ lock'.text = Mine(p) /\ lock'.age = 0
    <3>1. lock' = [lock EXCEPT !.text = Mine(p), !.age = 0]
      BY <1>0, <1>2, Landed DEF Inked, Unwritten
    <3>2. lock \in File
      BY <1>0
    <3>3. ASSUME NEW f \in File, NEW text
          PROVE  LET g == [f EXCEPT !.text = text, !.age = 0]
                 IN  g.by = f.by /\ g.text = text /\ g.age = 0
      BY SMT DEF File
    <3>4. lock' # Absent
      BY <1>0, <1>2, <2>2, LandedTypes, InkedFile, Landed
    <3> QED BY <1>0, <3>1, <3>2, <3>3, <3>4
  <2>4. \A q \in Procs : pc[q] = "judge" /\ tomb[q].text = Empty => tomb[q].by # p
    BY <1>0 DEF CInv, Breaks, Lost, Keeping
  <2>5. \A q \in Procs : pc[q] \in {"judge", "rejudge"} => tomb'[q] = tomb[q]
    <3> SUFFICES ASSUME NEW q \in Procs, pc[q] \in {"judge", "rejudge"} PROVE tomb'[q] = tomb[q]
      OBVIOUS
    <3>1. ~Unwritten(tomb[q], p)
      <4>1. CASE pc[q] = "judge"
        BY <2>4, <4>1 DEF Unwritten
      <4>2. CASE pc[q] = "rejudge"
        <5>1. tomb[q].text = Mine(q) /\ creates[q] # 0
          BY <4>2 DEF CInv, Breaks, Opened, Owning, Releasing
        <5> QED BY <5>1, MineIsNonce, RunOnceAssumption DEF Unwritten
      <4> QED BY <4>1, <4>2
    <3>2. tomb'[q] = Inked(tomb[q], p, Mine(p))
      BY <1>2, Landed
    <3> QED BY <3>1, <3>2 DEF Inked
  <2>6. Once'
    BY <1>0, <2>1 DEF CInv, Once, Keeping, Holding
  <2>7. NotReached'
    BY <2>1 DEF CInv, NotReached, Unreached
  <2>8. \A q \in Procs \ {p} : pc[q] \notin Keeping
    <3> SUFFICES ASSUME NEW q \in Procs \ {p}, pc[q] \in Keeping PROVE FALSE
      OBVIOUS
    <3>1. pc[q] # "fill"
      BY <1>0 DEF CInv, Kept
    <3>2. lock.text = Mine(q) /\ creates[q] # 0
      BY <3>1, Stages DEF CInv, Kept, Keeping, Opened
    <3> QED BY <1>0, <3>2, MineIsNonce, RunOnceAssumption
  <2>9. Kept'
    BY <1>0, <2>1, <2>3, <2>8 DEF Kept, Keeping, Holding, Mine
  <2>10. LockOf'
    <3>1. Holder' = p /\ lock'.text[1] = p /\ lock'.text # Empty
      BY <2>2, <2>3, RunOnceAssumption DEF Holder
    <3> QED BY <1>0, <2>1, <2>2, <3>1 DEF LockOf, Keeping, Holding, Written
  <2>11. \A q \in Procs : (Written(q) => creates'[q] # 0 /\ pc'[q] # "fill")
                          /\ (Lost(q) => creates'[q] # 0 /\ pc'[q] \notin Keeping)
    BY <1>0, <2>1 DEF Written, Lost, Keeping
  <2>12. \A q \in Procs : owner[q] \notin {Absent, Empty} => owner[q][1] \in Procs
    BY LockTypes
  <2>13. Judged'
    <3> SUFFICES ASSUME NEW q \in Procs
                 PROVE  /\ owner[q] \notin {Absent, Empty} => creates'[owner[q][1]] # 0 /\ pc'[owner[q][1]] # "fill"
                        /\ ripe[q] => pc'[q] = "decide"
                        /\ ripe[q] \/ pc'[q] \in Judging => owner[q] # Absent
                        /\ (ripe[q] \/ pc'[q] \in Judging) /\ owner[q] # Empty =>
                             creates'[owner[q][1]] # 0 /\ pc'[owner[q][1]] \notin Keeping
      BY <1>0 DEF Judged, Written, Lost
    <3>1. pc'[q] \in Judging => pc[q] \in Judging
      BY <2>1 DEF Judging
    <3>2. ripe[q] => pc'[q] = "decide"
      BY <1>0, <2>1 DEF CInv, Judged
    <3> QED BY <2>11, <2>12, <3>1, <3>2 DEF CInv, Judged
  <2>14. Breaks'
    <3> SUFFICES ASSUME NEW q \in Procs
                 PROVE  /\ pc'[q] # "rename"
                        /\ pc'[q] = "judge" =>
                             /\ StillBreakable(owner[q], tomb'[q])
                             /\ tomb'[q].text = Empty => creates[tomb'[q].by] # 0 /\ pc'[tomb'[q].by] \notin Keeping
                        /\ pc'[q] = "rejudge" => tomb'[q].text = <<q, creates[q]>>
      BY <1>0 DEF Breaks, StillBreakable, Lost, Mine
    <3>1. pc'[q] # "rename"
      <4>1. pc[q] # "rename"
        BY <1>0 DEF CInv, Breaks, StillBreakable
      <4> QED BY <2>1, <4>1
    <3>2. pc'[q] \in {"judge", "rejudge"} => pc[q] = pc'[q]
      BY <2>1
    <3>3. pc[q] = "judge" => tomb[q].by \in Procs
      BY LockTypes DEF Opened, Burying
    <3> QED BY <1>0, <2>5, <2>11, <3>1, <3>2, <3>3 DEF CInv, Breaks, Mine
  <2> QED BY <2>6, <2>7, <2>9, <2>10, <2>13, <2>14 DEF CInv
<1> QED BY <1>1, <1>2 DEF Fill

(* A lock that nobody keeps is taken away.                                 *)
LEMMA Entombed ==
    ASSUME TInv, CInv, NEW p \in Procs, NEW there \in {"judge", "rejudge"},
           lock # Absent, lock' = Absent, tomb' = [tomb EXCEPT ![p] = lock],
           pc' = [pc EXCEPT ![p] = there], UNCHANGED <<creates, owner, ripe>>,
           pc[p] \in {"rename", "release"},
           \A q \in Procs \ {p} : pc[q] \notin Keeping \cup {"rename"},
           there = "judge" => /\ pc[p] = "rename" /\ StillBreakable(owner[p], lock)
                              /\ lock.text = Empty => Lost(lock.by),
           there = "rejudge" => pc[p] = "release" /\ lock.text = Mine(p)
    PROVE  CInv'
<1> USE DEF TInv, TypeOK
<1>1. pc'[p] = there /\ \A q \in Procs \ {p} : pc'[q] = pc[q] /\ tomb'[q] = tomb[q]
  OBVIOUS
<1>2. tomb'[p] = lock
  OBVIOUS
<1>3. Once'
  BY <1>1 DEF CInv, Once, Keeping, Holding, Working, After
<1>4. NotReached'
  BY <1>1 DEF CInv, NotReached, Unreached
<1>5. \A q \in Procs : pc'[q] \notin Keeping \cup {"rename"}
  BY <1>1, Stages
<1>6. Kept'
  BY <1>5 DEF Kept, Keeping
<1>7. LockOf'
  BY DEF LockOf
<1>8. \A q \in Procs : (Written(q) => creates'[q] # 0 /\ pc'[q] # "fill")
                       /\ (Lost(q) => creates'[q] # 0 /\ pc'[q] \notin Keeping)
  BY <1>5 DEF Written, Lost, Keeping
<1>9. \A q \in Procs : owner[q] \notin {Absent, Empty} => owner[q][1] \in Procs
  BY LockTypes
<1>10. Judged'
  <2> SUFFICES ASSUME NEW q \in Procs
               PROVE  /\ owner[q] \notin {Absent, Empty} => creates'[owner[q][1]] # 0 /\ pc'[owner[q][1]] # "fill"
                      /\ ripe[q] => pc'[q] = "decide"
                      /\ ripe[q] \/ pc'[q] \in Judging => owner[q] # Absent
                      /\ (ripe[q] \/ pc'[q] \in Judging) /\ owner[q] # Empty =>
                           creates'[owner[q][1]] # 0 /\ pc'[owner[q][1]] \notin Keeping
    BY DEF Judged, Written, Lost
  <2>1. pc'[q] \in Judging => pc[q] \in Judging
    BY <1>1 DEF Judging
  <2>2. ripe[q] => pc'[q] = "decide"
    BY <1>1 DEF CInv, Judged
  <2> QED BY <1>8, <1>9, <2>1, <2>2 DEF CInv, Judged
<1>11. Breaks'
  <2> SUFFICES ASSUME NEW q \in Procs
               PROVE  /\ pc'[q] # "rename"
                      /\ pc'[q] = "judge" =>
                           /\ StillBreakable(owner[q], tomb'[q])
                           /\ tomb'[q].text = Empty => creates[tomb'[q].by] # 0 /\ pc'[tomb'[q].by] \notin Keeping
                      /\ pc'[q] = "rejudge" => tomb'[q].text = <<q, creates[q]>>
    BY DEF Breaks, StillBreakable, Lost, Mine
  <2>1. lock.by \in Procs
    BY LockTypes
  <2>2. pc[q] = "judge" => tomb[q].by \in Procs
    BY LockTypes DEF Opened, Burying
  <2>3. CASE q = p
    BY <1>1, <1>2, <1>5, <1>8, <2>1, <2>3 DEF Mine
  <2>4. CASE q # p
    BY <1>1, <1>5, <1>8, <2>2, <2>4 DEF CInv, Breaks, Mine
  <2> QED BY <2>3, <2>4
<1> QED BY <1>3, <1>4, <1>6, <1>7, <1>10, <1>11 DEF CInv

(* Whoever keeps a lock keeps the only one.                                *)
LEMMA OneKeeper ==
    ASSUME TInv, CInv, NEW p \in Procs, NEW q \in Procs, pc[p] \in Keeping, pc[q] \in Keeping
    PROVE  p = q
<1>1. \A r \in Procs : pc[r] \in Holding => lock.text = Mine(r) /\ lock.text # Empty /\ lock.text[1] = r
  BY Stages, MineIsNonce, RunOnceAssumption DEF TInv, Opened, CInv, Kept
<1> QED BY <1>1 DEF CInv, Kept, Keeping

LEMMA RenameCustody ==
    ASSUME TInv, CInv, BreakersExclude, NEW p \in Procs, Rename(p)
    PROVE  CInv'
<1> USE DEF TInv, TypeOK
<1>0. /\ pc[p] = "rename" /\ lock # Absent /\ StillBreakable(owner[p], lock)
      /\ owner[p] # Absent /\ (owner[p] # Empty => Lost(owner[p][1])) /\ ~ripe[p] /\ creates[p] = 0
      /\ UNCHANGED <<creates, owner, ripe>>
  BY DEF Rename, memory, CInv, Breaks, Judged, Judging, Once, Keeping, Holding, Working, After
<1>1. CASE UNCHANGED <<lock, tomb>> /\ Goto(p, "stuck")
  BY <1>0, <1>1, QuietMove
     DEF Goto, PcValues, Unreached, Holding, Keeping, Judging, Working, Breaking, After
<1>2. CASE Entomb(p, "judge", "unticket")
  <2>1. /\ lock' = Absent /\ tomb' = [tomb EXCEPT ![p] = lock] /\ pc' = [pc EXCEPT ![p] = "judge"]
    BY <1>0, <1>2 DEF Entomb, Goto
  <2>2. lock.text = Empty => lock.age > 0 /\ Lost(lock.by)
    BY <1>0, LockTypes DEF StillBreakable, CInv, LockOf
  <2>3. \A q \in Procs \ {p} : pc[q] # "rename"
    BY <1>0 DEF BreakersExclude, Breaking
  <2>4. \A q \in Procs : pc[q] \notin Keeping
    <3> SUFFICES ASSUME NEW q \in Procs, pc[q] \in Keeping PROVE FALSE
      OBVIOUS
    <3>1. CASE pc[q] = "fill"
      BY <1>0, <2>2, <3>1, LockTypes DEF CInv, Kept
    <3>2. CASE pc[q] \in Holding
      <4>1. lock.text = Mine(q) /\ creates[q] # 0
        BY <3>2, Stages DEF CInv, Kept, Opened
      <4>2. lock.text # Empty /\ lock.text[1] = q
        BY <4>1, MineIsNonce, RunOnceAssumption
      <4>3. owner[p] = lock.text
        BY <1>0, <4>2 DEF StillBreakable
      <4> QED BY <1>0, <3>2, <4>2, <4>3 DEF Lost, Keeping
    <3> QED BY <3>1, <3>2 DEF Keeping
  <2> QED BY <1>0, <2>1, <2>2, <2>3, <2>4, Entombed
<1> QED BY <1>1, <1>2 DEF Rename

LEMMA ReleaseCustody ==
    ASSUME TInv, CInv, NEW p \in Procs, Release(p)
    PROVE  CInv'
<1> USE DEF TInv, TypeOK
<1>0. /\ pc[p] = "release" /\ lock # Absent /\ lock.text = Mine(p) /\ creates[p] # 0 /\ ~ripe[p]
      /\ UNCHANGED <<creates, owner, ripe>>
  BY DEF Release, memory, CInv, Kept, Judged, Holding, Opened, Owning, Releasing
<1>1. CASE p \in Failing /\ UNCHANGED <<lock, tomb>> /\ Goto(p, "ended")
  BY <1>0, <1>1, QuietMove
     DEF Goto, PcValues, Unreached, Holding, Keeping, Judging, Working, Breaking, After
<1>2. CASE Entomb(p, "rejudge", "ended")
  <2>1. /\ lock' = Absent /\ tomb' = [tomb EXCEPT ![p] = lock] /\ pc' = [pc EXCEPT ![p] = "rejudge"]
    BY <1>0, <1>2 DEF Entomb, Goto
  <2>2. \A q \in Procs \ {p} : pc[q] \notin Keeping
    BY <1>0, OneKeeper DEF Keeping, Holding
  <2>3. \A q \in Procs : pc[q] # "rename"
    <3> SUFFICES ASSUME NEW q \in Procs, pc[q] = "rename" PROVE FALSE
      OBVIOUS
    <3>1. /\ StillBreakable(owner[q], lock) /\ owner[q] # Absent
          /\ owner[q] # Empty => Lost(owner[q][1])
      BY DEF CInv, Breaks, Judged, Judging
    <3>2. lock.text # Empty /\ lock.text[1] = p
      BY <1>0, MineIsNonce, RunOnceAssumption
    <3>3. owner[q] = lock.text
      BY <3>1, <3>2 DEF StillBreakable
    <3> QED BY <1>0, <3>1, <3>2, <3>3 DEF Lost, Keeping, Holding
  <2> QED BY <1>0, <2>1, <2>2, <2>3, Entombed
<1> QED BY <1>1, <1>2 DEF Release

(* A live owner's lock grows no older than the rules that protect it say.  *)
LEMMA AgeCustody ==
    ASSUME TInv, CInv, ~MayOutlive, Age
    PROVE  CInv'
<1> USE DEF TInv, TypeOK
<1>1. /\ lock # Absent /\ lock.age < 2 /\ ~Sheltered /\ lock' = [lock EXCEPT !.age = @ + 1]
      /\ UNCHANGED <<tomb, pc, creates, owner, ripe>>
  BY DEF Age, memory
<1>2. /\ lock \in File /\ lock.by \in Procs /\ lock.text \in Nonces \cup {Empty} /\ Holder \in Procs
      /\ lock.age \in 0..2
  BY <1>1, LockTypes
<1>3. lock'.by = lock.by /\ lock'.text = lock.text /\ lock'.age = lock.age + 1 /\ lock' # Absent
  <2>1. lock' \in File
    BY <1>1, <1>2 DEF File
  <2> QED BY <1>1, <1>2, <2>1, RunOnceAssumption DEF File
<1>4. Holder' = Holder
  BY <1>3 DEF Holder
<1>5. \A q \in Procs : pc[q] \in Keeping => Live(q)
  BY DEF Live, Keeping, Holding, Working
<1>6. \A q \in Procs : pc[q] \in Holding => Holder = q
  BY Stages, MineIsNonce, RunOnceAssumption DEF Opened, CInv, Kept, Holder
<1>7. \A q \in Procs : pc[q] \in Holding => lock.age = 0 /\ ~Spread(q)
  BY <1>1, <1>2, <1>5, <1>6 DEF Keeping, Sheltered, Spread, CInv, Kept
<1>8. lock.text = Empty => ~Live(lock.by)
  BY <1>1 DEF Sheltered, Holder
<1>9. \A q \in Procs : pc[q] # "fill"
  BY <1>5, <1>8 DEF CInv, Kept, Keeping
<1>10. Kept'
  BY <1>1, <1>3, <1>7, <1>9 DEF CInv, Kept, Mine, Spread
<1>11. LockOf'
  <2>1. creates[Holder] # 0 /\ (pc[Holder] \in Keeping \/ MayLeave(Holder))
        /\ (lock.text # Empty => Written(lock.text[1]))
    BY <1>1 DEF CInv, LockOf
  <2>2. lock.text = Empty => Lost(lock.by)
    BY <1>2, <1>5, <1>8, <2>1 DEF Lost, Holder
  <2> QED BY <1>1, <1>3, <1>4, <2>1, <2>2 DEF LockOf, MayLeave, Written, Lost
<1>12. Breaks'
  <2>1. \A e : StillBreakable(e, lock) => StillBreakable(e, lock')
    BY <1>2, <1>3 DEF StillBreakable
  <2> QED BY <1>1, <1>3, <2>1 DEF CInv, Breaks, StillBreakable, Lost, Mine
<1> QED BY <1>1, <1>10, <1>11, <1>12 DEF CInv, Once, NotReached, Judged, Written, Lost

LEMMA NoPutBack ==
    ASSUME CInv, NEW p \in Procs
    PROVE  ~(Repair(p) \/ Restore(p) \/ Refill(p) \/ Reset(p) \/ Rewrite(p))
BY DEF CInv, NotReached, Unreached, Repair, Restore, Refill, Reset, Rewrite

LEMMA CustodyInitially == Init => CInv
BY DEF Init, CInv, Once, NotReached, Kept, LockOf, Judged, Breaks, Unreached, Holding, Working, Judging

LEMMA CustodyInductive ==
    ASSUME ~MayOutlive
    PROVE  TInv /\ BreakersExclude /\ CInv /\ [Next]_vars => CInv'
<1> SUFFICES ASSUME TInv, BreakersExclude, CInv, [Next]_vars PROVE CInv'
  OBVIOUS
<1>1. ASSUME NEW p \in Procs, Call(p) \/ Poll(p) \/ Interrupt(p) PROVE CInv'
  BY <1>1, QuietSteps, LookCustody, GaugeCustody, DecideCustody DEF Poll
<1>2. ASSUME NEW p \in Procs, JudgeRival(p) \/ Deadline(p) PROVE CInv'
  BY <1>2, FrameCustody DEF JudgeRival, Deadline, files, memory
<1>3. ASSUME NEW p \in Procs, Break(p) PROVE CInv'
  BY <1>2, <1>3, QuietSteps, RenameCustody, TombCustody, NoPutBack DEF Break
<1>4. ASSUME NEW p \in Procs, Own(p) PROVE CInv'
  BY <1>4, QuietSteps, CreateCustody, FillCustody, ReleaseCustody, TombCustody, NoPutBack DEF Own
<1>5. ASSUME UNCHANGED vars PROVE CInv'
  BY <1>5, FrameCustody DEF vars
<1> QED BY <1>1, <1>2, <1>3, <1>4, <1>5, CrashCustody, AgeCustody DEF Next, Step

LEMMA CustodyExcludes == TInv /\ CInv => WorkIsExclusive
<1> SUFFICES ASSUME TInv, CInv PROVE WorkIsExclusive
  OBVIOUS
<1>1. \A p, q \in Procs : pc[p] = "run" /\ pc[q] = "run" => p = q
  BY OneKeeper DEF Keeping, Holding, Working
<1>2. \A p \in Procs : pc[p] \in Working => lock # Absent /\ lock.text = Mine(p)
  BY Stages DEF CInv, Kept
<1> QED BY <1>1, <1>2 DEF WorkIsExclusive, TInv

-----------------------------------------------------------------------------
(* Trust: a record that is read while the call it belongs to is over was   *)
(* left behind, and only a process that keeps the lock writes the marker.  *)
Past ==
    \A p \in Procs :
        /\ \A q \in before[p] : pc[q] \in {"ended", "crashed"}
        /\ pc[p] = "idle" => owner[p] = Absent /\ observed[p] = {} /\ trusted[p] = Nobody

Known(p) == observed[p] \cup ({owner[p]} \ {Absent, Empty})

Seen == \A p \in Procs : \A n \in Known(p) : n[1] \in before[p] => MayLeave(n[1])

Marks ==
    /\ done \in finished \cup {Nobody}
    /\ \A p \in Procs : pc[p] \in {"truncate", "mark"} => Mine(p) \in finished

SInv == Past /\ Seen /\ Marks /\ TrustIsSound

Moves(p) == Call(p) \/ Step(p) \/ Interrupt(p) \/ Deadline(p) \/ Crash(p)

(* What a step of one process leaves alone of the others.                  *)
LEMMA PollPrivate ==
    ASSUME TInv, NEW p \in Procs, Call(p) \/ Poll(p) \/ Interrupt(p) \/ Deadline(p) \/ Crash(p)
    PROVE  /\ pc[p] \notin {"ended", "crashed"} /\ (pc'[p] = "idle" => pc[p] = "idle")
           /\ \A q \in Procs \ {p} : /\ pc'[q] = pc[q] /\ owner'[q] = owner[q] /\ observed'[q] = observed[q]
                                     /\ trusted'[q] = trusted[q] /\ creates'[q] = creates[q]
                                     /\ before'[q] = before[q]
<1> USE DEF TInv, TypeOK, Goto, memory, history
<1>1. CASE Call(p)
  BY <1>1 DEF Call
<1>2. CASE Look(p) \/ Gauge(p) \/ Pause(p) \/ Interrupt(p)
  BY <1>2 DEF Look, Gauge, Pause, Interrupt
<1>3. CASE Decide(p)
  <2>1. PICK there \in {"ended", "create", "alone", "ticket", "pause"} : pc' = [pc EXCEPT ![p] = there]
    BY <1>3 DEF Decide
  <2> QED BY <1>3, <2>1 DEF Decide, Trust
<1>4. CASE Deadline(p) \/ Crash(p)
  BY <1>4 DEF Deadline, Crash, Live
<1> QED BY <1>1, <1>2, <1>3, <1>4 DEF Poll

LEMMA BreakPrivate ==
    ASSUME TInv, NEW p \in Procs, Break(p)
    PROVE  /\ pc[p] \notin {"idle", "ended", "crashed"} /\ pc'[p] # "idle"
           /\ \A q \in Procs \ {p} : pc'[q] = pc[q] /\ owner'[q] = owner[q] /\ observed'[q] = observed[q]
           /\ UNCHANGED <<done, trusted, creates, before, finished>>
<1> USE DEF TInv, TypeOK, Goto, files, memory, history
<1>1. CASE TakeTicket(p) \/ InkTicket(p) \/ List(p)
  BY <1>1 DEF TakeTicket, InkTicket, List
<1>2. CASE JudgeRival(p) \/ Withdraw(p) \/ Proceed(p)
  BY <1>2 DEF JudgeRival, Withdraw, Proceed
<1>3. CASE Recheck(p) \/ Rename(p) \/ Judge(p) \/ Unticket(p)
  BY <1>3 DEF Recheck, Rename, Judge, Unticket, Entomb
<1>4. CASE Restore(p) \/ Refill(p)
  BY <1>4 DEF Restore, Refill, PutBack
<1> QED BY <1>1, <1>2, <1>3, <1>4 DEF Break

LEMMA OwnPrivate ==
    ASSUME TInv, NEW p \in Procs, Own(p)
    PROVE  /\ pc[p] \notin {"idle", "ended", "crashed"} /\ pc'[p] # "idle"
           /\ \A q \in Procs \ {p} : pc'[q] = pc[q] /\ trusted'[q] = trusted[q] /\ creates'[q] = creates[q]
           /\ UNCHANGED <<owner, observed, before>>
<1> USE DEF TInv, TypeOK, Goto, files, memory, history
<1>1. CASE Create(p) \/ Fill(p) \/ Verify(p) \/ Repair(p)
  BY <1>1 DEF Create, Fill, Verify, Repair
<1>2. CASE Late(p) \/ Succeed(p) \/ FailWork(p) \/ Truncate(p) \/ Mark(p)
  BY <1>2 DEF Late, Trust, Succeed, FailWork, Truncate, Mark
<1>3. CASE Release(p) \/ Rejudge(p) \/ Reset(p) \/ Rewrite(p) \/ Alone(p)
  BY <1>3 DEF Release, Rejudge, Reset, Rewrite, Alone, Entomb, PutBack
<1> QED BY <1>1, <1>2, <1>3 DEF Own

LEMMA Private ==
    ASSUME TInv, NEW p \in Procs, Moves(p)
    PROVE  /\ pc[p] \notin {"ended", "crashed"} /\ (pc'[p] = "idle" => pc[p] = "idle")
           /\ \A q \in Procs \ {p} : /\ pc'[q] = pc[q] /\ owner'[q] = owner[q] /\ observed'[q] = observed[q]
                                     /\ trusted'[q] = trusted[q] /\ creates'[q] = creates[q]
                                     /\ before'[q] = before[q]
BY PollPrivate, BreakPrivate, OwnPrivate DEF Moves, Step

(* What a process that makes a step knows after it: what it knew, and what *)
(* the lock holds.                                                         *)
LEMMA Learns ==
    ASSUME TInv, CInv, NEW p \in Procs, Moves(p), ~Call(p)
    PROVE  /\ UNCHANGED before
           /\ \A n \in Known(p)' : n \in Known(p) \/ (lock # Absent /\ n = lock.text)
<1> USE DEF TInv, TypeOK, memory, history
<1>1. CASE Look(p)
  BY <1>1 DEF Look, Known
<1>2. CASE Gauge(p)
  <2>1. UNCHANGED before
    BY <1>2 DEF Gauge
  <2>2. CASE owner[p] = Absent /\ lock = Absent
    BY <1>2, <2>1, <2>2 DEF Gauge, Known
  <2>3. CASE ~(owner[p] = Absent /\ lock = Absent)
    <3> DEFINE record == IF owner[p] = Absent THEN Empty ELSE owner[p]
    <3>1. owner'[p] = record /\ observed'[p] = observed[p] \cup ({record} \ {Empty})
      BY <1>2, <2>3 DEF Gauge
    <3> QED BY <2>1, <3>1 DEF Known
  <2> QED BY <2>2, <2>3
<1>3. CASE Decide(p)
  <2>1. owner'[p] \in {owner[p], Absent} /\ UNCHANGED <<observed, before>>
    BY <1>3 DEF Decide
  <2> QED BY <2>1 DEF Known
<1>4. CASE Pause(p) \/ Interrupt(p) \/ Deadline(p) \/ Crash(p)
  <2>1. owner'[p] \in {owner[p], Absent} /\ observed'[p] \subseteq observed[p] /\ UNCHANGED before
    BY <1>4 DEF Pause, Interrupt, Deadline, Crash
  <2> QED BY <2>1 DEF Known
<1>5. CASE Recheck(p)
  <2>1. /\ UNCHANGED <<owner, before>>
        /\ observed'[p] = IF lock = Absent \/ lock.text = Empty THEN observed[p] ELSE observed[p] \cup {lock.text}
    BY <1>5 DEF Recheck
  <2> QED BY <2>1 DEF Known
<1>6. CASE Judge(p)
  <2>1. UNCHANGED <<owner, before>> /\ observed'[p] = observed[p] \cup ({tomb[p].text} \ {Empty})
    BY <1>6 DEF Judge
  <2>2. pc[p] = "judge" /\ StillBreakable(owner[p], tomb[p]) /\ owner[p] # Absent
    BY <1>6 DEF Judge, CInv, Breaks, Judged, Judging
  <2> QED BY <2>1, <2>2 DEF Known, StillBreakable
<1>7. CASE TakeTicket(p) \/ InkTicket(p) \/ List(p) \/ JudgeRival(p) \/ Withdraw(p) \/ Proceed(p)
             \/ Rename(p) \/ Restore(p) \/ Refill(p)
  <2>1. UNCHANGED <<owner, observed, before>>
    BY <1>7 DEF TakeTicket, InkTicket, List, JudgeRival, Withdraw, Proceed, Rename, Restore, Refill
  <2> QED BY <2>1 DEF Known
<1>8. CASE Unticket(p)
  <2>1. owner'[p] = Absent /\ UNCHANGED <<observed, before>>
    BY <1>8 DEF Unticket
  <2> QED BY <2>1 DEF Known
<1>9. CASE Own(p)
  BY <1>9, OwnPrivate DEF Known
<1> QED BY <1>1, <1>2, <1>3, <1>4, <1>5, <1>6, <1>7, <1>8, <1>9 DEF Moves, Step, Poll, Break

LEMMA PastStep ==
    ASSUME TInv, CInv, SInv, NEW p \in Procs, Moves(p)
    PROVE  Past' /\ Seen' /\ (\A q \in Procs : MayLeave(q) => MayLeave(q)')
<1> USE DEF TInv, TypeOK
<1>1. \A q \in Procs : pc[q] \in {"ended", "crashed"} => pc'[q] = pc[q]
  BY Private
<1>2. \A q \in Procs : MayLeave(q) => MayLeave(q)'
  BY <1>1 DEF MayLeave
<1>3. CASE Call(p)
  <2>1. /\ pc[p] = "idle" /\ before' = [before EXCEPT ![p] = Over] /\ pc'[p] # "idle"
        /\ UNCHANGED <<owner, observed, trusted>>
    BY <1>3 DEF Call, Goto, memory
  <2>2. Known(p)' = {}
    BY <2>1 DEF SInv, Past, Known
  <2>3. Past'
    BY <1>1, <2>1, Private DEF SInv, Past, Over
  <2>4. Seen'
    <3> SUFFICES ASSUME NEW q \in Procs, NEW n \in Known(q)', n[1] \in before'[q] PROVE MayLeave(n[1])'
      BY DEF Seen
    <3>1. q # p
      BY <2>2
    <3>2. n \in Known(q) /\ n[1] \in before[q] /\ n[1] \in Procs
      BY <2>1, <3>1 DEF Known
    <3> QED BY <1>2, <3>2 DEF SInv, Seen, MayLeave
  <2> QED BY <1>2, <2>3, <2>4
<1>4. CASE ~Call(p)
  <2>1. UNCHANGED before
    BY <1>4, Learns
  <2>2. Past'
    <3>1. pc[p] # "idle"
      BY <1>4, BreakPrivate, OwnPrivate
         DEF Moves, Step, Poll, Look, Gauge, Decide, Pause, Interrupt, Deadline, Crash, Live
    <3>2. \A q \in Procs : pc'[q] = "idle" => q # p /\ pc[q] = "idle"
      <4>1. pc'[p] # "idle"
        BY <3>1, Private
      <4>2. \A q \in Procs \ {p} : pc'[q] = pc[q]
        BY Private
      <4> QED BY <4>1, <4>2
    <3>3. \A q \in Procs : pc'[q] = "idle" => owner'[q] = Absent /\ observed'[q] = {} /\ trusted'[q] = Nobody
      BY <3>2, Private DEF SInv, Past
    <3>4. \A q, r \in Procs : r \in before[q] => pc'[r] \in {"ended", "crashed"}
      BY <1>1 DEF SInv, Past
    <3> QED BY <2>1, <3>3, <3>4 DEF Past
  <2>3. Seen'
    <3> SUFFICES ASSUME NEW q \in Procs, NEW n \in Known(q)', n[1] \in before[q] PROVE MayLeave(n[1])'
      BY <2>1 DEF Seen
    <3>1. n[1] \in Procs
      OBVIOUS
    <3>2. CASE n \in Known(q)
      BY <1>2, <3>1, <3>2 DEF SInv, Seen
    <3>3. CASE n \notin Known(q)
      <4>1. q = p
        BY <3>3, Private DEF Known
      <4>2. lock # Absent /\ n = lock.text
        BY <1>4, <3>3, <4>1, Learns
      <4>3. n # Absent /\ n # Empty /\ Holder = n[1]
        <5>1. lock.text \in Nonces \cup {Empty} /\ (n \in observed'[q] \/ n \notin {Absent, Empty})
        BY <4>2, LockTypes DEF Known
      <5>2. observed'[q] \subseteq Nonces
        BY TypesInductive DEF Moves, Next
      <5> QED BY <4>2, <5>1, <5>2, RunOnceAssumption DEF Holder
      <4>4. pc[n[1]] \notin Keeping
        BY DEF SInv, Past, Keeping, Holding, Working
      <4>5. MayLeave(n[1])
        BY <4>2, <4>3, <4>4 DEF CInv, LockOf
      <4> QED BY <1>2, <3>1, <4>5
    <3> QED BY <3>2, <3>3
  <2> QED BY <1>2, <2>2, <2>3
<1> QED BY <1>3, <1>4

(* Only these steps touch the marker, what has finished, or who trusts it. *)
LEMMA Elsewise ==
    ASSUME TInv, NEW p \in Procs, Moves(p), ~Succeed(p), ~Truncate(p), ~Mark(p), ~Decide(p), ~Late(p)
    PROVE  UNCHANGED <<done, finished, trusted>>
<1> USE DEF files, memory, history
<1>1. CASE Call(p) \/ Look(p) \/ Gauge(p) \/ Pause(p) \/ Interrupt(p) \/ Deadline(p) \/ Crash(p)
  BY <1>1 DEF Call, Look, Gauge, Pause, Interrupt, Deadline, Crash
<1>2. CASE Create(p) \/ Fill(p) \/ Verify(p) \/ Repair(p) \/ FailWork(p) \/ Release(p) \/ Rejudge(p)
             \/ Reset(p) \/ Rewrite(p) \/ Alone(p)
  BY <1>2 DEF Create, Fill, Verify, Repair, FailWork, Release, Rejudge, Reset, Rewrite, Alone
<1> QED BY <1>1, <1>2, BreakPrivate DEF Moves, Step, Poll, Own

LEMMA MarksStep ==
    ASSUME TInv, CInv, SInv, NEW p \in Procs, Moves(p)
    PROVE  Marks' /\ finished \subseteq finished'
<1> USE DEF TInv, TypeOK, Goto, files, memory, history
<1>1. \A q \in Procs \ {p} : pc'[q] = pc[q] /\ Mine(q)' = Mine(q)
  BY Private DEF Mine
<1>2. ASSUME finished \subseteq finished', done' \in finished' \cup {Nobody},
             pc'[p] \in {"truncate", "mark"} => Mine(p)' \in finished'
      PROVE  Marks'
  BY <1>1, <1>2 DEF SInv, Marks
<1>3. CASE Succeed(p)
  <2>1. finished' = finished \cup {Mine(p)} /\ UNCHANGED <<done, creates>>
    BY <1>3 DEF Succeed
  <2> QED BY <1>2, <2>1 DEF SInv, Marks, Mine
<1>4. CASE Truncate(p)
  <2>1. UNCHANGED <<finished, creates>> /\ pc[p] = "truncate" /\ done' \in {done, Nobody}
    BY <1>4 DEF Truncate
  <2> QED BY <1>2, <2>1 DEF SInv, Marks, Mine
<1>5. CASE Mark(p)
  <2>1. UNCHANGED <<finished, creates>> /\ pc[p] = "mark" /\ done' \in {done, Mine(p)}
    BY <1>5 DEF Mark
  <2> QED BY <1>2, <2>1 DEF SInv, Marks, Mine
<1>6. CASE ~(Succeed(p) \/ Truncate(p) \/ Mark(p))
  <2>1. UNCHANGED <<done, finished>>
    BY <1>6, Elsewise DEF Decide, Late
  <2>2. pc'[p] \in {"truncate", "mark"} => Deadline(p) /\ UNCHANGED <<pc, creates>>
    <3>1. ASSUME Call(p) \/ Look(p) \/ Gauge(p) \/ Pause(p) \/ Interrupt(p) \/ Crash(p)
          PROVE  pc'[p] \notin {"truncate", "mark"}
      BY <3>1 DEF Call, Look, Gauge, Pause, Interrupt, Crash
    <3>2. ASSUME Decide(p) PROVE pc'[p] \notin {"truncate", "mark"}
      BY <3>2 DEF Decide
    <3>3. ASSUME Break(p) PROVE pc'[p] \notin {"truncate", "mark"}
      <4>1. CASE TakeTicket(p) \/ InkTicket(p) \/ List(p) \/ JudgeRival(p) \/ Withdraw(p) \/ Proceed(p)
        BY <4>1 DEF TakeTicket, InkTicket, List, JudgeRival, Withdraw, Proceed
      <4>2. CASE Recheck(p) \/ Rename(p) \/ Judge(p) \/ Restore(p) \/ Refill(p) \/ Unticket(p)
        BY <4>2 DEF Recheck, Rename, Judge, Restore, Refill, Unticket, Entomb, PutBack
      <4> QED BY <3>3, <4>1, <4>2 DEF Break
    <3>4. ASSUME Own(p) PROVE pc'[p] \notin {"truncate", "mark"}
      <4>1. CASE Create(p) \/ Fill(p) \/ Verify(p) \/ Repair(p) \/ Late(p) \/ FailWork(p)
        BY <4>1 DEF Create, Fill, Verify, Repair, Late, FailWork
      <4>2. CASE Release(p) \/ Rejudge(p) \/ Reset(p) \/ Rewrite(p) \/ Alone(p)
        BY <4>2 DEF Release, Rejudge, Reset, Rewrite, Alone, Entomb, PutBack
      <4> QED BY <1>6, <3>4, <4>1, <4>2 DEF Own
    <3>5. Deadline(p) => UNCHANGED <<pc, creates>>
      BY DEF Deadline
    <3> QED BY <3>1, <3>2, <3>3, <3>4, <3>5 DEF Moves, Step, Poll
  <2> QED BY <1>2, <2>1, <2>2 DEF SInv, Marks, Mine
<1>7. finished \subseteq finished'
  BY Elsewise DEF Succeed, Truncate, Mark, Decide, Late
<1> QED BY <1>3, <1>4, <1>5, <1>6, <1>7

LEMMA TrustStep ==
    ASSUME TInv, CInv, SInv, NEW p \in Procs, Moves(p)
    PROVE  TrustIsSound'
<1> USE DEF TInv, TypeOK, Goto, files, memory, history
<1> DEFINE Quits(q) == pc'[q] = "crashed" \/ q \in Failing
<1>1. \A q \in Procs : MayLeave(q) => Quits(q)
  BY PastStep DEF MayLeave
<1>2. finished \subseteq finished'
  BY MarksStep
<1>3. NoNeedlessRun'
  <2> SUFFICES ASSUME NEW q \in Procs \ Serialize, pc'[q] = "run" PROVE done' \notin observed'[q]
    BY DEF NoNeedlessRun
  <2>1. CASE pc[q] = "run"
    <3>1. done \notin observed[q]
      BY <2>1 DEF SInv, TrustIsSound, NoNeedlessRun
    <3>2. observed'[q] = observed[q]
      <4>1. CASE q # p
        BY <4>1, Private
      <4>2. CASE q = p
        <5>1. ~Break(p) /\ ~Call(p) /\ ~Poll(p) /\ ~Interrupt(p) /\ ~Crash(p)
          BY <2>1, <4>2, BreakPrivate DEF Break, TakeTicket, InkTicket, List, JudgeRival, Withdraw, Proceed,
             Recheck, Rename, Judge, Restore, Refill, Unticket, Call, Poll, Look, Gauge, Decide, Pause,
             Interrupt, Crash
        <5> QED BY <4>2, <5>1, OwnPrivate DEF Moves, Step, Deadline
      <4> QED BY <4>1, <4>2
    <3>3. done' = done
      <4>1. ~Truncate(p) /\ ~Mark(p)
        <5> SUFFICES ASSUME Truncate(p) \/ Mark(p) PROVE FALSE
          OBVIOUS
        <5>1. pc[p] \in {"truncate", "mark"}
          BY DEF Truncate, Mark
        <5>2. p = q
          BY <2>1, <5>1, OneKeeper DEF Keeping, Holding, Working
        <5> QED BY <2>1, <5>1, <5>2
      <4> QED BY <4>1, Elsewise DEF Succeed, Decide, Late
    <3> QED BY <3>1, <3>2, <3>3
  <2>2. CASE pc[q] # "run"
    <3>1. q = p
      BY <2>2, Private
    <3>2. Late(p)
      <4>1. ASSUME Call(p) \/ Look(p) \/ Gauge(p) \/ Pause(p) \/ Interrupt(p) \/ Crash(p) \/ Deadline(p)
            PROVE  pc'[p] # "run"
        BY <2>2, <3>1, <4>1 DEF Call, Look, Gauge, Pause, Interrupt, Crash, Deadline
      <4>2. ASSUME Decide(p) PROVE pc'[p] # "run"
        BY <4>2 DEF Decide
      <4>3. ASSUME Break(p) PROVE pc'[p] # "run"
        <5>1. CASE TakeTicket(p) \/ InkTicket(p) \/ List(p) \/ JudgeRival(p) \/ Withdraw(p) \/ Proceed(p)
          BY <5>1 DEF TakeTicket, InkTicket, List, JudgeRival, Withdraw, Proceed
        <5>2. CASE Recheck(p) \/ Rename(p) \/ Judge(p) \/ Restore(p) \/ Refill(p) \/ Unticket(p)
          BY <5>2 DEF Recheck, Rename, Judge, Restore, Refill, Unticket, Entomb, PutBack
        <5> QED BY <4>3, <5>1, <5>2 DEF Break
      <4>4. ASSUME Own(p), ~Late(p) PROVE pc'[p] # "run"
        <5>1. CASE Create(p) \/ Fill(p) \/ Verify(p) \/ Repair(p) \/ Succeed(p) \/ FailWork(p)
          BY <5>1 DEF Create, Fill, Verify, Repair, Succeed, FailWork
        <5>2. CASE Truncate(p) \/ Mark(p) \/ Release(p) \/ Rejudge(p) \/ Reset(p) \/ Rewrite(p) \/ Alone(p)
          BY <5>2 DEF Truncate, Mark, Release, Rejudge, Reset, Rewrite, Alone, Entomb, PutBack
        <5> QED BY <4>4, <5>1, <5>2 DEF Own
      <4> QED BY <3>1, <4>1, <4>2, <4>3, <4>4 DEF Moves, Step, Poll
    <3>3. ~Trusts(p) /\ UNCHANGED <<done, observed>>
      BY <3>1, <3>2 DEF Late
    <3> QED BY <3>1, <3>3 DEF Trusts
  <2> QED BY <2>1, <2>2
<1>4. TrustEarned'
  <2> SUFFICES ASSUME NEW q \in Procs, trusted'[q] # Nobody
               PROVE  /\ trusted'[q] \in finished'
                      /\ trusted'[q][1] \in before'[q] => Quits(trusted'[q][1])
    BY DEF TrustEarned, MayLeave
  <2>1. CASE trusted'[q] = trusted[q]
    <3>1. trusted[q] \in finished /\ (trusted[q][1] \in before[q] => MayLeave(trusted[q][1]))
      BY <2>1 DEF SInv, TrustIsSound, TrustEarned
    <3>2. before'[q] = before[q]
      <4>1. CASE q = p /\ Call(p)
        BY <2>1, <4>1 DEF Call, SInv, Past
      <4>2. CASE ~(q = p /\ Call(p))
        BY <4>2, Private, Learns
      <4> QED BY <4>1, <4>2
    <3>3. trusted[q] \in Nonces /\ trusted[q][1] \in Procs
      BY <2>1, LockTypes
    <3> HIDE DEF Quits
    <3> QED BY <1>1, <1>2, <2>1, <3>1, <3>2, <3>3
  <2>2. CASE trusted'[q] # trusted[q]
    <3>1. q = p
      BY <2>2, Private
    <3>2. Trusts(p) /\ trusted'[p] = done /\ UNCHANGED <<finished, before>>
      <4>1. Decide(p) \/ Late(p)
        BY <2>2, <3>1, Elsewise DEF Succeed, Truncate, Mark
      <4> QED BY <2>2, <3>1, <4>1 DEF Decide, Late, Trust
    <3>3. done \in observed[p] /\ done \in Nonces
      BY <3>2 DEF Trusts
    <3>4. done \in finished
      BY <3>3, RunOnceAssumption DEF SInv, Marks
    <3>5. done[1] \in before[p] => MayLeave(done[1])
      BY <3>3 DEF SInv, Seen, Known
    <3>6. done[1] \in Procs
      BY <3>3, LockTypes
    <3> HIDE DEF Quits
    <3> QED BY <1>1, <3>1, <3>2, <3>4, <3>5, <3>6
  <2> QED BY <2>1, <2>2
<1> QED BY <1>3, <1>4 DEF TrustIsSound

LEMMA TrustInitially == Init => SInv
BY RunOnceAssumption DEF Init, SInv, Past, Seen, Known, Marks, TrustIsSound, NoNeedlessRun, TrustEarned

LEMMA TrustInductive == TInv /\ CInv /\ SInv /\ [Next]_vars => SInv'
<1> SUFFICES ASSUME TInv, CInv, SInv, [Next]_vars PROVE SInv'
  OBVIOUS
<1>1. ASSUME NEW p \in Procs, Moves(p) PROVE SInv'
  BY <1>1, PastStep, MarksStep, TrustStep DEF SInv
<1>2. ASSUME UNCHANGED <<pc, owner, observed, trusted, before, done, finished, creates>> PROVE SInv'
  BY <1>2 DEF SInv, Past, Seen, Known, Marks, TrustIsSound, NoNeedlessRun, TrustEarned, MayLeave, Mine
<1>3. CASE Age
  BY <1>2, <1>3 DEF Age, memory, history
<1>4. CASE UNCHANGED vars
  BY <1>2, <1>4 DEF vars
<1> QED BY <1>1, <1>3, <1>4 DEF Next, Moves

-----------------------------------------------------------------------------
(* Tickets: a ticket belongs to a process that is taking or holds the      *)
(* breaker, or it was left behind.                                         *)
Torn == \A t \in tickets : (~t.left /\ pc[t.of] \in Ticketed) \/ MayLeave(t.of)

LEMMA TornStep ==
    ASSUME TInv, Torn, NEW p \in Procs, Moves(p)
    PROVE  Torn'
<1> USE DEF TInv, TypeOK, Goto, files, breaking, memory, history
<1>0. pc[p] # "crashed" /\ \A q \in Procs \ {p} : pc'[q] = pc[q]
  BY Private
<1>1. \A t \in tickets : t \in Ticket /\ t.of \in Procs /\ t = [of |-> t.of, left |-> t.left]
  BY DEF Ticket
<1>2. ASSUME NEW t \in tickets, t.of # p
      PROVE  (~t.left /\ pc'[t.of] \in Ticketed) \/ pc'[t.of] = "crashed" \/ t.of \in Failing
  BY <1>0, <1>1, <1>2 DEF Torn, MayLeave
<1>3. ASSUME tickets' \subseteq tickets, pc[p] \in Ticketed => pc'[p] \in Ticketed PROVE Torn'
  BY <1>0, <1>1, <1>2, <1>3 DEF Torn, MayLeave
<1>4. ASSUME tickets' \subseteq tickets \ {TicketOf(p)} PROVE Torn'
  <2>1. \A t \in tickets' : t.of = p => t.left
    <3> SUFFICES ASSUME NEW t \in tickets', t.of = p, ~t.left PROVE FALSE
      OBVIOUS
    <3>1. t \in tickets /\ t.left = FALSE
      BY <1>4 DEF Ticket
    <3>2. t = TicketOf(p)
      BY <1>1, <3>1 DEF TicketOf
    <3> QED BY <1>4, <3>2
  <2>2. \A t \in tickets' : t.of = p => p \in Failing
    BY <1>0, <1>4, <2>1 DEF Torn, MayLeave
  <2> QED BY <1>2, <1>4, <2>2 DEF Torn, MayLeave
<1>5. CASE Call(p) \/ Poll(p) \/ Own(p) \/ Interrupt(p) \/ Deadline(p)
  <2>1. UNCHANGED tickets
    <3>1. CASE Call(p) \/ Poll(p) \/ Interrupt(p) \/ Deadline(p)
      BY <3>1 DEF Call, Poll, Look, Gauge, Decide, Pause, Interrupt, Deadline
    <3>2. CASE Own(p)
      BY <3>2 DEF Own, Create, Fill, Verify, Repair, Late, Succeed, FailWork, Truncate, Mark,
                  Release, Rejudge, Reset, Rewrite, Alone
    <3> QED BY <1>5, <3>1, <3>2
  <2>2. pc[p] \notin Ticketed \/ UNCHANGED pc
    <3>1. CASE Call(p) \/ Poll(p) \/ Interrupt(p) \/ Deadline(p)
      BY <3>1 DEF Call, Poll, Look, Gauge, Decide, Pause, Interrupt, Deadline, Ticketed, Breaking
    <3>2. CASE Own(p)
      BY <3>2 DEF Own, Create, Fill, Verify, Repair, Late, Succeed, FailWork, Truncate, Mark,
                  Release, Rejudge, Reset, Rewrite, Alone, Ticketed, Breaking
    <3> QED BY <1>5, <3>1, <3>2
  <2> QED BY <1>3, <2>1, <2>2
<1>6. CASE TakeTicket(p)
  <2>1. /\ tickets' \subseteq tickets \cup {TicketOf(p)} /\ pc[p] \notin Ticketed
        /\ UNCHANGED tickets \/ pc' = [pc EXCEPT ![p] = "ink"]
    BY <1>6 DEF TakeTicket, Ticketed, Breaking
  <2>2. CASE UNCHANGED tickets
    BY <1>3, <2>1, <2>2
  <2>3. CASE pc' = [pc EXCEPT ![p] = "ink"]
    <3> SUFFICES ASSUME NEW t \in tickets'
                 PROVE  (~t.left /\ pc'[t.of] \in Ticketed) \/ pc'[t.of] = "crashed" \/ t.of \in Failing
      BY DEF Torn, MayLeave
    <3>1. pc'[p] \in Ticketed
      BY <2>3 DEF Ticketed
    <3>2. CASE t = TicketOf(p)
      BY <3>1, <3>2, TicketsDiffer
    <3>3. CASE t # TicketOf(p)
      <4>1. t \in tickets
        BY <2>1, <3>3
      <4>2. t.of = p => p \in Failing
        BY <1>0, <2>1, <4>1 DEF Torn, MayLeave
      <4> QED BY <1>2, <4>1, <4>2
    <3> QED BY <3>2, <3>3
  <2> QED BY <1>6, <2>2, <2>3 DEF TakeTicket
<1>7. CASE InkTicket(p)
  <2>1. CASE UNCHANGED tickets /\ Goto(p, "list")
    BY <1>3, <2>1, Places
  <2>2. CASE ~(UNCHANGED tickets /\ Goto(p, "list"))
    <3> DEFINE gone == [of |-> p, left |-> TRUE]
    <3>1. p \in Failing /\ tickets' \subseteq tickets \cup {gone}
      BY <1>7, <2>2 DEF InkTicket
    <3>2. gone.of = p
      OBVIOUS
    <3> HIDE DEF gone
    <3> QED BY <1>2, <3>1, <3>2 DEF Torn, MayLeave
  <2> QED BY <2>1, <2>2
<1>8. CASE List(p) \/ JudgeRival(p) \/ Proceed(p)
  <2>1. tickets' \subseteq tickets
    BY <1>8 DEF List, JudgeRival, Proceed, TearUp
  <2>2. pc'[p] \in Ticketed
    BY <1>8 DEF List, JudgeRival, Proceed, Ticketed, Breaking
  <2> QED BY <1>3, <2>1, <2>2
<1>9. CASE Withdraw(p) \/ Unticket(p)
  BY <1>4, <1>9 DEF Withdraw, Unticket, TearUp
<1>10. CASE Recheck(p) \/ Rename(p) \/ Judge(p) \/ Restore(p) \/ Refill(p)
  <2>1. UNCHANGED tickets
    BY <1>10 DEF Recheck, Rename, Judge, Restore, Refill
  <2>2. pc'[p] \in Ticketed
    BY <1>10 DEF Recheck, Rename, Judge, Restore, Refill, Entomb, PutBack, Ticketed, Breaking
  <2> QED BY <1>3, <2>1, <2>2
<1>11. CASE Crash(p)
  BY <1>1, <1>2, <1>11 DEF Crash, Torn, MayLeave
<1> QED BY <1>5, <1>6, <1>7, <1>8, <1>9, <1>10, <1>11 DEF Moves, Step, Break

LEMMA TornInductive == TInv /\ Torn /\ [Next]_vars => Torn'
<1>1. ASSUME Torn, UNCHANGED <<tickets, pc>> PROVE Torn'
  BY <1>1 DEF Torn, MayLeave
<1> QED BY <1>1, TornStep DEF Next, Moves, Age, breaking, vars

LEMMA AllOver == TInv /\ CInv /\ Torn => NothingLeft
<1> SUFFICES ASSUME TInv, CInv, Torn, \A p \in Procs : ~Live(p) PROVE
        /\ lock # Absent => MayLeave(Holder)
        /\ \A t \in tickets : MayLeave(t.of)
  BY DEF NothingLeft
<1>1. lock # Absent => MayLeave(Holder)
  BY LockTypes DEF CInv, LockOf, Keeping, Holding, Working, Live
<1>2. \A t \in tickets : t.of \in Procs
  BY DEF TInv, TypeOK, Ticket
<1>3. \A t \in tickets : MayLeave(t.of)
  BY <1>2, Places DEF Torn, Live
<1> QED BY <1>1, <1>3

(* Every file, every ticket and everything a process remembers keeps its   *)
(* shape, whatever crashes, fails or outlives its age.                     *)
THEOREM Typed == Spec => []TypeOK
<1>1. Spec => []TInv
  BY TypesInitially, TypesInductive, PTL DEF Spec
<1> QED BY <1>1, PTL DEF TInv

LEMMA CustodyHolds == ASSUME ~MayOutlive PROVE Spec => [](TInv /\ CInv)
<1>1. Spec => []TInv
  BY TypesInitially, TypesInductive, PTL DEF Spec
<1>2. Init => CInv
  BY CustodyInitially
<1>3. TInv /\ BreakersExclude /\ CInv /\ [Next]_vars => CInv'
  BY CustodyInductive
<1> QED BY <1>1, <1>2, <1>3, OneBreaker, PTL DEF Spec

(* While no work outlives the ages that protect a live owner, for any      *)
(* processes on any hosts, with any crashes and failing files, the work is *)
(* done by one process at a time, under its own lock.                      *)
THEOREM OneWorker == ASSUME ~MayOutlive PROVE Spec => []WorkIsExclusive
BY CustodyHolds, CustodyExcludes, PTL

(* Under the same assumption, whoever does the work has seen no owner      *)
(* whose marker is on disk, and whoever skips it trusts work that was done.*)
THEOREM TrustHolds == ASSUME ~MayOutlive PROVE Spec => []TrustIsSound
<1>1. Spec => [](TInv /\ CInv)
  BY CustodyHolds
<1>2. SInv => TrustIsSound
  BY DEF SInv
<1> QED BY <1>1, <1>2, TrustInitially, TrustInductive, PTL DEF Spec

(* And a directory in which every call is over holds what crashed          *)
(* processes left, or processes whose file operations fail.                *)
THEOREM CleanEnd == ASSUME ~MayOutlive PROVE Spec => []NothingLeft
<1>1. Spec => [](TInv /\ CInv)
  BY CustodyHolds
<1>2. Init => Torn
  BY DEF Init, Torn
<1> QED BY <1>1, <1>2, TornInductive, AllOver, PTL DEF Spec

(* And the put-back of a renamed lock, with the windows it opens, is never *)
(* reached: what a breaker renames is what it judged.                      *)
THEOREM PutBackUnreached == ASSUME ~MayOutlive PROVE Spec => []NotReached
<1>1. CInv => NotReached
  BY DEF CInv
<1> QED BY <1>1, CustodyHolds, PTL
=============================================================================
