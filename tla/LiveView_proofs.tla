--------------------------- MODULE LiveView_proofs ---------------------------
(***************************************************************************)
(* A live view loses and repeats no event, and leaves the terminal as it   *)
(* should, for any scripts, any number of throws, and every kind of host.  *)
(*                                                                         *)
(* Of the events: what waits in the work and in the inbox is in order and  *)
(* beyond what is folded (InOrder), everything that was taken is folded or *)
(* waits there (Complete), and nothing that carries events stands behind   *)
(* the word that they have ended (EndingInv), so that the controller meets *)
(* that word with all it was owed in hand.                                 *)
(*                                                                         *)
(* Of the terminal: what is left to do comes in the few orders that the    *)
(* controller makes of it (WorkInOrder), the last run is the only one that *)
(* may be going on and has the permit just while it is mounted             *)
(* (RunsInOrder), and while it is painted its frame shows what is folded,  *)
(* or is about to (Shown).                                                 *)
(*                                                                         *)
(* The inbox is drained by flattening what is in it, which is a recursive  *)
(* function: FlatIs says what it returns, by the least length at which it  *)
(* would not.                                                              *)
(***************************************************************************)
EXTENDS LiveView, WellFoundedInduction, TLAPS

(* Sequences. *)

LEMMA SpanIs ==
  ASSUME NEW a \in Nat, NEW b \in Nat
  PROVE  /\ Span(a, b) \in Seq(Nat)
         /\ Len(Span(a, b)) = IF b < a THEN 0 ELSE b - a + 1
         /\ \A i \in 1..Len(Span(a, b)) : Span(a, b)[i] = a + i - 1
<1> DEFINE n == IF b < a THEN 0 ELSE b - a + 1
<1>1. n \in Nat
  OBVIOUS
<1>2. Span(a, b) = [i \in 1..n |-> a + i - 1]
  BY DEF Span
<1> HIDE DEF n
<1>3. \A i \in 1..n : a + i - 1 \in Nat
  BY <1>1
<1>4. Span(a, b) \in Seq(Nat) /\ Len(Span(a, b)) = n
  BY <1>1, <1>2, <1>3
<1>5. QED
  BY <1>2, <1>4 DEF n

LEMMA SpanGrows ==
  ASSUME NEW n \in Nat
  PROVE  Append(Span(1, n), n + 1) = Span(1, n + 1)
<1>1. Span(1, n) = [i \in 1..n |-> i] /\ Span(1, n + 1) = [i \in 1..(n + 1) |-> i]
  BY DEF Span
<1>2. QED
  BY <1>1

\* What taking off the head, and appending, do.
LEMMA Popped ==
  ASSUME NEW S, NEW w \in Seq(S), w # <<>>, NEW items \in Seq(S), NEW new, new = items \o Tail(w)
  PROVE  /\ new \in Seq(S) /\ Len(new) = Len(items) + Len(w) - 1
         /\ \A k \in 1..Len(items) : new[k] = items[k]
         /\ \A k \in (Len(items) + 1)..Len(new) :
              k - Len(items) + 1 \in 2..Len(w) /\ new[k] = w[k - Len(items) + 1]
  OBVIOUS

LEMMA Appended ==
  ASSUME NEW S, NEW q \in Seq(S), NEW m \in S, NEW new, new = Append(q, m)
  PROVE  /\ new \in Seq(S) /\ Len(new) = Len(q) + 1 /\ new[Len(q) + 1] = m
         /\ \A k \in 1..Len(q) : new[k] = q[k]
  OBVIOUS

\* A set of numbers has a least one.
LEMMA LeastExists ==
  ASSUME NEW T, T \subseteq Nat, T # {}
  PROVE  \E x \in T : \A y \in T : x <= y
<1>1. PICK x \in T : \A y \in T : ~ (<<y, x>> \in OpToRel(<, Nat))
  BY NatLessThanWellFounded, WFMin
<1>2. \A y \in T : ~(y < x)
  BY <1>1 DEF OpToRel
<1>3. QED
  BY <1>2

\* Lexicographic order of places in a sequence of sequences.
Lex(p, q) == p[1] < q[1] \/ (p[1] = q[1] /\ p[2] < q[2])

\* s is the first n sequences of seqs one after the other; loc says where each
\* element comes from.
IsFlat(s, seqs, n, loc) ==
  /\ loc \in [1..Len(s) -> Nat \X Nat]
  /\ \A i \in 1..Len(s) :
       /\ loc[i][1] \in 1..n /\ loc[i][2] \in 1..Len(seqs[loc[i][1]])
       /\ s[i] = seqs[loc[i][1]][loc[i][2]]
  /\ \A i, j \in 1..Len(s) : i < j => Lex(loc[i], loc[j])
  /\ \A k \in 1..n : \A l \in 1..Len(seqs[k]) : \E i \in 1..Len(s) : loc[i] = <<k, l>>

\* One more sequence is appended.
LEMMA FlatStep ==
  ASSUME NEW S, NEW seqs \in Seq(Seq(S)), NEW n \in Nat, n + 1 \in 1..Len(seqs),
         NEW s \in Seq(S), NEW loc, IsFlat(s, seqs, n, loc)
  PROVE  \E loc2 : IsFlat(s \o seqs[n + 1], seqs, n + 1, loc2)
<1> DEFINE t == seqs[n + 1]
           L == Len(s)
           new == s \o t
           loc2 == [i \in 1..(L + Len(t)) |-> IF i <= L THEN loc[i] ELSE <<n + 1, i - L>>]
<1>1. t \in Seq(S) /\ L \in Nat /\ Len(t) \in Nat
  OBVIOUS
<1>2. Len(new) = L + Len(t) /\ (\A i \in 1..L : new[i] = s[i])
      /\ \A i \in (L + 1)..(L + Len(t)) : new[i] = t[i - L] /\ i - L \in 1..Len(t)
  BY <1>1
<1>3. \A i \in 1..L : loc2[i] = loc[i]
  BY <1>1
<1>4. \A i \in (L + 1)..(L + Len(t)) : loc2[i] = <<n + 1, i - L>>
  BY <1>1
<1>5. /\ loc \in [1..L -> Nat \X Nat]
      /\ \A i \in 1..L : loc[i][1] \in 1..n /\ loc[i][2] \in 1..Len(seqs[loc[i][1]])
                         /\ s[i] = seqs[loc[i][1]][loc[i][2]]
      /\ \A i, j \in 1..L : i < j => Lex(loc[i], loc[j])
      /\ \A k \in 1..n : \A l \in 1..Len(seqs[k]) : \E i \in 1..L : loc[i] = <<k, l>>
  BY DEF IsFlat
<1>6. loc2 \in [1..(L + Len(t)) -> Nat \X Nat]
  BY <1>1, <1>5
<1> HIDE DEF new, loc2, L
<1>7. \A i \in 1..(L + Len(t)) :
        /\ loc2[i][1] \in 1..(n + 1) /\ loc2[i][2] \in 1..Len(seqs[loc2[i][1]])
        /\ new[i] = seqs[loc2[i][1]][loc2[i][2]]
  <2> SUFFICES ASSUME NEW i \in 1..(L + Len(t))
               PROVE  /\ loc2[i][1] \in 1..(n + 1) /\ loc2[i][2] \in 1..Len(seqs[loc2[i][1]])
                      /\ new[i] = seqs[loc2[i][1]][loc2[i][2]]
    OBVIOUS
  <2>1. CASE i \in 1..L
    <3>1. loc2[i] = loc[i] /\ new[i] = s[i] /\ loc[i][1] \in 1..n
      BY <2>1, <1>2, <1>3, <1>5
    <3>2. loc[i][1] \in 1..(n + 1)
      BY <3>1
    <3>3. QED
      BY <2>1, <3>1, <3>2, <1>5
  <2>2. CASE i \in (L + 1)..(L + Len(t))
    BY <2>2, <1>1, <1>2, <1>4, SMTT(40)
  <2>3. QED
    BY <2>1, <2>2, <1>1
<1>8. \A i, j \in 1..(L + Len(t)) : i < j => Lex(loc2[i], loc2[j])
  <2> SUFFICES ASSUME NEW i \in 1..(L + Len(t)), NEW j \in 1..(L + Len(t)), i < j
               PROVE  Lex(loc2[i], loc2[j])
    OBVIOUS
  <2>1. CASE j \in 1..L
    <3>1. i \in 1..L
      BY <2>1, <1>1
    <3>2. Lex(loc[i], loc[j]) /\ loc2[i] = loc[i] /\ loc2[j] = loc[j]
      BY <2>1, <3>1, <1>3, <1>5
    <3>3. QED
      BY <3>2
  <2>2. CASE i \in 1..L /\ j \in (L + 1)..(L + Len(t))
    <3>1. loc2[i][1] \in 1..n /\ loc2[j][1] = n + 1
      BY <2>2, <1>3, <1>4, <1>5
    <3>2. QED
      BY <3>1 DEF Lex
  <2>3. CASE i \in (L + 1)..(L + Len(t))
    <3>1. loc2[i] = <<n + 1, i - L>> /\ loc2[j] = <<n + 1, j - L>>
      BY <2>3, <1>1, <1>4, SMTT(40)
    <3>2. QED
      BY <3>1, <1>1 DEF Lex
  <2>4. QED
    BY <2>1, <2>2, <2>3, <1>1
<1>9. \A k \in 1..(n + 1) : \A l \in 1..Len(seqs[k]) :
        \E i \in 1..(L + Len(t)) : loc2[i] = <<k, l>>
  <2> SUFFICES ASSUME NEW k \in 1..(n + 1), NEW l \in 1..Len(seqs[k])
               PROVE  \E i \in 1..(L + Len(t)) : loc2[i] = <<k, l>>
    OBVIOUS
  <2>1. CASE k \in 1..n
    <3>1. PICK i \in 1..L : loc[i] = <<k, l>>
      BY <2>1, <1>5
    <3>2. i \in 1..(L + Len(t)) /\ loc2[i] = <<k, l>>
      BY <3>1, <1>1, <1>3
    <3>3. QED
      BY <3>2
  <2>2. CASE k = n + 1
    <3>1. L + l \in (L + 1)..(L + Len(t)) /\ (L + l) - L = l
      BY <2>2, <1>1
    <3>2. loc2[L + l] = <<k, l>>
      BY <3>1, <2>2, <1>4
    <3>3. L + l \in 1..(L + Len(t))
      BY <3>1, <1>1
    <3>4. QED
      BY <3>2, <3>3
  <2>3. QED
    BY <2>1, <2>2
<1>10. IsFlat(new, seqs, n + 1, loc2)
  <2> DEFINE N == L + Len(t)
  <2>1. Len(new) = N
    BY <1>2
  <2> HIDE DEF N
  <2>2. /\ loc2 \in [1..N -> Nat \X Nat]
        /\ \A i, j \in 1..N : i < j => Lex(loc2[i], loc2[j])
        /\ \A k \in 1..(n + 1) : \A l \in 1..Len(seqs[k]) : \E i \in 1..N : loc2[i] = <<k, l>>
    BY <1>6, <1>8, <1>9 DEF N
  <2>3. \A i \in 1..N :
          /\ loc2[i][1] \in 1..(n + 1) /\ loc2[i][2] \in 1..Len(seqs[loc2[i][1]])
          /\ new[i] = seqs[loc2[i][1]][loc2[i][2]]
    BY <1>7 DEF N
  <2>4. QED
    BY <2>1, <2>2, <2>3 DEF IsFlat
<1>11. QED
  BY <1>10 DEF new

\* The recursive function of FlattenSeq, up to n.
FlatUpTo(seqs, n, f) ==
  f = [i \in 1..n |-> IF i = 1 THEN seqs[i] ELSE f[i - 1] \o seqs[i]]

LEMMA FlatExists ==
  ASSUME NEW S, NEW seqs \in Seq(Seq(S)), NEW n \in Nat
  PROVE  \E f : FlatUpTo(seqs, n, f)
<1> DEFINE Bad == {m \in Nat : ~\E f : FlatUpTo(seqs, m, f)}
<1> SUFFICES ASSUME Bad # {} PROVE FALSE
  OBVIOUS
<1>1. PICK m \in Bad : \A y \in Bad : m <= y
  BY LeastExists
<1>2. CASE m = 0
  <2>1. FlatUpTo(seqs, 0, [i \in 1..0 |-> 0])
    BY DEF FlatUpTo
  <2>2. QED
    BY <1>2, <2>1
<1>3. CASE m # 0
  <2>1. m - 1 \in Nat /\ m - 1 \notin Bad
    BY <1>1, <1>3
  <2>2. PICK f : FlatUpTo(seqs, m - 1, f)
    BY <2>1
  <2> DEFINE g == [i \in 1..m |-> IF i = m THEN (IF m = 1 THEN seqs[m] ELSE f[m - 1] \o seqs[m]) ELSE f[i]]
  <2>3. \A i \in 1..(m - 1) : f[i] = IF i = 1 THEN seqs[i] ELSE f[i - 1] \o seqs[i]
    BY <2>2 DEF FlatUpTo
  <2>4. \A i \in 1..m : i # m => g[i] = f[i] /\ i \in 1..(m - 1)
    OBVIOUS
  <2>5. g[m] = IF m = 1 THEN seqs[m] ELSE f[m - 1] \o seqs[m]
    BY <1>3
  <2>6. \A i \in 1..m : i # 1 => i - 1 \in 1..m /\ i - 1 # m
    OBVIOUS
  <2>7. g = [i \in 1..m |-> g[i]]
    OBVIOUS
  <2> HIDE DEF g
  <2>8. \A i \in 1..m : g[i] = IF i = 1 THEN seqs[i] ELSE g[i - 1] \o seqs[i]
    <3> SUFFICES ASSUME NEW i \in 1..m PROVE g[i] = IF i = 1 THEN seqs[i] ELSE g[i - 1] \o seqs[i]
      OBVIOUS
    <3>1. CASE i = m
      BY <3>1, <2>4, <2>5, <2>6
    <3>2. CASE i # m
      <4>1. g[i] = f[i] /\ i \in 1..(m - 1)
        BY <3>2, <2>4
      <4>2. i # 1 => g[i - 1] = f[i - 1]
        BY <2>4, <2>6
      <4>3. QED
        BY <4>1, <4>2, <2>3
    <3>3. QED
      BY <3>1, <3>2
  <2>9. FlatUpTo(seqs, m, g)
    BY <2>7, <2>8 DEF FlatUpTo
  <2>10. QED
    BY <2>9
<1>4. QED
  BY <1>2, <1>3

\* FlattenSeq returns every element of every sequence once, in order.
LEMMA FlatIs ==
  ASSUME NEW S, NEW seqs \in Seq(Seq(S)), Len(seqs) > 0
  PROVE  \E loc : FlattenSeq(seqs) \in Seq(S) /\ IsFlat(FlattenSeq(seqs), seqs, Len(seqs), loc)
<1> DEFINE N == Len(seqs)
           f == CHOOSE f : FlatUpTo(seqs, N, f)
           Good(m) == f[m] \in Seq(S) /\ \E loc : IsFlat(f[m], seqs, m, loc)
<1>1. N \in Nat /\ N > 0
  OBVIOUS
<1>2. FlattenSeq(seqs) = f[N]
  BY DEF FlattenSeq, FlatUpTo
<1>3. FlatUpTo(seqs, N, f)
  BY <1>1, FlatExists
<1>4. \A i \in 1..N : f[i] = IF i = 1 THEN seqs[i] ELSE f[i - 1] \o seqs[i]
  BY <1>3 DEF FlatUpTo
<1> HIDE DEF f
<1>5. Good(1)
  <2>1. f[1] = seqs[1] /\ seqs[1] \in Seq(S)
    BY <1>1, <1>4
  <2> DEFINE loc == [i \in 1..Len(seqs[1]) |-> <<1, i>>]
  <2>2. loc \in [1..Len(seqs[1]) -> Nat \X Nat] /\ \A i \in 1..Len(seqs[1]) : loc[i] = <<1, i>>
    BY <2>1
  <2> HIDE DEF loc
  <2>3. \A i \in 1..Len(seqs[1]) :
          /\ loc[i][1] \in 1..1 /\ loc[i][2] \in 1..Len(seqs[loc[i][1]])
          /\ seqs[1][i] = seqs[loc[i][1]][loc[i][2]]
    BY <2>1, <2>2
  <2>4. \A i, j \in 1..Len(seqs[1]) : i < j => Lex(loc[i], loc[j])
    BY <2>1, <2>2 DEF Lex
  <2>5. \A k \in 1..1 : \A l \in 1..Len(seqs[k]) : \E i \in 1..Len(seqs[1]) : loc[i] = <<k, l>>
    <3>1. \A k \in 1..1 : k = 1
      OBVIOUS
    <3>2. \A l \in 1..Len(seqs[1]) : \E i \in 1..Len(seqs[1]) : loc[i] = <<1, l>>
      BY <2>2
    <3>3. QED
      BY <3>1, <3>2
  <2>6. IsFlat(seqs[1], seqs, 1, loc)
    BY <2>2, <2>3, <2>4, <2>5 DEF IsFlat
  <2>7. QED
    BY <2>1, <2>6
<1>6. ASSUME NEW m \in Nat, m + 1 \in 1..N, m # 0, Good(m) PROVE Good(m + 1)
  <2>1. f[m + 1] = f[m] \o seqs[m + 1]
    <3>1. m + 1 # 1 /\ (m + 1) - 1 = m
      BY <1>6
    <3>2. f[m + 1] = f[(m + 1) - 1] \o seqs[m + 1]
      BY <1>4, <1>6, <3>1
    <3>3. QED
      BY <3>1, <3>2
  <2>2. seqs[m + 1] \in Seq(S)
    BY <1>6
  <2>3. f[m + 1] \in Seq(S)
    BY <2>1, <2>2, <1>6
  <2>4. \E loc : IsFlat(f[m + 1], seqs, m + 1, loc)
    BY <2>1, <1>6, FlatStep
  <2>5. QED
    BY <2>3, <2>4
<1> DEFINE Bad == {m \in 1..N : ~Good(m)}
<1>7. Bad \subseteq 1..N /\ \A m \in 1..N : m \in Bad <=> ~Good(m)
  BY DEF Bad
<1>8. CASE Bad = {}
  BY <1>1, <1>2, <1>8, SMTT(40)
<1> HIDE DEF Bad, Good
<1>9. CASE Bad # {}
  <2>0. Bad \subseteq Nat
    BY <1>7
  <2>1. PICK m \in Bad : \A y \in Bad : m <= y
    BY <1>9, <2>0, LeastExists
  <2>2. CASE m = 1
    BY <2>2, <1>5, <1>7
  <2>3. CASE m # 1
    <3>1. m \in 1..N /\ m - 1 \in 1..N /\ (m - 1) + 1 = m /\ m - 1 # 0
      BY <2>1, <2>3, <1>1, <1>7
    <3>2. m - 1 \notin Bad
      BY <2>1, <3>1
    <3>3. Good(m - 1)
      BY <3>1, <3>2, <1>7
    <3>4. Good(m)
      BY <3>1, <3>3, <1>6
    <3>5. QED
      BY <3>1, <3>4, <1>7
  <2>4. QED
    BY <2>2, <2>3
<1>10. QED
  BY <1>8, <1>9
----------------------------------------------------------------------------
(* The invariant. *)

Tags == {"Events", "Tick", "Failed", "Ended"}
Works == {"fold", "flush", "tick", "check", "ended", "begin", "mount", "draw", "end", "print", "stop"}
Messages == [tag : Tags, chunk : Seq(Nat)]
Work == [do : Works, on : Nat]
Run == [mounted : BOOLEAN, degraded : BOOLEAN, painted : BOOLEAN, failed : BOOLEAN,
        shown : Nat, printed : Nat, upTo : Nat, over : BOOLEAN]

Shapes ==
  /\ TypeOK
  /\ kinds \in Seq(Kinds) /\ folded \in Seq(Nat)
  /\ inbox \in Seq(Messages) /\ work \in Seq(Work) /\ runs \in Seq(Run)
  /\ \A k \in 1..Len(inbox) : inbox[k].tag = "Failed" => inbox[k].chunk # <<>>
  /\ going \in BOOLEAN /\ dirty \in BOOLEAN
  /\ control # "running" => work = <<>>

Folds(k) == work[k].do = "fold"
Carries(k) == inbox[k].tag = "Events"

\* Of what is published the last is the final message, which is taken last.
TakenInOrder ==
  /\ hub.ended => hub.given < Len(kinds)
  /\ finalTaken => hub.ended /\ hub.given = Len(kinds) - 1

\* What is folded is the beginning of what was taken; what waits follows it, first
\* in the work and then in the inbox, in order.
InOrder ==
  /\ folded = Span(1, Len(folded)) /\ Len(folded) <= TakenUpTo
  /\ control = "running" =>
     /\ \A k \in 1..Len(work) : Folds(k) => work[k].on \in (Len(folded) + 1)..TakenUpTo
     /\ \A k, l \in 1..Len(work) : Folds(k) /\ Folds(l) /\ k < l => work[k].on < work[l].on
     /\ \A l \in 1..Len(inbox) : Carries(l) =>
          /\ \A j \in 1..Len(inbox[l].chunk) : inbox[l].chunk[j] \in (Len(folded) + 1)..TakenUpTo
          /\ \A i, j \in 1..Len(inbox[l].chunk) : i < j => inbox[l].chunk[i] < inbox[l].chunk[j]
     /\ \A k, l \in 1..Len(inbox) : Carries(k) /\ Carries(l) /\ k < l =>
          \A i \in 1..Len(inbox[k].chunk), j \in 1..Len(inbox[l].chunk) :
            inbox[k].chunk[i] < inbox[l].chunk[j]
     /\ \A k \in 1..Len(work), l \in 1..Len(inbox) : Folds(k) /\ Carries(l) =>
          \A j \in 1..Len(inbox[l].chunk) : work[k].on < inbox[l].chunk[j]

\* What was taken and is not folded waits.
Complete ==
  control = "running" =>
    \A e \in (Len(folded) + 1)..TakenUpTo :
       \/ \E k \in 1..Len(work) : Folds(k) /\ work[k].on = e
       \/ \E l \in 1..Len(inbox) : Carries(l) /\ \E j \in 1..Len(inbox[l].chunk) : inbox[l].chunk[j] = e

Asked == hub.ended \/ hub.down \/ closing.asked

\* The word that the events have ended is given when somebody asked for it and
\* the pump is done; nothing stands behind it that carries an event.
EndingInv ==
  /\ pump = "ending" => hub.ended \/ hub.down
  /\ control = "done" => owed <= Len(folded)
  /\ hub.down => owed <= TakenUpTo
  /\ \A k \in 1..Len(inbox) : inbox[k].tag = "Ended" =>
       /\ pump = "stopped" /\ Asked
       /\ \A l \in (k + 1)..Len(inbox) : ~Carries(l)
  /\ \A k \in 1..Len(work) : work[k].do = "ended" =>
       /\ pump = "stopped" /\ Asked
       /\ \A l \in (k + 1)..Len(work) : ~Folds(l)
       /\ \A l \in 1..Len(inbox) : ~Carries(l)
  /\ \A k \in 1..Len(work) : work[k].do = "stop" =>
       /\ pump = "stopped" /\ Asked
       /\ k = Len(work)
       /\ \A l \in 1..Len(inbox) : ~Carries(l)
       /\ owed <= TakenUpTo

\* A frame is drawn, a run begun, mounted or printed before anything else is
\* done; it ends once its last events are drawn, and the fold stops after that.
WorkInOrder ==
  /\ \A k \in 2..Len(work) :
       /\ work[k].do \notin {"draw", "begin", "mount", "print"}
       /\ work[k].do = "end" =>
            work[k - 1].do = "flush" \/ (k = 2 /\ work[1].do \in {"draw", "check"} /\ ~dirty)
       /\ work[k].do = "stop" => work[k - 1].do \in {"end", "print"}
  /\ work # <<>> =>
       /\ work[1].do \in {"begin", "stop"} => ~going
       /\ work[1].do = "mount" =>
            Interactive /\ going /\ ~run.mounted /\ ~run.degraded /\ ~run.painted /\ ~run.failed
       /\ work[1].do = "print" => ~going /\ runs # <<>> /\ run.over /\ run.printed = 0 /\ run.upTo = Len(folded)
       /\ work[1].do = "end" => ~dirty \/ (going /\ run.degraded)

\* One run goes on at a time, the last; it has the permit while it is mounted.
RunsInOrder ==
  /\ going => runs # <<>> /\ ~run.over
  /\ \A i \in 1..(Len(runs) - 1) : runs[i].over
  /\ control = "running" /\ ~going /\ runs # <<>> => run.over
  /\ permit = "view" <=> going /\ run.mounted
  /\ control # "running" => permit # "view"
  /\ \A i \in 1..Len(runs) : runs[i].painted \/ runs[i].mounted => Interactive
  /\ \A i \in 1..Len(runs) : ~runs[i].over => runs[i].printed = 0

\* What is on the terminal is what is folded, or is about to be.
Shown ==
  control = "running" /\ going /\ run.painted /\ ~run.degraded =>
    /\ run.mounted
    /\ \/ run.shown = Len(folded) \/ dirty
       \/ work # <<>> /\ (work[1].do = "draw" \/ (work[1] = Do("check") /\ run.failed))

\* A run that is over and does not wait to be printed has left its last state,
\* on the terminal or printed.
Waits(i) == i = Len(runs) /\ work # <<>> /\ work[1].do = "print"
Stands ==
  \A i \in 1..Len(runs) : runs[i].over =>
    /\ runs[i].painted => runs[i].degraded \/ runs[i].shown = runs[i].upTo
    /\ ~Waits(i) /\ control # "interrupted" =>
         /\ runs[i].painted => runs[i].printed = 0
         /\ ~runs[i].painted /\ (Interactive \/ ~Hosted) => runs[i].printed = runs[i].upTo

IInv == Shapes /\ TakenInOrder /\ InOrder /\ Complete /\ EndingInv /\ WorkInOrder /\ RunsInOrder /\ Shown /\ Stands

\* What the constants are.
Sensible ==
  /\ Scripts \subseteq Seq(Kinds) /\ Scripts # {} /\ MaxThrows \in Nat
  /\ Interactive \in BOOLEAN /\ Hosted \in BOOLEAN
----------------------------------------------------------------------------
\* The work moves by d places: no event in it is new, and its end is kept.
Moved(d) ==
  /\ d \in Int /\ Len(work') = Len(work) + d
  /\ \A k \in 1..Len(work') : work'[k].do \in {"fold", "ended", "stop"} =>
       k - d \in 1..Len(work) /\ work'[k] = work[k - d]

\* And it loses none.
Carried(d) ==
  /\ Moved(d)
  /\ \A k \in 1..Len(work) : Folds(k) => k + d \in 1..Len(work') /\ work'[k + d] = work[k]

\* Ticks and failures carry no events and end none.
LEMMA InboxKept ==
  ASSUME inbox \in Seq(Messages),
         inbox' = inbox \/ \E m \in Messages : m.tag \in {"Tick", "Failed"} /\ inbox' = Append(inbox, m)
  PROVE  /\ inbox' \in Seq(Messages) /\ Len(inbox') \in Nat /\ Len(inbox) \in Nat
         /\ \A l \in 1..Len(inbox) : l \in 1..Len(inbox') /\ inbox'[l] = inbox[l]
         /\ \A l \in 1..Len(inbox') : inbox'[l].tag \in {"Events", "Ended"} =>
              l \in 1..Len(inbox) /\ inbox'[l] = inbox[l]
<1>1. CASE inbox' = inbox
  BY <1>1
<1>2. ASSUME NEW m \in Messages, m.tag \in {"Tick", "Failed"}, inbox' = Append(inbox, m)
      PROVE  /\ inbox' \in Seq(Messages) /\ Len(inbox') \in Nat /\ Len(inbox) \in Nat
             /\ \A l \in 1..Len(inbox) : l \in 1..Len(inbox') /\ inbox'[l] = inbox[l]
             /\ \A l \in 1..Len(inbox') : inbox'[l].tag \in {"Events", "Ended"} =>
                  l \in 1..Len(inbox) /\ inbox'[l] = inbox[l]
  <2>1. /\ inbox' \in Seq(Messages) /\ Len(inbox') = Len(inbox) + 1 /\ inbox'[Len(inbox) + 1] = m
        /\ \A k \in 1..Len(inbox) : inbox'[k] = inbox[k]
    BY <1>2, Appended
  <2>2. Len(inbox) \in Nat /\ m.tag \notin {"Events", "Ended"}
    BY <1>2
  <2>3. ASSUME NEW l \in 1..Len(inbox'), inbox'[l].tag \in {"Events", "Ended"}
        PROVE  l \in 1..Len(inbox) /\ inbox'[l] = inbox[l]
    <3>1. l # Len(inbox) + 1
      BY <2>1, <2>2, <2>3
    <3>2. l \in 1..Len(inbox)
      BY <2>1, <2>2, <3>1
    <3>3. QED
      BY <2>1, <3>2
  <2>4. \A l \in 1..Len(inbox) : l \in 1..Len(inbox')
    BY <2>1, <2>2
  <2>5. QED
    BY <2>1, <2>2, <2>3, <2>4
<1>3. QED
  BY <1>1, <1>2

\* So the end is kept by what moves the work and adds them.
LEMMA EndingMoved ==
  ASSUME Shapes, EndingInv, control = "running", control' = control,
         UNCHANGED <<source, pump, closing, owed>>, NEW d, Moved(d),
         inbox' = inbox \/ \E m \in Messages : m.tag \in {"Tick", "Failed"} /\ inbox' = Append(inbox, m)
  PROVE  EndingInv'
<1>1. TakenUpTo' = TakenUpTo /\ owed' = owed /\ pump' = pump /\ Asked' = Asked /\ hub' = hub
  BY DEF TakenUpTo, source, Asked
<1>2. /\ Len(inbox') \in Nat /\ Len(inbox) \in Nat
      /\ \A l \in 1..Len(inbox') : inbox'[l].tag \in {"Events", "Ended"} =>
           l \in 1..Len(inbox) /\ inbox'[l] = inbox[l]
  BY InboxKept DEF Shapes
<1>3. \A l \in 1..Len(inbox') : Carries(l)' => l \in 1..Len(inbox) /\ Carries(l)
  BY <1>2 DEF Carries
<1>5. \A k \in 1..Len(work') : Folds(k)' => k - d \in 1..Len(work) /\ Folds(k - d)
  BY DEF Moved, Folds
<1>7. d \in Int /\ Len(work) \in Nat /\ Len(work') \in Nat /\ Len(work') = Len(work) + d
  <2>1. d \in Int /\ Len(work) \in Nat /\ Len(work') = Len(work) + d
    BY DEF Moved, Shapes
  <2>2. QED
    BY <2>1
<1>11. \A k \in 1..Len(inbox') : inbox'[k].tag = "Ended" =>
       /\ pump = "stopped" /\ Asked
       /\ \A l \in (k + 1)..Len(inbox') : ~Carries(l)'
  <2> SUFFICES ASSUME NEW k \in 1..Len(inbox'), inbox'[k].tag = "Ended"
               PROVE  /\ pump = "stopped" /\ Asked
                      /\ \A l \in (k + 1)..Len(inbox') : ~Carries(l)'
    OBVIOUS
  <2>1. k \in 1..Len(inbox) /\ inbox[k].tag = "Ended"
    BY <1>2
  <2>2. \A l \in (k + 1)..Len(inbox') : l \in 1..Len(inbox')
    BY <1>2
  <2>3. \A l \in 1..Len(inbox) : l \in 1..Len(inbox') /\ l >= k + 1 => l \in (k + 1)..Len(inbox)
    BY <1>2, <2>1
  <2>4. QED
    BY <1>3, <2>1, <2>2, <2>3 DEF EndingInv
<1>12. \A k \in 1..Len(work') : work'[k].do = "ended" =>
       /\ pump = "stopped" /\ Asked
       /\ \A l \in (k + 1)..Len(work') : ~Folds(l)'
       /\ \A l \in 1..Len(inbox') : ~Carries(l)'
  <2> SUFFICES ASSUME NEW k \in 1..Len(work'), work'[k].do = "ended"
               PROVE  /\ pump = "stopped" /\ Asked
                      /\ \A l \in (k + 1)..Len(work') : ~Folds(l)'
                      /\ \A l \in 1..Len(inbox') : ~Carries(l)'
    OBVIOUS
  <2>1. k - d \in 1..Len(work) /\ work[k - d].do = "ended"
    BY DEF Moved
  <2>2. ASSUME NEW l \in (k + 1)..Len(work') PROVE ~Folds(l)'
    <3>1. l \in 1..Len(work') /\ (l - d \in 1..Len(work) => l - d \in (k - d + 1)..Len(work))
      BY <1>7, <2>1
    <3>2. QED
      BY <1>5, <2>1, <3>1 DEF EndingInv
  <2>3. QED
    BY <1>3, <2>1, <2>2 DEF EndingInv
<1>13. \A k \in 1..Len(work') : work'[k].do = "stop" =>
       /\ pump = "stopped" /\ Asked /\ k = Len(work')
       /\ \A l \in 1..Len(inbox') : ~Carries(l)'
       /\ owed <= TakenUpTo
  <2> SUFFICES ASSUME NEW k \in 1..Len(work'), work'[k].do = "stop"
               PROVE  /\ pump = "stopped" /\ Asked /\ k = Len(work')
                      /\ \A l \in 1..Len(inbox') : ~Carries(l)'
                      /\ owed <= TakenUpTo
    OBVIOUS
  <2>1. k - d \in 1..Len(work) /\ work[k - d].do = "stop"
    BY DEF Moved
  <2>2. k - d = Len(work)
    BY <2>1 DEF EndingInv
  <2>3. k = Len(work')
    BY <1>7, <2>2
  <2>4. QED
    BY <1>3, <2>1, <2>3 DEF EndingInv
<1>14. QED
  BY <1>1, <1>11, <1>12, <1>13 DEF EndingInv

\* Steps that move neither events nor what is taken.
LEMMA QuietStep ==
  ASSUME Shapes, InOrder, Complete, EndingInv, control = "running", control' = control,
         UNCHANGED <<folded, source, pump, closing, owed>>,
         NEW d, Carried(d), work' \in Seq(Work),
         inbox' = inbox \/ \E m \in Messages : m.tag \in {"Tick", "Failed"} /\ inbox' = Append(inbox, m)
  PROVE  InOrder' /\ Complete' /\ EndingInv'
<1> DEFINE T == TakenUpTo
           n == Len(folded)
<1>1. TakenUpTo' = TakenUpTo /\ folded' = folded /\ Len(folded)' = Len(folded) /\ owed' = owed
      /\ pump' = pump /\ Asked' = Asked /\ hub' = hub
  BY DEF TakenUpTo, source, Asked
<1>2. /\ Len(inbox') \in Nat /\ Len(inbox) \in Nat
      /\ \A l \in 1..Len(inbox) : l \in 1..Len(inbox') /\ inbox'[l] = inbox[l]
      /\ \A l \in 1..Len(inbox') : inbox'[l].tag \in {"Events", "Ended"} =>
           l \in 1..Len(inbox) /\ inbox'[l] = inbox[l]
  BY InboxKept DEF Shapes
<1>3. \A l \in 1..Len(inbox') : Carries(l)' => l \in 1..Len(inbox) /\ Carries(l) /\ inbox'[l] = inbox[l]
  BY <1>2 DEF Carries
<1>4. \A l \in 1..Len(inbox) : Carries(l) => l \in 1..Len(inbox') /\ Carries(l)' /\ inbox'[l] = inbox[l]
  BY <1>2 DEF Carries
<1>5. \A k \in 1..Len(work') : Folds(k)' => k - d \in 1..Len(work) /\ work'[k] = work[k - d] /\ Folds(k - d)
  BY DEF Moved, Carried, Folds
<1>6. \A k \in 1..Len(work) : Folds(k) => k + d \in 1..Len(work') /\ work'[k + d] = work[k] /\ Folds(k + d)'
  BY DEF Moved, Carried, Folds
<1>7. d \in Int /\ Len(work) \in Nat /\ Len(work') \in Nat /\ Len(work') = Len(work) + d
  BY DEF Moved, Carried, Shapes
<1>8. InOrder'
  <2>1. folded' = Span(1, Len(folded')) /\ Len(folded') <= TakenUpTo'
    BY <1>1 DEF InOrder
  <2>2. \A k \in 1..Len(work') : Folds(k)' => work'[k].on \in (Len(folded) + 1)..TakenUpTo
    BY <1>5 DEF InOrder
  <2>3. \A k, l \in 1..Len(work') : Folds(k)' /\ Folds(l)' /\ k < l => work'[k].on < work'[l].on
    <3> SUFFICES ASSUME NEW k \in 1..Len(work'), NEW l \in 1..Len(work'), Folds(k)', Folds(l)', k < l
                 PROVE  work'[k].on < work'[l].on
      OBVIOUS
    <3>1. k - d < l - d
      BY <1>7
    <3>2. QED
      BY <1>5, <3>1 DEF InOrder
  <2>4. \A l \in 1..Len(inbox') : Carries(l)' =>
          /\ \A j \in 1..Len(inbox'[l].chunk) : inbox'[l].chunk[j] \in (Len(folded) + 1)..TakenUpTo
          /\ \A i, j \in 1..Len(inbox'[l].chunk) : i < j => inbox'[l].chunk[i] < inbox'[l].chunk[j]
    BY <1>3 DEF InOrder
  <2>5. \A k, l \in 1..Len(inbox') : Carries(k)' /\ Carries(l)' /\ k < l =>
          \A i \in 1..Len(inbox'[k].chunk), j \in 1..Len(inbox'[l].chunk) :
            inbox'[k].chunk[i] < inbox'[l].chunk[j]
    BY <1>3 DEF InOrder
  <2>6. \A k \in 1..Len(work'), l \in 1..Len(inbox') : Folds(k)' /\ Carries(l)' =>
          \A j \in 1..Len(inbox'[l].chunk) : work'[k].on < inbox'[l].chunk[j]
    BY <1>3, <1>5 DEF InOrder
  <2>7. QED
    BY <1>1, <2>1, <2>2, <2>3, <2>4, <2>5, <2>6 DEF InOrder
<1>9. Complete'
  <2> SUFFICES ASSUME NEW e \in (Len(folded) + 1)..TakenUpTo
               PROVE  \/ \E k \in 1..Len(work') : Folds(k)' /\ work'[k].on = e
                      \/ \E l \in 1..Len(inbox') : Carries(l)' /\ \E j \in 1..Len(inbox'[l].chunk) : inbox'[l].chunk[j] = e
    BY <1>1 DEF Complete
  <2>1. \/ \E k \in 1..Len(work) : Folds(k) /\ work[k].on = e
        \/ \E l \in 1..Len(inbox) : Carries(l) /\ \E j \in 1..Len(inbox[l].chunk) : inbox[l].chunk[j] = e
    BY DEF Complete
  <2>2. QED
    BY <2>1, <1>4, <1>6
<1>10. EndingInv'
  BY EndingMoved DEF Carried
<1>11. QED
  BY <1>8, <1>9, <1>10

\* The work without its head.
LEMMA PopCarried ==
  ASSUME Shapes, work # <<>>, work[1].do \notin {"fold", "ended", "stop"},
         NEW items \in Seq(Work), \A i \in 1..Len(items) : items[i].do \notin {"fold", "ended", "stop"},
         work' = items \o Tail(work)
  PROVE  Carried(Len(items) - 1) /\ work' \in Seq(Work)
<1> DEFINE L == Len(items)
<1>1. /\ work' \in Seq(Work) /\ Len(work') = L + Len(work) - 1
      /\ \A k \in 1..L : work'[k] = items[k]
      /\ \A k \in (L + 1)..Len(work') : k - L + 1 \in 2..Len(work) /\ work'[k] = work[k - L + 1]
  BY Popped DEF Shapes
<1>2. L \in Nat /\ Len(work) \in Nat /\ Len(work) >= 1
  BY DEF Shapes
<1> HIDE DEF L
<1>3. ASSUME NEW k \in 1..Len(work'), work'[k].do \in {"fold", "ended", "stop"}
      PROVE  k - (L - 1) \in 1..Len(work) /\ work'[k] = work[k - (L - 1)]
  <2>1. k \notin 1..L
    BY <1>1, <1>3 DEF L
  <2>2. k \in (L + 1)..Len(work') /\ k - (L - 1) = k - L + 1
    BY <2>1, <1>1, <1>2
  <2>3. QED
    BY <2>2, <1>1
<1>4. ASSUME NEW k \in 1..Len(work), Folds(k)
      PROVE  k + (L - 1) \in 1..Len(work') /\ work'[k + (L - 1)] = work[k]
  <2>1. k # 1
    BY <1>4 DEF Folds
  <2>2. k + (L - 1) \in (L + 1)..Len(work') /\ (k + (L - 1)) - L + 1 = k /\ k + (L - 1) \in 1..Len(work')
    BY <2>1, <1>1, <1>2
  <2>3. QED
    BY <2>2, <1>1
<1>5. Len(work') = Len(work) + (L - 1) /\ L - 1 \in Int
  BY <1>1, <1>2
<1>6. QED
  BY <1>1, <1>3, <1>4, <1>5 DEF Moved, Carried, L

LEMMA SameCarried == ASSUME Shapes, work' = work PROVE Carried(0) /\ work' \in Seq(Work)
  BY DEF Shapes, Moved, Carried

\* The item at the head is done and leaves nothing to do.
LEMMA PopNone ==
  ASSUME Shapes, WorkInOrder, work # <<>>, work' = <<>> \o Tail(work),
         work[1].do = "flush" \/ (work[1].do \in {"draw", "check"} /\ ~dirty) => ~dirty',
         work[1].do \in {"end", "print"} => ~going'
  PROVE  WorkInOrder'
<1>1. /\ Len(work') = Len(work) - 1 /\ Len(work) \in Nat /\ Len(work) >= 1
      /\ \A k \in 1..Len(work') : k + 1 \in 2..Len(work) /\ work'[k] = work[k + 1]
  BY DEF Shapes
<1>2. ASSUME NEW k \in 2..Len(work')
      PROVE  /\ work'[k].do \notin {"draw", "begin", "mount", "print"}
             /\ work'[k].do = "end" => work'[k - 1].do = "flush"
             /\ work'[k].do = "stop" => work'[k - 1].do \in {"end", "print"}
  <2>1. k + 1 \in 2..Len(work) /\ work'[k] = work[k + 1] /\ k - 1 \in 1..Len(work')
        /\ work'[k - 1] = work[k] /\ (k + 1) - 1 = k /\ k + 1 # 2
    BY <1>1
  <2>2. QED
    BY <2>1 DEF WorkInOrder
<1>3. ASSUME work' # <<>>
      PROVE  /\ work'[1].do \notin {"draw", "begin", "mount", "print"}
             /\ work'[1].do = "stop" => ~going'
             /\ work'[1].do = "end" => ~dirty'
  <2>1. 2 \in 2..Len(work) /\ work'[1] = work[2] /\ 2 - 1 = 1
    BY <1>1, <1>3 DEF Shapes
  <2>2. QED
    BY <2>1 DEF WorkInOrder
<1>4. QED
  BY <1>2, <1>3 DEF WorkInOrder

\* It is done and leaves one thing to do.
LEMMA PopOne ==
  ASSUME Shapes, WorkInOrder, work # <<>>, NEW item \in Work, work' = <<item>> \o Tail(work),
         work[1].do = "flush" \/ (work[1].do \in {"draw", "check"} /\ ~dirty)
           => item.do \in {"draw", "check"} /\ ~dirty',
         work[1].do \in {"end", "print"} => item.do \in {"end", "print"},
         item.do \in {"begin", "stop"} => ~going',
         item.do = "mount" => Interactive /\ going' /\ ~run'.mounted /\ ~run'.degraded
                              /\ ~run'.painted /\ ~run'.failed,
         item.do = "print" => ~going' /\ runs' # <<>> /\ run'.over /\ run'.printed = 0
                              /\ run'.upTo = Len(folded'),
         item.do = "end" => ~dirty'
  PROVE  WorkInOrder'
<1>1. /\ Len(work') = Len(work) /\ Len(work) \in Nat /\ Len(work) >= 1 /\ work'[1] = item
      /\ \A k \in 2..Len(work) : work'[k] = work[k]
  BY DEF Shapes
<1>2. ASSUME NEW k \in 2..Len(work')
      PROVE  /\ work'[k].do \notin {"draw", "begin", "mount", "print"}
             /\ work'[k].do = "end" =>
                  work'[k - 1].do = "flush" \/ (k = 2 /\ work'[1].do \in {"draw", "check"} /\ ~dirty')
             /\ work'[k].do = "stop" => work'[k - 1].do \in {"end", "print"}
  <2>1. k \in 2..Len(work) /\ work'[k] = work[k]
    BY <1>1
  <2>2. CASE k = 2
    BY <1>1, <2>1, <2>2 DEF WorkInOrder
  <2>3. CASE k # 2
    <3>1. k - 1 \in 2..Len(work) /\ work'[k - 1] = work[k - 1]
      BY <2>1, <2>3, <1>1
    <3>2. QED
      BY <2>1, <2>3, <3>1 DEF WorkInOrder
  <2>4. QED
    BY <2>2, <2>3
<1>3. QED
  BY <1>1, <1>2 DEF WorkInOrder

LEMMA CurrentRuns ==
  ASSUME Shapes, runs # <<>>, NEW r \in Run, Current(r)
  PROVE  /\ runs' \in Seq(Run) /\ runs' # <<>> /\ Len(runs') = Len(runs) /\ Len(runs) \in Nat
         /\ run' = r /\ run \in Run /\ Len(runs) \in 1..Len(runs)
         /\ runs'[Len(runs)] = r /\ runs[Len(runs)] = run
         /\ \A i \in 1..Len(runs) : i # Len(runs) => runs'[i] = runs[i]
  BY DEF Shapes, Current, run

\* A step of the controller that is no step of the source or the fold's.
LEMMA RestKept ==
  ASSUME IInv, control = "running", UNCHANGED <<source, pump, control, folded, closing, owed>>,
         NEW d, Carried(d), work' \in Seq(Work), runs' \in Seq(Run),
         going' \in BOOLEAN, dirty' \in BOOLEAN, permit' \in {"free", "view", "other"},
         throws' \in 0 .. MaxThrows,
         inbox' = inbox \/ \E m \in Messages :
           (m.tag = "Tick" \/ (m.tag = "Failed" /\ m.chunk # <<>>)) /\ inbox' = Append(inbox, m),
         WorkInOrder', RunsInOrder', Shown', Stands'
  PROVE  IInv'
<1>1. InOrder' /\ Complete' /\ EndingInv'
  BY QuietStep DEF IInv
<1>2. TakenInOrder'
  BY DEF IInv, TakenInOrder, source
<1>3. inbox' \in Seq(Messages) /\ \A k \in 1..Len(inbox') : inbox'[k].tag = "Failed" => inbox'[k].chunk # <<>>
  <2>1. CASE inbox' = inbox
    BY <2>1 DEF IInv, Shapes
  <2>2. ASSUME NEW m \in Messages, m.tag = "Tick" \/ (m.tag = "Failed" /\ m.chunk # <<>>),
               inbox' = Append(inbox, m)
        PROVE  inbox' \in Seq(Messages) /\ \A k \in 1..Len(inbox') : inbox'[k].tag = "Failed" => inbox'[k].chunk # <<>>
    BY <2>2, Appended DEF IInv, Shapes
  <2>3. QED
    BY <2>1, <2>2
<1>4. TypeOK'
  BY DEF IInv, Shapes, TypeOK, source
<1>5. Shapes'
  BY <1>3, <1>4 DEF IInv, Shapes, source
<1>6. QED
  BY <1>1, <1>2, <1>5 DEF IInv

----------------------------------------------------------------------------
(* Steps that touch one thing. *)

LEMMA RunsSame ==
  ASSUME RunsInOrder, UNCHANGED <<runs, going, permit, control>>
  PROVE  RunsInOrder'
  BY DEF RunsInOrder, run

\* The run that is going is replaced, and goes on.
LEMMA RunsCurrent ==
  ASSUME Shapes, RunsInOrder, control = "running", control' = control, going, going' = going,
         NEW r \in Run, Current(r), ~r.over, r.printed = 0,
         r.painted \/ r.mounted => Interactive, permit' = "view" <=> r.mounted
  PROVE  RunsInOrder' /\ runs' \in Seq(Run)
<1>1. /\ runs' \in Seq(Run) /\ runs' # <<>> /\ Len(runs') = Len(runs) /\ Len(runs) \in Nat
      /\ run' = r /\ Len(runs) \in 1..Len(runs) /\ runs'[Len(runs)] = r
      /\ \A i \in 1..Len(runs) : i # Len(runs) => runs'[i] = runs[i]
  BY CurrentRuns DEF RunsInOrder
<1>2. \A i \in 1..(Len(runs') - 1) : i \in 1..(Len(runs) - 1) /\ i \in 1..Len(runs) /\ i # Len(runs)
  BY <1>1
<1>3. \A i \in 1..(Len(runs') - 1) : runs'[i].over
  BY <1>1, <1>2 DEF RunsInOrder
<1>4. \A i \in 1..Len(runs') : (runs'[i].painted \/ runs'[i].mounted => Interactive)
                               /\ (~runs'[i].over => runs'[i].printed = 0)
  BY <1>1 DEF RunsInOrder
<1>5. QED
  BY <1>1, <1>3, <1>4 DEF RunsInOrder

LEMMA StandsSame ==
  ASSUME Stands, UNCHANGED <<runs, control>>, work # <<>> => work[1].do # "print"
  PROVE  Stands'
  BY DEF Stands, Waits

LEMMA StandsCurrent ==
  ASSUME Shapes, RunsInOrder, Stands, control' = control, going, NEW r \in Run, Current(r), ~r.over
  PROVE  Stands'
<1>1. /\ Len(runs') = Len(runs) /\ Len(runs) \in Nat /\ runs'[Len(runs)] = r
      /\ \A i \in 1..Len(runs) : i # Len(runs) => runs'[i] = runs[i]
  BY CurrentRuns DEF RunsInOrder
<1>2. ASSUME NEW i \in 1..Len(runs'), runs'[i].over
      PROVE  i \in 1..Len(runs) /\ i # Len(runs) /\ runs'[i] = runs[i]
  BY <1>1, <1>2
<1>3. QED
  BY <1>1, <1>2 DEF Stands, Waits

LEMMA Heads ==
  ASSUME Shapes, NEW what, Does(what)
  PROVE  control = "running" /\ work # <<>> /\ Head(work) = work[1] /\ work[1].do = what
  BY DEF Does, Shapes

LEMMA Items1 == ASSUME NEW what \in Works PROVE Do(what) \in Work /\ Do(what).do = what
  BY DEF Do, Work

LEMMA OneItem ==
  ASSUME Shapes, work # <<>>, work[1].do \notin {"fold", "ended", "stop"},
         NEW item \in Work, item.do \notin {"fold", "ended", "stop"}, work' = <<item>> \o Tail(work)
  PROVE  Carried(0) /\ work' \in Seq(Work) /\ work' # <<>> /\ work'[1] = item
<1>1. <<item>> \in Seq(Work) /\ Len(<<item>>) = 1 /\ \A i \in 1..Len(<<item>>) : <<item>>[i] = item
  OBVIOUS
<1>2. Carried(1 - 1) /\ work' \in Seq(Work)
  BY <1>1, PopCarried
<1>3. work' # <<>> /\ work'[1] = item
  BY DEF Shapes
<1>4. QED
  BY <1>2, <1>3

LEMMA NoItem ==
  ASSUME Shapes, work # <<>>, work[1].do \notin {"fold", "ended", "stop"}, work' = <<>> \o Tail(work)
  PROVE  Carried(-1) /\ work' \in Seq(Work)
<1> DEFINE none == <<>>
<1>1. none \in Seq(Work) /\ Len(none) = 0 /\ 0 - 1 = -1
  OBVIOUS
<1>2. work' = none \o Tail(work)
  OBVIOUS
<1> HIDE DEF none
<1>3. \A i \in 1..Len(none) : none[i].do \notin {"fold", "ended", "stop"}
  BY <1>1
<1>4. Carried(Len(none) - 1) /\ work' \in Seq(Work)
  BY <1>1, <1>2, <1>3, PopCarried
<1>5. QED
  BY <1>1, <1>4

\* What is next is no frame to print.
LEMMA NextHead ==
  ASSUME Shapes, WorkInOrder, work # <<>>, work' = <<>> \o Tail(work)
  PROVE  work' # <<>> => work'[1].do \notin {"print", "draw", "mount", "begin"}
<1>1. work' # <<>> => 2 \in 2..Len(work) /\ work'[1] = work[2]
  BY DEF Shapes
<1>2. QED
  BY <1>1 DEF WorkInOrder

LEMMA FlushKeeps == ASSUME IInv, Flush PROVE IInv'
<1>1. /\ control = "running" /\ work # <<>> /\ Head(work) = work[1] /\ work[1].do = "flush"
  BY Heads DEF IInv, Flush
<1>2. /\ UNCHANGED <<source, inbox, pump, control, folded, runs, going, permit, throws, closing, owed>>
      /\ dirty' = FALSE
  BY DEF Flush, screen
<1>3. RunsInOrder' /\ Stands'
  BY <1>1, <1>2, RunsSame, StandsSame DEF IInv
<1>4. run' = run /\ Shapes /\ WorkInOrder /\ dirty \in BOOLEAN
  BY <1>2 DEF run, IInv, Shapes
<1>5. CASE dirty
  <2>1. work' = <<Do("draw")>> \o Tail(work) /\ Do("draw") \in Work /\ Do("draw").do = "draw"
    BY <1>5, Items1 DEF Flush, Then, Works
  <2>2. Carried(0) /\ work' \in Seq(Work) /\ work' # <<>> /\ work'[1] = Do("draw")
    BY <1>1, <1>4, <2>1, OneItem
  <2>3. WorkInOrder'
    BY <1>1, <1>2, <1>4, <2>1, PopOne
  <2>4. Shown'
    BY <1>2, <1>4, <2>1, <2>2 DEF Shown, IInv
  <2>5. QED
    BY <1>1, <1>2, <1>3, <2>2, <2>3, <2>4, RestKept DEF IInv, Shapes, TypeOK
<1>6. CASE ~dirty
  <2>1. work' = <<>> \o Tail(work)
    BY <1>6 DEF Flush, Then
  <2>2. Carried(-1) /\ work' \in Seq(Work)
    BY <1>1, <1>4, <2>1, NoItem
  <2>3. WorkInOrder'
    BY <1>1, <1>2, <1>4, <2>1, PopNone
  <2>4. Shown'
    <3>1. work[1] # Do("check")
      BY <1>1 DEF Do
    <3>2. control = "running" /\ going /\ run.painted /\ ~run.degraded => run.mounted /\ run.shown = Len(folded)
      BY <1>1, <1>6, <3>1 DEF Shown, IInv
    <3>3. QED
      BY <1>2, <1>4, <3>2 DEF Shown
  <2>5. QED
    BY <1>1, <1>2, <1>3, <2>2, <2>3, <2>4, RestKept DEF IInv, Shapes, TypeOK
<1>7. QED
  BY <1>4, <1>5, <1>6

LEMMA BeginKeeps == ASSUME Sensible, IInv, Begin PROVE IInv'
<1>1. /\ control = "running" /\ work # <<>> /\ Head(work) = work[1] /\ work[1].do = "begin"
  BY Heads DEF IInv, Begin
<1>2. /\ UNCHANGED <<source, inbox, pump, control, folded, dirty, permit, throws, closing, owed>>
      /\ going' /\ runs' = Append(runs, NewRun) /\ ~going
  BY <1>1 DEF Begin, fold, IInv, WorkInOrder
<1>3. NewRun \in Run /\ ~NewRun.over /\ NewRun.printed = 0 /\ ~NewRun.mounted /\ ~NewRun.painted
      /\ ~NewRun.degraded /\ ~NewRun.failed
  BY DEF NewRun, Run
<1>4. /\ runs' \in Seq(Run) /\ Len(runs') = Len(runs) + 1 /\ runs' # <<>> /\ run' = NewRun /\ Len(runs) \in Nat
      /\ runs'[Len(runs) + 1] = NewRun /\ \A i \in 1..Len(runs) : runs'[i] = runs[i]
  <2>1. runs \in Seq(Run) /\ Len(runs) \in Nat
    BY DEF IInv, Shapes
  <2>2. /\ runs' \in Seq(Run) /\ Len(runs') = Len(runs) + 1 /\ runs'[Len(runs) + 1] = NewRun
        /\ \A i \in 1..Len(runs) : runs'[i] = runs[i]
    BY <1>2, <1>3, <2>1, Appended
  <2>3. QED
    BY <2>1, <2>2 DEF run
<1>5. \A i \in 1..Len(runs) : runs[i].over
  <2>1. runs # <<>> => runs[Len(runs)].over
    BY <1>1, <1>2 DEF IInv, RunsInOrder, run
  <2>2. \A i \in 1..Len(runs) : i = Len(runs) \/ i \in 1..(Len(runs) - 1)
    BY <1>4
  <2>3. QED
    BY <2>1, <2>2 DEF IInv, RunsInOrder, Shapes
<1>6. \A i \in 1..Len(runs') : i = Len(runs) + 1 \/ (i \in 1..Len(runs) /\ i # Len(runs) + 1)
  BY <1>4
<1>7. RunsInOrder'
  <2>1. \A i \in 1..(Len(runs') - 1) : i \in 1..Len(runs)
    BY <1>4
  <2>2. \A i \in 1..(Len(runs') - 1) : runs'[i].over
    BY <1>4, <1>5, <2>1
  <2>3. \A i \in 1..Len(runs') : (runs'[i].painted \/ runs'[i].mounted => Interactive)
                                 /\ (~runs'[i].over => runs'[i].printed = 0)
    BY <1>3, <1>4, <1>6 DEF IInv, RunsInOrder
  <2>4. permit' # "view"
    BY <1>1, <1>2 DEF IInv, RunsInOrder
  <2>5. QED
    BY <1>1, <1>2, <1>3, <1>4, <2>2, <2>3, <2>4 DEF RunsInOrder
<1>8. Shown'
  BY <1>3, <1>4 DEF Shown
<1>9. Stands'
  <2>1. ASSUME NEW i \in 1..Len(runs'), runs'[i].over
        PROVE  i \in 1..Len(runs) /\ runs'[i] = runs[i] /\ ~Waits(i)
    BY <1>1, <1>3, <1>4, <1>6, <2>1 DEF Waits
  <2>2. QED
    BY <1>2, <2>1 DEF Stands, IInv
<1>10. Shapes /\ WorkInOrder
  BY DEF IInv
<1>11. dirty' \in BOOLEAN /\ permit' \in {"free", "view", "other"} /\ throws' \in 0 .. MaxThrows /\ going' \in BOOLEAN
  BY <1>2 DEF IInv, Shapes, TypeOK, Begin
<1>12. CASE Interactive
  <2>1. work' = <<Do("mount")>> \o Tail(work) /\ Do("mount") \in Work /\ Do("mount").do = "mount"
    BY <1>12, Items1 DEF Begin, Then, Works
  <2>2. Carried(0) /\ work' \in Seq(Work) /\ work' # <<>> /\ work'[1] = Do("mount")
    BY <1>1, <1>10, <2>1, OneItem
  <2>3. WorkInOrder'
    BY <1>1, <1>2, <1>3, <1>4, <1>10, <1>12, <2>1, PopOne
  <2>4. QED
    BY <1>1, <1>2, <1>4, <1>7, <1>8, <1>9, <1>11, <2>2, <2>3, RestKept DEF fold
<1>13. CASE ~Interactive
  <2>1. work' = <<>> \o Tail(work)
    BY <1>13 DEF Begin, Then
  <2>2. Carried(-1) /\ work' \in Seq(Work)
    BY <1>1, <1>10, <2>1, NoItem
  <2>3. WorkInOrder'
    BY <1>1, <1>2, <1>10, <2>1, PopNone
  <2>4. QED
    BY <1>1, <1>2, <1>4, <1>7, <1>8, <1>9, <1>11, <2>2, <2>3, RestKept DEF fold
<1>14. QED
  BY <1>12, <1>13

\* A frame throws, or not: what may come of the run and of the inbox.
LEMMA FailedMessage ==
  ASSUME Shapes, inbox' = Append(inbox, [tag |-> "Failed", chunk |-> <<Len(runs)>>])
  PROVE  \E m \in Messages : (m.tag = "Tick" \/ (m.tag = "Failed" /\ m.chunk # <<>>)) /\ inbox' = Append(inbox, m)
<1>1. Len(runs) \in Nat
  BY DEF Shapes
<1>2. [tag |-> "Failed", chunk |-> <<Len(runs)>>] \in Messages /\ <<Len(runs)>> # <<>>
  BY <1>1 DEF Messages, Tags
<1>3. QED
  BY <1>2

LEMMA MountKeeps == ASSUME Sensible, IInv, Mount PROVE IInv'
<1>1. /\ control = "running" /\ work # <<>> /\ Head(work) = work[1] /\ work[1].do = "mount"
  BY Heads DEF IInv, Mount
<1>2. /\ UNCHANGED <<source, pump, control, folded, dirty, going, closing, owed>>
      /\ permit' = "view"
  BY DEF Mount, fold
<1>3. Shapes /\ WorkInOrder /\ RunsInOrder /\ Stands
  BY DEF IInv
<1>4. going /\ Interactive /\ runs # <<>> /\ ~run.over /\ ~run.painted /\ ~run.degraded /\ run.printed = 0
      /\ run \in Run /\ Len(folded) \in Nat
  BY <1>1, <1>3 DEF WorkInOrder, RunsInOrder, Shapes, run
<1>5. work' = <<Do("check")>> \o Tail(work) /\ Do("check") \in Work /\ Do("check").do = "check"
  BY Items1 DEF Mount, Then, Works
<1>6. Carried(0) /\ work' \in Seq(Work) /\ work' # <<>> /\ work'[1] = Do("check")
  BY <1>1, <1>3, <1>5, OneItem
<1>7. WorkInOrder'
  BY <1>1, <1>2, <1>3, <1>5, PopOne
<1>8. ASSUME NEW r \in Run, Current(r), ~r.over, r.printed = 0, r.mounted, r.painted => r.shown = Len(folded)
      PROVE  RunsInOrder' /\ runs' \in Seq(Run) /\ Stands' /\ Shown'
  <2>1. RunsInOrder' /\ runs' \in Seq(Run) /\ Stands'
    BY <1>1, <1>2, <1>3, <1>4, <1>8, RunsCurrent, StandsCurrent
  <2>2. run' = r
    BY <1>3, <1>4, <1>8, CurrentRuns
  <2>3. Shown'
    BY <1>2, <1>8, <2>2 DEF Shown
  <2>4. QED
    BY <2>1, <2>3
<1>9. dirty' \in BOOLEAN /\ permit' \in {"free", "view", "other"} /\ going' \in BOOLEAN
  BY <1>2, <1>3 DEF Shapes
<1>10. CASE Current([run EXCEPT !.mounted = TRUE, !.painted = TRUE, !.shown = Len(folded)]) /\ UNCHANGED <<inbox, throws>>
  <2> DEFINE r == [run EXCEPT !.mounted = TRUE, !.painted = TRUE, !.shown = Len(folded)]
  <2>1. r \in Run /\ ~r.over /\ r.printed = 0 /\ r.mounted /\ r.shown = Len(folded)
    BY <1>4 DEF Run
  <2>2. Current(r)
    BY <1>10
  <2> HIDE DEF r
  <2>3. RunsInOrder' /\ runs' \in Seq(Run) /\ Stands' /\ Shown'
    BY <2>1, <2>2, <1>8
  <2>4. throws' \in 0 .. MaxThrows /\ inbox' = inbox
    BY <1>3, <1>10 DEF Shapes, TypeOK
  <2>5. QED
    BY <1>1, <1>2, <1>6, <1>7, <1>9, <2>3, <2>4, RestKept
<1>11. CASE /\ throws < MaxThrows /\ throws' = throws + 1
            /\ Current([run EXCEPT !.mounted = TRUE, !.failed = TRUE])
            /\ inbox' = Append(inbox, [tag |-> "Failed", chunk |-> <<Len(runs)>>])
  <2> DEFINE r == [run EXCEPT !.mounted = TRUE, !.failed = TRUE]
  <2>1. r \in Run /\ ~r.over /\ r.printed = 0 /\ r.mounted /\ ~r.painted
    BY <1>4 DEF Run
  <2>2. Current(r)
    BY <1>11
  <2> HIDE DEF r
  <2>3. RunsInOrder' /\ runs' \in Seq(Run) /\ Stands' /\ Shown'
    BY <2>1, <2>2, <1>8
  <2>4. throws' \in 0 .. MaxThrows
    BY <1>3, <1>11 DEF Shapes, TypeOK, Sensible
  <2>5. \E m \in Messages : (m.tag = "Tick" \/ (m.tag = "Failed" /\ m.chunk # <<>>)) /\ inbox' = Append(inbox, m)
    BY <1>3, <1>11, FailedMessage
  <2>6. QED
    BY <1>1, <1>2, <1>6, <1>7, <1>9, <2>3, <2>4, <2>5, RestKept
<1>12. QED
  BY <1>10, <1>11 DEF Mount

LEMMA MountFailsKeeps == ASSUME Sensible, IInv, MountFails PROVE IInv'
<1>1. /\ control = "running" /\ work # <<>> /\ Head(work) = work[1] /\ work[1].do = "mount"
  BY Heads DEF IInv, MountFails
<1>2. /\ UNCHANGED <<source, inbox, pump, control, folded, dirty, going, permit, closing, owed>>
      /\ Current(Degraded(run)) /\ work' = <<>> \o Tail(work) /\ throws < MaxThrows /\ throws' = throws + 1
  BY DEF MountFails, fold, Then
<1>3. Shapes /\ WorkInOrder /\ RunsInOrder /\ Stands
  BY DEF IInv
<1>4. going /\ runs # <<>> /\ ~run.over /\ ~run.painted /\ ~run.mounted /\ run.printed = 0 /\ run \in Run
  BY <1>1, <1>3 DEF WorkInOrder, RunsInOrder, Shapes, run
<1> DEFINE r == Degraded(run)
<1>5. r \in Run /\ ~r.over /\ r.printed = 0 /\ ~r.mounted /\ ~r.painted
  BY <1>4 DEF Run, Degraded, Unmounted
<1>6. Current(r) /\ permit' # "view"
  BY <1>2, <1>3, <1>4 DEF RunsInOrder
<1> HIDE DEF r
<1>7. RunsInOrder' /\ runs' \in Seq(Run) /\ Stands' /\ run' = r
  BY <1>1, <1>2, <1>3, <1>4, <1>5, <1>6, RunsCurrent, StandsCurrent, CurrentRuns
<1>8. Shown'
  BY <1>5, <1>7 DEF Shown
<1>9. Carried(-1) /\ work' \in Seq(Work) /\ WorkInOrder'
  BY <1>1, <1>2, <1>3, NoItem, PopNone
<1>10. /\ dirty' \in BOOLEAN /\ permit' \in {"free", "view", "other"} /\ going' \in BOOLEAN
       /\ throws' \in 0 .. MaxThrows
  BY <1>2, <1>3 DEF Shapes, TypeOK, Sensible
<1>11. QED
  BY <1>1, <1>2, <1>7, <1>8, <1>9, <1>10, RestKept

LEMMA CheckKeeps == ASSUME IInv, Check PROVE IInv'
<1>1. /\ control = "running" /\ work # <<>> /\ Head(work) = work[1] /\ work[1].do = "check"
  BY Heads DEF IInv, Check
<1>2. /\ UNCHANGED <<source, inbox, pump, control, folded, dirty, going, throws, closing, owed>>
      /\ work' = <<>> \o Tail(work)
  BY DEF Check, fold, Then
<1>3. Shapes /\ WorkInOrder /\ RunsInOrder /\ Stands /\ Shown
  BY DEF IInv
<1>4. Carried(-1) /\ work' \in Seq(Work) /\ WorkInOrder'
  BY <1>1, <1>2, <1>3, NoItem, PopNone
<1>5. dirty' \in BOOLEAN /\ going' \in BOOLEAN /\ throws' \in 0 .. MaxThrows
  BY <1>2, <1>3 DEF Shapes, TypeOK
<1>6. CASE going /\ run.failed /\ work[1].on \in {0, Len(runs)}
  <2> DEFINE r == Degraded(run)
  <2>1. runs # <<>> /\ ~run.over /\ run.printed = 0 /\ run \in Run /\ (run.painted => Interactive)
    BY <1>3, <1>6 DEF RunsInOrder, Shapes, run
  <2>2. r \in Run /\ ~r.over /\ r.printed = 0 /\ ~r.mounted /\ r.degraded /\ (r.painted => Interactive)
    BY <2>1 DEF Run, Degraded, Unmounted
  <2>3. Current(r) /\ permit' # "view" /\ permit' \in {"free", "view", "other"}
    BY <1>1, <1>3, <1>6 DEF Check, FreedBy, RunsInOrder, Shapes, TypeOK
  <2> HIDE DEF r
  <2>4. RunsInOrder' /\ runs' \in Seq(Run) /\ Stands' /\ run' = r
    BY <1>1, <1>2, <1>3, <1>6, <2>1, <2>2, <2>3, RunsCurrent, StandsCurrent, CurrentRuns
  <2>5. Shown'
    BY <2>2, <2>4 DEF Shown
  <2>6. QED
    BY <1>1, <1>2, <1>4, <1>5, <2>3, <2>4, <2>5, RestKept
<1>7. CASE ~(going /\ run.failed /\ work[1].on \in {0, Len(runs)})
  <2>1. UNCHANGED <<runs, permit>>
    BY <1>1, <1>7 DEF Check
  <2>2. RunsInOrder' /\ Stands' /\ run' = run
    BY <1>1, <1>2, <1>3, <2>1, RunsSame, StandsSame DEF run
  <2>3. going /\ work[1] = Do("check") => ~run.failed
    BY <1>7 DEF Do
  <2>4. Shown'
    BY <1>1, <1>2, <1>3, <2>2, <2>3 DEF Shown
  <2>5. runs' \in Seq(Run) /\ permit' \in {"free", "view", "other"}
    BY <1>3, <2>1 DEF Shapes, TypeOK
  <2>6. QED
    BY <1>1, <1>2, <1>4, <1>5, <2>2, <2>4, <2>5, RestKept
<1>8. QED
  BY <1>6, <1>7

LEMMA ThrowDoes ==
  ASSUME Sensible, IInv, control = "running", control' = control, going, run.mounted,
         UNCHANGED <<going, permit>>, NEW good \in BOOLEAN, Throw(good)
  PROVE  /\ RunsInOrder' /\ Stands' /\ runs' \in Seq(Run) /\ throws' \in 0 .. MaxThrows
         /\ run'.mounted /\ run'.failed /\ run'.degraded = run.degraded /\ run'.shown = run.shown
         /\ (run'.painted => run.painted)
         /\ \E m \in Messages : (m.tag = "Tick" \/ (m.tag = "Failed" /\ m.chunk # <<>>)) /\ inbox' = Append(inbox, m)
<1>1. Shapes /\ RunsInOrder /\ Stands
  BY DEF IInv
<1>2. runs # <<>> /\ ~run.over /\ run.printed = 0 /\ run \in Run /\ Interactive /\ permit' = "view"
  BY <1>1 DEF RunsInOrder, Shapes, run
<1> DEFINE r == [run EXCEPT !.failed = TRUE, !.painted = @ /\ good]
<1>3. /\ r \in Run /\ ~r.over /\ r.printed = 0 /\ r.mounted /\ r.failed /\ r.degraded = run.degraded
      /\ r.shown = run.shown /\ (r.painted => run.painted)
  BY <1>2 DEF Run
<1>4. Current(r)
  BY DEF Throw
<1> HIDE DEF r
<1>5. RunsInOrder' /\ Stands' /\ runs' \in Seq(Run) /\ run' = r
  BY <1>1, <1>2, <1>3, <1>4, RunsCurrent, StandsCurrent, CurrentRuns
<1>6. throws' \in 0 .. MaxThrows
  BY <1>1 DEF Throw, Shapes, TypeOK, Sensible
<1>7. \E m \in Messages : (m.tag = "Tick" \/ (m.tag = "Failed" /\ m.chunk # <<>>)) /\ inbox' = Append(inbox, m)
  BY <1>1, FailedMessage DEF Throw
<1>8. QED
  BY <1>3, <1>5, <1>6, <1>7

LEMMA DrawKeeps ==
  ASSUME Sensible, IInv, NEW item \in {"draw", "tick"}, Draw(item)
  PROVE  IInv'
<1>1. /\ control = "running" /\ work # <<>> /\ Head(work) = work[1] /\ work[1].do = item
  BY Heads DEF IInv, Draw
<1>2. UNCHANGED <<source, pump, control, folded, dirty, going, permit, closing, owed>>
  BY DEF Draw, fold
<1>3. Shapes /\ WorkInOrder /\ RunsInOrder /\ Stands /\ Shown
  BY DEF IInv
<1>4. dirty' \in BOOLEAN /\ going' \in BOOLEAN /\ permit' \in {"free", "view", "other"}
  BY <1>2, <1>3 DEF Shapes, TypeOK
<1>5. CASE going /\ run.mounted
  <2>1. work' = <<Do("check")>> \o Tail(work) /\ Do("check") \in Work /\ Do("check").do = "check"
    BY <1>5, Items1 DEF Draw, Then, Works
  <2>2. Carried(0) /\ work' \in Seq(Work) /\ work' # <<>> /\ work'[1] = Do("check")
    BY <1>1, <1>3, <2>1, OneItem
  <2>3. WorkInOrder'
    BY <1>1, <1>2, <1>3, <2>1, PopOne
  <2>4. /\ runs # <<>> /\ ~run.over /\ run.printed = 0 /\ run \in Run /\ Interactive
        /\ permit' = "view" /\ Len(folded) \in Nat
    BY <1>2, <1>3, <1>5 DEF RunsInOrder, Shapes, run
  <2>5. CASE /\ Current(IF run.failed THEN run ELSE [run EXCEPT !.painted = TRUE, !.shown = Len(folded)])
             /\ UNCHANGED <<inbox, throws>>
    <3> DEFINE r == IF run.failed THEN run ELSE [run EXCEPT !.painted = TRUE, !.shown = Len(folded)]
    <3>1. r \in Run /\ ~r.over /\ r.printed = 0 /\ r.mounted /\ (r.failed \/ r.shown = Len(folded))
      BY <1>5, <2>4 DEF Run
    <3>2. Current(r)
      BY <2>5
    <3> HIDE DEF r
    <3>3. RunsInOrder' /\ runs' \in Seq(Run) /\ Stands' /\ run' = r
      BY <1>1, <1>2, <1>3, <1>5, <2>4, <3>1, <3>2, RunsCurrent, StandsCurrent, CurrentRuns
    <3>4. Shown'
      BY <1>2, <2>2, <3>1, <3>3 DEF Shown
    <3>5. throws' \in 0 .. MaxThrows /\ inbox' = inbox
      BY <1>3, <2>5 DEF Shapes, TypeOK
    <3>6. QED
      BY <1>1, <1>2, <1>4, <2>2, <2>3, <3>3, <3>4, <3>5, RestKept
  <2>6. ASSUME NEW good \in BOOLEAN, Throw(good) PROVE IInv'
    <3>1. /\ RunsInOrder' /\ Stands' /\ runs' \in Seq(Run) /\ throws' \in 0 .. MaxThrows
          /\ run'.mounted /\ run'.failed
          /\ \E m \in Messages : (m.tag = "Tick" \/ (m.tag = "Failed" /\ m.chunk # <<>>)) /\ inbox' = Append(inbox, m)
      BY <1>1, <1>2, <1>5, <2>6, ThrowDoes
    <3>2. Shown'
      BY <2>2, <3>1 DEF Shown
    <3>3. QED
      BY <1>1, <1>2, <1>4, <2>2, <2>3, <3>1, <3>2, RestKept
  <2>7. QED
    BY <1>5, <2>5, <2>6 DEF Draw
<1>6. CASE ~(going /\ run.mounted)
  <2>1. UNCHANGED <<runs, inbox, throws>> /\ work' = <<>> \o Tail(work)
    BY <1>6 DEF Draw, Then
  <2>2. Carried(-1) /\ work' \in Seq(Work) /\ WorkInOrder'
    BY <1>1, <1>2, <1>3, <2>1, NoItem, PopNone
  <2>3. RunsInOrder' /\ Stands' /\ run' = run
    BY <1>1, <1>2, <1>3, <2>1, RunsSame, StandsSame DEF run
  <2>4. Shown'
    BY <1>1, <1>2, <1>3, <1>6, <2>3 DEF Shown
  <2>5. runs' \in Seq(Run) /\ throws' \in 0 .. MaxThrows
    BY <1>3, <2>1 DEF Shapes, TypeOK
  <2>6. QED
    BY <1>1, <1>2, <1>4, <2>1, <2>2, <2>3, <2>4, <2>5, RestKept
<1>7. QED
  BY <1>5, <1>6

LEMMA ThrowUnaskedKeeps == ASSUME Sensible, IInv, ThrowUnasked PROVE IInv'
<1>1. /\ UNCHANGED <<source, pump, control, work, folded, dirty, going, permit, closing, owed>>
      /\ going /\ run.mounted
  BY DEF ThrowUnasked, fold
<1>2. Shapes /\ WorkInOrder /\ RunsInOrder /\ Stands /\ Shown
  BY DEF IInv
<1>3. control = "running"
  BY <1>1, <1>2 DEF RunsInOrder
<1>4. PICK good \in BOOLEAN : Throw(good)
  BY DEF ThrowUnasked
<1>5. /\ RunsInOrder' /\ Stands' /\ runs' \in Seq(Run) /\ throws' \in 0 .. MaxThrows
      /\ run'.mounted /\ run'.failed /\ run'.degraded = run.degraded /\ run'.shown = run.shown
      /\ (run'.painted => run.painted)
      /\ \E m \in Messages : (m.tag = "Tick" \/ (m.tag = "Failed" /\ m.chunk # <<>>)) /\ inbox' = Append(inbox, m)
  BY <1>1, <1>3, <1>4, ThrowDoes
<1>6. Shown'
  BY <1>1, <1>2, <1>3, <1>5 DEF Shown
<1>7. Carried(0) /\ work' \in Seq(Work)
  BY <1>1, <1>2, SameCarried
<1>8. WorkInOrder'
  BY <1>1, <1>2, <1>5 DEF WorkInOrder
<1>9. dirty' \in BOOLEAN /\ going' \in BOOLEAN /\ permit' \in {"free", "view", "other"}
  BY <1>1, <1>2 DEF Shapes, TypeOK
<1>10. QED
  BY <1>1, <1>3, <1>5, <1>6, <1>7, <1>8, <1>9, RestKept

LEMMA FinishKeeps == ASSUME IInv, Finish PROVE IInv'
<1>1. /\ control = "running" /\ work # <<>> /\ Head(work) = work[1] /\ work[1].do = "end"
  BY Heads DEF IInv, Finish
<1>2. UNCHANGED <<source, inbox, pump, control, folded, dirty, throws, closing, owed>> /\ ~going' /\ going' \in BOOLEAN
  BY DEF Finish, fold
<1>3. Shapes /\ WorkInOrder /\ RunsInOrder /\ Stands /\ Shown
  BY DEF IInv
<1>4. Shown'
  BY <1>2 DEF Shown
<1>5. dirty' \in BOOLEAN /\ throws' \in 0 .. MaxThrows
  BY <1>2, <1>3 DEF Shapes, TypeOK
<1>6. CASE going
  <2> DEFINE r == [Unmounted(run) EXCEPT !.over = TRUE, !.upTo = Len(folded)]
  <2>1. /\ runs # <<>> /\ ~run.over /\ run.printed = 0 /\ run \in Run /\ (run.painted => Interactive)
        /\ Len(folded) \in Nat
    BY <1>3, <1>6 DEF RunsInOrder, Shapes, run
  <2>2. /\ r \in Run /\ r.over /\ r.printed = 0 /\ ~r.mounted /\ r.degraded = run.degraded
        /\ r.painted = run.painted /\ r.shown = run.shown /\ r.upTo = Len(folded)
    BY <2>1 DEF Run, Unmounted
  <2>3. Current(r) /\ permit' # "view" /\ permit' \in {"free", "view", "other"}
    BY <1>1, <1>3, <1>6 DEF Finish, FreedBy, RunsInOrder, Shapes, TypeOK
  <2>4. run.painted => run.degraded \/ run.shown = Len(folded)
    <3>1. work[1] # Do("check")
      BY <1>1 DEF Do
    <3>2. run.painted /\ ~run.degraded => run.shown = Len(folded) \/ dirty
      BY <1>1, <1>3, <1>6, <3>1 DEF Shown
    <3>3. ~dirty \/ run.degraded
      BY <1>1, <1>3 DEF WorkInOrder
    <3>4. QED
      BY <3>2, <3>3
  <2> HIDE DEF r
  <2>5. /\ runs' \in Seq(Run) /\ runs' # <<>> /\ Len(runs') = Len(runs) /\ Len(runs) \in Nat
        /\ run' = r /\ runs'[Len(runs)] = r /\ \A i \in 1..Len(runs) : i # Len(runs) => runs'[i] = runs[i]
    BY <1>3, <2>1, <2>2, <2>3, CurrentRuns
  <2>6. work' = <<Do("print")>> \o Tail(work) /\ Do("print") \in Work /\ Do("print").do = "print"
    BY <1>6, Items1 DEF Finish, Then, Works
  <2>7. Carried(0) /\ work' \in Seq(Work) /\ work' # <<>> /\ work'[1] = Do("print")
    BY <1>1, <1>3, <2>6, OneItem
  <2>8. WorkInOrder'
    BY <1>1, <1>2, <1>3, <2>2, <2>5, <2>6, PopOne
  <2>9. RunsInOrder'
    <3>1. \A i \in 1..(Len(runs') - 1) : i \in 1..(Len(runs) - 1) /\ i \in 1..Len(runs) /\ i # Len(runs)
      BY <2>5
    <3>2. \A i \in 1..(Len(runs') - 1) : runs'[i].over
      BY <1>3, <2>5, <3>1 DEF RunsInOrder
    <3>3. \A i \in 1..Len(runs') : (runs'[i].painted \/ runs'[i].mounted => Interactive)
                                   /\ (~runs'[i].over => runs'[i].printed = 0)
      BY <1>3, <2>1, <2>2, <2>5 DEF RunsInOrder
    <3>4. QED
      BY <1>2, <2>2, <2>3, <2>5, <3>2, <3>3 DEF RunsInOrder
  <2>10. Stands'
    <3>1. ASSUME NEW i \in 1..Len(runs'), i # Len(runs)
          PROVE  i \in 1..Len(runs) /\ runs'[i] = runs[i] /\ ~Waits(i) /\ ~Waits(i)'
      BY <2>5, <3>1 DEF Waits
    <3>2. Waits(Len(runs))'
      BY <2>5, <2>6, <2>7 DEF Waits
    <3>3. runs'[Len(runs)].painted => runs'[Len(runs)].degraded \/ runs'[Len(runs)].shown = runs'[Len(runs)].upTo
      BY <2>2, <2>4, <2>5
    <3>4. QED
      BY <1>2, <1>3, <3>1, <3>2, <3>3 DEF Stands
  <2>11. QED
    BY <1>1, <1>2, <1>4, <1>5, <2>3, <2>5, <2>7, <2>8, <2>9, <2>10, RestKept
<1>7. CASE ~going
  <2>1. UNCHANGED <<runs, permit, going>> /\ work' = <<>> \o Tail(work)
    BY <1>2, <1>3, <1>7 DEF Finish, Then, Shapes
  <2>2. Carried(-1) /\ work' \in Seq(Work) /\ WorkInOrder'
    BY <1>1, <1>2, <1>3, <2>1, NoItem, PopNone
  <2>3. RunsInOrder' /\ Stands'
    BY <1>1, <1>2, <1>3, <2>1, RunsSame, StandsSame
  <2>4. runs' \in Seq(Run) /\ permit' \in {"free", "view", "other"}
    BY <1>3, <2>1 DEF Shapes, TypeOK
  <2>5. QED
    BY <1>1, <1>2, <1>4, <1>5, <2>2, <2>3, <2>4, RestKept
<1>8. QED
  BY <1>3, <1>6, <1>7 DEF Shapes

LEMMA WriteFrameKeeps == ASSUME Sensible, IInv, WriteFrame PROVE IInv'
<1>1. /\ control = "running" /\ work # <<>> /\ Head(work) = work[1] /\ work[1].do = "print"
  BY Heads DEF IInv, WriteFrame
<1>2. /\ UNCHANGED <<source, inbox, pump, control, folded, dirty, going, permit, throws, closing, owed>>
      /\ work' = <<>> \o Tail(work)
  BY DEF WriteFrame, fold, Then
<1>3. Shapes /\ WorkInOrder /\ RunsInOrder /\ Stands
  BY DEF IInv
<1>4. ~going /\ runs # <<>> /\ run.over /\ run.printed = 0 /\ run.upTo = Len(folded) /\ Len(folded) \in Nat
  BY <1>1, <1>3 DEF WorkInOrder, Shapes
<1>5. run \in Run /\ (run.painted \/ run.mounted => Interactive) /\ runs[Len(runs)] = run /\ Len(runs) \in 1..Len(runs)
  BY <1>3, <1>4 DEF RunsInOrder, Shapes, run
<1>6. run.painted => run.degraded \/ run.shown = run.upTo
  BY <1>3, <1>4, <1>5 DEF Stands
<1> DEFINE r == IF Prints(run) THEN [run EXCEPT !.printed = Len(folded)] ELSE run
<1>7. /\ r \in Run /\ r.over /\ r.painted = run.painted /\ r.mounted = run.mounted /\ r.degraded = run.degraded
      /\ r.shown = run.shown /\ r.upTo = run.upTo
  BY <1>4, <1>5 DEF Run
<1>8. /\ run.painted => r.printed = 0
      /\ ~run.painted /\ (Interactive \/ ~Hosted) => r.printed = run.upTo
  BY <1>4, <1>5 DEF Prints, Run
<1>9. Current(r)
  BY DEF WriteFrame
<1> HIDE DEF r
<1>10. /\ runs' \in Seq(Run) /\ runs' # <<>> /\ Len(runs') = Len(runs) /\ Len(runs) \in Nat
       /\ run' = r /\ runs'[Len(runs)] = r /\ \A i \in 1..Len(runs) : i # Len(runs) => runs'[i] = runs[i]
  BY <1>3, <1>4, <1>7, <1>9, CurrentRuns
<1>11. Carried(-1) /\ work' \in Seq(Work) /\ WorkInOrder'
  BY <1>1, <1>2, <1>3, <1>4, NoItem, PopNone
<1>12. Shown'
  BY <1>2, <1>4 DEF Shown
<1>13. RunsInOrder'
  <2>1. \A i \in 1..(Len(runs') - 1) : i \in 1..(Len(runs) - 1) /\ i \in 1..Len(runs) /\ i # Len(runs)
    BY <1>10
  <2>2. \A i \in 1..(Len(runs') - 1) : runs'[i].over
    BY <1>3, <1>10, <2>1 DEF RunsInOrder
  <2>3. \A i \in 1..Len(runs') : (runs'[i].painted \/ runs'[i].mounted => Interactive)
                                 /\ (~runs'[i].over => runs'[i].printed = 0)
    BY <1>3, <1>5, <1>7, <1>10 DEF RunsInOrder
  <2>4. QED
    BY <1>2, <1>3, <1>4, <1>7, <1>10, <2>2, <2>3 DEF RunsInOrder
<1>14. Stands'
  <2>1. ASSUME NEW i \in 1..Len(runs'), i # Len(runs)
        PROVE  i \in 1..Len(runs) /\ runs'[i] = runs[i] /\ ~Waits(i)
    BY <1>10, <2>1 DEF Waits
  <2>2. QED
    BY <1>2, <1>3, <1>6, <1>7, <1>8, <1>10, <2>1 DEF Stands
<1>15. dirty' \in BOOLEAN /\ going' \in BOOLEAN /\ permit' \in {"free", "view", "other"} /\ throws' \in 0 .. MaxThrows
  BY <1>2, <1>3 DEF Shapes, TypeOK
<1>16. QED
  BY <1>1, <1>2, <1>10, <1>11, <1>12, <1>13, <1>14, <1>15, RestKept

LEMMA FoldStartOverKeeps == ASSUME IInv, FoldStartOver PROVE IInv'
<1>1. /\ control = "running" /\ work # <<>> /\ Head(work) = work[1] /\ work[1].do = "fold"
  BY Heads DEF IInv, FoldStartOver
<1>2. /\ UNCHANGED <<source, inbox, pump, control, folded, dirty, runs, going, permit, throws, closing, owed>>
      /\ work' = <<Do("end")>> \o work /\ going /\ run.degraded
  BY DEF FoldStartOver, StartsOver, fold, screen
<1>3. Shapes /\ WorkInOrder /\ RunsInOrder /\ Stands /\ Shown
  BY DEF IInv
<1>4. Do("end") \in Work /\ Do("end").do = "end"
  BY Items1 DEF Works
<1>5. /\ work' \in Seq(Work) /\ Len(work') = Len(work) + 1 /\ work'[1] = Do("end") /\ Len(work) \in Nat
      /\ \A k \in 2..Len(work') : k - 1 \in 1..Len(work) /\ work'[k] = work[k - 1]
      /\ \A k \in 1..Len(work) : k + 1 \in 2..Len(work') /\ work'[k + 1] = work[k]
  BY <1>2, <1>3, <1>4 DEF Shapes
<1>6. Carried(1)
  <2>1. \A k \in 1..Len(work') : k = 1 \/ k \in 2..Len(work')
    BY <1>5
  <2>2. \A k \in 2..Len(work') : k \in 1..Len(work')
    BY <1>5
  <2>3. QED
    BY <1>4, <1>5, <2>1, <2>2 DEF Moved, Carried
<1>7. WorkInOrder'
  <2>1. ASSUME NEW k \in 2..Len(work')
        PROVE  /\ work'[k].do \notin {"draw", "begin", "mount", "print"}
               /\ work'[k].do = "end" => work'[k - 1].do = "flush"
               /\ work'[k].do = "stop" => work'[k - 1].do \in {"end", "print"}
    <3>1. CASE k = 2
      BY <1>1, <1>5, <3>1
    <3>2. CASE k # 2
      <4>1. k - 1 \in 2..Len(work) /\ work'[k] = work[k - 1] /\ k - 1 \in 2..Len(work') /\ work'[k - 1] = work[(k - 1) - 1]
        BY <1>5, <3>2
      <4>2. QED
        BY <1>1, <1>3, <4>1 DEF WorkInOrder
    <3>3. QED
      BY <3>1, <3>2
  <2>2. run'.degraded /\ going'
    BY <1>2 DEF run
  <2>3. QED
    BY <1>4, <1>5, <2>1, <2>2 DEF WorkInOrder
<1>8. RunsInOrder' /\ Stands' /\ run' = run
  BY <1>1, <1>2, <1>3, RunsSame, StandsSame DEF run
<1>9. Shown'
  BY <1>2, <1>8 DEF Shown
<1>10. /\ runs' \in Seq(Run) /\ dirty' \in BOOLEAN /\ going' \in BOOLEAN /\ throws' \in 0 .. MaxThrows
       /\ permit' \in {"free", "view", "other"}
  BY <1>2, <1>3 DEF Shapes, TypeOK
<1>11. QED
  BY <1>1, <1>2, <1>5, <1>6, <1>7, <1>8, <1>9, <1>10, RestKept

\* Steps of others, which leave the work and the runs alone.
LEMMA AloneKept ==
  ASSUME IInv, control = "running",
         UNCHANGED <<source, pump, control, work, folded, dirty, runs, going, throws, closing, owed>>,
         inbox' = inbox \/ inbox' = Append(inbox, Message("Tick")),
         permit' = permit \/ (permit # "view" /\ permit' \in {"free", "other"})
  PROVE  IInv'
<1>1. Shapes /\ WorkInOrder /\ RunsInOrder /\ Stands /\ Shown
  BY DEF IInv
<1>2. Message("Tick") \in Messages /\ Message("Tick").tag = "Tick"
  BY DEF Message, Messages, Tags
<1>3. inbox' = inbox \/ \E m \in Messages :
        (m.tag = "Tick" \/ (m.tag = "Failed" /\ m.chunk # <<>>)) /\ inbox' = Append(inbox, m)
  BY <1>2
<1>4. Carried(0) /\ work' \in Seq(Work)
  BY <1>1, SameCarried
<1>5. run' = run
  BY DEF run
<1>6. WorkInOrder'
  BY <1>1, <1>5 DEF WorkInOrder
<1>7. RunsInOrder'
  BY <1>1, <1>5 DEF RunsInOrder
<1>8. Shown'
  BY <1>1, <1>5 DEF Shown
<1>9. Stands'
  BY <1>1 DEF Stands, Waits
<1>10. /\ runs' \in Seq(Run) /\ dirty' \in BOOLEAN /\ going' \in BOOLEAN /\ throws' \in 0 .. MaxThrows
       /\ permit' \in {"free", "view", "other"}
  BY <1>1 DEF Shapes, TypeOK
<1>11. QED
  BY <1>3, <1>4, <1>6, <1>7, <1>8, <1>9, <1>10, RestKept

\* Nothing but the permit moves, between others.
LEMMA PermitKept ==
  ASSUME IInv, UNCHANGED <<kinds, hub, finalTaken, inbox, pump, control, work, dirty, folded, runs, going,
                           throws, closing, owed>>,
         permit' = permit \/ (permit # "view" /\ permit' \in {"free", "other"})
  PROVE  IInv'
<1>1. Shapes' /\ TakenInOrder'
  BY DEF IInv, Shapes, TypeOK, TakenInOrder
<1>2. TakenUpTo' = TakenUpTo /\ Asked' = Asked /\ run' = run
  BY DEF TakenUpTo, Asked, run
<1>3. InOrder' /\ Complete'
  BY <1>2 DEF IInv, InOrder, Complete, Folds, Carries
<1>4. EndingInv'
  BY <1>2 DEF IInv, EndingInv, Folds, Carries
<1>5. WorkInOrder' /\ RunsInOrder' /\ Shown'
  BY <1>2 DEF IInv, WorkInOrder, RunsInOrder, Shown
<1>6. Stands'
  BY DEF IInv, Stands, Waits
<1>7. QED
  BY <1>1, <1>3, <1>4, <1>5, <1>6 DEF IInv

LEMMA OthersKeep ==
  ASSUME IInv, Tick \/ OtherMounts \/ OtherUnmounts \/ UNCHANGED vars
  PROVE  IInv'
<1>1. CASE Tick
  <2>1. UNCHANGED <<source, pump, control, work, folded, dirty, runs, going, permit, throws, closing, owed>>
        /\ control = "running" /\ inbox' = Append(inbox, Message("Tick"))
    BY <1>1 DEF Tick, fold, screen
  <2>2. QED
    BY <2>1, AloneKept
<1>2. CASE OtherMounts \/ OtherUnmounts \/ UNCHANGED vars
  <2>1. UNCHANGED <<kinds, hub, finalTaken, inbox, pump, control, work, dirty, folded, runs, going,
                    throws, closing, owed>>
    BY <1>2 DEF OtherMounts, OtherUnmounts, vars, source, fold
  <2>2. permit' = permit \/ (permit # "view" /\ permit' \in {"free", "other"})
    BY <1>2 DEF OtherMounts, OtherUnmounts, vars
  <2>3. QED
    BY <2>1, <2>2, PermitKept
<1>3. QED
  BY <1>1, <1>2

----------------------------------------------------------------------------
(* Steps of the fold. *)

\* The event to fold next is the first not folded.
LEMMA NextEvent ==
  ASSUME IInv, Does("fold")
  PROVE  Head(work).on = Len(folded) + 1 /\ Len(folded) + 1 <= TakenUpTo
<1>1. /\ control = "running" /\ work # <<>> /\ Head(work) = work[1] /\ work[1].do = "fold" /\ Folds(1)
  BY Heads DEF IInv, Folds
<1>2. Len(work) \in Nat /\ 1 \in 1..Len(work) /\ Len(folded) \in Nat /\ TakenUpTo \in Nat
  BY <1>1 DEF IInv, Shapes, TypeOK, TakenUpTo
<1>3. work[1].on \in (Len(folded) + 1)..TakenUpTo
  BY <1>1, <1>2 DEF IInv, InOrder
<1>4. Len(folded) + 1 \in (Len(folded) + 1)..TakenUpTo
  BY <1>2, <1>3
<1>5. CASE \E k \in 1..Len(work) : Folds(k) /\ work[k].on = Len(folded) + 1
  <2>1. PICK k \in 1..Len(work) : Folds(k) /\ work[k].on = Len(folded) + 1
    BY <1>5
  <2>2. 1 < k => work[1].on < work[k].on
    BY <1>1, <1>2, <2>1 DEF IInv, InOrder
  <2>3. QED
    BY <1>1, <1>2, <1>3, <2>1, <2>2
<1>6. CASE \E l \in 1..Len(inbox) : Carries(l) /\ \E j \in 1..Len(inbox[l].chunk) : inbox[l].chunk[j] = Len(folded) + 1
  <2>0. PICK l \in 1..Len(inbox) :
          Carries(l) /\ \E j \in 1..Len(inbox[l].chunk) : inbox[l].chunk[j] = Len(folded) + 1
    BY <1>6
  <2>1. PICK j \in 1..Len(inbox[l].chunk) : Carries(l) /\ inbox[l].chunk[j] = Len(folded) + 1
    BY <2>0
  <2>2. work[1].on < inbox[l].chunk[j]
    BY <1>1, <1>2, <2>1 DEF IInv, InOrder
  <2>3. QED
    BY <1>2, <1>3, <2>1, <2>2
<1>7. QED
  BY <1>1, <1>3, <1>4, <1>5, <1>6 DEF IInv, Complete

\* Folding it keeps the order, of what waits and of what it leaves to do.
LEMMA FoldOrder ==
  ASSUME IInv, Does("fold"), folded' = Append(folded, Head(work).on), control' = control,
         UNCHANGED <<source, inbox, pump, closing, owed>>, work' \in Seq(Work),
         NEW d, Moved(d), \A k \in 1..Len(work') : Folds(k)' => k - d # 1,
         \A k \in 1..Len(work) : Folds(k) /\ k # 1 => k + d \in 1..Len(work') /\ work'[k + d] = work[k]
  PROVE  InOrder' /\ Complete' /\ EndingInv'
<1> DEFINE n == Len(folded)
<1>1. /\ control = "running" /\ work # <<>> /\ Head(work) = work[1] /\ work[1].do = "fold" /\ Folds(1)
  BY Heads DEF IInv, Folds
<1>2. /\ n \in Nat /\ work[1].on = n + 1 /\ n + 1 <= TakenUpTo /\ TakenUpTo \in Nat
      /\ Len(work) \in Nat /\ 1 \in 1..Len(work) /\ Len(inbox) \in Nat
  BY <1>1, NextEvent DEF IInv, Shapes, TypeOK, TakenUpTo
<1>3. TakenUpTo' = TakenUpTo /\ Len(folded') = n + 1 /\ folded' = Span(1, n + 1)
  <2>1. folded \in Seq(Nat) /\ folded = Span(1, n)
    BY DEF IInv, Shapes, InOrder
  <2>2. folded' = Append(folded, n + 1)
    BY <1>1, <1>2
  <2>3. folded' = Append(Span(1, n), n + 1)
    BY <2>1, <2>2
  <2>4. folded' = Span(1, n + 1)
    BY <1>2, <2>3, SpanGrows
  <2>5. Len(folded') = n + 1
    BY <1>2, <2>1, <2>2
  <2>6. QED
    BY <2>4, <2>5 DEF TakenUpTo, source
<1> HIDE DEF n
<1>4. \A k \in 1..Len(work') : Folds(k)' =>
        k - d \in 1..Len(work) /\ 1 < k - d /\ Folds(k - d) /\ work'[k] = work[k - d]
  <2>1. ASSUME NEW k \in 1..Len(work'), Folds(k)'
        PROVE  k - d \in 1..Len(work) /\ k - d # 1 /\ Folds(k - d) /\ work'[k] = work[k - d]
    BY <2>1 DEF Moved, Folds
  <2>2. \A k \in 1..Len(work) : k # 1 => 1 < k
    BY <1>2
  <2>3. QED
    BY <2>1, <2>2
<1>5. d \in Int /\ Len(work') \in Nat
  BY DEF Moved
<1>6. InOrder'
  <2>1. ASSUME NEW k \in 1..Len(work'), Folds(k)' PROVE work'[k].on \in (n + 2)..TakenUpTo
    <3>1. work[k - d].on \in (n + 1)..TakenUpTo /\ work[1].on < work[k - d].on
      BY <1>1, <1>2, <1>4, <2>1 DEF IInv, InOrder, n
    <3>2. work[k - d].on \in (n + 2)..TakenUpTo
      BY <1>2, <3>1
    <3>3. QED
      BY <1>4, <2>1, <3>2
  <2>2. \A k, l \in 1..Len(work') : Folds(k)' /\ Folds(l)' /\ k < l => work'[k].on < work'[l].on
    <3> SUFFICES ASSUME NEW k \in 1..Len(work'), NEW l \in 1..Len(work'), Folds(k)', Folds(l)', k < l
                 PROVE  work'[k].on < work'[l].on
      OBVIOUS
    <3>1. k - d < l - d
      BY <1>5
    <3>2. QED
      BY <1>1, <1>4, <3>1 DEF IInv, InOrder
  <2>3. ASSUME NEW l \in 1..Len(inbox), Carries(l)
        PROVE  /\ \A j \in 1..Len(inbox[l].chunk) : inbox[l].chunk[j] \in (n + 2)..TakenUpTo
               /\ \A i, j \in 1..Len(inbox[l].chunk) : i < j => inbox[l].chunk[i] < inbox[l].chunk[j]
    <3>1. \A j \in 1..Len(inbox[l].chunk) : inbox[l].chunk[j] \in (n + 1)..TakenUpTo /\ work[1].on < inbox[l].chunk[j]
      BY <1>1, <1>2, <2>3 DEF IInv, InOrder, n
    <3>2. \A j \in 1..Len(inbox[l].chunk) : inbox[l].chunk[j] \in (n + 2)..TakenUpTo
      <4>1. \A x \in (n + 1)..TakenUpTo : work[1].on < x => x \in (n + 2)..TakenUpTo
        BY <1>2
      <4>2. QED
        BY <3>1, <4>1, Zenon
    <3>3. QED
      BY <1>1, <2>3, <3>2 DEF IInv, InOrder
  <2>4. \A k \in 1..Len(work'), l \in 1..Len(inbox) : Folds(k)' /\ Carries(l) =>
          \A j \in 1..Len(inbox[l].chunk) : work'[k].on < inbox[l].chunk[j]
    BY <1>1, <1>4 DEF IInv, InOrder
  <2>5. \A k, l \in 1..Len(inbox) : Carries(k) /\ Carries(l) /\ k < l =>
          \A i \in 1..Len(inbox[k].chunk), j \in 1..Len(inbox[l].chunk) :
            inbox[k].chunk[i] < inbox[l].chunk[j]
    BY <1>1 DEF IInv, InOrder
  <2>6. inbox' = inbox /\ n + 2 = Len(folded') + 1 /\ (\A l \in 1..Len(inbox) : Carries(l)' = Carries(l))
    BY <1>2, <1>3 DEF Carries
  <2>7. folded' = Span(1, Len(folded')) /\ Len(folded') <= TakenUpTo'
    BY <1>2, <1>3
  <2>8. \A k \in 1..Len(work') : Folds(k)' => work'[k].on \in (Len(folded') + 1)..TakenUpTo'
    BY <1>3, <2>1, <2>6
  <2>9. \A l \in 1..Len(inbox) : Carries(l) =>
          \A j \in 1..Len(inbox[l].chunk) : inbox[l].chunk[j] \in (Len(folded') + 1)..TakenUpTo'
    BY <1>3, <2>3, <2>6
  <2>10. QED
    BY <2>2, <2>3, <2>4, <2>5, <2>6, <2>7, <2>8, <2>9 DEF InOrder
<1>7. Complete'
  <2>1. ASSUME NEW e \in (n + 2)..TakenUpTo
        PROVE  \/ \E k \in 1..Len(work') : Folds(k)' /\ work'[k].on = e
               \/ \E l \in 1..Len(inbox') : Carries(l)' /\ \E j \in 1..Len(inbox'[l].chunk) : inbox'[l].chunk[j] = e
    <3>1. e \in (n + 1)..TakenUpTo /\ e # n + 1
      BY <1>2
    <3>2. \/ \E k \in 1..Len(work) : Folds(k) /\ work[k].on = e
          \/ \E l \in 1..Len(inbox) : Carries(l) /\ \E j \in 1..Len(inbox[l].chunk) : inbox[l].chunk[j] = e
      BY <1>1, <3>1 DEF IInv, Complete, n
    <3>3. ASSUME NEW k \in 1..Len(work), Folds(k), work[k].on = e
          PROVE  \E m \in 1..Len(work') : Folds(m)' /\ work'[m].on = e
      <4>1. k # 1
        BY <1>2, <3>1, <3>3
      <4>2. k + d \in 1..Len(work') /\ work'[k + d] = work[k]
        BY <3>3, <4>1
      <4>3. QED
        BY <3>3, <4>2 DEF Folds
    <3>4. inbox' = inbox /\ \A l \in 1..Len(inbox) : Carries(l)' = Carries(l)
      BY DEF Carries
    <3>5. QED
      BY <3>2, <3>3, <3>4
  <2>2. (Len(folded') + 1)..TakenUpTo' = (n + 2)..TakenUpTo
    BY <1>2, <1>3
  <2>3. \A e \in (Len(folded') + 1)..TakenUpTo' :
          \/ \E k \in 1..Len(work') : Folds(k)' /\ work'[k].on = e
          \/ \E l \in 1..Len(inbox') : Carries(l)' /\ \E j \in 1..Len(inbox'[l].chunk) : inbox'[l].chunk[j] = e
    BY <2>1, <2>2
  <2>4. QED
    BY <2>3 DEF Complete
<1>8. EndingInv'
  BY <1>1, EndingMoved DEF IInv
<1>9. QED
  BY <1>6, <1>7, <1>8

LEMMA JoinOne ==
  ASSUME NEW x, NEW y
  PROVE  <<>> \o <<x>> = <<x>> /\ <<y>> \o <<x>> = <<y, x>>
<1>1. <<x>> \in Seq({x, y}) /\ <<y>> \in Seq({x, y}) /\ <<y, x>> \in Seq({x, y})
  OBVIOUS
<1>2. <<>> \o <<x>> = <<x>>
  BY <1>1
<1>3. <<y>> \o <<x>> = <<y, x>>
  <2> DEFINE s == <<y>> \o <<x>>
             u == <<y, x>>
  <2>1. s \in Seq({x, y}) /\ Len(s) = 2 /\ s[1] = y /\ s[2] = x
    BY <1>1
  <2>2. u \in Seq({x, y}) /\ Len(u) = 2 /\ u[1] = y /\ u[2] = x
    BY <1>1
  <2> HIDE DEF s, u
  <2>3. \A i \in 1..2 : i = 1 \/ i = 2
    OBVIOUS
  <2>4. \A i \in 1..2 : s[i] = u[i]
    BY <2>1, <2>2, <2>3
  <2>5. s = u
    BY <2>1, <2>2, <2>4
  <2>6. QED
    BY <2>5 DEF s, u
<1>4. QED
  BY <1>2, <1>3

\* What an event leaves to do, next to what it does to the frame.
LEMMA AfterFoldIs ==
  ASSUME IInv, NEW kind, NEW items, items = AfterFold(kind), NEW still, still = (going /\ items = <<>>)
  PROVE  \/ items = <<>> /\ still = going
         \/ items = <<Do("begin")>> /\ ~going /\ still = FALSE
         \/ items = <<Do("end")>> /\ ~going /\ still = FALSE
         \/ items = <<Do("draw"), Do("end")>> /\ still = FALSE
<1>1. going \in BOOLEAN /\ dirty \in BOOLEAN
  BY DEF IInv, Shapes
<1>2. <<Do("begin")>> # <<>> /\ <<Do("end")>> # <<>> /\ <<Do("draw"), Do("end")>> # <<>>
  OBVIOUS
<1>3. <<>> \o <<Do("end")>> = <<Do("end")>> /\ <<Do("draw")>> \o <<Do("end")>> = <<Do("draw"), Do("end")>>
  BY JoinOne
<1>4. CASE kind = "terminal"
  BY <1>1, <1>2, <1>3, <1>4 DEF AfterFold
<1>5. CASE kind # "terminal" /\ kind = "start" /\ ~going
  BY <1>1, <1>2, <1>5 DEF AfterFold
<1>6. CASE kind # "terminal" /\ ~(kind = "start" /\ ~going)
  BY <1>1, <1>6 DEF AfterFold
<1>7. QED
  BY <1>4, <1>5, <1>6

LEMMA FoldKeeps == ASSUME IInv, Fold PROVE IInv'
<1> DEFINE p == Head(work).on
           items == AfterFold(kinds[p])
           L == Len(items)
<1>1. /\ control = "running" /\ work # <<>> /\ Head(work) = work[1] /\ work[1].do = "fold" /\ Does("fold")
  BY Heads DEF IInv, Fold
<1>2. /\ UNCHANGED <<source, inbox, pump, control, runs, going, permit, throws, closing, owed>>
      /\ folded' = Append(folded, p) /\ work' = items \o Tail(work) /\ dirty' = (going /\ items = <<>>)
  BY DEF Fold, screen, Then
<1>3. Shapes /\ WorkInOrder /\ RunsInOrder /\ Stands /\ Shown
  BY DEF IInv
<1>4. \/ items = <<>> /\ dirty' = going
      \/ items = <<Do("begin")>> /\ ~going /\ dirty' = FALSE
      \/ items = <<Do("end")>> /\ ~going /\ dirty' = FALSE
      \/ items = <<Do("draw"), Do("end")>> /\ dirty' = FALSE
  BY <1>2, AfterFoldIs
<1>5. p \in Nat /\ Len(work) \in Nat /\ Len(work) >= 1
  BY <1>1, <1>3, NextEvent DEF Shapes
<1>6. /\ Do("begin") \in Work /\ Do("end") \in Work /\ Do("draw") \in Work
      /\ Do("begin").do = "begin" /\ Do("end").do = "end" /\ Do("draw").do = "draw"
  BY Items1 DEF Works
<1> HIDE DEF items, p
<1>7. items \in Seq(Work) /\ \A i \in 1..Len(items) : items[i].do \notin {"fold", "ended", "stop"}
  <2>1. CASE items = <<>>
    BY <2>1
  <2>2. CASE items = <<Do("begin")>>
    BY <1>6, <2>2
  <2>3. CASE items = <<Do("end")>>
    BY <1>6, <2>3
  <2>4. CASE items = <<Do("draw"), Do("end")>>
    BY <1>6, <2>4
  <2>5. QED
    BY <1>4, <2>1, <2>2, <2>3, <2>4
<1>8. /\ work' \in Seq(Work) /\ Len(work') = L + Len(work) - 1 /\ L \in Nat
      /\ \A k \in 1..L : work'[k] = items[k]
      /\ \A k \in (L + 1)..Len(work') : k - L + 1 \in 2..Len(work) /\ work'[k] = work[k - L + 1]
  BY <1>1, <1>2, <1>3, <1>7, Popped DEF Shapes
<1>9. InOrder' /\ Complete' /\ EndingInv'
  <2> HIDE DEF L
  <2>1. ASSUME NEW k \in 1..Len(work'), work'[k].do \in {"fold", "ended", "stop"}
        PROVE  k - (L - 1) \in 2..Len(work) /\ work'[k] = work[k - (L - 1)]
    <3>1. k \notin 1..L
      BY <1>7, <1>8, <2>1 DEF L
    <3>2. k \in (L + 1)..Len(work') /\ k - (L - 1) = k - L + 1
      BY <3>1, <1>8, <1>5
    <3>3. QED
      BY <3>2, <1>8
  <2>2. ASSUME NEW k \in 1..Len(work), Folds(k), k # 1
        PROVE  k + (L - 1) \in 1..Len(work') /\ work'[k + (L - 1)] = work[k]
    <3>1. k + (L - 1) \in (L + 1)..Len(work') /\ (k + (L - 1)) - L + 1 = k /\ k + (L - 1) \in 1..Len(work')
      BY <2>2, <1>5, <1>8
    <3>2. QED
      BY <3>1, <1>8
  <2>3. Len(work') = Len(work) + (L - 1) /\ L - 1 \in Int
    BY <1>5, <1>8
  <2>4. Moved(L - 1)
    <3>1. \A k \in 2..Len(work) : k \in 1..Len(work)
      OBVIOUS
    <3>2. QED
      BY <2>1, <2>3, <3>1 DEF Moved
  <2>5. \A k \in 1..Len(work') : Folds(k)' => k - (L - 1) # 1
    BY <2>1, <1>5 DEF Folds
  <2>6. folded' = Append(folded, Head(work).on)
    BY <1>2 DEF p
  <2>7. QED
    BY <1>1, <1>2, <1>8, <2>2, <2>4, <2>5, <2>6, FoldOrder
<1>10. WorkInOrder'
  <2>1. CASE items = <<>>
    BY <1>1, <1>2, <1>3, <2>1, PopNone
  <2>2. CASE items = <<Do("begin")>> /\ ~going
    BY <1>1, <1>2, <1>3, <1>6, <2>2, PopOne
  <2>3. CASE items = <<Do("end")>> /\ dirty' = FALSE
    BY <1>1, <1>2, <1>3, <1>6, <2>3, PopOne
  <2>4. CASE items = <<Do("draw"), Do("end")>> /\ dirty' = FALSE
    <3>1. L = 2 /\ work'[1] = Do("draw") /\ work'[2] = Do("end") /\ Len(work') = Len(work) + 1
      BY <1>5, <1>8, <2>4
    <3>2. \A k \in 3..Len(work') : k - 1 \in 2..Len(work) /\ work'[k] = work[k - 1]
      <4>1. \A k \in 3..Len(work') : k \in (L + 1)..Len(work') /\ k - L + 1 = k - 1
        BY <3>1
      <4>2. QED
        BY <4>1, <1>8
    <3>3. ASSUME NEW k \in 3..Len(work')
          PROVE  /\ work'[k].do \notin {"draw", "begin", "mount", "print"}
                 /\ work'[k].do = "end" => work'[k - 1].do = "flush"
                 /\ work'[k].do = "stop" => work'[k - 1].do \in {"end", "print"}
      <4>1. CASE k = 3
        BY <1>1, <1>3, <3>2, <4>1 DEF WorkInOrder
      <4>2. CASE k # 3
        <5>1. k - 1 \in 2..Len(work) /\ work'[k] = work[k - 1] /\ work'[k - 1] = work[(k - 1) - 1]
          BY <3>2, <4>2
        <5>2. QED
          BY <1>1, <1>3, <5>1 DEF WorkInOrder
      <4>3. QED
        BY <4>1, <4>2
    <3>4. ASSUME NEW k \in 2..Len(work')
          PROVE  /\ work'[k].do \notin {"draw", "begin", "mount", "print"}
                 /\ work'[k].do = "end" =>
                      work'[k - 1].do = "flush" \/ (k = 2 /\ work'[1].do \in {"draw", "check"} /\ ~dirty')
                 /\ work'[k].do = "stop" => work'[k - 1].do \in {"end", "print"}
      <4>1. CASE k = 2
        BY <1>6, <2>4, <3>1, <4>1
      <4>2. CASE k # 2
        BY <3>3, <4>2
      <4>3. QED
        BY <4>1, <4>2
    <3>5. work'[1].do = "draw"
      BY <3>1, <1>6
    <3>6. QED
      BY <3>4, <3>5 DEF WorkInOrder
  <2>5. QED
    BY <1>4, <2>1, <2>2, <2>3, <2>4
<1>11. RunsInOrder' /\ Stands' /\ run' = run
  BY <1>1, <1>2, <1>3, RunsSame, StandsSame DEF run
<1>12. Shown'
  <2>1. going' /\ run'.painted /\ ~run'.degraded => run'.mounted
    BY <1>1, <1>2, <1>3, <1>11 DEF Shown
  <2>2. going /\ items # <<>> => work' # <<>> /\ work'[1].do = "draw"
    <3>1. CASE items = <<Do("draw"), Do("end")>>
      BY <1>5, <1>6, <1>8, <3>1
    <3>2. QED
      BY <1>4, <3>1
  <2>3. going /\ items = <<>> => dirty'
    BY <1>2
  <2>4. QED
    BY <1>2, <2>1, <2>2, <2>3 DEF Shown
<1>13. Shapes' /\ TakenInOrder'
  <2>1. folded' \in Seq(Nat)
    BY <1>2, <1>3, <1>5, Appended DEF Shapes
  <2>2. dirty' \in BOOLEAN
    BY <1>2
  <2>3. TypeOK'
    BY <1>2, <1>3 DEF Shapes, TypeOK, source
  <2>4. Shapes'
    BY <1>1, <1>2, <1>3, <1>8, <2>1, <2>2, <2>3 DEF Shapes, source
  <2>5. QED
    BY <1>2, <2>4 DEF IInv, TakenInOrder, source
<1>14. QED
  BY <1>9, <1>10, <1>11, <1>12, <1>13 DEF IInv

\* A fold that stops where it is: what is left is the runs.
LEMMA StoppedKept ==
  ASSUME IInv, control' # "running", work' = <<>>, pump' = "stopped", UNCHANGED <<source, inbox, folded, dirty, throws>>,
         closing' = closing \/ (closing.asked = closing.asked' /\ closing' \in [asked : BOOLEAN, scope : {"open", "closed"}]),
         owed' = owed, control' = "done" => owed <= Len(folded),
         control' \in {"running", "done", "died", "interrupted"},
         runs' \in Seq(Run), going' \in BOOLEAN, permit' \in {"free", "view", "other"},
         RunsInOrder', Stands'
  PROVE  IInv'
<1>1. Shapes /\ InOrder /\ EndingInv /\ TakenInOrder
  BY DEF IInv
<1>2. /\ TakenUpTo' = TakenUpTo /\ Asked' = Asked /\ hub' = hub /\ folded' = folded /\ inbox' = inbox
      /\ kinds' = kinds /\ finalTaken' = finalTaken
  BY DEF TakenUpTo, Asked, source
<1>3. Shapes'
  <2>1. TypeOK'
    BY <1>1, <1>2 DEF Shapes, TypeOK
  <2>2. work' \in Seq(Work)
    OBVIOUS
  <2>3. QED
    BY <1>1, <1>2, <2>1, <2>2 DEF Shapes
<1>4. InOrder' /\ Complete' /\ TakenInOrder' /\ Shown'
  BY <1>1, <1>2 DEF InOrder, Complete, TakenInOrder, Shown
<1>5. EndingInv'
  <2>1. \A k \in 1..Len(work') : FALSE
    OBVIOUS
  <2>2. \A k \in 1..Len(inbox') : Carries(k)' = Carries(k)
    BY <1>2 DEF Carries
  <2>3. \A k \in 1..Len(inbox') : inbox'[k].tag = "Ended" => Asked /\ \A l \in (k + 1)..Len(inbox') : ~Carries(l)'
    BY <1>1, <1>2 DEF EndingInv, Carries
  <2>4. hub.down => owed <= TakenUpTo
    BY <1>1 DEF EndingInv
  <2>5. pump' # "ending"
    OBVIOUS
  <2>6. QED
    BY <1>2, <2>1, <2>3, <2>4, <2>5 DEF EndingInv
<1>6. WorkInOrder'
  <2>1. \A k \in 2..Len(work') : FALSE
    OBVIOUS
  <2>2. QED
    BY <2>1 DEF WorkInOrder
<1>7. QED
  BY <1>3, <1>4, <1>5, <1>6 DEF IInv

LEMMA StopKeeps == ASSUME IInv, Stop PROVE IInv'
<1>1. /\ control = "running" /\ work # <<>> /\ Head(work) = work[1] /\ work[1].do = "stop"
  BY Heads DEF IInv, Stop
<1>2. /\ UNCHANGED <<source, inbox, folded, dirty, runs, going, permit, throws, closing, owed>>
      /\ control' = "done" /\ work' = <<>> /\ pump' = "stopped"
  BY DEF Stop, fold, screen
<1>3. Shapes /\ WorkInOrder /\ RunsInOrder /\ Stands /\ EndingInv /\ InOrder /\ Complete
  BY DEF IInv
<1>4. 1 \in 1..Len(work) /\ Len(folded) \in Nat /\ TakenUpTo \in Nat /\ owed \in Nat
  BY <1>1, <1>3 DEF Shapes, TypeOK, TakenUpTo
<1>5. 1 = Len(work) /\ owed <= TakenUpTo /\ \A l \in 1..Len(inbox) : ~Carries(l)
  BY <1>1, <1>3, <1>4 DEF EndingInv
<1>6. \A k \in 1..Len(work) : ~Folds(k)
  <2>1. \A k \in 1..1 : k = 1
    OBVIOUS
  <2>2. QED
    BY <1>1, <1>5, <2>1 DEF Folds
<1>7. owed <= Len(folded)
  <2>1. ~(Len(folded) + 1 \in (Len(folded) + 1)..TakenUpTo)
    BY <1>1, <1>3, <1>5, <1>6 DEF Complete
  <2>2. QED
    BY <1>4, <1>5, <2>1
<1>8. ~going
  BY <1>1, <1>3 DEF WorkInOrder
<1>9. run' = run
  BY <1>2 DEF run
<1>10. RunsInOrder'
  BY <1>1, <1>2, <1>3, <1>8, <1>9 DEF RunsInOrder
<1>11. Stands'
  BY <1>1, <1>2, <1>3 DEF Stands, Waits
<1>12. runs' \in Seq(Run) /\ going' \in BOOLEAN /\ permit' \in {"free", "view", "other"}
  BY <1>2, <1>3 DEF Shapes, TypeOK
<1>13. QED
  BY <1>2, <1>7, <1>10, <1>11, <1>12, StoppedKept

\* The run that is going comes off the terminal, and stays as it was.
LEMMA Unmounts ==
  ASSUME Shapes, RunsInOrder, Stands, going, Current(Unmounted(run)), permit' = FreedBy(run),
         control' # "running",
         control' = control \/ (control = "running" /\ (work # <<>> => work[1].do # "print"))
                            \/ control' = "interrupted",
         work' = <<>>, control # "running" => work = <<>>
  PROVE  RunsInOrder' /\ Stands' /\ runs' \in Seq(Run) /\ permit' \in {"free", "view", "other"}
<1> DEFINE r == Unmounted(run)
<1>1. runs # <<>> /\ ~run.over /\ run.printed = 0 /\ run \in Run /\ (run.painted => Interactive)
  BY DEF RunsInOrder, Shapes, run
<1>2. r \in Run /\ ~r.over /\ r.printed = 0 /\ ~r.mounted /\ r.painted = run.painted
  BY <1>1 DEF Run, Unmounted
<1> HIDE DEF r
<1>3. /\ runs' \in Seq(Run) /\ runs' # <<>> /\ Len(runs') = Len(runs) /\ Len(runs) \in Nat
      /\ run' = r /\ runs'[Len(runs)] = r /\ \A i \in 1..Len(runs) : i # Len(runs) => runs'[i] = runs[i]
  BY <1>1, <1>2, CurrentRuns DEF r
<1>4. permit' # "view" /\ permit' \in {"free", "view", "other"}
  BY DEF FreedBy, RunsInOrder, Shapes, TypeOK
<1>5. RunsInOrder'
  <2>1. \A i \in 1..(Len(runs') - 1) : i \in 1..(Len(runs) - 1) /\ i \in 1..Len(runs) /\ i # Len(runs)
    BY <1>3
  <2>2. \A i \in 1..(Len(runs') - 1) : runs'[i].over
    BY <1>3, <2>1 DEF RunsInOrder
  <2>3. \A i \in 1..Len(runs') : (runs'[i].painted \/ runs'[i].mounted => Interactive)
                                 /\ (~runs'[i].over => runs'[i].printed = 0)
    BY <1>1, <1>2, <1>3 DEF RunsInOrder
  <2>4. QED
    BY <1>2, <1>3, <1>4, <2>2, <2>3 DEF RunsInOrder
<1>6. Stands'
  <2>1. ASSUME NEW i \in 1..Len(runs'), runs'[i].over
        PROVE  i \in 1..Len(runs) /\ runs'[i] = runs[i] /\ ~Waits(i)
    BY <1>2, <1>3, <2>1 DEF Waits
  <2>2. control' # "interrupted" => control # "interrupted"
    OBVIOUS
  <2>3. QED
    BY <2>1, <2>2 DEF Stands
<1>7. QED
  BY <1>3, <1>4, <1>5, <1>6

LEMMA FoldDiesKeeps == ASSUME IInv, FoldDies PROVE IInv'
<1>1. /\ control = "running" /\ work # <<>> /\ Head(work) = work[1] /\ work[1].do = "fold"
  BY Heads DEF IInv, FoldDies
<1>2. /\ UNCHANGED <<source, inbox, folded, dirty, going, throws, closing, owed>>
      /\ control' = "died" /\ work' = <<>> /\ pump' = "stopped"
  BY DEF FoldDies, fold
<1>3. Shapes /\ RunsInOrder /\ Stands
  BY DEF IInv
<1>4. going' \in BOOLEAN
  BY <1>2, <1>3 DEF Shapes
<1>5. CASE going
  <2>1. Current(Unmounted(run)) /\ permit' = FreedBy(run)
    BY <1>5 DEF FoldDies
  <2>2. RunsInOrder' /\ Stands' /\ runs' \in Seq(Run) /\ permit' \in {"free", "view", "other"}
    BY <1>1, <1>2, <1>3, <1>5, <2>1, Unmounts
  <2>3. QED
    BY <1>2, <1>4, <2>2, StoppedKept
<1>6. CASE ~going
  <2>1. UNCHANGED <<runs, permit>>
    BY <1>6 DEF FoldDies
  <2>2. run' = run
    BY <2>1 DEF run
  <2>3. RunsInOrder'
    BY <1>1, <1>2, <1>3, <1>6, <2>1, <2>2 DEF RunsInOrder
  <2>4. Stands'
    BY <1>1, <1>2, <1>3, <2>1 DEF Stands, Waits
  <2>5. runs' \in Seq(Run) /\ permit' \in {"free", "view", "other"}
    BY <1>3, <2>1 DEF Shapes, TypeOK
  <2>6. QED
    BY <1>2, <1>4, <2>3, <2>4, <2>5, StoppedKept
<1>7. QED
  BY <1>3, <1>5, <1>6 DEF Shapes

LEMMA CloseScopeKeeps == ASSUME IInv, CloseScope PROVE IInv'
<1>1. /\ UNCHANGED <<source, inbox, folded, dirty, throws, owed>> /\ ~going' /\ going' \in BOOLEAN
      /\ control' = (IF control = "running" THEN "interrupted" ELSE control)
      /\ work' = <<>> /\ pump' = "stopped" /\ closing' = [closing EXCEPT !.scope = "closed"]
  BY DEF CloseScope, fold
<1>2. Shapes /\ RunsInOrder /\ Stands /\ EndingInv
  BY DEF IInv
<1>3. control' # "running" /\ control' \in {"running", "done", "died", "interrupted"}
      /\ (control' = "done" => owed <= Len(folded))
  BY <1>1, <1>2 DEF Shapes, TypeOK, EndingInv
<1>4. closing.asked = closing'.asked /\ closing' \in [asked : BOOLEAN, scope : {"open", "closed"}]
  BY <1>1, <1>2 DEF Shapes, TypeOK
<1>5. control # "running" => work = <<>>
  BY <1>2 DEF Shapes
<1>6. CASE going
  <2>1. Current(Unmounted(run)) /\ permit' = FreedBy(run)
    BY <1>6 DEF CloseScope
  <2>2. RunsInOrder' /\ Stands' /\ runs' \in Seq(Run) /\ permit' \in {"free", "view", "other"}
    BY <1>1, <1>2, <1>3, <1>5, <1>6, <2>1, Unmounts
  <2>3. QED
    BY <1>1, <1>3, <1>4, <2>2, StoppedKept
<1>7. CASE ~going
  <2>1. UNCHANGED <<runs, permit>>
    BY <1>7 DEF CloseScope
  <2>2. run' = run
    BY <2>1 DEF run
  <2>3. RunsInOrder'
    BY <1>1, <1>2, <1>3, <1>7, <2>1, <2>2 DEF RunsInOrder
  <2>4. Stands'
    BY <1>1, <1>2, <1>5, <2>1 DEF Stands, Waits
  <2>5. runs' \in Seq(Run) /\ permit' \in {"free", "view", "other"}
    BY <1>2, <2>1 DEF Shapes, TypeOK
  <2>6. QED
    BY <1>1, <1>3, <1>4, <2>3, <2>4, <2>5, StoppedKept
<1>8. QED
  BY <1>2, <1>6, <1>7 DEF Shapes

----------------------------------------------------------------------------
(* Steps of the publisher, the pump and the holder of the view. *)

LEMMA ViewKept ==
  ASSUME IInv, UNCHANGED <<control, work, dirty, folded, runs, going, permit>>
  PROVE  WorkInOrder' /\ RunsInOrder' /\ Shown' /\ Stands'
<1>1. run' = run
  BY DEF run
<1>2. WorkInOrder'
  BY <1>1 DEF IInv, WorkInOrder
<1>3. RunsInOrder'
  BY <1>1 DEF IInv, RunsInOrder
<1>4. Shown'
  BY <1>1 DEF IInv, Shown
<1>5. Stands'
  BY DEF IInv, Stands, Waits
<1>6. QED
  BY <1>2, <1>3, <1>4, <1>5

\* The inbox gets nothing, or the word that the events have ended.
LEMMA EndedArrives ==
  ASSUME Shapes, inbox' = inbox \/ inbox' = Append(inbox, Message("Ended"))
  PROVE  /\ inbox' \in Seq(Messages) /\ Len(inbox) \in Nat /\ Len(inbox') \in Nat
         /\ \A l \in 1..Len(inbox) : l \in 1..Len(inbox') /\ inbox'[l] = inbox[l]
         /\ \A l \in 1..Len(inbox') : inbox'[l].tag # "Ended" => l \in 1..Len(inbox) /\ inbox'[l] = inbox[l]
         /\ \A l \in 1..Len(inbox') : l \in 1..Len(inbox) \/ (l = Len(inbox') /\ inbox' # inbox)
<1>1. CASE inbox' = inbox
  BY <1>1 DEF Shapes
<1>2. CASE inbox' = Append(inbox, Message("Ended"))
  <2>1. Message("Ended") \in Messages /\ Message("Ended").tag = "Ended"
    BY DEF Message, Messages, Tags
  <2>2. /\ inbox' \in Seq(Messages) /\ Len(inbox') = Len(inbox) + 1 /\ inbox'[Len(inbox) + 1].tag = "Ended"
        /\ (\A l \in 1..Len(inbox) : inbox'[l] = inbox[l]) /\ Len(inbox) \in Nat
    BY <1>2, <2>1, Appended DEF Shapes
  <2>3. \A l \in 1..Len(inbox') : l \in 1..Len(inbox) \/ l = Len(inbox) + 1
    BY <2>2
  <2>4. \A l \in 1..Len(inbox) : l \in 1..Len(inbox')
    BY <2>2
  <2>5. inbox' # inbox
    BY <2>2
  <2>6. QED
    BY <2>2, <2>3, <2>4, <2>5
<1>3. QED
  BY <1>1, <1>2

LEMMA OrderSame ==
  ASSUME Shapes, InOrder, Complete, UNCHANGED <<control, work, folded>>, TakenUpTo' = TakenUpTo,
         inbox' = inbox \/ inbox' = Append(inbox, Message("Ended"))
  PROVE  InOrder' /\ Complete'
<1>1. /\ \A l \in 1..Len(inbox) : l \in 1..Len(inbox') /\ inbox'[l] = inbox[l]
      /\ \A l \in 1..Len(inbox') : inbox'[l].tag # "Ended" => l \in 1..Len(inbox) /\ inbox'[l] = inbox[l]
  BY EndedArrives
<1>2. \A l \in 1..Len(inbox') : Carries(l)' => l \in 1..Len(inbox) /\ Carries(l) /\ inbox'[l] = inbox[l]
  BY <1>1 DEF Carries
<1>3. \A l \in 1..Len(inbox) : Carries(l) => l \in 1..Len(inbox') /\ Carries(l)' /\ inbox'[l] = inbox[l]
  BY <1>1 DEF Carries
<1>4. \A k \in 1..Len(work) : Folds(k)' = Folds(k)
  BY DEF Folds
<1>5. InOrder'
  <2>1. folded' = Span(1, Len(folded')) /\ Len(folded') <= TakenUpTo'
    BY DEF InOrder
  <2>2. control' = "running" => \A k \in 1..Len(work') : Folds(k)' => work'[k].on \in (Len(folded') + 1)..TakenUpTo'
    BY <1>4 DEF InOrder
  <2>3. control' = "running" => \A k, l \in 1..Len(work') : Folds(k)' /\ Folds(l)' /\ k < l => work'[k].on < work'[l].on
    BY <1>4 DEF InOrder
  <2>4. control' = "running" => \A l \in 1..Len(inbox') : Carries(l)' =>
          /\ \A j \in 1..Len(inbox'[l].chunk) : inbox'[l].chunk[j] \in (Len(folded') + 1)..TakenUpTo'
          /\ \A i, j \in 1..Len(inbox'[l].chunk) : i < j => inbox'[l].chunk[i] < inbox'[l].chunk[j]
    BY <1>2 DEF InOrder
  <2>5. control' = "running" => \A k, l \in 1..Len(inbox') : Carries(k)' /\ Carries(l)' /\ k < l =>
          \A i \in 1..Len(inbox'[k].chunk), j \in 1..Len(inbox'[l].chunk) :
            inbox'[k].chunk[i] < inbox'[l].chunk[j]
    BY <1>2 DEF InOrder
  <2>6. control' = "running" => \A k \in 1..Len(work'), l \in 1..Len(inbox') : Folds(k)' /\ Carries(l)' =>
          \A j \in 1..Len(inbox'[l].chunk) : work'[k].on < inbox'[l].chunk[j]
    BY <1>2, <1>4 DEF InOrder
  <2>7. QED
    BY <2>1, <2>2, <2>3, <2>4, <2>5, <2>6 DEF InOrder
<1>6. Complete'
  <2>1. ASSUME control = "running", NEW e \in (Len(folded) + 1)..TakenUpTo
        PROVE  \/ \E k \in 1..Len(work') : Folds(k)' /\ work'[k].on = e
               \/ \E l \in 1..Len(inbox') : Carries(l)' /\ \E j \in 1..Len(inbox'[l].chunk) : inbox'[l].chunk[j] = e
    <3>1. \/ \E k \in 1..Len(work) : Folds(k) /\ work[k].on = e
          \/ \E l \in 1..Len(inbox) : Carries(l) /\ \E j \in 1..Len(inbox[l].chunk) : inbox[l].chunk[j] = e
      BY <2>1 DEF Complete
    <3>2. QED
      BY <3>1, <1>3, <1>4
  <2>2. control' = control /\ Len(folded)' = Len(folded)
    OBVIOUS
  <2>3. QED
    BY <2>1, <2>2 DEF Complete
<1>7. QED
  BY <1>5, <1>6

\* The end of the fold keeps: what was asked stays asked, and what is owed
\* once the stop is in the work was owed before.
LEMMA EndingKept ==
  ASSUME Shapes, EndingInv, UNCHANGED <<control, work, folded>>,
         inbox' = inbox \/ inbox' = Append(inbox, Message("Ended")),
         inbox' # inbox => pump' = "stopped" /\ Asked',
         Asked => Asked', pump = "stopped" => pump' = "stopped",
         pump' = "ending" => hub'.ended \/ hub'.down,
         control = "done" => owed' = owed,
         hub'.down => owed' <= TakenUpTo',
         Asked => owed' <= TakenUpTo' \/ (owed' = owed /\ TakenUpTo' = TakenUpTo)
  PROVE  EndingInv'
<1>1. /\ Len(inbox) \in Nat /\ Len(inbox') \in Nat
      /\ \A l \in 1..Len(inbox') : inbox'[l].tag # "Ended" => l \in 1..Len(inbox) /\ inbox'[l] = inbox[l]
      /\ \A l \in 1..Len(inbox') : l \in 1..Len(inbox) \/ (l = Len(inbox') /\ inbox' # inbox)
      /\ \A l \in 1..Len(inbox) : l \in 1..Len(inbox') /\ inbox'[l] = inbox[l]
  BY EndedArrives
<1>2. \A l \in 1..Len(inbox') : Carries(l)' => l \in 1..Len(inbox) /\ Carries(l)
  BY <1>1 DEF Carries
<1>3. \A k \in 1..Len(work) : Folds(k)' = Folds(k)
  BY DEF Folds
<1>4. ASSUME NEW k \in 1..Len(inbox'), inbox'[k].tag = "Ended"
      PROVE  pump' = "stopped" /\ Asked' /\ \A l \in (k + 1)..Len(inbox') : ~Carries(l)'
  <2>1. CASE k \in 1..Len(inbox)
    <3>1. pump = "stopped" /\ Asked /\ \A l \in (k + 1)..Len(inbox) : ~Carries(l)
      BY <1>1, <1>4, <2>1 DEF EndingInv
    <3>2. \A l \in (k + 1)..Len(inbox') : l \in 1..Len(inbox') /\ (l \in 1..Len(inbox) => l \in (k + 1)..Len(inbox))
      BY <1>1, <2>1
    <3>3. QED
      BY <1>2, <3>1, <3>2
  <2>2. CASE k = Len(inbox') /\ inbox' # inbox
    <3>1. \A l \in (k + 1)..Len(inbox') : FALSE
      BY <1>1, <2>2
    <3>2. QED
      BY <2>2, <3>1
  <2>3. QED
    BY <1>1, <2>1, <2>2
<1>5. ASSUME NEW k \in 1..Len(work'), work'[k].do = "ended"
      PROVE  /\ pump' = "stopped" /\ Asked'
             /\ \A l \in (k + 1)..Len(work') : ~Folds(l)'
             /\ \A l \in 1..Len(inbox') : ~Carries(l)'
  <2>1. /\ pump = "stopped" /\ Asked
        /\ \A l \in (k + 1)..Len(work) : ~Folds(l)
        /\ \A l \in 1..Len(inbox) : ~Carries(l)
    BY <1>5 DEF EndingInv
  <2>2. \A l \in (k + 1)..Len(work) : l \in 1..Len(work)
    BY <1>5 DEF Shapes
  <2>3. QED
    BY <1>2, <1>3, <2>1, <2>2
<1>6. ASSUME NEW k \in 1..Len(work'), work'[k].do = "stop"
      PROVE  /\ pump' = "stopped" /\ Asked' /\ k = Len(work')
             /\ \A l \in 1..Len(inbox') : ~Carries(l)'
             /\ owed' <= TakenUpTo'
  <2>1. /\ pump = "stopped" /\ Asked /\ k = Len(work)
        /\ (\A l \in 1..Len(inbox) : ~Carries(l)) /\ owed <= TakenUpTo
    BY <1>6 DEF EndingInv
  <2>2. owed' <= TakenUpTo'
    BY <2>1
  <2>3. QED
    BY <1>2, <2>1, <2>2
<1>7. control' = "done" => owed' <= Len(folded')
  BY DEF EndingInv
<1>8. QED
  BY <1>4, <1>5, <1>6, <1>7 DEF EndingInv

\* A longer script is still the beginning of one, and the source keeps its shape.
LEMMA PublishKeeps == ASSUME Sensible, IInv, NEW kind \in Kinds, Publish(kind) PROVE IInv'
<1>1. /\ UNCHANGED <<hub, finalTaken, inbox, pump, control, work, dirty, folded, runs, going, permit, throws, closing, owed>>
      /\ kinds' = Append(kinds, kind) /\ ~hub.ended /\ ~hub.down
      /\ \E script \in Scripts : IsPrefix(Append(kinds, kind), script)
  BY DEF Publish, fold, screen
<1>2. Shapes /\ InOrder /\ Complete /\ EndingInv /\ TakenInOrder
  BY DEF IInv
<1>3. kinds' \in Seq(Kinds) /\ Len(kinds') = Len(kinds) + 1 /\ Len(kinds) \in Nat
  BY <1>1, <1>2, Appended DEF Shapes
<1>4. TakenUpTo' = TakenUpTo /\ Asked' = Asked
  BY <1>1, <1>2 DEF TakenUpTo, TakenInOrder, Asked
<1>5. TakenInOrder'
  BY <1>1, <1>2 DEF TakenInOrder
<1>6. Shapes'
  <2>1. hub.given \in 0 .. Len(kinds) /\ owed \in 0 .. Len(kinds)
        /\ hub \in [given : 0 .. Len(kinds), ended : BOOLEAN, down : BOOLEAN]
    BY <1>2 DEF Shapes, TypeOK
  <2>2. hub' \in [given : 0 .. Len(kinds'), ended : BOOLEAN, down : BOOLEAN] /\ owed' \in 0 .. Len(kinds')
    BY <1>1, <1>3, <2>1
  <2>3. TypeOK'
    BY <1>1, <1>2, <2>2 DEF Shapes, TypeOK
  <2>4. QED
    BY <1>1, <1>2, <1>3, <2>3 DEF Shapes
<1>7. InOrder' /\ Complete' /\ EndingInv'
  <2>1. InOrder' /\ Complete'
    BY <1>1, <1>2, <1>4, OrderSame
  <2>2. EndingInv'
    BY <1>1, <1>2, <1>4, EndingKept DEF EndingInv
  <2>3. QED
    BY <2>1, <2>2
<1>8. QED
  BY <1>1, <1>5, <1>6, <1>7, ViewKept DEF IInv

LEMMA EndKeeps == ASSUME Sensible, IInv, NEW kind \in Kinds, End(kind) PROVE IInv'
<1>1. /\ UNCHANGED <<finalTaken, inbox, pump, control, work, dirty, folded, runs, going, permit, throws, closing>>
      /\ kinds' = Append(kinds, kind) /\ ~hub.ended /\ ~hub.down /\ control = "running"
      /\ hub' = [hub EXCEPT !.ended = TRUE] /\ owed' = IF closing.asked THEN owed ELSE Len(kinds')
      /\ \E script \in Scripts : IsPrefix(Append(kinds, kind), script)
  BY DEF End, fold, screen
<1>2. Shapes /\ InOrder /\ Complete /\ EndingInv /\ TakenInOrder
  BY DEF IInv
<1>3. kinds' \in Seq(Kinds) /\ Len(kinds') = Len(kinds) + 1 /\ Len(kinds) \in Nat
  BY <1>1, <1>2, Appended DEF Shapes
<1>4. /\ hub.given \in 0 .. Len(kinds) /\ owed \in 0 .. Len(kinds)
      /\ hub \in [given : 0 .. Len(kinds), ended : BOOLEAN, down : BOOLEAN]
  BY <1>2 DEF Shapes, TypeOK
<1>5. hub'.given = hub.given /\ hub'.ended /\ ~hub'.down
  BY <1>1, <1>4
<1>6. TakenUpTo' = TakenUpTo /\ Asked'
  BY <1>1, <1>2, <1>5 DEF TakenUpTo, TakenInOrder, Asked
<1>7. TakenInOrder'
  BY <1>1, <1>2, <1>3, <1>4, <1>5 DEF TakenInOrder
<1>8. Shapes'
  <2>1. hub' = [given |-> hub.given, ended |-> TRUE, down |-> hub.down]
    BY <1>1, <1>4
  <2>2. hub.given \in 0 .. Len(kinds') /\ hub.down \in BOOLEAN /\ owed' \in 0 .. Len(kinds')
    BY <1>1, <1>3, <1>4
  <2>3. hub' \in [given : 0 .. Len(kinds'), ended : BOOLEAN, down : BOOLEAN] /\ owed' \in 0 .. Len(kinds')
    BY <2>1, <2>2
  <2>4. TypeOK'
    BY <1>1, <1>2, <2>3 DEF Shapes, TypeOK
  <2>5. QED
    BY <1>1, <1>2, <1>3, <2>4 DEF Shapes
<1>9. InOrder' /\ Complete' /\ EndingInv'
  <2>1. InOrder' /\ Complete'
    BY <1>1, <1>2, <1>6, OrderSame
  <2>2. Asked => owed' = owed
    BY <1>1 DEF Asked
  <2>3. EndingInv'
    BY <1>1, <1>2, <1>5, <1>6, <2>2, EndingKept
  <2>4. QED
    BY <2>1, <2>3
<1>10. QED
  BY <1>1, <1>7, <1>8, <1>9, ViewKept DEF IInv

LEMMA ShutdownKeeps == ASSUME IInv, Shutdown PROVE IInv'
<1>1. /\ UNCHANGED <<kinds, finalTaken, inbox, pump, control, work, dirty, folded, runs, going, permit, throws, closing>>
      /\ control = "running" /\ hub' = [hub EXCEPT !.down = TRUE] /\ owed' = TakenUpTo
  BY DEF Shutdown, fold, screen
<1>2. Shapes /\ InOrder /\ Complete /\ EndingInv /\ TakenInOrder
  BY DEF IInv
<1>3. hub \in [given : 0 .. Len(kinds), ended : BOOLEAN, down : BOOLEAN] /\ Len(kinds) \in Nat
  BY <1>2 DEF Shapes, TypeOK
<1>4. hub'.given = hub.given /\ hub'.ended = hub.ended /\ hub'.down
      /\ hub' \in [given : 0 .. Len(kinds), ended : BOOLEAN, down : BOOLEAN]
  BY <1>1, <1>3
<1>5. TakenUpTo' = TakenUpTo /\ Asked' /\ TakenUpTo \in 0 .. Len(kinds)
  BY <1>1, <1>3, <1>4 DEF TakenUpTo, Asked
<1>6. TakenInOrder'
  BY <1>1, <1>2, <1>4 DEF TakenInOrder
<1>7. Shapes'
  <2>1. TypeOK'
    BY <1>1, <1>2, <1>4, <1>5 DEF Shapes, TypeOK
  <2>2. QED
    BY <1>1, <1>2, <2>1 DEF Shapes
<1>8. InOrder' /\ Complete' /\ EndingInv'
  <2>1. InOrder' /\ Complete'
    BY <1>1, <1>2, <1>5, OrderSame
  <2>2. owed' <= TakenUpTo'
    BY <1>1, <1>3, <1>5
  <2>3. EndingInv'
    BY <1>1, <1>2, <1>4, <1>5, <2>2, EndingKept
  <2>4. QED
    BY <2>1, <2>3
<1>9. QED
  BY <1>1, <1>6, <1>7, <1>8, ViewKept DEF IInv

LEMMA CloseKeeps == ASSUME IInv, Close PROVE IInv'
<1>1. /\ UNCHANGED <<kinds, hub, finalTaken, control, work, dirty, folded, runs, going, permit, throws>>
      /\ ~closing.asked /\ closing' = [closing EXCEPT !.asked = TRUE] /\ pump' = "stopped"
      /\ inbox' = Append(inbox, Message("Ended"))
      /\ owed' = IF control = "running" /\ ~hub.ended /\ ~hub.down THEN Len(kinds) ELSE owed
  BY DEF Close, source, fold, screen
<1>2. Shapes /\ InOrder /\ Complete /\ EndingInv /\ TakenInOrder
  BY DEF IInv
<1>3. closing' \in [asked : BOOLEAN, scope : {"open", "closed"}] /\ closing'.asked
  BY <1>1, <1>2 DEF Shapes, TypeOK
<1>4. TakenUpTo' = TakenUpTo /\ Asked' /\ owed' \in 0 .. Len(kinds) /\ TakenUpTo \in Nat
  BY <1>1, <1>2, <1>3 DEF TakenUpTo, Asked, Shapes, TypeOK
<1>5. TakenInOrder'
  BY <1>1, <1>2 DEF TakenInOrder
<1>6. Shapes'
  <2>1. inbox' \in Seq(Messages)
    BY <1>1, <1>2, EndedArrives
  <2>2. \A k \in 1..Len(inbox') : inbox'[k].tag = "Failed" => inbox'[k].chunk # <<>>
    BY <1>1, <1>2, EndedArrives DEF Shapes
  <2>3. TypeOK'
    BY <1>1, <1>2, <1>3, <1>4 DEF Shapes, TypeOK
  <2>4. QED
    BY <1>1, <1>2, <2>1, <2>2, <2>3 DEF Shapes
<1>7. InOrder' /\ Complete' /\ EndingInv'
  <2>1. InOrder' /\ Complete'
    BY <1>1, <1>2, <1>4, OrderSame
  <2>2. Asked => owed' = owed
    BY <1>1 DEF Asked
  <2>3. hub'.down => owed' <= TakenUpTo'
    BY <1>1, <1>2, <1>4 DEF EndingInv
  <2>4. control = "done" => owed' = owed
    BY <1>1
  <2>5. EndingInv'
    BY <1>1, <1>2, <1>4, <2>2, <2>3, <2>4, EndingKept
  <2>6. QED
    BY <2>1, <2>5
<1>8. QED
  BY <1>1, <1>5, <1>6, <1>7, ViewKept DEF IInv

LEMMA PumpEndsKeeps == ASSUME IInv, PumpSeesEnd \/ PumpEnds PROVE IInv'
<1>1. /\ UNCHANGED <<kinds, hub, finalTaken, control, work, dirty, folded, runs, going, permit, throws, closing, owed>>
      /\ pump # "stopped"
      /\ \/ pump' = "ending" /\ inbox' = inbox /\ (hub.down \/ hub.ended)
         \/ pump = "ending" /\ pump' = "stopped" /\ inbox' = Append(inbox, Message("Ended"))
  BY DEF PumpSeesEnd, PumpEnds, source, fold, screen
<1>2. Shapes /\ InOrder /\ Complete /\ EndingInv /\ TakenInOrder
  BY DEF IInv
<1>3. TakenUpTo' = TakenUpTo /\ Asked' = Asked /\ (inbox' # inbox => Asked)
  BY <1>1, <1>2 DEF TakenUpTo, Asked, EndingInv
<1>4. TakenInOrder'
  BY <1>1, <1>2 DEF TakenInOrder
<1>5. Shapes'
  <2>1. inbox' \in Seq(Messages)
    BY <1>1, <1>2, EndedArrives
  <2>2. \A k \in 1..Len(inbox') : inbox'[k].tag = "Failed" => inbox'[k].chunk # <<>>
    BY <1>1, <1>2, EndedArrives DEF Shapes
  <2>3. TypeOK'
    BY <1>1, <1>2 DEF Shapes, TypeOK
  <2>4. QED
    BY <1>1, <1>2, <2>1, <2>2, <2>3 DEF Shapes
<1>6. InOrder' /\ Complete' /\ EndingInv'
  <2>1. InOrder' /\ Complete'
    BY <1>1, <1>2, <1>3, OrderSame
  <2>2. hub'.down => owed' <= TakenUpTo'
    BY <1>1, <1>2, <1>3 DEF EndingInv
  <2>3. pump' = "ending" => hub'.ended \/ hub'.down
    BY <1>1
  <2>4. EndingInv'
    BY <1>1, <1>2, <1>3, <2>2, <2>3, EndingKept
  <2>5. QED
    BY <2>1, <2>4
<1>7. QED
  BY <1>1, <1>4, <1>5, <1>6, ViewKept DEF IInv

----------------------------------------------------------------------------
(* Taking from the subscription, and from the inbox. *)

\* What is queued follows what was taken, and taking it takes all of it.
LEMMA QueuedIs ==
  ASSUME Shapes, TakenInOrder, TakeQueued, kinds' = kinds
  PROVE  /\ Queued \in Seq(Nat) /\ TakenUpTo \in Nat /\ TakenUpTo' = TakenUpTo + Len(Queued)
         /\ \A i \in 1..Len(Queued) : Queued[i] = TakenUpTo + i
         /\ TakenUpTo' \in 0 .. Len(kinds) /\ (hub.down \/ TakenUpTo' = Len(kinds))
         /\ hub' \in [given : 0 .. Len(kinds), ended : BOOLEAN, down : BOOLEAN]
         /\ hub'.ended = hub.ended /\ hub'.down = hub.down /\ finalTaken' \in BOOLEAN
         /\ TakenInOrder'
<1> DEFINE last == IF hub.ended THEN Len(kinds) - 1 ELSE Len(kinds)
<1>1. /\ Len(kinds) \in Nat /\ hub \in [given : 0 .. Len(kinds), ended : BOOLEAN, down : BOOLEAN]
      /\ finalTaken \in BOOLEAN
  BY DEF Shapes, TypeOK
<1>2. /\ TakenUpTo \in Nat /\ hub.given \in Nat /\ last \in Nat /\ hub.given <= last
      /\ last <= Len(kinds)
  BY <1>1 DEF TakenInOrder, TakenUpTo
<1>3. CASE hub.down
  <2>1. Queued = <<>> /\ hub' = hub /\ finalTaken' = finalTaken /\ TakenUpTo \in 0 .. Len(kinds)
    BY <1>1, <1>3 DEF Queued, TakeQueued, TakenUpTo
  <2>2. Queued \in Seq(Nat) /\ Len(Queued) = 0
    BY <2>1
  <2>3. TakenUpTo' = TakenUpTo /\ TakenInOrder'
    BY <2>1 DEF TakenUpTo, TakenInOrder
  <2>4. TakenUpTo' = TakenUpTo + Len(Queued) /\ \A i \in 1..Len(Queued) : Queued[i] = TakenUpTo + i
    BY <1>2, <2>2, <2>3
  <2>5. QED
    BY <1>1, <1>2, <1>3, <2>1, <2>2, <2>3, <2>4
<1>4. CASE ~hub.down
  <2>1. Buffered = Span(hub.given + 1, last) /\ Queued = Buffered \o Final
    BY <1>4 DEF Buffered, Queued
  <2>2. /\ Buffered \in Seq(Nat) /\ Len(Buffered) = last - hub.given
        /\ \A i \in 1..Len(Buffered) : Buffered[i] = hub.given + i
    <3>1. /\ Buffered \in Seq(Nat)
          /\ Len(Buffered) = IF last < hub.given + 1 THEN 0 ELSE last - (hub.given + 1) + 1
          /\ \A i \in 1..Len(Buffered) : Buffered[i] = (hub.given + 1) + i - 1
      <4> HIDE DEF last
      <4>1. hub.given + 1 \in Nat
        BY <1>2
      <4>2. QED
        BY <1>2, <2>1, <4>1, SpanIs
    <3>2. QED
      BY <1>2, <3>1
  <2>3. /\ hub' = [hub EXCEPT !.given = @ + Len(Buffered)] /\ finalTaken' = (finalTaken \/ hub.ended)
    BY <1>4 DEF TakeQueued
  <2>4. /\ hub'.given = last /\ hub'.ended = hub.ended /\ hub'.down = hub.down
        /\ hub' \in [given : 0 .. Len(kinds), ended : BOOLEAN, down : BOOLEAN] /\ finalTaken' \in BOOLEAN
    <3>1. hub.given + Len(Buffered) = last
      BY <1>2, <2>2
    <3>2. hub' = [given |-> last, ended |-> hub.ended, down |-> hub.down]
      BY <1>1, <2>3, <3>1
    <3> HIDE DEF last
    <3>3. last \in 0 .. Len(kinds)
      BY <1>1, <1>2
    <3>4. QED
      BY <1>1, <2>3, <3>2, <3>3
  <2>5. TakenUpTo' = Len(kinds) /\ TakenInOrder'
    BY <1>1, <1>2, <2>3, <2>4 DEF TakenUpTo, TakenInOrder
  <2>6. CASE hub.ended /\ ~finalTaken
    <3>1. Final = <<Len(kinds)>> /\ last = Len(kinds) - 1 /\ TakenUpTo = hub.given
      BY <2>6 DEF Final, TakenUpTo
    <3>2. Queued = Append(Buffered, Len(kinds))
      BY <1>1, <2>1, <2>2, <3>1
    <3>3. /\ Queued \in Seq(Nat) /\ Len(Queued) = Len(Buffered) + 1 /\ Queued[Len(Buffered) + 1] = Len(kinds)
          /\ \A k \in 1..Len(Buffered) : Queued[k] = Buffered[k]
      BY <1>1, <2>2, <3>2, Appended
    <3>4. Len(Buffered) \in Nat /\ Len(kinds) = hub.given + (Len(Buffered) + 1)
      BY <1>1, <1>2, <2>2, <3>1
    <3>5. \A i \in 1..Len(Queued) : i \in 1..Len(Buffered) \/ i = Len(Buffered) + 1
      BY <3>3, <3>4
    <3>6. \A i \in 1..Len(Queued) : Queued[i] = TakenUpTo + i
      BY <2>2, <3>1, <3>3, <3>4, <3>5
    <3>7. Len(kinds) = TakenUpTo + Len(Queued)
      BY <3>1, <3>3, <3>4
    <3>8. QED
      BY <1>1, <1>2, <2>4, <2>5, <3>3, <3>6, <3>7
  <2>7. CASE ~(hub.ended /\ ~finalTaken)
    <3>1. Final = <<>>
      BY <2>7 DEF Final
    <3>2. Queued = Buffered
      BY <2>1, <2>2, <3>1
    <3>3. TakenUpTo = hub.given + Len(kinds) - last
      BY <1>1, <1>2, <2>7 DEF TakenUpTo, TakenInOrder
    <3>4. finalTaken => Len(Buffered) = 0
      BY <1>1, <1>2, <2>2 DEF TakenInOrder
    <3>5. \A i \in 1..Len(Queued) : Queued[i] = TakenUpTo + i
      BY <1>1, <1>2, <2>2, <2>7, <3>2, <3>3, <3>4
    <3>6. Len(kinds) = TakenUpTo + Len(Queued)
      BY <1>1, <1>2, <2>2, <3>2, <3>3
    <3>7. QED
      BY <1>1, <1>2, <2>2, <2>4, <2>5, <3>2, <3>5, <3>6, SMTT(40)
  <2>8. QED
    BY <2>6, <2>7
<1>5. QED
  BY <1>1, <1>3, <1>4

LEMMA PumpTakesKeeps == ASSUME IInv, PumpTakes PROVE IInv'
<1>1. /\ UNCHANGED <<kinds, control, work, dirty, folded, runs, going, permit, throws, closing, owed>>
      /\ pump = "taking" /\ Queued # <<>> /\ inbox' = Append(inbox, Events(Queued)) /\ TakeQueued
      /\ pump' = (IF hub.ended THEN "ending" ELSE "taking")
  BY DEF PumpTakes, Taken, Offered, fold, screen
<1>2. Shapes /\ InOrder /\ Complete /\ EndingInv /\ TakenInOrder
  BY DEF IInv
<1>3. /\ Queued \in Seq(Nat) /\ TakenUpTo \in Nat /\ TakenUpTo' = TakenUpTo + Len(Queued)
      /\ \A i \in 1..Len(Queued) : Queued[i] = TakenUpTo + i
      /\ TakenUpTo' \in 0 .. Len(kinds) /\ (hub.down \/ TakenUpTo' = Len(kinds))
      /\ hub' \in [given : 0 .. Len(kinds), ended : BOOLEAN, down : BOOLEAN]
      /\ hub'.ended = hub.ended /\ hub'.down = hub.down /\ finalTaken' \in BOOLEAN
      /\ TakenInOrder'
  BY <1>1, <1>2, QueuedIs
<1>4. ~hub.down
  BY <1>1 DEF Queued
<1> DEFINE Q == Queued
           T == TakenUpTo
           n == Len(folded)
<1>0. PICK N \in Nat : N = Len(inbox)
  BY <1>2 DEF Shapes
<1>5. Events(Q) \in Messages /\ Events(Q).tag = "Events" /\ Events(Q).chunk = Q
  BY <1>3 DEF Events, Messages, Tags
<1>6. /\ inbox' \in Seq(Messages) /\ Len(inbox') = N + 1 /\ inbox'[N + 1] = Events(Q) /\ N \in Nat
      /\ \A k \in 1..N : inbox'[k] = inbox[k]
  BY <1>0, <1>1, <1>2, <1>5, Appended DEF Shapes
<1>7. T \in Nat /\ Len(Q) \in Nat /\ TakenUpTo' = T + Len(Q) /\ n \in Nat /\ n <= T
      /\ \A i \in 1..Len(Q) : Q[i] = T + i
  BY <1>2, <1>3 DEF InOrder, Shapes
<1> HIDE DEF Q, T
<1>8. /\ \A l \in 1..Len(inbox') : (l \in 1..N /\ l # N + 1) \/ l = N + 1
      /\ \A l \in 1..N : l \in 1..Len(inbox')
      /\ N + 1 \in 1..Len(inbox')
  BY <1>6
<1>9. /\ \A l \in 1..N : Carries(l)' = Carries(l) /\ inbox'[l] = inbox[l]
      /\ Carries(N + 1)' /\ inbox'[N + 1].chunk = Q
  BY <1>5, <1>6 DEF Carries
<1>10. \A k \in 1..Len(work) : Folds(k)' = Folds(k)
  BY <1>1 DEF Folds
<1>11. \A i \in 1..Len(Q) : Q[i] \in (n + 1)..(T + Len(Q)) /\ Q[i] > T
  BY <1>7
<1>12. \A e \in (n + 1)..T : e \in (n + 1)..(T + Len(Q)) /\ \A i \in 1..Len(Q) : e < Q[i]
  BY <1>7
<1>13. InOrder'
  <2> SUFFICES /\ folded = Span(1, n) /\ n <= T + Len(Q)
               /\ control = "running" =>
                    /\ \A k \in 1..Len(work) : Folds(k) => work[k].on \in (n + 1)..(T + Len(Q))
                    /\ \A k, l \in 1..Len(work) : Folds(k) /\ Folds(l) /\ k < l => work[k].on < work[l].on
                    /\ \A l \in 1..Len(inbox') : Carries(l)' =>
                         /\ \A j \in 1..Len(inbox'[l].chunk) : inbox'[l].chunk[j] \in (n + 1)..(T + Len(Q))
                         /\ \A i, j \in 1..Len(inbox'[l].chunk) : i < j => inbox'[l].chunk[i] < inbox'[l].chunk[j]
                    /\ \A k, l \in 1..Len(inbox') : Carries(k)' /\ Carries(l)' /\ k < l =>
                         \A i \in 1..Len(inbox'[k].chunk), j \in 1..Len(inbox'[l].chunk) :
                           inbox'[k].chunk[i] < inbox'[l].chunk[j]
                    /\ \A k \in 1..Len(work), l \in 1..Len(inbox') : Folds(k) /\ Carries(l)' =>
                         \A j \in 1..Len(inbox'[l].chunk) : work[k].on < inbox'[l].chunk[j]
    <3>1. Len(folded') = n /\ TakenUpTo' = T + Len(Q) /\ folded' = folded /\ work' = work /\ control' = control
      BY <1>1, <1>7
    <3>2. \A k \in 1..Len(work') : Folds(k)' = Folds(k)
      BY <1>10, <3>1
    <3>3. QED
      BY <3>1, <3>2, SMTT(40) DEF InOrder
  <2>1. folded = Span(1, n) /\ n <= T + Len(Q)
    BY <1>2, <1>7 DEF InOrder
  <2>2. ASSUME control = "running"
        PROVE  /\ \A k \in 1..Len(work) : Folds(k) => work[k].on \in (n + 1)..T
               /\ \A k, l \in 1..Len(work) : Folds(k) /\ Folds(l) /\ k < l => work[k].on < work[l].on
               /\ \A l \in 1..N : Carries(l) =>
                    /\ \A j \in 1..Len(inbox[l].chunk) : inbox[l].chunk[j] \in (n + 1)..T
                    /\ \A i, j \in 1..Len(inbox[l].chunk) : i < j => inbox[l].chunk[i] < inbox[l].chunk[j]
               /\ \A k, l \in 1..N : Carries(k) /\ Carries(l) /\ k < l =>
                    \A i \in 1..Len(inbox[k].chunk), j \in 1..Len(inbox[l].chunk) :
                      inbox[k].chunk[i] < inbox[l].chunk[j]
               /\ \A k \in 1..Len(work), l \in 1..N : Folds(k) /\ Carries(l) =>
                    \A j \in 1..Len(inbox[l].chunk) : work[k].on < inbox[l].chunk[j]
    BY <1>0, <1>2, <2>2 DEF InOrder, T
  <2>3. ASSUME control = "running", NEW l \in 1..Len(inbox'), Carries(l)'
        PROVE  /\ \A j \in 1..Len(inbox'[l].chunk) : inbox'[l].chunk[j] \in (n + 1)..(T + Len(Q))
               /\ \A i, j \in 1..Len(inbox'[l].chunk) : i < j => inbox'[l].chunk[i] < inbox'[l].chunk[j]
    <3>1. CASE l \in 1..N
      BY <1>9, <1>12, <2>2, <2>3, <3>1
    <3>2. CASE l = N + 1
      <4>1. inbox'[l].chunk = Q /\ \A i, j \in 1..Len(Q) : i < j => Q[i] < Q[j]
        BY <1>7, <1>9, <3>2
      <4>2. QED
        BY <1>11, <4>1
    <3>3. QED
      BY <1>8, <3>1, <3>2
  <2>4. ASSUME control = "running", NEW k \in 1..Len(inbox'), NEW l \in 1..Len(inbox'), Carries(k)', Carries(l)', k < l
        PROVE  \A i \in 1..Len(inbox'[k].chunk), j \in 1..Len(inbox'[l].chunk) :
                 inbox'[k].chunk[i] < inbox'[l].chunk[j]
    <3>1. k \in 1..N
      BY <1>6, <2>4
    <3>2. CASE l \in 1..N
      BY <1>9, <2>2, <2>4, <3>1, <3>2
    <3>3. CASE l = N + 1
      BY <1>9, <1>12, <2>2, <2>4, <3>1, <3>3
    <3>4. QED
      BY <1>8, <3>2, <3>3
  <2>5. ASSUME control = "running", NEW k \in 1..Len(work), NEW l \in 1..Len(inbox'), Folds(k), Carries(l)'
        PROVE  \A j \in 1..Len(inbox'[l].chunk) : work[k].on < inbox'[l].chunk[j]
    <3>1. CASE l \in 1..N
      BY <1>9, <2>2, <2>5, <3>1
    <3>2. CASE l = N + 1
      BY <1>9, <1>12, <2>2, <2>5, <3>2
    <3>3. QED
      BY <1>8, <3>1, <3>2
  <2>6. control = "running" => \A k \in 1..Len(work) : Folds(k) => work[k].on \in (n + 1)..(T + Len(Q))
    BY <1>12, <2>2
  <2>7. QED
    BY <2>1, <2>2, <2>3, <2>4, <2>5, <2>6
<1>14. Complete'
  <2>1. ASSUME control = "running", NEW e \in (n + 1)..(T + Len(Q))
        PROVE  \/ \E k \in 1..Len(work) : Folds(k) /\ work[k].on = e
               \/ \E l \in 1..Len(inbox') : Carries(l)' /\ \E j \in 1..Len(inbox'[l].chunk) : inbox'[l].chunk[j] = e
    <3>1. CASE e \in (n + 1)..T
      <4>1. \/ \E k \in 1..Len(work) : Folds(k) /\ work[k].on = e
            \/ \E l \in 1..N : Carries(l) /\ \E j \in 1..Len(inbox[l].chunk) : inbox[l].chunk[j] = e
        BY <1>0, <1>2, <2>1, <3>1 DEF Complete, T
      <4>2. QED
        BY <1>8, <1>9, <4>1
    <3>2. CASE e \notin (n + 1)..T
      <4>1. e - T \in 1..Len(Q) /\ T + (e - T) = e
        BY <1>7, <3>2
      <4>2. Q[e - T] = e
        BY <1>7, <4>1
      <4>3. QED
        BY <1>8, <1>9, <4>1, <4>2, Zenon
    <3>3. QED
      BY <3>1, <3>2
  <2>2. QED
    BY <1>1, <1>7, <1>10, <2>1 DEF Complete
<1>15. EndingInv'
  <2>1. \A k \in 1..N : inbox[k].tag # "Ended"
    BY <1>0, <1>1, <1>2 DEF EndingInv
  <2>2. \A k \in 1..Len(inbox') : inbox'[k].tag # "Ended"
    BY <1>5, <1>6, <1>8, <2>1
  <2>3. \A k \in 1..Len(work) : work[k].do \notin {"ended", "stop"}
    BY <1>1, <1>2 DEF EndingInv
  <2>4. pump' = "ending" => hub'.ended
    BY <1>1, <1>3
  <2>5. control' = "done" => owed' <= Len(folded')
    BY <1>1, <1>2 DEF EndingInv
  <2>6. QED
    BY <1>1, <1>3, <1>4, <2>2, <2>3, <2>4, <2>5 DEF EndingInv
<1>16. Shapes'
  <2>1. TypeOK'
    BY <1>1, <1>2, <1>3 DEF Shapes, TypeOK
  <2>2. \A k \in 1..Len(inbox') : inbox'[k].tag = "Failed" => inbox'[k].chunk # <<>>
    BY <1>0, <1>2, <1>5, <1>6, <1>8 DEF Shapes
  <2>3. QED
    BY <1>1, <1>2, <1>6, <2>1, <2>2 DEF Shapes
<1>17. QED
  BY <1>1, <1>3, <1>13, <1>14, <1>15, <1>16, ViewKept DEF IInv

LEMMA Joined ==
  ASSUME NEW S, NEW a \in Seq(S), NEW b \in Seq(S)
  PROVE  /\ a \o b \in Seq(S) /\ Len(a \o b) = Len(a) + Len(b)
         /\ \A i \in 1..Len(a) : (a \o b)[i] = a[i]
         /\ \A i \in 1..Len(b) : (a \o b)[Len(a) + i] = b[i]
  OBVIOUS

\* What the end of the events leaves to do.
LEMMA TailIs ==
  ASSUME NEW q \in Seq(Nat)
  PROVE  \E new :
         /\ new = [i \in 1 .. Len(q) |-> FoldIt(q[i])] \o <<Do("flush"), Do("end"), Do("stop")>>
         /\ new \in Seq(Work) /\ Len(new) = Len(q) + 3
         /\ \A i \in 1..Len(q) : new[i].do = "fold" /\ new[i].on = q[i]
         /\ new[Len(q) + 1].do = "flush" /\ new[Len(q) + 2].do = "end" /\ new[Len(q) + 3].do = "stop"
<1> DEFINE a == [i \in 1 .. Len(q) |-> FoldIt(q[i])]
           b == <<Do("flush"), Do("end"), Do("stop")>>
<1>1. \A i \in 1..Len(q) : FoldIt(q[i]) \in Work /\ FoldIt(q[i]).do = "fold" /\ FoldIt(q[i]).on = q[i]
  BY DEF FoldIt, Work, Works
<1>2. a \in Seq(Work) /\ Len(a) = Len(q) /\ \A i \in 1..Len(q) : a[i] = FoldIt(q[i])
  BY <1>1
<1>3. /\ Do("flush") \in Work /\ Do("end") \in Work /\ Do("stop") \in Work
      /\ Do("flush").do = "flush" /\ Do("end").do = "end" /\ Do("stop").do = "stop"
  BY Items1 DEF Works
<1>4. b \in Seq(Work) /\ Len(b) = 3 /\ b[1].do = "flush" /\ b[2].do = "end" /\ b[3].do = "stop"
  BY <1>3
<1>5. Len(q) \in Nat /\ Work # {}
  BY <1>3
<1> DEFINE new == a \o b
<1> HIDE DEF a, b
<1>6. /\ new \in Seq(Work) /\ Len(new) = Len(a) + Len(b)
      /\ \A i \in 1..Len(a) : new[i] = a[i]
      /\ \A i \in 1..Len(b) : new[Len(a) + i] = b[i]
  <2>1. a \in Seq(Work) /\ b \in Seq(Work)
    BY <1>2, <1>4
  <2>2. QED
    BY <2>1, Joined
<1> HIDE DEF new
<1>7. new[Len(q) + 1] = b[1] /\ new[Len(q) + 2] = b[2] /\ new[Len(q) + 3] = b[3]
  <2>1. 1 \in 1..3 /\ 2 \in 1..3 /\ 3 \in 1..3
    OBVIOUS
  <2>2. QED
    BY <1>2, <1>4, <1>6, <2>1
<1>8. /\ \A i \in 1..Len(q) : new[i].do = "fold" /\ new[i].on = q[i]
      /\ new[Len(q) + 1].do = "flush" /\ new[Len(q) + 2].do = "end" /\ new[Len(q) + 3].do = "stop"
  BY <1>1, <1>2, <1>4, <1>6, <1>7, SMTT(40)
<1>9. QED
  BY ZenonT(30), <1>2, <1>4, <1>6, <1>8 DEF new, a, b

LEMMA EndedKeeps == ASSUME IInv, Ended PROVE IInv'
<1> DEFINE Q == Queued
           T == TakenUpTo
<1>1. /\ control = "running" /\ work # <<>> /\ Head(work) = work[1] /\ work[1].do = "ended"
  BY Heads DEF IInv, Ended
<1>2. /\ UNCHANGED <<kinds, inbox, pump, control, dirty, folded, runs, going, permit, throws, closing, owed>>
      /\ TakeQueued
      /\ work' = [i \in 1 .. Len(Q) |-> FoldIt(Q[i])] \o <<Do("flush"), Do("end"), Do("stop")>>
  BY DEF Ended, QueuedTail, fold, screen
<1>3. Shapes /\ InOrder /\ Complete /\ EndingInv /\ TakenInOrder /\ RunsInOrder /\ Stands /\ Shown
  BY DEF IInv
<1>4. /\ Q \in Seq(Nat) /\ T \in Nat /\ TakenUpTo' = T + Len(Q)
      /\ \A i \in 1..Len(Q) : Q[i] = T + i
      /\ TakenUpTo' \in 0 .. Len(kinds) /\ (hub.down \/ TakenUpTo' = Len(kinds))
      /\ hub' \in [given : 0 .. Len(kinds), ended : BOOLEAN, down : BOOLEAN]
      /\ hub'.ended = hub.ended /\ hub'.down = hub.down /\ finalTaken' \in BOOLEAN
      /\ TakenInOrder'
  BY <1>2, <1>3, QueuedIs
<1>5. PICK N \in Nat : N = Len(Q)
  BY <1>4
<1>6. /\ work' \in Seq(Work) /\ Len(work') = N + 3
      /\ \A i \in 1..N : work'[i].do = "fold" /\ work'[i].on = T + i
      /\ work'[N + 1].do = "flush" /\ work'[N + 2].do = "end" /\ work'[N + 3].do = "stop"
  <2> HIDE DEF Q, T
  <2>1. PICK new :
        /\ new = [i \in 1 .. Len(Q) |-> FoldIt(Q[i])] \o <<Do("flush"), Do("end"), Do("stop")>>
        /\ new \in Seq(Work) /\ Len(new) = Len(Q) + 3
        /\ \A i \in 1..Len(Q) : new[i].do = "fold" /\ new[i].on = Q[i]
        /\ new[Len(Q) + 1].do = "flush" /\ new[Len(Q) + 2].do = "end" /\ new[Len(Q) + 3].do = "stop"
    BY <1>4, TailIs
  <2>2. work' = new
    BY <1>2, <2>1
  <2>3. QED
    BY <1>4, <1>5, <2>1, <2>2
<1> HIDE DEF Q, T
<1>7. \A k \in 1..Len(work') : k \in 1..N \/ k = N + 1 \/ k = N + 2 \/ k = N + 3
  BY <1>5, <1>6
<1>8. 1 \in 1..Len(work) /\ Len(work) \in Nat /\ Len(folded) \in Nat
  BY <1>1, <1>3 DEF Shapes
<1>9. /\ pump = "stopped" /\ Asked
      /\ \A l \in 2..Len(work) : ~Folds(l)
      /\ \A l \in 1..Len(inbox) : ~Carries(l)
  BY <1>1, <1>3, <1>8 DEF EndingInv
<1>10. Len(folded) = T
  <2>1. \A k \in 1..Len(work) : ~Folds(k)
    <3>1. \A k \in 1..Len(work) : k = 1 \/ k \in 2..Len(work)
      BY <1>8
    <3>2. ~Folds(1)
      BY <1>1 DEF Folds
    <3>3. QED
      BY <1>9, <3>1, <3>2
  <2>2. Len(folded) + 1 \notin (Len(folded) + 1)..TakenUpTo
    BY <1>1, <1>3, <1>9, <2>1 DEF Complete
  <2>3. Len(folded) <= TakenUpTo
    BY <1>3 DEF InOrder
  <2>4. QED
    BY <1>4, <1>8, <2>2, <2>3 DEF T
<1>11. \A l \in 1..Len(inbox') : ~Carries(l)'
  BY <1>2, <1>9 DEF Carries
<1>12. \A k \in 1..Len(work') : Folds(k)' <=> k \in 1..N
  BY <1>5, <1>6, <1>7 DEF Folds
<1>13. TakenUpTo' = T + N
  BY <1>4, <1>5
<1>14. InOrder'
  <2>1. folded' = Span(1, Len(folded')) /\ Len(folded') <= TakenUpTo' /\ Len(folded') = T
    BY <1>2, <1>3, <1>4, <1>10, <1>13 DEF InOrder
  <2>2. \A k \in 1..N : work'[k].on \in (T + 1)..(T + N)
    BY <1>4, <1>6, SMTT(40)
  <2>3. \A k, l \in 1..N : k < l => work'[k].on < work'[l].on
    BY <1>4, <1>6
  <2>4. \A k \in 1..Len(work') : Folds(k)' => work'[k].on \in (Len(folded') + 1)..TakenUpTo'
    BY <1>12, <1>13, <2>1, <2>2
  <2>5. \A k, l \in 1..Len(work') : Folds(k)' /\ Folds(l)' /\ k < l => work'[k].on < work'[l].on
    BY <1>12, <2>3
  <2>6. QED
    BY <1>11, <2>1, <2>4, <2>5 DEF InOrder
<1>15. Complete'
  <2>1. ASSUME NEW e \in (T + 1)..(T + N) PROVE \E k \in 1..Len(work') : Folds(k)' /\ work'[k].on = e
    <3>1. e - T \in 1..N /\ T + (e - T) = e /\ e - T \in 1..Len(work')
      BY <1>4, <1>6
    <3>2. work'[e - T].on = e /\ work'[e - T].do = "fold"
      BY <1>6, <3>1
    <3>3. QED
      BY <3>1, <3>2 DEF Folds
  <2>2. (Len(folded') + 1)..TakenUpTo' = (T + 1)..(T + N)
    BY <1>2, <1>10, <1>13
  <2>3. \A e \in (Len(folded') + 1)..TakenUpTo' : \E k \in 1..Len(work') : Folds(k)' /\ work'[k].on = e
    BY <2>1, <2>2
  <2>4. QED
    BY <2>3 DEF Complete
<1>16. EndingInv'
  <2>1. hub' .ended = hub.ended /\ hub'.down = hub.down /\ Asked' /\ pump' = "stopped"
    BY <1>2, <1>4, <1>9 DEF Asked
  <2>2. owed' <= TakenUpTo'
    <3>1. owed \in 0 .. Len(kinds) /\ owed' = owed /\ T = TakenUpTo
      BY <1>2, <1>3 DEF Shapes, TypeOK, T
    <3>2. CASE hub.down
      <4>1. owed <= T
        BY <1>3, <3>1, <3>2 DEF EndingInv
      <4>2. QED
        BY <1>4, <1>13, <3>1, <4>1
    <3>3. CASE ~hub.down
      BY <1>4, <3>1, <3>3
    <3>4. QED
      BY <3>2, <3>3
  <2>3. \A k \in 1..Len(work') : work'[k].do # "ended"
    BY <1>6, <1>7
  <2>4. \A k \in 1..Len(work') : work'[k].do = "stop" => k = Len(work')
    BY <1>6, <1>7
  <2>5. \A k \in 1..Len(inbox') : inbox'[k].tag = "Ended" => \A l \in (k + 1)..Len(inbox') : ~Carries(l)'
    <3>1. Len(inbox') \in Nat
      BY <1>2, <1>3 DEF Shapes
    <3>2. \A k \in 1..Len(inbox') : \A l \in (k + 1)..Len(inbox') : l \in 1..Len(inbox')
      BY <3>1
    <3>3. QED
      BY <1>11, <3>2
  <2>6. control' # "done" /\ pump' # "ending"
    BY <1>1, <1>2, <2>1
  <2>7. QED
    BY <1>11, <2>1, <2>2, <2>3, <2>4, <2>5, <2>6 DEF EndingInv
<1>17. WorkInOrder'
  <2>1. ASSUME NEW k \in 2..Len(work')
        PROVE  /\ work'[k].do \notin {"draw", "begin", "mount", "print"}
               /\ work'[k].do = "end" => work'[k - 1].do = "flush"
               /\ work'[k].do = "stop" => work'[k - 1].do = "end"
    <3>1. k \in 1..Len(work') /\ (k = N + 2 => k - 1 = N + 1) /\ (k = N + 3 => k - 1 = N + 2)
      BY <1>5, <1>6
    <3>2. QED
      BY <1>6, <1>7, <3>1
  <2>2. work'[1].do \in {"fold", "flush"}
    <3>1. CASE N = 0
      BY <1>6, <3>1
    <3>2. CASE N # 0
      BY <1>5, <1>6, <3>2
    <3>3. QED
      BY <3>1, <3>2
  <2>3. QED
    BY <2>1, <2>2 DEF WorkInOrder
<1>18. run' = run
  BY <1>2 DEF run
<1>19. RunsInOrder'
  BY <1>2, <1>3, RunsSame
<1>20. Shown'
  <2>1. work[1] # Do("check") /\ work[1].do # "draw"
    BY <1>1 DEF Do
  <2>2. QED
    BY <1>2, <1>3, <1>18, <2>1 DEF Shown
<1>21. Stands'
  BY <1>1, <1>2, <1>3, StandsSame
<1>22. Shapes'
  <2>1. TypeOK'
    BY <1>2, <1>3, <1>4 DEF Shapes, TypeOK
  <2>2. QED
    BY <1>1, <1>2, <1>3, <1>6, <2>1 DEF Shapes
<1>23. QED
  BY <1>4, <1>14, <1>15, <1>16, <1>17, <1>19, <1>20, <1>21, <1>22 DEF IInv

LEMMA ItemsAre ==
  ASSUME NEW m \in Messages, m.tag = "Failed" => m.chunk # <<>>
  PROVE  /\ Items(m) \in Seq(Work)
         /\ \A j \in 1..Len(Items(m)) :
              /\ Items(m)[j].do \in {"fold", "flush", "tick", "check", "ended"}
              /\ Items(m)[j].do = "fold" =>
                   m.tag = "Events" /\ j \in 1..Len(m.chunk) /\ Items(m)[j].on = m.chunk[j]
              /\ Items(m)[j].do = "ended" => m.tag = "Ended"
         /\ m.tag = "Events" => /\ Len(Items(m)) = Len(m.chunk)
                                /\ \A j \in 1..Len(m.chunk) : Items(m)[j].do = "fold" /\ Items(m)[j].on = m.chunk[j]
<1>1. m.chunk \in Seq(Nat) /\ m.tag \in {"Events", "Tick", "Failed", "Ended"}
  BY DEF Messages, Tags
<1>2. /\ Do("flush") \in Work /\ Do("tick") \in Work /\ Do("ended") \in Work
      /\ Do("flush").do = "flush" /\ Do("tick").do = "tick" /\ Do("ended").do = "ended"
  BY Items1 DEF Works
<1>3. \A i \in 1..2 : i = 1 \/ i = 2
  OBVIOUS
<1>4. CASE m.tag = "Events"
  <2>1. Items(m) = [i \in 1 .. Len(m.chunk) |-> FoldIt(m.chunk[i])]
    BY <1>4 DEF Items
  <2>2. \A i \in 1..Len(m.chunk) :
          FoldIt(m.chunk[i]) \in Work /\ FoldIt(m.chunk[i]).do = "fold" /\ FoldIt(m.chunk[i]).on = m.chunk[i]
    BY <1>1 DEF FoldIt, Work, Works
  <2>3. Items(m) \in Seq(Work) /\ Len(Items(m)) = Len(m.chunk)
        /\ \A i \in 1..Len(m.chunk) : Items(m)[i] = FoldIt(m.chunk[i])
    BY <1>1, <2>1, <2>2
  <2>4. QED
    BY <1>4, <2>2, <2>3
<1>5. CASE m.tag = "Tick"
  <2>1. Items(m) = <<Do("flush"), Do("tick")>>
    BY <1>5 DEF Items
  <2>2. /\ Items(m) \in Seq(Work) /\ Len(Items(m)) = 2
        /\ Items(m)[1].do = "flush" /\ Items(m)[2].do = "tick"
    BY <1>2, <2>1
  <2>3. QED
    BY <1>3, <1>5, <2>2
<1>6. CASE m.tag = "Failed"
  <2>1. Items(m) = <<Do("flush"), [do |-> "check", on |-> m.chunk[1]]>>
    BY <1>6 DEF Items
  <2>2. [do |-> "check", on |-> m.chunk[1]] \in Work
    <3>1. m.chunk[1] \in Nat
      BY <1>1, <1>6
    <3>2. QED
      BY <3>1 DEF Work, Works
  <2>3. /\ Items(m) \in Seq(Work) /\ Len(Items(m)) = 2
        /\ Items(m)[1].do = "flush" /\ Items(m)[2].do = "check"
    BY <1>2, <2>1, <2>2
  <2>4. QED
    BY <1>3, <1>6, <2>3
<1>7. CASE m.tag = "Ended"
  <2>1. Items(m) = <<Do("flush"), Do("ended")>>
    BY <1>7 DEF Items
  <2>2. /\ Items(m) \in Seq(Work) /\ Len(Items(m)) = 2
        /\ Items(m)[1].do = "flush" /\ Items(m)[2].do = "ended"
    BY <1>2, <2>1
  <2>3. QED
    BY <1>3, <1>7, <2>2
<1>8. QED
  BY <1>1, <1>4, <1>5, <1>6, <1>7

\* flat is what is received: loc says where each item comes from.
Received(flat, loc) ==
  /\ flat \in Seq(Work) /\ loc \in [1..Len(flat) -> Nat \X Nat]
  /\ \A k \in 1..Len(flat) :
       /\ loc[k][1] \in 1..Len(inbox)
       /\ flat[k].do \in {"fold", "flush", "tick", "check", "ended"}
       /\ flat[k].do = "fold" =>
            /\ Carries(loc[k][1]) /\ loc[k][2] \in 1..Len(inbox[loc[k][1]].chunk)
            /\ flat[k].on = inbox[loc[k][1]].chunk[loc[k][2]]
       /\ flat[k].do = "ended" => inbox[loc[k][1]].tag = "Ended"
  /\ \A k, l \in 1..Len(flat) : k < l => Lex(loc[k], loc[l])
  /\ \A l \in 1..Len(inbox) : Carries(l) => \A j \in 1..Len(inbox[l].chunk) :
       \E k \in 1..Len(flat) : flat[k].do = "fold" /\ flat[k].on = inbox[l].chunk[j]

\* Receiving takes everything that waits in the inbox, in order.
LEMMA ReceivedIs ==
  ASSUME Shapes, inbox # <<>>
  PROVE  \E loc : Received(FlattenSeq([i \in 1 .. Len(inbox) |-> Items(inbox[i])]), loc)
<1> DEFINE seqs == [i \in 1 .. Len(inbox) |-> Items(inbox[i])]
<1>1. Len(inbox) \in Nat /\ Len(inbox) > 0 /\ \A l \in 1..Len(inbox) :
        inbox[l] \in Messages /\ (inbox[l].tag = "Failed" => inbox[l].chunk # <<>>)
  BY DEF Shapes
<1>2. \A l \in 1..Len(inbox) : Items(inbox[l]) \in Seq(Work)
  BY <1>1, ItemsAre
<1>3. seqs \in Seq(Seq(Work)) /\ Len(seqs) = Len(inbox) /\ \A l \in 1..Len(inbox) : seqs[l] = Items(inbox[l])
  BY <1>1, <1>2
<1> HIDE DEF seqs
<1>4. PICK loc : FlattenSeq(seqs) \in Seq(Work) /\ IsFlat(FlattenSeq(seqs), seqs, Len(seqs), loc)
  BY <1>1, <1>3, FlatIs
<1> DEFINE flat == FlattenSeq(seqs)
<1>5. flat \in Seq(Work) /\ IsFlat(flat, seqs, Len(seqs), loc)
  BY <1>4
<1> HIDE DEF flat
<1>6. /\ loc \in [1..Len(flat) -> Nat \X Nat]
      /\ \A k \in 1..Len(flat) :
           /\ loc[k][1] \in 1..Len(inbox) /\ loc[k][2] \in 1..Len(Items(inbox[loc[k][1]]))
           /\ flat[k] = Items(inbox[loc[k][1]])[loc[k][2]]
      /\ \A k, l \in 1..Len(flat) : k < l => Lex(loc[k], loc[l])
      /\ \A k \in 1..Len(inbox) : \A l \in 1..Len(Items(inbox[k])) : \E i \in 1..Len(flat) : loc[i] = <<k, l>>
  BY <1>3, <1>5 DEF IsFlat
<1>7. ASSUME NEW k \in 1..Len(flat)
      PROVE  /\ loc[k][1] \in 1..Len(inbox)
             /\ flat[k].do \in {"fold", "flush", "tick", "check", "ended"}
             /\ flat[k].do = "fold" =>
                  /\ Carries(loc[k][1]) /\ loc[k][2] \in 1..Len(inbox[loc[k][1]].chunk)
                  /\ flat[k].on = inbox[loc[k][1]].chunk[loc[k][2]]
             /\ flat[k].do = "ended" => inbox[loc[k][1]].tag = "Ended"
  <2>1. PICK a \in 1..Len(inbox) : a = loc[k][1]
    BY <1>6
  <2>2. PICK b \in 1..Len(Items(inbox[a])) : b = loc[k][2]
    BY <1>6, <2>1
  <2>3. flat[k] = Items(inbox[a])[b]
    BY <1>6, <2>1, <2>2
  <2>4. /\ Items(inbox[a])[b].do \in {"fold", "flush", "tick", "check", "ended"}
        /\ Items(inbox[a])[b].do = "fold" =>
             inbox[a].tag = "Events" /\ b \in 1..Len(inbox[a].chunk) /\ Items(inbox[a])[b].on = inbox[a].chunk[b]
        /\ Items(inbox[a])[b].do = "ended" => inbox[a].tag = "Ended"
    BY <1>1, ItemsAre
  <2>5. QED
    BY <2>1, <2>2, <2>3, <2>4 DEF Carries
<1>8. ASSUME NEW l \in 1..Len(inbox), Carries(l), NEW j \in 1..Len(inbox[l].chunk)
      PROVE  \E k \in 1..Len(flat) : flat[k].do = "fold" /\ flat[k].on = inbox[l].chunk[j]
  <2>1. /\ Len(Items(inbox[l])) = Len(inbox[l].chunk)
        /\ Items(inbox[l])[j].do = "fold" /\ Items(inbox[l])[j].on = inbox[l].chunk[j]
    BY <1>1, <1>8, ItemsAre DEF Carries
  <2>2. PICK k \in 1..Len(flat) : loc[k] = <<l, j>>
    BY <1>6, <2>1
  <2>3. flat[k] = Items(inbox[l])[j]
    BY <1>6, <2>2
  <2>4. QED
    BY <2>1, <2>3
<1>9. flat = FlattenSeq([i \in 1 .. Len(inbox) |-> Items(inbox[i])])
  BY DEF flat, seqs
<1>10. Received(flat, loc)
  BY <1>5, <1>6, <1>7, <1>8 DEF Received
<1>11. QED
  BY <1>9, <1>10

LEMMA ReceiveKeeps == ASSUME IInv, Receive PROVE IInv'
<1> DEFINE flat == FlattenSeq([i \in 1 .. Len(inbox) |-> Items(inbox[i])])
<1>1. /\ UNCHANGED <<kinds, hub, finalTaken, pump, control, dirty, folded, runs, going, permit, throws, closing, owed>>
      /\ control = "running" /\ work = <<>> /\ inbox # <<>> /\ inbox' = <<>>
      /\ work' = flat \o <<Do("flush")>>
  BY DEF Receive, source, fold, screen
<1>2. Shapes /\ InOrder /\ Complete /\ EndingInv /\ TakenInOrder /\ RunsInOrder /\ Stands /\ Shown
  BY DEF IInv
<1>3. PICK loc : Received(flat, loc)
  BY <1>1, <1>2, ReceivedIs
<1> HIDE DEF flat
<1>4. PICK L \in Nat : L = Len(flat) /\ flat \in Seq(Work)
  BY <1>3 DEF Received
<1>5. Do("flush") \in Work /\ Do("flush").do = "flush"
  BY Items1 DEF Works
<1>6. /\ work' \in Seq(Work) /\ Len(work') = L + 1 /\ work'[L + 1].do = "flush"
      /\ \A k \in 1..L : work'[k] = flat[k]
  <2>1. work' = Append(flat, Do("flush"))
    BY <1>1, <1>4, <1>5
  <2>2. QED
    BY <1>4, <1>5, <2>1, Appended
<1>7. \A k \in 1..Len(work') : k \in 1..L \/ k = L + 1
  BY <1>6
<1>8. \A k \in 1..Len(work') : work'[k].do \in {"fold", "flush", "tick", "check", "ended"}
  BY <1>3, <1>4, <1>6, <1>7 DEF Received
<1>9. ASSUME NEW k \in 1..Len(work'), work'[k].do = "fold"
      PROVE  /\ k \in 1..L /\ loc[k][1] \in 1..Len(inbox)
             /\ Carries(loc[k][1]) /\ loc[k][2] \in 1..Len(inbox[loc[k][1]].chunk)
             /\ work'[k].on = inbox[loc[k][1]].chunk[loc[k][2]]
  <2>1. k \in 1..L
    BY <1>6, <1>7, <1>9
  <2>2. work'[k] = flat[k]
    BY <1>6, <2>1
  <2>3. QED
    BY <1>3, <1>4, <1>9, <2>1, <2>2 DEF Received
<1>10. \A k \in 1..Len(work') : Folds(k)' <=> work'[k].do = "fold"
  BY DEF Folds
<1>11. \A l \in 1..Len(inbox') : FALSE
  BY <1>1
<1>12. TakenUpTo' = TakenUpTo /\ Asked' = Asked /\ run' = run
  BY <1>1 DEF TakenUpTo, Asked, run
<1>13. InOrder'
  <2>1. folded' = Span(1, Len(folded')) /\ Len(folded') <= TakenUpTo'
    BY <1>1, <1>2, <1>12 DEF InOrder
  <2>2. ASSUME NEW k \in 1..Len(work'), Folds(k)' PROVE work'[k].on \in (Len(folded) + 1)..TakenUpTo
    <3>1. PICK a \in 1..Len(inbox) : a = loc[k][1] /\ Carries(a)
      BY <1>9, <1>10, <2>2
    <3>2. PICK b \in 1..Len(inbox[a].chunk) : b = loc[k][2] /\ work'[k].on = inbox[a].chunk[b]
      BY <1>9, <1>10, <2>2, <3>1
    <3>3. inbox[a].chunk[b] \in (Len(folded) + 1)..TakenUpTo
      BY <1>1, <1>2, <3>1 DEF InOrder
    <3>4. QED
      BY <3>2, <3>3
  <2>3. ASSUME NEW k \in 1..Len(work'), NEW l \in 1..Len(work'), Folds(k)', Folds(l)', k < l
        PROVE  work'[k].on < work'[l].on
    <3>1. PICK a \in 1..Len(inbox) : a = loc[k][1] /\ Carries(a)
      BY <1>9, <1>10, <2>3
    <3>2. PICK b \in 1..Len(inbox[a].chunk) : b = loc[k][2] /\ work'[k].on = inbox[a].chunk[b]
      BY <1>9, <1>10, <2>3, <3>1
    <3>3. PICK c \in 1..Len(inbox) : c = loc[l][1] /\ Carries(c)
      BY <1>9, <1>10, <2>3
    <3>4. PICK d \in 1..Len(inbox[c].chunk) : d = loc[l][2] /\ work'[l].on = inbox[c].chunk[d]
      BY <1>9, <1>10, <2>3, <3>3
    <3>5. Lex(loc[k], loc[l])
      <4>1. k \in 1..L /\ l \in 1..L
        BY <1>9, <1>10, <2>3
      <4>2. QED
        BY <1>3, <1>4, <2>3, <4>1 DEF Received
    <3>6. a < c \/ (a = c /\ b < d)
      BY <3>1, <3>2, <3>3, <3>4, <3>5 DEF Lex
    <3>7. CASE a < c
      <4>1. inbox[a].chunk[b] < inbox[c].chunk[d]
        BY <1>1, <1>2, <3>1, <3>3, <3>7 DEF InOrder
      <4>2. QED
        BY <3>2, <3>4, <4>1
    <3>8. CASE a = c /\ b < d
      <4>1. inbox[a].chunk[b] < inbox[a].chunk[d]
        BY <1>1, <1>2, <3>1, <3>8 DEF InOrder
      <4>2. QED
        BY <3>2, <3>4, <3>8, <4>1
    <3>9. QED
      BY <3>6, <3>7, <3>8
  <2>4. \A k \in 1..Len(work') : Folds(k)' => work'[k].on \in (Len(folded') + 1)..TakenUpTo'
    BY <1>1, <1>12, <2>2
  <2>5. QED
    BY <1>11, <2>1, <2>3, <2>4 DEF InOrder
<1>14. Complete'
  <2>1. ASSUME NEW e \in (Len(folded) + 1)..TakenUpTo PROVE \E k \in 1..Len(work') : Folds(k)' /\ work'[k].on = e
    <3>1. PICK l \in 1..Len(inbox) : Carries(l) /\ \E j \in 1..Len(inbox[l].chunk) : inbox[l].chunk[j] = e
      <4>1. \A k \in 1..Len(work) : FALSE
        BY <1>1
      <4>2. QED
        BY <1>1, <1>2, <4>1 DEF Complete
    <3>2. PICK j \in 1..Len(inbox[l].chunk) : inbox[l].chunk[j] = e
      BY <3>1
    <3>3. PICK k \in 1..L : flat[k].do = "fold" /\ flat[k].on = e
      <4>1. \A m \in 1..Len(inbox) : Carries(m) => \A i \in 1..Len(inbox[m].chunk) :
              \E k \in 1..Len(flat) : flat[k].do = "fold" /\ flat[k].on = inbox[m].chunk[i]
        BY <1>3, Zenon DEF Received
      <4>2. \E k \in 1..Len(flat) : flat[k].do = "fold" /\ flat[k].on = inbox[l].chunk[j]
        BY <3>1, <3>2, <4>1, Zenon
      <4>3. QED
        BY <1>4, <3>2, <4>2
    <3>4. k \in 1..Len(work') /\ work'[k] = flat[k]
      BY <1>6, <3>3
    <3>5. QED
      BY <1>10, <3>3, <3>4
  <2>2. (Len(folded') + 1)..TakenUpTo' = (Len(folded) + 1)..TakenUpTo
    BY <1>1, <1>12
  <2>3. \A e \in (Len(folded') + 1)..TakenUpTo' : \E k \in 1..Len(work') : Folds(k)' /\ work'[k].on = e
    BY <2>1, <2>2
  <2>4. QED
    BY <2>3 DEF Complete
<1>15. EndingInv'
  <2>1. ASSUME NEW k \in 1..Len(work'), work'[k].do = "ended"
        PROVE  pump = "stopped" /\ Asked /\ \A l \in (k + 1)..Len(work') : ~Folds(l)'
    <3>1. k \in 1..L
      BY <1>6, <1>7, <2>1
    <3>2. flat[k].do = "ended"
      BY <1>6, <2>1, <3>1
    <3>3. PICK a \in 1..Len(inbox) : a = loc[k][1] /\ inbox[a].tag = "Ended"
      BY <1>3, <1>4, <3>1, <3>2 DEF Received
    <3>4. pump = "stopped" /\ Asked /\ \A l \in (a + 1)..Len(inbox) : ~Carries(l)
      BY <1>2, <3>3 DEF EndingInv
    <3>5. ASSUME NEW l \in (k + 1)..Len(work'), Folds(l)' PROVE FALSE
      <4>1. l \in 1..Len(work') /\ k < l
        BY <1>6, <3>1
      <4>2. PICK c \in 1..Len(inbox) : c = loc[l][1] /\ Carries(c)
        BY <1>9, <1>10, <3>5, <4>1
      <4>3. l \in 1..L
        BY <1>9, <1>10, <3>5, <4>1
      <4>4. Lex(loc[k], loc[l])
        BY <1>3, <1>4, <3>1, <4>1, <4>3 DEF Received
      <4>5. a < c \/ a = c
        BY <3>3, <4>2, <4>4 DEF Lex
      <4>6. a # c
        BY <3>3, <4>2 DEF Carries
      <4>7. c \in (a + 1)..Len(inbox)
        BY <1>2, <4>5, <4>6 DEF Shapes
      <4>8. QED
        BY <3>4, <4>2, <4>7
    <3>6. QED
      BY <3>4, <3>5
  <2>2. \A k \in 1..Len(work') : work'[k].do # "stop"
    BY <1>8
  <2>3. (pump' = "ending" => hub'.ended \/ hub'.down) /\ control' # "done" /\ (hub'.down => owed' <= TakenUpTo')
    BY <1>1, <1>2, <1>12 DEF EndingInv
  <2>4. QED
    BY <1>1, <1>11, <1>12, <2>1, <2>2, <2>3 DEF EndingInv
<1>16. WorkInOrder'
  <2>1. \A k \in 2..Len(work') : k \in 1..Len(work')
    OBVIOUS
  <2>2. work' # <<>> => 1 \in 1..Len(work')
    BY <1>6
  <2>3. QED
    BY <1>8, <2>1, <2>2 DEF WorkInOrder
<1>17. RunsInOrder'
  BY <1>1, <1>2, RunsSame
<1>18. Shown'
  BY <1>1, <1>2, <1>12 DEF Shown
<1>19. Stands'
  BY <1>1, <1>2, StandsSame
<1>20. Shapes' /\ TakenInOrder'
  <2>1. TypeOK' /\ TakenInOrder'
    BY <1>1, <1>2 DEF Shapes, TypeOK, TakenInOrder
  <2>2. inbox' \in Seq(Messages)
    BY <1>1
  <2>3. QED
    BY <1>1, <1>2, <1>6, <1>11, <2>1, <2>2 DEF Shapes
<1>21. QED
  BY <1>13, <1>14, <1>15, <1>16, <1>17, <1>18, <1>19, <1>20 DEF IInv

----------------------------------------------------------------------------
(* The invariant, and what it says. *)

LEMMA InitIInv == ASSUME Sensible, Init PROVE IInv
<1>1. /\ kinds = <<>> /\ hub = [given |-> 0, ended |-> FALSE, down |-> FALSE] /\ finalTaken = FALSE
      /\ inbox = <<>> /\ pump = "taking" /\ control = "running" /\ work = <<>> /\ dirty = FALSE
      /\ folded = <<>> /\ runs = <<>> /\ going = FALSE /\ permit = "free" /\ throws = 0
      /\ closing = [asked |-> FALSE, scope |-> "open"] /\ owed = 0
  BY DEF Init
<1>2. Len(kinds) = 0 /\ Len(inbox) = 0 /\ Len(work) = 0 /\ Len(folded) = 0 /\ Len(runs) = 0
  BY <1>1
<1>3. \A k \in 1..0 : FALSE
  OBVIOUS
<1>4. \E script \in Scripts : IsPrefix(kinds, script)
  <2>1. PICK script \in Scripts : script \in Seq(Kinds)
    BY DEF Sensible
  <2>2. Len(script) \in Nat /\ Len(kinds) <= Len(script)
    BY <1>2, <2>1
  <2>3. SubSeq(kinds, 1, Len(kinds)) = SubSeq(script, 1, Len(kinds))
    BY <1>1, <1>2, <2>1
  <2>4. QED
    BY <2>2, <2>3 DEF IsPrefix
<1>5. TypeOK
  <2>1. hub \in [given : 0 .. Len(kinds), ended : BOOLEAN, down : BOOLEAN]
    BY <1>1, <1>2
  <2>2. closing \in [asked : BOOLEAN, scope : {"open", "closed"}]
    BY <1>1
  <2>3. throws \in 0 .. MaxThrows /\ owed \in 0 .. Len(kinds)
    BY <1>1, <1>2 DEF Sensible
  <2>4. QED
    BY <1>1, <1>4, <2>1, <2>2, <2>3 DEF TypeOK
<1>6. Shapes
  <2>1. kinds \in Seq(Kinds) /\ folded \in Seq(Nat) /\ inbox \in Seq(Messages) /\ work \in Seq(Work) /\ runs \in Seq(Run)
    BY <1>1
  <2>2. \A k \in 1..Len(inbox) : FALSE
    BY <1>2
  <2>3. QED
    BY <1>1, <1>5, <2>1, <2>2 DEF Shapes
<1>7. TakenUpTo = 0
  BY <1>1 DEF TakenUpTo
<1>8. TakenInOrder /\ EndingInv
  BY <1>1, <1>2, <1>3 DEF TakenInOrder, EndingInv
<1>9. InOrder /\ Complete
  <2>1. folded = Span(1, 0)
    BY <1>1 DEF Span
  <2>2. \A e \in 1..0 : FALSE
    OBVIOUS
  <2>3. \A e \in (Len(folded) + 1)..TakenUpTo : FALSE
    BY <1>2, <1>7
  <2>4. QED
    BY <1>2, <1>3, <1>7, <2>1, <2>3 DEF InOrder, Complete
<1>10. \A k \in 2..Len(work) : FALSE
  BY <1>2
<1>11. WorkInOrder /\ Shown
  BY <1>1, <1>10 DEF WorkInOrder, Shown
<1>12. RunsInOrder /\ Stands
  <2>1. \A i \in 1..(Len(runs) - 1) : FALSE
    BY <1>2
  <2>2. QED
    BY <1>1, <1>2, <1>3, <2>1 DEF RunsInOrder, Stands
<1>13. QED
  BY <1>6, <1>8, <1>9, <1>11, <1>12 DEF IInv

LEMMA NextIInv == ASSUME Sensible, IInv, [Next]_vars PROVE IInv'
<1>1. CASE Receive
  BY <1>1, ReceiveKeeps
<1>2. CASE Fold
  BY <1>2, FoldKeeps
<1>3. CASE FoldStartOver
  BY <1>3, FoldStartOverKeeps
<1>4. CASE FoldDies
  BY <1>4, FoldDiesKeeps
<1>5. CASE Flush
  BY <1>5, FlushKeeps
<1>6. CASE Begin
  BY <1>6, BeginKeeps
<1>7. CASE Mount
  BY <1>7, MountKeeps
<1>8. CASE MountFails
  BY <1>8, MountFailsKeeps
<1>9. CASE Check
  BY <1>9, CheckKeeps
<1>10. CASE Draw("draw") \/ Draw("tick")
  BY <1>10, DrawKeeps
<1>11. CASE Finish
  BY <1>11, FinishKeeps
<1>12. CASE WriteFrame
  BY <1>12, WriteFrameKeeps
<1>13. CASE Ended
  BY <1>13, EndedKeeps
<1>14. CASE Stop
  BY <1>14, StopKeeps
<1>15. CASE PumpTakes
  BY <1>15, PumpTakesKeeps
<1>16. CASE PumpSeesEnd \/ PumpEnds
  BY <1>16, PumpEndsKeeps
<1>17. CASE \E kind \in Kinds : Publish(kind) \/ End(kind)
  BY <1>17, PublishKeeps, EndKeeps
<1>18. CASE Shutdown
  BY <1>18, ShutdownKeeps
<1>19. CASE ThrowUnasked
  BY <1>19, ThrowUnaskedKeeps
<1>20. CASE Tick \/ OtherMounts \/ OtherUnmounts \/ UNCHANGED vars
  BY <1>20, OthersKeep
<1>21. CASE Close
  BY <1>21, CloseKeeps
<1>22. CASE CloseScope
  BY <1>22, CloseScopeKeeps
<1>23. QED
  BY <1>1, <1>2, <1>3, <1>4, <1>5, <1>6, <1>7, <1>8, <1>9, <1>10, <1>11, <1>12, <1>13, <1>14, <1>15,
     <1>16, <1>17, <1>18, <1>19, <1>20, <1>21, <1>22 DEF Next, ControlStep, PumpStep

LEMMA Chunks ==
  ASSUME Shapes, NEW l \in 1..Len(inbox)
  PROVE  inbox[l].chunk \in Seq(Nat)
<1>1. inbox[l] \in Messages
  BY DEF Shapes
<1>2. QED
  BY <1>1 DEF Messages

\* The places where events wait are those of the work and of the inbox.
LEMMA PlacesAre ==
  ASSUME Shapes, NEW place \in Places
  PROVE  \/ \E k \in 1..Len(work) : Folds(k) /\ place = <<k, 0>> /\ EventAt(place) = work[k].on
         \/ \E l \in 1..Len(inbox) : \E j \in 1..Len(inbox[l].chunk) :
              Carries(l) /\ place = <<Len(work) + l, j>> /\ EventAt(place) = inbox[l].chunk[j]
<1>1. DOMAIN work = 1..Len(work) /\ DOMAIN inbox = 1..Len(inbox) /\ Len(work) \in Nat /\ Len(inbox) \in Nat
  BY DEF Shapes
<1>2. CASE place \in {<<k, 0>> : k \in {k \in DOMAIN work : work[k].do = "fold"}}
  <2>1. PICK k \in 1..Len(work) : work[k].do = "fold" /\ place = <<k, 0>>
    BY <1>1, <1>2
  <2>2. EventAt(place) = work[k].on
    BY <2>1 DEF EventAt
  <2>3. QED
    BY <2>1, <2>2 DEF Folds
<1>3. CASE place \in UNION {{<<Len(work) + k, j>> : j \in DOMAIN inbox[k].chunk} :
                               k \in {k \in DOMAIN inbox : inbox[k].tag = "Events"}}
  <2>1. PICK l \in 1..Len(inbox) : inbox[l].tag = "Events" /\ place \in {<<Len(work) + l, j>> : j \in DOMAIN inbox[l].chunk}
    BY <1>1, <1>3
  <2>2. inbox[l].chunk \in Seq(Nat)
    BY Chunks
  <2>3. PICK j \in 1..Len(inbox[l].chunk) : place = <<Len(work) + l, j>>
    BY <2>1, <2>2
  <2>4. j # 0 /\ (Len(work) + l) - Len(work) = l
    BY <1>1, <2>2
  <2>5. EventAt(place) = inbox[l].chunk[j]
    BY <2>3, <2>4 DEF EventAt
  <2>6. QED
    BY <2>1, <2>3, <2>5 DEF Carries
<1>4. QED
  BY <1>2, <1>3 DEF Places

LEMMA WorkPlace ==
  ASSUME Shapes, NEW k \in 1..Len(work), Folds(k)
  PROVE  <<k, 0>> \in Places /\ EventAt(<<k, 0>>) = work[k].on
  BY DEF Shapes, Places, EventAt, Folds

LEMMA InboxPlace ==
  ASSUME Shapes, NEW l \in 1..Len(inbox), Carries(l), NEW j \in 1..Len(inbox[l].chunk)
  PROVE  <<Len(work) + l, j>> \in Places /\ EventAt(<<Len(work) + l, j>>) = inbox[l].chunk[j]
<1>1. DOMAIN inbox = 1..Len(inbox) /\ Len(work) \in Nat /\ inbox[l].chunk \in Seq(Nat)
  BY Chunks DEF Shapes
<1>2. j \in DOMAIN inbox[l].chunk /\ j # 0 /\ (Len(work) + l) - Len(work) = l
  BY <1>1
<1>3. QED
  BY <1>1, <1>2 DEF Places, EventAt, Carries

\* No place of the work or the inbox has the event of another: every event once.
LEMMA SaysOnce == ASSUME IInv PROVE FoldsOnce
<1>1. Shapes /\ InOrder /\ Complete /\ EndingInv
  BY DEF IInv
<1>2. folded = Span(1, Len(folded))
  BY <1>1 DEF InOrder
<1>3. ASSUME control = "running"
      PROVE  {EventAt(place) : place \in Places} = (Len(folded) + 1) .. TakenUpTo
  <2>1. ASSUME NEW place \in Places PROVE EventAt(place) \in (Len(folded) + 1) .. TakenUpTo
    BY <1>1, <1>3, <2>1, PlacesAre DEF InOrder
  <2>2. ASSUME NEW e \in (Len(folded) + 1) .. TakenUpTo PROVE \E place \in Places : EventAt(place) = e
    <3>1. \/ \E k \in 1..Len(work) : Folds(k) /\ work[k].on = e
          \/ \E l \in 1..Len(inbox) : Carries(l) /\ \E j \in 1..Len(inbox[l].chunk) : inbox[l].chunk[j] = e
      BY <1>1, <1>3 DEF Complete
    <3>2. ASSUME NEW k \in 1..Len(work), Folds(k), work[k].on = e PROVE \E place \in Places : EventAt(place) = e
      BY <1>1, <3>2, WorkPlace
    <3>3. ASSUME NEW l \in 1..Len(inbox), Carries(l), NEW j \in 1..Len(inbox[l].chunk), inbox[l].chunk[j] = e
          PROVE  \E place \in Places : EventAt(place) = e
      BY <1>1, <3>3, InboxPlace
    <3>4. QED
      BY <3>1, <3>2, <3>3
  <2>3. QED
    BY <2>1, <2>2
<1>4. ASSUME control = "running", NEW place \in Places, NEW other \in Places, Before(place, other)
      PROVE  EventAt(place) < EventAt(other)
  <2>1. Len(work) \in Nat /\ Len(inbox) \in Nat
    BY <1>1 DEF Shapes
  <2>2. CASE \E k \in 1..Len(work) : Folds(k) /\ place = <<k, 0>> /\ EventAt(place) = work[k].on
    <3>1. PICK k \in 1..Len(work) : Folds(k) /\ place = <<k, 0>> /\ EventAt(place) = work[k].on
      BY <2>2
    <3>2. ASSUME NEW l \in 1..Len(work), Folds(l), other = <<l, 0>>, EventAt(other) = work[l].on
          PROVE  EventAt(place) < EventAt(other)
      <4>1. k < l
        BY <1>4, <3>1, <3>2 DEF Before
      <4>2. work[k].on < work[l].on
        BY <1>1, <1>4, <3>1, <3>2, <4>1 DEF InOrder
      <4>3. QED
        BY <3>1, <3>2, <4>2
    <3>3. ASSUME NEW l \in 1..Len(inbox), NEW j \in 1..Len(inbox[l].chunk), Carries(l), EventAt(other) = inbox[l].chunk[j]
          PROVE  EventAt(place) < EventAt(other)
      <4>1. work[k].on < inbox[l].chunk[j]
        BY <1>1, <1>4, <3>1, <3>3 DEF InOrder
      <4>2. QED
        BY <3>1, <3>3, <4>1
    <3>4. QED
      BY <1>1, <3>2, <3>3, PlacesAre
  <2>3. CASE \E l \in 1..Len(inbox) : \E j \in 1..Len(inbox[l].chunk) :
               Carries(l) /\ place = <<Len(work) + l, j>> /\ EventAt(place) = inbox[l].chunk[j]
    <3>1. PICK l \in 1..Len(inbox) : \E j \in 1..Len(inbox[l].chunk) :
               Carries(l) /\ place = <<Len(work) + l, j>> /\ EventAt(place) = inbox[l].chunk[j]
      BY <2>3
    <3>2. PICK j \in 1..Len(inbox[l].chunk) :
               Carries(l) /\ place = <<Len(work) + l, j>> /\ EventAt(place) = inbox[l].chunk[j]
      BY <3>1
    <3>3. ASSUME NEW k \in 1..Len(work), other = <<k, 0>> PROVE FALSE
      BY <1>4, <2>1, <3>2, <3>3 DEF Before
    <3>4. ASSUME NEW m \in 1..Len(inbox), NEW i \in 1..Len(inbox[m].chunk), Carries(m),
                 other = <<Len(work) + m, i>>, EventAt(other) = inbox[m].chunk[i]
          PROVE  EventAt(place) < EventAt(other)
      <4>1. l < m \/ (l = m /\ j < i)
        BY <1>4, <2>1, <3>2, <3>4 DEF Before
      <4>2. CASE l < m
        <5>1. inbox[l].chunk[j] < inbox[m].chunk[i]
          BY <1>1, <1>4, <3>2, <3>4, <4>2 DEF InOrder
        <5>2. QED
          BY <3>2, <3>4, <5>1
      <4>3. CASE l = m /\ j < i
        <5>1. inbox[l].chunk[j] < inbox[l].chunk[i]
          BY <1>1, <1>4, <3>2, <3>4, <4>3 DEF InOrder
        <5>2. QED
          BY <3>2, <3>4, <4>3, <5>1
      <4>4. QED
        BY <4>1, <4>2, <4>3
    <3>5. QED
      BY <1>1, <3>3, <3>4, PlacesAre
  <2>4. QED
    BY <1>1, <2>2, <2>3, PlacesAre
<1>5. EveryEventOnce
  BY <1>2, <1>3, <1>4 DEF EveryEventOnce
<1>6. EndsWithEverything
  BY <1>1 DEF EndsWithEverything, EndingInv, Shapes, TypeOK
<1>7. QED
  BY <1>5, <1>6 DEF FoldsOnce

\* A run that is over stands as LastFrameStands says.
LEMMA SaysTerminal == ASSUME IInv PROVE LeavesTerminal
<1>1. Shapes /\ Stands /\ RunsInOrder
  BY DEF IInv
<1>2. work # <<>> => Head(work) = work[1]
  BY <1>1 DEF Shapes
<1>3. LastFrameStands
  BY <1>1, <1>2 DEF LastFrameStands, Stands, Waits
<1>4. PermitGoesBack
  BY <1>1 DEF PermitGoesBack, RunsInOrder
<1>5. QED
  BY <1>3, <1>4 DEF LeavesTerminal

\* IInv is inductive.
LEMMA Invariance == ASSUME Sensible PROVE Spec => []IInv
<1>1. Init => IInv
  BY InitIInv
<1>2. IInv /\ [Next]_vars => IInv'
  BY NextIInv
<1>3. QED
  BY <1>1, <1>2, PTL DEF Spec

\* Every event that was taken from the subscription is folded once, in order, or
\* waits for it in the work or the inbox; and a view that came to its end has
\* folded all that was published before it was asked to end, whoever asked and
\* however the close, the end of the PubSub and the pump interleave
\* (CliUiLive.ts, the pump and the controller).
THEOREM FoldsOnceHolds == ASSUME Sensible PROVE Spec => [](TypeOK /\ FoldsOnce)
<1>1. IInv => TypeOK /\ FoldsOnce
  BY SaysOnce DEF IInv, Shapes
<1>2. QED
  BY <1>1, Invariance, PTL

\* The last frame of a run is its last state, on the terminal or printed and not
\* both, however frames throw and mounts fail; and the permit for the terminal is
\* the view's only while its run is mounted, also when the view dies or its scope
\* is closed (CliUiLive.ts, mounting, degrading and ending a run).
THEOREM LeavesTerminalHolds == ASSUME Sensible PROVE Spec => []LeavesTerminal
<1>1. IInv => LeavesTerminal
  BY SaysTerminal
<1>2. QED
  BY <1>1, Invariance, PTL
=============================================================================
