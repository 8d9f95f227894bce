------------------------ MODULE AtomicDirectory_proofs ------------------------
(***************************************************************************)
(* What replacing a directory promises, for any file names and any number  *)
(* of calls, crashes, failures and interrupts.  The strengthening says     *)
(* where each of the three trees can be at each step of a call.            *)
(***************************************************************************)
EXTENDS AtomicDirectory, TLAPS

T == disk["target"]
S == disk["staging"]
R == disk["retired"]

Clearing == {"clear staging", "look", "clear retired"}

\* The trees at each step: what is retired without a target is the old tree,
\* whole; what is staged grows to what the call wants, and is that when the
\* renames begin; they find nothing retired.
TreesInPlace ==
  /\ R # None /\ T = None => Whole(R) /\ R.by = readers
  /\ at \in {"make staging", "write files", "retire"} => R = None
  /\ at \in {"write files", "retire", "swap"} =>
       S # None /\ S.by = n /\ S.wants = wants
  /\ at \in {"retire", "swap"} => S.holds = wants
  /\ at = "swap" => T = None
  /\ at \in {"clean up"} => T # None /\ T.by = n
  /\ at = "clear retired" /\ R # None => T # None

\* The trees and the calls: a call works on valid paths, and the target is
\* what it found, or what it restored, until it swaps.
CallInOrder ==
  /\ readers <= n
  /\ found # None => readers # 0
  /\ at \in Working => wants \subseteq Files
  /\ at \in Working \ {"clean up"} => readers < n
  /\ at \in {"clear staging", "look"} => T = found
  /\ at \in {"clear retired", "make staging", "write files", "retire"} =>
       T = found \/ (found = None /\ T # None)
  /\ at \in Working \ {"swap", "clean up", "clear staging", "look"} /\ found # None => T # None

Inv == TypeOK /\ ReadersSeeWholeTrees /\ NeverWithoutTree /\ TreesInPlace /\ CallInOrder /\ FailureTellsTruth

\* What a tree is, as the steps below use it.
LEMMA TreeFields ==
  ASSUME NEW tree \in Tree
  PROVE  /\ tree # None /\ tree.by \in 1 .. MaxCalls
         /\ tree.wants \subseteq Files /\ tree.holds \subseteq Files
BY NoneIsNoTree DEF Tree

\* A tree with some of its files taken away or added is a tree.
LEMMA TreeWithOtherFiles ==
  ASSUME NEW tree \in Tree, NEW files \in SUBSET Files
  PROVE  /\ Holding(tree, files) \in Tree
         /\ Holding(tree, files).by = tree.by
         /\ Holding(tree, files).wants = tree.wants
         /\ Holding(tree, files).holds = files
BY DEF Tree, Holding

\* The counters, without the trees.
LEMMA Counters ==
  ASSUME TypeOK
  PROVE  n \in Nat /\ readers \in Nat /\ MaxCalls \in Nat /\ n <= MaxCalls
BY MaxCallsAssumption DEF TypeOK

\* Everything starts with no tree at all.
LEMMA InitInv == Init => Inv
<1> SUFFICES ASSUME Init PROVE Inv OBVIOUS
<1>1. TypeOK
  BY MaxCallsAssumption DEF Init, TypeOK, Places, Idle
<1>2. T = None /\ S = None /\ R = None
  BY DEF Init, T, S, R, Places
<1>3. QED
  BY <1>1, <1>2 DEF Init, Inv, ReadersSeeWholeTrees, NeverWithoutTree, TreesInPlace, CallInOrder,
     FailureTellsTruth, Working, T, S, R

\* The three trees, their types and how one replacement changes them.
LEMMA Replaced ==
  ASSUME TypeOK, NEW p \in Places, NEW tree \in Tree \cup {None},
         disk' = [disk EXCEPT ![p] = tree]
  PROVE  /\ disk' \in [Places -> Tree \cup {None}]
         /\ T' = (IF p = "target" THEN tree ELSE T)
         /\ S' = (IF p = "staging" THEN tree ELSE S)
         /\ R' = (IF p = "retired" THEN tree ELSE R)
BY DEF TypeOK, Places, T, S, R

\* A call begins.
LEMMA WriteStep ==
  ASSUME Inv, NEW files \in SUBSET (Files \cup Escaping), Write(files)
  PROVE  Inv'
<1>0. n \in Nat /\ readers \in Nat /\ MaxCalls \in Nat /\ readers <= n
  <2>1. TypeOK /\ readers <= n
    BY DEF Inv, CallInOrder
  <2>2. QED
    BY <2>1, Counters
<1>1. TypeOK'
  <2>0. n < MaxCalls /\ n' = n + 1
    BY DEF Write
  <2>1. n' \in 0 .. MaxCalls
    BY <1>0, <2>0
  <2>2. disk' = disk /\ readers' = readers /\ wants' \subseteq Files \cup Escaping /\ at' \in Idle \cup Working
    BY DEF Write, Idle, Working
  <2>3. found' \in Tree \cup {None}
    BY DEF Write, Inv, TypeOK, Places
  <2>4. QED
    BY <2>1, <2>2, <2>3 DEF Inv, TypeOK
<1>2. T' = T /\ S' = S /\ R' = R /\ found' = T /\ readers' = readers /\ n' = n + 1
  BY DEF Write, T, S, R
<1>3. at' \in {"validate", "clear staging"} /\ (at' = "clear staging" => wants' \subseteq Files)
  BY DEF Write
<1>4. readers' < n' /\ readers' <= n'
  BY <1>0, <1>2
<1>5. T # None => T.by = readers /\ readers # 0
  BY TreeFields DEF Inv, ReadersSeeWholeTrees, TypeOK, Places, T
<1>6. TreesInPlace' /\ CallInOrder'
  BY <1>2, <1>3, <1>4, <1>5 DEF Inv, TreesInPlace, CallInOrder, Working, Whole
<1>7. ReadersSeeWholeTrees' /\ NeverWithoutTree' /\ FailureTellsTruth'
  BY <1>2, <1>3 DEF Inv, ReadersSeeWholeTrees, NeverWithoutTree, FailureTellsTruth, Whole, T, S, R
<1>8. QED
  BY <1>1, <1>6, <1>7 DEF Inv

\* A recursive removal of what is not the target.
LEMMA RemoveStep ==
  ASSUME Inv, NEW p \in {"staging", "retired"}, NEW now \in Working, NEW next \in Idle \cup Working,
         Remove(p, now, next)
  PROVE  /\ TypeOK' /\ T' = T /\ (p = "staging" => R' = R) /\ (p = "retired" => S' = S)
         /\ n' = n /\ wants' = wants /\ found' = found /\ readers' = readers
         /\ at = now
         /\ \/ at' = at /\ disk[p] # None
            \/ at' = next /\ disk'[p] = None
<1>1. at = now /\ UNCHANGED <<n, wants, found, readers>>
  BY DEF Remove, call
<1>2. p \in Places /\ disk[p] \in Tree \cup {None}
  BY DEF Inv, TypeOK, Places
<1>3. CASE disk[p] # None /\ disk[p].holds # {}
  <2>1. PICK f \in disk[p].holds : disk' = [disk EXCEPT ![p] = Holding(disk[p], disk[p].holds \ {f})]
    BY <1>3 DEF Remove
  <2>2. disk[p] \in Tree /\ disk[p].holds \ {f} \in SUBSET Files
    BY <1>2, <1>3, TreeFields
  <2>3. Holding(disk[p], disk[p].holds \ {f}) \in Tree
    BY <2>2, TreeWithOtherFiles
  <2>5. disk' \in [Places -> Tree \cup {None}] /\ T' = T /\ (p = "staging" => R' = R) /\ (p = "retired" => S' = S)
    BY <2>3, <2>1, <1>2, Replaced DEF Inv
  <2>6. at' = at
    BY <1>3 DEF Remove
  <2>7. QED
    BY <1>1, <1>3, <2>5, <2>6 DEF Inv, TypeOK
<1>4. CASE ~(disk[p] # None /\ disk[p].holds # {})
  <2>1. disk' = [disk EXCEPT ![p] = None] /\ at' = next
    BY <1>4 DEF Remove
  <2>2. disk' \in [Places -> Tree \cup {None}] /\ T' = T /\ (p = "staging" => R' = R) /\ (p = "retired" => S' = S)
    BY <2>1, <1>2, Replaced DEF Inv
  <2>3. disk'[p] = None
    BY <2>1, <1>2 DEF Inv, TypeOK
  <2>4. QED
    BY <1>1, <2>1, <2>2, <2>3 DEF Inv, TypeOK
<1>5. QED
  BY <1>3, <1>4

LEMMA ClearStagingStep == Inv /\ ClearStaging => Inv'
<1> SUFFICES ASSUME Inv, ClearStaging PROVE Inv' OBVIOUS
<1>1. /\ TypeOK' /\ T' = T /\ R' = R /\ n' = n /\ wants' = wants /\ found' = found /\ readers' = readers
      /\ at = "clear staging" /\ at' \in {"clear staging", "look"}
  BY RemoveStep DEF ClearStaging, Working
<1>2. TreesInPlace' /\ CallInOrder'
  BY <1>1 DEF Inv, TreesInPlace, CallInOrder, Working, Whole
<1>3. ReadersSeeWholeTrees' /\ NeverWithoutTree' /\ FailureTellsTruth'
  BY <1>1 DEF Inv, ReadersSeeWholeTrees, NeverWithoutTree, FailureTellsTruth, Whole, T, S, R
<1>4. QED
  BY <1>1, <1>2, <1>3 DEF Inv

LEMMA ClearRetiredStep == Inv /\ ClearRetired => Inv'
<1> SUFFICES ASSUME Inv, ClearRetired PROVE Inv' OBVIOUS
<1>1. /\ TypeOK' /\ T' = T /\ S' = S /\ n' = n /\ wants' = wants /\ found' = found /\ readers' = readers
      /\ at = "clear retired"
      /\ (at' = at /\ R # None) \/ (at' = "make staging" /\ R' = None)
  BY RemoveStep DEF ClearRetired, Working, R
<1>2. R # None => T # None
  BY <1>1 DEF Inv, TreesInPlace
<1>3. readers # 0 => T # None
  BY <1>1 DEF Inv, NeverWithoutTree, T
<1>4. TreesInPlace' /\ CallInOrder'
  BY <1>1, <1>2 DEF Inv, TreesInPlace, CallInOrder, Working
<1>5. ReadersSeeWholeTrees' /\ NeverWithoutTree' /\ FailureTellsTruth'
  BY <1>1, <1>3 DEF Inv, ReadersSeeWholeTrees, NeverWithoutTree, FailureTellsTruth, Whole, T, S, R
<1>6. QED
  BY <1>1, <1>4, <1>5 DEF Inv

LEMMA CleanUpStep == Inv /\ CleanUp => Inv'
<1> SUFFICES ASSUME Inv, CleanUp PROVE Inv' OBVIOUS
<1>1. /\ TypeOK' /\ T' = T /\ S' = S /\ n' = n /\ wants' = wants /\ found' = found /\ readers' = readers
      /\ at = "clean up" /\ at' \in {"clean up", "ok"}
  BY RemoveStep DEF CleanUp, Working, Idle
<1>2. T # None /\ T.by = n
  BY <1>1 DEF Inv, TreesInPlace
<1>3. TreesInPlace' /\ CallInOrder'
  BY <1>1, <1>2 DEF Inv, TreesInPlace, CallInOrder, Working
<1>4. ReadersSeeWholeTrees' /\ NeverWithoutTree' /\ FailureTellsTruth'
  BY <1>1, <1>2 DEF Inv, ReadersSeeWholeTrees, NeverWithoutTree, FailureTellsTruth, Whole, T, S, R
<1>5. QED
  BY <1>1, <1>3, <1>4 DEF Inv

\* A tree takes the target's place.
LEMMA AppearsStep ==
  ASSUME TypeOK, NEW p \in {"staging", "retired"}, disk[p] # None, Appears(p)
  PROVE  /\ disk' \in [Places -> Tree \cup {None}]
         /\ T' = disk[p] /\ readers' = disk[p].by /\ readers' \in 1 .. MaxCalls
         /\ (p = "staging" => S' = None /\ R' = R) /\ (p = "retired" => R' = None /\ S' = S)
<1>1. disk[p] \in Tree /\ disk[p].by \in 1 .. MaxCalls
  BY TreeFields DEF TypeOK, Places
<1>2. QED
  BY <1>1 DEF TypeOK, Appears, Places, T, S, R

LEMMA RestoreStep == Inv /\ Restore => Inv'
<1> SUFFICES ASSUME Inv, Restore PROVE Inv' OBVIOUS
<1>1. at = "look" /\ at' = "clear retired" /\ n' = n /\ wants' = wants /\ found' = found
  BY DEF Restore, call
<1>2. CASE Stranded
  <2>1. R # None /\ T = None /\ Whole(R) /\ R.by = readers
    BY <1>2 DEF Stranded, Inv, TreesInPlace, T, R
  <2>2. disk' \in [Places -> Tree \cup {None}] /\ T' = R /\ readers' = R.by /\ R' = None /\ S' = S
    BY <1>2, <2>1, AppearsStep DEF Restore, Inv, R
  <2>3. readers' = readers
    BY <2>1, <2>2
  <2>4. TypeOK'
    BY <1>1, <2>2, <2>3 DEF Inv, TypeOK, Working
  <2>5. TreesInPlace' /\ CallInOrder'
    BY <1>1, <2>1, <2>2, <2>3 DEF Inv, TreesInPlace, CallInOrder, Working
  <2>6. ReadersSeeWholeTrees' /\ NeverWithoutTree' /\ FailureTellsTruth'
    BY <1>1, <2>1, <2>2, <2>3 DEF ReadersSeeWholeTrees, NeverWithoutTree, FailureTellsTruth, Whole, T, S, R
  <2>7. QED
    BY <2>4, <2>5, <2>6 DEF Inv
<1>3. CASE ~Stranded
  <2>1. disk' = disk /\ readers' = readers /\ T' = T /\ S' = S /\ R' = R
    BY <1>3 DEF Restore, T, S, R
  <2>2. R # None => T # None
    BY <1>3 DEF Stranded, T, R
  <2>3. readers # 0 => T # None
    BY <2>2 DEF Inv, NeverWithoutTree, Whole, T, R
  <2>4. TypeOK'
    BY <1>1, <2>1 DEF Inv, TypeOK, Working
  <2>5. TreesInPlace' /\ CallInOrder'
    BY <1>1, <2>1, <2>2, <2>3 DEF Inv, TreesInPlace, CallInOrder, Working
  <2>6. ReadersSeeWholeTrees' /\ NeverWithoutTree' /\ FailureTellsTruth'
    BY <1>1, <2>1, <2>2, <2>3 DEF Inv, ReadersSeeWholeTrees, NeverWithoutTree, FailureTellsTruth, Whole, T, S, R
  <2>7. QED
    BY <2>4, <2>5, <2>6 DEF Inv
<1>4. QED
  BY <1>2, <1>3

\* Staging grows.
LEMMA StagingStep == Inv /\ (MakeStaging \/ \E f \in Files : WriteOne(f)) => Inv'
<1> SUFFICES ASSUME Inv, MakeStaging \/ \E f \in Files : WriteOne(f) PROVE Inv' OBVIOUS
<1>1. /\ at \in {"make staging", "write files"} /\ at' = "write files"
      /\ n' = n /\ wants' = wants /\ found' = found /\ readers' = readers
  BY DEF MakeStaging, WriteOne, call
<1>2. n \in 1 .. MaxCalls /\ wants \subseteq Files
  <2>1. TypeOK /\ readers < n /\ wants \subseteq Files
    BY <1>1 DEF Inv, CallInOrder, Working
  <2>2. QED
    BY <2>1, Counters
<1>3. \E tree \in Tree : disk' = [disk EXCEPT !["staging"] = tree] /\ tree.by = n /\ tree.wants = wants
  <2>1. CASE MakeStaging
    <3> DEFINE tree == [by |-> n, wants |-> wants, holds |-> {}]
    <3>1. tree \in Tree /\ tree.by = n /\ tree.wants = wants
      BY <1>2 DEF Tree
    <3>2. disk' = [disk EXCEPT !["staging"] = tree]
      BY <2>1 DEF MakeStaging
    <3>3. QED
      BY <3>1, <3>2
  <2>2. ASSUME NEW f \in Files, WriteOne(f)
        PROVE  \E tree \in Tree : disk' = [disk EXCEPT !["staging"] = tree] /\ tree.by = n /\ tree.wants = wants
    <3>1. S \in Tree /\ S.by = n /\ S.wants = wants
      BY <2>2 DEF WriteOne, Inv, TreesInPlace, TypeOK, Places, S
    <3> DEFINE tree == Holding(S, S.holds \cup {f})
    <3>2. S.holds \cup {f} \in SUBSET Files
      BY <3>1, TreeFields
    <3>3. tree \in Tree /\ tree.by = n /\ tree.wants = wants
      BY <3>1, <3>2, TreeWithOtherFiles
    <3>4. disk' = [disk EXCEPT !["staging"] = tree]
      BY <2>2 DEF WriteOne, S
    <3>5. QED
      BY <3>3, <3>4
  <2>3. QED
    BY <2>1, <2>2
<1>4. PICK tree \in Tree : disk' = [disk EXCEPT !["staging"] = tree] /\ tree.by = n /\ tree.wants = wants
  BY <1>3
<1>5. disk' \in [Places -> Tree \cup {None}] /\ T' = T /\ R' = R /\ S' = tree
  BY <1>4, Replaced DEF Inv, Places
<1>6. TypeOK' /\ S' # None
  BY <1>1, <1>5, TreeFields DEF Inv, TypeOK, Working
<1>7. R = None /\ (readers # 0 => T # None)
  BY <1>1 DEF Inv, TreesInPlace, NeverWithoutTree, T
<1>8. TreesInPlace' /\ CallInOrder'
  BY <1>1, <1>4, <1>5, <1>6, <1>7 DEF Inv, TreesInPlace, CallInOrder, Working
<1>9. ReadersSeeWholeTrees' /\ NeverWithoutTree' /\ FailureTellsTruth'
  BY <1>1, <1>5, <1>7 DEF Inv, ReadersSeeWholeTrees, NeverWithoutTree, FailureTellsTruth, Whole, T, S, R
<1>10. QED
  BY <1>6, <1>8, <1>9 DEF Inv

LEMMA AllWrittenStep == Inv /\ AllWritten => Inv'
<1> SUFFICES ASSUME Inv, AllWritten PROVE Inv' OBVIOUS
<1>1. /\ at = "write files" /\ at' = "retire" /\ S.holds = wants
      /\ T' = T /\ S' = S /\ R' = R /\ disk' = disk
      /\ n' = n /\ wants' = wants /\ found' = found /\ readers' = readers
  BY DEF AllWritten, call, T, S, R
<1>2. TypeOK'
  BY <1>1 DEF Inv, TypeOK, Working
<1>3. TreesInPlace' /\ CallInOrder'
  BY <1>1 DEF Inv, TreesInPlace, CallInOrder, Working
<1>4. ReadersSeeWholeTrees' /\ NeverWithoutTree' /\ FailureTellsTruth'
  BY <1>1 DEF Inv, ReadersSeeWholeTrees, NeverWithoutTree, FailureTellsTruth, Whole, T, S, R
<1>5. QED
  BY <1>2, <1>3, <1>4 DEF Inv

\* The first rename: the target, whole as it is, is retired.
LEMMA RetireStep == Inv /\ Retire => Inv'
<1> SUFFICES ASSUME Inv, Retire PROVE Inv' OBVIOUS
<1>1. /\ at = "retire" /\ at' = "swap"
      /\ n' = n /\ wants' = wants /\ found' = found /\ readers' = readers
  BY DEF Retire, call
<1>2. R = None /\ (readers # 0 => T # None) /\ (T # None => Whole(T) /\ T.by = readers)
  BY <1>1 DEF Inv, TreesInPlace, NeverWithoutTree, ReadersSeeWholeTrees, T, R
<1>3. disk' \in [Places -> Tree \cup {None}] /\ T' = None /\ S' = S /\ R' = T
  <2>1. CASE T # None
    BY <2>1 DEF Retire, Inv, TypeOK, Places, T, S, R
  <2>2. CASE T = None
    BY <2>2, <1>2 DEF Retire, Inv, TypeOK, T, S, R
  <2>3. QED
    BY <2>1, <2>2
<1>4. TypeOK'
  BY <1>1, <1>3 DEF Inv, TypeOK, Working
<1>5. TreesInPlace' /\ CallInOrder'
  BY <1>1, <1>2, <1>3 DEF Inv, TreesInPlace, CallInOrder, Working, Whole
<1>6. ReadersSeeWholeTrees' /\ NeverWithoutTree' /\ FailureTellsTruth'
  BY <1>1, <1>2, <1>3 DEF Inv, ReadersSeeWholeTrees, NeverWithoutTree, FailureTellsTruth, Whole, T, S, R
<1>7. QED
  BY <1>4, <1>5, <1>6 DEF Inv

\* The second: what was staged, whole, is the target.
LEMMA SwapStep == Inv /\ Swap => Inv'
<1> SUFFICES ASSUME Inv, Swap PROVE Inv' OBVIOUS
<1>1. at = "swap" /\ at' = "clean up" /\ n' = n /\ wants' = wants /\ found' = found
  BY DEF Swap, call
<1>2. S # None /\ S.by = n /\ S.holds = S.wants
  BY <1>1 DEF Inv, TreesInPlace
<1>3. disk' \in [Places -> Tree \cup {None}] /\ T' = S /\ readers' = n /\ readers' \in 1 .. MaxCalls
  BY <1>2, AppearsStep DEF Swap, Inv, S
<1>4. TypeOK'
  BY <1>1, <1>3 DEF Inv, TypeOK, Working
<1>5. TreesInPlace' /\ CallInOrder'
  <2>1. n \in Nat /\ readers \in Nat /\ readers < n /\ wants \subseteq Files
    <3>1. TypeOK /\ readers < n /\ wants \subseteq Files
      BY <1>1 DEF Inv, CallInOrder, Working
    <3>2. QED
      BY <3>1, Counters
  <2>2. T' # None /\ T'.by = n' /\ readers' <= n' /\ readers' # 0 /\ wants' \subseteq Files
    <3>1. T' = S /\ readers' = n
      BY <1>3
    <3>2. T' # None /\ T'.by = n'
      BY <3>1, <1>1, <1>2
    <3>3. readers' <= n' /\ readers' # 0
      <4>1. readers' = n /\ n' = n /\ n \in Nat /\ readers \in Nat /\ readers < n
        BY <3>1, <1>1, <2>1
      <4>2. n <= n /\ n # 0
        BY <4>1
      <4>3. QED
        BY <4>1, <4>2
    <3>4. QED
      BY <3>2, <3>3, <2>1, <1>1
  <2>3. TreesInPlace'
    BY <1>1, <2>2 DEF TreesInPlace
  <2>4. CallInOrder'
    BY <1>1, <2>2 DEF CallInOrder, Working
  <2>5. QED
    BY <2>3, <2>4
<1>6. ReadersSeeWholeTrees' /\ NeverWithoutTree' /\ FailureTellsTruth'
  BY <1>1, <1>2, <1>3 DEF ReadersSeeWholeTrees, NeverWithoutTree, FailureTellsTruth, Whole, T, S, R
<1>7. QED
  BY <1>4, <1>5, <1>6 DEF Inv

\* A call ends before its time.
LEMMA StopStep == Inv /\ (Fail \/ Interrupt \/ Kill) => Inv'
<1> SUFFICES ASSUME Inv, Fail \/ Interrupt \/ Kill PROVE Inv' OBVIOUS
<1>1. /\ at \in Working /\ disk' = disk /\ T' = T /\ S' = S /\ R' = R
      /\ n' = n /\ wants' = wants /\ found' = found /\ readers' = readers
  BY DEF Fail, Interrupt, Kill, Interruptible, call, T, S, R
<1>2. \/ at' = "killed"
      \/ at' = "interrupted" /\ at # "swap"
      \/ at' = "clear" /\ at \in Clearing
      \/ at' = "stage" /\ at = "make staging"
      \/ at' = "write" /\ at = "write files"
      \/ at' = "promote" /\ at \in {"retire", "swap"}
      \/ at' = "cleanup" /\ at = "clean up"
  BY DEF Fail, Operation, Interrupt, Kill, Interruptible, Working, Clearing
<1>3. at' \in Idle \ {"ok", "validate"}
  BY <1>2 DEF Idle
<1>4. TypeOK'
  BY <1>1, <1>3 DEF Inv, TypeOK
<1>5. TreesInPlace' /\ CallInOrder'
  BY <1>1, <1>3 DEF Inv, TreesInPlace, CallInOrder, Working, Idle
<1>6. ReadersSeeWholeTrees'
  BY <1>1 DEF Inv, ReadersSeeWholeTrees
<1>7. NeverWithoutTree'
  BY <1>1, <1>2 DEF Inv, NeverWithoutTree, TreesInPlace, Clearing, Working, T, R
<1>8. FailureTellsTruth'
  <2>1. /\ readers <= n
        /\ T # None => Whole(T) /\ T.by = readers
        /\ at \in Working \ {"clean up"} => readers < n
    BY DEF Inv, CallInOrder, ReadersSeeWholeTrees, T
  <2>2. at' \in {"clear", "stage", "write"} => T = found \/ (found = None /\ T # None /\ T.by < n)
    BY <1>1, <1>2, <2>1 DEF Inv, CallInOrder, Clearing, Working
  <2>3. at' = "interrupted" => T # None \/ found = None
    BY <1>1, <1>2 DEF Inv, CallInOrder, TreesInPlace, Working
  <2>4. at' = "promote" => /\ Whole(S) /\ S.by = n
                          /\ \/ T = found \/ (found = None /\ T # None /\ T.by < n)
                             \/ T = None /\ Whole(R)
    <3>1. CASE at = "retire"
      BY <1>2, <3>1, <2>1 DEF Inv, CallInOrder, TreesInPlace, Whole, Working
    <3>2. CASE at = "swap"
      BY <1>2, <3>2 DEF Inv, CallInOrder, TreesInPlace, NeverWithoutTree, Whole, T, S, R
    <3>3. QED
      BY <1>2, <3>1, <3>2
  <2>5. at' = "cleanup" => T # None /\ T.by = n
    BY <1>2 DEF Inv, TreesInPlace
  <2>6. QED
    BY <1>1, <1>3, <2>2, <2>3, <2>4, <2>5 DEF FailureTellsTruth, Idle, T, S, R
<1>9. QED
  BY <1>4, <1>5, <1>6, <1>7, <1>8 DEF Inv

LEMMA StepInv == Inv /\ [Next]_vars => Inv'
<1> SUFFICES ASSUME Inv, [Next]_vars PROVE Inv' OBVIOUS
<1>1. CASE UNCHANGED vars
  <2>1. UNCHANGED <<disk, at, n, wants, found, readers, T, S, R>>
    BY <1>1 DEF vars, call, T, S, R
  <2>2. TypeOK' /\ TreesInPlace' /\ CallInOrder'
    BY <2>1 DEF Inv, TypeOK, TreesInPlace, CallInOrder, Whole
  <2>3. ReadersSeeWholeTrees' /\ NeverWithoutTree' /\ FailureTellsTruth'
    BY <2>1 DEF Inv, ReadersSeeWholeTrees, NeverWithoutTree, FailureTellsTruth, Whole
  <2>4. QED
    BY <2>2, <2>3 DEF Inv
<1>2. ASSUME NEW files \in SUBSET (Files \cup Escaping), Write(files) PROVE Inv'
  BY <1>2, WriteStep
<1>3. CASE Next
  BY <1>2, <1>3, ClearStagingStep, RestoreStep, ClearRetiredStep, StagingStep, AllWrittenStep,
     RetireStep, SwapStep, CleanUpStep, StopStep DEF Next
<1>4. QED
  BY <1>1, <1>3

\* Readers of a directory that is replaced again and again find whole trees,
\* never an older one after a newer one, and there always is one to go back
\* to; a call that fails says where: whatever is interrupted, killed or fails.
THEOREM DirectoryAlwaysWhole == Spec => []DirectoryIsReplaced
<1>1. Inv => DirectoryIsReplaced
  BY DEF Inv, DirectoryIsReplaced
<1>2. QED
  BY InitInv, StepInv, <1>1, PTL DEF Spec
===============================================================================
