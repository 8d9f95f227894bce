--------------------------- MODULE AtomicDirectory ---------------------------
(***************************************************************************)
(* files/src/AtomicDirectory.ts: a whole directory is replaced by staging  *)
(* the new tree beside it and swapping the two with renames.  A call may   *)
(* be interrupted, its process may be killed between any two file system   *)
(* calls, and any file system call may fail, a recursive removal half way. *)
(* Calls for one root come one after the other, as the code asks, and a    *)
(* file system call that was interrupted does nothing more.                *)
(*                                                                         *)
(* A tree is the call that wrote it, the files it is to hold and those     *)
(* that are on disk.                                                       *)
(***************************************************************************)
EXTENDS Naturals

CONSTANTS Files,      \* paths that stay inside the directory
          Escaping,   \* paths that are empty, absolute or climb out of it
          MaxCalls,   \* bound: calls of write
          None        \* no tree

Tree == [by : 1 .. MaxCalls, wants : SUBSET Files, holds : SUBSET Files]
Whole(tree) == tree # None /\ tree.holds = tree.wants
Holding(tree, files) == [tree EXCEPT !.holds = files]

ASSUME MaxCallsAssumption == MaxCalls \in Nat
ASSUME NoneIsNoTree == None \notin Tree

VARIABLES disk,       \* the trees called target, staging and retired
          at,         \* where the call is that is under way, or how the last one ended
          n, wants,   \* its number and the files it was given
          found,      \* history: the target when it began
          readers     \* history: the newest tree a reader may have found at the target

call == <<n, wants, found>>
vars == <<disk, at, call, readers>>

Places == {"target", "staging", "retired"}
Idle == {"ok", "validate", "clear", "stage", "write", "promote", "cleanup", "interrupted", "killed"}
Working == {"clear staging", "look", "clear retired", "make staging", "write files", "retire", "swap", "clean up"}

Init ==
  /\ disk = [p \in Places |-> None]
  /\ at = "ok"
  /\ n = 0 /\ wants = {} /\ found = None
  /\ readers = 0

\* A call: the root is taken to be a proper one, the paths are validated
\* before anything is touched.
Write(files) ==
  /\ at \in Idle
  /\ n < MaxCalls
  /\ n' = n + 1
  /\ wants' = files
  /\ found' = disk["target"]
  /\ at' = IF files \cap Escaping # {} THEN "validate" ELSE "clear staging"
  /\ UNCHANGED <<disk, readers>>

\* fs.remove, recursive: the files go one at a time, then the directory, and
\* only then does the call go on.  force: nothing there is no failure.
Remove(p, now, next) ==
  /\ at = now
  /\ IF disk[p] # None /\ disk[p].holds # {}
     THEN /\ \E f \in disk[p].holds : disk' = [disk EXCEPT ![p] = Holding(disk[p], disk[p].holds \ {f})]
          /\ at' = at
     ELSE /\ disk' = [disk EXCEPT ![p] = None]
          /\ at' = next
  /\ UNCHANGED <<call, readers>>

ClearStaging == Remove("staging", "clear staging", "look")

\* A tree is renamed to the target, where readers find it.
Appears(p) ==
  /\ disk' = [disk EXCEPT !["target"] = disk[p], ![p] = None]
  /\ readers' = disk[p].by

\* Mutated form of Stranded: what is retired is always an old tree to remove.
NeverStranded == FALSE

\* A run that stopped between its two renames: the old tree goes back.
Stranded == disk["retired"] # None /\ disk["target"] = None
Restore ==
  /\ at = "look"
  /\ at' = "clear retired"
  /\ IF Stranded THEN Appears("retired") ELSE UNCHANGED <<disk, readers>>
  /\ UNCHANGED call

ClearRetired == Remove("retired", "clear retired", "make staging")

MakeStaging ==
  /\ at = "make staging"
  /\ disk' = [disk EXCEPT !["staging"] = [by |-> n, wants |-> wants, holds |-> {}]]
  /\ at' = "write files"
  /\ UNCHANGED <<call, readers>>

\* One file after the other: a file counts as held once it is written whole.
WriteOne(f) ==
  /\ at = "write files"
  /\ f \in wants \ disk["staging"].holds
  /\ disk' = [disk EXCEPT !["staging"] = Holding(disk["staging"], disk["staging"].holds \cup {f})]
  /\ UNCHANGED <<at, call, readers>>

AllWritten ==
  /\ at = "write files"
  /\ disk["staging"].holds = wants
  /\ at' = "retire"
  /\ UNCHANGED <<disk, call, readers>>

\* The two renames, which no interrupt separates.
Retire ==
  /\ at = "retire"
  /\ at' = "swap"
  /\ IF disk["target"] # None
     THEN disk' = [disk EXCEPT !["retired"] = disk["target"], !["target"] = None]
     ELSE UNCHANGED disk
  /\ UNCHANGED <<call, readers>>

Swap ==
  /\ at = "swap"
  /\ at' = "clean up"
  /\ Appears("staging")
  /\ UNCHANGED call

CleanUp == Remove("retired", "clean up", "ok")

\* A file system call fails: the step it is part of names the failure.
Operation ==
  CASE at \in {"clear staging", "look", "clear retired"} -> "clear"
    [] at = "make staging" -> "stage"
    [] at = "write files" -> "write"
    [] at \in {"retire", "swap"} -> "promote"
    [] at = "clean up" -> "cleanup"

Fail ==
  /\ at \in Working
  /\ at' = Operation
  /\ UNCHANGED <<disk, call, readers>>

\* Mutated form of Interruptible: the promotion is not one unit.
InterruptibleAnywhere == at \in Working

\* The fiber is interrupted: not in the promotion, which is one unit.
Interruptible == at \in Working \ {"swap"}
Interrupt ==
  /\ Interruptible
  /\ at' = "interrupted"
  /\ UNCHANGED <<disk, call, readers>>

\* The process is killed.
Kill ==
  /\ at \in Working
  /\ at' = "killed"
  /\ UNCHANGED <<disk, call, readers>>

Next ==
  \/ \E files \in SUBSET (Files \cup Escaping) : Write(files)
  \/ ClearStaging \/ Restore \/ ClearRetired \/ MakeStaging
  \/ \E f \in Files : WriteOne(f)
  \/ AllWritten \/ Retire \/ Swap \/ CleanUp
  \/ Fail \/ Interrupt \/ Kill

Spec == Init /\ [][Next]_vars

TypeOK ==
  /\ disk \in [Places -> Tree \cup {None}]
  /\ at \in Idle \cup Working
  /\ n \in 0 .. MaxCalls
  /\ wants \subseteq Files \cup Escaping
  /\ found \in Tree \cup {None}
  /\ readers \in 0 .. MaxCalls

\* A reader finds the old tree, the new one or none, never a part of one, and
\* what it finds never goes back to an older tree: through crashes, failed
\* calls and the repairs that later calls make.
ReadersSeeWholeTrees ==
  disk["target"] # None => Whole(disk["target"]) /\ disk["target"].by = readers

\* Once there was a tree there always is one, at the target or, between the
\* two renames and after a stop there, retired and whole; from the moment a
\* later call has looked, it is at the target again.
NeverWithoutTree ==
  readers # 0 /\ disk["target"] = None =>
    /\ Whole(disk["retired"]) /\ disk["retired"].by = readers
    /\ at \in {"swap", "promote", "killed", "validate", "clear staging", "look", "clear", "interrupted"}

\* What a call that failed or was interrupted says about the target is so
\* (AtomicDirectory.ts:28-45): untouched, or restored; absent with both trees
\* whole; or the new tree.
FailureTellsTruth ==
  LET target == disk["target"]
      untouched == target = found \/ (found = None /\ target # None /\ target.by < n)
  IN /\ at = "validate" => target = found
     /\ at \in {"clear", "stage", "write"} => untouched
     /\ at = "interrupted" => target # None \/ found = None
     /\ at = "promote" =>
          /\ Whole(disk["staging"]) /\ disk["staging"].by = n
          /\ untouched \/ (target = None /\ Whole(disk["retired"]))
     /\ at \in {"cleanup", "ok"} /\ n # 0 => target # None /\ target.by = n

\* In one: what replacing a directory promises its readers and its caller.
DirectoryIsReplaced == ReadersSeeWholeTrees /\ NeverWithoutTree /\ FailureTellsTruth
=============================================================================
