--------------------------- MODULE CheckDocument ----------------------------
(* The reconciler of packages/github-actions/src/CheckDocument.ts: a run's   *)
(* reports go into a registry, a debounced daemon and explicit flushes       *)
(* project the registry onto one document, one pass at a time, and other     *)
(* runs do the same to the same document.  A run is its stamp: a larger one  *)
(* is more recent.  What is rendered from a registry is the registry; a      *)
(* document is what it shows and the most recent stamp on it.                *)
EXTENDS Naturals

CONSTANTS
  Runs,        \* a set of stamps, above 0
  States,      \* what a registry may come to
  Readable,    \* whether the sink has a read
  MaxReports,  \* bound: reports of one run
  Fresh        \* an empty registry and an empty document

VARIABLES
  document,   \* the live one, wherever the sink puts it
  late,       \* writes that timed out here and are still on their way there
  checks,     \* the registry of each run
  version,    \* how many reports it has had
  reporter,   \* how far the report that is being made has come
  latch,      \* whether the daemon's latch is open
  daemon,     \* what the daemon is doing and the version it saw before it slept
  pass,       \* the pass of each asker: how far it is, the registry it saw
  written,    \* the last text this run wrote
  scope,      \* "open", "closing" with the last flush to come, "closed"
  unsettled,  \* history: whether the last pass failed, was cut short or was stale
  astray      \* history: whether the run lost track of a write

vars == <<document, late, checks, version, reporter, latch, daemon, pass, written, scope,
          unsettled, astray>>
memory == <<version, latch, daemon, scope>>

NoPass == [pc |-> "idle", checks |-> Fresh]
\* Who may ask for a pass: the debounce fiber, callers of flush, the scope's end.
Askers == {"daemon", "caller", "finalizer"}

Init ==
  /\ document = [stamp |-> 0, shows |-> Fresh] /\ late = {}
  /\ checks = [r \in Runs |-> Fresh]
  /\ version = [r \in Runs |-> 0]
  /\ reporter = [r \in Runs |-> "idle"]
  /\ latch = [r \in Runs |-> FALSE]
  /\ daemon = [r \in Runs |-> [pc |-> "waiting", before |-> 0]]
  /\ pass = [r \in Runs |-> [who \in Askers |-> NoPass]]
  /\ written = [r \in Runs |-> document]
  /\ scope = [r \in Runs |-> "open"]
  /\ unsettled = [r \in Runs |-> FALSE]
  /\ astray = [r \in Runs |-> FALSE]

\* report: the registry, then the version, then the latch.
Report(r, s) ==
  /\ scope[r] = "open" /\ reporter[r] = "idle" /\ version[r] < MaxReports
  /\ checks' = [checks EXCEPT ![r] = s]
  /\ reporter' = [reporter EXCEPT ![r] = "recorded"]
  /\ UNCHANGED <<document, late, pass, written, unsettled, astray, memory>>

Count(r) ==
  /\ reporter[r] = "recorded"
  /\ version' = [version EXCEPT ![r] = @ + 1]
  /\ reporter' = [reporter EXCEPT ![r] = "counted"]
  /\ UNCHANGED <<document, late, checks, latch, daemon, pass, written, scope, unsettled, astray>>

Open(r) ==
  /\ reporter[r] = "counted"
  /\ latch' = [latch EXCEPT ![r] = TRUE]
  /\ reporter' = [reporter EXCEPT ![r] = "idle"]
  /\ UNCHANGED <<document, late, checks, version, daemon, pass, written, scope, unsettled, astray>>

DaemonGoes(r, pc, before) == daemon' = [daemon EXCEPT ![r] = [pc |-> pc, before |-> before]]

Wake(r) ==
  /\ daemon[r].pc = "waiting" /\ latch[r]
  /\ DaemonGoes(r, "woken", 0)
  /\ UNCHANGED <<document, late, checks, version, reporter, latch, pass, written, scope,
                 unsettled, astray>>

CloseLatch(r) ==
  /\ daemon[r].pc = "woken"
  /\ latch' = [latch EXCEPT ![r] = FALSE]
  /\ DaemonGoes(r, "settling", version[r])
  /\ UNCHANGED <<document, late, checks, version, reporter, pass, written, scope, unsettled, astray>>

\* A quiet window has passed: with no report in it, or with the time run out,
\* the pass is due.
Sleep(r) ==
  /\ daemon[r].pc = "settling"
  /\ \/ DaemonGoes(r, "due", 0)
     \/ version[r] # daemon[r].before /\ DaemonGoes(r, "settling", version[r])
  /\ UNCHANGED <<document, late, checks, version, reporter, latch, pass, written, scope,
                 unsettled, astray>>

\* The passes are not serialised.
NoGate(r, who) == pass[r][who] = NoPass
Gate(r, who) == \A other \in Askers : pass[r][other] = NoPass

Asks(r, who) ==
  CASE who = "daemon" -> daemon[r].pc = "due"
    [] who = "caller" -> scope[r] = "open"
    [] who = "finalizer" -> scope[r] = "closing"

Begin(r, who) ==
  /\ Asks(r, who) /\ Gate(r, who)
  /\ pass' = [pass EXCEPT ![r][who] = [pc |-> "reading", checks |-> checks[r]]]
  /\ UNCHANGED <<document, late, checks, reporter, written, unsettled, astray, memory>>

\* The daemon waits for its latch again whatever came of its pass.
End(r, who, settled) ==
  /\ pass' = [pass EXCEPT ![r][who] = NoPass]
  /\ unsettled' = [unsettled EXCEPT ![r] = ~settled]
  /\ daemon' = IF who = "daemon" THEN [daemon EXCEPT ![r].pc = "waiting"] ELSE daemon
  /\ scope' = IF who = "finalizer" THEN [scope EXCEPT ![r] = "closed"] ELSE scope

Rendered(r, who) == [stamp |-> r, shows |-> pass[r][who].checks]

\* The base, the drop rule and the comparison; a read that fails is Fail.
Read(r, who) ==
  LET current == IF Readable THEN document ELSE written[r]
  IN  /\ pass[r][who].pc = "reading"
      /\ \/ current.stamp > r /\ End(r, who, FALSE)
         \/ current = Rendered(r, who) /\ End(r, who, TRUE)
         \/ /\ current.stamp <= r /\ current # Rendered(r, who)
            /\ pass' = [pass EXCEPT ![r][who].pc = "writing"]
            /\ UNCHANGED <<unsettled, daemon, scope>>
      /\ UNCHANGED <<document, late, checks, version, reporter, latch, written, astray>>

Write(r, who) ==
  /\ pass[r][who].pc = "writing"
  /\ document' = Rendered(r, who)
  /\ written' = [written EXCEPT ![r] = Rendered(r, who)]
  /\ End(r, who, TRUE)
  /\ UNCHANGED <<late, checks, version, reporter, latch, astray>>

\* What becomes of a write that is given up: nothing, it was there already, or
\* it is still to come.
GiveUp(r, who) ==
  \/ UNCHANGED <<document, late, astray>>
  \/ /\ pass[r][who].pc = "writing"
     /\ \/ /\ document' = Rendered(r, who) /\ UNCHANGED late
           /\ astray' = [astray EXCEPT ![r] = @ \/ ~Readable]
        \/ /\ late' = late \cup {Rendered(r, who)} /\ UNCHANGED document
           /\ astray' = [astray EXCEPT ![r] = TRUE]

\* The read or the write fails or times out, or the caller is interrupted.
Fail(r, who) ==
  /\ pass[r][who] # NoPass
  /\ GiveUp(r, who) /\ End(r, who, FALSE)
  /\ UNCHANGED <<checks, version, reporter, latch, written>>

Land(w) ==
  /\ w \in late /\ late' = late \ {w} /\ document' = w
  /\ UNCHANGED <<checks, version, reporter, latch, daemon, pass, written, scope, unsettled, astray>>

\* The scope closes: the daemon is interrupted, with its pass, before the last
\* flush begins.
Close(r) ==
  /\ scope[r] = "open" /\ reporter[r] = "idle"
  /\ scope' = [scope EXCEPT ![r] = "closing"]
  /\ daemon' = [daemon EXCEPT ![r].pc = "dead"]
  /\ IF pass[r]["daemon"] = NoPass
     THEN UNCHANGED <<document, late, astray, pass, unsettled>>
     ELSE /\ GiveUp(r, "daemon")
          /\ pass' = [pass EXCEPT ![r]["daemon"] = NoPass]
          /\ unsettled' = [unsettled EXCEPT ![r] = TRUE]
  /\ UNCHANGED <<checks, version, reporter, latch, written>>

Next ==
  \/ \E r \in Runs :
       \/ \E s \in States : Report(r, s)
       \/ Count(r) \/ Open(r) \/ Wake(r) \/ CloseLatch(r) \/ Sleep(r)
       \/ Close(r)
       \/ \E who \in Askers :
            Begin(r, who) \/ Read(r, who) \/ Write(r, who) \/ Fail(r, who)
  \/ \E w \in late : Land(w)

Spec == Init /\ [][Next]_vars

------------------------------------------------------------------------------

TypeOK ==
  /\ document \in [stamp : Runs \cup {0}, shows : States \cup {Fresh}]
  /\ \A r \in Runs, who \in Askers :
       pass[r][who] = NoPass \/ \A other \in Askers \ {who} : pass[r][other] = NoPass
  /\ \A r \in Runs : scope[r] = "open" <=> daemon[r].pc # "dead"

\* No report is being made, none waits for the daemon, and no pass runs.
AtRest(r) ==
  /\ reporter[r] = "idle" /\ \A who \in Askers : pass[r][who] = NoPass
  /\ (daemon[r].pc = "waiting" /\ ~latch[r]) \/ scope[r] = "closed"

\* A run that has come to rest shows its last report, whenever reports came
\* between the daemon's steps and whoever flushed meanwhile, and a scope that
\* closed has flushed it; unless its last pass failed or was stale, or another
\* run wrote, or a write that the run gave up landed behind its back.
DocumentIsCurrent ==
  \A r \in Runs :
    AtRest(r) /\ ~unsettled[r] /\ ~astray[r] /\ document.stamp \in {0, r}
      => document.shows = checks[r]

\* "a delayed re-run can never clobber a newer run's regions"
\* (CheckDocument.ts:240-241).
NeverClobbers == [][document'.stamp >= document.stamp]_vars
==============================================================================
