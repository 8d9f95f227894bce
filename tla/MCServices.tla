----------------------------- MODULE MCServices -----------------------------
(* Components that share nothing, each small enough to be explored with    *)
(* the others in one run: a behaviour is of one of them, the scene.        *)
EXTENDS AtomicDirectory, TLC

CONSTANTS p1, p2

Processes == {p1, p2}
ProcessSymmetry == Permutations(Processes)

VARIABLES scene,
  keyClock, since, store, attempt, last, fiber, fetched, failed,
  appClock, tokens, held, scope, caller, excused,
  document, late, checks, version, reporter, latch, daemon, pass, written, runScope,
  unsettled, astray,
  kinds, hub, finalTaken, inbox, pump, control, work, dirty, folded, runs, going, permit,
  throws, closing, owed

\* Two fibers, of two processes or of one, where fetches fail as well, and one
\* rotation of the issuer's keys.
Apart == INSTANCE JwksResolver WITH
  clock <- keyClock, Fibers <- Processes, Resolvers <- Processes,
  ResolverOf <- [p \in Processes |-> p], Ttl <- 2, MinRefetch <- 2, MayFail <- FALSE,
  MaxGeneration <- 2, MaxClock <- 3
Together == INSTANCE JwksResolver WITH
  clock <- keyClock, Fibers <- Processes, Resolvers <- {1},
  ResolverOf <- [p \in Processes |-> 1], Ttl <- 2, MinRefetch <- 2, MayFail <- TRUE,
  MaxGeneration <- 2, MaxClock <- 3

\* Two callers beside the builder, four tokens.
App == INSTANCE TokenRotation WITH
  clock <- appClock,
  Callers <- Processes, Builder <- 0, Lifetime <- 3, Skew <- 1, MaxClock <- 5, MaxTokens <- 4

\* One run of three reports; other runs are the next module's.
Document == INSTANCE CheckDocument WITH
  scope <- runScope,
  Runs <- {1}, States <- {"a", "b"}, Readable <- TRUE, MaxReports <- 3, Fresh <- "fresh"

\* A run that ends and another one, a second start in one run, an event that
\* kills the fold; one frame that throws.
View == INSTANCE LiveView WITH
  Scripts <- {<<"start", "terminal", "start">>, <<"start", "start">>, <<"start", "bad">>},
  MaxThrows <- 1, Interactive <- TRUE, Hosted <- FALSE

keyVars == <<keyClock, since, store, attempt, last, fiber, fetched, failed>>
appVars == <<appClock, tokens, held, scope, caller, excused>>
runVars == <<document, late, checks, version, reporter, latch, daemon, pass, written, runScope,
             unsettled, astray>>
viewVars == <<kinds, hub, finalTaken, inbox, pump, control, work, dirty, folded, runs, going,
              permit, throws, closing, owed>>

MCInit ==
  /\ scene \in {"directory", "apart", "together", "app", "document", "view"}
  /\ IF scene = "together" THEN Together!Init ELSE Apart!Init
  /\ Init /\ App!Init /\ Document!Init /\ View!Init

Others(s) ==
  /\ UNCHANGED scene
  /\ IF s = "directory" THEN TRUE ELSE UNCHANGED vars
  /\ IF s = "resolver" THEN TRUE ELSE UNCHANGED keyVars
  /\ IF s = "app" THEN TRUE ELSE UNCHANGED appVars
  /\ IF s = "document" THEN TRUE ELSE UNCHANGED runVars
  /\ IF s = "view" THEN TRUE ELSE UNCHANGED viewVars

MCNext ==
  \/ scene = "directory" /\ Next /\ Others("directory")
  \/ scene = "apart" /\ Apart!Next /\ Others("resolver")
  \/ scene = "together" /\ Together!Next /\ Others("resolver")
  \/ scene = "app" /\ App!Next /\ Others("app")
  \/ scene = "document" /\ Document!Next /\ Others("document")
  \/ scene = "view" /\ View!Next /\ Others("view")

MCSpec == MCInit /\ [][MCNext]_<<scene, vars, keyVars, appVars, runVars, viewVars>>

\* See JwksResolver: a key that was dropped stays dropped.
KeysStayRevoked ==
  IF scene = "together"
  THEN Together!TypeOK /\ Together!NoKeyReadmitted /\ Together!RevokedKeyStops
  ELSE Apart!TypeOK /\ Apart!NoKeyReadmitted /\ Apart!RevokedKeyStops

\* See JwksResolver: a flood of unknown keys is gated, a rotation gets through.
RefetchesAreGated ==
  IF scene = "together"
  THEN Together!FloodIsGated /\ Together!RotationPickedUp
  ELSE Apart!FloodIsGated /\ Apart!RotationPickedUp

\* See TokenRotation: one credential at a time, and none left behind.
CredentialsAccountedFor == App!TypeOK /\ App!OneLive /\ App!RevokedWhenSpent

\* See CheckDocument: at rest the document shows the last report.
DocumentIsCurrent == Document!TypeOK /\ Document!DocumentIsCurrent

\* See LiveView: what is published is folded once, and all of it.
FoldsOnce == View!TypeOK /\ View!FoldsOnce

\* See LiveView: the last frame stands and the terminal is given back.
LeavesTerminal == View!LeavesTerminal
=============================================================================
