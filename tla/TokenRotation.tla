---------------------------- MODULE TokenRotation ---------------------------
(* The rotating client of the github package (makeRotatingClient in          *)
(* packages/github/src/GitHubApp.ts): a credential that is re-minted before  *)
(* it expires, by one caller at a time, and revoked when it is replaced or   *)
(* the scope closes.  Tokens live at GitHub: a mint or a revocation that     *)
(* fails here may have been carried out there.                               *)
EXTENDS Naturals, Sequences

CONSTANTS
  Callers,
  Builder,     \* the fiber that builds the layer, which mints first
  Lifetime,    \* of a token
  Skew,        \* how long before its expiry a token counts as spent
  MaxClock,    \* bound: the time
  MaxTokens    \* bound: tokens minted

VARIABLES
  clock,
  tokens,    \* GitHub's: the expiry of each token and when it was revoked, if ever
  held,      \* the token the client holds, or 0
  scope,     \* of the layer: "building", "open", "closed"
  caller,    \* where each fiber is, and the token it was served
  excused    \* history: tokens that a failure, an interrupt or a late caller let go

vars == <<clock, tokens, held, scope, caller, excused>>

Fibers == Callers \cup {Builder}
Never == 0

Init ==
  /\ clock = 1 /\ tokens = <<>> /\ held = 0 /\ scope = "building" /\ excused = {}
  /\ caller = [c \in Fibers |-> [pc |-> IF c = Builder THEN "releasing" ELSE "idle",
                                 token |-> 0]]

IsSpent(t) == clock + Skew >= tokens[t].expiry
At(c, pc, t) == caller' = [caller EXCEPT ![c] = [pc |-> pc, token |-> t]]

\* live, before any lock is asked for.
Use(c) ==
  /\ caller[c].pc = "idle" /\ scope = "open"
  /\ IF held # 0 /\ ~IsSpent(held) THEN At(c, "served", held) ELSE At(c, "waiting", 0)
  /\ UNCHANGED <<clock, tokens, held, scope, excused>>

Served(c) ==
  /\ caller[c].pc = "served" /\ At(c, "idle", 0)
  /\ UNCHANGED <<clock, tokens, held, scope, excused>>

\* The permit is with the caller that looks again or rotates.
InRotation == {"rechecking", "releasing", "minting", "granted"}
\* No lock at all.
NoPermit == TRUE
Permit == \A c \in Callers : caller[c].pc \notin InRotation

TakePermit(c) ==
  /\ caller[c].pc = "waiting" /\ Permit
  /\ At(c, "rechecking", 0)
  /\ UNCHANGED <<clock, tokens, held, scope, excused>>

\* A caller that waited rotates whatever was done meanwhile.
RecheckNever == FALSE
Recheck == held # 0 /\ ~IsSpent(held)

LookAgain(c) ==
  /\ caller[c].pc = "rechecking"
  /\ IF Recheck THEN At(c, "served", held) ELSE At(c, "releasing", 0)
  /\ UNCHANGED <<clock, tokens, held, scope, excused>>

\* DELETE /installation/token; a failure is ignored, and one of a token that is
\* revoked already changes nothing.
Revoked(t, done) ==
  IF done /\ tokens[t].revoked = Never THEN [tokens EXCEPT ![t].revoked = clock] ELSE tokens
RevokeHeld(done) ==
  /\ tokens' = IF held = 0 THEN tokens ELSE Revoked(held, done)
  /\ excused' = IF held = 0 \/ done THEN excused ELSE excused \cup {held}

Release(c) ==
  /\ caller[c].pc = "releasing"
  /\ \E done \in BOOLEAN : RevokeHeld(done)
  /\ At(c, "minting", 0)
  /\ UNCHANGED <<clock, held, scope>>

\* GitHub mints; nobody holds what it mints after the scope has closed.
Grant(c) ==
  /\ caller[c].pc = "minting" /\ Len(tokens) < MaxTokens
  /\ tokens' = Append(tokens, [expiry |-> clock + Lifetime, revoked |-> Never])
  /\ At(c, "granted", Len(tokens'))
  /\ excused' = IF scope = "closed" THEN excused \cup {Len(tokens')} ELSE excused
  /\ UNCHANGED <<clock, held, scope>>

\* The response arrives and is held; the builder registers its finalizer.
Install(c) ==
  /\ caller[c].pc = "granted"
  /\ held' = caller[c].token
  /\ At(c, "served", caller[c].token)
  /\ scope' = IF c = Builder THEN "open" ELSE scope
  /\ UNCHANGED <<clock, tokens, excused>>

\* The mint fails, its response is lost or its caller is interrupted; a build
\* that fails leaves no layer.
Fail(c) ==
  /\ caller[c].pc \in InRotation \cup {"waiting"}
  /\ At(c, IF c = Builder THEN "gone" ELSE "idle", 0)
  /\ excused' = excused \cup ({caller[c].token} \ {0})
  /\ scope' = IF c = Builder THEN "closed" ELSE scope
  /\ UNCHANGED <<clock, tokens, held>>

\* The finalizer; a rotation that is under way is not waited for.
Close ==
  /\ scope = "open" /\ scope' = "closed"
  /\ \E done \in BOOLEAN :
       /\ tokens' = Revoked(held, done)
       /\ excused' = excused \cup (IF done THEN {} ELSE {held})
                             \cup {caller[c].token : c \in {d \in Callers : caller[d].pc = "granted"}}
  /\ UNCHANGED <<clock, held, caller>>

Tick ==
  /\ clock < MaxClock /\ clock' = clock + 1
  /\ UNCHANGED <<tokens, held, scope, caller, excused>>

Next ==
  \/ \E c \in Fibers : Release(c) \/ Grant(c) \/ Install(c) \/ Fail(c) \/ Served(c)
  \/ \E c \in Callers : Use(c) \/ TakePermit(c) \/ LookAgain(c)
  \/ Close \/ Tick

Spec == Init /\ [][Next]_vars

------------------------------------------------------------------------------

TypeOK ==
  /\ \A t \in DOMAIN tokens : tokens[t].expiry \in Nat /\ tokens[t].revoked \in Nat
  /\ held \in 0..Len(tokens) /\ excused \subseteq DOMAIN tokens
  /\ \A c \in Fibers : caller[c].token \in 0..Len(tokens)

Live == {t \in DOMAIN tokens : tokens[t].revoked = Never /\ clock < tokens[t].expiry}

\* At most one credential is live at a time and none outlives the scope, but
\* for those a failure or an interrupt let go: callers that find the credential
\* spent together do not each mint (GitHubApp.ts:1064-1069).
OneLive ==
  /\ \A s, t \in Live \ excused : s = t
  /\ scope = "closed" => Live \subseteq excused

\* While the scope is open a credential is revoked only when it is spent: no
\* caller's rotation takes the one that another has just installed.
RevokedWhenSpent ==
  scope # "closed" =>
    \A t \in DOMAIN tokens :
      tokens[t].revoked # Never => tokens[t].revoked + Skew >= tokens[t].expiry
==============================================================================
