---------------------------- MODULE JwksResolver ----------------------------
(* The key resolver of the jwt package (packages/jwt/src/JwksResolver.ts).   *)
(* An issuer rotates its keys; resolvers, one to a process, serve tokens     *)
(* from a shared store that may lag, forget and fail, and from their own     *)
(* copy of their last fetch, and refetch one at a time and not too often.    *)
(*                                                                           *)
(* One issuer: everything is kept per issuer.  Its keys are numbered in the  *)
(* order of their introduction, and each generation of its set has one of    *)
(* them.  Discovery, the network and decoding are one response, which may    *)
(* fail.                                                                     *)
EXTENDS Integers, FiniteSetsExt

CONSTANTS
  Fibers,
  Resolvers,
  ResolverOf,     \* the resolver a fiber asks
  Ttl,
  MinRefetch,     \* minRefetchInterval
  MayFail,        \* whether a fetch may fail
  MaxGeneration,  \* bound: generations of the issuer's set
  MaxClock        \* bound: the time

VARIABLES
  clock,
  since,    \* when each generation of the issuer's set came up
  store,    \* every set that was ever stored: a read may find any of them
  attempt,  \* lastAttemptMillis of each resolver
  last,     \* its last successful fetch
  fiber,    \* what each fiber is doing
  fetched,  \* history: what each resolver fetched
  failed    \* history: when its attempts were made that came to nothing

vars == <<clock, since, store, attempt, last, fiber, fetched, failed>>

Never == -(Ttl + MinRefetch)   \* -Infinity: longer ago than either duration
NoSet == [generation |-> 0, at |-> Never, ended |-> Never]
Idle == [pc |-> "idle", kid |-> 0, now |-> 0, knew |-> Never, set |-> NoSet]

Kids == 1..MaxGeneration   \* made up, as long as the issuer has no such key

Generation == Cardinality(DOMAIN since)
HasKey(set, kid) == kid = set.generation

Init ==
  /\ clock = 1 /\ since = [g \in {1} |-> 1]
  /\ store = {}
  /\ attempt = [r \in Resolvers |-> Never]
  /\ last = [r \in Resolvers |-> NoSet]
  /\ fiber = [c \in Fibers |-> Idle]
  /\ fetched = [r \in Resolvers |-> {}]
  /\ failed = [r \in Resolvers |-> {}]

Fresh(set, now) == now - set.at < Ttl

\* storedFor: a store that fails, or has only what has expired, has nothing.
StoredFor(now) == {NoSet} \cup {set \in store : Fresh(set, now)}

\* lastFor.
LastFor(r, now) == IF Fresh(last[r], now) THEN last[r] ELSE NoSet

\* The store's set whenever it has one.
StoredFirst(stored, own) == IF stored.generation # 0 THEN stored ELSE own
\* matchIn consults the newer of the two and only that.
Newest(stored, own) == IF stored.at > own.at THEN stored ELSE own

Locked(r) ==
  \E c \in Fibers : ResolverOf[c] = r /\ fiber[c].pc \in {"locked", "fetching", "saving"}

Unchanged == UNCHANGED <<clock, since, store, attempt, last, fetched, failed>>

\* For the history: when the last fetch that has come back began.
LatestFetch(r) == Max({Never} \cup {set.at : set \in fetched[r]})

\* key: the time is taken before the store is read.
Ask(c, kid) ==
  /\ fiber[c].pc \in {"idle", "accepted", "refused"}
  /\ fiber' = [fiber EXCEPT ![c] = [Idle EXCEPT !.pc = "reading", !.kid = kid, !.now = clock,
                                           !.knew = LatestFetch(ResolverOf[c])]]
  /\ Unchanged

Look(c) ==
  /\ fiber[c].pc = "reading"
  /\ \E stored \in StoredFor(fiber[c].now) :
       LET set == Newest(stored, LastFor(ResolverOf[c], fiber[c].now))
       IN  fiber' = [fiber EXCEPT ![c].pc = IF HasKey(set, fiber[c].kid)
                                            THEN "accepted" ELSE "waiting",
                                  ![c].set = set]
  /\ Unchanged

\* lockFor(issuer).withPermit
Lock(c) ==
  /\ fiber[c].pc = "waiting" /\ ~Locked(ResolverOf[c])
  /\ fiber' = [fiber EXCEPT ![c].pc = "locked", ![c].now = clock,
                            ![c].knew = LatestFetch(ResolverOf[c])]
  /\ Unchanged

\* A gate that a set in the store opens and closes.
GatedByStore(r, stored, now) == now - stored.at < MinRefetch
\* The gate counts from the resolver's last attempt, or from the newest set
\* the store had if that was fetched later.
Gated(r, stored, now) == now - attempt[r] < MinRefetch \/ now - stored.at < MinRefetch

\* A refusal that counts as an attempt.
RefusalCounts(r, now, gated) == now
\* The attempt is on record before the fetch begins, a refusal is not one.
AttemptAfter(r, now, gated) == IF gated THEN attempt[r] ELSE now

\* refresh up to the fetch.
Recheck(c) ==
  LET r == ResolverOf[c]
      now == fiber[c].now
  IN  /\ fiber[c].pc = "locked"
      /\ \E stored \in StoredFor(now) :
           LET set == Newest(stored, LastFor(r, now))
               hit == HasKey(set, fiber[c].kid)
               gated == Gated(r, stored, now)
           IN  /\ fiber' = [fiber EXCEPT ![c].set = set,
                                         ![c].pc = IF hit THEN "accepted"
                                                   ELSE IF gated THEN "refused"
                                                   ELSE "fetching"]
               /\ attempt' = IF hit THEN attempt
                           ELSE [attempt EXCEPT ![r] = AttemptAfter(r, now, gated)]
  /\ UNCHANGED <<clock, since, store, last, fetched, failed>>

\* The response: the issuer's set of this moment, dated by the time before the
\* fetch.
Fetch(c) ==
  LET r == ResolverOf[c]
      set == [generation |-> Generation, at |-> fiber[c].now, ended |-> clock]
  IN  /\ fiber[c].pc = "fetching"
      /\ last' = [last EXCEPT ![r] = set]
      /\ fetched' = [fetched EXCEPT ![r] = @ \cup {set}]
      /\ fiber' = [fiber EXCEPT ![c].pc = "saving", ![c].set = set]
      /\ UNCHANGED <<clock, since, store, attempt, failed>>

\* A failure that dates the last set anew.
Redated(r) == [last[r] EXCEPT !.at = attempt[r]]
\* A fetch that fails or times out leaves the last set as it is.
AfterFailure(r) == last[r]

FailFetch(c) ==
  /\ MayFail
  /\ fiber[c].pc = "fetching"
  /\ last' = [last EXCEPT ![ResolverOf[c]] = AfterFailure(ResolverOf[c])]
  /\ failed' = [failed EXCEPT ![ResolverOf[c]] = @ \cup {attempt[ResolverOf[c]]}]
  /\ fiber' = [fiber EXCEPT ![c] = Idle]
  /\ UNCHANGED <<clock, since, store, attempt, fetched>>

\* store.set, which may fail, and the answer.
Save(c) ==
  /\ fiber[c].pc = "saving"
  /\ \E kept \in BOOLEAN : store' = IF kept THEN store \cup {fiber[c].set} ELSE store
  /\ fiber' = [fiber EXCEPT ![c].pc = IF HasKey(fiber[c].set, fiber[c].kid)
                                      THEN "accepted" ELSE "refused"]
  /\ UNCHANGED <<clock, since, attempt, last, fetched, failed>>

\* The caller is interrupted; the lock is released.
Interrupt(c) ==
  /\ fiber[c].pc \in {"waiting", "locked", "saving"}
  /\ fiber' = [fiber EXCEPT ![c] = Idle]
  /\ Unchanged

Rotate ==
  /\ Generation < MaxGeneration
  /\ since' = [g \in 1..Generation + 1 |-> IF g \in DOMAIN since THEN since[g] ELSE clock]
  /\ UNCHANGED <<clock, store, attempt, last, fiber, fetched, failed>>

Tick ==
  /\ clock < MaxClock
  /\ clock' = clock + 1
  /\ UNCHANGED <<since, store, attempt, last, fiber, fetched, failed>>

Next ==
  \/ \E c \in Fibers :
       \/ \E kid \in Kids : Ask(c, kid)
       \/ Look(c) \/ Lock(c) \/ Recheck(c) \/ Fetch(c) \/ FailFetch(c) \/ Save(c)
       \/ Interrupt(c)
  \/ Rotate \/ Tick

Spec == Init /\ [][Next]_vars

------------------------------------------------------------------------------

\* When a key came into the issuer's set, and when it left.
Introduced(kid) == IF kid \in DOMAIN since THEN since[kid] ELSE MaxClock + 1
Dropped(kid) == IF kid + 1 \in DOMAIN since THEN since[kid + 1] ELSE MaxClock + 1

TypeOK ==
  /\ store \subseteq UNION {fetched[r] : r \in Resolvers}
  /\ \A r \in Resolvers : last[r] \in fetched[r] \cup {NoSet}
  /\ \A c \in Fibers : fiber[c].now <= clock

\* An older set never re-admits a key: what answers a token is never a set
\* that had arrived before the last fetch the resolver knew of began.  (Two
\* fetches that overlap may bring their sets in either order.)
NoKeyReadmitted ==
  \A c \in Fibers : fiber[c].pc = "accepted" => fiber[c].set.ended >= fiber[c].knew

\* A key that the issuer drops stops verifying once the TTL has passed, through
\* any store, however late its answers and however many refetches fail.
RevokedKeyStops ==
  \A c \in Fibers : fiber[c].pc = "accepted" =>
    fiber[c].now - Dropped(fiber[c].kid) < Ttl

\* Tokens with made-up keys do not make a resolver fetch more than once in an
\* interval, whatever fails.
FloodIsGated ==
  \A r \in Resolvers :
    LET times == {set.at : set \in fetched[r]} \cup failed[r]
    IN  /\ \A s, t \in times : s < t => t - s >= MinRefetch
        /\ Cardinality(fetched[r]) + Cardinality(failed[r]) = Cardinality(times)

\* But a rotation is picked up: a key that the issuer has had for as long as
\* the interval is refused only if a fetch came to nothing within it.
RotationPickedUp ==
  \A c \in Fibers : fiber[c].pc = "refused" =>
    \/ fiber[c].now - Introduced(fiber[c].kid) < MinRefetch
    \/ Dropped(fiber[c].kid) <= clock
    \/ \E t \in failed[ResolverOf[c]] : fiber[c].now - t < MinRefetch
==============================================================================
