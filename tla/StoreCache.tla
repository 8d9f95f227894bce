----------------------------- MODULE StoreCache -----------------------------
(* The cache of the store package (packages/store/src/Cache.ts): entries in  *)
(* one SQLite table that the fibers of several processes use.  A statement   *)
(* or a transaction is one step.  What interleaves are the steps of one      *)
(* call: a write takes its time before its transaction, and a read that      *)
(* found an entry expired deletes it in a second statement, by key.          *)
EXTENDS Naturals, FiniteSetsExt, Functions

CONSTANTS
  Readers,     \* fibers that read
  Writers,     \* fibers that write
  Keys,
  Tagged,      \* the keys whose entries carry the tag
  Ttls,        \* the lifetimes a write may ask for
  MaxEntries,  \* the option of that name, the same in every process
  MaxClock,    \* bound: the time
  MaxRowid     \* bound: rowids

VARIABLES
  rows,      \* the table: of every key it holds, the rowid and the expiry
  clock,
  call,      \* what each fiber is doing
  written,   \* history: of every key, its last write and the keys written since
  removed,   \* history: the keys whose last write a removal took
  overtaken  \* history: the keys whose last write met a pending deletion

vars == <<rows, clock, call, written, removed, overtaken>>

Idle == [op |-> "none", key |-> <<>>, until |-> 0]

Nothing == [key \in {} |-> 0]

Init ==
  /\ rows = Nothing /\ clock = 1
  /\ call = [f \in Readers \cup Writers |-> Idle]
  /\ written = Nothing /\ removed = {} /\ overtaken = {}

Held == DOMAIN rows
Without(table, keys) == Restrict(table, DOMAIN table \ keys)
Expired(entry) == entry.until <= clock

\* set: the expiry is reckoned from the time the call begins.
BeginSet(f, key, ttl) ==
  /\ call[f] = Idle
  /\ call' = [call EXCEPT ![f] = [op |-> "set", key |-> key, until |-> clock + ttl]]
  /\ UNCHANGED <<rows, clock, written, removed, overtaken>>

\* A table's next rowid: one more than the largest.
NextRowid(table) == 1 + Max({0} \cup {table[key].rowid : key \in DOMAIN table})

\* Mutated form of Minted: a row that is written again keeps its rowid.
KeptRowid(table, key) == IF key \in DOMAIN table THEN table[key].rowid ELSE NextRowid(table)

\* INSERT OR REPLACE mints a rowid whether or not it replaces a row.
Minted(table, key) == NextRowid(table)
Replaced(table, key, until) ==
  [k \in DOMAIN table \cup {key} |->
     IF k = key THEN [rowid |-> Minted(table, key), until |-> until] ELSE table[k]]

\* ORDER BY rowid DESC LIMIT -1 OFFSET maxEntries
Above(table, key) == {k \in DOMAIN table : table[k].rowid > table[key].rowid}
Excess(table) == {key \in DOMAIN table : Cardinality(Above(table, key)) >= MaxEntries}

Noted(key, until) ==
  [k \in DOMAIN written \cup {key} |->
     IF k = key THEN [until |-> until, since |-> {}]
     ELSE [written[k] EXCEPT !.since = @ \cup {key}]]

Set(f) ==
  LET key == call[f].key
      table == Replaced(rows, key, call[f].until)
      pending == \E g \in Readers : call[g].op = "expire" /\ call[g].key = key
  IN  /\ call[f].op = "set"
      /\ table[key].rowid <= MaxRowid
      /\ rows' = Without(table, Excess(table))
      /\ written' = Noted(key, call[f].until)
      /\ overtaken' = IF pending THEN overtaken \cup {key} ELSE overtaken \ {key}
      /\ removed' = removed \ {key}
      /\ call' = [call EXCEPT ![f] = Idle]
      /\ UNCHANGED clock

\* get and has: the row they find is there to be used, or has expired.  The
\* clock is read after the row; time that passes in between only lets a read
\* find the row expired later than it could.
Read(f, key) ==
  /\ call[f] = Idle
  /\ key \in Held /\ Expired(rows[key])
  /\ call' = [call EXCEPT ![f] = [op |-> "expire", key |-> key, until |-> 0]]
  /\ UNCHANGED <<rows, clock, written, removed, overtaken>>

\* DELETE by key: whatever the key holds by now.
Expire(f) ==
  /\ call[f].op = "expire"
  /\ rows' = Without(rows, {call[f].key})
  /\ call' = [call EXCEPT ![f] = Idle]
  /\ UNCHANGED <<clock, written, removed, overtaken>>

\* A call fails or is interrupted, or its process dies, between two steps.
Quit(f) ==
  /\ call[f] # Idle
  /\ call' = [call EXCEPT ![f] = Idle]
  /\ UNCHANGED <<rows, clock, written, removed, overtaken>>

\* The removals are one transaction with the caller's onRemoved inside it; one
\* that fails has removed nothing and is no step here.
Clear(keys) ==
  /\ keys # {}
  /\ rows' = Without(rows, keys)
  /\ removed' = removed \cup keys
  /\ UNCHANGED <<clock, call, written, overtaken>>

Invalidate(key) == Clear({key} \cap Held)
InvalidateByTag == Clear(Tagged \cap Held)
InvalidateAll == Clear(Held)

Sweepable == {key \in Held : Expired(rows[key])}

\* prune; what it takes has expired, which is reason enough.
Prune ==
  /\ Sweepable # {}
  /\ rows' = Without(rows, Sweepable)
  /\ UNCHANGED <<clock, call, written, removed, overtaken>>

Tick ==
  /\ clock < MaxClock
  /\ clock' = clock + 1
  /\ UNCHANGED <<rows, call, written, removed, overtaken>>

Next ==
  \/ \E f \in Writers :
       Set(f) \/ Quit(f) \/ \E key \in Keys, ttl \in Ttls : BeginSet(f, key, ttl)
  \/ \E f \in Readers : Expire(f) \/ Quit(f) \/ \E key \in Keys : Read(f, key)
  \/ \E key \in Keys : Invalidate(key)
  \/ InvalidateByTag \/ InvalidateAll \/ Prune \/ Tick

Spec == Init /\ [][Next]_vars

------------------------------------------------------------------------------

\* The table stays within its bound, and what is in it has been written.
TypeOK ==
  /\ Cardinality(Held) <= MaxEntries
  /\ \A key, other \in Held : rows[key].rowid = rows[other].rowid => key = other
  /\ Held \cup removed \cup overtaken \subseteq DOMAIN written

\* The keys whose entry nobody has a reason to give up: not expired, not
\* removed, and followed by writes of too few other keys to be the oldest.
Wanted ==
  {key \in DOMAIN written :
     /\ Cardinality(written[key].since) < MaxEntries
     /\ ~Expired(written[key])
     /\ key \notin removed}

\* An entry leaves the table for a reason and is the last one written, through
\* every interleaving of writes, evictions and reads that delete what they
\* found expired, except that such a read may take a write that came between
\* its two statements (Cache.ts:509).
NothingLost ==
  \A key \in Wanted \ overtaken : key \in Held /\ rows[key].until = written[key].until
==============================================================================
