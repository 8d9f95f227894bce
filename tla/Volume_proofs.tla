---------------------------- MODULE Volume_proofs ----------------------------
(***************************************************************************)
(* The in-memory volume, for any names and foldings, paths, links and      *)
(* settings, any number of inodes and descriptors: a directory never holds *)
(* two spellings of a name where case folds, and an open file stays.       *)
(*                                                                         *)
(* Both rest on one relation between the tree an operation is given and    *)
(* the one it makes (Keeps): names are added only where lookupEntry has    *)
(* found none that folds alike, and detaching, moving and overwriting      *)
(* leave every inode that is open.  makeDirectory and copy pass through    *)
(* many trees; each is kept by the next.  Which inode a path leads to is   *)
(* of no importance for either, so nothing is assumed about resolution.    *)
(***************************************************************************)
EXTENDS Volume, FiniteSetTheorems, WellFoundedInduction, TLAPS

\* A tree of inodes, of which each is what New makes.
IsNode(r) == r = [kind |-> r.kind, entries |-> r.entries, opens |-> r.opens, size |-> r.size,
                  nlink |-> r.nlink, target |-> r.target]
IsTree(t) == t = [i \in DOMAIN t |-> t[i]] /\ \A i \in DOMAIN t : IsNode(t[i])

\* No two entries of a directory are spellings of one name.
OneSpelled(t) ==
  ~caseSensitive =>
    \A i \in DOMAIN t : \A m, n \in DOMAIN t[i].entries : Folded[m] = Folded[n] => m = n

\* The entry may be made: there is none with another spelling of its name.
IsFree(t, d, name) ==
  ~caseSensitive /\ d \in DOMAIN t =>
    \A n \in DOMAIN t[d].entries : Folded[n] = Folded[name] => n = name

\* Every open file of t is one of u, and every one of u.
SameOpen(t, u) ==
  /\ \A i \in DOMAIN t : t[i].opens # 0 =>
       i \in DOMAIN u /\ u[i].opens = t[i].opens /\ u[i].kind = t[i].kind
  /\ \A i \in DOMAIN u : u[i].opens # 0 =>
       i \in DOMAIN t /\ u[i].opens = t[i].opens

----------------------------------------------------------------------------
LEMMA LeastExists ==
  ASSUME NEW S, S \subseteq Nat, S # {}
  PROVE  \E x \in S : \A y \in S : x <= y
<1>1. PICK x \in S : \A y \in S : ~(<<y, x>> \in OpToRel(<, Nat))
  BY NatLessThanWellFounded, WFMin
<1>2. \A y \in S : x <= y
  <2> SUFFICES ASSUME NEW y \in S PROVE x <= y
    OBVIOUS
  <2>1. x \in Nat /\ y \in Nat /\ ~(y < x)
    BY <1>1 DEF OpToRel
  <2>2. QED
    BY <2>1
<1>3. QED
  BY <1>2

LEMMA Fresh ==
  ASSUME NEW t, Unused(t) # {}
  PROVE  Min(Unused(t)) \in Inodes /\ Min(Unused(t)) \notin DOMAIN t
<1>1. Unused(t) \subseteq Nat
  BY VolumeAssumption DEF Unused
<1>2. \E x \in Unused(t) : \A y \in Unused(t) : x <= y
  BY <1>1, LeastExists
<1>3. Min(Unused(t)) \in Unused(t)
  BY <1>2 DEF Min
<1>4. QED
  BY <1>3 DEF Unused

LEMMA FreeWhenUnheld ==
  ASSUME NEW t, NEW d, NEW name, ~Holds(t, d, name)
  PROVE  IsFree(t, d, name)
BY DEF Holds, Stored, IsFree

LEMMA NodeEntries ==
  ASSUME NEW r, NEW x
  PROVE  \E new : /\ new = [r EXCEPT !.entries = x]
                  /\ IsNode(r) => IsNode(new) /\ new.kind = r.kind /\ new.entries = x /\ new.opens = r.opens
<1> DEFINE new == [kind |-> r.kind, entries |-> x, opens |-> r.opens, size |-> r.size,
                   nlink |-> r.nlink, target |-> r.target]
<1>1. IsNode(r) => new = [r EXCEPT !.entries = x]
  BY DEF IsNode
<1>2. IsNode(new)
  BY DEF IsNode
<1>3. CASE IsNode(r)
  BY <1>1, <1>2, <1>3
<1>4. CASE ~IsNode(r)
  BY <1>4
<1>5. QED
  BY <1>3, <1>4

LEMMA NodeNlink ==
  ASSUME NEW r, NEW x
  PROVE  \E new : /\ new = [r EXCEPT !.nlink = x]
                  /\ IsNode(r) => IsNode(new) /\ new.kind = r.kind /\ new.entries = r.entries /\ new.opens = r.opens
<1> DEFINE new == [kind |-> r.kind, entries |-> r.entries, opens |-> r.opens, size |-> r.size,
                   nlink |-> x, target |-> r.target]
<1>1. IsNode(r) => new = [r EXCEPT !.nlink = x]
  BY DEF IsNode
<1>2. IsNode(new)
  BY DEF IsNode
<1>3. CASE IsNode(r)
  BY <1>1, <1>2, <1>3
<1>4. CASE ~IsNode(r)
  BY <1>4
<1>5. QED
  BY <1>3, <1>4

LEMMA NodeSize ==
  ASSUME NEW r, NEW x
  PROVE  \E new : /\ new = [r EXCEPT !.size = x]
                  /\ IsNode(r) => IsNode(new) /\ new.kind = r.kind /\ new.entries = r.entries /\ new.opens = r.opens
<1> DEFINE new == [kind |-> r.kind, entries |-> r.entries, opens |-> r.opens, size |-> x,
                   nlink |-> r.nlink, target |-> r.target]
<1>1. IsNode(r) => new = [r EXCEPT !.size = x]
  BY DEF IsNode
<1>2. IsNode(new)
  BY DEF IsNode
<1>3. CASE IsNode(r)
  BY <1>1, <1>2, <1>3
<1>4. CASE ~IsNode(r)
  BY <1>4
<1>5. QED
  BY <1>3, <1>4

Reopened(r, opens, new) ==
  /\ new = [r EXCEPT !.opens = opens]
  /\ IsNode(r) => IsNode(new) /\ new.kind = r.kind /\ new.entries = r.entries /\ new.opens = opens

LEMMA NodeOpens ==
  ASSUME NEW r, NEW x
  PROVE  \E new : Reopened(r, x, new)
<1> DEFINE new == [kind |-> r.kind, entries |-> r.entries, opens |-> x, size |-> r.size,
                   nlink |-> r.nlink, target |-> r.target]
<1>1. IsNode(r) => new = [r EXCEPT !.opens = x]
  BY DEF IsNode
<1>2. IsNode(new)
  BY DEF IsNode
<1>3. CASE IsNode(r)
  BY <1>1, <1>2, <1>3 DEF Reopened
<1>4. CASE ~IsNode(r)
  BY <1>4 DEF Reopened
<1>5. QED
  BY <1>3, <1>4

\* What a node becomes when only its entries and its counts are written.
Rewritten(r, entries, new) ==
  IsNode(r) => /\ IsNode(new) /\ new.kind = r.kind /\ new.entries = entries
               /\ new.opens = r.opens

LEMMA NodeBoth ==
  ASSUME NEW r, NEW x, NEW y
  PROVE  Rewritten(r, x, [r EXCEPT !.entries = x, !.nlink = y])
<1>1. PICK a : /\ a = [r EXCEPT !.entries = x]
               /\ IsNode(r) => IsNode(a) /\ a.kind = r.kind /\ a.entries = x /\ a.opens = r.opens
  BY NodeEntries
<1>2. PICK b : /\ b = [a EXCEPT !.nlink = y]
               /\ IsNode(a) => IsNode(b) /\ b.kind = a.kind /\ b.entries = a.entries /\ b.opens = a.opens
  BY NodeNlink
<1>3. Rewritten(r, x, b)
  BY <1>1, <1>2 DEF Rewritten
<1>4. b = [r EXCEPT !.entries = x, !.nlink = y]
  BY <1>1, <1>2
<1>5. QED
  BY <1>3, <1>4

LEMMA NodeCount ==
  ASSUME NEW r, NEW y
  PROVE  Rewritten(r, r.entries, [r EXCEPT !.nlink = y])
<1>1. PICK b : /\ b = [r EXCEPT !.nlink = y]
               /\ IsNode(r) => IsNode(b) /\ b.kind = r.kind /\ b.entries = r.entries /\ b.opens = r.opens
  BY NodeNlink
<1>2. Rewritten(r, r.entries, b)
  BY <1>1 DEF Rewritten
<1>3. QED
  BY <1>1, <1>2

Changed(t, i, node, u) ==
  /\ u = [t EXCEPT ![i] = node] /\ IsTree(u) /\ DOMAIN u = DOMAIN t
  /\ \A j \in DOMAIN t : u[j] = IF j = i THEN node ELSE t[j]

LEMMA TreeChanged ==
  ASSUME NEW t, IsTree(t), NEW i, NEW node, i \in DOMAIN t => IsNode(node)
  PROVE  \E u : Changed(t, i, node, u)
<1> DEFINE u == [t EXCEPT ![i] = node]
<1>1. u = [j \in DOMAIN t |-> IF j = i THEN node ELSE t[j]]
  BY DEF IsTree
<1> HIDE DEF u
<1>2. IsTree(u)
  BY <1>1 DEF IsTree
<1>3. Changed(t, i, node, u)
  BY <1>1, <1>2 DEF Changed, u
<1>4. QED
  BY <1>3

\* One field of one inode is written.
WithEntries(t, d, entries, u) ==
  /\ u = [t EXCEPT ![d].entries = entries] /\ IsTree(u) /\ DOMAIN u = DOMAIN t
  /\ \A j \in DOMAIN t : /\ u[j].kind = t[j].kind /\ u[j].opens = t[j].opens
                         /\ u[j].entries = IF j = d THEN entries ELSE t[j].entries

WithCount(t, d, count, u) ==
  /\ u = [t EXCEPT ![d].nlink = count] /\ IsTree(u) /\ DOMAIN u = DOMAIN t
  /\ \A j \in DOMAIN t : /\ u[j].kind = t[j].kind /\ u[j].opens = t[j].opens
                         /\ u[j].entries = t[j].entries

WithSize(t, d, size, u) ==
  /\ u = [t EXCEPT ![d].size = size] /\ IsTree(u) /\ DOMAIN u = DOMAIN t
  /\ \A j \in DOMAIN t : /\ u[j].kind = t[j].kind /\ u[j].opens = t[j].opens
                         /\ u[j].entries = t[j].entries

WithOpens(t, d, opens, u) ==
  /\ u = [t EXCEPT ![d].opens = opens] /\ IsTree(u) /\ DOMAIN u = DOMAIN t
  /\ \A j \in DOMAIN t : /\ u[j].kind = t[j].kind /\ u[j].entries = t[j].entries
                         /\ u[j].opens = IF j = d THEN opens ELSE t[j].opens

LEMMA EntriesWritten ==
  ASSUME NEW t, IsTree(t), NEW d, NEW entries
  PROVE  \E u : WithEntries(t, d, entries, u)
<1>1. PICK p : p = [t[d] EXCEPT !.entries = entries] /\
               (IsNode(t[d]) => IsNode(p) /\ p.kind = t[d].kind /\ p.entries = entries /\ p.opens = t[d].opens)
  BY NodeEntries
<1>2. d \in DOMAIN t => IsNode(p)
  BY <1>1 DEF IsTree
<1>3. PICK u : Changed(t, d, p, u)
  BY <1>2, TreeChanged
<1>4. /\ u = [t EXCEPT ![d] = p] /\ IsTree(u) /\ DOMAIN u = DOMAIN t
      /\ \A j \in DOMAIN t : u[j] = IF j = d THEN p ELSE t[j]
  BY <1>3 DEF Changed
<1>5. u = [t EXCEPT ![d].entries = entries]
  BY <1>1, <1>4
<1>6. \A j \in DOMAIN t : /\ u[j].kind = t[j].kind /\ u[j].opens = t[j].opens
                          /\ u[j].entries = IF j = d THEN entries ELSE t[j].entries
  BY <1>1, <1>4 DEF IsTree
<1>7. WithEntries(t, d, entries, u)
  BY <1>4, <1>5, <1>6 DEF WithEntries
<1>8. QED
  BY <1>7

LEMMA CountWritten ==
  ASSUME NEW t, IsTree(t), NEW d, NEW count
  PROVE  \E u : WithCount(t, d, count, u)
<1>1. PICK p : p = [t[d] EXCEPT !.nlink = count] /\
               (IsNode(t[d]) => IsNode(p) /\ p.kind = t[d].kind /\ p.entries = t[d].entries /\ p.opens = t[d].opens)
  BY NodeNlink
<1>2. d \in DOMAIN t => IsNode(p)
  BY <1>1 DEF IsTree
<1>3. PICK u : Changed(t, d, p, u)
  BY <1>2, TreeChanged
<1>4. /\ u = [t EXCEPT ![d] = p] /\ IsTree(u) /\ DOMAIN u = DOMAIN t
      /\ \A j \in DOMAIN t : u[j] = IF j = d THEN p ELSE t[j]
  BY <1>3 DEF Changed
<1>5. u = [t EXCEPT ![d].nlink = count]
  BY <1>1, <1>4
<1>6. \A j \in DOMAIN t : /\ u[j].kind = t[j].kind /\ u[j].opens = t[j].opens
                          /\ u[j].entries = t[j].entries
  BY <1>1, <1>4 DEF IsTree
<1>7. WithCount(t, d, count, u)
  BY <1>4, <1>5, <1>6 DEF WithCount
<1>8. QED
  BY <1>7

LEMMA SizeWritten ==
  ASSUME NEW t, IsTree(t), NEW d, NEW size
  PROVE  \E u : WithSize(t, d, size, u)
<1>1. PICK p : p = [t[d] EXCEPT !.size = size] /\
               (IsNode(t[d]) => IsNode(p) /\ p.kind = t[d].kind /\ p.entries = t[d].entries /\ p.opens = t[d].opens)
  BY NodeSize
<1>2. d \in DOMAIN t => IsNode(p)
  BY <1>1 DEF IsTree
<1>3. PICK u : Changed(t, d, p, u)
  BY <1>2, TreeChanged
<1>4. /\ u = [t EXCEPT ![d] = p] /\ IsTree(u) /\ DOMAIN u = DOMAIN t
      /\ \A j \in DOMAIN t : u[j] = IF j = d THEN p ELSE t[j]
  BY <1>3 DEF Changed
<1>5. u = [t EXCEPT ![d].size = size]
  BY <1>1, <1>4
<1>6. \A j \in DOMAIN t : /\ u[j].kind = t[j].kind /\ u[j].opens = t[j].opens
                          /\ u[j].entries = t[j].entries
  BY <1>1, <1>4 DEF IsTree
<1>7. WithSize(t, d, size, u)
  BY <1>4, <1>5, <1>6 DEF WithSize
<1>8. QED
  BY <1>7

LEMMA OpensWritten ==
  ASSUME NEW t, IsTree(t), NEW d, NEW opens
  PROVE  \E u : WithOpens(t, d, opens, u)
<1>0. PICK p : Reopened(t[d], opens, p)
  BY NodeOpens
<1>1. p = [t[d] EXCEPT !.opens = opens] /\
      (IsNode(t[d]) => IsNode(p) /\ p.kind = t[d].kind /\ p.entries = t[d].entries /\ p.opens = opens)
  BY <1>0 DEF Reopened
<1>2. d \in DOMAIN t => IsNode(p)
  BY <1>1 DEF IsTree
<1>3. PICK u : Changed(t, d, p, u)
  BY <1>2, TreeChanged
<1>4. /\ u = [t EXCEPT ![d] = p] /\ IsTree(u) /\ DOMAIN u = DOMAIN t
      /\ \A j \in DOMAIN t : u[j] = IF j = d THEN p ELSE t[j]
  BY <1>3 DEF Changed
<1>5. u = [t EXCEPT ![d].opens = opens]
  BY <1>1, <1>4
<1>6. \A j \in DOMAIN t : /\ u[j].kind = t[j].kind /\ u[j].entries = t[j].entries
                          /\ u[j].opens = IF j = d THEN opens ELSE t[j].opens
  BY <1>1, <1>4 DEF IsTree
<1>7. WithOpens(t, d, opens, u)
  BY <1>4, <1>5, <1>6 DEF WithOpens
<1>8. QED
  BY <1>7

LEMMA AttachIs ==
  ASSUME NEW t, IsTree(t), NEW d, NEW name, NEW i
  PROVE  \E u : /\ u = Attach(t, d, name, i) /\ IsTree(u) /\ DOMAIN u = DOMAIN t
                /\ \A j \in DOMAIN t :
                     /\ u[j].kind = t[j].kind /\ u[j].opens = t[j].opens
                     /\ DOMAIN u[j].entries = DOMAIN t[j].entries \cup (IF j = d THEN {name} ELSE {})
<1> DEFINE entries == Put(t[d].entries, name, i)
<1>1. DOMAIN entries = DOMAIN t[d].entries \cup {name}
  BY DEF Put
<1> HIDE DEF entries
<1>2. PICK a : WithEntries(t, d, entries, a)
  BY EntriesWritten
<1> DEFINE count == IF IsDir(t, i) THEN a[d].nlink + 1 ELSE a[d].nlink
<1> HIDE DEF count
<1>3. PICK b : WithCount(a, d, count, b)
  <2>1. IsTree(a)
    BY <1>2 DEF WithEntries
  <2>2. QED
    BY <2>1, CountWritten
<1> DEFINE more == b[i].nlink + 1
<1> HIDE DEF more
<1>4. PICK c : WithCount(b, i, more, c)
  <2>1. IsTree(b)
    BY <1>3 DEF WithCount
  <2>2. QED
    BY <2>1, CountWritten
<1>5. c = Attach(t, d, name, i)
  <2>1. a = [t EXCEPT ![d].entries = Put(t[d].entries, name, i)]
    BY <1>2 DEF WithEntries, entries
  <2>2. b = [a EXCEPT ![d].nlink = IF IsDir(t, i) THEN a[d].nlink + 1 ELSE a[d].nlink]
    BY <1>3 DEF WithCount, count
  <2>3. c = [b EXCEPT ![i].nlink = b[i].nlink + 1]
    BY <1>4 DEF WithCount, more
  <2>4. QED
    BY <2>1, <2>2, <2>3 DEF Attach
<1>6. DOMAIN c = DOMAIN t /\ IsTree(c)
  BY <1>2, <1>3, <1>4 DEF WithEntries, WithCount
<1>7. ASSUME NEW j \in DOMAIN t
      PROVE  /\ c[j].kind = t[j].kind /\ c[j].opens = t[j].opens
             /\ DOMAIN c[j].entries = DOMAIN t[j].entries \cup (IF j = d THEN {name} ELSE {})
  <2>1. DOMAIN a = DOMAIN t /\ DOMAIN b = DOMAIN t
    BY <1>2, <1>3 DEF WithEntries, WithCount
  <2>2. /\ a[j].kind = t[j].kind /\ a[j].opens = t[j].opens
        /\ a[j].entries = IF j = d THEN entries ELSE t[j].entries
    BY <1>2 DEF WithEntries
  <2>3. b[j].kind = a[j].kind /\ b[j].opens = a[j].opens /\ b[j].entries = a[j].entries
    BY <1>3, <2>1 DEF WithCount
  <2>4. c[j].kind = b[j].kind /\ c[j].opens = b[j].opens /\ c[j].entries = b[j].entries
    BY <1>4, <2>1 DEF WithCount
  <2>5. QED
    BY <1>1, <2>2, <2>3, <2>4
<1>8. QED
  BY <1>5, <1>6, <1>7

LEMMA AttachKeeps ==
  ASSUME NEW t, IsTree(t), OneSpelled(t), NEW d, NEW name, NEW i, IsFree(t, d, name)
  PROVE  /\ IsTree(Attach(t, d, name, i)) /\ OneSpelled(Attach(t, d, name, i))
         /\ SameOpen(t, Attach(t, d, name, i)) /\ DOMAIN Attach(t, d, name, i) = DOMAIN t
<1>1. PICK u : /\ u = Attach(t, d, name, i) /\ IsTree(u) /\ DOMAIN u = DOMAIN t
               /\ \A j \in DOMAIN t :
                    /\ u[j].kind = t[j].kind /\ u[j].opens = t[j].opens
                    /\ DOMAIN u[j].entries = DOMAIN t[j].entries \cup (IF j = d THEN {name} ELSE {})
  BY AttachIs
<1>2. OneSpelled(u)
  BY <1>1 DEF OneSpelled, IsFree
<1>3. SameOpen(t, u)
  BY <1>1 DEF SameOpen
<1>4. QED
  BY <1>1, <1>2, <1>3

\* A node nothing refers to and that refers to nothing.
IsNew(node) == IsNode(node) /\ node.opens = 0 /\ node.entries = NoEntries

Grown(t, i, node, u) ==
  /\ u = Put(t, i, node) /\ IsTree(u) /\ OneSpelled(u) /\ SameOpen(t, u)
  /\ DOMAIN u = DOMAIN t \cup {i} /\ u[i] = node /\ \A j \in DOMAIN t : u[j] = t[j]

LEMMA AddedKeeps ==
  ASSUME NEW t, IsTree(t), OneSpelled(t), NEW i, i \notin DOMAIN t,
         NEW node, IsNew(node)
  PROVE  \E u : Grown(t, i, node, u)
<1> DEFINE u == Put(t, i, node)
<1>1. DOMAIN u = DOMAIN t \cup {i} /\ u[i] = node /\ \A j \in DOMAIN t : u[j] = t[j]
  BY DEF Put
<1>2. u = [j \in DOMAIN u |-> u[j]]
  BY DEF Put
<1> HIDE DEF u
<1>3. IsTree(u)
  BY <1>1, <1>2 DEF IsTree, IsNew
<1>4. OneSpelled(u)
  BY <1>1 DEF OneSpelled, NoEntries, IsNew
<1>5. SameOpen(t, u)
  BY <1>1 DEF SameOpen, IsNew
<1>6. Grown(t, i, node, u)
  BY <1>1, <1>3, <1>4, <1>5 DEF u, Grown
<1>7. QED
  BY <1>6

LEMMA NewIs ==
  ASSUME NEW kind
  PROVE  IsNew(New(kind)) /\ New(kind).kind = kind
BY DEF IsNode, IsNew, New

LEMMA CloneIsNew ==
  ASSUME NEW kind, NEW size, NEW target
  PROVE  IsNew([New(kind) EXCEPT !.size = size, !.target = target])
<1> DEFINE one == [New(kind) EXCEPT !.size = size]
           two == [one EXCEPT !.target = target]
<1>1. one = [kind |-> kind, entries |-> NoEntries, opens |-> 0, size |-> size,
             nlink |-> IF kind = "dir" THEN 1 ELSE 0, target |-> NoTarget]
  BY DEF New
<1> HIDE DEF one
<1>2. two = [kind |-> kind, entries |-> NoEntries, opens |-> 0, size |-> size,
             nlink |-> IF kind = "dir" THEN 1 ELSE 0, target |-> target]
  BY <1>1
<1>3. IsNew(two)
  BY <1>2 DEF IsNew, IsNode
<1>4. QED
  BY <1>3 DEF one

LEMMA SizedIsNew ==
  ASSUME NEW kind, NEW size
  PROVE  IsNew([New(kind) EXCEPT !.size = size])
BY DEF IsNew, IsNode, New

LEMMA ReclaimedKeeps ==
  ASSUME NEW t, IsTree(t), NEW candidates
  PROVE  LET u == Reclaimed(t, candidates)
         IN  /\ IsTree(u) /\ DOMAIN u \subseteq DOMAIN t /\ \A j \in DOMAIN u : u[j] = t[j]
             /\ \A j \in DOMAIN t : t[j].opens # 0 => j \in DOMAIN u
BY DEF Reclaimed, Restrict, IsTree

LEMMA DetachKeeps ==
  ASSUME NEW t, IsTree(t), NEW d, NEW name
  PROVE  \E u : /\ u = Detach(t, d, name) /\ IsTree(u) /\ DOMAIN u \subseteq DOMAIN t
                /\ \A j \in DOMAIN u : /\ u[j].kind = t[j].kind /\ u[j].opens = t[j].opens
                                       /\ DOMAIN u[j].entries \subseteq DOMAIN t[j].entries
                                       /\ j = d => name \notin DOMAIN u[j].entries
                /\ \A j \in DOMAIN t : t[j].opens # 0 => j \in DOMAIN u
<1> DEFINE top == t[d].entries[name]
           dirs == Subtree(t, top)
           cuts(i) == (IF i = top THEN 1 ELSE 0)
                      + Cardinality({e \in dirs \X Names :
                                       /\ e[2] \in DOMAIN t[e[1]].entries
                                       /\ t[e[1]].entries[e[2]] = i})
           subdirs(i) == Cardinality({n \in DOMAIN t[i].entries :
                                        IsDir(t, t[i].entries[n])})
           cut == [i \in DOMAIN t |->
                     CASE i = d -> [t[i] EXCEPT !.entries = Restrict(@, DOMAIN @ \ {name}),
                                                !.nlink = IF IsDir(t, top) THEN @ - 1 ELSE @]
                       [] i \in dirs -> [t[i] EXCEPT !.entries = NoEntries,
                                                     !.nlink = @ - subdirs(i) - 2]
                       [] OTHER -> [t[i] EXCEPT !.nlink = @ - cuts(i)]]
<1>1. Detach(t, d, name) = Reclaimed(cut, {i \in DOMAIN t : cuts(i) > 0})
  BY DEF Detach
<1>2. ASSUME NEW i \in DOMAIN t
      PROVE  /\ IsNode(cut[i]) /\ cut[i].kind = t[i].kind /\ cut[i].opens = t[i].opens
             /\ DOMAIN cut[i].entries \subseteq DOMAIN t[i].entries
             /\ i = d => name \notin DOMAIN cut[i].entries
  <2>0. IsNode(t[i])
    BY DEF IsTree
  <2> DEFINE Good(r) == /\ IsNode(r) /\ r.kind = t[i].kind /\ r.opens = t[i].opens
                        /\ DOMAIN r.entries \subseteq DOMAIN t[i].entries
                        /\ i = d => name \notin DOMAIN r.entries
             E == Restrict(t[i].entries, DOMAIN t[i].entries \ {name})
             n1 == IF IsDir(t, top) THEN t[i].nlink - 1 ELSE t[i].nlink
             n2 == t[i].nlink - subdirs(i) - 2
             n3 == t[i].nlink - cuts(i)
             a == [t[i] EXCEPT !.entries = E, !.nlink = n1]
             b == [t[i] EXCEPT !.entries = NoEntries, !.nlink = n2]
             c == [t[i] EXCEPT !.nlink = n3]
  <2>1. cut[i] = CASE i = d -> a [] i \in dirs -> b [] OTHER -> c
    OBVIOUS
  <2>2. DOMAIN E = DOMAIN t[i].entries \ {name} /\ DOMAIN NoEntries = {}
    BY DEF Restrict, NoEntries
  <2> HIDE DEF n1, n2, n3, E, cut, dirs
  <2>3. Good(a)
    <3>1. Rewritten(t[i], E, a)
      BY NodeBoth
    <3> HIDE DEF a
    <3>2. QED
      BY <2>0, <2>2, <3>1 DEF Rewritten
  <2>4. Good(b)
    <3>1. Rewritten(t[i], NoEntries, b)
      BY NodeBoth
    <3> HIDE DEF b
    <3>2. QED
      BY <2>0, <2>2, <3>1 DEF Rewritten
  <2>5. i # d => Good(c)
    <3>1. Rewritten(t[i], t[i].entries, c)
      BY NodeCount
    <3> HIDE DEF c
    <3>2. QED
      BY <2>0, <2>2, <3>1 DEF Rewritten
  <2> HIDE DEF a, b, c, Good
  <2>6. Good(cut[i])
    <3>1. CASE i = d /\ i \notin dirs
      BY <2>1, <2>3, <3>1
    <3>2. CASE i # d /\ i \in dirs
      BY <2>1, <2>4, <3>2
    <3>3. CASE i = d /\ i \in dirs
      <4>1. cut[i] = a \/ cut[i] = b
        BY <2>1, <3>3
      <4>2. QED
        BY <2>3, <2>4, <4>1
    <3>4. CASE i # d /\ i \notin dirs
      BY <2>1, <2>5, <3>4
    <3>5. QED
      BY <3>1, <3>2, <3>3, <3>4
  <2>7. QED
    BY <2>6 DEF Good
<1>3. IsTree(cut) /\ DOMAIN cut = DOMAIN t
  <2>1. DOMAIN cut = DOMAIN t /\ cut = [i \in DOMAIN cut |-> cut[i]]
    OBVIOUS
  <2> HIDE DEF cut
  <2>2. QED
    BY <1>2, <2>1 DEF IsTree
<1> HIDE DEF cut
<1> DEFINE gone == {i \in DOMAIN t : cuts(i) > 0}
<1> HIDE DEF cuts, gone
<1>4. PICK u : /\ u = Reclaimed(cut, gone) /\ IsTree(u) /\ DOMAIN u \subseteq DOMAIN cut /\ \A j \in DOMAIN u : u[j] = cut[j]
               /\ \A j \in DOMAIN cut : cut[j].opens # 0 => j \in DOMAIN u
  BY <1>3, ReclaimedKeeps
<1>5. u = Detach(t, d, name)
  BY <1>1, <1>4 DEF gone, cuts
<1>6. QED
  BY <1>2, <1>3, <1>4, <1>5
----------------------------------------------------------------------------
(* What an operation does to the tree it is given. *)

Sound(t) == IsTree(t) /\ OneSpelled(t)
Keeps(t, u) == Sound(u) /\ SameOpen(t, u)

LEMMA KeepsItself ==
  ASSUME NEW t, Sound(t)
  PROVE  Keeps(t, t)
BY DEF Keeps, SameOpen

LEMMA KeepsBoth ==
  ASSUME NEW t, NEW u, NEW v, Keeps(t, u), Keeps(u, v)
  PROVE  Keeps(t, v)
BY DEF Keeps, SameOpen

LEMMA AttachedKeeps ==
  ASSUME NEW t, Sound(t), NEW d, NEW name, NEW i, IsFree(t, d, name)
  PROVE  Keeps(t, Attach(t, d, name, i))
BY AttachKeeps DEF Sound, Keeps

\* A new inode and its entry.
LEMMA MadeKeeps ==
  ASSUME NEW t, Sound(t), NEW i, i \notin DOMAIN t,
         NEW node, IsNew(node),
         NEW d, NEW name, IsFree(t, d, name)
  PROVE  Keeps(t, Attach(Put(t, i, node), d, name, i))
<1>0. PICK u : Grown(t, i, node, u)
  <2>1. IsTree(t) /\ OneSpelled(t)
    BY DEF Sound
  <2>2. QED
    BY <2>1, AddedKeeps
<1>1. /\ u = Put(t, i, node) /\ IsTree(u) /\ OneSpelled(u) /\ SameOpen(t, u)
      /\ DOMAIN u = DOMAIN t \cup {i} /\ u[i] = node /\ \A j \in DOMAIN t : u[j] = t[j]
  BY <1>0 DEF Grown
<1>2. IsFree(u, d, name)
  BY <1>1 DEF IsFree, NoEntries, IsNew
<1>3. Keeps(t, u)
  BY <1>1 DEF Keeps, Sound
<1>4. Keeps(u, Attach(u, d, name, i))
  BY <1>2, <1>3, AttachedKeeps DEF Keeps
<1>5. Keeps(t, Attach(u, d, name, i))
  BY <1>3, <1>4, KeepsBoth
<1>6. QED
  BY <1>1, <1>5

\* An entry goes: its name is free, when the stored one is meant.
LEMMA DetachedKeeps ==
  ASSUME NEW t, Sound(t), NEW d, NEW name
  PROVE  \E u : /\ u = Detach(t, d, name) /\ Keeps(t, u) /\ DOMAIN u \subseteq DOMAIN t
                /\ name \in DOMAIN t[d].entries =>
                     \A as : Folded[as] = Folded[name] => IsFree(u, d, as)
<1>1. PICK u : /\ u = Detach(t, d, name) /\ IsTree(u) /\ DOMAIN u \subseteq DOMAIN t
               /\ \A j \in DOMAIN u : /\ u[j].kind = t[j].kind /\ u[j].opens = t[j].opens
                                      /\ DOMAIN u[j].entries \subseteq DOMAIN t[j].entries
                                      /\ j = d => name \notin DOMAIN u[j].entries
               /\ \A j \in DOMAIN t : t[j].opens # 0 => j \in DOMAIN u
  BY DetachKeeps DEF Sound
<1>2. OneSpelled(u)
  BY <1>1 DEF Sound, OneSpelled
<1>3. SameOpen(t, u)
  BY <1>1 DEF SameOpen
<1>4. Keeps(t, u)
  BY <1>1, <1>2, <1>3 DEF Keeps, Sound
<1>5. ASSUME name \in DOMAIN t[d].entries, NEW as, Folded[as] = Folded[name]
      PROVE  IsFree(u, d, as)
  <2> SUFFICES ASSUME ~caseSensitive, d \in DOMAIN u, NEW n \in DOMAIN u[d].entries, Folded[n] = Folded[as]
               PROVE  FALSE
    BY DEF IsFree
  <2>1. n \in DOMAIN t[d].entries /\ n # name /\ d \in DOMAIN t
    BY <1>1
  <2>2. n = name
    BY <1>5, <2>1 DEF Sound, OneSpelled
  <2>3. QED
    BY <2>1, <2>2
<1>6. QED
  BY <1>1, <1>4, <1>5

\* What Stored finds is there, and is a spelling of the name.
LEMMA StoredIs ==
  ASSUME NEW t, NEW d, NEW name, NEW n \in Stored(t, d, name)
  PROVE  n \in DOMAIN t[d].entries /\ Folded[n] = Folded[name]
BY DEF Stored

\* When every inode is sound, the choice of Stored leaves nothing that folds alike.
LEMMA StoredAlone ==
  ASSUME NEW t, Sound(t), NEW d \in DOMAIN t, NEW name, NEW n \in Stored(t, d, name),
         ~caseSensitive, NEW m \in DOMAIN t[d].entries, Folded[m] = Folded[name]
  PROVE  m = n
BY StoredIs DEF Sound, OneSpelled
----------------------------------------------------------------------------
(* makeDirectory. *)

IsMaking(m) == m = [t |-> m.t, made |-> m.made, ok |-> m.ok] /\ Keeps(inodes, m.t)

LEMMA MakeOneKeeps ==
  ASSUME NEW m, IsMaking(m), NEW path
  PROVE  IsMaking(MakeOne(m, path))
<1> DEFINE at == Resolve(m.t, path, TRUE)
           new == Min(Unused(m.t))
           u == Attach(Added(m.t, New("dir")), Parent(m.t, path).inode, Last(path), new)
<1>1. CASE ~m.ok
  BY <1>1 DEF MakeOne
<1>2. CASE m.ok /\ Found(at)
  <2>1. MakeOne(m, path) = [m EXCEPT !.ok = IsDir(m.t, at.inode)]
    BY <1>2 DEF MakeOne
  <2>2. QED
    BY <2>1 DEF IsMaking
<1>3. CASE m.ok /\ ~Found(at) /\ ~(HasParent(m.t, path) /\ ~HasEntry(m.t, path) /\ Unused(m.t) # {})
  <2>1. MakeOne(m, path) = [m EXCEPT !.ok = FALSE]
    BY <1>3 DEF MakeOne
  <2>2. QED
    BY <2>1 DEF IsMaking
<1>4. CASE m.ok /\ ~Found(at) /\ HasParent(m.t, path) /\ ~HasEntry(m.t, path) /\ Unused(m.t) # {}
  <2> DEFINE made == Append(m.made, Where(m.t, path))
  <2>1. MakeOne(m, path) = [m EXCEPT !.t = u, !.made = made]
    BY <1>4 DEF MakeOne
  <2>2. ~Holds(m.t, Parent(m.t, path).inode, Last(path))
    BY <1>4 DEF HasEntry
  <2>3. Sound(m.t) /\ new \notin DOMAIN m.t
    BY <1>4, Fresh DEF IsMaking, Keeps
  <2>4. IsFree(m.t, Parent(m.t, path).inode, Last(path))
    BY <2>2, FreeWhenUnheld
  <2>5. Keeps(m.t, u)
    BY <2>3, <2>4, NewIs, MadeKeeps DEF Added
  <2>6. Keeps(inodes, u)
    BY <2>5, KeepsBoth DEF IsMaking
  <2> HIDE DEF u, made
  <2>7. [m EXCEPT !.t = u, !.made = made] = [t |-> u, made |-> made, ok |-> m.ok]
    <3> DEFINE one == [m EXCEPT !.t = u]
    <3>1. one = [t |-> u, made |-> m.made, ok |-> m.ok]
      BY DEF IsMaking
    <3> HIDE DEF one
    <3>2. [one EXCEPT !.made = made] = [t |-> u, made |-> made, ok |-> m.ok]
      BY <3>1
    <3>3. QED
      BY <3>2 DEF one
  <2>8. QED
    BY <2>1, <2>6, <2>7 DEF IsMaking
<1>5. QED
  BY <1>1, <1>2, <1>3, <1>4

MadeUpTo(path, n, f) ==
  f = [k \in 0..n |-> IF k = 0 THEN [t |-> inodes, made |-> <<>>, ok |-> TRUE]
                      ELSE MakeOne(f[k - 1], SubSeq(path, 1, k))]

LEMMA MakingExists ==
  ASSUME NEW path, NEW n \in Nat
  PROVE  \E f : MadeUpTo(path, n, f)
<1> DEFINE Bad == {m \in Nat : ~\E f : MadeUpTo(path, m, f)}
<1> SUFFICES ASSUME Bad # {} PROVE FALSE
  OBVIOUS
<1> DEFINE first == [t |-> inodes, made |-> <<>>, ok |-> TRUE]
<1>1. PICK m \in Bad : \A y \in Bad : m <= y
  BY LeastExists
<1>2. CASE m = 0
  <2>1. MadeUpTo(path, 0, [k \in 0..0 |-> first])
    BY DEF MadeUpTo
  <2>2. QED
    BY <1>1, <1>2, <2>1
<1>3. CASE m # 0
  <2>1. m - 1 \in Nat /\ m - 1 \notin Bad
    BY <1>1, <1>3
  <2>2. PICK f : MadeUpTo(path, m - 1, f)
    BY <2>1
  <2> DEFINE last == MakeOne(f[m - 1], SubSeq(path, 1, m))
             g == [k \in 0..m |-> IF k = m THEN last ELSE f[k]]
  <2>3. \A k \in 0..(m - 1) : f[k] = IF k = 0 THEN first ELSE MakeOne(f[k - 1], SubSeq(path, 1, k))
    BY <2>2 DEF MadeUpTo
  <2> HIDE DEF last
  <2>5. /\ g = [k \in 0..m |-> g[k]] /\ g[m] = last
        /\ \A k \in 0..m : k # m => g[k] = f[k] /\ k \in 0..(m - 1)
    BY <1>3, <1>1
  <2> HIDE DEF g
  <2>6. \A k \in 0..m : g[k] = IF k = 0 THEN first ELSE MakeOne(g[k - 1], SubSeq(path, 1, k))
    <3> SUFFICES ASSUME NEW k \in 0..m
                 PROVE  g[k] = IF k = 0 THEN first ELSE MakeOne(g[k - 1], SubSeq(path, 1, k))
      OBVIOUS
    <3>1. k # 0 => g[k - 1] = f[k - 1]
      BY <2>5, <1>1
    <3>2. CASE k = m
      BY <3>1, <3>2, <2>5, <1>3 DEF last
    <3>3. CASE k # m
      <4>1. g[k] = f[k] /\ k \in 0..(m - 1)
        BY <3>3, <2>5
      <4>2. QED
        BY <4>1, <3>1, <2>3
    <3>4. QED
      BY <3>2, <3>3
  <2>7. MadeUpTo(path, m, g)
    BY <2>5, <2>6 DEF MadeUpTo
  <2>8. QED
    BY <1>1, <2>7
<1>4. QED
  BY <1>2, <1>3

LEMMA MakeDirectoryKeeps ==
  ASSUME NEW path \in Paths, NEW recursive, Sound(inodes), MakeDirectory(path, recursive)
  PROVE  Keeps(inodes, inodes') /\ UNCHANGED <<descriptors, caseSensitive>>
<1> DEFINE f == CHOOSE f : MadeUpTo(path, Len(path), f)
           m == f[Len(path)]
<1>1. Len(path) \in Nat
  BY VolumeAssumption
<1>2. \E g : MadeUpTo(path, Len(path), g)
  BY <1>1, MakingExists
<1>3. MadeUpTo(path, Len(path), f)
  BY <1>2
<1>4. inodes' = m.t /\ UNCHANGED <<descriptors, caseSensitive>>
  BY DEF MakeDirectory, Commit, MadeUpTo
<1> HIDE DEF f
<1> DEFINE Bad == {k \in 0..Len(path) : ~IsMaking(f[k])}
<1>5. Bad = {}
  <2> SUFFICES ASSUME Bad # {} PROVE FALSE
    OBVIOUS
  <2>1. PICK k \in Bad : \A j \in Bad : k <= j
    <3>1. Bad \subseteq Nat
      BY <1>1
    <3> HIDE DEF Bad
    <3>2. QED
      BY <3>1, LeastExists
  <2>2. CASE k = 0
    <3>1. f[0] = [t |-> inodes, made |-> <<>>, ok |-> TRUE]
      BY <1>1, <1>3 DEF MadeUpTo
    <3>2. IsMaking(f[0])
      BY <3>1, KeepsItself DEF IsMaking
    <3>3. QED
      BY <2>1, <2>2, <3>2
  <2>3. CASE k # 0
    <3>1. k \in 0..Len(path) /\ k - 1 \in 0..Len(path) /\ k - 1 \notin Bad
      BY <1>1, <2>1, <2>3
    <3>2. f[k] = MakeOne(f[k - 1], SubSeq(path, 1, k))
      BY <1>3, <2>3, <3>1 DEF MadeUpTo
    <3>3. IsMaking(f[k - 1])
      BY <3>1
    <3>4. IsMaking(f[k])
      BY <3>2, <3>3, MakeOneKeeps
    <3>5. QED
      BY <2>1, <3>4
  <2>4. QED
    BY <2>2, <2>3
<1>6. IsMaking(m)
  BY <1>1, <1>5
<1>7. QED
  BY <1>4, <1>6 DEF IsMaking
----------------------------------------------------------------------------
(* Copies. *)

IsCopying(c) == c = [t |-> c.t, ok |-> c.ok, todo |-> c.todo] /\ Keeps(inodes, c.t)

LEMMA CopyOneKeeps ==
  ASSUME NEW c, IsCopying(c)
  PROVE  IsCopying(CopyOne(c))
<1> DEFINE w == Head(c.todo)
           old == Stored(c.t, w.into, w.name)
           there == Child(c.t, w.into, w.name)
           merges == IsDir(c.t, w.from) /\ old # {} /\ IsDir(c.t, there)
           new == Min(Unused(c.t))
           chosen == CHOOSE n \in old : TRUE
           cleared == IF old = {} THEN c.t ELSE Detach(c.t, w.into, chosen)
           clone == [New(c.t[w.from].kind) EXCEPT !.size = c.t[w.from].size,
                                                  !.target = c.t[w.from].target]
           u == Attach(Put(cleared, new, clone), w.into, w.name, new)
           later == (IF IsDir(c.t, w.from) THEN Contents(c.t, w.from, new) ELSE <<>>) \o Tail(c.todo)
           merging == Contents(c.t, w.from, there) \o Tail(c.todo)
<1>1. CASE c.todo = <<>> \/ ~c.ok
  BY <1>1 DEF CopyOne
<1>2. CASE ~(c.todo = <<>> \/ ~c.ok)
  <2>1. \/ CopyOne(c) = [c EXCEPT !.ok = FALSE]
        \/ CopyOne(c) = [c EXCEPT !.todo = merging]
        \/ ~(Unused(c.t) = {}) /\ CopyOne(c) = [c EXCEPT !.t = u, !.todo = later]
    <3> HIDE DEF w, u
    <3>1. CASE w.from \notin DOMAIN c.t
      BY <1>2, <3>1 DEF CopyOne, w
    <3>2. CASE w.from \in DOMAIN c.t /\ merges
      BY <1>2, <3>2 DEF CopyOne, w
    <3>3. CASE w.from \in DOMAIN c.t /\ ~merges
      <4>1. CopyOne(c) = IF Unused(c.t) = {} \/ (old # {} /\ c.t[there].entries # NoEntries)
                         THEN [c EXCEPT !.ok = FALSE]
                         ELSE [c EXCEPT !.t = u, !.todo = later]
        BY <1>2, <3>3 DEF CopyOne, w, u
      <4>2. QED
        BY <4>1
    <3>4. QED
      BY <3>1, <3>2, <3>3
  <2> HIDE DEF later, merging
  <2>2. CASE CopyOne(c) = [c EXCEPT !.ok = FALSE]
    BY <2>2 DEF IsCopying
  <2>3. CASE CopyOne(c) = [c EXCEPT !.todo = merging]
    BY <2>3 DEF IsCopying
  <2>4. CASE ~(Unused(c.t) = {}) /\ CopyOne(c) = [c EXCEPT !.t = u, !.todo = later]
    <3>1. Sound(c.t) /\ new \notin DOMAIN c.t
      BY <2>4, Fresh DEF IsCopying, Keeps
    <3>2. Keeps(c.t, cleared) /\ DOMAIN cleared \subseteq DOMAIN c.t /\ IsFree(cleared, w.into, w.name)
      <4> HIDE DEF w
      <4>1. CASE old = {}
        <5>1. IsFree(c.t, w.into, w.name)
          BY <4>1, FreeWhenUnheld DEF Holds
        <5>2. QED
          BY <3>1, <4>1, <5>1, KeepsItself
      <4>2. CASE old # {}
        <5>1. chosen \in old
          BY <4>2
        <5> HIDE DEF chosen
        <5>2. chosen \in DOMAIN c.t[w.into].entries /\ Folded[chosen] = Folded[w.name]
          BY <5>1, StoredIs
        <5>3. PICK v : /\ v = Detach(c.t, w.into, chosen) /\ Keeps(c.t, v) /\ DOMAIN v \subseteq DOMAIN c.t
                       /\ chosen \in DOMAIN c.t[w.into].entries =>
                            \A as : Folded[as] = Folded[chosen] => IsFree(v, w.into, as)
          BY <3>1, DetachedKeeps
        <5>4. IsFree(v, w.into, w.name)
          BY <5>2, <5>3
        <5>5. QED
          BY <4>2, <5>3, <5>4
      <4>3. QED
        BY <4>1, <4>2
    <3>3. IsNew(clone)
      BY CloneIsNew
    <3> HIDE DEF cleared, clone, w, new
    <3>4. new \notin DOMAIN cleared /\ Sound(cleared)
      BY <3>1, <3>2 DEF Keeps
    <3>5. Keeps(cleared, u)
      BY <3>2, <3>3, <3>4, MadeKeeps
    <3> HIDE DEF u
    <3>6. Keeps(inodes, u)
      BY <3>2, <3>5, KeepsBoth DEF IsCopying
    <3>7. [c EXCEPT !.t = u, !.todo = later] = [t |-> u, ok |-> c.ok, todo |-> later]
      <4> DEFINE one == [c EXCEPT !.t = u]
      <4>1. one = [t |-> u, ok |-> c.ok, todo |-> c.todo]
        BY DEF IsCopying
      <4> HIDE DEF one
      <4>2. [one EXCEPT !.todo = later] = [t |-> u, ok |-> c.ok, todo |-> later]
        BY <4>1
      <4>3. QED
        BY <4>2 DEF one
    <3>8. QED
      BY <2>4, <3>6, <3>7 DEF IsCopying
  <2>5. QED
    BY <2>1, <2>2, <2>3, <2>4
<1>3. QED
  BY <1>1, <1>2

CopiedUpTo(first, n, f) ==
  f = [k \in 0..n |-> IF k = 0 THEN first ELSE CopyOne(f[k - 1])]

LEMMA CopyingExists ==
  ASSUME NEW first, NEW n \in Nat
  PROVE  \E f : CopiedUpTo(first, n, f)
<1> DEFINE Bad == {m \in Nat : ~\E f : CopiedUpTo(first, m, f)}
<1> SUFFICES ASSUME Bad # {} PROVE FALSE
  OBVIOUS
<1>1. PICK m \in Bad : \A y \in Bad : m <= y
  BY LeastExists
<1>2. CASE m = 0
  <2>1. CopiedUpTo(first, 0, [k \in 0..0 |-> first])
    BY DEF CopiedUpTo
  <2>2. QED
    BY <1>1, <1>2, <2>1
<1>3. CASE m # 0
  <2>1. m - 1 \in Nat /\ m - 1 \notin Bad
    BY <1>1, <1>3
  <2>2. PICK f : CopiedUpTo(first, m - 1, f)
    BY <2>1
  <2> DEFINE last == CopyOne(f[m - 1])
             g == [k \in 0..m |-> IF k = m THEN last ELSE f[k]]
  <2>3. \A k \in 0..(m - 1) : f[k] = IF k = 0 THEN first ELSE CopyOne(f[k - 1])
    BY <2>2 DEF CopiedUpTo
  <2> HIDE DEF last
  <2>5. /\ g = [k \in 0..m |-> g[k]] /\ g[m] = last
        /\ \A k \in 0..m : k # m => g[k] = f[k] /\ k \in 0..(m - 1)
    BY <1>3, <1>1
  <2> HIDE DEF g
  <2>6. \A k \in 0..m : g[k] = IF k = 0 THEN first ELSE CopyOne(g[k - 1])
    <3> SUFFICES ASSUME NEW k \in 0..m
                 PROVE  g[k] = IF k = 0 THEN first ELSE CopyOne(g[k - 1])
      OBVIOUS
    <3>1. k # 0 => g[k - 1] = f[k - 1]
      BY <2>5, <1>1
    <3>2. CASE k = m
      BY <3>1, <3>2, <2>5, <1>3 DEF last
    <3>3. CASE k # m
      <4>1. g[k] = f[k] /\ k \in 0..(m - 1)
        BY <3>3, <2>5
      <4>2. QED
        BY <4>1, <3>1, <2>3
    <3>4. QED
      BY <3>2, <3>3
  <2>7. CopiedUpTo(first, m, g)
    BY <2>5, <2>6 DEF CopiedUpTo
  <2>8. QED
    BY <1>1, <2>7
<1>4. QED
  BY <1>2, <1>3

LEMMA CopyAllKeeps ==
  ASSUME Sound(inodes), NEW from, NEW into, NEW name
  PROVE  Keeps(inodes, CopyAll(inodes, from, into, name).t)
<1> DEFINE N == Cardinality(Inodes) * Cardinality(Names)
           first == [t |-> inodes, ok |-> TRUE,
                     todo |-> <<[from |-> from, into |-> into, name |-> name]>>]
           f == CHOOSE f : CopiedUpTo(first, N, f)
<1>1. N \in Nat
  BY VolumeAssumption, FS_CardinalityType
<1>2. CopyAll(inodes, from, into, name) = f[N]
  BY DEF CopyAll, CopiedUpTo
<1>3. IsCopying(first)
  BY KeepsItself DEF IsCopying
<1> HIDE DEF N, first
<1>4. CopiedUpTo(first, N, f)
  BY <1>1, CopyingExists
<1> HIDE DEF f
<1> DEFINE Bad == {k \in 0..N : ~IsCopying(f[k])}
<1>5. Bad = {}
  <2> SUFFICES ASSUME Bad # {} PROVE FALSE
    OBVIOUS
  <2>1. PICK k \in Bad : \A j \in Bad : k <= j
    <3>1. Bad \subseteq Nat
      BY <1>1
    <3> HIDE DEF Bad
    <3>2. QED
      BY <3>1, LeastExists
  <2>2. CASE k = 0
    <3>1. f[0] = first
      BY <1>1, <1>4 DEF CopiedUpTo
    <3>2. QED
      BY <2>1, <2>2, <3>1, <1>3
  <2>3. CASE k # 0
    <3>1. k \in 0..N /\ k - 1 \in 0..N /\ k - 1 \notin Bad
      BY <1>1, <2>1, <2>3
    <3>2. f[k] = CopyOne(f[k - 1])
      BY <1>4, <2>3, <3>1 DEF CopiedUpTo
    <3>3. IsCopying(f[k - 1])
      BY <3>1
    <3>4. IsCopying(f[k])
      BY <3>2, <3>3, CopyOneKeeps
    <3>5. QED
      BY <2>1, <3>4
  <2>4. QED
    BY <2>2, <2>3
<1>6. IsCopying(f[N])
  BY <1>1, <1>5
<1>7. QED
  BY <1>2, <1>6 DEF IsCopying

\* What an operation of the namespace does to what the invariant is about.
Stays == Keeps(inodes, inodes') /\ UNCHANGED <<descriptors, caseSensitive>>

LEMMA CopyStays ==
  ASSUME Sound(inodes), NEW from, NEW to, NEW overwrite, Copy(from, to, overwrite)
  PROVE  Stays
<1> DEFINE source == Resolve(inodes, from, FALSE).inode
           c == CopyAll(inodes, source, Parent(inodes, to).inode, Last(to))
<1>1. inodes' = c.t /\ UNCHANGED <<descriptors, caseSensitive>>
  BY DEF Copy, Commit
<1>2. Keeps(inodes, c.t)
  BY CopyAllKeeps
<1>3. QED
  BY <1>1, <1>2 DEF Stays
----------------------------------------------------------------------------
(* The namespace. *)

LEMMA LinkStays ==
  ASSUME Sound(inodes), NEW from, NEW to, Link(from, to)
  PROVE  Stays
<1> DEFINE i == Resolve(inodes, from, TRUE).inode
           d == Parent(inodes, to).inode
<1>1. /\ inodes' = Attach(inodes, d, Last(to), i) /\ ~HasEntry(inodes, to) /\ HasParent(inodes, to)
      /\ UNCHANGED <<descriptors, caseSensitive>>
  BY DEF Link, Commit
<1>2. ~Holds(inodes, d, Last(to))
  BY <1>1 DEF HasEntry
<1>3. Keeps(inodes, Attach(inodes, d, Last(to), i))
  BY <1>2, FreeWhenUnheld, AttachedKeeps
<1>4. QED
  BY <1>1, <1>3 DEF Stays

\* A node is made where its parent says nothing is.
LEMMA MadeThere ==
  ASSUME NEW t, Sound(t), Unused(t) # {}, NEW node, IsNew(node), NEW path,
         HasParent(t, path), ~HasEntry(t, path)
  PROVE  Keeps(t, Attach(Added(t, node), Parent(t, path).inode, Last(path), Min(Unused(t))))
<1> DEFINE d == Parent(t, path).inode
           new == Min(Unused(t))
<1>1. ~Holds(t, d, Last(path))
  BY DEF HasEntry
<1>2. IsFree(t, d, Last(path))
  BY <1>1, FreeWhenUnheld
<1>3. new \notin DOMAIN t
  BY Fresh
<1> HIDE DEF d, new
<1>4. Keeps(t, Attach(Put(t, new, node), d, Last(path), new))
  BY <1>2, <1>3, MadeKeeps
<1>5. QED
  BY <1>4 DEF Added, d, new

LEMMA SymlinkStays ==
  ASSUME Sound(inodes), NEW target, NEW path, Symlink(target, path)
  PROVE  Stays
<1> DEFINE node == [New("link") EXCEPT !.target = target]
           u == Attach(Added(inodes, node), Parent(inodes, path).inode, Last(path), Min(Unused(inodes)))
<1>1. /\ inodes' = u /\ HasParent(inodes, path) /\ ~HasEntry(inodes, path) /\ Unused(inodes) # {}
      /\ UNCHANGED <<descriptors, caseSensitive>>
  BY DEF Symlink, Commit
<1>2. IsNew(node)
  BY DEF IsNew, IsNode, New
<1> HIDE DEF node
<1>3. Keeps(inodes, u)
  BY <1>1, <1>2, MadeThere
<1>4. QED
  BY <1>1, <1>3 DEF Stays

LEMMA RemovePathStays ==
  ASSUME Sound(inodes), NEW path, NEW recursive, RemovePath(path, recursive)
  PROVE  Stays
<1> DEFINE d == Parent(inodes, path).inode
           name == EntryName(inodes, path)
<1>1. inodes' = Detach(inodes, d, name) /\ UNCHANGED <<descriptors, caseSensitive>>
  BY DEF RemovePath, Commit
<1> HIDE DEF d, name
<1>2. Keeps(inodes, Detach(inodes, d, name))
  BY DetachedKeeps
<1>3. QED
  BY <1>1, <1>2 DEF Stays

Rekeyed(t, from, name, to, as, u) ==
  /\ IsTree(u) /\ DOMAIN u = DOMAIN t
  /\ \A j \in DOMAIN t :
       /\ u[j].kind = t[j].kind /\ u[j].opens = t[j].opens
       /\ DOMAIN u[j].entries =
            (DOMAIN t[j].entries \ (IF j = from THEN {name} ELSE {}))
            \cup (IF j = to THEN {as} ELSE {})

LEMMA MovedIs ==
  ASSUME NEW t, IsTree(t), NEW from, NEW name, NEW to, NEW as
  PROVE  Rekeyed(t, from, name, to, as, Moved(t, from, name, to, as))
<1> DEFINE i == t[from].entries[name]
           rest == Restrict(t[from].entries, DOMAIN t[from].entries \ {name})
<1>1. DOMAIN rest = DOMAIN t[from].entries \ {name}
  BY DEF Restrict
<1> HIDE DEF rest
<1>2. PICK a : WithEntries(t, from, rest, a)
  BY EntriesWritten
<1> DEFINE entries == Put(a[to].entries, as, i)
<1>3. DOMAIN entries = DOMAIN a[to].entries \cup {as}
  BY DEF Put
<1> HIDE DEF entries
<1>4. PICK b : WithEntries(a, to, entries, b)
  <2>1. IsTree(a)
    BY <1>2 DEF WithEntries
  <2>2. QED
    BY <2>1, EntriesWritten
<1> DEFINE less == b[from].nlink - 1
           more == b[to].nlink + 1
<1> HIDE DEF less, more
<1>5. PICK c : WithCount(b, from, less, c)
  <2>1. IsTree(b)
    BY <1>4 DEF WithEntries
  <2>2. QED
    BY <2>1, CountWritten
<1>6. PICK e : WithCount(c, to, more, e)
  <2>1. IsTree(c)
    BY <1>5 DEF WithCount
  <2>2. QED
    BY <2>1, CountWritten
<1>7. Moved(t, from, name, to, as) = IF from = to \/ ~IsDir(t, i) THEN b ELSE e
  <2>1. e = [b EXCEPT ![from].nlink = less, ![to].nlink = more]
    BY <1>5, <1>6 DEF WithCount
  <2>2. Moved(t, from, name, to, as) =
          IF from = to \/ ~IsDir(t, i) THEN b
          ELSE [b EXCEPT ![from].nlink = less, ![to].nlink = more]
    BY <1>2, <1>4 DEF WithEntries, Moved, rest, entries, less, more
  <2>3. QED
    BY <2>1, <2>2
<1>8. Rekeyed(t, from, name, to, as, b)
  <2>1. DOMAIN b = DOMAIN t /\ DOMAIN a = DOMAIN t /\ IsTree(b)
    BY <1>2, <1>4 DEF WithEntries
  <2>2. ASSUME NEW j \in DOMAIN t
        PROVE  /\ b[j].kind = t[j].kind /\ b[j].opens = t[j].opens
               /\ DOMAIN b[j].entries =
                    (DOMAIN t[j].entries \ (IF j = from THEN {name} ELSE {}))
                    \cup (IF j = to THEN {as} ELSE {})
    <3>1. /\ a[j].kind = t[j].kind /\ a[j].opens = t[j].opens
          /\ a[j].entries = IF j = from THEN rest ELSE t[j].entries
      BY <1>2 DEF WithEntries
    <3>2. /\ b[j].kind = a[j].kind /\ b[j].opens = a[j].opens
          /\ b[j].entries = IF j = to THEN entries ELSE a[j].entries
      BY <1>4, <2>1 DEF WithEntries
    <3>3. DOMAIN a[j].entries = DOMAIN t[j].entries \ (IF j = from THEN {name} ELSE {})
      BY <1>1, <3>1
    <3>4. DOMAIN b[j].entries = DOMAIN a[j].entries \cup (IF j = to THEN {as} ELSE {})
      BY <1>3, <3>2
    <3>5. QED
      BY <3>1, <3>2, <3>3, <3>4
  <2>3. QED
    BY <2>1, <2>2 DEF Rekeyed
<1>9. Rekeyed(t, from, name, to, as, e)
  <2>1. DOMAIN e = DOMAIN t /\ DOMAIN c = DOMAIN t /\ DOMAIN b = DOMAIN t /\ IsTree(e)
    BY <1>2, <1>4, <1>5, <1>6 DEF WithEntries, WithCount
  <2>2. \A j \in DOMAIN t : c[j].kind = b[j].kind /\ c[j].opens = b[j].opens /\ c[j].entries = b[j].entries
    BY <1>5, <2>1 DEF WithCount
  <2>3. \A j \in DOMAIN t : e[j].kind = c[j].kind /\ e[j].opens = c[j].opens /\ e[j].entries = c[j].entries
    BY <1>6, <2>1 DEF WithCount
  <2>4. ASSUME NEW j \in DOMAIN t
        PROVE  /\ e[j].kind = t[j].kind /\ e[j].opens = t[j].opens
               /\ DOMAIN e[j].entries =
                    (DOMAIN t[j].entries \ (IF j = from THEN {name} ELSE {}))
                    \cup (IF j = to THEN {as} ELSE {})
    <3>1. e[j].kind = b[j].kind /\ e[j].opens = b[j].opens /\ e[j].entries = b[j].entries
      BY <2>2, <2>3
    <3>2. /\ b[j].kind = t[j].kind /\ b[j].opens = t[j].opens
          /\ DOMAIN b[j].entries =
               (DOMAIN t[j].entries \ (IF j = from THEN {name} ELSE {}))
               \cup (IF j = to THEN {as} ELSE {})
      BY <1>8 DEF Rekeyed
    <3>3. QED
      BY <3>1, <3>2
  <2>5. QED
    BY <2>1, <2>4 DEF Rekeyed
<1>10. QED
  BY <1>7, <1>8, <1>9

\* The name an entry is moved to is free once the entry is gone.
LEMMA MovedKeeps ==
  ASSUME NEW t, Sound(t), NEW from, NEW name, NEW to, NEW as,
         ~caseSensitive /\ to \in DOMAIN t =>
           \A n \in DOMAIN t[to].entries :
             Folded[n] = Folded[as] => n = as \/ (from = to /\ n = name)
  PROVE  Keeps(t, Moved(t, from, name, to, as))
<1> DEFINE u == Moved(t, from, name, to, as)
<1>0. Rekeyed(t, from, name, to, as, u)
  BY MovedIs DEF Sound
<1> HIDE DEF u
<1>1. /\ IsTree(u) /\ DOMAIN u = DOMAIN t
      /\ \A j \in DOMAIN t :
           /\ u[j].kind = t[j].kind /\ u[j].opens = t[j].opens
           /\ DOMAIN u[j].entries =
                (DOMAIN t[j].entries \ (IF j = from THEN {name} ELSE {}))
                \cup (IF j = to THEN {as} ELSE {})
  BY <1>0 DEF Rekeyed
<1>2. OneSpelled(u)
  <2> SUFFICES ASSUME ~caseSensitive, NEW j \in DOMAIN u, NEW m \in DOMAIN u[j].entries,
                      NEW n \in DOMAIN u[j].entries, Folded[m] = Folded[n]
               PROVE  m = n
    BY DEF OneSpelled
  <2>1. j \in DOMAIN t
    BY <1>1
  <2>2. m \in DOMAIN t[j].entries /\ n \in DOMAIN t[j].entries => m = n
    BY <2>1 DEF Sound, OneSpelled
  <2>3. CASE j # to
    BY <1>1, <2>1, <2>2, <2>3
  <2>4. CASE j = to
    <3>1. \A x \in DOMAIN u[j].entries : Folded[x] = Folded[as] => x = as
      BY <1>1, <2>1, <2>4
    <3>2. \A x \in DOMAIN u[j].entries : x = as \/ x \in DOMAIN t[j].entries
      BY <1>1, <2>1
    <3>3. QED
      BY <3>1, <3>2, <2>2
  <2>5. QED
    BY <2>3, <2>4
<1>3. SameOpen(t, u)
  BY <1>1 DEF SameOpen
<1>4. Keeps(t, u)
  BY <1>1, <1>2, <1>3 DEF Keeps, Sound
<1>5. QED
  BY <1>4 DEF u

LEMMA RenameStays ==
  ASSUME Sound(inodes), NEW from, NEW to, Rename(from, to)
  PROVE  Stays
<1> DEFINE source == Parent(inodes, from).inode
           name == EntryName(inodes, from)
           i == EntryInode(inodes, from)
           dest == Parent(inodes, to).inode
           there == Stored(inodes, dest, Last(to))
           caseOnly == source = dest /\ there = {name}
           replaces == there # {} /\ ~caseOnly
           as == IF replaces THEN EntryName(inodes, to) ELSE Last(to)
           t == IF replaces THEN Detach(inodes, dest, as) ELSE inodes
<1>1. inodes' = Moved(t, source, name, dest, as) /\ UNCHANGED <<descriptors, caseSensitive>>
  BY DEF Rename, Commit
<1>2. EntryName(inodes, to) = CHOOSE n \in there : TRUE
  BY DEF EntryName
<1> HIDE DEF source, name, dest
<1>3. /\ Keeps(inodes, t)
      /\ ~caseSensitive /\ dest \in DOMAIN t =>
           \A n \in DOMAIN t[dest].entries :
             Folded[n] = Folded[as] => n = as \/ (source = dest /\ n = name)
  <2>1. CASE replaces
    <3>1. as \in there
      BY <1>2, <2>1
    <3>2. as \in DOMAIN inodes[dest].entries
      BY <3>1, StoredIs
    <3>3. t = Detach(inodes, dest, as)
      BY <2>1
    <3> HIDE DEF as, t
    <3>4. PICK u : /\ u = Detach(inodes, dest, as) /\ Keeps(inodes, u) /\ DOMAIN u \subseteq DOMAIN inodes
                   /\ as \in DOMAIN inodes[dest].entries =>
                        \A x : Folded[x] = Folded[as] => IsFree(u, dest, x)
      BY DetachedKeeps
    <3>5. IsFree(u, dest, as)
      BY <3>2, <3>4
    <3>6. QED
      BY <3>3, <3>4, <3>5 DEF IsFree
  <2>2. CASE there = {}
    <3>1. t = inodes /\ as = Last(to)
      BY <2>2
    <3>2. IsFree(inodes, dest, Last(to))
      BY <2>2, FreeWhenUnheld DEF Holds
    <3> HIDE DEF as, t, there
    <3>3. QED
      BY <3>1, <3>2, KeepsItself DEF IsFree
  <2>3. CASE caseOnly
    <3>1. t = inodes /\ as = Last(to)
      BY <2>3
    <3>2. name \in Stored(inodes, dest, Last(to)) /\ source = dest
      BY <2>3
    <3> HIDE DEF as, t, there
    <3>3. ASSUME ~caseSensitive, dest \in DOMAIN inodes,
                 NEW n \in DOMAIN inodes[dest].entries, Folded[n] = Folded[Last(to)]
          PROVE  n = name
      BY <3>2, <3>3, StoredAlone
    <3>4. QED
      BY <3>1, <3>2, <3>3, KeepsItself
  <2>4. QED
    BY <2>1, <2>2, <2>3
<1> HIDE DEF t, as
<1>4. Keeps(t, Moved(t, source, name, dest, as))
  BY <1>3, MovedKeeps DEF Keeps
<1>5. Keeps(inodes, Moved(t, source, name, dest, as))
  BY <1>3, <1>4, KeepsBoth
<1>6. QED
  BY <1>1, <1>5 DEF Stays

LEMMA SizedKeeps ==
  ASSUME NEW t, Sound(t), NEW i, NEW size
  PROVE  Keeps(t, [t EXCEPT ![i].size = size])
<1>1. PICK u : WithSize(t, i, size, u)
  BY SizeWritten DEF Sound
<1>2. /\ u = [t EXCEPT ![i].size = size] /\ IsTree(u) /\ DOMAIN u = DOMAIN t
      /\ \A j \in DOMAIN t : /\ u[j].kind = t[j].kind /\ u[j].opens = t[j].opens
                             /\ u[j].entries = t[j].entries
  BY <1>1 DEF WithSize
<1>3. OneSpelled(u)
  BY <1>2 DEF Sound, OneSpelled
<1>4. SameOpen(t, u)
  BY <1>2 DEF SameOpen
<1>5. Keeps(t, u)
  BY <1>2, <1>3, <1>4 DEF Keeps, Sound
<1>6. QED
  BY <1>2, <1>5

LEMMA CopyFileStays ==
  ASSUME Sound(inodes), NEW from, NEW to, CopyFile(from, to)
  PROVE  Stays
<1> DEFINE landing == Landing(inodes, to)
           source == Resolve(inodes, from, TRUE).inode
           at == landing.at
           path == IF Found(at) THEN at.path ELSE landing.to
           node == [New("file") EXCEPT !.size = inodes[source].size]
           new == Attach(Added(inodes, node), Parent(inodes, path).inode, Last(path), Min(Unused(inodes)))
           old == [inodes EXCEPT ![at.inode].size = inodes[source].size]
<1> HIDE DEF landing
<1>1. /\ inodes' = IF Found(at) THEN old ELSE new
      /\ UNCHANGED <<descriptors, caseSensitive>>
      /\ HasParent(inodes, path)
      /\ ~Found(at) => ~HasEntry(inodes, path) /\ Unused(inodes) # {}
  BY DEF CopyFile, CopyFileOnto, Commit, landing
<1>2. CASE Found(at)
  <2>1. Keeps(inodes, old)
    BY SizedKeeps
  <2>2. inodes' = old
    BY <1>1, <1>2
  <2>3. QED
    BY <1>1, <2>1, <2>2 DEF Stays
<1>3. CASE ~Found(at)
  <2>1. IsNew(node)
    BY SizedIsNew
  <2>2. inodes' = new
    BY <1>1, <1>3
  <2>3. HasParent(inodes, path) /\ ~HasEntry(inodes, path) /\ Unused(inodes) # {}
    BY <1>1, <1>3
  <2> HIDE DEF node, path
  <2>4. Keeps(inodes, new)
    BY <2>1, <2>3, MadeThere
  <2>5. QED
    BY <1>1, <2>2, <2>4 DEF Stays
<1>4. QED
  BY <1>2, <1>3
----------------------------------------------------------------------------
(* Open files. *)

LEMMA OpenedKeeps ==
  ASSUME Sound(inodes), NEW path, NEW landing, NEW mode, NEW noFollow,
         Openable(inodes, path, landing, mode, noFollow)
  PROVE  Keeps(inodes, OpenedTree(inodes, landing, mode))
<1>1. CASE ~Found(landing.at)
  <2> DEFINE new == Attach(Added(inodes, New("file")), Parent(inodes, landing.to).inode,
                           Last(landing.to), Min(Unused(inodes)))
  <2>1. OpenedTree(inodes, landing, mode) = new
    BY <1>1 DEF OpenedTree, OpenedInode
  <2>2. HasParent(inodes, landing.to) /\ ~HasEntry(inodes, landing.to) /\ Unused(inodes) # {}
    BY <1>1 DEF Openable
  <2>3. Keeps(inodes, new)
    BY <2>2, NewIs, MadeThere
  <2>4. QED
    BY <2>1, <2>3
<1>2. CASE Found(landing.at)
  <2> DEFINE emptied == [inodes EXCEPT ![landing.at.inode].size = 0]
  <2>1. OpenedTree(inodes, landing, mode) = IF mode.truncate THEN emptied ELSE inodes
    BY <1>2 DEF OpenedTree
  <2>2. Keeps(inodes, emptied)
    BY SizedKeeps
  <2>3. QED
    BY <2>1, <2>2, KeepsItself
<1>3. QED
  BY <1>1, <1>2

LEMMA WriteFileStays ==
  ASSUME Sound(inodes), NEW path, NEW flag, NEW bytes, WriteFile(path, flag, bytes)
  PROVE  Stays
<1> DEFINE landing == Landing(inodes, path)
           mode == Mode(flag)
           opened == OpenedTree(inodes, landing, mode)
           d == [inode |-> OpenedInode(inodes, landing), mode |-> mode, position |-> 0]
           t == IF bytes = 0 THEN opened ELSE Written(opened, d)
<1> HIDE DEF landing, mode
<1>1. /\ inodes' = t /\ Openable(inodes, path, landing, mode, FALSE)
      /\ UNCHANGED <<descriptors, caseSensitive>>
  BY DEF WriteFile, WriteFileAt, Commit, landing, mode
<1>2. Keeps(inodes, opened)
  BY <1>1, OpenedKeeps
<1> HIDE DEF opened, d
<1>3. Keeps(opened, Written(opened, d))
  <2>1. Sound(opened)
    BY <1>2 DEF Keeps
  <2> DEFINE size == Max({opened[d.inode].size, EndOfWrite(opened, d)})
  <2>2. Keeps(opened, [opened EXCEPT ![d.inode].size = size])
    BY <2>1, SizedKeeps
  <2>3. QED
    BY <2>2 DEF Written
<1>4. Keeps(inodes, t)
  BY <1>2, <1>3, KeepsBoth
<1>5. QED
  BY <1>1, <1>4 DEF Stays

\* An operation on open files that opens and closes none.
StaysOpen == Keeps(inodes, inodes') /\ DOMAIN descriptors' = DOMAIN descriptors /\ UNCHANGED caseSensitive

LEMMA WriteStays ==
  ASSUME Sound(inodes), NEW fd, Write(fd)
  PROVE  StaysOpen
<1> DEFINE d == descriptors[fd]
           size == Max({inodes[d.inode].size, EndOfWrite(inodes, d)})
<1>1. /\ inodes' = Written(inodes, d) /\ UNCHANGED caseSensitive
      /\ DOMAIN descriptors' = DOMAIN descriptors
  BY DEF Write, Commit
<1>2. Keeps(inodes, [inodes EXCEPT ![d.inode].size = size])
  BY SizedKeeps
<1>3. Written(inodes, d) = [inodes EXCEPT ![d.inode].size = size]
  BY DEF Written
<1>4. QED
  BY <1>1, <1>2, <1>3 DEF StaysOpen

LEMMA TruncateFileStays ==
  ASSUME Sound(inodes), NEW fd, NEW size, TruncateFile(fd, size)
  PROVE  StaysOpen
<1> DEFINE d == descriptors[fd]
<1>1. /\ inodes' = [inodes EXCEPT ![d.inode].size = size] /\ UNCHANGED caseSensitive
      /\ DOMAIN descriptors' = DOMAIN descriptors
  BY DEF TruncateFile, Commit
<1>2. Keeps(inodes, [inodes EXCEPT ![d.inode].size = size])
  BY SizedKeeps
<1>3. QED
  BY <1>1, <1>2 DEF StaysOpen

LEMMA TruncateStays ==
  ASSUME Sound(inodes), NEW path, NEW size, Truncate(path, size)
  PROVE  Stays
<1> DEFINE i == Resolve(inodes, path, TRUE).inode
<1>1. inodes' = [inodes EXCEPT ![i].size = size] /\ UNCHANGED <<descriptors, caseSensitive>>
  BY DEF Truncate, Commit
<1>2. Keeps(inodes, [inodes EXCEPT ![i].size = size])
  BY SizedKeeps
<1>3. QED
  BY <1>1, <1>2 DEF Stays

LEMMA TouchStays ==
  ASSUME Sound(inodes), NEW path, Touch(path)
  PROVE  Stays
BY KeepsItself DEF Touch, Commit, Stays

LEMMA ReadStays ==
  ASSUME Sound(inodes), NEW fd, Read(fd) \/ Seek(fd)
  PROVE  StaysOpen
<1>1. /\ inodes' = inodes /\ UNCHANGED caseSensitive
      /\ DOMAIN descriptors' = DOMAIN descriptors
  BY DEF Read, Seek, Commit
<1>2. QED
  BY <1>1, KeepsItself DEF StaysOpen
----------------------------------------------------------------------------
(* Temporary files. *)

LEMMA TempTreeKeeps ==
  ASSUME Sound(inodes), NEW name, MayMakeTemp(name)
  PROVE  /\ Keeps(inodes, TempTree(name))
         /\ DOMAIN TempTree(name) = DOMAIN inodes \cup {Min(Unused(inodes))}
         /\ IsFree(TempTree(name), Min(Unused(inodes)), name)
<1> DEFINE d == Resolve(inodes, <<Temp>>, TRUE).inode
           new == Min(Unused(inodes))
           node == New("dir")
<1>1. ~Holds(inodes, d, name) /\ Unused(inodes) # {}
  BY DEF MayMakeTemp
<1>2. IsFree(inodes, d, name) /\ new \notin DOMAIN inodes
  BY <1>1, FreeWhenUnheld, Fresh
<1>3. IsNew(node)
  BY NewIs
<1> HIDE DEF d, new, node
<1>4. Keeps(inodes, Attach(Put(inodes, new, node), d, name, new))
  BY <1>2, <1>3, MadeKeeps
<1>5. TempTree(name) = Attach(Put(inodes, new, node), d, name, new)
  BY DEF TempTree, Added, d, new, node
<1>6. PICK u : Grown(inodes, new, node, u)
  <2>1. IsTree(inodes) /\ OneSpelled(inodes)
    BY DEF Sound
  <2>2. QED
    BY <1>2, <1>3, <2>1, AddedKeeps
<1>7. u = Put(inodes, new, node) /\ IsTree(u) /\ DOMAIN u = DOMAIN inodes \cup {new} /\ u[new] = node
  BY <1>6 DEF Grown
<1>8. PICK v : /\ v = Attach(u, d, name, new) /\ IsTree(v) /\ DOMAIN v = DOMAIN u
               /\ \A j \in DOMAIN u :
                    /\ v[j].kind = u[j].kind /\ v[j].opens = u[j].opens
                    /\ DOMAIN v[j].entries = DOMAIN u[j].entries \cup (IF j = d THEN {name} ELSE {})
  BY <1>7, AttachIs
<1>9. DOMAIN v[new].entries \subseteq {name}
  BY <1>3, <1>7, <1>8 DEF IsNew, NoEntries
<1>10. IsFree(v, new, name)
  BY <1>9 DEF IsFree
<1>11. v = TempTree(name)
  BY <1>5, <1>7, <1>8
<1>12. QED
  BY <1>4, <1>5, <1>7, <1>8, <1>10, <1>11 DEF new

LEMMA MakeTempDirectoryStays ==
  ASSUME Sound(inodes), NEW name, MakeTempDirectory(name)
  PROVE  Stays
<1>1. inodes' = TempTree(name) /\ MayMakeTemp(name) /\ UNCHANGED <<descriptors, caseSensitive>>
  BY DEF MakeTempDirectory, Commit
<1>2. Keeps(inodes, TempTree(name))
  BY <1>1, TempTreeKeeps
<1>3. QED
  BY <1>1, <1>2 DEF Stays

LEMMA MakeTempFileStays ==
  ASSUME Sound(inodes), NEW name, MakeTempFile(name)
  PROVE  Stays
<1> DEFINE dir == Min(Unused(inodes))
           with == TempTree(name)
           new == Min(Unused(with))
           node == New("file")
<1>1. /\ inodes' = Attach(Added(with, node), dir, name, new)
      /\ MayMakeTemp(name) /\ Cardinality(Unused(inodes)) > 1
      /\ UNCHANGED <<descriptors, caseSensitive>>
  BY DEF MakeTempFile
<1>2. Keeps(inodes, with) /\ DOMAIN with = DOMAIN inodes \cup {dir} /\ IsFree(with, dir, name)
  BY <1>1, TempTreeKeeps
<1>3. Unused(with) # {}
  <2> SUFFICES ASSUME Unused(with) = {} PROVE FALSE
    OBVIOUS
  <2>1. Unused(inodes) \subseteq {dir}
    BY <1>2 DEF Unused
  <2>2. Cardinality({dir}) = 1 /\ IsFiniteSet({dir})
    BY FS_Singleton
  <2> HIDE DEF dir
  <2>3. Cardinality(Unused(inodes)) <= 1
    BY <2>1, <2>2, FS_Subset
  <2>4. Cardinality(Unused(inodes)) \in Nat
    BY <2>1, <2>2, FS_Subset, FS_CardinalityType
  <2>5. QED
    BY <1>1, <2>3, <2>4
<1>4. new \notin DOMAIN with
  BY <1>3, Fresh
<1>5. IsNew(node)
  BY NewIs
<1> HIDE DEF dir, with, new, node
<1>6. Keeps(with, Attach(Put(with, new, node), dir, name, new))
  BY <1>2, <1>4, <1>5, MadeKeeps DEF Keeps
<1>7. Keeps(inodes, Attach(Put(with, new, node), dir, name, new))
  BY <1>2, <1>6, KeepsBoth
<1>8. inodes' = Attach(Put(with, new, node), dir, name, new)
  BY <1>1 DEF Added, new
<1>9. QED
  BY <1>1, <1>7, <1>8 DEF Stays
----------------------------------------------------------------------------
(* The invariant. *)

Counted(t) == \A i \in DOMAIN t : t[i].opens \in Int

IInv == Sound(inodes) /\ Counted(inodes)

\* An open file stays, whatever happens to its names.  Its count goes up with
\* the descriptors opened on it and down with those closed, and when it goes
\* that was its last, and it had no name any more.
OpenFileStays(i) ==
  LET opened == {fd \in DOMAIN descriptors' \ DOMAIN descriptors : descriptors'[fd].inode = i}
      closed == {fd \in DOMAIN descriptors \ DOMAIN descriptors' : descriptors[fd].inode = i}
      still(opens) == /\ i \in DOMAIN inodes' /\ inodes'[i].kind = inodes[i].kind
                      /\ inodes'[i].opens = opens
  IN  \/ opened = {} /\ closed = {} /\ still(inodes[i].opens)
      \/ closed = {} /\ (\E fd \in opened : opened = {fd}) /\ still(inodes[i].opens + 1)
      \/ opened = {} /\ (\E fd \in closed : closed = {fd}) /\ still(inodes[i].opens - 1)
      \/ /\ opened = {} /\ (\E fd \in closed : closed = {fd}) /\ i \notin DOMAIN inodes'
         /\ inodes[i].opens = 1 /\ inodes[i].nlink = 0

OpenFilesStay == \A i \in DOMAIN inodes : inodes[i].opens # 0 => OpenFileStays(i)

LEMMA CountedKeeps ==
  ASSUME NEW t, NEW u, Counted(t), SameOpen(t, u)
  PROVE  Counted(u)
<1> SUFFICES ASSUME NEW i \in DOMAIN u PROVE u[i].opens \in Int
  BY DEF Counted
<1>1. CASE u[i].opens = 0
  BY <1>1
<1>2. CASE u[i].opens # 0
  BY <1>2 DEF SameOpen, Counted
<1>3. QED
  BY <1>1, <1>2

LEMMA InvAfter ==
  ASSUME IsTree(inodes'), OneSpelled(inodes'), Counted(inodes'), UNCHANGED caseSensitive
  PROVE  IInv'
BY DEF IInv, Sound, OneSpelled, Counted

LEMMA StaysOpenHolds ==
  ASSUME IInv, StaysOpen
  PROVE  IInv' /\ OpenFilesStay
<1>1. Keeps(inodes, inodes') /\ DOMAIN descriptors' = DOMAIN descriptors /\ UNCHANGED caseSensitive
  BY DEF StaysOpen
<1>2. IsTree(inodes') /\ OneSpelled(inodes') /\ SameOpen(inodes, inodes')
  BY <1>1 DEF Keeps, Sound
<1>3. Counted(inodes')
  BY <1>2, CountedKeeps DEF IInv
<1>4. IInv'
  BY <1>1, <1>2, <1>3 DEF IInv, Sound, OneSpelled, Counted
<1>5. OpenFilesStay
  BY <1>1, <1>2 DEF OpenFilesStay, OpenFileStays, SameOpen
<1>6. QED
  BY <1>4, <1>5

LEMMA StaysHolds ==
  ASSUME IInv, Stays
  PROVE  IInv' /\ OpenFilesStay
BY StaysOpenHolds DEF Stays, StaysOpen

LEMMA OpenHolds ==
  ASSUME IInv, NEW fd, NEW path, NEW flag, NEW noFollow, Open(fd, path, flag, noFollow)
  PROVE  IInv' /\ OpenFilesStay
<1> DEFINE landing == Landing(inodes, path)
           mode == Mode(flag)
           i == OpenedInode(inodes, landing)
           t == OpenedTree(inodes, landing, mode)
           d == [inode |-> i, mode |-> mode, position |-> 0]
           more == t[i].opens + 1
<1> HIDE DEF landing, mode
<1>1. /\ fd \notin DOMAIN descriptors /\ Openable(inodes, path, landing, mode, noFollow)
      /\ inodes' = [t EXCEPT ![i].opens = more] /\ UNCHANGED caseSensitive
      /\ descriptors' = Put(descriptors, fd, d)
  BY DEF Open, OpenAt, Commit, landing, mode
<1>2. Keeps(inodes, t)
  BY <1>1, OpenedKeeps DEF IInv
<1>3. IsTree(t) /\ OneSpelled(t) /\ SameOpen(inodes, t)
  BY <1>2 DEF Keeps, Sound
<1>4. Counted(t)
  BY <1>3, CountedKeeps DEF IInv
<1>5. d.inode = i
  OBVIOUS
<1> HIDE DEF i, t, d, more
<1>6. PICK u : WithOpens(t, i, more, u)
  BY <1>3, OpensWritten
<1>7. /\ inodes' = u /\ IsTree(u) /\ DOMAIN u = DOMAIN t
      /\ \A j \in DOMAIN t : /\ u[j].kind = t[j].kind /\ u[j].entries = t[j].entries
                             /\ u[j].opens = IF j = i THEN more ELSE t[j].opens
  BY <1>1, <1>6 DEF WithOpens
<1>8. OneSpelled(u)
  BY <1>3, <1>7 DEF OneSpelled
<1>9. Counted(u)
  BY <1>4, <1>7 DEF Counted, more
<1>10. IInv'
  <2>1. IsTree(inodes') /\ OneSpelled(inodes') /\ Counted(inodes') /\ UNCHANGED caseSensitive
    BY <1>1, <1>7, <1>8, <1>9
  <2>2. QED
    BY <2>1, InvAfter
<1>11. /\ DOMAIN descriptors' = DOMAIN descriptors \cup {fd} /\ descriptors'[fd].inode = i
  BY <1>1, <1>5 DEF Put
<1>12. ASSUME NEW j \in DOMAIN inodes, inodes[j].opens # 0
       PROVE  OpenFileStays(j)
  <2>1. j \in DOMAIN t /\ t[j].opens = inodes[j].opens /\ t[j].kind = inodes[j].kind
    BY <1>3, <1>12 DEF SameOpen
  <2>2. j \in DOMAIN inodes' /\ inodes'[j].kind = inodes[j].kind
    BY <1>7, <2>1
  <2>3. {g \in DOMAIN descriptors \ DOMAIN descriptors' : descriptors[g].inode = j} = {}
    BY <1>11
  <2>4. CASE j = i
    <3>1. {g \in DOMAIN descriptors' \ DOMAIN descriptors : descriptors'[g].inode = j} = {fd}
      BY <1>1, <1>11, <2>4
    <3>2. inodes'[j].opens = inodes[j].opens + 1
      BY <1>7, <2>1, <2>4 DEF more
    <3>3. QED
      BY <2>2, <2>3, <3>1, <3>2 DEF OpenFileStays
  <2>5. CASE j # i
    <3>1. {g \in DOMAIN descriptors' \ DOMAIN descriptors : descriptors'[g].inode = j} = {}
      BY <1>1, <1>11, <2>5
    <3>2. inodes'[j].opens = inodes[j].opens
      BY <1>7, <2>1, <2>5
    <3>3. QED
      BY <2>2, <2>3, <3>1, <3>2 DEF OpenFileStays
  <2>6. QED
    BY <2>4, <2>5
<1>13. QED
  BY <1>10, <1>12 DEF OpenFilesStay

LEMMA CloseHolds ==
  ASSUME IInv, NEW fd, Close(fd)
  PROVE  IInv' /\ OpenFilesStay
<1> DEFINE i == descriptors[fd].inode
           less == inodes[i].opens - 1
<1>1. /\ fd \in DOMAIN descriptors
      /\ inodes' = Reclaimed([inodes EXCEPT ![i].opens = less], {i})
      /\ descriptors' = Restrict(descriptors, DOMAIN descriptors \ {fd})
      /\ UNCHANGED caseSensitive
  BY DEF Close, Closed, Commit
<1>2. IsTree(inodes) /\ OneSpelled(inodes) /\ Counted(inodes)
  BY DEF IInv, Sound
<1>3. DOMAIN descriptors' = DOMAIN descriptors \ {fd}
  BY <1>1 DEF Restrict
<1> HIDE DEF less
<1>4. PICK t : WithOpens(inodes, i, less, t)
  BY <1>2, OpensWritten
<1>5. /\ t = [inodes EXCEPT ![i].opens = less] /\ IsTree(t) /\ DOMAIN t = DOMAIN inodes
      /\ \A j \in DOMAIN inodes : /\ t[j].kind = inodes[j].kind /\ t[j].entries = inodes[j].entries
                                  /\ t[j].opens = IF j = i THEN less ELSE inodes[j].opens
  BY <1>4 DEF WithOpens
<1>50. /\ IsTree(t) /\ DOMAIN t = DOMAIN inodes
       /\ \A j \in DOMAIN inodes : /\ t[j].kind = inodes[j].kind /\ t[j].entries = inodes[j].entries
                                   /\ t[j].opens = IF j = i THEN less ELSE inodes[j].opens
  BY <1>5
<1>6. inodes' = Reclaimed(t, {i})
  BY <1>1, <1>5
<1> HIDE DEF i
<1>7. /\ IsTree(inodes') /\ DOMAIN inodes' \subseteq DOMAIN t /\ \A j \in DOMAIN inodes' : inodes'[j] = t[j]
  BY ZenonT(30), <1>5, <1>6, ReclaimedKeeps
<1>8. \A j \in DOMAIN t : j \in DOMAIN inodes' \/ (j = i /\ t[j].nlink = 0 /\ t[j].opens = 0)
  BY <1>6 DEF Reclaimed, Restrict
<1>9. OneSpelled(inodes')
  <2>1. \A j \in DOMAIN inodes' : j \in DOMAIN inodes /\ inodes'[j].entries = inodes[j].entries
    BY <1>50, <1>7
  <2>2. QED
    BY <1>2, <2>1 DEF OneSpelled
<1>10. Counted(inodes')
  <2>1. \A j \in DOMAIN inodes' : j \in DOMAIN inodes /\ inodes'[j].opens = IF j = i THEN less ELSE inodes[j].opens
    BY <1>50, <1>7
  <2>2. i \in DOMAIN inodes => less \in Int
    BY <1>2 DEF Counted, less
  <2>3. QED
    BY <1>2, <2>1, <2>2 DEF Counted
<1>11. IInv'
  <2>1. IsTree(inodes') /\ OneSpelled(inodes') /\ Counted(inodes') /\ UNCHANGED caseSensitive
    BY <1>1, <1>7, <1>9, <1>10
  <2>2. QED
    BY <2>1, InvAfter
<1>12. ASSUME NEW j \in DOMAIN inodes, inodes[j].opens # 0
       PROVE  OpenFileStays(j)
  <2>1. {g \in DOMAIN descriptors' \ DOMAIN descriptors : descriptors'[g].inode = j} = {}
    BY <1>3
  <2>2. CASE j # i
    <3>1. {g \in DOMAIN descriptors \ DOMAIN descriptors' : descriptors[g].inode = j} = {}
      BY <1>3, <2>2 DEF i
    <3>2. j \in DOMAIN inodes' /\ inodes'[j].kind = inodes[j].kind /\ inodes'[j].opens = inodes[j].opens
      BY <1>5, <1>7, <1>8, <2>2
    <3>3. QED
      BY <2>1, <3>1, <3>2 DEF OpenFileStays
  <2>3. CASE j = i
    <3>1. {g \in DOMAIN descriptors \ DOMAIN descriptors' : descriptors[g].inode = j} = {fd}
      BY <1>1, <1>3, <2>3 DEF i
    <3>2. t[j].opens = inodes[j].opens - 1 /\ t[j].kind = inodes[j].kind
      BY <1>5, <2>3 DEF less
    <3>3. CASE j \in DOMAIN inodes'
      <4>1. inodes'[j].kind = inodes[j].kind /\ inodes'[j].opens = inodes[j].opens - 1
        BY <1>7, <3>2, <3>3
      <4>2. QED
        BY <2>1, <3>1, <3>3, <4>1 DEF OpenFileStays
    <3>4. CASE j \notin DOMAIN inodes'
      <4>1. t[j].nlink = 0 /\ t[j].opens = 0
        BY <1>5, <1>8, <3>4
      <4>2. inodes[j].opens = 1
        BY <1>2, <3>2, <4>1 DEF Counted
      <4>3. inodes[j].nlink = 0
        BY <4>1, <1>5 DEF IsTree, IsNode
      <4>4. QED
        BY <2>1, <3>1, <3>4, <4>2, <4>3 DEF OpenFileStays
    <3>5. QED
      BY <3>3, <3>4
  <2>4. QED
    BY <2>2, <2>3
<1>13. QED
  BY <1>11, <1>12 DEF OpenFilesStay
----------------------------------------------------------------------------
(* The steps. *)

LEMMA InitHolds ==
  ASSUME Init
  PROVE  IInv
<1> DEFINE node == [New("dir") EXCEPT !.nlink = 2]
           root == [i \in {Root} |-> node]
           new == Min(Unused(root))
           t == Attach(Added(root, New("dir")), Root, Temp, new)
<1>0. inodes = t
  BY DEF Init
<1>1. node = [kind |-> "dir", entries |-> NoEntries, opens |-> 0, size |-> 0,
              nlink |-> 2, target |-> NoTarget]
  BY DEF New
<1>2. IsNode(node) /\ node.entries = NoEntries /\ node.opens = 0
  BY <1>1 DEF IsNode
<1> HIDE DEF node
<1>3. DOMAIN root = {Root} /\ root[Root] = node /\ root = [i \in DOMAIN root |-> root[i]]
  OBVIOUS
<1> HIDE DEF root
<1>4. Sound(root) /\ Counted(root) /\ IsFree(root, Root, Temp)
  BY <1>2, <1>3 DEF Sound, IsTree, OneSpelled, Counted, IsFree, NoEntries
<1>5. Unused(root) # {}
  BY <1>3, VolumeAssumption DEF Unused
<1>6. new \notin DOMAIN root
  BY <1>5, Fresh
<1> HIDE DEF new
<1>7. Keeps(root, Attach(Put(root, new, New("dir")), Root, Temp, new))
  BY <1>4, <1>6, NewIs, MadeKeeps
<1>8. t = Attach(Put(root, new, New("dir")), Root, Temp, new)
  BY DEF Added, new
<1> HIDE DEF t
<1>9. Keeps(root, t)
  BY <1>7, <1>8
<1>10. Sound(t) /\ Counted(t)
  BY <1>4, <1>9, CountedKeeps DEF Keeps
<1>11. QED
  BY <1>0, <1>10 DEF IInv

LEMMA NamespaceHolds ==
  ASSUME IInv, Namespace(Paths)
  PROVE  IInv' /\ OpenFilesStay
<1>0. Sound(inodes)
  BY DEF IInv
<1>1. ASSUME NEW path \in Paths, NEW recursive, MakeDirectory(path, recursive)
      PROVE  Stays
  BY <1>0, <1>1, MakeDirectoryKeeps DEF Stays
<1>2. ASSUME NEW path \in Paths, NEW recursive, RemovePath(path, recursive)
      PROVE  Stays
  BY <1>0, <1>2, RemovePathStays
<1>3. ASSUME NEW from, NEW to, Link(from, to) \/ Rename(from, to) \/ CopyFile(from, to)
      PROVE  Stays
  <2>1. CASE Link(from, to)
    BY <1>0, <2>1, LinkStays
  <2>2. CASE Rename(from, to)
    BY <1>0, <2>2, RenameStays
  <2>3. CASE CopyFile(from, to)
    BY <1>0, <2>3, CopyFileStays
  <2>4. QED
    BY <1>3, <2>1, <2>2, <2>3
<1>4. ASSUME NEW from, NEW to, NEW overwrite, Copy(from, to, overwrite)
      PROVE  Stays
  BY <1>0, <1>4, CopyStays
<1>5. ASSUME NEW target, NEW path, Symlink(target, path)
      PROVE  Stays
  BY <1>0, <1>5, SymlinkStays
<1>6. ASSUME NEW path, Truncate(path, 0) \/ Touch(path)
      PROVE  Stays
  BY <1>0, <1>6, TruncateStays, TouchStays
<1>7. ASSUME NEW path, NEW flag, WriteFile(path, flag, 0)
      PROVE  Stays
  BY <1>0, <1>7, WriteFileStays
<1>8. ASSUME NEW name, MakeTempDirectory(name) \/ MakeTempFile(name)
      PROVE  Stays
  <2>1. CASE MakeTempDirectory(name)
    BY <1>0, <2>1, MakeTempDirectoryStays
  <2>2. CASE MakeTempFile(name)
    BY <1>0, <2>2, MakeTempFileStays
  <2>3. QED
    BY <1>8, <2>1, <2>2
<1>9. Stays
  BY <1>1, <1>2, <1>3, <1>4, <1>5, <1>6, <1>7, <1>8 DEF Namespace
<1>10. QED
  BY <1>9, StaysHolds

LEMMA FilesHolds ==
  ASSUME IInv, Files(Paths)
  PROVE  IInv' /\ OpenFilesStay
<1>0. Sound(inodes)
  BY DEF IInv
<1>1. ASSUME NEW fd, NEW path, NEW flag, NEW noFollow, Open(fd, path, flag, noFollow)
      PROVE  IInv' /\ OpenFilesStay
  BY <1>1, OpenHolds
<1>2. ASSUME NEW fd, Close(fd)
      PROVE  IInv' /\ OpenFilesStay
  BY <1>2, CloseHolds
<1>3. ASSUME NEW fd, Write(fd) \/ Read(fd) \/ Seek(fd)
      PROVE  IInv' /\ OpenFilesStay
  <2>1. StaysOpen
    <3>1. CASE Write(fd)
      BY <1>0, <3>1, WriteStays
    <3>2. CASE Read(fd) \/ Seek(fd)
      BY <1>0, <3>2, ReadStays
    <3>3. QED
      BY <1>3, <3>1, <3>2
  <2>2. QED
    BY <2>1, StaysOpenHolds
<1>4. ASSUME NEW fd, NEW size, TruncateFile(fd, size)
      PROVE  IInv' /\ OpenFilesStay
  BY <1>0, <1>4, TruncateFileStays, StaysOpenHolds
<1>5. ASSUME NEW path, Truncate(path, MaxSize)
      PROVE  IInv' /\ OpenFilesStay
  BY <1>0, <1>5, TruncateStays, StaysHolds
<1>6. ASSUME NEW path, NEW flag, WriteFile(path, flag, 1)
      PROVE  IInv' /\ OpenFilesStay
  BY <1>0, <1>6, WriteFileStays, StaysHolds
<1>7. QED
  BY <1>1, <1>2, <1>3, <1>4, <1>5, <1>6 DEF Files

LEMMA NextHolds ==
  ASSUME IInv, [Next]_vars
  PROVE  IInv' /\ OpenFilesStay
<1>1. CASE Namespace(Paths)
  BY <1>1, NamespaceHolds
<1>2. CASE Files(Paths)
  BY <1>2, FilesHolds
<1>3. CASE Watching(Paths) \/ UNCHANGED vars
  <2>1. UNCHANGED <<inodes, descriptors, caseSensitive>>
    BY <1>3 DEF Watching, Watch, StartStream, Take, Unwatch, vars
  <2>2. Stays
    BY <2>1, KeepsItself DEF Stays, IInv
  <2>3. QED
    BY <2>2, StaysHolds
<1>4. QED
  BY <1>1, <1>2, <1>3 DEF Next
----------------------------------------------------------------------------

\* A volume that folds case never holds two spellings of one name in one
\* directory, whichever operations came before, whatever paths they were given.
THEOREM OneSpellingHolds == Spec => []OneSpelling
<1>1. Init => IInv
  BY InitHolds
<1>2. IInv /\ [Next]_vars => IInv'
  BY NextHolds
<1>3. IInv => OneSpelling
  BY DEF IInv, Sound, OneSpelled, OneSpelling
<1>4. QED
  BY <1>1, <1>2, <1>3, PTL DEF Spec

\* An open file stays whatever happens to its names; its count follows the
\* descriptors on it, and only closing the last of a file without a name
\* takes it away.
THEOREM OpenFilesStayHolds == Spec => [][OpenFilesStay]_vars
<1>1. Init => IInv
  BY InitHolds
<1>2. IInv /\ [Next]_vars => IInv'
  BY NextHolds
<1>3. IInv /\ [Next]_vars => [OpenFilesStay]_vars
  BY NextHolds
<1>4. QED
  BY <1>1, <1>2, <1>3, PTL DEF Spec
=============================================================================
