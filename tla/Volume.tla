------------------------------- MODULE Volume -------------------------------
(* The in-memory volume (packages/memfs/src/internal/volume.ts).            *)
(*                                                                          *)
(* A POSIX tree of inodes, the descriptors open on it and the watches over  *)
(* it.  Every operation is one transition under one permit: it computes a   *)
(* new state from the old, and a failure on the way drops what it computed, *)
(* so an operation that fails is no step here.  What interleaves are the    *)
(* operations themselves, with descriptors that outlive the names they were *)
(* opened by, and the consumer of a watch.                                  *)
(*                                                                          *)
(* A path is a sequence of names without "." and empty components.  Of an   *)
(* inode's metadata only the counts are kept, of its bytes their number.    *)
(* An inode number stands for an identity: one that is in use nowhere may   *)
(* come again.                                                              *)
EXTENDS Naturals, SequencesExt

CONSTANTS
  Names,         \* entry names, in every spelling
  Folded,        \* toLowerCase
  Temp,          \* the name of TEMP_DIR
  TempNames,     \* names with a token of the volume in them: no caller has one
  Up,            \* the component ".."
  Paths,         \* the paths operations are given
  Targets,       \* the targets links are made with
  Inodes,        \* bound: as many inodes as there are at once
  Descriptors,   \* bound: as many open files
  MaxSize,       \* bound: file sizes
  Flags,         \* the flags files are opened with
  Watchers,
  MaxTraversal,  \* MAX_LINK_TRAVERSAL
  CaseSensitive  \* the settings a volume may be built with

Root == 1
Nowhere == 0
NoEntries == [n \in {} |-> Nowhere]
NoTarget == [absolute |-> FALSE, names |-> <<>>]

ASSUME VolumeAssumption ==
  /\ Folded \in [Names -> Names] /\ Temp \in Names /\ TempNames \subseteq Names /\ Up \notin Names
  /\ Paths \subseteq Seq(Names) \ {<<>>}
  /\ Targets \subseteq [absolute : BOOLEAN, names : Seq(Names \cup {Up})]
  /\ Inodes \subseteq Nat \ {Nowhere} /\ Root \in Inodes /\ Inodes # {Root}
  /\ IsFiniteSet(Inodes) /\ IsFiniteSet(Names)
  /\ MaxSize \in Nat /\ MaxTraversal \in Nat /\ CaseSensitive \subseteq BOOLEAN

VARIABLES
  inodes,         \* what every live inode is
  descriptors,    \* what every open descriptor refers to
  caseSensitive,
  watchers,       \* the subscriptions, and what their consumers have seen
  unannounced     \* history: the directories of makeTempFile

vars == <<inodes, descriptors, caseSensitive, watchers, unannounced>>

------------------------------------------------------------------------------
(* Entries.  The operators below take the inodes they look at, t, since a    *)
(* transition looks at the states it passes through as well.                 *)

New(kind) == [kind |-> kind, entries |-> NoEntries, opens |-> 0, size |-> 0,
              nlink |-> IF kind = "dir" THEN 1 ELSE 0, target |-> NoTarget]

IsDir(t, i) == t[i].kind = "dir"

\* An entry is made or replaced.
Put(f, key, value) == [k \in DOMAIN f \cup {key} |-> IF k = key THEN value ELSE f[k]]

\* A lookup that does not fold.
StoredAsSpelled(t, d, name) == {name} \cap DOMAIN t[d].entries

\* lookupEntry: the stored name that a name finds, exactly or else folded.
Stored(t, d, name) ==
  LET held == DOMAIN t[d].entries
  IN  IF name \in held THEN {name}
      ELSE {n \in held : ~caseSensitive /\ Folded[n] = Folded[name]}

Holds(t, d, name) == Stored(t, d, name) # {}
Child(t, d, name) == t[d].entries[CHOOSE n \in Stored(t, d, name) : TRUE]

\* lookupLiteral: no link is followed, and nothing is under one.
Lookup(t, from, names) ==
  LET at[k \in 0..Len(names)] ==
        CASE k = 0 -> from
          [] k # 0 -> LET here == at[k - 1]
                      IN  IF here # Nowhere /\ IsDir(t, here) /\ Holds(t, here, names[k])
                          THEN Child(t, here, names[k]) ELSE Nowhere
  IN  at[Len(names)]

\* collectInodePaths and its kin: every path below a directory.
Below(t, d) ==
  LET below[i \in DOMAIN t] ==
        UNION {{<<n>>} \cup {<<n>> \o p : p \in below[t[i].entries[n]]} :
                 n \in DOMAIN t[i].entries}
  IN  below[d]

\* containsDirectory walks these.
Subtree(t, d) ==
  LET dirs[i \in DOMAIN t] ==
        IF IsDir(t, i) THEN {i} \cup UNION {dirs[j] : j \in Range(t[i].entries)} ELSE {}
  IN  dirs[d]

\* linkInode and attachDirectory.
Attach(t, d, name, i) ==
  LET held == [t EXCEPT ![d].entries = Put(@, name, i)]
      counted == [held EXCEPT ![d].nlink = IF IsDir(t, i) THEN @ + 1 ELSE @]
  IN  [counted EXCEPT ![i].nlink = @ + 1]

\* reclaimInode.
Reclaimed(t, candidates) ==
  Restrict(t, {i \in DOMAIN t :
                 i \notin candidates \/ t[i].nlink # 0 \/ t[i].opens # 0})

\* detachEntry: the entry goes, and the entries of every directory below it.
Detach(t, d, name) ==
  LET top  == t[d].entries[name]
      dirs == Subtree(t, top)
      cuts(i) == (IF i = top THEN 1 ELSE 0)
                 + Cardinality({e \in dirs \X Names :
                                  /\ e[2] \in DOMAIN t[e[1]].entries
                                  /\ t[e[1]].entries[e[2]] = i})
      subdirs(i) == Cardinality({n \in DOMAIN t[i].entries :
                                   IsDir(t, t[i].entries[n])})
      cut == [i \in DOMAIN t |->
                CASE i = d -> [t[i] EXCEPT !.entries = Restrict(@, DOMAIN @ \ {name}),
                                           !.nlink = IF IsDir(t, top) THEN @ - 1 ELSE @]
                  [] i \in dirs -> [t[i] EXCEPT !.entries = NoEntries,
                                                !.nlink = @ - subdirs(i) - 2]
                  [] OTHER -> [t[i] EXCEPT !.nlink = @ - cuts(i)]]
  IN  Reclaimed(cut, {i \in DOMAIN t : cuts(i) > 0})

Unused(t) == Inodes \ DOMAIN t
Added(t, node) == Put(t, Min(Unused(t)), node)

------------------------------------------------------------------------------
(* Path resolution.                                                          *)

Resolutions == [error : {"none"}, todo : Seq(Names \cup {Up}), stack : Seq(Inodes),
                path : Seq(Names), hops : 0..MaxTraversal]

\* resolve: `stack` holds the directories passed, `path` their names.
Walk(t, start, follow) ==
  LET walk[r \in Resolutions] ==
        LET here == Last(r.stack)
            name == Head(r.todo)
            rest == Tail(r.todo)
            next == Child(t, here, name)
            target == t[next].target
            failed(why) == [r EXCEPT !.error = why]
        IN  IF r.todo = <<>> THEN r
            ELSE IF ~IsDir(t, here) THEN failed("other")
            ELSE IF name = Up
            THEN walk[[r EXCEPT !.todo = rest,
                                !.stack = IF Len(@) > 1 THEN Front(@) ELSE @,
                                !.path = IF @ # <<>> THEN Front(@) ELSE @]]
            ELSE IF ~Holds(t, here, name) THEN failed("missing")
            ELSE IF t[next].kind # "link" \/ (rest = <<>> /\ ~follow)
            THEN walk[[r EXCEPT !.todo = rest, !.stack = Append(@, next),
                                !.path = Append(@, name)]]
            ELSE IF r.hops = MaxTraversal THEN failed("other")
            ELSE IF target.names = <<>> THEN failed("missing")
            ELSE walk[[r EXCEPT !.todo = target.names \o rest, !.hops = @ + 1,
                                !.stack = IF target.absolute THEN <<Root>> ELSE @,
                                !.path = IF target.absolute THEN <<>> ELSE @]]
  IN  walk[start]

Resolve(t, path, follow) ==
  LET end == Walk(t, [error |-> "none", todo |-> path, stack |-> <<Root>>,
                      path |-> <<>>, hops |-> 0], follow)
  IN  [error |-> end.error, inode |-> Last(end.stack), path |-> end.path]

Found(r) == r.error = "none"
Missing(r) == r.error = "missing"

\* resolveParent: the directory that an entry is or will be in, and its name.
Parent(t, path) == Resolve(t, Front(path), TRUE)
HasParent(t, path) ==
  /\ path # <<>> /\ Last(path) # Up
  /\ Found(Parent(t, path)) /\ IsDir(t, Parent(t, path).inode)
Where(t, path) == Append(Parent(t, path).path, Last(path))

\* resolveEntry: an entry as it stands in its directory, a link as itself.
HasEntry(t, path) ==
  HasParent(t, path) /\ Holds(t, Parent(t, path).inode, Last(path))

EntryName(t, path) == CHOOSE n \in Stored(t, Parent(t, path).inode, Last(path)) : TRUE
EntryInode(t, path) == Child(t, Parent(t, path).inode, Last(path))

\* The loop of openDescriptorUnlocked and resolveCopyFileDestination: a link
\* whose target is missing is replaced by its target, as often as it takes.
Chase(t, path) ==
  LET chase[hops \in 0..MaxTraversal, at \in Seq(Names \cup {Up})] ==
        LET link == Resolve(t, at, FALSE)
            to == t[link.inode].target
        IN  IF /\ Found(link) /\ t[link.inode].kind = "link" /\ to.names # <<>>
               /\ hops < MaxTraversal /\ Missing(Resolve(t, at, TRUE))
            THEN chase[hops + 1,
                       IF to.absolute THEN to.names ELSE Front(link.path) \o to.names]
            ELSE at
  IN  chase[0, path]

LandingAt(t, to) == [to |-> to, at |-> Resolve(t, to, TRUE)]
\* Where a file given by a path is or will be.
Landing(t, path) == LandingAt(t, Chase(t, path))

------------------------------------------------------------------------------
(* Watches.                                                                  *)

Spelling(p) == [k \in DOMAIN p |-> IF caseSensitive THEN p[k] ELSE Folded[p[k]]]

\* includesWatchPath.
Matches(w, event) ==
  LET at == Spelling(w.path)
      e == Spelling(event)
  IN  \/ e = at
      \/ w.directory /\ w.recursive /\ IsStrictPrefix(at, e)
      \/ w.directory /\ ~w.recursive /\ e # <<>> /\ Front(e) = at
      \/ e # <<>> /\ IsStrictPrefix(e, at)

\* deliverWatchEvents: into the queue, or into `pending` until there is one.
Delivered(events) ==
  [x \in Watchers |->
     LET w == watchers[x]
     IN  CASE ~w.on \/ ~\E e \in events : Matches(w, e) -> w
           [] w.attached -> [w EXCEPT !.queued = TRUE]
           [] OTHER -> [w EXCEPT !.pending = TRUE]]

\* One of the names.
OneUpdateOf(t, i) ==
  LET all == {p \in Below(t, Root) : Lookup(t, Root, p) = i}
  IN  IF all = {} THEN {} ELSE {CHOOSE p \in all : TRUE}

\* inodeUpdateEvents: every path a hard link gives an inode.
UpdatesOf(t, i) ==
  IF i = Root THEN {<<>>} ELSE {p \in Below(t, Root) : Lookup(t, Root, p) = i}

\* mutate: the transition's state, and the events of what it did.
Commit(t, events) ==
  /\ inodes' = t
  /\ watchers' = Delivered(events)
  /\ unannounced' = unannounced \cap DOMAIN t
  /\ UNCHANGED caseSensitive

Created(t, path) == {Resolve(t, path, TRUE).path}

------------------------------------------------------------------------------
(* The namespace.                                                            *)

\* One prefix of makeDirectory's path: there already, or made.
MakeOne(m, path) ==
  LET at == Resolve(m.t, path, TRUE)
  IN  CASE ~m.ok -> m
        [] m.ok /\ Found(at) -> [m EXCEPT !.ok = IsDir(m.t, at.inode)]
        [] m.ok /\ ~Found(at) ->
             IF HasParent(m.t, path) /\ ~HasEntry(m.t, path) /\ Unused(m.t) # {}
             THEN [m EXCEPT
                     !.t = Attach(Added(m.t, New("dir")), Parent(m.t, path).inode,
                                  Last(path), Min(Unused(m.t))),
                     !.made = Append(@, Where(m.t, path))]
             ELSE [m EXCEPT !.ok = FALSE]

MakeDirectory(path, recursive) ==
  LET after[k \in 0..Len(path)] ==
        IF k = 0 THEN [t |-> inodes, made |-> <<>>, ok |-> TRUE]
        ELSE MakeOne(after[k - 1], SubSeq(path, 1, k))
      m == after[Len(path)]
  IN  /\ m.ok
      /\ ~recursive => /\ Len(m.made) = 1
                       /\ ~Found(Resolve(inodes, path, TRUE))
      /\ Commit(m.t, ToSet(m.made))
      /\ UNCHANGED descriptors

Link(from, to) ==
  LET source == Resolve(inodes, from, TRUE)
  IN  /\ Found(source) /\ ~IsDir(inodes, source.inode)
      /\ HasParent(inodes, to) /\ ~HasEntry(inodes, to)
      /\ Commit(Attach(inodes, Parent(inodes, to).inode, Last(to), source.inode),
                {Where(inodes, to)})
      /\ UNCHANGED descriptors

Symlink(target, path) ==
  /\ HasParent(inodes, path) /\ ~HasEntry(inodes, path) /\ Unused(inodes) # {}
  /\ Commit(Attach(Added(inodes, [New("link") EXCEPT !.target = target]),
                   Parent(inodes, path).inode, Last(path), Min(Unused(inodes))),
            {Where(inodes, path)})
  /\ UNCHANGED descriptors

EntryPath(t, path) == Append(Parent(t, path).path, EntryName(t, path))

RemovePath(path, recursive) ==
  /\ HasEntry(inodes, path)
  /\ IsDir(inodes, EntryInode(inodes, path)) => recursive
  /\ Commit(Detach(inodes, Parent(inodes, path).inode, EntryName(inodes, path)),
            {EntryPath(inodes, path)})
  /\ UNCHANGED descriptors

\* A move that leaves the counts behind.
MovedUncounted(t, from, name, to, as) ==
  LET left == [t EXCEPT ![from].entries = Restrict(@, DOMAIN @ \ {name})]
  IN  [left EXCEPT ![to].entries = Put(@, as, t[from].entries[name])]

\* Moving the entry: within a directory it is rekeyed, between two the counts
\* follow it.
Moved(t, from, name, to, as) ==
  LET i == t[from].entries[name]
      left == [t EXCEPT ![from].entries = Restrict(@, DOMAIN @ \ {name})]
      into == [left EXCEPT ![to].entries = Put(@, as, i)]
  IN  IF from = to \/ ~IsDir(t, i) THEN into
      ELSE [into EXCEPT ![from].nlink = @ - 1, ![to].nlink = @ + 1]

\* May an entry take the place of the one that is there?
Replaceable(t, i, old) ==
  /\ IsDir(t, i) = IsDir(t, old)
  /\ t[old].entries = NoEntries

\* A directory must not be moved into itself, at any depth.
MayMoveBeside(t, i, dir) == dir # i
MayMoveInto(t, i, dir) == dir \notin Subtree(t, i)

Rename(from, to) ==
  /\ HasEntry(inodes, from) /\ HasParent(inodes, to)
  /\ LET source == Parent(inodes, from).inode
         name == EntryName(inodes, from)
         i == EntryInode(inodes, from)
         dest == Parent(inodes, to).inode
         there == Stored(inodes, dest, Last(to))
         caseOnly == source = dest /\ there = {name}
         replaces == there # {} /\ ~caseOnly
         as == IF replaces THEN EntryName(inodes, to) ELSE Last(to)
     IN  /\ ~(source = dest /\ Last(from) = Last(to))
         /\ MayMoveInto(inodes, i, dest)
         /\ replaces => /\ EntryInode(inodes, to) # i
                        /\ Replaceable(inodes, i, EntryInode(inodes, to))
         /\ Commit(Moved(IF replaces THEN Detach(inodes, dest, as) ELSE inodes,
                         source, name, dest, as),
                   {EntryPath(inodes, from), Append(Parent(inodes, to).path, as)})
  /\ UNCHANGED descriptors

------------------------------------------------------------------------------
(* Copies.                                                                   *)

\* validateCopyDirectoryContents: what lies over each other is of one kind.
Mergeable(t, from, into) ==
  \A p \in Below(t, from) :
    LET old == Lookup(t, into, p)
    IN  old # Nowhere => IsDir(t, old) = IsDir(t, Lookup(t, from, p))

Contents(t, from, into) ==
  LET names == SetToSeq(DOMAIN t[from].entries)
  IN  [k \in DOMAIN names |->
         [from |-> t[from].entries[names[k]], into |-> into, name |-> names[k]]]

\* One entry of copyEntryUnlocked, copyDirectoryContents or cloneInode: two
\* directories are merged, anything else that is in the way is replaced.
CopyOne(c) ==
  IF c.todo = <<>> \/ ~c.ok THEN c
  ELSE LET w == Head(c.todo)
           old == Stored(c.t, w.into, w.name)
           there == Child(c.t, w.into, w.name)
           merges == IsDir(c.t, w.from) /\ old # {} /\ IsDir(c.t, there)
           new == Min(Unused(c.t))
           cleared == IF old = {} THEN c.t
                      ELSE Detach(c.t, w.into, CHOOSE n \in old : TRUE)
           clone == [New(c.t[w.from].kind) EXCEPT !.size = c.t[w.from].size,
                                                  !.target = c.t[w.from].target]
       IN  CASE w.from \notin DOMAIN c.t -> [c EXCEPT !.ok = FALSE]
             [] w.from \in DOMAIN c.t /\ merges ->
                  [c EXCEPT !.todo = Contents(c.t, w.from, there) \o Tail(@)]
             [] OTHER ->
                  IF Unused(c.t) = {} \/ (old # {} /\ c.t[there].entries # NoEntries)
                  THEN [c EXCEPT !.ok = FALSE]
                  ELSE [c EXCEPT
                          !.t = Attach(Put(cleared, new, clone), w.into, w.name, new),
                          !.todo = (IF IsDir(c.t, w.from)
                                    THEN Contents(c.t, w.from, new) ELSE <<>>)
                                   \o Tail(@)]

CopyAll(t, from, into, name) ==
  LET after[k \in 0..(Cardinality(Inodes) * Cardinality(Names))] ==
        IF k = 0
        THEN [t |-> t, ok |-> TRUE, todo |-> <<[from |-> from, into |-> into, name |-> name]>>]
        ELSE CopyOne(after[k - 1])
  IN  after[Cardinality(Inodes) * Cardinality(Names)]

Copy(from, to, overwrite) ==
  LET source == Resolve(inodes, from, FALSE).inode
      c == CopyAll(inodes, source, Parent(inodes, to).inode, Last(to))
  IN  /\ Found(Resolve(inodes, from, FALSE)) /\ HasParent(inodes, to)
      /\ MayMoveInto(inodes, source, Parent(inodes, to).inode)
      /\ HasEntry(inodes, to) =>
           LET old == EntryInode(inodes, to)
           IN  /\ overwrite /\ old # source
               /\ IsDir(inodes, source) = IsDir(inodes, old)
               /\ IsDir(inodes, source) => Mergeable(inodes, source, old)
      /\ c.ok /\ c.todo = <<>>
      /\ Commit(c.t, {Resolve(c.t, to, FALSE).path})
      /\ UNCHANGED descriptors

\* copyFile overwrites the file in place, whatever links and descriptors it has.
CopyFileOnto(from, to, landing) ==
  LET source == Resolve(inodes, from, TRUE).inode
      at == landing.at
      path == IF Found(at) THEN at.path ELSE landing.to
      t == IF Found(at) THEN [inodes EXCEPT ![at.inode].size = inodes[source].size]
           ELSE Attach(Added(inodes, [New("file") EXCEPT !.size = inodes[source].size]),
                       Parent(inodes, path).inode, Last(path), Min(Unused(inodes)))
  IN  /\ Found(Resolve(inodes, from, TRUE)) /\ inodes[source].kind = "file"
      /\ Found(at) \/ Missing(at)
      /\ HasParent(inodes, path)
      /\ Found(at) => at.inode # source /\ inodes[at.inode].kind = "file"
      /\ Missing(at) => ~HasEntry(inodes, path) /\ Unused(inodes) # {}
      /\ Commit(t, IF Found(at) THEN UpdatesOf(t, at.inode) ELSE Created(t, to))
      /\ UNCHANGED descriptors

CopyFile(from, to) == CopyFileOnto(from, to, Landing(inodes, to))

------------------------------------------------------------------------------
(* Open files.                                                               *)

\* openMode.
Mode(flag) ==
  [read      |-> flag \in {"r", "r+", "w+", "wx+", "a+", "ax+"},
   write     |-> flag # "r",
   append    |-> flag \in {"a", "ax", "a+", "ax+"},
   create    |-> flag \notin {"r", "r+"},
   exclusive |-> flag \in {"wx", "wx+", "ax", "ax+"},
   truncate  |-> flag \in {"w", "wx", "w+", "wx+"}]

\* openDescriptorUnlocked up to the descriptor: the inodes with the file in
\* them, truncated or created, and its inode.
Openable(t, path, landing, mode, noFollow) ==
  LET link == Resolve(t, path, FALSE)
      at == landing.at
  IN  /\ Found(at) => t[at.inode].kind = "file"
      /\ Found(link) => /\ ~mode.exclusive
                        /\ ~(noFollow /\ t[link.inode].kind = "link")
      /\ Found(at) \/ (Missing(at) /\ mode.create /\ Unused(t) # {})
      /\ Missing(at) => HasParent(t, landing.to) /\ ~HasEntry(t, landing.to)

OpenedInode(t, landing) == IF Found(landing.at) THEN landing.at.inode ELSE Min(Unused(t))

OpenedTree(t, landing, mode) ==
  CASE ~Found(landing.at) ->
         Attach(Added(t, New("file")), Parent(t, landing.to).inode, Last(landing.to),
                OpenedInode(t, landing))
    [] Found(landing.at) -> IF mode.truncate THEN [t EXCEPT ![landing.at.inode].size = 0] ELSE t

\* The events of an open that changes a file, or of a write after it.
OpenEvents(t, path, i, changes) ==
  CASE ~Found(Resolve(inodes, path, TRUE)) -> Created(t, path)
    [] Found(Resolve(inodes, path, TRUE)) /\ changes -> UpdatesOf(t, i)
    [] OTHER -> {}

OpenAt(fd, path, landing, mode, noFollow) ==
  LET i == OpenedInode(inodes, landing)
      t == OpenedTree(inodes, landing, mode)
  IN  /\ fd \notin DOMAIN descriptors
      /\ Openable(inodes, path, landing, mode, noFollow)
      /\ Commit([t EXCEPT ![i].opens = @ + 1], OpenEvents(t, path, i, mode.truncate))
      /\ descriptors' =
           Put(descriptors, fd, [inode |-> i, mode |-> mode, position |-> 0])

Open(fd, path, flag, noFollow) ==
  OpenAt(fd, path, Landing(inodes, path), Mode(flag), noFollow)

\* Closes that keep the file, or count twice.
ClosedKept(t, i) == [t EXCEPT ![i].opens = @ - 1]
ClosedTwice(t, i) == Reclaimed([t EXCEPT ![i].opens = @ - 2], {})

Closed(t, i) == Reclaimed([t EXCEPT ![i].opens = @ - 1], {i})

Close(fd) ==
  /\ fd \in DOMAIN descriptors
  /\ Commit(Closed(inodes, descriptors[fd].inode), {})
  /\ descriptors' = Restrict(descriptors, DOMAIN descriptors \ {fd})

\* writeDescriptorUnlocked: one byte, at the end of the file or at the cursor.
EndOfWrite(t, d) == 1 + IF d.mode.append THEN t[d.inode].size ELSE d.position

Written(t, d) ==
  [t EXCEPT ![d.inode].size = Max({@, EndOfWrite(t, d)})]

Write(fd) ==
  /\ fd \in DOMAIN descriptors
  /\ LET d == descriptors[fd]
         t == Written(inodes, d)
     IN  /\ d.mode.write /\ EndOfWrite(inodes, d) <= MaxSize
         /\ Commit(t, UpdatesOf(t, d.inode))
         /\ descriptors' = IF d.mode.append THEN descriptors
                           ELSE [descriptors EXCEPT ![fd].position = EndOfWrite(inodes, d)]

\* readDescriptorUnlocked at the cursor.
Read(fd) ==
  /\ fd \in DOMAIN descriptors
  /\ descriptors[fd].mode.read
  /\ descriptors[fd].position < inodes[descriptors[fd].inode].size
  /\ descriptors' = [descriptors EXCEPT ![fd].position = @ + 1]
  /\ Commit(inodes, {})

Seek(fd) ==
  /\ fd \in DOMAIN descriptors
  /\ \E position \in 0..MaxSize :
       descriptors' = [descriptors EXCEPT ![fd].position = position]
  /\ Commit(inodes, {})

TruncateFile(fd, size) ==
  /\ fd \in DOMAIN descriptors /\ descriptors[fd].mode.write
  /\ LET d == descriptors[fd]
     IN  /\ Commit([inodes EXCEPT ![d.inode].size = size], UpdatesOf(inodes, d.inode))
         /\ descriptors' = IF ~d.mode.append /\ d.position > size
                           THEN [descriptors EXCEPT ![fd].position = size]
                           ELSE descriptors

Truncate(path, size) ==
  LET at == Resolve(inodes, path, TRUE)
  IN  /\ Found(at) /\ inodes[at.inode].kind = "file"
      /\ Commit([inodes EXCEPT ![at.inode].size = size], UpdatesOf(inodes, at.inode))
      /\ UNCHANGED descriptors

\* writeFile opens, writes one byte or none and closes in one transition.
WriteFileAt(path, landing, mode, bytes) ==
  LET i == OpenedInode(inodes, landing)
      opened == OpenedTree(inodes, landing, mode)
      d == [inode |-> i, mode |-> mode, position |-> 0]
      t == IF bytes = 0 THEN opened ELSE Written(opened, d)
  IN  /\ mode.write /\ Openable(inodes, path, landing, mode, FALSE)
      /\ bytes = 1 => EndOfWrite(opened, d) <= MaxSize
      /\ Commit(t, OpenEvents(t, path, i, mode.truncate \/ bytes > 0))
      /\ UNCHANGED descriptors

WriteFile(path, flag, bytes) == WriteFileAt(path, Landing(inodes, path), Mode(flag), bytes)

\* chmod, chown and utimes.
Touch(path) ==
  LET at == Resolve(inodes, path, TRUE)
  IN  /\ Found(at)
      /\ Commit(inodes, UpdatesOf(inodes, at.inode))
      /\ UNCHANGED descriptors

------------------------------------------------------------------------------
(* Temporary files.  Their tokens are never those of an existing entry.      *)

TempTree(name) ==
  Attach(Added(inodes, New("dir")), Resolve(inodes, <<Temp>>, TRUE).inode, name,
         Min(Unused(inodes)))

MayMakeTemp(name) ==
  LET at == Resolve(inodes, <<Temp>>, TRUE)
  IN  /\ Found(at) /\ IsDir(inodes, at.inode) /\ ~Holds(inodes, at.inode, name)
      /\ Unused(inodes) # {}

MakeTempDirectory(name) ==
  /\ MayMakeTemp(name)
  /\ Commit(TempTree(name), {Append(Resolve(inodes, <<Temp>>, TRUE).path, name)})
  /\ UNCHANGED descriptors

\* A directory with the file in it; only the file is announced.  Both are made
\* in TEMP_DIR, the default of their option `directory`.
MakeTempFile(name) ==
  /\ MayMakeTemp(name) /\ Cardinality(Unused(inodes)) > 1
  /\ LET dir == Min(Unused(inodes))
         with == TempTree(name)
         t == Attach(Added(with, New("file")), dir, name, Min(Unused(with)))
     IN  /\ inodes' = t
         /\ watchers' = Delivered({Resolve(inodes, <<Temp>>, TRUE).path \o <<name, name>>})
         /\ unannounced' = unannounced \cup {dir}
  /\ UNCHANGED <<descriptors, caseSensitive>>

------------------------------------------------------------------------------
(* The consumer's side of a watch.                                           *)

Idle == [on |-> FALSE, path |-> <<>>, directory |-> FALSE, recursive |-> FALSE,
         attached |-> FALSE, pending |-> FALSE, queued |-> FALSE, seen |-> {}]

\* What a watch is there to tell its consumer about.
Visible(t, w) ==
  LET at == Lookup(t, Root, w.path)
      within == IF ~w.directory \/ ~IsDir(t, at) THEN {<<>>}
                ELSE {<<>>} \cup {p \in Below(t, at) :
                        w.recursive \/ (Len(p) = 1 /\ Lookup(t, at, p) \notin unannounced)}
  IN  IF at = Nowhere THEN {}
      ELSE {<<p, Lookup(t, at, p), t[Lookup(t, at, p)].size>> : p \in within}

Watch(x, path, recursive) ==
  LET at == Resolve(inodes, path, TRUE)
      w == [Idle EXCEPT !.on = TRUE, !.path = at.path, !.recursive = recursive,
                        !.directory = IsDir(inodes, at.inode)]
  IN  /\ ~watchers[x].on /\ Found(at)
      /\ watchers' = [watchers EXCEPT ![x] = [w EXCEPT !.seen = Visible(inodes, w)]]
      /\ UNCHANGED <<inodes, descriptors, caseSensitive, unannounced>>

\* The stream starts: what was retained goes into its queue.
StartStream(x) ==
  /\ watchers[x].on /\ ~watchers[x].attached
  /\ watchers' = [watchers EXCEPT ![x].attached = TRUE, ![x].pending = FALSE,
                                  ![x].queued = watchers[x].pending]
  /\ UNCHANGED <<inodes, descriptors, caseSensitive, unannounced>>

\* The consumer takes what is queued and looks at the volume again.
Take(x) ==
  /\ watchers[x].attached /\ watchers[x].queued
  /\ watchers' = [watchers EXCEPT ![x].queued = FALSE,
                                  ![x].seen = Visible(inodes, watchers[x])]
  /\ UNCHANGED <<inodes, descriptors, caseSensitive, unannounced>>

Unwatch(x) ==
  /\ watchers[x].on
  /\ watchers' = [watchers EXCEPT ![x] = Idle]
  /\ UNCHANGED <<inodes, descriptors, caseSensitive, unannounced>>

------------------------------------------------------------------------------

\* makeVolume and makeReadyVolume: a root with TEMP_DIR in it.
Init ==
  /\ caseSensitive \in CaseSensitive
  /\ LET root == [i \in {Root} |-> [New("dir") EXCEPT !.nlink = 2]]
     IN  inodes = Attach(Added(root, New("dir")), Root, Temp, Min(Unused(root)))
  /\ descriptors = [fd \in {} |-> Nowhere]
  /\ watchers = [x \in Watchers |-> Idle]
  /\ unannounced = {}

Namespace(paths) ==
  \/ \E path \in paths, recursive \in BOOLEAN :
       MakeDirectory(path, recursive) \/ RemovePath(path, recursive)
  \/ \E from, to \in paths : Link(from, to) \/ Rename(from, to) \/ CopyFile(from, to)
  \/ \E from, to \in paths, overwrite \in BOOLEAN : Copy(from, to, overwrite)
  \/ \E target \in Targets, path \in paths : Symlink(target, path)
  \/ \E path \in paths : Truncate(path, 0) \/ Touch(path)
  \/ \E path \in paths, flag \in Flags : WriteFile(path, flag, 0)
  \/ \E name \in TempNames : MakeTempDirectory(name) \/ MakeTempFile(name)

Files(paths) ==
  \/ \E fd \in Descriptors, path \in paths, flag \in Flags, noFollow \in BOOLEAN :
       Open(fd, path, flag, noFollow)
  \/ \E fd \in Descriptors : Close(fd) \/ Write(fd) \/ Read(fd) \/ Seek(fd)
  \/ \E fd \in Descriptors, size \in 0..MaxSize : TruncateFile(fd, size)
  \/ \E path \in paths : Truncate(path, MaxSize)
  \/ \E path \in paths, flag \in Flags : WriteFile(path, flag, 1)

Watching(paths) ==
  \E x \in Watchers :
    \/ \E path \in paths, recursive \in BOOLEAN : Watch(x, path, recursive)
    \/ StartStream(x) \/ Take(x) \/ Unwatch(x)

Next == Namespace(Paths) \/ Files(Paths) \/ Watching(Paths)

Spec == Init /\ [][Next]_vars

------------------------------------------------------------------------------
(* Properties.                                                               *)

TypeOK ==
  /\ DOMAIN inodes \subseteq Inodes
  /\ \A i \in DOMAIN inodes :
       /\ inodes[i].kind \in {"file", "dir", "link"}
       /\ DOMAIN inodes[i].entries \subseteq Names
       /\ inodes[i].nlink \in Nat /\ inodes[i].opens \in Nat
       /\ inodes[i].size \in 0..MaxSize
  /\ DOMAIN descriptors \subseteq Descriptors
  /\ caseSensitive \in CaseSensitive

EntriesTo(i) ==
  {e \in (DOMAIN inodes) \X Names :
     e[2] \in DOMAIN inodes[e[1]].entries /\ inodes[e[1]].entries[e[2]] = i}

\* nlink is what a POSIX system would report: the names of a file, and two
\* for a directory and one for each directory in it (volume.ts:93-110).
LinkCounts ==
  \A i \in DOMAIN inodes :
    inodes[i].nlink =
      IF IsDir(inodes, i)
      THEN 2 + Cardinality({n \in DOMAIN inodes[i].entries :
                              IsDir(inodes, inodes[i].entries[n])})
      ELSE Cardinality(EntriesTo(i))

\* What a descriptor refers to is a file that is there, whatever has become of
\* the names it was opened by, and knows how many descriptors it has.
OpenFilesLive ==
  /\ \A i \in DOMAIN inodes :
       inodes[i].opens = Cardinality({fd \in DOMAIN descriptors : descriptors[fd].inode = i})
  /\ \A fd \in DOMAIN descriptors :
       descriptors[fd].inode \in DOMAIN inodes
       /\ inodes[descriptors[fd].inode].kind = "file"

\* A file lives while it has a name or is open and not a moment longer, however
\* names and descriptors came and went; nothing refers to one that is gone.
NothingDangles ==
  /\ OpenFilesLive
  /\ \A i \in DOMAIN inodes :
       /\ i = Root \/ EntriesTo(i) # {} \/ inodes[i].opens > 0
       /\ Range(inodes[i].entries) \subseteq DOMAIN inodes

\* The directories are a tree: none has two names, none is its own ancestor,
\* none is cut off from the root by a rename or a copy.
DirectoriesAreATree ==
  /\ \A i \in DOMAIN inodes :
       IsDir(inodes, i) => Cardinality(EntriesTo(i)) = IF i = Root THEN 0 ELSE 1
  /\ Subtree(inodes, Root) = {i \in DOMAIN inodes : IsDir(inodes, i)}

\* The parts of the volume fit, after any sequence of operations.
VolumeIsSound == TypeOK /\ LinkCounts /\ NothingDangles /\ DirectoriesAreATree

\* A volume that folds case never holds two spellings of one name in a
\* directory, whichever operation wrote them.
OneSpelling ==
  ~caseSensitive =>
    \A i \in DOMAIN inodes : \A m, n \in DOMAIN inodes[i].entries :
      Folded[m] = Folded[n] => m = n

\* A consumer that has taken every event of its watch knows what is there:
\* every change it could see was announced to it, between its registration
\* and its stream's start as well, and under every hard link of a file.
NothingMissed ==
  \A x \in Watchers :
    LET w == watchers[x]
    IN  w.on /\ ~w.pending /\ ~w.queued => w.seen = Visible(inodes, w)
=============================================================================
