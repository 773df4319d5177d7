------------------------------- MODULE FileTree -------------------------------
(***************************************************************************)
(* File trees, and what the copier package does to them: resolving a path  *)
(* under a root, matching excludes, reading items into archive entries and *)
(* writing entries back.  A path is a sequence of names below the root, a  *)
(* tree a function from the paths that exist to nodes.  A failed operation *)
(* has ok FALSE and keeps what it did before it failed.                    *)
(***************************************************************************)
EXTENDS SequencesExt, Integers

CONSTANTS NameOrder,          \* the names, in the order WalkDir visits them
          MaxLoopsFollowed,   \* links resolvePath follows
          MaxFollowedLinks    \* links Get follows for a named item

Up == ".."
Star == "*"
NoPath == <<"-">>
NoOwner == -1

\* F of the value of e, which is evaluated once.
With(e, F(_)) == CHOOSE r \in {F(x) : x \in {e}} : TRUE

Node(type, mode, owner, data) ==
  [type |-> type, mode |-> mode, owner |-> owner, data |-> data, abs |-> FALSE, to |-> <<>>]
Symlink(abs, to) == [Node("link", 777, 0, 0) EXCEPT !.abs = abs, !.to = to]

IsDir(t, p) == p \in DOMAIN t /\ t[p].type = "dir"
IsLink(t, p) == p \in DOMAIN t /\ t[p].type = "link"
Below(t, p) == {q \in DOMAIN t : IsPrefix(p, q)}
Put(t, p, n) == (p :> n) @@ t
RemoveAll(t, p) == Restrict(t, DOMAIN t \ Below(t, p))

\* What is below d, and a tree with s in the place of what is below d.
Relative(p, d) == SubSeq(p, Len(d) + 1, Len(p))
Subtree(t, d) == [q \in {Relative(p, d) : p \in Below(t, d)} |-> t[d \o q]]
Graft(t, d, s) ==
  LET moved == {d \o q : q \in DOMAIN s}
  IN [p \in (DOMAIN t \ Below(t, d)) \cup moved |-> IF p \in moved THEN s[Relative(p, d)] ELSE t[p]]

-----------------------------------------------------------------------------
\* The kernel's path lookup, with the tree's root as the root directory: the
\* place where path p is, after links, or NoPath.
RECURSIVE Lookup(_, _, _, _)
Lookup(t, p, final, fuel) ==
  IF p = <<>> THEN <<>>
  ELSE With(Lookup(t, Front(p), TRUE, fuel), LAMBDA dir :
         LET q == Append(dir, Last(p))
         IN IF ~IsDir(t, dir) THEN NoPath
            ELSE IF Last(p) = Up THEN (IF dir = <<>> THEN dir ELSE Front(dir))
            ELSE IF ~IsLink(t, q) \/ ~final THEN q
            ELSE IF fuel = 0 THEN NoPath
            ELSE Lookup(t, (IF t[q].abs THEN <<>> ELSE dir) \o t[q].to, TRUE, fuel - 1))

Located(t, p) == Lookup(t, p, FALSE, MaxLoopsFollowed)
Target(t, p) == Lookup(t, p, TRUE, MaxLoopsFollowed)
Exists(t, p) == Located(t, p) \in DOMAIN t

\* convertToRelSubdirectory and cleanerReldirectory: a path is cleaned
\* without looking at the tree, and never leaves the root.
Clean(p) ==
  LET step(done, c) == IF c # Up THEN Append(done, c)
                       ELSE IF done = <<>> THEN done ELSE Front(done)
  IN FoldLeft(step, <<>>, p)

\* Excludes: [neg, path] patterns, of which the last that matches decides.  A
\* pattern matches what it names and everything below it.
Matches(pat, p) ==
  Len(pat.path) <= Len(p) /\ \A i \in DOMAIN pat.path : pat.path[i] \in {Star, p[i]}
pathIsExcluded(pats, p) ==
  /\ p # <<>>
  /\ \E i \in DOMAIN pats : /\ Matches(pats[i], p) /\ ~pats[i].neg
                            /\ \A j \in i + 1 .. Len(pats) : ~Matches(pats[j], p)

\* resolvePath: an excluded component ends the following of links.
RECURSIVE ResolveFrom(_, _, _, _, _, _, _)
ResolveFrom(t, working, components, followed, excluded, final, pats) ==
  IF components = <<>> THEN working
  ELSE With(Clean(Append(working, Head(components))), LAMBDA next :
         LET ex == excluded \/ pathIsExcluded(pats, next)
             rest == Tail(components)
         IN IF ~ex /\ IsLink(t, next) /\ (rest # <<>> \/ final)
            THEN IF followed = MaxLoopsFollowed THEN NoPath
                 ELSE ResolveFrom(t, <<>>,
                        (IF t[next].abs THEN t[next].to ELSE Clean(working \o t[next].to)) \o rest,
                        followed + 1, ex, final, pats)
            ELSE ResolveFrom(t, next, rest, followed, ex, final, pats))
resolvePath(t, p, final, pats) ==
  With(Clean(p), LAMBDA q : ResolveFrom(t, <<>>, q, 0, FALSE, final, pats))

-----------------------------------------------------------------------------
\* copierHandlerStat for one item: links are resolved to tell what they are.
StatOf(t, p, pats) ==
  LET q == IF IsLink(t, p) THEN resolvePath(t, p, TRUE, pats) ELSE p
      type == IF q \in DOMAIN t THEN t[q].type ELSE "none"
  IN [error |-> q = NoPath, isDir |-> type = "dir", isRegular |-> type \in {"file", "archive"},
      isArchive |-> type = "archive"]

\* filepath.Glob: what a pattern matches, in order.  A plain path matches
\* itself when it exists.
PathLess(p, q) ==
  LET rank(c) == CHOOSE i \in DOMAIN NameOrder : NameOrder[i] = c
  IN \/ IsStrictPrefix(p, q)
     \/ \E k \in DOMAIN p \cap DOMAIN q : /\ SubSeq(p, 1, k - 1) = SubSeq(q, 1, k - 1)
                                          /\ rank(p[k]) < rank(q[k])
Ordered(S) ==
  [k \in 1..Cardinality(S) |-> CHOOSE p \in S : Cardinality({q \in S : PathLess(q, p)}) = k - 1]
Glob(t, pattern) ==
  Ordered({p \in DOMAIN t : Len(p) = Len(pattern) /\ Matches([path |-> pattern], p)})

\* Get chases a named item that is a link, and fails at a dead end.
RECURSIVE Chase(_, _, _)
Chase(t, item, followed) ==
  IF ~Exists(t, item) \/ followed = MaxFollowedLinks THEN NoPath
  ELSE LET n == t[Located(t, item)]
       IN IF n.type # "link" THEN item
          ELSE Chase(t, Clean((IF n.abs THEN <<>> ELSE Front(item)) \o n.to), followed + 1)

\* walkfn leaves a directory out altogether when it is excluded and no
\* exception names something below it; sockets are left out, and so is every
\* other excluded item.
SkipDir(t, q, pats) ==
  /\ IsDir(t, q) /\ pathIsExcluded(pats, q)
  /\ ~\E i \in DOMAIN pats : pats[i].neg /\ IsPrefix(q, pats[i].path)
WalkDir(t, item, pats) ==
  Ordered({q \in Below(t, item) \ {item} :
             /\ t[q].type # "socket" /\ ~pathIsExcluded(pats, q)
             /\ \A d \in Below(t, item) \ {item} : IsStrictPrefix(d, q) => ~SkipDir(t, d, pats)})

\* idtools: IDs that a map does not name cannot be mapped.
MapID(m, id) == IF m = <<>> THEN id ELSE IF id \in DOMAIN m THEN m[id] ELSE NoOwner

\* copierHandlerGetOne: the header of an item.  seen holds the names of the
\* files that are in the archive already, by what they contain.
Header(n, name, opts, seen) ==
  LET hard == n.type = "file" /\ n.data \in DOMAIN seen
      owner == MapID(opts.uidmap, n.owner)
  IN [name |-> name, type |-> IF hard THEN "hard" ELSE n.type, data |-> n.data, abs |-> n.abs,
      to |-> IF hard THEN seen[n.data] ELSE n.to,
      owner |-> IF owner = NoOwner THEN NoOwner
                ELSE IF opts.chown # NoOwner THEN opts.chown ELSE owner,
      mode |-> IF opts.chmod # NoOwner THEN opts.chmod ELSE n.mode, whole |-> TRUE]

-----------------------------------------------------------------------------
\* A tree that is being written to: the modes that directories are to have in
\* the end (directoryModes), and the names of the entries that were ignored.
Writing(t) == [ok |-> TRUE, tree |-> t, modes |-> <<>>, ignored |-> {}]
Failed(w) == [w EXCEPT !.ok = FALSE]
Written(w, p, n) == [w EXCEPT !.tree = Put(@, p, n)]
DirMode(w, p, m) == [w EXCEPT !.modes = Put(@, p, m)]

\* A directory in which a new name can be made.
Writable(t, p, opts) == opts.privileged \/ t[Front(p)].mode # 555

\* ensureDirectoryUnderRoot makes the directories of path p that are missing.
ensureDirectoryUnderRoot(w, p, opts) ==
  LET make(v, dir, q) ==
        IF ~v.ok \/ q \in DOMAIN v.tree THEN v
        ELSE IF q = NoPath \/ ~Writable(v.tree, q, opts) THEN Failed(v)
        ELSE LET made == Written(v, q, Node("dir", 700, opts.dirOwner, 0))
             IN IF dir \in DOMAIN v.modes THEN made ELSE DirMode(made, dir, 755)
      step(u, k) == With(u, LAMBDA v : LET dir == SubSeq(p, 1, k) IN
                              With(Located(v.tree, dir), LAMBDA q : make(v, dir, q)))
  IN FoldLeft(step, w, [k \in 1..Len(p) |-> k])

\* makeDirectoryWriteable, for the directory that is to hold q.
makeDirectoryWriteable(w, q) ==
  LET dir == Front(q)
      noted == IF dir \in DOMAIN w.modes THEN w ELSE DirMode(w, dir, w.tree[dir].mode)
  IN [noted EXCEPT !.tree[dir].mode = 700]

\* What the cases of Put's switch do with a new item at q: what is in the way
\* is removed, except that a directory stays one.  Only createFile changes the
\* mode of the directory when it may not write to it.
CreateItem(w, q, h, n, opts) ==
  LET taken == q \in DOMAIN w.tree
  IN IF taken /\ h.type = "dir" /\ IsDir(w.tree, q) THEN w
     ELSE IF taken /\ h.type = "dir" /\ opts.noNonDirDir THEN Failed(w)
     ELSE IF taken /\ h.type # "dir" /\ IsDir(w.tree, q) /\ opts.noDirNonDir THEN Failed(w)
     ELSE LET v == IF h.type = "file" /\ ~Writable(w.tree, q, opts)
                   THEN makeDirectoryWriteable(w, q) ELSE w
          IN IF ~Writable(v.tree, q, opts) THEN Failed(v)
             ELSE Written([v EXCEPT !.tree = RemoveAll(@, q)], q, n)

\* One entry of the archive, extracted below dir.  A partial entry leaves a
\* file that has part of its content.
ExtractInto(w, dir, p, q, h, owner, opts) ==
  LET linked == resolvePath(w.tree, dir \o h.to, TRUE, <<>>)
      node == CASE h.type = "link" -> Symlink(h.abs, h.to)
                [] h.type = "hard" /\ linked \in DOMAIN w.tree -> w.tree[linked]
                [] OTHER -> Node(h.type, h.mode, owner, IF h.whole THEN h.data ELSE 0)
  IN IF h.type = "global" THEN w
     ELSE IF (h.type = "dev" /\ opts.ignoreDevices) \/ (h.type = "hard" /\ h.to \in w.ignored)
     THEN [w EXCEPT !.ignored = @ \cup {h.name}]
     ELSE IF q = NoPath \/ (h.type = "hard" /\ linked \notin DOMAIN w.tree) THEN Failed(w)
     ELSE With(CreateItem(w, q, h, node, opts), LAMBDA made :
            IF ~made.ok \/ ~h.whole THEN Failed(made)
            ELSE IF h.type # "dir" THEN made
            ELSE DirMode([made EXCEPT !.tree[q].mode = h.mode, !.tree[q].owner = owner], p, h.mode))
ExtractEntry(w, dir, h, opts) ==
  LET p == dir \o Clean(h.name)
      owner == MapID(opts.uidmap, h.owner)
  IN IF h.name = <<>> THEN [w EXCEPT !.ignored = @ \cup {h.name}]
     ELSE IF owner = NoOwner THEN Failed(w)
     ELSE With(ensureDirectoryUnderRoot(w, IF p = <<>> THEN p ELSE Front(p), opts), LAMBDA v :
            IF ~v.ok THEN v
            ELSE With(Located(v.tree, p), LAMBDA q : ExtractInto(v, dir, p, q, h, owner, opts)))

\* The deferred end of Put: directories get the modes noted for them.
SetDirectoryModes(w) ==
  With([d \in DOMAIN w.modes |-> Target(w.tree, d)], LAMBDA at :
    [q \in DOMAIN w.tree |->
       IF q \notin Range(at) THEN w.tree[q]
       ELSE [w.tree[q] EXCEPT !.mode = w.modes[CHOOSE d \in DOMAIN at : at[d] = q]]])

\* copierHandlerMkdir: the directory that p resolves to, and those above it.
Mkdir(t, p, owner, mode, opts) ==
  LET mapped == [opts EXCEPT !.dirOwner = MapID(opts.uidmap, owner)]
      withModes(w) == [w EXCEPT !.tree = [q \in DOMAIN @ |->
                         IF q \in DOMAIN t THEN @[q] ELSE [@[q] EXCEPT !.mode = mode]]]
  IN With(resolvePath(t, p, TRUE, <<>>), LAMBDA dir :
       IF dir = NoPath \/ mapped.dirOwner = NoOwner THEN Failed(Writing(t))
       ELSE With(ensureDirectoryUnderRoot(Writing(t), dir, mapped), withModes))

\* copierHandlerRemove: the last component is not followed.
RemoveItem(t, p, all) ==
  LET q == resolvePath(t, p, FALSE, <<>>)
  IN IF q = NoPath \/ (~all /\ (q \notin DOMAIN t \/ Cardinality(Below(t, q)) > 1))
     THEN Failed(Writing(t)) ELSE Writing(RemoveAll(t, q))
=============================================================================
