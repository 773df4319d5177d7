------------------------------ MODULE VolumeCache ------------------------------
(***************************************************************************)
(* The volumes of a stage.  From a VOLUME instruction on, only COPY and    *)
(* ADD may change what is below the volume: with a storage driver other    *)
(* than overlay the stage executor archives the volumes before a RUN and   *)
(* restores them afterwards, keeping the archives until a COPY needs them  *)
(* to be made again.  With overlay a RUN writes to a mount over each       *)
(* volume, which is discarded.                                             *)
(***************************************************************************)
EXTENDS FileTree

CONSTANTS RunWrites   \* paths that the command of a RUN may write or remove

VARIABLES tree,       \* the root file system of the stage's container
          declared,   \* the imagebuilder's set of volumes
          volumes,    \* the stage executor's set of volumes, after links
          cache       \* volumeCache and volumeCacheInfo

volumeVars == <<declared, volumes, cache>>

InitVolumes == declared = {} /\ volumes = {} /\ cache = <<>>

\* VolumeSet: a volume below another one is covered by it.
Covers(set, p) == \E v \in set : IsPrefix(v, p)
AddVolume(set, p) == {v \in set : ~IsStrictPrefix(p, v)} \cup {p}

\* Who may write: the stage executor runs as root and maps no IDs.
AsRoot == [privileged |-> TRUE, uidmap |-> <<>>, dirOwner |-> 0]

MakeVolume(t, p) == Mkdir(t, p, 0, 755, AsRoot)

-----------------------------------------------------------------------------
\* Variant: the archives stay
Kept(c, dest, slash) == c

\* volumeCacheInvalidate removes the archives of the volumes that a path is
\* below: dest is below a volume that it names with a slash at its end.
Invalidated(c, dest, slash) ==
  [v \in DOMAIN c |-> IF IsStrictPrefix(v, dest) \/ (slash /\ v = dest)
                      THEN [c[v] EXCEPT !.saved = FALSE] ELSE c[v]]

\* Preserve, for a path that is not below a volume yet.  An archive of a
\* volume that is now covered goes, and its entry with it; an entry that had
\* no archive stays.
NewVolume(p, made) ==
  LET vols == AddVolume(volumes, p)
      kept == {v \in DOMAIN cache : v \in vols \/ ~cache[v].saved}
  IN /\ tree' = made.tree
     /\ volumes' = vols
     /\ cache' = Put(Restrict(cache, kept), p,
                     [saved |-> FALSE, tar |-> <<>>, mode |-> made.tree[p].mode,
                      owner |-> made.tree[p].owner])

\* A VOLUME instruction.  ok is whether it succeeds.
Volume(path, ok) ==
  \/ Covers(declared, path) /\ ok /\ UNCHANGED <<tree, declared, volumes, cache>>
  \/ /\ ~Covers(declared, path) /\ Covers(volumes, path)
     /\ \E made \in {MakeVolume(tree, path)} : ok = made.ok /\ tree' = made.tree
     /\ declared' = AddVolume(declared, path)
     /\ cache' = Invalidated(cache, path, FALSE)
     /\ UNCHANGED volumes
  \/ /\ ~Covers(declared, path) /\ ~Covers(volumes, path)
     /\ declared' = AddVolume(declared, path)
     /\ \E p \in {resolvePath(tree, path, TRUE, <<>>)} : \E made \in {MakeVolume(tree, p)} :
          /\ ok = (p # NoPath /\ ~Covers(volumes, p) /\ made.ok)
          /\ IF ok THEN NewVolume(p, made) ELSE UNCHANGED <<tree, volumes, cache>>

-----------------------------------------------------------------------------
\* volumeCacheSaveVFS and volumeCacheSaveOverlay.
Save(overlay) ==
  LET archive(t, v) == Subtree(t, resolvePath(t, v, TRUE, <<>>))
      make(u, v) == With(u, LAMBDA t : MakeVolume(t, v).tree)
      missing == {v \in DOMAIN cache : overlay \/ ~cache[v].saved}
  IN With(FoldLeft(make, tree, SetToSeq(missing)), LAMBDA t :
       [tree |-> t,
        cache |-> [v \in DOMAIN cache |->
                     IF overlay \/ cache[v].saved THEN cache[v]
                     ELSE [cache[v] EXCEPT !.saved = TRUE, !.tar = archive(t, v)]]])

\* What the command of a RUN does to the file system.
Changed(t) ==
  {t} \cup {Put(t, p, Node("file", 644, 0, 9)) : p \in {q \in RunWrites : IsDir(t, Front(q)) /\ ~IsDir(t, q)}}
      \cup {RemoveAll(t, p) : p \in RunWrites \cap DOMAIN t}

\* volumeCacheRestoreVFS, for one volume: the archive, and then the mode and
\* the owner that the directory had when it became a volume.
RestoreOne(c, t, v) ==
  LET top == [c[v].tar EXCEPT ![<<>>].mode = c[v].mode, ![<<>>].owner = c[v].owner]
  IN With(resolvePath(t, v, TRUE, <<>>), LAMBDA p :
       With(RemoveItem(t, p, TRUE).tree, LAMBDA u :
         With(MakeVolume(u, p).tree, LAMBDA made : Graft(made, p, top))))

\* A mount over a volume hides what the command does there.
Discarded(saved, t, v) ==
  With(MakeVolume(t, v).tree, LAMBDA made : Graft(made, v, Subtree(saved, v)))

\* A RUN instruction.  volumeCache is a map: its order is not determined.
RunInstruction(overlay) ==
  \E s \in {Save(overlay)} : \E t \in Changed(s.tree) : \E order \in SetToSeqs(DOMAIN cache) :
    LET restore(u, v) == With(u, LAMBDA w : IF overlay THEN Discarded(s.tree, w, v)
                                            ELSE RestoreOne(s.cache, w, v))
    IN /\ cache' = s.cache
       /\ \E restored \in {FoldLeft(restore, t, order)} : tree' = restored
       /\ UNCHANGED <<declared, volumes>>
=============================================================================
