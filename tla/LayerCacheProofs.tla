------------------------- MODULE LayerCacheProofs -------------------------
(***************************************************************************)
(* While builds with --layers and one remote cache follow each other, no    *)
(* step is committed twice: OneImagePerStep of LayerCache, for all          *)
(* Containerfiles, contents, arguments, builders and machines.              *)
(*                                                                          *)
(* The registry is the memory of the argument.  Each of its entries is one  *)
(* step on an image that is known as well (IsRegistry), so the history of a *)
(* known image determines the image (OneByHistory).  Hence a lookup finds   *)
(* the entry under the step's key and nothing else (FoundIs, KeyFound), and *)
(* a step that missed, or follows one that missed, is in no entry.          *)
(***************************************************************************)
EXTENDS LayerCache, FiniteSetTheorems, SequenceTheorems, TLAPS

-----------------------------------------------------------------------------
\* The invariant

\* q is a sequence, of whatever it holds
IsSeq(q) == q \in Seq({q[i] : i \in DOMAIN q})

\* The layers that a history accounts for
Accounted(h) == Cardinality({i \in 1 .. Len(h) : ~h[i].empty})

\* x has a history, and a layer for each entry that is not empty
IsImage(x) == /\ IsSeq(x.hist) /\ IsSeq(x.diffs) /\ x.hist # << >>
              /\ Len(x.diffs) = Accounted(x.hist)

\* The images a build can have come to: in these worlds, what a store has was
\* pushed as well
Known(reg) == {BaseImage} \cup {e.image : e \in reg}

\* Entry e of the registry is the image of one step on image z
StepOn(e, z) ==
    LET last == e.image.hist[Len(e.image.hist)]
        layer == e.image.diffs[Len(e.image.diffs)]
    IN /\ e.key = generateCacheKey(z, e.key.by, e.key.adds)
       /\ e.image.hist = Append(z.hist, last) /\ last.by = e.key.by /\ last.empty = ~e.key.adds
       /\ e.image.diffs = IF e.key.adds THEN Append(z.diffs, layer) ELSE z.diffs

\* Every image of the registry is a step on one that is known, under its key,
\* and no step on a history is there twice
IsRegistry(reg, w) ==
    /\ \A e \in reg : /\ e = [key |-> e.key, image |-> e.image] /\ e.key.adds \in BOOLEAN
                      /\ IsImage(e.image) /\ \A o \in w.options : e.image.fmt = o.format
                      /\ \E z \in Known(reg) : StepOn(e, z)
    /\ \A e, f \in reg : /\ e.key.hist = f.key.hist /\ e.key.by = f.key.by
                         /\ e.key.adds = f.key.adds
                         => e = f

\* Nobody has committed the step that stage executor t is at, or any step on
\* an image
Uncommitted(t, reg) ==
    \A e \in reg : ~(/\ e.key.hist = t.from.hist /\ e.key.by = By(t)
                     /\ e.key.adds = stepRequiresLayer(Ins(t)))
Unused(image, reg) == \A e \in reg : e.key.hist # image.hist

\* The image that t has found is in the registry under the key of the step
Cached(t, reg) == \E e \in reg : e.image = t.cacheID /\ e.key = Key(t)

\* The fields of stage executor t, while it builds
IsStage(t, w) ==
    /\ {"phase", "req", "i", "from", "ib", "checkForLayers", "did", "pre", "cacheID", "pulled",
        "imgID", "number"} = DOMAIN t
    /\ DOMAIN t.ib = {"conf", "allowed"}
    /\ t.phase \in {"step", "run", "commit"}
    /\ t.req.file \in w.files /\ t.req.opts \in w.options /\ t.i \in 1 .. Len(t.req.file)
    /\ t.pre = << >>

\* What a build in progress knows of the cache
StageOK(t, reg, w) ==
    /\ IsStage(t, w) /\ t.from \in Known(reg)
    /\ ~t.checkForLayers => Unused(t.from, reg)
    /\ t.phase # "commit" => t.cacheID = NoImage
    /\ t.phase = "commit" => IF t.cacheID = NoImage THEN Uncommitted(t, reg)
                             ELSE t.checkForLayers /\ Cached(t, reg)

\* Every image of a store was pushed, and one build at a time is in progress
LayerInv ==
    Orderly =>
        /\ DOMAIN s = Builders /\ DOMAIN store = Machines /\ home \in [Builders -> Machines]
        /\ IsRegistry(registry, World)
        /\ \A m \in Machines : store[m] \subseteq Known(registry)
        /\ \A b, c \in Builders : s[b].phase \notin Idle /\ s[c].phase \notin Idle => b = c
        /\ \A b \in Builders : s[b].phase \notin Idle => StageOK(s[b], registry, World)

-----------------------------------------------------------------------------
\* Appending to a sequence

\* The operator that adds an entry to a history or a layer to an image
\* (commit, LayerCache) yields a longer sequence with the old one as its front
LEMMA AppendIs ==
    ASSUME NEW q, IsSeq(q), NEW x
    PROVE  /\ IsSeq(Append(q, x)) /\ Append(q, x) # << >>
           /\ Len(q) \in Nat /\ Len(Append(q, x)) = Len(q) + 1
           /\ Append(q, x)[Len(q) + 1] = x /\ Append(q, x)[Len(Append(q, x))] = x
           /\ \A i \in 1 .. Len(q) : Append(q, x)[i] = q[i]
           /\ SubSeq(Append(q, x), 1, Len(q)) = q
           /\ q \o <<x>> = Append(q, x)
<1> DEFINE S == {q[i] : i \in DOMAIN q} \cup {x}
           a == Append(q, x)
<1>1. q \in Seq({q[i] : i \in DOMAIN q})
  BY DEF IsSeq
<1>2. q \in Seq(S)
  BY <1>1, SeqMonotonic, Zenon
<1>3. x \in S
  OBVIOUS
<1> HIDE DEF S
<1>4. a \in Seq(S) /\ Len(q) \in Nat /\ Len(a) = Len(q) + 1 /\ a[Len(q) + 1] = x
      /\ \A i \in 1 .. Len(q) : a[i] = q[i]
  BY <1>2, <1>3
<1>5. DOMAIN a = 1 .. Len(a)
  BY <1>4, LenProperties, Zenon
<1>6. a \in Seq({a[i] : i \in DOMAIN a})
  BY <1>4, <1>5
<1>7. \A i \in 1 .. Len(q) : q[i] \in S
  BY <1>2
<1>8. /\ SubSeq(a, 1, Len(q)) \in Seq(S) /\ Len(SubSeq(a, 1, Len(q))) = Len(q)
      /\ \A i \in 1 .. Len(q) : SubSeq(a, 1, Len(q))[i] = q[i]
  BY <1>4, <1>7
<1>9. SubSeq(a, 1, Len(q)) = q
  BY <1>8, <1>2, SeqEqual
<1>10. q \o <<x>> = a
  BY <1>2, <1>3
<1>11. a # << >>
  BY <1>4
<1> QED
  BY <1>4, <1>6, <1>9, <1>10, <1>11 DEF IsSeq

\* Two histories that end in one step each are equal only if the step and what
\* precedes it are
LEMMA AppendEqual ==
    ASSUME NEW p, IsSeq(p), NEW q, IsSeq(q), NEW x, NEW y, Append(p, x) = Append(q, y)
    PROVE  p = q /\ x = y
<1>1. Len(p) \in Nat /\ Len(q) \in Nat /\ Len(p) + 1 = Len(q) + 1
  BY AppendIs, Zenon
<1>2. Len(p) = Len(q)
  BY <1>1
<1>3. SubSeq(Append(p, x), 1, Len(p)) = p /\ SubSeq(Append(q, y), 1, Len(q)) = q
  BY AppendIs, Zenon
<1>4. Append(p, x)[Len(p) + 1] = x /\ Append(q, y)[Len(q) + 1] = y
  BY AppendIs, Zenon
<1> QED
  BY <1>2, <1>3, <1>4, Zenon

\* An entry that is not empty accounts for one more layer
LEMMA AccountedStep ==
    ASSUME NEW h, IsSeq(h), NEW x, x.empty \in BOOLEAN
    PROVE  /\ Accounted(h) \in Nat
           /\ x.empty => Accounted(Append(h, x)) = Accounted(h)
           /\ ~x.empty => Accounted(Append(h, x)) = Accounted(h) + 1
<1> DEFINE N == Len(h)
           a == Append(h, x)
           A == {i \in 1 .. N : ~h[i].empty}
           B == {i \in 1 .. (N + 1) : ~a[i].empty}
<1>1. N \in Nat /\ Len(a) = N + 1 /\ a[N + 1] = x /\ \A i \in 1 .. N : a[i] = h[i]
  BY AppendIs, ZenonT(60)
<1>2. IsFiniteSet(1 .. N) /\ A \subseteq 1 .. N
  BY <1>1, FS_Interval
<1>3. IsFiniteSet(A)
  BY <1>2, FS_Subset, Zenon
<1>4. Cardinality(A) \in Nat
  BY <1>3, FS_CardinalityType, Zenon
<1>5. N + 1 \notin A
  BY <1>1
<1>6. B = IF x.empty THEN A ELSE A \cup {N + 1}
  <2> HIDE DEF a
  <2>1. \A i : i \in B <=> i \in A \/ (i = N + 1 /\ ~x.empty)
    BY <1>1
  <2> QED
    BY <2>1
<1>7. Cardinality(A \cup {N + 1}) = Cardinality(A) + 1
  BY <1>3, <1>5, FS_AddElement, Zenon
<1>8. Accounted(h) = Cardinality(A) /\ Accounted(a) = Cardinality(B)
  BY <1>1 DEF Accounted
<1> HIDE DEF A, B, a
<1>9. /\ x.empty => Accounted(a) = Accounted(h)
      /\ ~x.empty => Accounted(a) = Accounted(h) + 1
  BY <1>6, <1>7, <1>8, Zenon
<1> QED
  BY <1>4, <1>8, <1>9, Zenon DEF a

-----------------------------------------------------------------------------
\* Images and the registry

\* The base image has a history of one entry and its layer
LEMMA BaseIs ==
    /\ IsImage(BaseImage) /\ Len(BaseImage.hist) = 1 /\ BaseImage.hist # << >>
    /\ NoImage.hist = << >>
<1>1. /\ Len(BaseImage.hist) = 1 /\ Len(BaseImage.diffs) = 1 /\ ~BaseImage.hist[1].empty
      /\ DOMAIN BaseImage.hist = {1} /\ DOMAIN BaseImage.diffs = {1}
  BY DEF BaseImage
<1>2. BaseImage.hist # << >> /\ NoImage.hist = << >>
  BY DEF BaseImage, NoImage
<1>3. IsSeq(BaseImage.hist) /\ IsSeq(BaseImage.diffs)
  <2>1. ASSUME NEW a PROVE IsSeq(<<a>>)
    <3>1. <<a>> \in Seq({a}) /\ {<<a>>[i] : i \in DOMAIN <<a>>} = {a}
      OBVIOUS
    <3> QED
      BY <3>1, Zenon DEF IsSeq
  <2>2. BaseImage.hist = <<BaseImage.hist[1]>> /\ BaseImage.diffs = <<BaseImage.diffs[1]>>
    BY ZenonT(60) DEF BaseImage
  <2> QED
    BY <2>1, <2>2, Zenon
<1>4. {i \in 1 .. Len(BaseImage.hist) : ~BaseImage.hist[i].empty} = {1}
  BY <1>1
<1>5. Accounted(BaseImage.hist) = 1
  BY <1>4, FS_Singleton, Zenon DEF Accounted
<1> QED
  BY <1>1, <1>2, <1>3, <1>5, Zenon DEF IsImage

\* What a step yields, and that the lookup of the step accepts it
\* (historyAndDiffIDsMatch, stage_executor.go)
LEMMA StepIs ==
    ASSUME NEW e, NEW z, IsImage(z), StepOn(e, z), e.key.adds \in BOOLEAN
    PROVE  /\ IsImage(e.image)
           /\ Len(e.image.hist) = Len(z.hist) + 1 /\ Len(z.hist) \in Nat \ {0}
           /\ SubSeq(e.image.hist, 1, Len(z.hist)) = z.hist
           /\ Len(z.diffs) = Accounted(z.hist) /\ Accounted(z.hist) \in Nat
           /\ Len(e.image.diffs) = Accounted(z.hist) + (IF e.key.adds THEN 1 ELSE 0)
           /\ e.image.hist[Len(z.hist) + 1].by = e.key.by
           /\ e.image.hist[Len(z.hist) + 1].empty = ~e.key.adds
           /\ ParentLayer(e.image, e.key.adds) = z.diffs
           /\ historyAndDiffIDsMatch(z, e.key.by, e.image, e.key.adds)
<1> DEFINE h == e.image.hist
           d == e.image.diffs
           last == h[Len(h)]
           layer == d[Len(d)]
           adds == e.key.adds
<1>1. /\ IsSeq(z.hist) /\ IsSeq(z.diffs) /\ z.hist # << >> /\ Len(z.diffs) = Accounted(z.hist)
  BY DEF IsImage
<1>2. /\ h = Append(z.hist, last) /\ last.by = e.key.by /\ last.empty = ~adds
      /\ d = IF adds THEN Append(z.diffs, layer) ELSE z.diffs
  BY Zenon DEF StepOn
<1>3. adds \in BOOLEAN
  OBVIOUS
<1> HIDE DEF h, d, last, layer, adds
<1>4. /\ IsSeq(h) /\ h # << >> /\ Len(z.hist) \in Nat /\ Len(h) = Len(z.hist) + 1
      /\ h[Len(z.hist) + 1] = last /\ SubSeq(h, 1, Len(z.hist)) = z.hist
  BY <1>1, <1>2, AppendIs, ZenonT(60)
<1>5. Len(z.hist) # 0
  BY <1>1, EmptySeq DEF IsSeq
<1>6. /\ Accounted(z.hist) \in Nat
      /\ adds => Accounted(h) = Accounted(z.hist) + 1
      /\ ~adds => Accounted(h) = Accounted(z.hist)
  <2>1. last.empty \in BOOLEAN
    BY <1>2, <1>3
  <2>2. /\ Accounted(z.hist) \in Nat
        /\ last.empty => Accounted(Append(z.hist, last)) = Accounted(z.hist)
        /\ ~last.empty => Accounted(Append(z.hist, last)) = Accounted(z.hist) + 1
    BY <1>1, <2>1, AccountedStep
  <2>3. Accounted(h) = Accounted(Append(z.hist, last))
    BY <1>2, Zenon
  <2> QED
    BY <1>2, <2>2, <2>3, Zenon
<1>7. CASE adds
  <2>1. /\ IsSeq(d) /\ d # << >> /\ Len(d) = Len(z.diffs) + 1
        /\ SubSeq(d, 1, Len(z.diffs)) = z.diffs
    BY <1>1, <1>2, <1>7, AppendIs, ZenonT(60)
  <2>2. Len(d) - 1 = Len(z.diffs)
    BY <2>1, <1>1, <1>6
  <2>3. Front(d) = z.diffs
    BY <2>1, <2>2, Zenon DEF Front
  <2>4. ParentLayer(e.image, adds) = z.diffs
    BY <2>1, <2>3, <1>7, Zenon DEF ParentLayer, d
  <2> QED
    BY <2>1, <2>4, <1>1, <1>2, <1>4, <1>5, <1>6, <1>7
    DEF IsImage, historyAndDiffIDsMatch, Accounted, h, d, adds
<1>8. CASE ~adds
  <2>1. d = z.diffs
    BY <1>2, <1>8
  <2>2. ParentLayer(e.image, adds) = z.diffs
    BY <2>1, <1>8, Zenon DEF ParentLayer, d
  <2>3. SubSeq(d, 1, Len(d)) = z.diffs
    BY <1>1, <2>1, SubSeqFull, Zenon DEF IsSeq
  <2>4. Len(d) = Accounted(z.hist) /\ Accounted(h) = Accounted(z.hist) /\ IsSeq(d)
    BY <2>1, <1>1, <1>6, <1>8, Zenon
  <2>5. SubSeq(d, 1, Accounted(z.hist)) = z.diffs
    BY <2>1, <2>3, <1>1, Zenon
  <2>6. IsImage(e.image)
    BY <2>4, <1>4, <1>6, Zenon DEF IsImage, h, d
  <2>7. historyAndDiffIDsMatch(z, e.key.by, e.image, adds)
    BY <2>4, <2>5, <1>1, <1>2, <1>4, <1>6, <1>8
    DEF historyAndDiffIDsMatch, Accounted, h, d
  <2> QED
    BY <2>2, <2>4, <2>6, <2>7, <1>1, <1>2, <1>4, <1>5, <1>6, <1>8 DEF h, d, adds
<1> QED
  BY <1>3, <1>7, <1>8, Zenon

\* A known image is the base image or that of an entry, which is a step on
\* another known image
LEMMA KnownIs ==
    ASSUME NEW reg, NEW w, IsRegistry(reg, w), NEW x \in Known(reg)
    PROVE  /\ IsImage(x) /\ x # NoImage
           /\ \/ x = BaseImage
              \/ \E e \in reg : /\ x = e.image /\ e.key.adds \in BOOLEAN
                                /\ \E z \in Known(reg) : IsImage(z) /\ StepOn(e, z)
<1>1. \A y \in Known(reg) : IsImage(y)
  BY BaseIs, Zenon DEF Known, IsRegistry
<1>2. x # NoImage
  BY <1>1, BaseIs, Zenon DEF IsImage
<1>3. x = BaseImage \/ \E e \in reg : x = e.image
  BY DEF Known
<1> QED
  BY <1>1, <1>2, <1>3, Zenon DEF IsRegistry

\* An image with more history than the base image's is that of an entry
LEMMA EntryOf ==
    ASSUME NEW reg, NEW w, IsRegistry(reg, w), NEW x \in Known(reg), Len(x.hist) # 1
    PROVE  \E e \in reg : /\ x = e.image /\ e.key.adds \in BOOLEAN
                          /\ \E z \in Known(reg) : IsImage(z) /\ StepOn(e, z)
BY KnownIs, BaseIs, Zenon

\* The history of a known image determines the image: the store never has to
\* choose between two images with the same history
LEMMA OneByHistory ==
    ASSUME NEW reg, NEW w, IsRegistry(reg, w), NEW x \in Known(reg), NEW y \in Known(reg),
           x.hist = y.hist
    PROVE  x = y
<1>1. CASE Len(x.hist) # 1
  <2>1. PICK e \in reg : /\ x = e.image /\ e.key.adds \in BOOLEAN
                         /\ \E z \in Known(reg) : IsImage(z) /\ StepOn(e, z)
    BY <1>1, EntryOf, Zenon
  <2>2. PICK f \in reg : /\ y = f.image /\ f.key.adds \in BOOLEAN
                         /\ \E z \in Known(reg) : IsImage(z) /\ StepOn(f, z)
    BY <1>1, EntryOf, Zenon
  <2>3. PICK ze \in Known(reg) : IsImage(ze) /\ StepOn(e, ze)
    BY <2>1
  <2>4. PICK zf \in Known(reg) : IsImage(zf) /\ StepOn(f, zf)
    BY <2>2
  <2> DEFINE l == x.hist[Len(x.hist)]
  <2>5. /\ x.hist = Append(ze.hist, l) /\ l.by = e.key.by /\ l.empty = ~e.key.adds
        /\ e.key = generateCacheKey(ze, e.key.by, e.key.adds)
    BY <2>1, <2>3, Zenon DEF StepOn
  <2>6. /\ x.hist = Append(zf.hist, l) /\ l.by = f.key.by /\ l.empty = ~f.key.adds
        /\ f.key = generateCacheKey(zf, f.key.by, f.key.adds)
    BY <2>2, <2>4, Zenon DEF StepOn
  <2> HIDE DEF l
  <2>7. ze.hist = zf.hist
    <3>1. Append(ze.hist, l) = Append(zf.hist, l) /\ IsSeq(ze.hist) /\ IsSeq(zf.hist)
      BY <2>3, <2>4, <2>5, <2>6, Zenon DEF IsImage
    <3> QED
      BY <3>1, AppendEqual, Zenon
  <2>8. e.key.hist = ze.hist /\ f.key.hist = zf.hist
    BY <2>5, <2>6 DEF generateCacheKey
  <2>9. e.key.adds = f.key.adds
    BY <2>1, <2>2, <2>5, <2>6
  <2>10. e = f
    BY <2>5, <2>6, <2>7, <2>8, <2>9, Zenon DEF IsRegistry
  <2> QED
    BY <2>1, <2>2, <2>10, Zenon
<1>2. CASE Len(x.hist) = 1
  <2>1. SUFFICES ASSUME NEW v \in Known(reg), Len(v.hist) = 1
                 PROVE  v = BaseImage
    BY <1>2, Zenon
  <2>2. SUFFICES ASSUME NEW e \in reg, v = e.image, e.key.adds \in BOOLEAN,
                        NEW z, IsImage(z), StepOn(e, z)
                 PROVE  FALSE
    BY KnownIs, Zenon
  <2>3. Len(e.image.hist) = Len(z.hist) + 1 /\ Len(z.hist) \in Nat \ {0}
    BY <2>2, StepIs, Zenon
  <2>4. Len(z.hist) + 1 = 1
    BY <2>1, <2>2, <2>3, Zenon
  <2> QED
    BY <2>3, <2>4
<1> QED
  BY <1>1, <1>2, Zenon

-----------------------------------------------------------------------------
\* The lookup

\* The parent of an entry is the known image that the key's history belongs to
LEMMA ParentIs ==
    ASSUME NEW reg, NEW w, IsRegistry(reg, w), NEW from \in Known(reg), NEW e \in reg,
           e.key.hist = from.hist
    PROVE  e.key.adds \in BOOLEAN /\ IsImage(from) /\ StepOn(e, from)
<1>1. PICK z \in Known(reg) : StepOn(e, z)
  BY Zenon DEF IsRegistry
<1>2. e.key = generateCacheKey(z, e.key.by, e.key.adds)
  BY <1>1, Zenon DEF StepOn
<1>3. e.key.hist = z.hist
  BY <1>2 DEF generateCacheKey
<1>4. z = from
  BY <1>3, OneByHistory, Zenon
<1>5. e.key.adds \in BOOLEAN
  BY Zenon DEF IsRegistry
<1> QED
  BY <1>1, <1>4, <1>5, KnownIs, Zenon

\* An entry with the history, the instruction and the kind of a step has the
\* key of the step, whatever the layers and the format of its parent
LEMMA KeyIs ==
    ASSUME NEW reg, NEW w, IsRegistry(reg, w), NEW from \in Known(reg), NEW e \in reg,
           e.key.hist = from.hist
    PROVE  e.key = generateCacheKey(from, e.key.by, e.key.adds)
BY ParentIs, Zenon DEF StepOn

\* intermediateImageExists returns only images that the registry has under the
\* key of the step
LEMMA FoundIs ==
    ASSUME NEW reg, NEW w, IsRegistry(reg, w), NEW from \in Known(reg), NEW x \in Known(reg),
           NEW by, NEW adds \in BOOLEAN, historyAndDiffIDsMatch(from, by, x, adds)
    PROVE  \E e \in reg : e.image = x /\ e.key = generateCacheKey(from, by, adds)
<1> DEFINE n == Len(from.hist)
<1>1. IsImage(from) /\ IsSeq(from.hist) /\ from.hist # << >>
  BY KnownIs, Zenon DEF IsImage
<1>2. n \in Nat \ {0}
  BY <1>1, EmptySeq, Zenon DEF IsSeq
<1>3. /\ Len(x.hist) = n + 1 /\ SubSeq(x.hist, 1, n) = from.hist
      /\ Len(x.diffs) = Accounted(from.hist) + (IF adds THEN 1 ELSE 0)
      /\ x.hist[n + 1].by = by
  BY Zenon DEF historyAndDiffIDsMatch, Accounted
<1> HIDE DEF n
<1>4. Len(x.hist) # 1
  BY <1>2, <1>3
<1>5. PICK e \in reg : /\ x = e.image /\ e.key.adds \in BOOLEAN
                       /\ \E z \in Known(reg) : IsImage(z) /\ StepOn(e, z)
  BY <1>4, EntryOf, Zenon
<1>6. PICK z \in Known(reg) : IsImage(z) /\ StepOn(e, z)
  BY <1>5
<1>7. /\ Len(x.hist) = Len(z.hist) + 1 /\ Len(z.hist) \in Nat \ {0}
      /\ SubSeq(x.hist, 1, Len(z.hist)) = z.hist /\ Accounted(z.hist) \in Nat
      /\ Len(x.diffs) = Accounted(z.hist) + (IF e.key.adds THEN 1 ELSE 0)
      /\ x.hist[Len(z.hist) + 1].by = e.key.by
  BY <1>5, <1>6, StepIs
<1>8. Len(z.hist) = n
  BY <1>2, <1>3, <1>7
<1>9. z.hist = from.hist
  BY <1>3, <1>7, <1>8, Zenon
<1>10. z = from
  BY <1>9, OneByHistory, Zenon
<1>11. e.key.by = by
  BY <1>3, <1>7, <1>8, Zenon
<1>12. e.key.adds = adds
  BY <1>3, <1>5, <1>7, <1>9
<1>13. e.key = generateCacheKey(z, e.key.by, e.key.adds)
  BY <1>6, Zenon DEF StepOn
<1> QED
  BY <1>5, <1>10, <1>11, <1>12, <1>13, Zenon

\* The lookup accepts the image that the registry has under the key of the step
LEMMA KeyFound ==
    ASSUME NEW reg, NEW w, IsRegistry(reg, w), NEW from \in Known(reg), NEW e \in reg,
           NEW by, NEW adds, e.key = generateCacheKey(from, by, adds), NEW images,
           e.image \in images
    PROVE  e.image \in intermediateImageExists(images, from, by, adds, e.image.fmt)
<1>1. e.key.hist = from.hist /\ e.key.by = by /\ e.key.adds = adds
  BY DEF generateCacheKey
<1>2. e.key.adds \in BOOLEAN /\ IsImage(from) /\ StepOn(e, from)
  BY <1>1, ParentIs, Zenon
<1>3. /\ ParentLayer(e.image, e.key.adds) = from.diffs
      /\ historyAndDiffIDsMatch(from, e.key.by, e.image, e.key.adds)
  BY <1>2, StepIs
<1> QED
  BY <1>1, <1>3, Zenon DEF intermediateImageExists

\* Known images that are the same step on the same parent are one image
LEMMA SameStepSame ==
    ASSUME NEW reg, NEW w, IsRegistry(reg, w), NEW x \in Known(reg), NEW y \in Known(reg),
           SameStep(x, y)
    PROVE  x = y
<1>1. /\ Len(x.hist) # 1 /\ Len(y.hist) # 1
      /\ SubSeq(x.hist, 1, Len(x.hist) - 1) = SubSeq(y.hist, 1, Len(y.hist) - 1)
      /\ x.hist[Len(x.hist)].by = y.hist[Len(y.hist)].by
      /\ x.hist[Len(x.hist)].empty = y.hist[Len(y.hist)].empty
  BY DEF SameStep, Front
<1>2. ASSUME NEW v \in Known(reg), Len(v.hist) # 1
      PROVE  \E e \in reg : /\ e.image = v /\ e.key.adds \in BOOLEAN
                            /\ e.key.hist = SubSeq(v.hist, 1, Len(v.hist) - 1)
                            /\ e.key.by = v.hist[Len(v.hist)].by
                            /\ v.hist[Len(v.hist)].empty = ~e.key.adds
  <2>1. PICK e \in reg : /\ v = e.image /\ e.key.adds \in BOOLEAN
                         /\ \E z \in Known(reg) : IsImage(z) /\ StepOn(e, z)
    BY <1>2, EntryOf, Zenon
  <2>2. PICK z \in Known(reg) : IsImage(z) /\ StepOn(e, z)
    BY <2>1
  <2>3. e.key = generateCacheKey(z, e.key.by, e.key.adds)
    BY <2>2, Zenon DEF StepOn
  <2>4. e.key.hist = z.hist
    BY <2>3 DEF generateCacheKey
  <2>5. /\ Len(v.hist) = Len(z.hist) + 1 /\ Len(z.hist) \in Nat \ {0}
        /\ SubSeq(v.hist, 1, Len(z.hist)) = z.hist
        /\ v.hist[Len(z.hist) + 1].by = e.key.by
        /\ v.hist[Len(z.hist) + 1].empty = ~e.key.adds
    BY <2>1, <2>2, StepIs
  <2>6. Len(v.hist) - 1 = Len(z.hist)
    BY <2>5
  <2> QED
    BY <2>1, <2>4, <2>5, <2>6, Zenon
<1>3. PICK e \in reg : /\ e.image = x /\ e.key.adds \in BOOLEAN
                       /\ e.key.hist = SubSeq(x.hist, 1, Len(x.hist) - 1)
                       /\ e.key.by = x.hist[Len(x.hist)].by
                       /\ x.hist[Len(x.hist)].empty = ~e.key.adds
  BY <1>1, <1>2, Zenon
<1>4. PICK f \in reg : /\ f.image = y /\ f.key.adds \in BOOLEAN
                       /\ f.key.hist = SubSeq(y.hist, 1, Len(y.hist) - 1)
                       /\ f.key.by = y.hist[Len(y.hist)].by
                       /\ y.hist[Len(y.hist)].empty = ~f.key.adds
  BY <1>1, <1>2, Zenon
<1>5. e.key.hist = f.key.hist /\ e.key.by = f.key.by
  BY <1>1, <1>3, <1>4, Zenon
<1>6. e.key.adds = f.key.adds
  BY <1>1, <1>3, <1>4, ZenonT(60)
<1> QED
  BY <1>3, <1>4, <1>5, <1>6, Zenon DEF IsRegistry

-----------------------------------------------------------------------------
\* Stage executors

\* Running an instruction changes the configuration and the root file system of
\* a stage executor, and the created-by text only of ARG
LEMMA RunIs ==
    ASSUME NEW t, NEW w, IsStage(t, w)
    PROVE  /\ IsStage(Run(t), w)
           /\ Run(t).phase = t.phase /\ Run(t).from = t.from /\ Run(t).cacheID = t.cacheID
           /\ Run(t).checkForLayers = t.checkForLayers /\ Run(t).req = t.req /\ Run(t).i = t.i
           /\ Ins(t).op # "ARG" => Key(Run(t)) = Key(t)
<1> DEFINE u == Run(t)
           ib == Evaluate(t.ib, t.req, Ins(t))
<1>1. /\ DOMAIN u = DOMAIN t /\ u.ib = ib /\ u.phase = t.phase /\ u.from = t.from
      /\ u.cacheID = t.cacheID /\ u.checkForLayers = t.checkForLayers
      /\ u.req = t.req /\ u.i = t.i /\ u.pre = t.pre
  BY DEF Run, IsStage
<1>2. /\ DOMAIN ib = {"conf", "allowed"}
      /\ Ins(t).op # "ARG" => ib.allowed = t.ib.allowed
      /\ Ins(t).op = "RUN" => ib = t.ib
  BY ZenonT(60) DEF IsStage, Evaluate
<1> HIDE DEF u, ib
<1>3. IsStage(u, w)
  BY <1>1, <1>2, Zenon DEF IsStage
<1>4. Ins(u) = Ins(t) /\ Summary(u) = Summary(t)
  BY <1>1, Zenon DEF Ins, Summary
<1>5. ASSUME Ins(t).op # "ARG" PROVE By(u) = By(t)
  <2>1. CASE Ins(t).op = "RUN"
    BY <1>1, <1>2, <1>4, <2>1, Zenon DEF By
  <2>2. CASE Ins(t).op # "RUN"
    <3> DEFINE ins == Ins(t)
               sum == Summary(t)
    <3>1. ASSUME NEW c, c.allowed = t.ib.allowed
          PROVE  getCreatedBy(c, t.req, ins, sum) =
                     [op |-> ins.op, var |-> ins.var, sum |-> sum, text |-> ins.text]
      <4> HIDE DEF ins, sum
      <4> QED
        BY <1>5, <2>2 DEF getCreatedBy, ins
    <3>2. getCreatedBy(ib, t.req, ins, sum) = getCreatedBy(t.ib, t.req, ins, sum)
      BY <3>1, <1>2, <1>5, Zenon
    <3> QED
      BY <3>2, <1>1, <1>4, Zenon DEF By
  <2> QED
    BY <2>1, <2>2, Zenon
<1>6. Ins(t).op # "ARG" => Key(u) = Key(t)
  BY <1>1, <1>4, <1>5, Zenon DEF Key
<1> QED
  BY <1>1, <1>3, <1>6, Zenon DEF u

\* The key of a step depends on the image, the instruction and the configuration
LEMMA SameKey ==
    ASSUME NEW t, NEW u, u.from = t.from, u.ib = t.ib, u.req = t.req, u.i = t.i
    PROVE  Key(u) = Key(t) /\ By(u) = By(t) /\ Ins(u) = Ins(t)
<1>1. Ins(u) = Ins(t)
  BY Zenon DEF Ins
<1>2. Summary(u) = Summary(t)
  BY <1>1, Zenon DEF Summary
<1>3. By(u) = By(t)
  BY <1>1, <1>2, Zenon DEF By
<1> QED
  BY <1>1, <1>3, Zenon DEF Key

\* What generateCacheKey puts into the key of a step
LEMMA KeyFields ==
    ASSUME NEW t
    PROVE  /\ Key(t).hist = t.from.hist /\ Key(t).by = By(t)
           /\ Key(t).adds = stepRequiresLayer(Ins(t)) /\ stepRequiresLayer(Ins(t)) \in BOOLEAN
BY DEF Key, generateCacheKey, stepRequiresLayer

\* A step is committed exactly when the registry has its key
LEMMA UncommittedIs ==
    ASSUME NEW reg, NEW w, IsRegistry(reg, w), NEW t, t.from \in Known(reg)
    PROVE  Uncommitted(t, reg) <=> \A e \in reg : e.key # Key(t)
<1>1. ASSUME NEW e \in reg
      PROVE  e.key = Key(t) <=> /\ e.key.hist = t.from.hist /\ e.key.by = By(t)
                                /\ e.key.adds = stepRequiresLayer(Ins(t))
  <2>1. e.key.hist = t.from.hist => e.key = generateCacheKey(t.from, e.key.by, e.key.adds)
    BY KeyIs, Zenon
  <2> QED
    BY <2>1, KeyFields, Zenon DEF Key
<1> QED
  BY <1>1, Zenon DEF Uncommitted

\* Only the one stage executor that is at work changes: what it then knows of
\* the cache is all there is to show
LEMMA StageStep ==
    ASSUME LayerInv, Orderly, NEW b \in Builders, NEW v, s' = [s EXCEPT ![b] = v],
           \A c \in Builders : s[c].phase \notin Idle => c = b,
           v.phase \notin Idle => StageOK(v, registry', World), UNCHANGED world
    PROVE  /\ DOMAIN s' = Builders
           /\ \A c, d \in Builders : s'[c].phase \notin Idle /\ s'[d].phase \notin Idle => c = d
           /\ \A c \in Builders : s'[c].phase \notin Idle => StageOK(s'[c], registry', World')
<1>1. DOMAIN s = Builders /\ World' = World
  BY DEF LayerInv, World
<1>2. DOMAIN s' = Builders /\ s'[b] = v /\ \A c \in Builders : c # b => s'[c] = s[c]
  BY <1>1
<1>3. \A c \in Builders : s'[c].phase \notin Idle => c = b
  BY <1>2, Zenon
<1> QED
  BY <1>1, <1>2, <1>3, Zenon

\* The parts of the invariant, put together after a step that keeps the registry
LEMMA KeptRegistry ==
    ASSUME LayerInv, Orderly, NEW b \in Builders, NEW v, s' = [s EXCEPT ![b] = v],
           \A c \in Builders : s[c].phase \notin Idle => c = b,
           v.phase \notin Idle => StageOK(v, registry, World), UNCHANGED <<world, home, registry>>,
           DOMAIN store' = Machines, \A m \in Machines : store'[m] \subseteq Known(registry)
    PROVE  LayerInv'
<1>1. home \in [Builders -> Machines] /\ IsRegistry(registry, World)
  BY DEF LayerInv
<1>2. world' = world /\ home' = home /\ registry' = registry /\ World' = World
  BY DEF World
<1>4. v.phase \notin Idle => StageOK(v, registry', World)
  BY <1>2, Zenon
<1>5. /\ DOMAIN s' = Builders
      /\ \A c, d \in Builders : s'[c].phase \notin Idle /\ s'[d].phase \notin Idle => c = d
      /\ \A c \in Builders : s'[c].phase \notin Idle => StageOK(s'[c], registry', World')
  BY <1>2, <1>4, StageStep, Zenon
<1> QED
  BY <1>1, <1>2, <1>5, Zenon DEF LayerInv

\* A lookup that finds nothing, here or in the registry, leaves a step that
\* nobody has committed; one that finds something has the entry of the step.
\* Whatever the registry has under the key is found after it was pulled.
LEMMA SearchKeeps ==
    ASSUME LayerInv, Orderly, NEW b \in Builders, NEW t, NEW found, NEW miss \in {"run", "commit"},
           \A c \in Builders : s[c].phase \notin Idle => c = b,
           StageOK(t, registry, World), t.phase # "commit", t.checkForLayers,
           IsStage(found, World), found.from = t.from, Key(found) = Key(t), found.checkForLayers,
           Search(b, t, found, miss), UNCHANGED <<world, home, registry>>
    PROVE  LayerInv'
<1> DEFINE here == store[home[b]]
           remote == {e.image : e \in {e \in registry : e.key = Key(t)}}
           hit(x, pulled) == [found EXCEPT !.phase = "commit", !.cacheID = x, !.pulled = pulled]
           missed == [t EXCEPT !.phase = miss]
<1>1. /\ IsRegistry(registry, World) /\ here \subseteq Known(registry)
      /\ remote \subseteq Known(registry)
      /\ DOMAIN store = Machines /\ home[b] \in Machines
      /\ \A m \in Machines : store[m] \subseteq Known(registry)
  BY DEF LayerInv, Known
<1>2. /\ IsStage(t, World) /\ t.from \in Known(registry) /\ t.cacheID = NoImage
      /\ t.req.opts \in World.options
  BY DEF StageOK, IsStage
<1>3. t.req.opts.cacheFrom /\ ~World.mayFail
  BY <1>2 DEF Orderly
<1>4. ASSUME NEW x \in Known(registry), NEW images, x \in Found(images, t), NEW pulled
      PROVE  StageOK(hit(x, pulled), registry, World)
  <2> DEFINE u == hit(x, pulled)
  <2>1. /\ DOMAIN u = DOMAIN found /\ u.phase = "commit" /\ u.cacheID = x
        /\ u.from = found.from /\ u.ib = found.ib /\ u.req = found.req /\ u.i = found.i
        /\ u.pre = found.pre /\ u.checkForLayers = found.checkForLayers
    BY ZenonT(60) DEF IsStage
  <2> HIDE DEF u
  <2>2. IsStage(u, World)
    BY <2>1 DEF IsStage
  <2>3. Key(u) = Key(t)
    BY <2>1, SameKey, Zenon
  <2>4. \E e \in registry : e.image = x /\ e.key = Key(t)
    <3>1. historyAndDiffIDsMatch(t.from, By(t), x, stepRequiresLayer(Ins(t)))
      BY <1>4, Zenon DEF Found, intermediateImageExists
    <3>2. stepRequiresLayer(Ins(t)) \in BOOLEAN
      BY KeyFields, Zenon
    <3>3. \E e \in registry :
             e.image = x /\ e.key = generateCacheKey(t.from, By(t), stepRequiresLayer(Ins(t)))
      BY <1>1, <1>2, <1>4, <3>1, <3>2, FoundIs
    <3> QED
      BY <3>3, Zenon DEF Key
  <2>5. x # NoImage
    BY <1>1, <1>4, KnownIs, Zenon
  <2>6. Cached(u, registry)
    BY <2>1, <2>3, <2>4, Zenon DEF Cached
  <2> QED
    BY <2>1, <2>2, <2>5, <2>6, <1>2 DEF StageOK, u
<1>5. ASSUME Found(here, t) = {}, remote = {}
      PROVE  StageOK(missed, registry, World)
  <2>1. /\ DOMAIN missed = DOMAIN t /\ missed.phase = miss /\ missed.cacheID = NoImage
        /\ missed.from = t.from /\ missed.ib = t.ib /\ missed.req = t.req /\ missed.i = t.i
        /\ missed.pre = t.pre /\ missed.checkForLayers = t.checkForLayers
    BY <1>2, ZenonT(60) DEF IsStage
  <2>2. \A e \in registry : e.key # Key(t)
    BY <1>5
  <2>3. Key(missed) = Key(t)
    BY <2>1, SameKey, Zenon
  <2> HIDE DEF missed
  <2>4. IsStage(missed, World)
    BY <2>1, <1>2 DEF IsStage
  <2>5. Uncommitted(missed, registry)
    BY <2>1, <2>2, <2>3, <1>1, <1>2, UncommittedIs, Zenon
  <2> QED
    BY <2>1, <2>4, <2>5, <1>2 DEF StageOK, missed
<1>6. ASSUME NEW x \in remote PROVE x \in Found({x}, t)
  <2>1. PICK e \in registry : e.key = Key(t) /\ e.image = x
    BY <1>6
  <2>2. x.fmt = t.req.opts.format
    BY <2>1, <1>1, <1>2, Zenon DEF IsRegistry
  <2>3. x \in {x}
    OBVIOUS
  <2>4. x \in intermediateImageExists({x}, t.from, By(t), stepRequiresLayer(Ins(t)), x.fmt)
    BY <2>1, <2>3, <1>1, <1>2, KeyFound, Zenon DEF Key
  <2> QED
    BY <2>2, <2>4, Zenon DEF Found
<1>7. CASE store' = store /\ \E x \in Found(here, t) : s' = [s EXCEPT ![b] = hit(x, FALSE)]
  <2>1. PICK x \in Found(here, t) : s' = [s EXCEPT ![b] = hit(x, FALSE)]
    BY <1>7, ZenonT(60)
  <2>2. x \in here
    BY Zenon DEF Found, intermediateImageExists
  <2>3. StageOK(hit(x, FALSE), registry, World)
    BY <1>1, <1>4, <2>2, Zenon
  <2> HIDE DEF hit
  <2> QED
    BY <1>1, <1>7, <2>1, <2>3, KeptRegistry, ZenonT(60)
<1>8. CASE /\ Found(here, t) = {} /\ (~t.req.opts.cacheFrom \/ remote = {} \/ World.mayFail)
           /\ s' = [s EXCEPT ![b] = missed] /\ store' = store
  <2>1. StageOK(missed, registry, World)
    BY <1>3, <1>5, <1>8, Zenon
  <2> HIDE DEF missed
  <2> QED
    BY <1>1, <1>8, <2>1, KeptRegistry, ZenonT(60)
<1>9. CASE \E x \in remote :
              /\ store' = [store EXCEPT ![home[b]] = @ \cup {x}]
              /\ s' = [s EXCEPT ![b] = IF x \in Found({x}, t) THEN hit(x, TRUE) ELSE missed]
  <2>1. PICK x \in remote :
              /\ store' = [store EXCEPT ![home[b]] = @ \cup {x}]
              /\ s' = [s EXCEPT ![b] = IF x \in Found({x}, t) THEN hit(x, TRUE) ELSE missed]
    BY <1>9, ZenonT(60)
  <2>2. x \in Found({x}, t) /\ x \in Known(registry)
    BY <1>1, <1>6
  <2>3. StageOK(hit(x, TRUE), registry, World) /\ {x} \subseteq Known(registry)
    BY <1>4, <2>2, Zenon
  <2> HIDE DEF hit, missed
  <2>4. s' = [s EXCEPT ![b] = hit(x, TRUE)]
    BY <2>1, <2>2, Zenon
  <2>5. DOMAIN store' = Machines /\ \A m \in Machines : store'[m] \subseteq Known(registry)
    BY <1>1, <2>1, <2>3
  <2> QED
    BY <2>3, <2>4, <2>5, KeptRegistry, ZenonT(60)
<1> QED
  BY <1>7, <1>8, <1>9, Zenon DEF Search

-----------------------------------------------------------------------------
\* Every step keeps the invariant

\* At the start there is the base image, and nothing in the registry
LEMMA InitLayers == Init => LayerInv
<1> SUFFICES ASSUME Init PROVE LayerInv
  OBVIOUS
<1>1. /\ home \in World.homes /\ store = [m \in Machines |-> {BaseImage}] /\ registry = {}
      /\ world \in DOMAIN Worlds
      /\ s = [b \in Builders |-> [NewStage(CHOOSE r \in Request : TRUE, 0) EXCEPT !.phase = "idle"]]
  BY DEF Init
<1>2. home \in [Builders -> Machines]
  BY <1>1, ConstantAssumption DEF World
<1>3. IsRegistry(registry, World) /\ Known(registry) = {BaseImage}
  BY <1>1 DEF IsRegistry, Known
<1>4. DOMAIN store = Machines /\ \A m \in Machines : store[m] \subseteq Known(registry)
  BY <1>1, <1>3
<1>5. DOMAIN s = Builders /\ \A b \in Builders : s[b].phase \in Idle
  <2> DEFINE t == NewStage(CHOOSE r \in Request : TRUE, 0)
  <2>1. [t EXCEPT !.phase = "idle"].phase = "idle"
    BY DEF NewStage
  <2> HIDE DEF t
  <2> QED
    BY <1>1, <2>1, ZenonT(60) DEF Idle, t
<1> QED
  BY <1>2, <1>3, <1>4, <1>5, Zenon DEF LayerInv

\* A build starts when no other is in progress, on the base image
LEMMA StartLayers ==
    ASSUME LayerInv, Orderly, world \in DOMAIN Worlds, NEW b \in Builders, StartBuild(b),
           UNCHANGED <<world, home>>
    PROVE  LayerInv'
<1>1. PICK r \in Request : s' = [s EXCEPT ![b] = NewStage(r, builds + 1)]
  BY ZenonT(60) DEF StartBuild
<1>2. /\ \A c \in Builders : s[c].phase \in Idle
      /\ store' = store /\ UNCHANGED <<world, home, registry>>
  BY DEF StartBuild, Orderly
<1>3. /\ r.file \in World.files /\ r.opts \in World.options
      /\ r.file \in Seq(Instruction) \ {<< >>}
  BY ConstantAssumption DEF Request, World
<1>4. r.opts.layers /\ r.opts.useCache /\ 1 \in 1 .. Len(r.file)
  <2>1. Len(r.file) \in Nat \ {0}
    BY <1>3, EmptySeq, Zenon
  <2> QED
    BY <1>3, <2>1 DEF Orderly
<1> DEFINE v == NewStage(r, builds + 1)
<1>5. /\ {"phase", "req", "i", "from", "ib", "checkForLayers", "did", "pre", "cacheID", "pulled",
          "imgID", "number"} = DOMAIN v
      /\ DOMAIN v.ib = {"conf", "allowed"}
      /\ v.phase = "step" /\ v.req = r /\ v.i = 1 /\ v.pre = << >> /\ v.from = BaseImage
      /\ v.checkForLayers = (r.opts.layers /\ r.opts.useCache) /\ v.cacheID = NoImage
  BY DEF NewStage
<1> HIDE DEF v
<1>6. IsStage(v, World) /\ BaseImage \in Known(registry)
  BY <1>3, <1>4, <1>5 DEF IsStage, Known
<1>7. StageOK(v, registry, World)
  BY <1>4, <1>5, <1>6, ZenonT(60) DEF StageOK
<1>8. /\ DOMAIN store' = Machines /\ \A m \in Machines : store'[m] \subseteq Known(registry)
  BY <1>2, Zenon DEF LayerInv
<1> QED
  BY <1>1, <1>2, <1>7, <1>8, KeptRegistry, Zenon DEF v

\* The stage executor at work is the only one
LEMMA AtWork ==
    ASSUME LayerInv, Orderly, NEW b \in Builders, s[b].phase \notin Idle
    PROVE  /\ \A c \in Builders : s[c].phase \notin Idle => c = b
           /\ StageOK(s[b], registry, World) /\ IsStage(s[b], World)
           /\ DOMAIN store = Machines /\ \A m \in Machines : store[m] \subseteq Known(registry)
BY Zenon DEF LayerInv, StageOK

\* The first lookup, before or, for COPY, after running the instruction
LEMMA LookupLayers ==
    ASSUME LayerInv, Orderly, NEW b \in Builders, LookupStep(b), UNCHANGED <<world, home>>
    PROVE  LayerInv'
<1> DEFINE t == s[b]
           lookup == /\ t.checkForLayers /\ Ins(t).op # "ARG"
                     /\ ~(t.req.opts.squash /\ LastInstruction(t))
<1>1. t.phase = "step" /\ t.phase \notin Idle /\ UNCHANGED <<world, home, registry>>
  BY DEF LookupStep, Idle
<1>2. /\ \A c \in Builders : s[c].phase \notin Idle => c = b
      /\ StageOK(t, registry, World) /\ IsStage(t, World)
      /\ DOMAIN store = Machines /\ \A m \in Machines : store[m] \subseteq Known(registry)
  BY <1>1, AtWork, Zenon
<1>3. /\ IsStage(Run(t), World)
      /\ Run(t).phase = t.phase /\ Run(t).from = t.from /\ Run(t).cacheID = t.cacheID
      /\ Run(t).checkForLayers = t.checkForLayers /\ Run(t).req = t.req /\ Run(t).i = t.i
      /\ Ins(t).op # "ARG" => Key(Run(t)) = Key(t)
  BY <1>2, RunIs, ZenonT(60)
<1>4. StageOK(Run(t), registry, World)
  BY <1>1, <1>2, <1>3 DEF StageOK, Unused
<1>5. "phase" \in DOMAIN t /\ "run" \in {"run", "commit"} /\ "commit" \in {"run", "commit"}
  BY <1>2 DEF IsStage
<1>6. CASE ~lookup /\ s' = [s EXCEPT ![b].phase = "run"] /\ store' = store
  <2> DEFINE v == [t EXCEPT !.phase = "run"]
  <2>1. s' = [s EXCEPT ![b] = v]
    BY <1>6
  <2>2. /\ DOMAIN v = DOMAIN t /\ v.phase = "run" /\ v.cacheID = t.cacheID /\ v.from = t.from
        /\ v.ib = t.ib /\ v.req = t.req /\ v.i = t.i /\ v.pre = t.pre
        /\ v.checkForLayers = t.checkForLayers
    BY <1>2 DEF IsStage
  <2> HIDE DEF v
  <2>3. StageOK(v, registry, World)
    BY <1>1, <1>2, <2>2 DEF StageOK, IsStage, Unused
  <2> QED
    BY <1>1, <1>2, <1>6, <2>1, <2>3, KeptRegistry, ZenonT(60)
<1>7. CASE lookup /\ Ins(t).op = "COPY" /\ Search(b, Run(t), Run(t), "commit")
  <2>1. Run(t).checkForLayers /\ Run(t).phase # "commit"
    BY <1>1, <1>3, <1>7, ZenonT(60)
  <2> HIDE DEF t
  <2> QED
    BY <1>1, <1>2, <1>3, <1>4, <1>5, <1>7, <2>1, SearchKeeps, ZenonT(60)
<1>8. CASE /\ lookup /\ Ins(t).op # "COPY"
           /\ Search(b, t, IF stepRequiresLayer(Ins(t)) THEN t ELSE Run(t), "run")
  <2> DEFINE found == IF stepRequiresLayer(Ins(t)) THEN t ELSE Run(t)
  <2>1. t.checkForLayers /\ t.phase # "commit"
    BY <1>1, <1>8, Zenon
  <2>2. /\ IsStage(found, World) /\ found.from = t.from /\ Key(found) = Key(t)
        /\ found.checkForLayers
    BY <1>2, <1>3, <1>8, <2>1, ZenonT(60)
  <2>3. Search(b, t, found, "run")
    BY <1>8, Zenon
  <2> HIDE DEF t, found
  <2> QED
    BY <1>1, <1>2, <1>5, <2>1, <2>2, <2>3, SearchKeeps, ZenonT(60)
<1> QED
  BY <1>6, <1>7, <1>8, Zenon DEF LookupStep

\* After running the instruction: another lookup, or none after a miss
LEMMA RunLayers ==
    ASSUME LayerInv, Orderly, NEW b \in Builders, RunStep(b), UNCHANGED <<world, home>>
    PROVE  LayerInv'
<1> DEFINE t == Run(s[b])
<1>1. s[b].phase = "run" /\ s[b].phase \notin Idle /\ UNCHANGED <<world, home, registry>>
  BY DEF RunStep, Idle
<1>2. /\ \A c \in Builders : s[c].phase \notin Idle => c = b
      /\ StageOK(s[b], registry, World) /\ IsStage(s[b], World)
      /\ DOMAIN store = Machines /\ \A m \in Machines : store[m] \subseteq Known(registry)
  BY <1>1, AtWork, Zenon
<1>3. /\ IsStage(t, World) /\ t.phase = s[b].phase /\ t.from = s[b].from
      /\ t.cacheID = s[b].cacheID /\ t.checkForLayers = s[b].checkForLayers
  BY <1>2, RunIs, Zenon
<1> HIDE DEF t
<1>4. StageOK(t, registry, World)
  BY <1>1, <1>2, <1>3 DEF StageOK, Unused
<1>5. CASE t.checkForLayers /\ Search(b, t, t, "commit")
  <2>1. "commit" \in {"run", "commit"} /\ t.phase # "commit"
    BY <1>1, <1>3
  <2> QED
    BY <1>1, <1>2, <1>3, <1>4, <1>5, <2>1, SearchKeeps, ZenonT(60)
<1>6. CASE /\ ~t.checkForLayers /\ store' = store
           /\ s' = [s EXCEPT ![b] = [t EXCEPT !.phase = "commit"]]
  <2> DEFINE v == [t EXCEPT !.phase = "commit"]
  <2>1. /\ DOMAIN v = DOMAIN t /\ v.phase = "commit" /\ v.cacheID = t.cacheID /\ v.from = t.from
        /\ v.ib = t.ib /\ v.req = t.req /\ v.i = t.i /\ v.pre = t.pre
        /\ v.checkForLayers = t.checkForLayers
    BY <1>3 DEF IsStage
  <2> HIDE DEF v
  <2>2. IsStage(v, World) /\ v.from \in Known(registry) /\ v.cacheID = NoImage
    BY <1>1, <1>3, <1>4, <2>1 DEF StageOK, IsStage
  <2>3. Unused(v.from, registry)
    BY <1>4, <1>6, <2>1, ZenonT(60) DEF StageOK, Unused
  <2>4. Uncommitted(v, registry)
    BY <2>3, Zenon DEF Unused, Uncommitted
  <2>5. StageOK(v, registry, World)
    BY <2>1, <2>2, <2>3, <2>4, ZenonT(60) DEF StageOK
  <2> QED
    BY <1>1, <1>2, <1>6, <2>5, KeptRegistry, ZenonT(60) DEF v
<1> QED
  BY <1>5, <1>6, Zenon DEF RunStep, LookAgain, t

\* The image that stage executor t commits after a miss, the entry of an image
\* in the registry, and t after the commit
New(t, n) == commit(t, By(t), ~stepRequiresLayer(Ins(t)), FALSE, n)
Entry(t, x) == [key |-> Key(t), image |-> x]
After(t, image) ==
    [IF LastInstruction(t) THEN [t EXCEPT !.phase = "done", !.imgID = image]
     ELSE Rebase(t, image) EXCEPT !.checkForLayers = @ /\ t.cacheID # NoImage]

\* The fields of an entry
LEMMA EntryIs ==
    ASSUME NEW t, NEW x
    PROVE  /\ Entry(t, x).key = Key(t) /\ Entry(t, x).image = x
           /\ Entry(t, x) = [key |-> Entry(t, x).key, image |-> Entry(t, x).image]
           /\ Entry(t, x).key.adds \in BOOLEAN
BY KeyFields DEF Entry

\* The image that a stage executor commits after a miss is a step on the image
\* it works on
LEMMA CommitIs ==
    ASSUME NEW t, IsImage(t.from), t.pre = << >>, NEW n
    PROVE  StepOn(Entry(t, New(t, n)), t.from) /\ New(t, n).fmt = t.req.opts.format
<1> DEFINE x == New(t, n)
           e == Entry(t, x)
           adds == stepRequiresLayer(Ins(t))
           entry == [by |-> By(t), at |-> IF t.req.opts.timestamp THEN 0 ELSE t.number,
                     empty |-> ~adds]
           layer == [did |-> t.did, n |-> n]
<1>1. /\ e.key = Key(t) /\ e.image = x
      /\ Key(t).hist = t.from.hist /\ Key(t).by = By(t) /\ Key(t).adds = adds
      /\ adds \in BOOLEAN /\ Key(t) = generateCacheKey(t.from, By(t), adds)
  BY KeyFields, EntryIs DEF Key
<1>2. IsSeq(t.from.hist) /\ IsSeq(t.from.diffs)
  BY DEF IsImage
<1>3. /\ x.hist = t.from.hist \o t.pre \o <<entry>>
      /\ x.diffs = IF ~adds THEN t.from.diffs ELSE Append(t.from.diffs, layer)
      /\ x.fmt = t.req.opts.format
  <2> HIDE DEF adds
  <2> QED
    BY DEF New, commit, adds
<1>4. entry.by = By(t) /\ entry.empty = ~adds
  OBVIOUS
<1> HIDE DEF x, e, adds, entry, layer
<1>5. x.hist = Append(t.from.hist, entry)
  <2>1. t.from.hist \o t.pre = t.from.hist
    BY <1>2, ConcatEmptySeq, Zenon DEF IsSeq
  <2>2. t.from.hist \o <<entry>> = Append(t.from.hist, entry)
    BY <1>2, AppendIs, Zenon
  <2> QED
    BY <2>1, <2>2, <1>3, Zenon
<1>6. x.hist[Len(x.hist)] = entry
  <2>1. Append(t.from.hist, entry)[Len(Append(t.from.hist, entry))] = entry
    BY <1>2, AppendIs, Zenon
  <2> QED
    BY <1>5, <2>1, Zenon
<1>7. adds => x.diffs[Len(x.diffs)] = layer
  <2>1. SUFFICES ASSUME adds PROVE x.diffs[Len(x.diffs)] = layer
    OBVIOUS
  <2>2. x.diffs = Append(t.from.diffs, layer)
    BY <1>3, <2>1, Zenon
  <2>3. Append(t.from.diffs, layer)[Len(Append(t.from.diffs, layer))] = layer
    BY <1>2, AppendIs, Zenon
  <2> QED
    BY <2>2, <2>3, Zenon
<1>8. x.diffs = IF adds THEN Append(t.from.diffs, x.diffs[Len(x.diffs)]) ELSE t.from.diffs
  BY <1>1, <1>3, <1>7, Zenon
<1>9. StepOn(e, t.from)
  BY <1>1, <1>4, <1>5, <1>6, <1>8 DEF StepOn
<1> QED
  BY <1>3, <1>9, ZenonT(60) DEF x, e

\* Pushing a step that nobody had committed keeps the registry in order, and no
\* entry is a step on the new image yet
LEMMA PushNew ==
    ASSUME NEW reg, NEW w, IsRegistry(reg, w), NEW t, t.from \in Known(reg), t.pre = << >>,
           Uncommitted(t, reg), \A o \in w.options : o.format = t.req.opts.format, NEW x,
           StepOn(Entry(t, x), t.from), x.fmt = t.req.opts.format
    PROVE  /\ IsRegistry(reg \cup {Entry(t, x)}, w)
           /\ Unused(x, reg \cup {Entry(t, x)})
<1> DEFINE e == Entry(t, x)
<1>1. IsImage(t.from)
  BY KnownIs, Zenon
<1>2. /\ e.key = Key(t) /\ e.image = x /\ e.key.adds \in BOOLEAN
      /\ StepOn(e, t.from) /\ e = [key |-> e.key, image |-> e.image]
  BY EntryIs
<1> HIDE DEF e
<1>3. /\ IsImage(x) /\ Len(x.hist) = Len(t.from.hist) + 1 /\ Len(t.from.hist) \in Nat \ {0}
  BY <1>1, <1>2, StepIs
<1>4. Known(reg) \subseteq Known(reg \cup {e})
  BY DEF Known
<1>5. /\ Key(t).hist = t.from.hist /\ Key(t).by = By(t)
      /\ Key(t).adds = stepRequiresLayer(Ins(t))
  BY KeyFields, Zenon
<1>6. ASSUME NEW f \in reg
      PROVE  ~(f.key.hist = e.key.hist /\ f.key.by = e.key.by /\ f.key.adds = e.key.adds)
  BY <1>2, <1>5, Zenon DEF Uncommitted
<1>7. ASSUME NEW f \in reg \cup {e}
      PROVE  /\ f = [key |-> f.key, image |-> f.image] /\ f.key.adds \in BOOLEAN
             /\ IsImage(f.image) /\ \A o \in w.options : f.image.fmt = o.format
             /\ \E z \in Known(reg \cup {e}) : StepOn(f, z)
  <2>1. CASE f \in reg
    BY <1>4, <2>1, Zenon DEF IsRegistry
  <2>2. CASE f = e
    BY <1>2, <1>3, <1>4, <2>2, ZenonT(60)
  <2> QED
    BY <1>7, <2>1, <2>2, Zenon
<1>8. ASSUME NEW f \in reg \cup {e}, NEW g \in reg \cup {e},
             f.key.hist = g.key.hist, f.key.by = g.key.by, f.key.adds = g.key.adds
      PROVE  f = g
  <2>1. CASE f \in reg /\ g \in reg
    BY <1>8, <2>1, Zenon DEF IsRegistry
  <2>2. CASE f = e /\ g = e
    BY <2>2, Zenon
  <2>3. CASE f \in reg /\ g = e
    BY <1>6, <1>8, <2>3, Zenon
  <2>4. CASE f = e /\ g \in reg
    BY <1>6, <1>8, <2>4, Zenon
  <2> QED
    BY <1>8, <2>1, <2>2, <2>3, <2>4, ZenonT(60)
<1>9. IsRegistry(reg \cup {e}, w)
  BY <1>7, <1>8, Zenon DEF IsRegistry
<1>10. ASSUME NEW f \in reg \cup {e}, f.key.hist = x.hist
       PROVE  FALSE
  <2>1. f \in reg
    <3>1. e.key.hist # x.hist
      <4>1. Len(t.from.hist) # Len(x.hist)
        BY <1>3
      <4> QED
        BY <4>1, <1>2, <1>5, Zenon
    <3> QED
      BY <1>10, <3>1, Zenon
  <2>2. PICK z \in Known(reg) : StepOn(f, z)
    BY <2>1, Zenon DEF IsRegistry
  <2>3. f.key = generateCacheKey(z, f.key.by, f.key.adds)
    BY <2>2, Zenon DEF StepOn
  <2>4. f.key.hist = z.hist
    BY <2>3 DEF generateCacheKey
  <2>5. z.hist = x.hist /\ z \in Known(reg \cup {e}) /\ x \in Known(reg \cup {e})
    BY <1>2, <1>4, <1>10, <2>4 DEF Known
  <2>6. z = x
    BY <1>9, <2>5, OneByHistory, Zenon
  <2>7. Len(z.hist) # 1
    <3>1. Len(x.hist) # 1
      BY <1>3
    <3> QED
      BY <3>1, <2>6, Zenon
  <2>8. PICK g \in reg : /\ z = g.image /\ g.key.adds \in BOOLEAN
                         /\ \E y \in Known(reg) : IsImage(y) /\ StepOn(g, y)
    BY <2>7, EntryOf, Zenon
  <2>9. PICK y \in Known(reg) : IsImage(y) /\ StepOn(g, y)
    BY <2>8
  <2> DEFINE l == x.hist[Len(x.hist)]
  <2>10. /\ x.hist = Append(y.hist, l) /\ l.by = g.key.by /\ l.empty = ~g.key.adds
         /\ g.key = generateCacheKey(y, g.key.by, g.key.adds)
    BY <2>6, <2>8, <2>9, Zenon DEF StepOn
  <2>11. x.hist = Append(t.from.hist, l) /\ l.by = e.key.by /\ l.empty = ~e.key.adds
    BY <1>2, Zenon DEF StepOn
  <2> HIDE DEF l
  <2>12. y.hist = t.from.hist
    <3>1. Append(y.hist, l) = Append(t.from.hist, l) /\ IsSeq(y.hist) /\ IsSeq(t.from.hist)
      BY <1>1, <2>9, <2>10, <2>11, ZenonT(60) DEF IsImage
    <3>2. \A p, q : IsSeq(p) /\ IsSeq(q) /\ Append(p, l) = Append(q, l) => p = q
      BY AppendEqual, Zenon
    <3> QED
      BY <3>1, <3>2, Zenon
  <2>13. g.key.hist = y.hist
    BY <2>10 DEF generateCacheKey
  <2>14. g.key.adds = e.key.adds
    BY <1>2, <2>8, <2>10, <2>11
  <2> QED
    BY <1>2, <1>5, <1>6, <2>10, <2>11, <2>12, <2>13, <2>14, ZenonT(60)
<1> QED
  BY <1>9, <1>10, Zenon DEF e, Unused

\* Pushing a cached image again changes nothing
LEMMA PushAgain ==
    ASSUME NEW w, IsRegistry(registry, w), NEW t, Cached(t, registry), t.cacheID # NoImage
    PROVE  pushCache(t, t.cacheID) = registry /\ t.cacheID \in Known(registry)
<1>1. PICK e \in registry : e.image = t.cacheID /\ e.key = Key(t)
  BY DEF Cached
<1>2. e = [key |-> Key(t), image |-> t.cacheID]
  BY <1>1, Zenon DEF IsRegistry
<1>3. \A f \in registry : f.key = Key(t) => f = e
  BY <1>1, Zenon DEF IsRegistry
<1>4. {f \in registry : f.key # Key(t)} \cup {e} = registry
  BY <1>3
<1> QED
  BY <1>1, <1>2, <1>4, Zenon DEF pushCache, Known

\* A stage executor that goes on after its commit works on the image it reused
\* or committed, and looks no further once it missed
LEMMA RebaseIs ==
    ASSUME NEW t, NEW w, IsStage(t, w), t.req.file \in Seq(Instruction), NEW image,
           After(t, image).phase \notin Idle
    PROVE  /\ IsStage(After(t, image), w) /\ After(t, image).phase = "step"
           /\ After(t, image).from = image /\ After(t, image).cacheID = NoImage
           /\ t.checkForLayers /\ t.cacheID # NoImage => After(t, image).checkForLayers
<1> DEFINE go == t.cacheID # NoImage
           v == After(t, image)
<1>1. ~LastInstruction(t)
  <2>1. SUFFICES ASSUME LastInstruction(t) PROVE FALSE
    OBVIOUS
  <2>2. v = [[t EXCEPT !.phase = "done", !.imgID = image] EXCEPT !.checkForLayers = @ /\ go]
    BY <2>1, Zenon DEF After
  <2>3. v.phase = "done"
    BY <2>2 DEF IsStage
  <2> QED
    BY <2>3 DEF Idle
<1>2. v = [Rebase(t, image) EXCEPT !.checkForLayers = @ /\ go]
  BY <1>1, Zenon DEF After
<1> HIDE DEF v
<1>3. /\ DOMAIN v = DOMAIN t /\ v.ib = t.ib /\ v.phase = "step" /\ v.req = t.req
      /\ v.i = t.i + 1 /\ v.pre = t.pre /\ v.from = image /\ v.cacheID = NoImage
      /\ v.checkForLayers = (t.checkForLayers /\ go)
  BY <1>2 DEF Rebase, IsStage
<1>4. t.i + 1 \in 1 .. Len(t.req.file)
  BY <1>1 DEF LastInstruction, IsStage
<1>5. IsStage(v, w)
  BY ONLY <1>3, <1>4, IsStage(t, w) DEF IsStage
<1> QED
  BY <1>3, <1>5, ZenonT(60) DEF v

\* Reusing an image leaves the registry as it is; committing one adds the step
LEMMA CommitLayers ==
    ASSUME LayerInv, Orderly, world \in DOMAIN Worlds, NEW b \in Builders, CommitStep(b),
           UNCHANGED <<world, home>>
    PROVE  LayerInv'
<1> DEFINE t == s[b]
<1>1. t.phase = "commit" /\ t.phase \notin Idle
  BY DEF CommitStep, Idle
<1>2. /\ \A c \in Builders : s[c].phase \notin Idle => c = b
      /\ StageOK(t, registry, World) /\ IsStage(t, World)
      /\ DOMAIN store = Machines /\ \A m \in Machines : store[m] \subseteq Known(registry)
  BY <1>1, AtWork, Zenon
<1>3. /\ IsRegistry(registry, World) /\ home \in [Builders -> Machines] /\ home[b] \in Machines
      /\ World' = World /\ home' = home
  BY DEF LayerInv, World
<1>4. /\ t.from \in Known(registry) /\ t.pre = << >> /\ t.req.opts \in World.options
      /\ t.req.file \in Seq(Instruction)
  BY <1>2, ConstantAssumption DEF StageOK, IsStage, World
<1>5. /\ ~t.req.opts.squash /\ t.req.opts.cacheTo
      /\ \A o \in World.options : o.format = t.req.opts.format
  BY <1>4 DEF Orderly
<1>6. CASE s' = [s EXCEPT ![b].phase = "failed"] /\ UNCHANGED <<store, registry>>
  <2>1. s' = [s EXCEPT ![b] = [t EXCEPT !.phase = "failed"]]
    BY <1>6
  <2>2. [t EXCEPT !.phase = "failed"].phase \in Idle
    BY <1>2 DEF IsStage, Idle
  <2>3. /\ UNCHANGED <<world, home, registry>>
        /\ DOMAIN store' = Machines /\ \A m \in Machines : store'[m] \subseteq Known(registry)
    BY <1>2, <1>6
  <2> QED
    BY <1>2, <2>1, <2>2, <2>3, KeptRegistry, ZenonT(60)
<1>7. ASSUME t.cacheID # NoImage,
             store' = [store EXCEPT ![home[b]] = @ \cup {t.cacheID, t.cacheID}],
             registry' = pushCache(t, t.cacheID), s' = [s EXCEPT ![b] = After(t, t.cacheID)]
      PROVE  LayerInv'
  <2>1. t.checkForLayers /\ Cached(t, registry)
    BY <1>1, <1>2, <1>7, Zenon DEF StageOK
  <2>2. registry' = registry /\ t.cacheID \in Known(registry)
    BY <1>3, <1>7, <2>1, PushAgain, ZenonT(60)
  <2>3. ASSUME After(t, t.cacheID).phase \notin Idle
        PROVE  StageOK(After(t, t.cacheID), registry, World)
    <3> DEFINE v == After(t, t.cacheID)
    <3>1. /\ IsStage(v, World) /\ v.phase = "step" /\ v.from = t.cacheID /\ v.cacheID = NoImage
          /\ t.checkForLayers /\ t.cacheID # NoImage => v.checkForLayers
      BY <1>2, <1>4, <2>3, RebaseIs, ZenonT(60)
    <3> HIDE DEF v
    <3>2. v.checkForLayers
      BY <1>7, <2>1, <3>1, ZenonT(60)
    <3> QED
      BY <2>2, <3>1, <3>2 DEF StageOK, v
  <2>4. /\ UNCHANGED <<world, home, registry>>
        /\ DOMAIN store' = Machines /\ \A m \in Machines : store'[m] \subseteq Known(registry)
    BY <1>2, <1>3, <1>7, <2>2
  <2> QED
    BY <1>2, <1>7, <2>3, <2>4, KeptRegistry, ZenonT(60)
<1>8. ASSUME t.cacheID = NoImage, NEW n, NEW x, x = New(t, n),
             store' = [store EXCEPT ![home[b]] = @ \cup {x, x}],
             registry' = pushCache(t, x), s' = [s EXCEPT ![b] = After(t, x)]
      PROVE  LayerInv'
  <2> DEFINE e == Entry(t, x)
             v == After(t, x)
  <2>1. Uncommitted(t, registry)
    BY <1>1, <1>2, <1>8, Zenon DEF StageOK
  <2>2. StepOn(e, t.from) /\ x.fmt = t.req.opts.format /\ e.image = x
    <3>1. IsImage(t.from)
      BY <1>3, <1>4, KnownIs, Zenon
    <3> QED
      BY <1>4, <1>8, <3>1, CommitIs, EntryIs, ZenonT(60)
  <2>3. registry' = registry \cup {e}
    <3>1. \A f \in registry : f.key # Key(t)
      BY <1>3, <1>4, <2>1, UncommittedIs, ZenonT(60)
    <3>2. {f \in registry : f.key # Key(t)} = registry
      BY <3>1
    <3> QED
      BY <1>5, <1>8, <3>2, Zenon DEF pushCache, Entry
  <2>4. IsRegistry(registry', World) /\ Unused(x, registry')
    <3> HIDE DEF t
    <3>1. IsRegistry(registry \cup {e}, World)
      BY <1>3, <1>4, <1>5, <2>1, <2>2, PushNew, ZenonT(60)
    <3>2. Unused(x, registry \cup {e})
      BY <1>3, <1>4, <1>5, <2>1, <2>2, PushNew, ZenonT(60)
    <3> QED
      BY <2>3, <3>1, <3>2, Zenon
  <2> HIDE DEF e
  <2>5. Known(registry) \subseteq Known(registry') /\ x \in Known(registry')
    BY <2>2, <2>3 DEF Known
  <2>6. ASSUME v.phase \notin Idle PROVE StageOK(v, registry', World)
    <3>1. IsStage(v, World) /\ v.phase = "step" /\ v.from = x /\ v.cacheID = NoImage
      BY <1>2, <1>4, <2>6, RebaseIs, ZenonT(60)
    <3> HIDE DEF v
    <3>2. Unused(v.from, registry')
      BY <2>4, <3>1, ZenonT(60)
    <3> QED
      BY <2>5, <3>1, <3>2 DEF StageOK
  <2>7. DOMAIN store' = Machines /\ \A m \in Machines : store'[m] \subseteq Known(registry')
    <3> DEFINE K == Known(registry')
    <3>1. /\ store' = [store EXCEPT ![home[b]] = @ \cup {x}]
          /\ DOMAIN store = Machines /\ home[b] \in Machines
      <4>1. {x, x} = {x}
        OBVIOUS
      <4> QED
        BY <1>2, <1>3, <1>8, <4>1, ZenonT(60)
    <3>2. x \in K /\ \A m \in Machines : store[m] \subseteq K
      BY <1>2, <2>5, ZenonT(60)
    <3> HIDE DEF K
    <3>3. DOMAIN store' = Machines /\ \A m \in Machines : store'[m] \subseteq K
      BY <3>1, <3>2
    <3> QED
      BY <3>3, Zenon DEF K
  <2>8. /\ DOMAIN s' = Builders
        /\ \A c, d \in Builders : s'[c].phase \notin Idle /\ s'[d].phase \notin Idle => c = d
        /\ \A c \in Builders : s'[c].phase \notin Idle => StageOK(s'[c], registry', World')
    BY <1>2, <1>8, <2>6, StageStep, ZenonT(60)
  <2> QED
    BY <1>3, <2>4, <2>7, <2>8, ZenonT(60) DEF LayerInv
<1> QED
  <2>1. PICK n \in {0, t.number} :
            LET image == IF t.cacheID # NoImage THEN t.cacheID ELSE New(t, n)
                final == IF LastInstruction(t) /\ t.req.opts.squash
                         THEN commit(t, By(t), ~stepRequiresLayer(Ins(t)), TRUE, n) ELSE image
            IN IF t.cacheID \notin store[home[b]] \cup {NoImage}
               THEN /\ s' = [s EXCEPT ![b].phase = "failed"]
                    /\ UNCHANGED <<store, registry>>
               ELSE /\ store' = [store EXCEPT ![home[b]] = @ \cup {image, final}]
                    /\ registry' = pushCache(t, image)
                    /\ s' = [s EXCEPT ![b] = After(t, final)]
    BY Zenon DEF CommitStep, New, After
  <2> DEFINE image == IF t.cacheID # NoImage THEN t.cacheID ELSE New(t, n)
  <2>2. \/ s' = [s EXCEPT ![b].phase = "failed"] /\ UNCHANGED <<store, registry>>
        \/ /\ store' = [store EXCEPT ![home[b]] = @ \cup {image, image}]
           /\ registry' = pushCache(t, image) /\ s' = [s EXCEPT ![b] = After(t, image)]
    BY <1>5, <2>1, Zenon
  <2> HIDE DEF image
  <2>3. CASE t.cacheID # NoImage
    <3>1. image = t.cacheID
      BY <2>3 DEF image
    <3> QED
      BY <1>6, <1>7, <2>2, <2>3, <3>1, ZenonT(60)
  <2>4. CASE t.cacheID = NoImage
    <3>1. image = New(t, n)
      BY <2>4 DEF image
    <3> QED
      BY <1>6, <1>8, <2>2, <2>4, <3>1, ZenonT(60)
  <2> QED
    BY <2>3, <2>4, Zenon

\* The other actions are those of builds that are not like these
LEMMA NextLayers ==
    ASSUME world \in DOMAIN Worlds, LayerInv, [Next]_vars
    PROVE  world' \in DOMAIN Worlds /\ LayerInv'
<1>1. CASE UNCHANGED vars
  <2>1. /\ world' = world /\ home' = home /\ store' = store /\ registry' = registry /\ s' = s
        /\ World' = World
    BY <1>1 DEF vars, World
  <2> QED
    BY <2>1, Zenon DEF LayerInv, Orderly
<1>2. CASE Next
  <2>1. UNCHANGED <<world, home>> /\ world' = world /\ World' = World
    BY <1>2 DEF Next, World
  <2>2. Orderly' <=> Orderly
    BY <2>1, Zenon DEF Orderly
  <2>3. CASE ~Orderly
    BY <2>1, <2>2, <2>3, Zenon DEF LayerInv
  <2>4. CASE Orderly
    <3>1. ASSUME NEW b \in Builders, StartBuild(b) PROVE LayerInv'
      BY <2>1, <2>4, <3>1, StartLayers, ZenonT(60)
    <3>2. ASSUME NEW b \in Builders, SingleLayerStep(b) PROVE FALSE
      <4>1. s[b].phase = "step" /\ ~s[b].req.opts.layers
        BY <3>2, Zenon DEF SingleLayerStep
      <4>2. s[b].phase \notin Idle
        BY <4>1 DEF Idle
      <4>3. IsStage(s[b], World)
        BY <2>4, <4>2, AtWork, ZenonT(60)
      <4> QED
        BY <2>4, <4>1, <4>3, ZenonT(60) DEF Orderly, IsStage
    <3>3. ASSUME NEW b \in Builders, LookupStep(b) PROVE LayerInv'
      BY <2>1, <2>4, <3>3, LookupLayers, ZenonT(60)
    <3>4. ASSUME NEW b \in Builders, RunStep(b) PROVE LayerInv'
      BY <2>1, <2>4, <3>4, RunLayers, ZenonT(60)
    <3>5. ASSUME NEW b \in Builders, StepFails(b) PROVE FALSE
      BY <2>4, <3>5, ZenonT(60) DEF Orderly, StepFails
    <3>6. ASSUME NEW b \in Builders, CommitStep(b) PROVE LayerInv'
      BY <2>1, <2>4, <3>6, CommitLayers, Zenon
    <3>7. ASSUME NEW m \in Machines, RemoveImage(m) PROVE FALSE
      BY <2>4, <3>7, Zenon DEF Orderly, RemoveImage
    <3> QED
      BY <1>2, <2>1, <3>1, <3>2, <3>3, <3>4, <3>5, <3>6, <3>7, ZenonT(60) DEF Next
  <2> QED
    BY <2>1, <2>3, <2>4, ZenonT(60)
<1> QED
  BY <1>1, <1>2, Zenon

-----------------------------------------------------------------------------
\* However many builds with --layers follow each other, on whichever machines
\* and with whichever Containerfiles, no step of the same parent is committed
\* twice: what a lookup misses (intermediateImageExists, and the pull of
\* generateCacheKey's tag) was never committed.  The stores hold known images
\* only, and known images that are the same step are one (SameStepSame).
THEOREM OneImageAlways == Spec => []OneImagePerStep
<1>1. Init => world \in DOMAIN Worlds /\ LayerInv
  BY InitLayers DEF Init
<1>2. (world \in DOMAIN Worlds /\ LayerInv) /\ [Next]_vars
        => (world \in DOMAIN Worlds /\ LayerInv)'
  BY NextLayers, Zenon
<1>3. LayerInv => OneImagePerStep
  <2> SUFFICES ASSUME LayerInv, Orderly, NEW m1 \in Machines, NEW m2 \in Machines,
                      NEW x \in store[m1], NEW y \in store[m2], SameStep(x, y)
               PROVE  x = y
    BY Zenon DEF OneImagePerStep
  <2>1. IsRegistry(registry, World) /\ x \in Known(registry) /\ y \in Known(registry)
    BY DEF LayerInv
  <2> QED
    BY <2>1, SameStepSame, Zenon
<1> QED
  BY <1>1, <1>2, <1>3, PTL DEF Spec
=============================================================================
