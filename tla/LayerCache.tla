----------------------------- MODULE LayerCache -----------------------------
(***************************************************************************)
(* The layer cache of a build with --layers: how StageExecutor.Execute     *)
(* (imagebuildah/stage_executor.go:1148-1462) decides, instruction by      *)
(* instruction, to reuse an image of the local store or of a remote cache, *)
(* or to run the instruction and commit.  Several builders, each one       *)
(* process that runs builds of a single stage, share the store of their    *)
(* machine, and all share one registry (--cache-from, --cache-to).         *)
(*                                                                         *)
(* An image is its history, its layers (an entry of diffs says which       *)
(* instructions wrote the layer) and its configuration.  A Containerfile   *)
(* has one build argument, k.  Configuration variables are k and e, which  *)
(* a RUN sees, and h, which only the docker format can store (HEALTHCHECK).*)
(* --cache-ttl, which only hides images from the lookup, is left out.      *)
(***************************************************************************)
EXTENDS Naturals, Sequences, FiniteSets, SequencesExt

CONSTANTS
  Builders,         \* processes that build
  Machines,         \* each one has a store
  ArgValues,        \* what --build-arg k= may give
  Worlds            \* situations, by name: see World

VARIABLES
  world,            \* the name of the situation
  home,             \* the machine of each builder
  store,            \* images in the store of each machine
  registry,         \* the remote cache: records of a key and an image
  s,                \* each builder's stage executor
  builds            \* number of builds started

vars == <<world, home, store, registry, s, builds>>

-----------------------------------------------------------------------------
\* Containerfiles, options, images

NoValue == "unset"
ArgRef == "$k"

Instruction ==
    [op : {"ARG"}, var : {"k"}, text : {"-"}]
      \cup [op : {"ENV"}, var : {"k", "e", "h"}, text : {"lit", ArgRef}]
      \cup [op : {"RUN"}, var : {"-"}, text : {"-"}]
      \cup [op : {"COPY"}, var : {"-"}, text : {"lit", ArgRef}]

Option == [layers : BOOLEAN, useCache : BOOLEAN, squash : BOOLEAN, timestamp : BOOLEAN,
           cacheFrom : BOOLEAN, cacheTo : BOOLEAN, format : {"oci", "docker"}]

\* A situation: the machines the builders may run on, the Containerfiles and the
\* versions of the file that COPY reads, the sets of command-line options,
\* whether builds may run at the same time, whether an instruction or a pull
\* from the cache may fail, whether somebody may remove images while a build
\* runs, and a bound on the number of builds
ASSUME ConstantAssumption ==
    \A n \in DOMAIN Worlds :
        LET w == Worlds[n]
        IN /\ w.homes \subseteq [Builders -> Machines]
           /\ w.files \subseteq Seq(Instruction) \ {<< >>}
           /\ w.options \subseteq Option
           /\ {w.overlap, w.mayFail, w.mayPrune} \subseteq BOOLEAN
           /\ w.maxBuilds \in Nat

World == Worlds[world]

\* What a build is asked to do
Request == [file : World.files, arg : ArgValues \cup {NoValue}, content : World.contents,
            opts : World.options]

\* The image named by FROM
BaseImage ==
    [hist |-> << [by |-> [op |-> "BASE", var |-> "-", text |-> "-", sum |-> "-"],
                  at |-> 0, empty |-> FALSE] >>,
     diffs |-> << [did |-> << <<"BASE", "-", "-">> >>, n |-> 0] >>,
     conf |-> [v \in {"k", "e", "h"} |-> NoValue], fmt |-> "docker"]

NoImage == [BaseImage EXCEPT !.hist = << >>, !.diffs = << >>, !.fmt = "none"]

\* The root file system: what the instructions behind its layers wrote
Rootfs(image) == FlattenSeq([i \in 1 .. Len(image.diffs) |-> image.diffs[i].did])

\* Does the step add a layer?
stepRequiresLayer(ins) == ins.op \in {"RUN", "COPY"}

-----------------------------------------------------------------------------
\* The imagebuilder library: evaluating an instruction

\* The value of $k: the environment comes before a declared build argument
Value(ib, r) ==
    IF ib.conf["k"] # NoValue THEN ib.conf["k"]
    ELSE IF ib.allowed THEN r.arg ELSE NoValue

ProcessWord(ib, r, text) == IF text = ArgRef THEN Value(ib, r) ELSE text

\* ib.Run: what an instruction does to the configuration ...
Evaluate(ib, r, ins) ==
    CASE ins.op = "ARG" -> [ib EXCEPT !.allowed = TRUE]
      [] ins.op = "ENV" -> [ib EXCEPT !.conf[ins.var] = ProcessWord(ib, r, ins.text)]
      [] OTHER -> ib

\* ... and what it writes to the root file system
Writes(ib, r, ins) ==
    CASE ins.op = "RUN"  -> << <<"RUN", Value(ib, r), ib.conf["e"]>> >>
      [] ins.op = "COPY" -> << <<"COPY", r.content, ProcessWord(ib, r, ins.text)>> >>
      [] OTHER -> << >>

-----------------------------------------------------------------------------
\* The cache

\* Variant: the values of the build arguments are left out
CreatedByWithoutArgs(ib, r, ins, sum) ==
    [op |-> ins.op, var |-> ins.var, text |-> ins.text, sum |-> sum]

\* The created-by text: ARG lists the names of the arguments that are set,
\* RUN lists their values, COPY holds the digest of what it copied
getCreatedBy(ib, r, ins, sum) ==
    LET set == ib.allowed /\ r.arg # NoValue
    IN [op |-> ins.op, var |-> ins.var, sum |-> sum,
        text |-> CASE ins.op = "ARG" -> IF set THEN "k" ELSE "-"
                   [] ins.op = "RUN" -> IF set THEN Value(ib, r) ELSE "-"
                   [] OTHER -> ins.text]

\* The digest of the content that the last COPY added
addedContentSummary(r, ins) == IF ins.op = "COPY" THEN r.content ELSE "-"

\* The candidate has the history of the base plus this step, and its layers
historyAndDiffIDsMatch(from, by, image, adds) ==
    LET n == Len(from.hist)
        expectedDiffIDs == Cardinality({i \in 1 .. n : ~from.hist[i].empty})
    IN /\ Len(image.hist) = n + 1
       /\ SubSeq(image.hist, 1, n) = from.hist
       /\ Len(from.diffs) = expectedDiffIDs
       /\ Len(image.diffs) = expectedDiffIDs + (IF adds THEN 1 ELSE 0)
       /\ SubSeq(image.diffs, 1, expectedDiffIDs) = from.diffs
       /\ image.hist[n + 1].by = by

\* The parent layer that intermediateImageExists compares with the builder's
\* top layer; the store names a layer by its content and its ancestors
ParentLayer(image, adds) ==
    IF adds /\ image.diffs # << >> THEN Front(image.diffs) ELSE image.diffs

\* The images that the lookup may return; it takes the first in the store's order
intermediateImageExists(images, from, by, adds, format) ==
    {x \in images : /\ ParentLayer(x, adds) = from.diffs
                    /\ x.fmt = format
                    /\ historyAndDiffIDsMatch(from, by, x, adds)}

\* Variant: the key is not computed again after copying
KeyWithoutContent(from, by, adds) ==
    [diffs |-> from.diffs, adds |-> adds, by |-> [by EXCEPT !.sum = "-"],
     type |-> from.fmt, hist |-> from.hist]

\* The tag of an intermediate image in the registry
generateCacheKey(from, by, adds) ==
    [diffs |-> from.diffs, adds |-> adds, by |-> by, type |-> from.fmt, hist |-> from.hist]

-----------------------------------------------------------------------------
\* Committing

\* What the image's format can hold of the configuration
Stored(conf, format) == IF format = "oci" THEN [conf EXCEPT !["h"] = NoValue] ELSE conf

\* The image of stage executor t's working container; n tells apart the
\* results of running an instruction twice
commit(t, by, emptyLayer, squash, n) ==
    LET at == IF t.req.opts.timestamp THEN 0 ELSE t.number
        entry == [by |-> by, at |-> at, empty |-> emptyLayer /\ ~squash]
    IN [hist |-> (IF squash THEN << >> ELSE t.from.hist) \o t.pre \o <<entry>>,
        diffs |-> IF squash THEN << [did |-> Rootfs(t.from) \o t.did, n |-> n] >>
                  ELSE IF emptyLayer THEN t.from.diffs
                  ELSE Append(t.from.diffs, [did |-> t.did, n |-> n]),
        conf |-> Stored(t.ib.conf, t.req.opts.format), fmt |-> t.req.opts.format]

-----------------------------------------------------------------------------
\* One build

Idle == {"idle", "done", "failed"}
Ins(t) == t.req.file[t.i]
LastInstruction(t) == t.i = Len(t.req.file)
Summary(t) == addedContentSummary(t.req, Ins(t))
By(t) == getCreatedBy(t.ib, t.req, Ins(t), Summary(t))
Key(t) == generateCacheKey(t.from, By(t), stepRequiresLayer(Ins(t)))
Found(images, t) ==
    intermediateImageExists(images, t.from, By(t), stepRequiresLayer(Ins(t)), t.req.opts.format)

\* The stage executor before its first instruction
NewStage(r, number) ==
    [phase |-> "step", req |-> r, i |-> 1, from |-> BaseImage,
     ib |-> [conf |-> BaseImage.conf, allowed |-> FALSE],
     checkForLayers |-> r.opts.layers /\ r.opts.useCache,
     did |-> << >>, pre |-> << >>, cacheID |-> NoImage, pulled |-> FALSE,
     imgID |-> NoImage, number |-> number]

Init ==
    /\ world \in DOMAIN Worlds
    /\ home \in World.homes
    /\ store = [m \in Machines |-> {BaseImage}]
    /\ registry = {}
    /\ s = [b \in Builders |->
               [NewStage(CHOOSE r \in Request : TRUE, 0) EXCEPT !.phase = "idle"]]
    /\ builds = 0

StartBuild(b) ==
    /\ s[b].phase \in Idle
    /\ World.overlap \/ \A c \in Builders : s[c].phase \in Idle
    /\ builds < World.maxBuilds
    /\ \E r \in Request : s' = [s EXCEPT ![b] = NewStage(r, builds + 1)]
    /\ builds' = builds + 1
    /\ UNCHANGED <<store, registry>>

\* The instruction is run in the working container
Run(t) == [t EXCEPT !.ib = Evaluate(t.ib, t.req, Ins(t)),
                    !.did = @ \o Writes(t.ib, t.req, Ins(t))]

\* A build without --layers runs the step; it commits after the last one
SingleLayerStep(b) ==
    LET t == Run(s[b])
        entry == [by |-> By(t), at |-> IF t.req.opts.timestamp THEN 0 ELSE t.number, empty |-> TRUE]
    IN /\ s[b].phase = "step" /\ ~s[b].req.opts.layers
       /\ \/ /\ ~LastInstruction(t)
             /\ s' = [s EXCEPT ![b] = [t EXCEPT !.pre = Append(@, entry), !.i = @ + 1]]
             /\ UNCHANGED store
          \/ /\ LastInstruction(t)
             /\ \E n \in {0, t.number} :
                   LET image == commit(t, By(t), FALSE, t.req.opts.squash, n)
                   IN /\ store' = [store EXCEPT ![home[b]] = @ \cup {image}]
                      /\ s' = [s EXCEPT ![b] = [t EXCEPT !.imgID = image, !.phase = "done"]]
       /\ UNCHANGED <<registry, builds>>

\* Look in the store; if there is nothing, pull what the registry has under
\* the key and look again.  The stage executor becomes found after a hit;
\* after a miss the step goes on with phase miss.
Search(b, t, found, miss) ==
    LET here == store[home[b]]
        remote == {e.image : e \in {e \in registry : e.key = Key(t)}}
        hit(x, pulled) == [found EXCEPT !.phase = "commit", !.cacheID = x, !.pulled = pulled]
        missed == [t EXCEPT !.phase = miss]
    IN \/ /\ UNCHANGED store
          /\ \E x \in Found(here, t) : s' = [s EXCEPT ![b] = hit(x, FALSE)]
       \/ /\ Found(here, t) = {}
          /\ ~t.req.opts.cacheFrom \/ remote = {} \/ World.mayFail
          /\ s' = [s EXCEPT ![b] = missed]
          /\ UNCHANGED store
       \/ /\ Found(here, t) = {} /\ t.req.opts.cacheFrom
          /\ \E x \in remote :
                /\ store' = [store EXCEPT ![home[b]] = @ \cup {x}]
                /\ s' = [s EXCEPT ![b] = IF x \in Found({x}, t) THEN hit(x, TRUE) ELSE missed]

\* A first lookup, before the step runs.  The content of COPY is part of what
\* is looked up, so COPY runs first, and never again.  A hit of an instruction
\* that only changes the configuration changes it nevertheless.
LookupStep(b) ==
    LET t == s[b]
        lookup == /\ t.checkForLayers /\ Ins(t).op # "ARG"
                  /\ ~(t.req.opts.squash /\ LastInstruction(t))
    IN /\ t.phase = "step" /\ t.req.opts.layers
       /\ \/ /\ ~lookup
             /\ s' = [s EXCEPT ![b].phase = "run"]
             /\ UNCHANGED store
          \/ /\ lookup /\ Ins(t).op = "COPY"
             /\ Search(b, Run(t), Run(t), "commit")
          \/ /\ lookup /\ Ins(t).op # "COPY"
             /\ Search(b, t, IF stepRequiresLayer(Ins(t)) THEN t ELSE Run(t), "run")
       /\ UNCHANGED <<registry, builds>>

LookAgain(t) == t.checkForLayers

\* The step missed the cache, or was not looked up: run it, and look again
RunStep(b) ==
    LET t == Run(s[b])
    IN /\ s[b].phase = "run"
       /\ \/ LookAgain(t) /\ Search(b, t, t, "commit")
          \/ /\ ~LookAgain(t)
             /\ s' = [s EXCEPT ![b] = [t EXCEPT !.phase = "commit"]]
             /\ UNCHANGED store
       /\ UNCHANGED <<registry, builds>>

\* Running the instruction fails
StepFails(b) ==
    /\ World.mayFail
    /\ s[b].phase \in {"step", "run"}
    /\ stepRequiresLayer(Ins(s[b]))
    /\ s' = [s EXCEPT ![b].phase = "failed"]
    /\ UNCHANGED <<store, registry, builds>>

\* The tag in the registry is created or replaced
pushCache(t, image) ==
    IF t.req.opts.cacheTo /\ (~t.pulled \/ t.cacheID = NoImage)
    THEN {e \in registry : e.key # Key(t)} \cup {[key |-> Key(t), image |-> image]}
    ELSE registry

\* A new working container from the image, for the next instruction
Rebase(t, image) ==
    [t EXCEPT !.i = @ + 1, !.phase = "step", !.cacheID = NoImage, !.pulled = FALSE,
              !.did = << >>, !.from = image]

\* Reuse the cached image or commit a new one, push it to the remote cache,
\* squash the last one, and start the next instruction's container
CommitStep(b) ==
    LET t == s[b]
        ends(image) == IF LastInstruction(t) THEN [t EXCEPT !.phase = "done", !.imgID = image]
                       ELSE Rebase(t, image)
        squashes == LastInstruction(t) /\ t.req.opts.squash
    IN /\ s[b].phase = "commit"
       /\ \E n \in {0, t.number} :
            LET new == commit(t, By(t), ~stepRequiresLayer(Ins(t)), FALSE, n)
                image == IF t.cacheID # NoImage THEN t.cacheID ELSE new
                final == IF squashes
                         THEN commit(t, By(t), ~stepRequiresLayer(Ins(t)), TRUE, n) ELSE image
            IN IF t.cacheID \notin store[home[b]] \cup {NoImage}
               THEN /\ s' = [s EXCEPT ![b].phase = "failed"]
                    /\ UNCHANGED <<store, registry>>
               ELSE /\ store' = [store EXCEPT ![home[b]] = @ \cup {image, final}]
                    /\ registry' = pushCache(t, image)
                    /\ s' = [s EXCEPT ![b] = [ends(final) EXCEPT
                                !.checkForLayers = @ /\ t.cacheID # NoImage]]
       /\ UNCHANGED builds

\* Somebody removes an image that no working container is based on
RemoveImage(m) ==
    /\ World.mayPrune
    /\ \E x \in store[m] \ {BaseImage} :
          /\ \A b \in Builders : home[b] = m /\ s[b].phase \notin Idle => s[b].from # x
          /\ store' = [store EXCEPT ![m] = @ \ {x}]
    /\ UNCHANGED <<registry, s, builds>>

Next ==
    /\ \/ \E b \in Builders : \/ StartBuild(b) \/ SingleLayerStep(b) \/ LookupStep(b)
                              \/ RunStep(b) \/ StepFails(b) \/ CommitStep(b)
       \/ \E m \in Machines : RemoveImage(m)
    /\ UNCHANGED <<world, home>>

Spec == Init /\ [][Next]_vars

-----------------------------------------------------------------------------
\* Properties

\* What the request's instructions yield when each one is simply run
Expected(r) ==
    FoldLeft(LAMBDA acc, ins : [ib |-> Evaluate(acc.ib, r, ins),
                                did |-> acc.did \o Writes(acc.ib, r, ins)],
             [ib |-> [conf |-> BaseImage.conf, allowed |-> FALSE], did |-> Rootfs(BaseImage)],
             r.file)

\* The variables have their types, and only a build that has never missed the
\* cache, nor was told to ignore it, holds a cached image
\* (checkForLayers, stage_executor.go:1363)
TypeOK ==
    /\ builds \in 0 .. World.maxBuilds
    /\ \A m \in Machines : \A x \in store[m] : x.fmt \in {"oci", "docker"}
    /\ \A b \in Builders :
          /\ s[b].phase \in {"idle", "step", "run", "commit", "done", "failed"}
          /\ s[b].i \in 1 .. Len(s[b].req.file)
          /\ s[b].cacheID # NoImage => s[b].checkForLayers

\* Reusing images never shows: the image of a build that succeeds has the root
\* file system and the configuration that running every instruction would
\* have given it (stage_executor.go:1347-1359 takes the cached image instead)
CacheTransparent ==
    \A b \in Builders : s[b].phase = "done" =>
        LET r == s[b].req
        IN /\ Rootfs(s[b].imgID) = Expected(r).did
           /\ s[b].imgID.conf = Stored(Expected(r).ib.conf, r.opts.format)

\* Two images that are the same step on the same parent
SameStep(x, y) ==
    /\ Len(x.hist) > 1 /\ Len(y.hist) > 1
    /\ Front(x.hist) = Front(y.hist)
    /\ x.hist[Len(x.hist)].by = y.hist[Len(y.hist)].by
    /\ x.hist[Len(x.hist)].empty = y.hist[Len(y.hist)].empty
    /\ x.fmt = y.fmt

\* Builds with --layers and a remote cache that follow each other, undisturbed
\* and in one format: the tag in the registry does not tell the format of an
\* image whose parent is the base image
Orderly ==
    /\ ~World.overlap /\ ~World.mayFail /\ ~World.mayPrune
    /\ \A o \in World.options : o.layers /\ o.useCache /\ ~o.squash /\ o.cacheFrom /\ o.cacheTo
    /\ \A o, p \in World.options : o.format = p.format

\* While builds with --layers follow each other, on whichever machine, a step is
\* committed only once: the lookups (stage_executor.go:1253-1273,
\* 1301-1323) never miss an image of the store, nor one that was pushed to the
\* remote cache
OneImagePerStep ==
    Orderly => \A m1, m2 \in Machines : \A x \in store[m1], y \in store[m2] :
                   SameStep(x, y) => x = y
=============================================================================
