----------------------------- MODULE ImageSource -----------------------------
(***************************************************************************)
(* From image to working container to image again: NewBuilder takes the    *)
(* configuration, the annotations and the history of its base image,       *)
(* "buildah config" edits them, and a commit presents the container to the *)
(* image copying code as one more image (containerImageRef and its         *)
(* source).  The source stores those layers of which it does not know the  *)
(* digest, or the whole file system when it squashes, in a temporary       *)
(* directory, and makes the new history.  Then the destination asks it for *)
(* every blob.                                                             *)
(*                                                                         *)
(* A layer is the sequence of the changes it holds, and a change is the    *)
(* number of the container that made it.  An image's digest is its place   *)
(* in images.                                                              *)
(***************************************************************************)
EXTENDS ImageConfig

CONSTANTS Scenarios,   \* base images, config commands, commits, and a bound on images (max)
          MaxConfigs,  \* bound on config commands that succeed, per container
          MaxRetries,  \* options.MaxRetries
          MayFail      \* whether reading, writing and copying may fail

VARIABLES sc,          \* the scenario
          images,      \* the images
          ctr,         \* the working container
          cm,          \* the commit in progress
          tmp,         \* whether its temporary directory exists
          mounts,      \* how often the container is mounted
          rc           \* how the last command ended

vars == <<sc, images, ctr, cm, tmp, mounts, rc>>

None == [id |-> 0]
Idle == [pc |-> "idle"]
NewBuilder == [fmt |-> "oci", from |-> 0, o |-> Unset, d |-> Unset @@ UnsetDocker, ann |-> <<>>,
               hist |-> <<>>, pre |-> <<>>, err |-> FALSE]
Base(b) == IF b.from = 0 THEN <<>> ELSE images[b.from].layers

Init ==
  /\ sc \in Scenarios /\ images = sc.bases
  /\ ctr = None /\ cm = Idle /\ tmp = FALSE /\ mounts = 0 /\ rc = "none"

-----------------------------------------------------------------------------
(* Working containers.                                                     *)

\* The annotations that name the base are set first.  An image without a name
\* is no name to record.
BaseAnnotations(i) ==
  IF i = 0 THEN [digest |-> "", name |-> ""]
  ELSE ("digest" :> ToString(i)) @@ (IF images[i].named THEN "name" :> ToString(i) ELSE <<>>)

From(i, fmt) ==
  /\ ctr.id = 0 /\ Len(images) < sc.max
  /\ LET new == [NewBuilder EXCEPT !.fmt = fmt, !.from = i, !.ann = BaseAnnotations(i)]
         b == IF i = 0 THEN fixupConfig(new) ELSE initConfig(new, images[i])
     IN ctr' = [id |-> Len(images) + 1, b |-> b, env |-> EnvMap(b.o["env"]), edits |-> 0]
  /\ rc' = "ok"
  /\ UNCHANGED <<sc, images, cm, tmp, mounts>>

\* Variant: the configuration is saved in any case
ConfigSaved(cmd) ==
  /\ ctr.id # 0 /\ cm.pc = "idle" /\ ctr.edits < MaxConfigs
  /\ \E b \in {updateConfig(fixupConfig(ctr.b), cmd)} :
       /\ rc' = IF b.err THEN "err" ELSE "ok"
       /\ ctr' = [ctr EXCEPT !.b = [b EXCEPT !.err = FALSE], !.edits = @ + 1,
                             !.env = IF b.err THEN @ ELSE EnvAfter(@, Args(cmd, "env"))]
  /\ UNCHANGED <<sc, images, cm, tmp, mounts>>

\* configCmd.  A command that fails does not get to Save.
Config(cmd) ==
  /\ ctr.id # 0 /\ cm.pc = "idle" /\ ctr.edits < MaxConfigs
  /\ \E b \in {updateConfig(fixupConfig(ctr.b), cmd)} :
       \/ b.err /\ rc' = "err" /\ UNCHANGED ctr
       \/ ~b.err /\ rc' = "ok" /\ ctr' = [ctr EXCEPT !.b = b, !.edits = @ + 1,
                                                  !.env = EnvAfter(@, Args(cmd, "env"))]
  /\ UNCHANGED <<sc, images, cm, tmp, mounts>>

Delete ==
  /\ ctr.id # 0 /\ cm.pc = "idle"
  /\ ctr' = None
  /\ rc' = "ok"
  /\ UNCHANGED <<sc, images, cm, tmp, mounts>>

-----------------------------------------------------------------------------
(* containerImageRef.                                                      *)

\* makeContainerImageRef: the container's configuration, without the
\* variables to unset; an empty layer is no option when squashing.
Begin(opts) ==
  /\ ctr.id # 0 /\ cm.pc = "idle" /\ Len(images) < sc.max
  /\ cm' = [pc |-> "source", try |-> 0,
            opts |-> [opts EXCEPT !.empty = @ /\ ~opts.squash],
            b |-> FoldLeft(UnsetEnv, fixupConfig(ctr.b), opts.unset),
            todo |-> <<>>, blobs |-> <<>>, history |-> <<>>]
  /\ rc' = "none"
  /\ UNCHANGED <<sc, images, ctr, tmp, mounts>>

Own == [changes |-> <<ctr.id>>, known |-> FALSE, own |-> TRUE]
Chain(b) == [i \in DOMAIN Base(b) |-> [changes |-> Base(b)[i].changes, known |-> Base(b)[i].known, own |-> FALSE]]

\* NewImageSource, up to its loop: a format it does not know is refused
\* before there is a temporary directory.
NewImageSource ==
  /\ cm.pc = "source"
  /\ IF cm.opts.fmt \notin {"oci", "docker"}
     THEN cm' = Idle /\ rc' = "err" /\ UNCHANGED tmp
     ELSE /\ tmp' = TRUE
          /\ cm' = [cm EXCEPT !.pc = "layer", !.blobs = <<>>,
                              !.todo = IF cm.opts.squash THEN <<Own>> ELSE Append(Chain(cm.b), Own)]
          /\ UNCHANGED rc
  /\ UNCHANGED <<sc, images, ctr, mounts>>

\* The deferred call removes the directory of a source that was not made.
NoSource(why) == cm' = Idle /\ rc' = why /\ tmp' = FALSE

Layer == Head(cm.todo)
Blob(changes, comp, stored, whole) == [changes |-> changes, comp |-> comp, stored |-> stored, whole |-> whole]
Noted(blobs) == [cm EXCEPT !.pc = "layer", !.todo = Tail(@), !.blobs = @ \o blobs]

\* The container's own layer is left out; the digest of a parent is known.
ReuseLayer ==
  /\ cm.pc = "layer" /\ cm.todo # <<>>
  /\ \/ cm.opts.empty /\ Layer.own /\ cm' = Noted(<<>>)
     \/ ~cm.opts.squash /\ ~Layer.own /\ Layer.known /\ cm' = Noted(<<Blob(Layer.changes, "none", TRUE, TRUE)>>)
  /\ UNCHANGED <<sc, images, ctr, tmp, mounts, rc>>

\* A reader for the layer, or for the container's file system, which gets
\* mounted.  Not every compression has a media type.
OpenLayer ==
  /\ cm.pc = "layer" /\ cm.todo # <<>>
  /\ ~(cm.opts.empty /\ Layer.own) /\ (cm.opts.squash \/ Layer.own \/ ~Layer.known)
  /\ \/ cm.opts.comp \notin {"none", "gzip"} /\ NoSource("err") /\ UNCHANGED mounts
     \/ /\ cm.opts.comp \in {"none", "gzip"}
        /\ cm' = [cm EXCEPT !.pc = "extract"]
        /\ mounts' = IF cm.opts.squash THEN mounts + 1 ELSE mounts
        /\ UNCHANGED <<tmp, rc>>
     \/ MayFail /\ cm.opts.comp \in {"none", "gzip"} /\ NoSource("err") /\ UNCHANGED mounts
  /\ UNCHANGED <<sc, images, ctr>>

\* What the loop gets to know when reading fails ("read"), when writing does
\* ("write"), also after everything was read ("last"), and when it does in the
\* calls of Close, whose errors are ignored ("close"): the error of io.Copy,
\* or, of a squashed container, the error of copier.Get, which replaces it.
Outcomes == {"ok"} \cup (IF MayFail THEN {"read", "write", "last", "close"} ELSE {})
CopyError(how) == how \in {"read", "write", "last"}
GetError(how) == how \in {"read", "write"}

\* Variant: the sizes are not compared
StoredUnchecked(how) == ~(IF cm.opts.squash THEN GetError(how) ELSE CopyError(how))

Stored(how) ==
  /\ ~(IF cm.opts.squash THEN GetError(how) ELSE CopyError(how))
  /\ cm.opts.comp = "none" => how = "ok"

\* Variant: an early return leaves the container mounted
ExtractLeaking(how) ==
  /\ cm.pc = "extract"
  /\ LET changes == IF cm.opts.squash THEN FlattenSeq([i \in DOMAIN Base(cm.b) |-> Base(cm.b)[i].changes]) \o Layer.changes
                    ELSE Layer.changes
     IN IF Stored(how) THEN /\ cm' = Noted(<<Blob(changes, cm.opts.comp, FALSE, how = "ok")>>)
                            /\ mounts' = IF cm.opts.squash THEN mounts - 1 ELSE mounts
                            /\ UNCHANGED <<tmp, rc>>
        ELSE NoSource("err") /\ UNCHANGED mounts
  /\ UNCHANGED <<sc, images, ctr>>

\* The layer is copied to a file, through the filters and the compressor; all
\* are closed, and closing the reader unmounts the container.
Extract(how) ==
  /\ cm.pc = "extract"
  /\ mounts' = IF cm.opts.squash THEN mounts - 1 ELSE mounts
  /\ LET changes == IF cm.opts.squash THEN FlattenSeq([i \in DOMAIN Base(cm.b) |-> Base(cm.b)[i].changes]) \o Layer.changes
                    ELSE Layer.changes
     IN IF Stored(how) THEN cm' = Noted(<<Blob(changes, cm.opts.comp, FALSE, how = "ok")>>) /\ UNCHANGED <<tmp, rc>>
        ELSE NoSource("err")
  /\ UNCHANGED <<sc, images, ctr>>

-----------------------------------------------------------------------------
(* The history, and the check that it fits the layers.                     *)

expectedDiffIDs(history) == Len(SelectSeq(history, LAMBDA h : ~h.empty))

\* Variant: squashing keeps the history of the base
BaseHistoryKept == IF cm.opts.omit THEN <<>> ELSE cm.b.hist

BaseHistory == IF cm.opts.squash \/ cm.opts.omit THEN <<>> ELSE cm.b.hist

\* Variant: the entry of an empty layer does not say so
HistoryFull == IF cm.opts.omit THEN <<>>
               ELSE BaseHistory \o cm.b.pre \o <<Entry("layer", FALSE)>>

History == IF cm.opts.omit THEN <<>>
           ELSE BaseHistory \o cm.b.pre \o <<Entry("layer", cm.opts.empty)>>

Sane == \/ cm.opts.omit \/ BaseHistory = <<>>
        \/ expectedDiffIDs(History) = Len(cm.blobs)

Describe ==
  /\ cm.pc = "layer" /\ cm.todo = <<>>
  /\ \/ ~Sane /\ NoSource("internal")
     \/ Sane /\ cm' = [cm EXCEPT !.pc = "copy", !.todo = cm.blobs, !.history = History] /\ UNCHANGED <<tmp, rc>>
  /\ UNCHANGED <<sc, images, ctr, mounts>>

-----------------------------------------------------------------------------
(* The copy.                                                               *)

\* The destination asks for a blob: one whose digest was known is read from
\* the store, others from the temporary directory.  It cannot decompress one
\* that is cut short.
GetBlob ==
  /\ cm.pc = "copy" /\ cm.todo # <<>>
  /\ Layer.stored \/ tmp
  /\ Layer.comp = "none" \/ Layer.whole
  /\ cm' = [cm EXCEPT !.todo = Tail(@)]
  /\ UNCHANGED <<sc, images, ctr, tmp, mounts, rc>>

\* Copying fails and closes the source.  retryCopyImage tries again, with a new
\* source, if the destination is a registry.
CopyFails ==
  /\ cm.pc = "copy"
  /\ MayFail \/ (cm.todo # <<>> /\ ~(Layer.comp = "none" \/ Layer.whole))
  /\ tmp' = FALSE
  /\ IF cm.opts.remote /\ cm.try < MaxRetries
     THEN cm' = [cm EXCEPT !.pc = "source", !.try = @ + 1] /\ UNCHANGED rc
     ELSE cm' = Idle /\ rc' = "err"
  /\ UNCHANGED <<sc, images, ctr, mounts>>

\* The image as its format has it.
Image ==
  [fmt |-> cm.opts.fmt, from |-> cm.b.from, named |-> cm.opts.named, history |-> cm.history,
   layers |-> [i \in DOMAIN cm.blobs |-> [changes |-> cm.blobs[i].changes, known |-> TRUE, whole |-> cm.blobs[i].whole]],
   config |-> [f \in Shared |-> IF cm.opts.fmt = "oci" THEN cm.b.o[f] ELSE cm.b.d[f]],
   docker |-> IF cm.opts.fmt = "docker" THEN [f \in DockerOnly |-> cm.b.d[f]] ELSE UnsetDocker,
   ann |-> IF cm.opts.fmt = "oci" THEN cm.b.ann ELSE <<>>,
   lost |-> cm.opts.omit \/ (~cm.opts.squash /\ cm.b.from # 0 /\ images[cm.b.from].lost),
   wants |-> FlattenSeq([i \in DOMAIN Base(cm.b) |-> Base(cm.b)[i].changes])
               \o (IF cm.opts.empty THEN <<>> ELSE <<ctr.id>>),
   env |-> [k \in DOMAIN ctr.env \ Range(cm.opts.unset) |-> ctr.env[k]]]

CopyEnds ==
  /\ cm.pc = "copy" /\ cm.todo = <<>>
  /\ images' = Append(images, Image)
  /\ cm' = Idle /\ tmp' = FALSE /\ rc' = "ok"
  /\ UNCHANGED <<sc, ctr, mounts>>

-----------------------------------------------------------------------------
Done == Len(images) = sc.max /\ ctr.id = 0 /\ UNCHANGED vars

CommitStep == NewImageSource \/ ReuseLayer \/ OpenLayer \/ Extract("ok") \/ Describe \/ GetBlob \/ CopyEnds
Failure == \/ \E how \in Outcomes \ {"ok"} : Extract(how)
           \/ CopyFails

Next == \/ \E i \in 0 .. Len(images), fmt \in {"oci", "docker"} : From(i, fmt)
        \/ \E cmd \in sc.configs : Config(cmd)
        \/ \E opts \in sc.commits : Begin(opts)
        \/ Delete \/ CommitStep \/ Failure \/ Done

Spec == Init /\ [][Next]_vars

-----------------------------------------------------------------------------
\* Type invariant; among others, a commit is tried MaxRetries more times at most.
TypeOK ==
  /\ sc \in Scenarios /\ Len(images) <= sc.max /\ tmp \in BOOLEAN /\ mounts \in {0, 1}
  /\ rc \in {"none", "ok", "err", "internal"}
  /\ cm.pc \in {"idle", "source", "layer", "extract", "copy"}
  /\ cm.pc # "idle" => cm.try \in 0 .. MaxRetries
  /\ ctr.id \in 0 .. sc.max

Builders == (IF ctr.id = 0 THEN {} ELSE {ctr.b}) \cup (IF cm.pc = "idle" THEN {} ELSE {cm.b})

\* The two configurations of a container never disagree about a setting that
\* both formats have, so that the format chosen for a commit does not change
\* what the image does.
FormatsAgree == \A b \in Builders : \A f \in Shared : b.o[f] = b.d[f]

\* Environment variables, kept as lists in two places, edited by several
\* commands, and passed on from image to image in either format, are what the
\* commands that succeeded ask for: none is lost, set twice, or comes back.
EnvMeans ==
  /\ ctr.id # 0 => EnvMap(ctr.b.o["env"]) = ctr.env /\ Len(ctr.b.o["env"]) = Cardinality(DOMAIN ctr.env)
  /\ \A i \in DOMAIN images : EnvMap(images[i].config["env"]) = images[i].env

\* Whichever of its layers were reused, stored or squashed, and whatever failed
\* on the way, an image holds exactly the changes of its base and those of its
\* container, whole and in order.
ImageComplete ==
  \A i \in DOMAIN images :
    /\ FlattenSeq([k \in DOMAIN images[i].layers |-> images[i].layers[k].changes]) = images[i].wants
    /\ \A k \in DOMAIN images[i].layers : images[i].layers[k].whole

\* The history of an image accounts for each of its layers, unless history was
\* omitted from it or from an image below it.
HistoryMatches ==
  \A i \in DOMAIN images : images[i].lost \/ expectedDiffIDs(images[i].history) = Len(images[i].layers)

\* The check of the history never fails on top of such an image.
CheckPasses == rc = "internal" => images[ctr.b.from].lost

\* "We will ignore sanity checks if baseImage history is null": no commit fails
\* because of the history of its base.
NoInternalError == rc # "internal"

\* Once a commit has ended, its temporary directory is gone and the container
\* is not mounted any more.
CleanedUp == cm.pc = "idle" => ~tmp /\ mounts = 0

\* The annotation that tells the digest of the base image of an OCI image is
\* about the image it was built from, not about one further down.
BaseDigest ==
  \A i \in DOMAIN images :
    images[i].fmt = "oci" /\ images[i].from # 0 /\ "digest" \in DOMAIN images[i].ann =>
      images[i].ann["digest"] = ToString(images[i].from)

\* The configuration means the same in both formats, through commands that fail
\* and chains of images, and tells the right base (Builder.fixupConfig, setters).
ConfigMeans == FormatsAgree /\ EnvMeans /\ BaseDigest

\* Histories account for layers, and so no commit is refused for a history that
\* buildah itself has made (containerImageRef.NewImageSource).
HistoryAccounts == HistoryMatches /\ CheckPasses

\* Whatever failed on the way, a commit that has ended leaves a complete image
\* or none, and neither a mount nor a temporary directory (NewImageSource).
CommitsWhole == ImageComplete /\ CleanedUp
=============================================================================
