------------------------------ MODULE Executor ------------------------------
(***************************************************************************)
(* Executor.Build (imagebuildah/executor.go): the stages of a build run in  *)
(* goroutines of their own, started in order by a dispatcher, bounded by a  *)
(* semaphore, and reporting to the main loop over a channel.  A stage that  *)
(* refers to an earlier one polls until the main loop has recorded that     *)
(* stage's termination, and gives its semaphore token back between polls.   *)
(* The main loop returns on the first error and cleans up while the other   *)
(* goroutines are still running.                                            *)
(*                                                                          *)
(* Stages are the numbers 0 .. NumStages-1, in the order of the             *)
(* Containerfile.  An image is named by the stage that committed it; Ext is *)
(* an image from outside the build.  A container is the k-th container made *)
(* on behalf of a stage.  What a stage does between two interactions with   *)
(* the executor is left out.                                                *)
(***************************************************************************)
EXTENDS Integers, Sequences, FiniteSets

CONSTANTS
    NumStages,               \* len(stages)
    Jobs,                    \* weight of stagesSemaphore
    Layers,                  \* b.layers
    RemoveIntermediateCtrs,  \* b.removeIntermediateCtrs
    ForceRmIntermediateCtrs, \* b.forceRmIntermediateCtrs
    SkipUnusedStages,        \* b.skipUnusedStages # OptionalBoolFalse
    Containerfiles,          \* the builds considered, see IsContainerfile
    MayFail,                 \* stages whose own work may fail
    TailMayFail,             \* whether tagging and reporting the image may fail
    MayCancel,               \* whether the caller may cancel the context
    MaxRebase                \* bound: layer containers replaced per stage

Stages == 0 .. NumStages - 1
Last == NumStages - 1
Ext == NumStages
Names == 0 .. NumStages
NoImage == -1
Images == 0 .. NumStages

(***************************************************************************)
(* base[i] is the stage (or Ext) named by the FROM of stage i, reads[i] the *)
(* stages or external images its COPY --from and RUN --mount=from= read, in *)
(* order, and steps[i] says whether anything follows the FROM.              *)
(***************************************************************************)
IsContainerfile(f) ==
    /\ f.base \in [Stages -> Names]
    /\ f.steps \in [Stages -> BOOLEAN]
    /\ f.reads \in [Stages -> Seq(Names)]
    /\ \A i \in Stages :
        /\ f.base[i] < i \/ f.base[i] = Ext
        /\ \A n \in 1 .. Len(f.reads[i]) : f.reads[i][n] < i \/ f.reads[i][n] = Ext
        /\ f.reads[i] # << >> => f.steps[i]

ASSUME SizeAssumption == /\ NumStages \in Nat \ {0}
                         /\ Jobs \in Nat \ {0}
                         /\ MaxRebase \in Nat
ASSUME OptionAssumption == /\ Layers \in BOOLEAN
                           /\ RemoveIntermediateCtrs \in BOOLEAN
                           /\ ForceRmIntermediateCtrs \in BOOLEAN
                           /\ SkipUnusedStages \in BOOLEAN
                           /\ MayCancel \in BOOLEAN
                           /\ TailMayFail \in BOOLEAN
                           /\ MayFail \subseteq Stages
ASSUME ContainerfileAssumption == \A f \in Containerfiles : IsContainerfile(f)

VARIABLES
    file,             \* the build, chosen at the start
    ctxDone,          \* ctx.Done() is closed
    cur,              \* tokens taken from stagesSemaphore
    next,             \* the dispatcher's stageIndex
    cancel,           \* the dispatcher's cancel flag
    lastError,        \* b.lastError # nil
    ch,               \* the results channel
    pc,               \* where each stage's goroutine is
    todo,             \* what each stage has still to read
    baseImage,        \* the image each stage starts from
    made,             \* containers made so far on behalf of each stage
    builder,          \* s.builder: the stage's working container, 0 for nil
    containerIDs,     \* s.containerIDs: its replaced layer containers
    stages,           \* b.stages: the stages that were started
    cleanupStages,    \* the map of stages to clean up
    cleanupNil,       \* Build's cleanupStages variable is nil
    containerMap,     \* b.containerMap: image name to container, 0 for none
    mapNil,           \* b.containerMap is nil
    label,            \* b.mountLabel/b.processLabel, NoLabel when unset
    terminatedStage,  \* b.terminatedStage
    imageMap,         \* b.imageMap
    cleanupImages,    \* images to remove at the end
    mpc,              \* where Build itself is
    deferred,         \* the cleanup running is the deferred one
    imageID,          \* Build's result imageID
    outcome,          \* what Build returns
    containers,       \* the containers in the store
    images,           \* the images in the store
    crashed           \* why the process died, "no" while it lives

semVars   == <<cur, ctxDone>>
ctlVars   == <<next, cancel, lastError>>
stageVars == <<todo, baseImage, made, builder, containerIDs>>
regVars   == <<stages, cleanupStages, cleanupNil>>
rootVars  == <<containerMap, mapNil, label>>
mainVars  == <<terminatedStage, imageMap, cleanupImages, mpc, deferred,
               imageID, outcome>>
storeVars == <<containers, images>>
vars == <<file, semVars, ctlVars, ch, pc, stageVars, regVars, rootVars,
          mainVars, storeVars, crashed>>

NoLabel == <<-1, 0>>
NoContainer == <<-1, 0>>
Result == [index : Stages, image : Images \cup {NoImage}, error : BOOLEAN]
StagePC == {"idle", "refused", "spawned", "fromWait", "fromSleep", "lookup",
            "prepare", "mount", "work", "readWait", "readSleep", "read",
            "rootfs", "rootMake", "erring", "sent", "done"}
MainPC == {"receive", "failing", "tag", "delStages", "delRoots", "delCtrs",
           "delImages", "report", "returned"}
Crashes == {"no", "semaphore", "nil", "race"}

(***************************************************************************)
(* The dependency map, and the stages marked as needed by the target (the   *)
(* last stage).  References only ever point at earlier stages.              *)
(***************************************************************************)
Needs(f, i) == ({f.base[i]} \cup {f.reads[i][n] : n \in 1 .. Len(f.reads[i])}) \ {Ext}

\* markDependencyStagesForTarget: what the recursion reaches from the target
NeededByTarget(f) ==
    {i \in Stages : \A marked \in SUBSET Stages :
        (Last \in marked /\ \A k \in marked : Needs(f, k) \subseteq marked) => i \in marked}

Skipped(i) == SkipUnusedStages /\ i \notin NeededByTarget(file)

\* imageIsUsedLater: only then does a single-layer build commit a stage
ImageIsUsedLater(i) == \E k \in Stages : file.base[k] = i
Commits(i) == Layers \/ i = Last \/ ~file.steps[i] \/ ImageIsUsedLater(i)

Init ==
    /\ file \in Containerfiles
    /\ ctxDone = FALSE
    /\ cur = 0
    /\ next = 0
    /\ cancel = FALSE
    /\ lastError = FALSE
    /\ ch = << >>
    /\ pc = [i \in Stages |-> "idle"]
    /\ todo = file.reads
    /\ baseImage = [i \in Stages |-> NoImage]
    /\ made = [i \in Stages |-> 0]
    /\ builder = [i \in Stages |-> 0]
    /\ containerIDs = [i \in Stages |-> {}]
    /\ stages = {}
    /\ cleanupStages = {}
    /\ cleanupNil = FALSE
    /\ containerMap = [n \in Names |-> NoContainer]
    /\ mapNil = FALSE
    /\ label = NoLabel
    /\ terminatedStage = [i \in Stages |-> "no"]
    /\ imageMap = [i \in Stages |-> NoImage]
    /\ cleanupImages = << >>
    /\ mpc = "receive"
    /\ deferred = FALSE
    /\ imageID = NoImage
    /\ outcome = "none"
    /\ containers = {}
    /\ images = {Ext}
    /\ crashed = "no"

-----------------------------------------------------------------------------
\* Variant: no waiting for a token
TryAcquireFails == cur >= Jobs /\ cur' = cur

(***************************************************************************)
(* The semaphore (golang.org/x/sync/semaphore).  Acquire fails only when it *)
(* has to wait and the context is done; Release of a token that nobody      *)
(* holds panics.                                                            *)
(***************************************************************************)
Acquire == cur < Jobs /\ cur' = cur + 1
AcquireFails == ctxDone /\ cur >= Jobs /\ cur' = cur
Release == cur' = cur - 1 /\ crashed' = IF cur = 0 THEN "semaphore" ELSE crashed

Goto(i, where) == pc' = [pc EXCEPT ![i] = where]

\* Variant: a channel of capacity one
SendToSmallChannel(r) == Len(ch) < 1 /\ ch' = Append(ch, r)

\* The channel has room for one result per stage
Send(r) == Len(ch) < NumStages /\ ch' = Append(ch, r)

\* buildStage returned an error: set cancel, then report the error
StageError(i) == cancel' = TRUE /\ Goto(i, "erring")

ReportError(i) ==
    /\ pc[i] = "erring"
    /\ Send([index |-> i, image |-> NoImage, error |-> TRUE])
    /\ Goto(i, "sent")
    /\ UNCHANGED <<file, semVars, ctlVars, stageVars, regVars, rootVars,
                   mainVars, storeVars, crashed>>

\* The caller gives up
CancelContext ==
    /\ MayCancel /\ ~ctxDone
    /\ ctxDone' = TRUE
    /\ UNCHANGED <<file, cur, ctlVars, ch, pc, stageVars, regVars, rootVars,
                   mainVars, storeVars, crashed>>

(***************************************************************************)
(* The dispatcher acquires a token for each stage in turn and starts its    *)
(* goroutine, which captures the cleanupStages map as it is then.           *)
(***************************************************************************)
Dispatch ==
    /\ next < NumStages
    /\ Acquire
    /\ Goto(next, IF cleanupNil THEN "refused" ELSE "spawned")
    /\ next' = next + 1
    /\ UNCHANGED <<file, ctxDone, cancel, lastError, ch, stageVars, regVars,
                   rootVars, mainVars, storeVars, crashed>>

\* Variant: no result for a stage whose token could not be acquired
SendNothing == ch' = ch

SendNotStarted == Send([index |-> next, image |-> NoImage, error |-> TRUE])

DispatchFails ==
    /\ next < NumStages
    /\ AcquireFails
    /\ cancel' = TRUE
    /\ lastError' = TRUE
    /\ SendNotStarted
    /\ Goto(next, "done")
    /\ next' = next + 1
    /\ UNCHANGED <<file, ctxDone, stageVars, regVars, rootVars, mainVars,
                   storeVars, crashed>>

\* The goroutine finds the build canceled, or already cleaned up
StageCanceled(i) ==
    /\ \/ pc[i] = "refused"
       \/ pc[i] = "spawned" /\ cancel
    /\ Send([index |-> i, image |-> NoImage, error |-> TRUE])
    /\ Goto(i, "sent")
    /\ UNCHANGED <<file, semVars, ctlVars, stageVars, regVars, rootVars,
                   mainVars, storeVars, crashed>>

\* A stage the target does not need succeeds without an image
StageSkipped(i) ==
    /\ pc[i] = "spawned" /\ ~cancel
    /\ Skipped(i)
    /\ Send([index |-> i, image |-> NoImage, error |-> FALSE])
    /\ Goto(i, "sent")
    /\ UNCHANGED <<file, semVars, ctlVars, stageVars, regVars, rootVars,
                   mainVars, storeVars, crashed>>

\* Variant: a single-layer build is not cleaned up
CleanedWhenForced(i) == ForceRmIntermediateCtrs

CleanedFromStart(i) == ForceRmIntermediateCtrs \/ (~Layers /\ file.steps[i])

\* Variant: the base stage is not waited for
WithoutWaiting(i) == "lookup"

ExecuteFrom(i) == IF file.base[i] = Ext THEN "lookup" ELSE "fromWait"

\* buildStage up to Execute: startStage, and registration for cleanup
StartStage(i) ==
    /\ pc[i] = "spawned" /\ ~cancel
    /\ ~Skipped(i)
    /\ stages' = stages \cup {i}
    /\ cleanupStages' = IF CleanedFromStart(i) THEN cleanupStages \cup {i} ELSE cleanupStages
    /\ Goto(i, ExecuteFrom(i))
    /\ UNCHANGED <<file, semVars, ctlVars, ch, stageVars, cleanupNil, rootVars,
                   mainVars, storeVars, crashed>>

(***************************************************************************)
(* waitForStage, called with the name of an earlier stage.  The poll finds  *)
(* an error of the build, or that the stage has terminated, or gives its    *)
(* token back and sleeps.  When the stage itself terminated with an error,  *)
(* the result is (false, error), which no caller looks at.                  *)
(***************************************************************************)
Poll(i, other, asleep, awake) ==
    \/ /\ lastError
       /\ StageError(i)
       /\ UNCHANGED <<cur, crashed>>
    \/ /\ ~lastError /\ terminatedStage[other] # "no"
       /\ Goto(i, awake)
       /\ UNCHANGED <<cancel, cur, crashed>>
    \/ /\ ~lastError /\ terminatedStage[other] = "no"
       /\ Release
       /\ Goto(i, asleep)
       /\ cancel' = cancel

\* Variant: the sleeper goes on without a token
ReacquireNothing(i, waiting) == Goto(i, waiting) /\ UNCHANGED <<cancel, cur>>

Reacquire(i, waiting) ==
    \/ /\ Acquire
       /\ Goto(i, waiting)
       /\ cancel' = cancel
    \/ /\ AcquireFails
       /\ StageError(i)

PollBase(i) ==
    /\ pc[i] = "fromWait"
    /\ Poll(i, file.base[i], "fromSleep", "lookup")
    /\ UNCHANGED <<file, ctxDone, next, lastError, ch, stageVars, regVars, rootVars,
                   mainVars, storeVars>>

\* Variant: the token is given back before the other stage is read
PollReadReleasing(i) ==
    LET ended == ~lastError /\ terminatedStage[Head(todo[i])] # "no"
    IN  /\ pc[i] = "readWait"
        /\ \/ ~ended /\ Poll(i, Head(todo[i]), "readSleep", "read")
           \/ ended /\ Release /\ Goto(i, "read") /\ cancel' = cancel
        /\ UNCHANGED <<file, ctxDone, next, lastError, ch, stageVars, regVars, rootVars,
                       mainVars, storeVars>>

PollRead(i) ==
    /\ pc[i] = "readWait"
    /\ Poll(i, Head(todo[i]), "readSleep", "read")
    /\ UNCHANGED <<file, ctxDone, next, lastError, ch, stageVars, regVars, rootVars,
                   mainVars, storeVars>>

Wake(i) ==
    /\ \/ pc[i] = "fromSleep" /\ Reacquire(i, "fromWait")
       \/ pc[i] = "readSleep" /\ Reacquire(i, "readWait")
    /\ UNCHANGED <<file, ctxDone, next, lastError, ch, stageVars, regVars, rootVars,
                   mainVars, storeVars, crashed>>

-----------------------------------------------------------------------------
(***************************************************************************)
(* StageExecutor.Execute.  Under the lock, a base that an earlier stage     *)
(* built is replaced by that stage's image.                                 *)
(***************************************************************************)
LookupBase(i) ==
    /\ pc[i] = "lookup"
    /\ baseImage' = [baseImage EXCEPT ![i] =
                        IF file.base[i] # Ext /\ imageMap[file.base[i]] # NoImage
                        THEN imageMap[file.base[i]] ELSE Ext]
    /\ Goto(i, "prepare")
    /\ UNCHANGED <<file, semVars, ctlVars, ch, todo, made, builder, containerIDs,
                   regVars, rootVars, mainVars, storeVars, crashed>>

MakeContainer(i, image, itsLabel) ==
    /\ made' = [made EXCEPT ![i] = @ + 1]
    /\ containers' = containers \cup
            {[stage |-> i, k |-> made[i] + 1, image |-> image, label |-> itsLabel]}

Without(ids) == {c \in containers : <<c.stage, c.k>> \notin ids}

(***************************************************************************)
(* prepare: NewBuilder is given the label the executor has at that time,    *)
(* and picks one of its own when there is none; afterwards the executor     *)
(* keeps the first label.  An image that was built here is never pulled.    *)
(***************************************************************************)
NewBuilder(i) ==
    /\ pc[i] = "prepare"
    /\ baseImage[i] \in images \cup {Ext}
    /\ MakeContainer(i, baseImage[i], IF label = NoLabel THEN <<i, made[i] + 1>> ELSE label)
    /\ images' = images \cup {baseImage[i]}
    /\ Goto(i, "mount")
    /\ UNCHANGED <<file, semVars, ctlVars, ch, todo, baseImage, builder, containerIDs,
                   regVars, rootVars, mainVars, crashed>>

NewBuilderFails(i) ==
    /\ pc[i] = "prepare"
    /\ \/ i \in MayFail
       \/ baseImage[i] \notin images \cup {Ext}
       \/ file.base[i] # Ext /\ imageMap[file.base[i]] = NoImage
    /\ StageError(i)
    /\ UNCHANGED <<file, semVars, next, lastError, ch, stageVars, regVars, rootVars,
                   mainVars, storeVars, crashed>>

\* Variant: the first label is not kept
ShareNoLabel(i) == label' = label

ShareLabel(i) ==
    label' \in IF label = NoLabel
               THEN {c.label : c \in {d \in containers : d.stage = i /\ d.k = made[i]}}
               ELSE {label}

MountBuilder(i) ==
    /\ pc[i] = "mount"
    /\ ShareLabel(i)
    /\ builder' = [builder EXCEPT ![i] = made[i]]
    /\ Goto(i, "work")
    /\ UNCHANGED <<file, semVars, ctlVars, ch, todo, baseImage, made, containerIDs,
                   regVars, containerMap, mapNil, mainVars, storeVars, crashed>>

MountBuilderFails(i) ==
    /\ pc[i] = "mount" /\ i \in MayFail
    /\ ShareLabel(i)
    /\ containers' = Without({<<i, made[i]>>})
    /\ StageError(i)
    /\ UNCHANGED <<file, semVars, next, lastError, ch, stageVars, regVars, containerMap,
                   mapNil, mainVars, images, crashed>>

(***************************************************************************)
(* A step that reads another stage's root filesystem or an image's.         *)
(***************************************************************************)
BeginRead(i) ==
    /\ pc[i] = "work" /\ builder[i] # 0
    /\ todo[i] # << >>
    /\ Goto(i, IF Head(todo[i]) = Ext THEN "rootfs" ELSE "readWait")
    /\ UNCHANGED <<file, semVars, ctlVars, ch, stageVars, regVars, rootVars,
                   mainVars, storeVars, crashed>>

ReadDone(i) == todo' = [todo EXCEPT ![i] = Tail(@)] /\ Goto(i, "work")

\* StageExecutor.Copy, after its own call of waitForStage
ReadStage(i) ==
    /\ pc[i] = "read" /\ Head(todo[i]) \in stages
    /\ \/ /\ lastError
          /\ StageError(i)
          /\ todo' = todo
       \/ /\ ~lastError
          /\ builder[i] # 0 /\ builder[Head(todo[i])] # 0
          /\ ReadDone(i)
          /\ cancel' = cancel
    /\ UNCHANGED <<file, semVars, next, lastError, ch, baseImage, made, builder,
                   containerIDs, regVars, rootVars, mainVars, storeVars, crashed>>

\* A stage that was never started is taken for the name of an image
ReadImage(i) ==
    /\ pc[i] = "read" /\ Head(todo[i]) \notin stages
    /\ Goto(i, "rootfs")
    /\ UNCHANGED <<file, semVars, ctlVars, ch, stageVars, regVars, rootVars,
                   mainVars, storeVars, crashed>>

\* getImageRootfs: look for a container for the image, else make one
RootfsLookup(i) ==
    /\ pc[i] = "rootfs"
    /\ IF ~mapNil /\ containerMap[Head(todo[i])] # NoContainer
       THEN ReadDone(i)
       ELSE Goto(i, "rootMake") /\ todo' = todo
    /\ UNCHANGED <<file, semVars, ctlVars, ch, baseImage, made, builder, containerIDs,
                   regVars, rootVars, mainVars, storeVars, crashed>>

RootfsMake(i) ==
    /\ pc[i] = "rootMake"
    /\ MakeContainer(i, Ext, label)
    /\ images' = images \cup {Ext}
    /\ IF mapNil
       THEN crashed' = "nil" /\ containerMap' = containerMap
       ELSE /\ crashed' = crashed
            /\ containerMap' = [containerMap EXCEPT ![Head(todo[i])] = <<i, made[i] + 1>>]
    /\ ReadDone(i)
    /\ UNCHANGED <<file, semVars, ctlVars, ch, baseImage, builder, containerIDs,
                   regVars, mapNil, label, mainVars>>

RootfsMakeFails(i) ==
    /\ pc[i] = "rootMake"
    /\ i \in MayFail \/ Head(todo[i]) # Ext
    /\ StageError(i)
    /\ UNCHANGED <<file, semVars, next, lastError, ch, stageVars, regVars, rootVars,
                   mainVars, storeVars, crashed>>

(***************************************************************************)
(* A layered build replaces the working container after committing a layer: *)
(* the old one is noted in containerIDs before the new one is made.         *)
(***************************************************************************)
CanRebase(i) ==
    /\ Layers /\ file.steps[i]
    /\ pc[i] = "work" /\ builder[i] # 0
    /\ made[i] <= MaxRebase

\* Variant: the replaced container is not noted
ForgetReplaced(i) == UNCHANGED containerIDs

NoteReplaced(i) == containerIDs' = [containerIDs EXCEPT ![i] = @ \cup {builder[i]}]

Rebase(i) ==
    /\ CanRebase(i)
    /\ NoteReplaced(i)
    /\ MakeContainer(i, i, label)
    /\ images' = images \cup {i}
    /\ builder' = [builder EXCEPT ![i] = made[i] + 1]
    /\ UNCHANGED <<file, semVars, ctlVars, ch, pc, todo, baseImage, regVars,
                   rootVars, mainVars, crashed>>

RebaseFails(i) ==
    /\ CanRebase(i) /\ i \in MayFail
    /\ NoteReplaced(i)
    /\ StageError(i)
    /\ UNCHANGED <<file, semVars, next, lastError, ch, todo, baseImage, made, builder,
                   regVars, rootVars, mainVars, storeVars, crashed>>

\* Any other step of the stage fails
StepFails(i) ==
    /\ pc[i] = "work" /\ builder[i] # 0 /\ i \in MayFail
    /\ StageError(i)
    /\ UNCHANGED <<file, semVars, next, lastError, ch, stageVars, regVars, rootVars,
                   mainVars, storeVars, crashed>>

(***************************************************************************)
(* The end of Execute and of buildStage: commit if the image is wanted (a   *)
(* stage without instructions reuses its base unless an option changes the  *)
(* image), register the stage for cleanup, report the image.                *)
(***************************************************************************)
FinishStage(i) ==
    /\ pc[i] = "work" /\ builder[i] # 0 /\ todo[i] = << >>
    /\ \E image \in IF ~Commits(i) THEN {NoImage}
                    ELSE IF file.steps[i] THEN {i} ELSE {i, baseImage[i]} :
        /\ images' = images \cup ({image} \ {NoImage})
        /\ Send([index |-> i, image |-> image, error |-> FALSE])
    /\ cleanupStages' = IF RemoveIntermediateCtrs /\ file.steps[i]
                        THEN cleanupStages \cup {i} ELSE cleanupStages
    /\ Goto(i, "sent")
    /\ UNCHANGED <<file, semVars, ctlVars, stageVars, stages, cleanupNil, rootVars,
                   mainVars, containers, crashed>>

\* The stage, or the stage it copies from, has lost its builder: nil dereference
UseDeletedBuilder(i) ==
    /\ \/ pc[i] = "work" /\ builder[i] = 0
       \/ /\ pc[i] = "read" /\ ~lastError /\ Head(todo[i]) \in stages
          /\ builder[i] = 0 \/ builder[Head(todo[i])] = 0
    /\ crashed' = "nil"
    /\ UNCHANGED <<file, semVars, ctlVars, ch, pc, stageVars, regVars, rootVars,
                   mainVars, storeVars>>

\* The goroutine's deferred Release
ReleaseToken(i) ==
    /\ pc[i] = "sent"
    /\ Release
    /\ Goto(i, "done")
    /\ UNCHANGED <<file, ctxDone, ctlVars, ch, stageVars, regVars, rootVars,
                   mainVars, storeVars>>

-----------------------------------------------------------------------------
(***************************************************************************)
(* Build's own loop over the results.  A success records termination and    *)
(* image in one critical section.  An error records termination, and only   *)
(* after the unlock sets lastError and returns.                             *)
(***************************************************************************)
\* Variant: a stage that reports no image counts
IsIntermediateEvenIfEmpty(r) == r.index < Last

IsIntermediate(r) == r.index < Last /\ r.image # NoImage

ReceiveSuccess ==
    /\ mpc = "receive" /\ ch # << >>
    /\ LET r == Head(ch)
       IN  /\ ~r.error
           /\ terminatedStage' = [terminatedStage EXCEPT ![r.index] = "ok"]
           /\ imageMap' = IF IsIntermediate(r) THEN [imageMap EXCEPT ![r.index] = r.image]
                          ELSE imageMap
           /\ cleanupImages' = IF IsIntermediate(r) /\ ~Layers
                               THEN Append(cleanupImages, r.image) ELSE cleanupImages
           /\ imageID' = IF r.index = Last THEN r.image ELSE imageID
    /\ ch' = Tail(ch)
    /\ UNCHANGED <<file, semVars, ctlVars, pc, stageVars, regVars, rootVars,
                   mpc, deferred, outcome, storeVars, crashed>>

\* Variant: the loop goes on after an error
ContinueAfterError == "receive"

ReturnAfterError == "failing"

ReceiveError ==
    /\ mpc = "receive" /\ ch # << >>
    /\ Head(ch).error
    /\ terminatedStage' = [terminatedStage EXCEPT ![Head(ch).index] = "error"]
    /\ mpc' = ReturnAfterError
    /\ ch' = Tail(ch)
    /\ UNCHANGED <<file, semVars, ctlVars, pc, stageVars, regVars, rootVars,
                   imageMap, cleanupImages, deferred, imageID, outcome,
                   storeVars, crashed>>

ReturnError ==
    /\ mpc = "failing"
    /\ lastError' = TRUE
    /\ imageID' = NoImage
    /\ outcome' = "error"
    /\ deferred' = TRUE
    /\ mpc' = "delStages"
    /\ UNCHANGED <<file, semVars, next, cancel, ch, pc, stageVars, regVars,
                   rootVars, terminatedStage, imageMap, cleanupImages,
                   storeVars, crashed>>

\* Variant: the channel is closed when the last stage is done
LastStageDone == pc[Last] \in {"sent", "done"}

\* wg.Wait: every goroutine has passed wg.Done
AllStagesDone == \A i \in Stages : pc[i] \in {"sent", "done"}

ChannelClosed ==
    /\ mpc = "receive" /\ ch = << >>
    /\ AllStagesDone
    /\ mpc' = "tag"
    /\ UNCHANGED <<file, semVars, ctlVars, ch, pc, stageVars, regVars, rootVars,
                   terminatedStage, imageMap, cleanupImages, deferred, imageID,
                   outcome, storeVars, crashed>>

\* The additional tags; a failure returns, and the deferred cleanup runs
AddTags ==
    /\ mpc = "tag"
    /\ \/ UNCHANGED <<outcome, deferred>>
       \/ TailMayFail /\ outcome' = "error" /\ deferred' = TRUE
    /\ mpc' = "delStages"
    /\ UNCHANGED <<file, semVars, ctlVars, ch, pc, stageVars, regVars, rootVars,
                   terminatedStage, imageMap, cleanupImages, imageID, storeVars,
                   crashed>>

\* Write the image's ID to the iidfile or to stdout, and return
ReportImage ==
    /\ mpc = "report"
    /\ \/ outcome' = "ok"
       \/ TailMayFail /\ outcome' = "error"
    /\ deferred' = TRUE
    /\ mpc' = "delStages"
    /\ UNCHANGED <<file, semVars, ctlVars, ch, pc, stageVars, regVars, rootVars,
                   terminatedStage, imageMap, cleanupImages, imageID, storeVars,
                   crashed>>

(***************************************************************************)
(* cleanup: the stages' working containers (under the lock), the containers *)
(* made to read images, the replaced layer containers, the intermediate     *)
(* images.  Build runs it before it returns an image, and always as a       *)
(* deferred call.                                                           *)
(***************************************************************************)
DeleteStages ==
    /\ mpc = "delStages"
    /\ LET gone == IF cleanupNil THEN {} ELSE cleanupStages
       IN  /\ containers' = Without({<<i, builder[i]>> : i \in gone})
           /\ builder' = [i \in Stages |-> IF i \in gone THEN 0 ELSE builder[i]]
    /\ cleanupNil' = TRUE
    /\ mpc' = "delRoots"
    /\ UNCHANGED <<file, semVars, ctlVars, ch, pc, todo, baseImage, made,
                   containerIDs, stages, cleanupStages, rootVars, terminatedStage,
                   imageMap, cleanupImages, deferred, imageID, outcome, images,
                   crashed>>

DeleteRoots ==
    /\ mpc = "delRoots"
    /\ containers' = IF mapNil THEN containers
                     ELSE Without({containerMap[n] : n \in Names})
    /\ mapNil' = TRUE
    /\ mpc' = "delCtrs"
    /\ UNCHANGED <<file, semVars, ctlVars, ch, pc, stageVars, regVars, containerMap,
                   label, terminatedStage, imageMap, cleanupImages, deferred,
                   imageID, outcome, images, crashed>>

\* deleteSuccessfulIntermediateCtrs
DeleteIntermediateCtrs ==
    /\ mpc = "delCtrs"
    /\ IF RemoveIntermediateCtrs
       THEN LET ids == UNION {{i} \X containerIDs[i] : i \in stages}
                known == {<<c.stage, c.k>> : c \in containers}
            IN  /\ containers' = Without(ids)
                /\ outcome' = IF ids \subseteq known THEN outcome ELSE "error"
                /\ containerIDs' = [i \in Stages |-> IF i \in stages THEN {} ELSE containerIDs[i]]
       ELSE UNCHANGED <<containers, outcome, containerIDs>>
    /\ mpc' = "delImages"
    /\ UNCHANGED <<file, semVars, ctlVars, ch, pc, todo, baseImage, made, builder,
                   regVars, rootVars, terminatedStage, imageMap, cleanupImages,
                   deferred, imageID, images, crashed>>

\* Variant: the final image is not spared
AllListedImages == 1 .. Len(cleanupImages)

ImagesToRemove == {n \in 1 .. Len(cleanupImages) : cleanupImages[n] # imageID}

\* An image that a container uses stays; removing an image twice is an error
DeleteImages ==
    /\ mpc = "delImages"
    /\ LET listed == ImagesToRemove
           used == {c.image : c \in containers}
           free == {n \in listed : cleanupImages[n] \notin used}
           gone == {cleanupImages[n] : n \in free}
           fails == \/ ForceRmIntermediateCtrs /\ free # listed
                    \/ ~(gone \subseteq images)
                    \/ \E m, n \in free : m # n /\ cleanupImages[m] = cleanupImages[n]
       IN  /\ images' = images \ gone
           /\ outcome' = IF fails THEN "error" ELSE outcome
    /\ cleanupImages' = << >>
    /\ \/ /\ deferred
          /\ mpc' = "returned"
          /\ UNCHANGED <<deferred, imageID>>
       \/ /\ ~deferred /\ outcome' = "error"
          /\ mpc' = "delStages" /\ deferred' = TRUE /\ imageID' = NoImage
       \/ /\ ~deferred /\ outcome' # "error"
          /\ mpc' = "report"
          /\ UNCHANGED <<deferred, imageID>>
    /\ UNCHANGED <<file, semVars, ctlVars, ch, pc, stageVars, regVars, rootVars,
                   terminatedStage, imageMap, containers, crashed>>

-----------------------------------------------------------------------------
(***************************************************************************)
(* Two goroutines in the same map at once, one of them writing, may kill    *)
(* the process: the containerMap has no lock, and b.stages is read without. *)
(***************************************************************************)
Starting(i) == pc[i] = "spawned" /\ ~cancel /\ ~Skipped(i)

MapRace ==
    /\ \E i \in Stages :
        \/ pc[i] = "rootMake" /\ mpc = "delRoots"
        \/ Starting(i) /\ mpc = "delCtrs" /\ RemoveIntermediateCtrs
        \/ \E j \in Stages \ {i} :
            \/ pc[i] = "rootMake" /\ pc[j] \in {"rootfs", "rootMake"}
            \/ Starting(i) /\ pc[j] = "read"
    /\ crashed' = "race"
    /\ UNCHANGED <<file, semVars, ctlVars, ch, pc, stageVars, regVars, rootVars,
                   mainVars, storeVars>>

StageWork(i) ==
    \/ StageCanceled(i) \/ StageSkipped(i) \/ StartStage(i)
    \/ PollBase(i) \/ LookupBase(i)
    \/ NewBuilder(i) \/ NewBuilderFails(i) \/ MountBuilder(i) \/ MountBuilderFails(i)
    \/ BeginRead(i) \/ PollRead(i) \/ ReadStage(i) \/ ReadImage(i)
    \/ RootfsLookup(i) \/ RootfsMake(i) \/ RootfsMakeFails(i)
    \/ Rebase(i) \/ RebaseFails(i) \/ StepFails(i) \/ FinishStage(i)
    \/ UseDeletedBuilder(i) \/ ReportError(i) \/ ReleaseToken(i)

Main ==
    \/ ReceiveSuccess \/ ReceiveError \/ ReturnError \/ ChannelClosed \/ AddTags
    \/ DeleteStages \/ DeleteRoots \/ DeleteIntermediateCtrs \/ DeleteImages
    \/ ReportImage

Finished == mpc = "returned" /\ \A i \in Stages : pc[i] = "done"
Alive == crashed = "no"

Terminated == (Finished \/ ~Alive) /\ UNCHANGED vars

Next ==
    \/ /\ Alive
       /\ \/ CancelContext \/ Dispatch \/ DispatchFails \/ Main \/ MapRace
          \/ \E i \in Stages : StageWork(i) \/ Wake(i)
    \/ Terminated

\* Every goroutine keeps running, and the semaphore serves its waiters in order
Fairness ==
    /\ WF_vars(Alive /\ Main)
    /\ SF_vars(Alive /\ (Dispatch \/ DispatchFails))
    /\ \A i \in Stages : /\ WF_vars(Alive /\ StageWork(i))
                         /\ SF_vars(Alive /\ Wake(i))

Spec == Init /\ [][Next]_vars /\ Fairness

-----------------------------------------------------------------------------
TypeOK ==
    /\ file \in Containerfiles
    /\ ctxDone \in BOOLEAN
    /\ cur \in Int
    /\ next \in 0 .. NumStages
    /\ cancel \in BOOLEAN
    /\ lastError \in BOOLEAN
    /\ ch \in Seq(Result)
    /\ pc \in [Stages -> StagePC]
    /\ todo \in [Stages -> Seq(Names)]
    /\ baseImage \in [Stages -> Images \cup {NoImage}]
    /\ made \in [Stages -> Nat]
    /\ builder \in [Stages -> Nat]
    /\ containerIDs \in [Stages -> SUBSET Nat]
    /\ stages \in SUBSET Stages
    /\ cleanupStages \in SUBSET Stages
    /\ cleanupNil \in BOOLEAN
    /\ containerMap \in [Names -> Int \X Nat]
    /\ mapNil \in BOOLEAN
    /\ label \in Int \X Nat
    /\ terminatedStage \in [Stages -> {"no", "ok", "error"}]
    /\ imageMap \in [Stages -> Images \cup {NoImage}]
    /\ cleanupImages \in Seq(Images)
    /\ mpc \in MainPC
    /\ deferred \in BOOLEAN
    /\ imageID \in Images \cup {NoImage}
    /\ outcome \in {"none", "ok", "error"}
    /\ containers \subseteq [stage : Stages, k : Nat, image : Images, label : Int \X Nat]
    /\ images \in SUBSET Images
    /\ crashed \in Crashes

-----------------------------------------------------------------------------
Holding == {i \in Stages : pc[i] \notin {"idle", "fromSleep", "readSleep", "done"}}

(***************************************************************************)
(* The semaphore's count is the number of goroutines that hold a token, so  *)
(* never more than Jobs stages are at work, although waitForStage gives     *)
(* tokens back and takes them again (executor.go:407-411, 817, 831).        *)
(***************************************************************************)
JobsBound == cur = Cardinality(Holding) /\ cur <= Jobs

(***************************************************************************)
(* No token is given back that was not taken, unless the context was        *)
(* canceled: only then does Acquire fail in waitForStage, and the release   *)
(* that the goroutine has deferred panics if no other stage holds a token   *)
(* (executor.go:409, 831).                                                  *)
(***************************************************************************)
TokensLostToCancel ==
    /\ cur <= Cardinality(Holding)
    /\ crashed = "semaphore" => ctxDone

(***************************************************************************)
(* A stage whose FROM names an earlier stage starts from the image that     *)
(* stage reported, whatever the interleaving of goroutines and main loop;   *)
(* the one exception is an earlier stage that failed, where waitForStage's  *)
(* answer (false, error) is ignored (stage_executor.go:909-918).            *)
(***************************************************************************)
BaseIsStageImage ==
    \A i \in Stages : file.base[i] # Ext /\ baseImage[i] # NoImage =>
        \/ imageMap[file.base[i]] # NoImage /\ baseImage[i] = imageMap[file.base[i]]
        \/ terminatedStage[file.base[i]] = "error"

(***************************************************************************)
(* Build returns an image only if every stage terminated without error and  *)
(* every stage with a base in the build started from that base's image: no  *)
(* failure is lost between the goroutines, the channel and the early        *)
(* returns (executor.go:883-912).                                           *)
(***************************************************************************)
SuccessIsComplete ==
    outcome = "ok" =>
        \A i \in Stages :
            /\ terminatedStage[i] = "ok"
            /\ ~Skipped(i) /\ file.base[i] # Ext =>
                    baseImage[i] = imageMap[file.base[i]] /\ baseImage[i] # NoImage

(***************************************************************************)
(* The image Build returns is in the store after both cleanups, although    *)
(* the last stage may share its image with an intermediate stage whose      *)
(* image is on the list of images to remove (executor.go:631-643).          *)
(***************************************************************************)
FinalImageKept == outcome = "ok" => imageID \in images

(***************************************************************************)
(* An image that the build did not make stays in the store.  A stage with   *)
(* nothing but a FROM reports its base image, which then is listed for      *)
(* removal; only the working container that such a stage leaves behind      *)
(* keeps it (executor.go:500, 515, 636-638).                                *)
(***************************************************************************)
ForeignImageKept == Ext \in images

\* Two stages that find no container for an image at the same time both make
\* one, and containerMap keeps only the last (stage_executor.go:864-871)
Displaced(c) ==
    /\ c.k > 1 /\ c.image = Ext
    /\ Jobs > 1 \/ ctxDone
    /\ \E n \in Names : containerMap[n][1] \in Stages \ {c.stage}

(***************************************************************************)
(* After a single-layer build, or one with --rm, no container is left of a  *)
(* stage that has instructions and whose success Build has seen, even if    *)
(* another stage failed: neither working containers, nor replaced layer     *)
(* containers, nor those made to read images, but for the ones that another *)
(* stage displaced in containerMap.  A stage that was at work when the      *)
(* cleanup passed may leave some (executor.go:596-627).                     *)
(***************************************************************************)
ContainersRemoved ==
    Finished /\ (~Layers \/ RemoveIntermediateCtrs) =>
        \A c \in containers :
            file.steps[c.stage] /\ terminatedStage[c.stage] = "ok" => Displaced(c)

(***************************************************************************)
(* Every container made to read an image is deleted by the cleanup          *)
(* (executor.go:612).                                                       *)
(***************************************************************************)
RootContainersRemoved ==
    Finished /\ outcome = "ok" => \A c \in containers : c.image = Ext => c.k = 1

(***************************************************************************)
(* No goroutine uses a builder, or the containerMap, after cleanup has set  *)
(* it to nil (stage_executor.go:425, 472, 841-847, 871; executor.go:619).   *)
(***************************************************************************)
NoUseAfterCleanup == crashed # "nil"

(***************************************************************************)
(* With one job, the stages' token keeps two goroutines out of the unlocked *)
(* maps, although goroutines outlive their polls: only the cleanup after an *)
(* error can collide with a stage, unless the context was canceled and the  *)
(* semaphore has lost count (stage_executor.go:423, 561, 864-871, 1130;     *)
(* executor.go:348, 409, 613-619, 831, 974).                                *)
(***************************************************************************)
SerialMaps == crashed = "race" => Jobs > 1 \/ outcome = "error" \/ ctxDone

(***************************************************************************)
(* b.stages is only ever used by one goroutine at a time when startStage    *)
(* adds to it (executor.go:348, CHANGELOG.md:1058).                         *)
(***************************************************************************)
NoMapRace == crashed # "race"

(***************************************************************************)
(* All containers of a build share one SELinux label, so that a stage can   *)
(* read another one's files (stage_executor.go:762-770).                    *)
(***************************************************************************)
LabelShared == \A c, d \in containers : c.label = d.label

(***************************************************************************)
(* With one job, what stages share without a lock is safe although they     *)
(* overlap: the label that is read before a container is created and        *)
(* written after it, and the maps (stage_executor.go:762-770, 1130).        *)
(***************************************************************************)
SerialSharing == LabelShared /\ SerialMaps

(***************************************************************************)
(* waitForStage tells its caller when the stage waited for has failed, so   *)
(* that no stage goes on to make a container on top of a failed base        *)
(* (executor.go:376-379).                                                   *)
(***************************************************************************)
WaitReportsFailure ==
    \A i \in Stages : pc[i] = "mount" /\ file.base[i] # Ext =>
                        terminatedStage[file.base[i]] = "ok"

(***************************************************************************)
(* A single-layer build removes its build containers whether or not a       *)
(* stage's build fails (executor.go:495-499).                               *)
(***************************************************************************)
ContainersRemovedOnFailure ==
    Finished /\ ~Layers => \A c \in containers : ~file.steps[c.stage]

(***************************************************************************)
(* Release is only ever called with a token held: otherwise the semaphore   *)
(* panics with "released more than held"                                    *)
(* (vendor/golang.org/x/sync/semaphore/semaphore.go:101-104).               *)
(***************************************************************************)
ReleaseMatchesAcquire == crashed # "semaphore"

(***************************************************************************)
(* Build returns and every goroutine ends, also when Build returned at the  *)
(* first error and nobody receives from the channel any more                *)
(* (executor.go:802, 811-881); or the process is gone.                      *)
(***************************************************************************)
Termination == <>(Finished \/ ~Alive)

-----------------------------------------------------------------------------
Reported(i, error) ==
    \/ terminatedStage[i] = IF error THEN "error" ELSE "ok"
    \/ \E n \in 1 .. Len(ch) : ch[n].index = i /\ ch[n].error = error

Phase(i) ==
    IF pc[i] \in {"sent", "done"} THEN IF Reported(i, TRUE) THEN "failed" ELSE "built"
    ELSE IF pc[i] = "erring" THEN "failed"
    ELSE IF pc[i] \in {"mount", "work", "readWait", "readSleep", "read", "rootfs", "rootMake"}
         THEN "working" ELSE "pending"

Contract == INSTANCE BuildContract WITH
    base <- [i \in Stages |-> {file.base[i]} \ {Ext}],
    needs <- [i \in Stages |-> Needs(file, i)],
    phase <- [i \in Stages |-> Phase(i)],
    verdict <- outcome

(***************************************************************************)
(* Polling, tokens, the channel and the two-part recording of errors        *)
(* implement the contract of a multi-stage build: stages begin and end in   *)
(* dependency order, and Build's answer is right (executor.go:811-912).     *)
(***************************************************************************)
ImplementsContract == Contract!Spec
=============================================================================
