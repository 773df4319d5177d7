-------------------------- MODULE StageDependencies --------------------------
(***************************************************************************)
(* Which stages a build needs, and what the references between stages mean *)
(* (imagebuildah/executor.go:665-792 before the stages run, and            *)
(* imagebuildah/stage_executor.go when they do).  The first part scans the *)
(* text of the Containerfile; the second part expands and resolves the     *)
(* same references again, each kind of instruction in its own way.         *)
(*                                                                         *)
(* A word is a number: up to MaxNumeral it is the numeral of a position,   *)
(* from there on a name.  A reference with arg = TRUE is written $V, where *)
(* V is a build argument whose value is the word.  Instructions without a  *)
(* reference are left out, and every stage has some.  Tokens, cancellation *)
(* and failing steps are in Executor.                                      *)
(***************************************************************************)
EXTENDS Naturals, Sequences

CONSTANTS
  NumStages,
  MaxNumeral,       \* largest position that is written in a Containerfile
  Words,            \* numerals, names of stages and names of images
  Files,            \* Containerfiles
  Contexts,         \* --build-context, a function from words to image names
  FromOverrides,    \* values of the --from option
  NoWord,           \* --from is not given
  LayersOptions,    \* values of the --layers option
  SkipUnusedStages  \* --skip-unused-stages

Stages == 0 .. NumStages - 1
Target == NumStages - 1
Numerals == 0 .. MaxNumeral

Reference == [kind : {"FROM", "COPY", "RUN"}, word : Words, arg : BOOLEAN]

\* The name of a stage that has none is its numeral; FROM comes first
IsContainerfile(f) ==
    /\ f.name \in [Stages -> Words]
    /\ \A j \in Stages : f.name[j] \in Numerals => f.name[j] = j
    /\ \A j, k \in Stages : j # k => f.name[j] # f.name[k]
    /\ f.refs \in [Stages -> Seq(Reference)]
    /\ \A j \in Stages : /\ f.refs[j] # << >>
                         /\ \A m \in 1 .. Len(f.refs[j]) :
                               f.refs[j][m].kind = "FROM" <=> m = 1

ASSUME DependencyAssumption ==
    /\ NumStages \in Nat \ {0} /\ MaxNumeral \in Nat /\ Target <= MaxNumeral
    /\ Words \subseteq Nat /\ Numerals \subseteq Words
    /\ DOMAIN Contexts \subseteq Words \ Numerals
    /\ \A w \in DOMAIN Contexts : Contexts[w] \in Words
    /\ NoWord \notin Words /\ FromOverrides \subseteq Words \cup {NoWord}
    /\ \A f \in Files : IsContainerfile(f)
    /\ LayersOptions \subseteq BOOLEAN /\ SkipUnusedStages \in BOOLEAN

VARIABLES
  file,             \* the Containerfile
  override,         \* value of --from
  layers,           \* value of --layers
  fromOverride,     \* Executor.fromOverride: --from until it is used
  from,             \* text of each FROM, which scanning may replace
  phase,            \* "scan", "mark", "run", "failed", "panic"
  i, n,             \* stage and reference that are scanned
  known,            \* names in dependencyMap
  needs,            \* Needs, by name
  neededByTarget,   \* names that are marked
  pending,          \* calls of markDependencyStagesForTarget still to make
  baseMap,          \* words that are used as a base
  rootfsMap,        \* texts that are read as a root file system
  stages,           \* Executor.stages: positions of the stages that started
  imageMap,         \* Executor.imageMap: names of stages that have an image
  terminatedStage,  \* positions of the stages that ended
  resolved          \* what the references of each stage were resolved to

scanned == <<fromOverride, from, i, n, known, needs, baseMap, rootfsMap>>
marked == <<neededByTarget, pending>>
running == <<stages, imageMap, terminatedStage, resolved>>
vars == <<file, override, layers, phase, scanned, marked, running>>

Text(word, arg) == [word |-> word, arg |-> arg]
NameOf(j) == file.name[j]
Ref == file.refs[i][n]

Init ==
    /\ file \in Files /\ override \in FromOverrides /\ layers \in LayersOptions
    /\ fromOverride = override
    /\ from = [j \in Stages |-> Text(file.refs[j][1].word, file.refs[j][1].arg)]
    /\ phase = "scan" /\ i = 0 /\ n = 1
    /\ known = {NameOf(0)} /\ needs = [w \in Words |-> {}]
    /\ neededByTarget = {} /\ pending = {}
    /\ baseMap = {} /\ rootfsMap = {}
    /\ stages = {} /\ imageMap = {} /\ terminatedStage = {}
    /\ resolved = [j \in Stages |-> << >>]

-----------------------------------------------------------------------------
(* Scanning the Containerfile *)

\* The next reference, or the first one of the next stage, or marking
Advance ==
    \/ /\ n < Len(file.refs[i])
       /\ n' = n + 1 /\ UNCHANGED <<i, known, phase, pending>>
    \/ /\ n = Len(file.refs[i]) /\ i < Target
       /\ i' = i + 1 /\ n' = 1 /\ known' = known \cup {NameOf(i + 1)}
       /\ UNCHANGED <<phase, pending>>
    \/ /\ n = Len(file.refs[i]) /\ i = Target
       /\ phase' = "mark" /\ pending' = {NameOf(Target)}
       /\ UNCHANGED <<i, n, known>>

\* Variant: a stage is needed although a context has its name
NeedStage(word) ==
    needs' = IF word \in known
             THEN [needs EXCEPT ![NameOf(i)] = @ \cup {word}] ELSE needs

\* The current stage needs the word, if it names a stage seen so far
AddNeed(word) ==
    needs' = IF word \notin DOMAIN Contexts /\ word \in known
             THEN [needs EXCEPT ![NameOf(i)] = @ \cup {word}] ELSE needs

ScanFrom ==
    /\ phase = "scan" /\ Ref.kind = "FROM"
    /\ LET given == IF fromOverride = NoWord THEN from[i] ELSE Text(fromOverride, FALSE)
           base == IF ~given.arg /\ given.word \in DOMAIN Contexts
                   THEN Text(Contexts[given.word], FALSE) ELSE given
       IN /\ from' = [from EXCEPT ![i] = base]
          /\ baseMap' = baseMap \cup {base.word}
          /\ AddNeed(base.word)
    /\ fromOverride' = NoWord /\ Advance
    /\ UNCHANGED <<file, override, layers, neededByTarget, rootfsMap, running>>

\* --from=<index> is converted to the name of that stage
StageNameOf(word) == IF word \in Stages THEN NameOf(word) ELSE word

\* stages[index] is out of range
Panic ==
    /\ phase' = "panic"
    /\ UNCHANGED <<file, override, layers, scanned, marked, running>>

OutOfRange(word) == word \in Numerals \ Stages

\* An argument is not expanded here, and $V is not the name of a stage
ScanCopy ==
    /\ phase = "scan" /\ Ref.kind = "COPY"
    /\ Ref.arg \/ ~OutOfRange(Ref.word)
    /\ rootfsMap' = rootfsMap \cup {Text(Ref.word, Ref.arg)}
    /\ IF Ref.arg THEN UNCHANGED needs ELSE AddNeed(StageNameOf(Ref.word))
    /\ Advance
    /\ UNCHANGED <<file, override, layers, fromOverride, from, baseMap, neededByTarget, running>>

ScanCopyPanics ==
    /\ phase = "scan" /\ Ref.kind = "COPY" /\ ~Ref.arg /\ OutOfRange(Ref.word)
    /\ Panic

ScanRun ==
    /\ phase = "scan" /\ Ref.kind = "RUN"
    /\ IF ~Ref.arg /\ Ref.word \in DOMAIN Contexts THEN UNCHANGED rootfsMap
       ELSE rootfsMap' = rootfsMap \cup {Text(Ref.word, Ref.arg)}
    /\ IF Ref.arg THEN UNCHANGED needs ELSE AddNeed(Ref.word)
    /\ Advance
    /\ UNCHANGED <<file, override, layers, fromOverride, from, baseMap, neededByTarget, running>>

-----------------------------------------------------------------------------
(* Marking what the target needs; the order of the calls does not matter *)

\* Variant: only what the target itself needs
DirectNeeds(name) == IF name = NameOf(Target) THEN needs[name] ELSE {}

NeedsOf(name) == needs[name]

markDependencyStagesForTarget(name) ==
    /\ phase = "mark" /\ name \in pending
    /\ IF name \in known /\ name \notin neededByTarget
       THEN /\ neededByTarget' = neededByTarget \cup {name}
            /\ pending' = (pending \ {name}) \cup NeedsOf(name)
       ELSE /\ pending' = pending \ {name}
            /\ UNCHANGED neededByTarget
    /\ UNCHANGED <<file, override, layers, phase, scanned, running>>

StartRunning ==
    /\ phase = "mark" /\ pending = {} /\ phase' = "run"
    /\ UNCHANGED <<file, override, layers, scanned, marked, running>>

-----------------------------------------------------------------------------
(* The stages run, each in its own goroutine *)

At(j) == file.refs[j][Len(resolved[j]) + 1]

SkipStage(j) ==
    /\ phase = "run" /\ j \notin stages \cup terminatedStage
    /\ SkipUnusedStages /\ NameOf(j) \notin neededByTarget
    /\ terminatedStage' = terminatedStage \cup {j}
    /\ UNCHANGED <<file, override, layers, phase, scanned, marked, stages, imageMap, resolved>>

startStage(j) ==
    /\ phase = "run" /\ j \notin stages \cup terminatedStage
    /\ NameOf(j) \in neededByTarget \/ ~SkipUnusedStages
    /\ stages' = stages \cup {j}
    /\ UNCHANGED <<file, override, layers, phase, scanned, marked, imageMap, terminatedStage, resolved>>

\* Variant: all stages are searched, not only the earlier ones
SearchAllStages(j) == Stages

\* The stages that waitForStage searches when stage j calls it
EarlierStages(j) == {k \in Stages : k < j}

\* Stages that the word names, by name or by position
NamedBy(word, S) == {k \in S : NameOf(k) = word \/ k = word}

\* waitForStage returns at once if no stage has that name
waitForStage(j, word) == NamedBy(word, EarlierStages(j)) \subseteq terminatedStage

\* Variant: only a reference by name counts
UsedByName(j) == j < Target /\ Text(NameOf(j), FALSE) \in rootfsMap

rootfsIsUsedLater(j) ==
    j < Target /\ \E w \in {NameOf(j), j} : Text(w, FALSE) \in rootfsMap

imageIsUsedLater(j) ==
    j < Target /\ \E w \in {NameOf(j), j} : w \in baseMap

\* A root file system is complete unless the last step may have been taken
\* from the cache without the container being replaced
StageResult(k, complete) == [kind |-> "stage", of |-> k, complete |-> complete]
Image(word) == [kind |-> "image", of |-> word, complete |-> TRUE]

Resolve(j, result) ==
    /\ resolved' = [resolved EXCEPT ![j] = Append(@, result)]
    /\ UNCHANGED <<file, override, layers, phase, scanned, marked, stages, imageMap, terminatedStage>>

InStage(j) ==
    /\ phase = "run" /\ j \in stages \ terminatedStage
    /\ Len(resolved[j]) < Len(file.refs[j])

\* imageMap has the names of stages only, and of whichever stages have ended
ExecuteFrom(j) ==
    /\ InStage(j) /\ At(j).kind = "FROM"
    /\ LET base == from[j].word
       IN /\ waitForStage(j, base)
          /\ Resolve(j, IF base \in imageMap
                        THEN StageResult(CHOOSE k \in Stages : NameOf(k) = base, TRUE)
                        ELSE Image(base))

\* The started stages that Executor.stages has under this word
StartedBefore(j, word) == {k \in NamedBy(word, stages) : k < j}

ReadStage(k) == StageResult(k, ~layers \/ rootfsIsUsedLater(k))

\* Stage or image that a word means when stage j reads files from it
StageOrImage(j, word) ==
    IF StartedBefore(j, word) # {}
    THEN ReadStage(CHOOSE k \in StartedBefore(j, word) : TRUE)
    ELSE Image(word)

\* An index is converted to a name before contexts and stages are searched
CopyFrom(j) ==
    /\ InStage(j) /\ At(j).kind = "COPY" /\ ~OutOfRange(At(j).word)
    /\ LET name == StageNameOf(At(j).word)
       IN IF name \in DOMAIN Contexts THEN Resolve(j, Image(Contexts[name]))
          ELSE /\ waitForStage(j, name)
               /\ StartedBefore(j, name) # {} \/ name = At(j).word
               /\ Resolve(j, StageOrImage(j, name))

\* An index that leads to no stage: the container is kept under the stage's
\* name and looked up under the index
CopyFails(j) ==
    /\ InStage(j) /\ At(j).kind = "COPY" /\ ~OutOfRange(At(j).word)
    /\ LET name == StageNameOf(At(j).word)
       IN /\ name \notin DOMAIN Contexts
          /\ waitForStage(j, name)
          /\ StartedBefore(j, name) = {} /\ name # At(j).word
    /\ phase' = "failed"
    /\ UNCHANGED <<file, override, layers, scanned, marked, running>>

\* s.stages[index] in Execute
CopyPanics(j) ==
    /\ InStage(j) /\ At(j).kind = "COPY" /\ OutOfRange(At(j).word)
    /\ Panic

runStageMountPoints(j) ==
    /\ InStage(j) /\ At(j).kind = "RUN"
    /\ LET word == At(j).word
       IN IF word \in DOMAIN Contexts THEN Resolve(j, Image(Contexts[word]))
          ELSE waitForStage(j, word) /\ Resolve(j, StageOrImage(j, word))

\* The stage sleeps and looks again
Poll(j) ==
    /\ InStage(j)
    /\ ~waitForStage(j, CASE At(j).kind = "FROM" -> from[j].word
                          [] At(j).kind = "COPY" -> StageNameOf(At(j).word)
                          [] At(j).kind = "RUN" -> At(j).word)
    /\ UNCHANGED vars

\* The stage ends and Build records its result.  A stage of a build without
\* layers has an image only if a later stage is based on it.
FinishStage(j) ==
    /\ phase = "run" /\ j \in stages \ terminatedStage
    /\ Len(resolved[j]) = Len(file.refs[j])
    /\ terminatedStage' = terminatedStage \cup {j}
    /\ imageMap' = IF j < Target /\ (layers \/ imageIsUsedLater(j))
                   THEN imageMap \cup {NameOf(j)} ELSE imageMap
    /\ UNCHANGED <<file, override, layers, phase, scanned, marked, stages, resolved>>

Work(j) ==
    \/ SkipStage(j) \/ startStage(j) \/ ExecuteFrom(j) \/ CopyFrom(j) \/ CopyFails(j)
    \/ CopyPanics(j) \/ runStageMountPoints(j) \/ Poll(j) \/ FinishStage(j)

Prepare ==
    \/ ScanFrom \/ ScanCopy \/ ScanCopyPanics \/ ScanRun
    \/ \E name \in Words : markDependencyStagesForTarget(name)
    \/ StartRunning

\* The build is over
Over ==
    /\ phase \in {"failed", "panic"} \/ terminatedStage = Stages
    /\ UNCHANGED vars

Next == Prepare \/ (\E j \in Stages : Work(j)) \/ Over

\* Every goroutine that can go on does
Spec ==
    /\ Init /\ [][Next]_vars
    /\ WF_vars(Prepare) /\ \A j \in Stages : WF_vars(Work(j))

-----------------------------------------------------------------------------
(* Properties *)

\* The state of scanning, marking and running has the types of the code's maps
TypeOK ==
    /\ IsContainerfile(file) /\ override \in FromOverrides /\ layers \in LayersOptions
    /\ fromOverride \in {override, NoWord}
    /\ from \in [Stages -> [word : Words, arg : BOOLEAN]]
    /\ phase \in {"scan", "mark", "run", "failed", "panic"}
    /\ i \in Stages /\ n \in 1 .. Len(file.refs[i])
    /\ known \subseteq Words /\ neededByTarget \subseteq known /\ pending \subseteq known
    /\ needs \in [Words -> SUBSET known]
    /\ baseMap \subseteq Words /\ rootfsMap \subseteq [word : Words, arg : BOOLEAN]
    /\ stages \subseteq Stages /\ terminatedStage \subseteq Stages
    /\ imageMap \subseteq {NameOf(j) : j \in Stages}
    /\ \A j \in Stages : Len(resolved[j]) <= Len(file.refs[j])

\* Reference m of stage j of Containerfile f with --from o
GivenText(f, o, j, m) ==
    IF j = 0 /\ m = 1 /\ o # NoWord THEN Text(o, FALSE)
    ELSE Text(f.refs[j][m].word, f.refs[j][m].arg)

\* The earlier stages that it names, by name or by position
NamedEarlier(f, o, j, m) ==
    {k \in Stages : k < j /\ GivenText(f, o, j, m).word \in {f.name[k], k}}

\* What it means by the manual: a build context, else an earlier stage, else an
\* image
Meaning(f, o, j, m) ==
    LET word == GivenText(f, o, j, m).word
        named == NamedEarlier(f, o, j, m)
        name == IF named = {} THEN word ELSE f.name[CHOOSE k \in named : TRUE]
    IN IF word \in DOMAIN Contexts THEN Image(Contexts[word])
       ELSE IF name \in DOMAIN Contexts THEN Image(Contexts[name])
       ELSE IF named = {} THEN Image(word)
       ELSE StageResult(CHOOSE k \in named : TRUE, TRUE)

Denotes(j, m) == Meaning(file, override, j, m)

\* Whatever is skipped, reused from the cache or run at the same time, the
\* FROM, COPY --from and RUN --mount of a stage use the build context, the
\* finished stage or the image that the manual says they name
\* (docs/buildah-build.1.md:91-95).
ReferencesDenote ==
    \A j \in Stages : \A m \in 1 .. Len(resolved[j]) : resolved[j][m] = Denotes(j, m)

\* No build context leads to a word that is the name of a stage
ContextsApart(f) == \A w \in DOMAIN Contexts, k \in Stages : f.name[k] # Contexts[w]

\* The forms of a reference that scanning and running resolve alike.  FROM: no
\* context by an argument, and no later stage's name.  COPY and RUN: no stage by
\* an argument.  COPY: an index of the stage itself or of a later one only when
\* no context has that stage's name.  FROM and RUN: an index only of a stage
\* without a name.
ResolvedAlike(f, o) ==
    \A j \in Stages : \A m \in 1 .. Len(f.refs[j]) :
        LET kind == f.refs[j][m].kind
            text == GivenText(f, o, j, m)
            earlier == NamedEarlier(f, o, j, m)
        IN /\ kind = "FROM" => /\ text.arg => text.word \notin DOMAIN Contexts
                               /\ \A k \in Stages : k > j => f.name[k] # text.word
           /\ kind # "FROM" /\ text.arg => earlier = {}
           /\ kind = "COPY" => \A k \in Stages : k = text.word /\ k >= j => f.name[k] \notin DOMAIN Contexts
           /\ kind # "COPY" => \A k \in earlier : f.name[k] = text.word

\* Stages that some reference of stage j means
Uses(j) ==
    {k \in Stages : \E m \in 1 .. Len(file.refs[j]) : Denotes(j, m) = StageResult(k, TRUE)}

\* A stage that runs affects the target: it is in every set that has the target
\* and what its members use (docs/buildah-build.1.md:707, executor.go:846-858).
UnusedStagesSkipped ==
    SkipUnusedStages =>
        \A j \in stages, S \in SUBSET Stages :
            Target \in S /\ (\A k \in S : Uses(k) \subseteq S) => j \in S

\* Once marking is over the marked stages are closed under Needs, so no stage
\* that runs waits for the result of one that was skipped
\* (markDependencyStagesForTarget).
NeedsMarked ==
    phase = "run" => \A name \in neededByTarget : needs[name] \subseteq neededByTarget

\* No stage waits forever, in particular not for itself or for a later stage
\* that has its base's name (waitForStage gets s.stages[:s.index]).
BuildEnds == <>(phase \in {"failed", "panic"} \/ terminatedStage = Stages)
=============================================================================
