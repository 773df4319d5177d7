---------------------- MODULE StageDependenciesProofs ----------------------
(***************************************************************************)
(* Whatever the Containerfile says, the stages that are marked as needed   *)
(* are closed under what they need when the stages start to run, and no    *)
(* stage runs that does not affect the target. In Containerfiles whose     *)
(* references have forms that scanning and running resolve alike, each     *)
(* reference leads to what the manual says it names.                       *)
(*                                                                         *)
(* Inv is about marking. ProgressInv and RecordInv say what the scan has   *)
(* recorded so far, RunInv which stages run and have an image, ClosedInv   *)
(* that only used stages are marked; ResolveInv follows from all of them.  *)
(***************************************************************************)
EXTENDS StageDependencies, TLAPS

\* What scanning keeps: the current stage has an entry in dependencyMap, and
\* Needs has only names that have one
ScanInv ==
    /\ file \in Files
    /\ i \in Stages /\ NameOf(i) \in known
    /\ known \subseteq Words
    /\ needs \in [Words -> SUBSET known]

\* What marking keeps: what a marked stage needs is marked or still to be marked
MarkInv ==
    /\ phase = "scan" => neededByTarget = {} /\ pending = {}
    /\ phase = "run" => pending = {}
    /\ pending \subseteq known /\ neededByTarget \subseteq known
    /\ \A name \in neededByTarget : needs[name] \subseteq neededByTarget \cup pending

Inv == ScanInv /\ MarkInv

\* Every stage of every Containerfile has a name that is a word
LEMMA NamesAreWords ==
    ASSUME file \in Files PROVE \A j \in Stages : NameOf(j) \in Words
BY DependencyAssumption DEF IsContainerfile, NameOf

\* The first and the last stage are stages
LEMMA StageBounds == 0 \in Stages /\ Target \in Stages
BY DependencyAssumption DEF Stages, Target

\* Entries of dependencyMap are made before anything can need them
LEMMA InitInv == Init => Inv
<1> SUFFICES ASSUME Init PROVE Inv
  OBVIOUS
<1>1. file \in Files /\ i = 0 /\ known = {NameOf(0)} /\ needs = [w \in Words |-> {}]
  BY DEF Init
<1>2. ScanInv
  BY <1>1, NamesAreWords, StageBounds DEF ScanInv
<1>3. MarkInv
  BY DEF Init, MarkInv
<1> QED
  BY <1>2, <1>3 DEF Inv

\* A step of the scan adds a need only for a stage that has an entry, and
\* marking begins with the target's entry
LEMMA ScanStep ==
    ASSUME Inv, phase = "scan", NEW word, AddNeed(word) \/ UNCHANGED needs,
           Advance, UNCHANGED <<file, neededByTarget>>
    PROVE  Inv'
<1> USE DEF Inv
<1>1. needs' \in [Words -> SUBSET known]
  BY DEF AddNeed, ScanInv
<1>2. /\ known \subseteq known' /\ known' \subseteq Words
      /\ i' \in Stages /\ NameOf(i)' \in known'
      /\ pending' \subseteq known
      /\ phase' = "scan" => pending' = {}
      /\ phase' # "run"
  <2>1. CASE UNCHANGED <<i, known, phase, pending>>
    BY <2>1 DEF ScanInv, MarkInv, NameOf
  <2>2. CASE i < Target /\ i' = i + 1 /\ known' = known \cup {NameOf(i + 1)}
             /\ UNCHANGED <<phase, pending>>
    <3>1. i + 1 \in Stages
      BY <2>2, DependencyAssumption DEF ScanInv, Stages, Target
    <3> QED BY <2>2, <3>1, NamesAreWords DEF ScanInv, MarkInv, NameOf
  <2>3. CASE i = Target /\ phase' = "mark" /\ pending' = {NameOf(Target)}
             /\ UNCHANGED <<i, known>>
    BY <2>3 DEF ScanInv, MarkInv, NameOf
  <2> QED
    BY <2>1, <2>2, <2>3 DEF Advance
<1>3. ScanInv'
  BY <1>1, <1>2 DEF ScanInv
<1>4. MarkInv'
  BY <1>2 DEF MarkInv
<1> QED
  BY <1>3, <1>4

\* A call for one name marks it and leaves calls for what it needs, or finds
\* it marked already
LEMMA MarkStep ==
    ASSUME Inv, NEW name \in Words, markDependencyStagesForTarget(name)
    PROVE  Inv'
<1> USE DEF Inv
<1>1. /\ phase = "mark" /\ name \in pending /\ phase' = phase
      /\ UNCHANGED <<file, i, known, needs>>
  BY DEF markDependencyStagesForTarget, scanned
<1>2. ScanInv'
  BY <1>1 DEF ScanInv, NameOf
<1>3. name \in known /\ needs[name] \subseteq known
  BY <1>1 DEF ScanInv, MarkInv
<1>4. CASE name \notin neededByTarget
  <2>1. /\ neededByTarget' = neededByTarget \cup {name}
        /\ pending' = (pending \ {name}) \cup needs[name]
    BY <1>3, <1>4 DEF markDependencyStagesForTarget, NeedsOf
  <2> QED BY <1>1, <1>2, <1>3, <2>1 DEF MarkInv
<1>5. CASE name \in neededByTarget
  <2>1. neededByTarget' = neededByTarget /\ pending' = pending \ {name}
    BY <1>5 DEF markDependencyStagesForTarget
  <2> QED BY <1>1, <1>2, <1>5, <2>1 DEF MarkInv
<1> QED
  BY <1>4, <1>5

\* Steps that leave the maps alone, and only leave or end a phase
LEMMA OtherStep ==
    ASSUME Inv, UNCHANGED <<file, scanned, marked>>,
           phase' \in {phase, "failed", "panic"} \/ (phase' = "run" /\ pending = {})
    PROVE  Inv'
BY DEF Inv, ScanInv, MarkInv, scanned, marked, NameOf

\* What runs leaves what was scanned and marked alone
LEMMA WorkStep ==
    ASSUME Inv, NEW j \in Stages, Work(j)
    PROVE  Inv'
<1>1. UNCHANGED <<file, scanned, marked>> /\ phase' \in {phase, "failed", "panic"}
  BY DEF Work, SkipStage, startStage, ExecuteFrom, CopyFrom, CopyFails, CopyPanics,
         runStageMountPoints, Poll, FinishStage, Resolve, Panic, vars
<1> QED
  BY <1>1, OtherStep

\* Every step keeps what marking needs
LEMMA NextInv ==
    ASSUME Inv, [Next]_vars
    PROVE  Inv'
<1>1. CASE ScanFrom
  <2>1. \E word : AddNeed(word)
    BY <1>1 DEF ScanFrom
  <2> QED BY <1>1, <2>1, ScanStep DEF ScanFrom
<1>2. CASE ScanCopy
  <2>1. AddNeed(StageNameOf(Ref.word)) \/ UNCHANGED needs
    BY <1>2 DEF ScanCopy
  <2> QED BY <1>2, <2>1, ScanStep DEF ScanCopy
<1>3. CASE ScanRun
  <2>1. AddNeed(Ref.word) \/ UNCHANGED needs
    BY <1>3 DEF ScanRun
  <2> QED BY <1>3, <2>1, ScanStep DEF ScanRun
<1>4. CASE ScanCopyPanics
  BY <1>4, OtherStep DEF ScanCopyPanics, Panic
<1>5. CASE \E name \in Words : markDependencyStagesForTarget(name)
  BY <1>5, MarkStep
<1>6. CASE StartRunning
  BY <1>6, OtherStep DEF StartRunning
<1>7. CASE \E j \in Stages : Work(j)
  BY <1>7, WorkStep
<1>8. CASE UNCHANGED vars
  BY <1>8, OtherStep DEF vars
<1> QED
  BY <1>1, <1>2, <1>3, <1>4, <1>5, <1>6, <1>7, <1>8 DEF Next, Prepare, Over

-----------------------------------------------------------------------------
(* What the scan has recorded *)

NamesUpTo(j) == {NameOf(k) : k \in {l \in Stages : l <= j}}

\* The word that scanning looks up among the stages for reference m of stage j
BaseText(j) ==
    LET given == GivenText(file, override, j, 1)
    IN IF ~given.arg /\ given.word \in DOMAIN Contexts
       THEN Text(Contexts[given.word], FALSE) ELSE given

Looked(j, m) ==
    CASE file.refs[j][m].kind = "FROM" -> BaseText(j).word
      [] file.refs[j][m].kind = "COPY" -> StageNameOf(file.refs[j][m].word)
      [] OTHER -> file.refs[j][m].word

\* Scanning makes the stage need that word
Needed(j, m) ==
    /\ file.refs[j][m].kind = "FROM" \/ ~file.refs[j][m].arg
    /\ Looked(j, m) \notin DOMAIN Contexts /\ Looked(j, m) \in NamesUpTo(j)

Scanned(j, m) ==
    \/ phase \in {"mark", "run"}
    \/ phase = "scan" /\ (j < i \/ (j = i /\ m < n))

\* What scanning has left of a reference
Noted(j, m) ==
    LET text == Text(file.refs[j][m].word, file.refs[j][m].arg)
    IN CASE file.refs[j][m].kind = "FROM" -> from[j] = BaseText(j) /\ BaseText(j).word \in baseMap
         [] file.refs[j][m].kind = "COPY" -> text \in rootfsMap
         [] OTHER -> text \in rootfsMap \/ text.word \in DOMAIN Contexts

Recorded(j, m) == Noted(j, m) /\ (Needed(j, m) => Looked(j, m) \in needs[NameOf(j)])

\* How far the scan is, and what it still has before it
ProgressInv ==
    /\ override \in FromOverrides /\ from \in [Stages -> [word : Words, arg : BOOLEAN]]
    /\ n \in 1 .. Len(file.refs[i]) /\ known = NamesUpTo(i)
    /\ phase \in {"mark", "run"} => i = Target
    /\ phase = "scan" =>
         /\ fromOverride = IF i = 0 /\ n = 1 THEN override ELSE NoWord
         /\ \A j \in Stages : ~Scanned(j, 1) =>
              from[j] = Text(file.refs[j][1].word, file.refs[j][1].arg)

\* Every reference that was scanned is recorded, and nothing else is needed
RecordInv ==
    /\ \A j \in Stages : \A m \in 1 .. Len(file.refs[j]) : Scanned(j, m) => Recorded(j, m)
    /\ \A j \in Stages : \A w \in needs[NameOf(j)] :
         \E m \in 1 .. Len(file.refs[j]) : Needed(j, m) /\ w = Looked(j, m)

\* Which stages run, and which have an image
RunInv ==
    /\ phase \in {"scan", "mark"} => stages = {} /\ terminatedStage = {}
    /\ stages \subseteq Stages /\ terminatedStage \subseteq Stages
    /\ \A j \in stages : NameOf(j) \in neededByTarget \/ ~SkipUnusedStages
    /\ \A j \in terminatedStage \ stages : SkipUnusedStages /\ NameOf(j) \notin neededByTarget
    /\ \A w \in imageMap : \E k \in stages \cap terminatedStage : w = NameOf(k) /\ k < Target
    /\ \A k \in stages \cap terminatedStage :
         k < Target /\ (layers \/ imageIsUsedLater(k)) => NameOf(k) \in imageMap

Results == [kind : {"stage", "image"}, of : Nat, complete : BOOLEAN]

ResolveInv ==
    /\ resolved \in [Stages -> Seq(Results)]
    /\ ContextsApart(file) /\ ResolvedAlike(file, override) => ReferencesDenote

\* What is marked is in every set of stages that has the target and what its
\* members use
ClosedInv ==
    ContextsApart(file) =>
        \A S \in SUBSET Stages : Target \in S /\ (\A k \in S : Uses(k) \subseteq S) =>
            neededByTarget \cup pending \subseteq {NameOf(k) : k \in S}

AllInv == Inv /\ ProgressInv /\ RecordInv /\ RunInv /\ ResolveInv /\ ClosedInv

\* What a Containerfile is
LEMMA FileFacts ==
    ASSUME file \in Files
    PROVE  /\ \A j \in Stages : NameOf(j) \in Words /\ (NameOf(j) \in Numerals => NameOf(j) = j)
           /\ \A j, k \in Stages : j # k => NameOf(j) # NameOf(k)
           /\ \A j \in Stages : /\ file.refs[j] \in Seq(Reference) /\ Len(file.refs[j]) \in Nat
                                /\ 1 <= Len(file.refs[j])
           /\ \A j \in Stages : \A m \in 1 .. Len(file.refs[j]) :
                /\ file.refs[j][m].kind \in {"FROM", "COPY", "RUN"}
                /\ file.refs[j][m].word \in Words /\ file.refs[j][m].arg \in BOOLEAN
                /\ file.refs[j][m].kind = "FROM" <=> m = 1
<1>1. IsContainerfile(file)
  BY DependencyAssumption
<1>2. \A j \in Stages : file.refs[j] \in Seq(Reference) /\ file.refs[j] # << >>
  BY <1>1 DEF IsContainerfile
<1>3. ASSUME NEW j \in Stages
      PROVE  /\ Len(file.refs[j]) \in Nat /\ 1 <= Len(file.refs[j])
             /\ \A m \in 1 .. Len(file.refs[j]) : file.refs[j][m] \in Reference
  BY <1>2
<1>4. ASSUME NEW r \in Reference
      PROVE  r.kind \in {"FROM", "COPY", "RUN"} /\ r.word \in Words /\ r.arg \in BOOLEAN
  BY DEF Reference
<1>5. \A j \in Stages : \A m \in 1 .. Len(file.refs[j]) : file.refs[j][m].kind = "FROM" <=> m = 1
  BY <1>1 DEF IsContainerfile
<1>6. \A j \in Stages : NameOf(j) \in Words /\ (NameOf(j) \in Numerals => NameOf(j) = j)
  BY <1>1 DEF IsContainerfile, NameOf
<1>7. \A j, k \in Stages : j # k => NameOf(j) # NameOf(k)
  BY <1>1 DEF IsContainerfile, NameOf
<1> QED
  BY <1>2, <1>3, <1>4, <1>5, <1>6, <1>7

\* A position is a numeral, and no context has a numeral for its name
LEMMA Positions ==
    /\ Stages \subseteq Numerals /\ Stages \subseteq Nat /\ Numerals \subseteq Words
    /\ \A w \in DOMAIN Contexts : w \in Words /\ w \notin Numerals /\ w \notin Stages
BY DependencyAssumption DEF Stages, Numerals, Target

\* A word names one stage at most
LEMMA UniqueStage ==
    ASSUME file \in Files, NEW k \in Stages, NEW l \in Stages, NEW word,
           word \in {NameOf(k), k}, word \in {NameOf(l), l}
    PROVE  k = l
BY FileFacts, Positions

\* The meanings of a reference: a context, an image, a stage
Meant(j, m, word) ==
    /\ word \in DOMAIN Contexts => Denotes(j, m) = Image(Contexts[word])
    /\ word \notin DOMAIN Contexts /\ (\A k \in Stages : k < j => word \notin {NameOf(k), k}) =>
         Denotes(j, m) = Image(word)
    /\ \A k \in Stages : word \notin DOMAIN Contexts /\ k < j /\ word \in {NameOf(k), k} =>
         Denotes(j, m) = IF NameOf(k) \in DOMAIN Contexts THEN Image(Contexts[NameOf(k)])
                         ELSE StageResult(k, TRUE)

\* The manual gives each reference one of them
LEMMA Denoted ==
    ASSUME file \in Files, NEW j \in Stages, NEW m, NEW word,
           word = GivenText(file, override, j, m).word
    PROVE  Meant(j, m, word)
<1> DEFINE named == NamedEarlier(file, override, j, m)
           name == IF named = {} THEN word ELSE NameOf(CHOOSE k \in named : TRUE)
<1>0. Denotes(j, m) = IF word \in DOMAIN Contexts THEN Image(Contexts[word])
                      ELSE IF name \in DOMAIN Contexts THEN Image(Contexts[name])
                      ELSE IF named = {} THEN Image(word)
                      ELSE StageResult(CHOOSE k \in named : TRUE, TRUE)
  BY Zenon DEF Denotes, Meaning, NameOf
<1>1. \A k : k \in named <=> k \in Stages /\ k < j /\ word \in {NameOf(k), k}
  BY Zenon DEF NamedEarlier, NameOf
<1> HIDE DEF named
<1>2. CASE word \in DOMAIN Contexts
  BY Zenon, <1>0, <1>2 DEF Meant
<1>3. CASE word \notin DOMAIN Contexts
  <2>1. ASSUME \A k \in Stages : k < j => word \notin {NameOf(k), k} PROVE Denotes(j, m) = Image(word)
    <3>1. named = {}
      BY Zenon, <1>1, <2>1
    <3> QED
      BY Zenon, <1>0, <1>3, <3>1
  <2>2. ASSUME NEW k \in Stages, k < j, word \in {NameOf(k), k}
        PROVE  Denotes(j, m) = IF NameOf(k) \in DOMAIN Contexts THEN Image(Contexts[NameOf(k)])
                               ELSE StageResult(k, TRUE)
    <3>1. k \in named
      BY Zenon, <1>1, <2>2
    <3>2. (CHOOSE l \in named : TRUE) = k
      <4>1. (CHOOSE l \in named : TRUE) \in named
        BY Zenon, <3>1
      <4> QED
        BY Zenon, <4>1, <1>1, <2>2, UniqueStage
    <3>3. named # {}
      BY Zenon, <3>1
    <3> QED
      BY Zenon, <1>0, <1>3, <3>2, <3>3
  <2> QED
    BY Zenon, <1>3, <2>1, <2>2 DEF Meant
<1> QED
  BY Zenon, <1>2, <1>3

\* What a reference is, does not change
LEMMA FixedFile ==
    ASSUME UNCHANGED <<file, override>>
    PROVE  /\ \A j : NameOf(j)' = NameOf(j) /\ NamesUpTo(j)' = NamesUpTo(j) /\ BaseText(j)' = BaseText(j)
           /\ \A j, m : /\ Looked(j, m)' = Looked(j, m) /\ (Needed(j, m)' <=> Needed(j, m))
                        /\ Denotes(j, m)' = Denotes(j, m)
           /\ \A j : Uses(j)' = Uses(j)
<1>1. \A j : NameOf(j)' = NameOf(j)
  BY DEF NameOf
<1>2. \A j : NamesUpTo(j)' = NamesUpTo(j)
  BY Zenon DEF NamesUpTo, NameOf
<1>3. \A j : BaseText(j)' = BaseText(j)
  BY Zenon DEF BaseText
<1>4. \A j, m : Looked(j, m)' = Looked(j, m)
  BY Zenon, <1>3 DEF Looked, StageNameOf, NameOf
<1>5. \A j, m : Needed(j, m)' <=> Needed(j, m)
  BY Zenon, <1>2, <1>4 DEF Needed
<1>6. \A j, m : Denotes(j, m)' = Denotes(j, m)
  BY Zenon DEF Denotes
<1>7. \A j : Uses(j)' = Uses(j)
  BY Zenon, <1>6 DEF Uses
<1> QED
  BY Zenon, <1>1, <1>2, <1>3, <1>4, <1>5, <1>6, <1>7

\* The scan goes through the references in order
LEMMA AdvanceOn ==
    ASSUME Inv, ProgressInv, phase = "scan", Advance, UNCHANGED <<file, override>>
    PROVE  /\ i' \in Stages /\ n' \in 1 .. Len(file.refs[i']) /\ known' = NamesUpTo(i')
           /\ phase' \in {"scan", "mark"} /\ (phase' = "mark" => i' = Target)
           /\ phase' = "scan" => i' # 0 \/ n' # 1
           /\ \A j \in Stages : \A m \in 1 .. Len(file.refs[j]) :
                Scanned(j, m)' <=> Scanned(j, m) \/ (j = i /\ m = n)
<1>0. /\ i \in Stages /\ n \in 1 .. Len(file.refs[i]) /\ known = NamesUpTo(i) /\ file \in Files
      /\ \A j \in Stages : Len(file.refs[j]) \in Nat /\ 1 <= Len(file.refs[j])
      /\ NumStages \in Nat /\ i \in Nat /\ n \in Nat
  BY FileFacts, DependencyAssumption DEF Inv, ScanInv, ProgressInv, Stages
<1>1. CASE n < Len(file.refs[i]) /\ n' = n + 1 /\ UNCHANGED <<i, known, phase, pending>>
  BY <1>0, <1>1 DEF Scanned, Stages
<1>2. CASE /\ n = Len(file.refs[i]) /\ i < Target
           /\ i' = i + 1 /\ n' = 1 /\ known' = known \cup {NameOf(i + 1)} /\ UNCHANGED <<phase, pending>>
  <2>1. known' = NamesUpTo(i + 1)
    <3>1. \A l \in Stages : l <= i + 1 <=> l <= i \/ l = i + 1
      BY <1>0 DEF Stages
    <3>2. i + 1 \in Stages
      BY <1>0, <1>2 DEF Stages, Target
    <3> QED
      BY <1>0, <1>2, <3>1, <3>2 DEF NamesUpTo
  <2> QED
    BY <1>0, <1>2, <2>1 DEF Scanned, Stages, Target
<1>3. CASE /\ n = Len(file.refs[i]) /\ i = Target
           /\ phase' = "mark" /\ pending' = {NameOf(Target)} /\ UNCHANGED <<i, n, known>>
  BY <1>0, <1>3 DEF Scanned, Stages, Target
<1> QED
  BY Zenon, <1>1, <1>2, <1>3 DEF Advance

\* A reference that is scanned is recorded, and the others stay recorded
LEMMA ScanRecords ==
    ASSUME Inv, ProgressInv, RecordInv, phase = "scan", Advance, UNCHANGED <<file, override>>,
           fromOverride' = NoWord, from' \in [Stages -> [word : Words, arg : BOOLEAN]],
           \A j \in Stages : j # i \/ n # 1 => from'[j] = from[j],
           baseMap \subseteq baseMap', rootfsMap \subseteq rootfsMap',
           \A j, m : j = i /\ m = n => Noted(j, m)',
           needs' = IF Needed(i, n) THEN [needs EXCEPT ![NameOf(i)] = @ \cup {Looked(i, n)}] ELSE needs
    PROVE  ProgressInv' /\ RecordInv'
<1>0. /\ i \in Stages /\ n \in 1 .. Len(file.refs[i]) /\ file \in Files
      /\ needs \in [Words -> SUBSET known] /\ NameOf(i) \in Words
  BY FileFacts DEF Inv, ScanInv, ProgressInv
<1>1. /\ i' \in Stages /\ n' \in 1 .. Len(file.refs[i']) /\ known' = NamesUpTo(i')
      /\ phase' \in {"scan", "mark"} /\ (phase' = "mark" => i' = Target)
      /\ phase' = "scan" => i' # 0 \/ n' # 1
      /\ \A j \in Stages : \A m \in 1 .. Len(file.refs[j]) :
           Scanned(j, m)' <=> Scanned(j, m) \/ (j = i /\ m = n)
  BY Zenon, AdvanceOn
<1>2. /\ \A j : NameOf(j)' = NameOf(j) /\ BaseText(j)' = BaseText(j)
      /\ \A j, m : Looked(j, m)' = Looked(j, m) /\ (Needed(j, m)' <=> Needed(j, m))
  BY Zenon, FixedFile
<1>3. \A j \in Stages : 1 \in 1 .. Len(file.refs[j])
  BY <1>0, FileFacts
<1>4. ProgressInv'
  <2>1. known' = NamesUpTo(i)'
    BY Zenon, <1>1 DEF NamesUpTo, NameOf
  <2>2. ASSUME NEW j \in Stages, ~Scanned(j, 1)', phase' = "scan"
        PROVE  from'[j] = Text(file.refs[j][1].word, file.refs[j][1].arg)
    <3>1. ~Scanned(j, 1) /\ (j # i \/ n # 1)
      BY Zenon, <1>1, <1>3, <2>2
    <3> QED
      BY Zenon, <3>1 DEF ProgressInv
  <2>3. override \in FromOverrides
    BY Zenon DEF ProgressInv
  <2> QED
    BY Zenon, <1>1, <2>1, <2>2, <2>3 DEF ProgressInv
<1>5. \A j \in Stages : /\ needs[NameOf(j)] \subseteq needs'[NameOf(j)]
                        /\ \A w \in needs'[NameOf(j)] :
                             w \in needs[NameOf(j)] \/ (j = i /\ Needed(i, n) /\ w = Looked(i, n))
  <2>1. CASE Needed(i, n)
    <3>1. needs' = [needs EXCEPT ![NameOf(i)] = @ \cup {Looked(i, n)}]
      BY Zenon, <2>1
    <3>2. \A j \in Stages : NameOf(j) \in Words /\ (j # i => NameOf(j) # NameOf(i))
      BY <1>0, FileFacts
    <3> QED
      BY <1>0, <2>1, <3>1, <3>2
  <2>2. CASE ~Needed(i, n)
    BY <2>2
  <2> QED
    BY Zenon, <2>1, <2>2
<1>6. Needed(i, n) => Looked(i, n) \in needs'[NameOf(i)]
  BY <1>0
<1>7. ASSUME NEW j \in Stages, NEW m \in 1 .. Len(file.refs[j]), Scanned(j, m)'
      PROVE  Recorded(j, m)'
  <2>1. CASE j = i /\ m = n
    <3>1. Noted(j, m)'
      BY Zenon, <2>1
    <3>2. Needed(j, m) => Looked(j, m) \in needs'[NameOf(j)]
      BY Zenon, <1>6, <2>1
    <3> QED
      BY Zenon, <1>2, <3>1, <3>2 DEF Recorded
  <2>2. CASE ~(j = i /\ m = n)
    <3>1. Recorded(j, m)
      BY Zenon, <1>1, <1>7, <2>2 DEF RecordInv
    <3>2. Noted(j, m)'
      <4>1. CASE file.refs[j][m].kind = "FROM"
        <5>1. m = 1 /\ (j # i \/ n # 1)
          BY Zenon, <1>0, <2>2, <4>1, FileFacts
        <5>2. from'[j] = from[j]
          BY Zenon, <5>1
        <5> QED
          BY Zenon, <1>2, <3>1, <4>1, <5>2 DEF Recorded, Noted
      <4>2. CASE file.refs[j][m].kind # "FROM"
        BY Zenon, <3>1, <4>2 DEF Recorded, Noted
      <4> QED
        BY Zenon, <4>1, <4>2
    <3> QED
      BY Zenon, <1>2, <1>5, <3>1, <3>2 DEF Recorded
  <2> QED
    BY Zenon, <2>1, <2>2
<1>8. ASSUME NEW j \in Stages, NEW w \in needs'[NameOf(j)]
      PROVE  \E m \in 1 .. Len(file.refs[j]) : Needed(j, m) /\ w = Looked(j, m)
  <2>1. CASE w \in needs[NameOf(j)]
    BY Zenon, <2>1 DEF RecordInv
  <2>2. CASE j = i /\ Needed(i, n) /\ w = Looked(i, n)
    BY Zenon, <1>0, <2>2
  <2> QED
    BY Zenon, <1>5, <1>8, <2>1, <2>2
<1>9. \A j \in Stages : \A m \in 1 .. Len(file'.refs[j]) : Scanned(j, m)' => Recorded(j, m)'
  BY Zenon, <1>7
<1>10. \A j \in Stages : \A w \in needs'[NameOf(j)'] :
         \E m \in 1 .. Len(file'.refs[j]) : Needed(j, m)' /\ w = Looked(j, m)'
  <2> SUFFICES ASSUME NEW j \in Stages, NEW w \in needs'[NameOf(j)']
               PROVE  \E m \in 1 .. Len(file'.refs[j]) : Needed(j, m)' /\ w = Looked(j, m)'
    BY Zenon
  <2>1. w \in needs'[NameOf(j)] /\ file' = file
    BY Zenon, <1>2
  <2>2. PICK m \in 1 .. Len(file.refs[j]) : Needed(j, m) /\ w = Looked(j, m)
    BY Zenon, <1>8, <2>1
  <2> QED
    BY Zenon, <1>2, <2>1, <2>2
<1> QED
  BY Zenon, <1>4, <1>9, <1>10 DEF RecordInv

\* FROM: the base is the word that is looked up
LEMMA ScanFromRecords ==
    ASSUME Inv, ProgressInv, RecordInv, ScanFrom
    PROVE  ProgressInv' /\ RecordInv'
<1>0. /\ phase = "scan" /\ file.refs[i][n].kind = "FROM" /\ i \in Stages /\ file \in Files
      /\ n \in 1 .. Len(file.refs[i]) /\ Advance /\ UNCHANGED <<file, override, rootfsMap>>
      /\ fromOverride' = NoWord /\ known = NamesUpTo(i) /\ i \in Nat
      /\ override \in Words \cup {NoWord} /\ NoWord \notin Words
      /\ from \in [Stages -> [word : Words, arg : BOOLEAN]]
  BY DependencyAssumption DEF ScanFrom, Ref, Inv, ScanInv, ProgressInv, Stages
<1>1. n = 1
  BY Zenon, <1>0, FileFacts
<1>2. fromOverride = IF i = 0 THEN override ELSE NoWord
  BY Zenon, <1>0, <1>1 DEF ProgressInv
<1>3. ~Scanned(i, 1)
  BY <1>0, <1>1 DEF Scanned
<1>4. from[i] = Text(file.refs[i][1].word, file.refs[i][1].arg)
  BY Zenon, <1>0, <1>3 DEF ProgressInv
<1> DEFINE given == IF fromOverride = NoWord THEN from[i] ELSE Text(fromOverride, FALSE)
           base == IF ~given.arg /\ given.word \in DOMAIN Contexts
                   THEN Text(Contexts[given.word], FALSE) ELSE given
<1>5. given = GivenText(file, override, i, 1)
  <2>1. CASE i = 0 /\ override # NoWord
    BY Zenon, <1>2, <2>1 DEF GivenText
  <2>2. CASE ~(i = 0 /\ override # NoWord)
    <3>1. fromOverride = NoWord
      BY Zenon, <1>2, <2>2
    <3> QED
      BY Zenon, <1>4, <2>2, <3>1 DEF GivenText
  <2> QED
    BY Zenon, <2>1, <2>2
<1>6. from' = [from EXCEPT ![i] = base] /\ baseMap' = baseMap \cup {base.word} /\ AddNeed(base.word)
  BY Zenon DEF ScanFrom
<1>7. base = BaseText(i)
  BY Zenon, <1>5 DEF BaseText
<1>8. given \in [word : Words, arg : BOOLEAN]
  BY <1>0, <1>2 DEF Text
<1>9. base \in [word : Words, arg : BOOLEAN]
  BY <1>8, DependencyAssumption DEF Text
<1> HIDE DEF given, base
<1>10. /\ from' \in [Stages -> [word : Words, arg : BOOLEAN]] /\ from'[i] = base
       /\ \A j \in Stages : j # i => from'[j] = from[j]
       /\ baseMap \subseteq baseMap' /\ base.word \in baseMap'
  BY <1>0, <1>6, <1>9
<1>11. Looked(i, n) = base.word
  BY Zenon, <1>0, <1>7 DEF Looked
<1>12. needs' = IF Needed(i, n) THEN [needs EXCEPT ![NameOf(i)] = @ \cup {Looked(i, n)}] ELSE needs
  BY Zenon, <1>0, <1>6, <1>11 DEF AddNeed, Needed
<1>13. \A j, m : j = i /\ m = n => Noted(j, m)'
  <2>1. ASSUME NEW j, NEW m, j = i, m = n PROVE Noted(j, m)'
    <3>1. BaseText(j)' = base
      BY Zenon, <1>0, <1>7, <2>1, FixedFile
    <3>2. from'[j] = base /\ base.word \in baseMap' /\ file'.refs[j][m].kind = "FROM"
      BY Zenon, <1>0, <1>10, <2>1
    <3> QED
      BY Zenon, <3>1, <3>2 DEF Noted
  <2> QED
    BY Zenon, <2>1
<1> QED
  BY Zenon, <1>0, <1>1, <1>10, <1>12, <1>13, ScanRecords

\* COPY and RUN: the text is noted, and looked up unless it is an argument
LEMMA ScanReadRecords ==
    ASSUME Inv, ProgressInv, RecordInv, ScanCopy \/ ScanRun
    PROVE  ProgressInv' /\ RecordInv'
<1>0. /\ phase = "scan" /\ file.refs[i][n].kind \in {"COPY", "RUN"} /\ i \in Stages /\ file \in Files
      /\ n \in 1 .. Len(file.refs[i]) /\ Advance /\ UNCHANGED <<file, override, fromOverride, from, baseMap>>
      /\ known = NamesUpTo(i)
      /\ from \in [Stages -> [word : Words, arg : BOOLEAN]]
  BY DEF ScanCopy, ScanRun, Ref, Inv, ScanInv, ProgressInv
<1>1. n # 1
  <2>1. file.refs[i][n].kind # "FROM"
    BY <1>0
  <2> QED
    BY Zenon, <1>0, <2>1, FileFacts
<1>2. fromOverride' = NoWord
  BY Zenon, <1>0, <1>1 DEF ProgressInv
<1>3. IF file.refs[i][n].arg THEN UNCHANGED needs ELSE AddNeed(Looked(i, n))
  <2>1. CASE ScanCopy
    BY Zenon, <2>1 DEF ScanCopy, Looked, Ref
  <2>2. CASE ScanRun
    BY Zenon, <2>2 DEF ScanRun, Looked, Ref
  <2> QED
    BY Zenon, <2>1, <2>2
<1>4. needs' = IF Needed(i, n) THEN [needs EXCEPT ![NameOf(i)] = @ \cup {Looked(i, n)}] ELSE needs
  <2>1. file.refs[i][n].kind # "FROM"
    BY <1>0
  <2>2. CASE file.refs[i][n].arg
    BY Zenon, <1>3, <2>1, <2>2 DEF Needed
  <2>3. CASE ~file.refs[i][n].arg
    BY Zenon, <1>0, <1>3, <2>3 DEF AddNeed, Needed
  <2> QED
    BY Zenon, <2>2, <2>3
<1> DEFINE text == Text(file.refs[i][n].word, file.refs[i][n].arg)
<1>5. /\ rootfsMap \subseteq rootfsMap'
      /\ text \in rootfsMap' \/ (file.refs[i][n].kind = "RUN" /\ text.word \in DOMAIN Contexts)
  <2>1. CASE ScanCopy
    <3>1. rootfsMap' = rootfsMap \cup {text}
      BY Zenon, <2>1 DEF ScanCopy, Ref
    <3> QED
      BY Zenon, <3>1
  <2>2. CASE ScanRun
    <3>1. text.word = file.refs[i][n].word
      BY DEF Text
    <3>2. \/ file.refs[i][n].word \in DOMAIN Contexts /\ rootfsMap' = rootfsMap
          \/ rootfsMap' = rootfsMap \cup {text}
      BY Zenon, <2>2 DEF ScanRun, Ref
    <3>3. file.refs[i][n].kind = "RUN"
      BY Zenon, <2>2 DEF ScanRun, Ref
    <3> HIDE DEF text
    <3> QED
      BY Zenon, <3>1, <3>2, <3>3
  <2> QED
    BY Zenon, <2>1, <2>2
<1>6. \A j, m : j = i /\ m = n => Noted(j, m)'
  <2>1. ASSUME NEW j, NEW m, j = i, m = n PROVE Noted(j, m)'
    <3> DEFINE t == Text(file'.refs[j][m].word, file'.refs[j][m].arg)
    <3>1. t = text
      BY Zenon, <1>0, <2>1
    <3>2. \/ file'.refs[j][m].kind = "COPY" /\ t \in rootfsMap'
          \/ file'.refs[j][m].kind = "RUN" /\ (t \in rootfsMap' \/ t.word \in DOMAIN Contexts)
      BY Zenon, <1>0, <1>5, <2>1, <3>1
    <3>3. file'.refs[j][m].kind # "FROM" /\ (file'.refs[j][m].kind = "RUN" => file'.refs[j][m].kind # "COPY")
      BY <3>2
    <3> QED
      BY Zenon, <3>2, <3>3 DEF Noted
  <2> QED
    BY Zenon, <2>1
<1>7. \A j \in Stages : j # i \/ n # 1 => from'[j] = from[j]
  BY Zenon, <1>0
<1>8. from' \in [Stages -> [word : Words, arg : BOOLEAN]] /\ baseMap \subseteq baseMap'
  BY Zenon, <1>0
<1> QED
  BY ZenonT(60), <1>0, <1>2, <1>4, <1>5, <1>6, <1>7, <1>8, ScanRecords

\* A stage that another one waits for has run, if scanning saw the reference
LEMMA StageReady ==
    ASSUME AllInv, phase = "run", NEW j \in stages, NEW k \in terminatedStage,
           NEW m \in 1 .. Len(file.refs[j]), Needed(j, m), Looked(j, m) = NameOf(k)
    PROVE  k \in stages
<1> SUFFICES ASSUME k \notin stages PROVE FALSE
  BY Zenon
<1>1. j \in Stages /\ SkipUnusedStages /\ NameOf(k) \notin neededByTarget /\ NameOf(j) \in neededByTarget
  BY Zenon DEF AllInv, RunInv
<1>2. Recorded(j, m)
  BY Zenon, <1>1 DEF AllInv, RecordInv, Scanned
<1>3. NameOf(k) \in needs[NameOf(j)]
  BY Zenon, <1>2 DEF Recorded
<1>4. needs[NameOf(j)] \subseteq neededByTarget
  BY Zenon, <1>1 DEF AllInv, Inv, MarkInv
<1> QED
  BY Zenon, <1>1, <1>3, <1>4

\* The reference at which a stage is
LEMMA AtFacts ==
    ASSUME AllInv, NEW j \in Stages, InStage(j), NEW m, m = Len(resolved[j]) + 1
    PROVE  /\ m \in 1 .. Len(file.refs[j]) /\ At(j) = file.refs[j][m] /\ file \in Files
           /\ phase = "run" /\ j \in stages /\ j \notin terminatedStage /\ j <= Target
           /\ Recorded(j, m)
           /\ At(j).kind = "FROM" <=> m = 1
           /\ m # 1 => GivenText(file, override, j, m) = Text(At(j).word, At(j).arg)
           /\ At(j).word \in Words
<1>1. resolved[j] \in Seq(Results) /\ file \in Files
  BY DEF AllInv, Inv, ScanInv, ResolveInv
<1>2. Len(resolved[j]) < Len(file.refs[j]) /\ Len(file.refs[j]) \in Nat
  BY Zenon, <1>1, FileFacts DEF InStage
<1>3. m \in 1 .. Len(file.refs[j]) /\ j <= Target
  BY <1>1, <1>2, DependencyAssumption DEF Stages, Target
<1>4. At(j) = file.refs[j][m]
  BY Zenon DEF At
<1>5. phase = "run" /\ j \in stages /\ j \notin terminatedStage
  BY Zenon DEF InStage
<1>6. Recorded(j, m)
  BY Zenon, <1>3, <1>5 DEF AllInv, RecordInv, Scanned
<1>7. m # 1 => GivenText(file, override, j, m) = Text(At(j).word, At(j).arg)
  BY Zenon, <1>4 DEF GivenText
<1> QED
  BY ZenonT(60), <1>1, <1>3, <1>4, <1>5, <1>6, <1>7, FileFacts

\* FROM uses the image of the stage, or the image, that it denotes
LEMMA FromDenotes ==
    ASSUME AllInv, ContextsApart(file), ResolvedAlike(file, override), NEW j \in Stages, InStage(j),
           At(j).kind = "FROM", NEW base, base = from[j].word, waitForStage(j, base)
    PROVE  (IF base \in imageMap THEN StageResult(CHOOSE k \in Stages : NameOf(k) = base, TRUE)
            ELSE Image(base)) = Denotes(j, Len(resolved[j]) + 1)
<1>m. PICK m : m = Len(resolved[j]) + 1
  BY Zenon
<1>0. /\ 1 \in 1 .. Len(file.refs[j]) /\ m = 1 /\ file.refs[j][1].kind = "FROM" /\ file \in Files
      /\ phase = "run" /\ j \in stages /\ j \notin terminatedStage /\ j <= Target /\ Recorded(j, 1)
  BY Zenon, <1>m, AtFacts
<1>w. PICK text, word : text = GivenText(file, override, j, 1) /\ word = text.word
  BY Zenon
<1>1. from[j] = BaseText(j) /\ BaseText(j).word \in baseMap
  BY Zenon, <1>0 DEF Recorded, Noted
<1>2. /\ text.arg => word \notin DOMAIN Contexts
      /\ \A k \in Stages : k > j => NameOf(k) # word
      /\ \A k \in Stages : k < j /\ word \in {NameOf(k), k} => NameOf(k) = word
  <2>1. /\ text.arg => word \notin DOMAIN Contexts
        /\ \A k \in Stages : k > j => file.name[k] # word
        /\ \A k \in NamedEarlier(file, override, j, 1) : file.name[k] = word
    <3>1. file.refs[j][1].kind # "COPY"
      BY <1>0
    <3> QED
      BY Zenon, <1>0, <1>w, <3>1 DEF ResolvedAlike
  <2> QED
    BY Zenon, <1>w, <2>1 DEF NamedEarlier, NameOf
<1>3. Meant(j, 1, word)
  BY Zenon, <1>0, <1>w, Denoted
<1>4. \A w \in imageMap : \E k \in stages \cap terminatedStage : w = NameOf(k) /\ k \in Stages
  BY DEF AllInv, RunInv
<1>5. CASE word \in DOMAIN Contexts
  <2>1. base = Contexts[word]
    <3>1. BaseText(j) = Text(Contexts[word], FALSE)
      BY Zenon, <1>2, <1>5, <1>w DEF BaseText
    <3> QED
      BY <1>1, <3>1 DEF Text
  <2>2. base \notin imageMap
    BY Zenon, <1>4, <1>5, <2>1 DEF ContextsApart, NameOf
  <2> QED
    BY Zenon, <1>0, <1>3, <1>5, <1>m, <2>1, <2>2 DEF Meant
<1>6. CASE word \notin DOMAIN Contexts
  <2>1. base = word
    BY Zenon, <1>1, <1>6, <1>w DEF BaseText
  <2>2. ASSUME NEW k \in Stages, k < j, word \in {NameOf(k), k}
        PROVE  /\ base \in imageMap /\ (CHOOSE l \in Stages : NameOf(l) = base) = k
               /\ Denotes(j, 1) = StageResult(k, TRUE)
    <3>1. NameOf(k) = word
      BY Zenon, <1>2, <2>2
    <3>2. Looked(j, 1) = word
      BY Zenon, <1>0, <1>1, <2>1 DEF Looked
    <3>3. Needed(j, 1)
      <4>1. k <= j
        BY <2>2, Positions
      <4> QED
        BY Zenon, <1>0, <1>6, <3>1, <3>2, <4>1 DEF Needed, NamesUpTo
    <3>4. k \in terminatedStage
      BY Zenon, <2>1, <2>2, <3>1 DEF waitForStage, NamedBy, EarlierStages
    <3>5. k \in stages
      BY Zenon, <1>0, <3>1, <3>2, <3>3, <3>4, StageReady
    <3>6. k < Target
      BY <1>0, <2>2, Positions, DependencyAssumption DEF Target
    <3>7. imageIsUsedLater(k)
      BY Zenon, <1>1, <2>1, <3>1, <3>6 DEF imageIsUsedLater
    <3>8. base \in imageMap
      BY ZenonT(60), <2>1, <3>1, <3>4, <3>5, <3>6, <3>7 DEF AllInv, RunInv
    <3>9. (CHOOSE l \in Stages : NameOf(l) = base) = k
      <4>1. \A l \in Stages : NameOf(l) = base => l = k
        BY <1>0, <2>1, <3>1, FileFacts
      <4> DEFINE c == CHOOSE l \in Stages : NameOf(l) = base
      <4>2. c \in Stages /\ NameOf(c) = base
        BY Zenon, <2>1, <3>1
      <4> QED
        BY Zenon, <4>1, <4>2
    <3> QED
      BY Zenon, <1>3, <1>6, <2>2, <3>1, <3>8, <3>9 DEF Meant
  <2>3. ASSUME \A k \in Stages : k < j => word \notin {NameOf(k), k}
        PROVE  base \notin imageMap /\ Denotes(j, 1) = Image(base)
    <3>1. ASSUME NEW k \in stages \cap terminatedStage, k \in Stages, NameOf(k) = word PROVE FALSE
      <4>1. k < j \/ k = j \/ k > j
        BY <3>1, Positions
      <4> QED
        BY Zenon, <1>0, <1>2, <2>3, <3>1, <4>1
    <3> QED
      BY Zenon, <1>3, <1>4, <1>6, <2>1, <2>3, <3>1 DEF Meant
  <2> QED
    BY Zenon, <1>0, <1>m, <2>2, <2>3
<1> QED
  BY Zenon, <1>5, <1>6

\* A stage that is read has run, and its files are complete
LEMMA ReadStageDenotes ==
    ASSUME AllInv, NEW j \in Stages, InStage(j), NEW m, m = Len(resolved[j]) + 1, ~At(j).arg,
           At(j).kind # "FROM", NEW k \in Stages, k < j, At(j).word \in {NameOf(k), k},
           Looked(j, m) = NameOf(k), NameOf(k) \notin DOMAIN Contexts, At(j).word \notin DOMAIN Contexts,
           waitForStage(j, NameOf(k))
    PROVE  /\ StageOrImage(j, NameOf(k)) = StageResult(k, TRUE)
           /\ StartedBefore(j, NameOf(k)) # {}
<1>0. /\ m \in 1 .. Len(file.refs[j]) /\ At(j) = file.refs[j][m] /\ file \in Files
      /\ phase = "run" /\ j \in stages /\ j <= Target /\ Recorded(j, m)
  BY Zenon, AtFacts
<1>1. Needed(j, m)
  <2>1. k <= j
    BY Positions
  <2> QED
    BY Zenon, <1>0, <2>1 DEF Needed, NamesUpTo
<1>2. k \in terminatedStage
  BY Zenon DEF waitForStage, NamedBy, EarlierStages
<1>3. k \in stages
  BY Zenon, <1>0, <1>1, <1>2, StageReady
<1>4. Text(At(j).word, FALSE) \in rootfsMap
  <2>1. Text(At(j).word, At(j).arg) \in rootfsMap
    <3>1. Text(At(j).word, At(j).arg).word = At(j).word
      BY DEF Text
    <3> QED
      BY Zenon, <1>0, <3>1 DEF Recorded, Noted
  <2>2. At(j).arg \in BOOLEAN
    BY Zenon, <1>0, FileFacts
  <2>3. At(j).arg = FALSE
    BY <2>2
  <2> QED
    BY Zenon, <2>1, <2>3
<1>5. rootfsIsUsedLater(k)
  <2>1. k < Target
    BY <1>0, Positions, DependencyAssumption DEF Target
  <2> QED
    BY Zenon, <1>4, <2>1 DEF rootfsIsUsedLater
<1>6. k \in StartedBefore(j, NameOf(k))
  BY Zenon, <1>3 DEF StartedBefore, NamedBy
<1>7. \A l \in StartedBefore(j, NameOf(k)) : l = k
  <2>1. ASSUME NEW l \in StartedBefore(j, NameOf(k)) PROVE l = k
    <3>1. l \in Stages /\ NameOf(k) \in {NameOf(l), l}
      BY Zenon DEF StartedBefore, NamedBy, AllInv, RunInv
    <3> QED
      BY Zenon, <1>0, <3>1, UniqueStage
  <2> QED
    BY Zenon, <2>1
<1>8. (CHOOSE l \in StartedBefore(j, NameOf(k)) : TRUE) = k
  BY Zenon, <1>6, <1>7
<1>9. ReadStage(k) = StageResult(k, TRUE)
  <2>1. (~layers \/ rootfsIsUsedLater(k)) = TRUE
    BY Zenon, <1>5
  <2> QED
    BY Zenon, <2>1 DEF ReadStage
<1>10. StartedBefore(j, NameOf(k)) # {}
  BY Zenon, <1>6
<1> QED
  BY Zenon, <1>8, <1>9, <1>10 DEF StageOrImage

\* A word that names no earlier stage is an image
LEMMA ReadImageDenotes ==
    ASSUME AllInv, NEW j \in Stages, NEW word, \A k \in Stages : k < j => word \notin {NameOf(k), k}
    PROVE  StartedBefore(j, word) = {} /\ StageOrImage(j, word) = Image(word)
<1>1. StartedBefore(j, word) = {}
  BY Zenon DEF StartedBefore, NamedBy, AllInv, RunInv
<1> QED
  BY Zenon, <1>1 DEF StageOrImage

\* COPY --from reads the context, the stage or the image that it denotes
LEMMA CopyDenotes ==
    ASSUME AllInv, ResolvedAlike(file, override), NEW j \in Stages, InStage(j), At(j).kind = "COPY",
           ~OutOfRange(At(j).word), NEW name, name = StageNameOf(At(j).word)
    PROVE  /\ name \in DOMAIN Contexts => Image(Contexts[name]) = Denotes(j, Len(resolved[j]) + 1)
           /\ /\ name \notin DOMAIN Contexts /\ waitForStage(j, name)
              /\ StartedBefore(j, name) # {} \/ name = At(j).word
              => StageOrImage(j, name) = Denotes(j, Len(resolved[j]) + 1)
<1>m. PICK m : m = Len(resolved[j]) + 1
  BY Zenon
<1>0. /\ m \in 1 .. Len(file.refs[j]) /\ At(j) = file.refs[j][m] /\ file \in Files
      /\ At(j).kind = "FROM" <=> m = 1
      /\ m # 1 => GivenText(file, override, j, m) = Text(At(j).word, At(j).arg)
  BY Zenon, <1>m, AtFacts
<1>w. PICK word : word = At(j).word
  BY Zenon
<1>1. m # 1 /\ At(j).kind # "FROM"
  BY <1>0
<1>2. GivenText(file, override, j, m).word = word /\ GivenText(file, override, j, m).arg = At(j).arg
  BY <1>0, <1>1, <1>w DEF Text
<1>3. /\ \A k \in Stages : k < j /\ word \in {NameOf(k), k} => ~At(j).arg
      /\ \A k \in Stages : k = word /\ k >= j => NameOf(k) \notin DOMAIN Contexts
  <2>1. /\ At(j).arg => NamedEarlier(file, override, j, m) = {}
        /\ \A k \in Stages : k = word /\ k >= j => file.name[k] \notin DOMAIN Contexts
    BY Zenon, <1>0, <1>1, <1>2 DEF ResolvedAlike
  <2> QED
    BY Zenon, <1>2, <2>1 DEF NamedEarlier, NameOf
<1>4. Meant(j, m, word)
  BY Zenon, <1>0, <1>2, Denoted
<1>5. Looked(j, m) = name
  BY Zenon, <1>0, <1>1 DEF Looked
<1>6. /\ word \in Stages => name = NameOf(word)
      /\ word \notin Stages => name = word
      /\ word \in DOMAIN Contexts => word \notin Stages
  BY Zenon, <1>w, Positions DEF StageNameOf
<1>7. CASE name \in DOMAIN Contexts
  <2>1. CASE word \in DOMAIN Contexts
    BY Zenon, <1>4, <1>6, <1>7, <1>m, <2>1 DEF Meant
  <2>2. CASE word \notin DOMAIN Contexts
    <3>1. word \in Stages /\ name = NameOf(word)
      BY Zenon, <1>6, <1>7, <2>2
    <3>2. word < j
      <4>1. ~(word >= j)
        BY Zenon, <1>3, <1>7, <3>1
      <4> QED
        BY <3>1, <4>1, Positions
    <3>3. Denotes(j, m) = IF NameOf(word) \in DOMAIN Contexts THEN Image(Contexts[NameOf(word)])
                          ELSE StageResult(word, TRUE)
      BY Zenon, <1>4, <2>2, <3>1, <3>2 DEF Meant
    <3> QED
      BY Zenon, <1>7, <1>m, <3>1, <3>3
  <2> QED
    BY Zenon, <2>1, <2>2
<1>8. ASSUME name \notin DOMAIN Contexts, waitForStage(j, name), StartedBefore(j, name) # {} \/ name = word
      PROVE  StageOrImage(j, name) = Denotes(j, m)
  <2>0. word \notin DOMAIN Contexts
    BY Zenon, <1>6, <1>8
  <2>1. ASSUME NEW k \in Stages, k < j, word \in {NameOf(k), k}
        PROVE  StageOrImage(j, name) = Denotes(j, m)
    <3>1. name = NameOf(k)
      <4>1. CASE word \in Stages
        <5>1. word \in {NameOf(word), word}
          BY Zenon
        <5>2. k = word
          BY Zenon, <1>0, <2>1, <4>1, <5>1, UniqueStage
        <5> QED
          BY Zenon, <1>6, <4>1, <5>2
      <4>2. CASE word \notin Stages
        BY Zenon, <1>6, <2>1, <4>2
      <4> QED
        BY Zenon, <4>1, <4>2
    <3>2. Denotes(j, m) = StageResult(k, TRUE)
      BY Zenon, <1>4, <1>8, <2>0, <2>1, <3>1 DEF Meant
    <3>3. StageOrImage(j, NameOf(k)) = StageResult(k, TRUE)
      BY ZenonT(60), <1>1, <1>3, <1>5, <1>8, <1>m, <1>w, <2>0, <2>1, <3>1, ReadStageDenotes
    <3> QED
      BY Zenon, <3>1, <3>2, <3>3
  <2>2. ASSUME \A k \in Stages : k < j => word \notin {NameOf(k), k}
        PROVE  StageOrImage(j, name) = Denotes(j, m)
    <3>1. ASSUME NEW k \in Stages, k < j PROVE name \notin {NameOf(k), k}
      <4>1. CASE word \in Stages
        <5>1. name \in {NameOf(word), word} /\ word # k
          BY Zenon, <1>6, <2>2, <3>1, <4>1
        <5> QED
          BY Zenon, <1>0, <3>1, <4>1, <5>1, UniqueStage
      <4>2. CASE word \notin Stages
        BY Zenon, <1>6, <2>2, <3>1, <4>2
      <4> QED
        BY Zenon, <4>1, <4>2
    <3>2. StartedBefore(j, name) = {} /\ StageOrImage(j, name) = Image(name)
      BY Zenon, <3>1, ReadImageDenotes
    <3> QED
      BY Zenon, <1>4, <1>8, <2>0, <2>2, <3>2 DEF Meant
  <2> QED
    BY Zenon, <2>1, <2>2
<1> QED
  BY Zenon, <1>7, <1>8, <1>m, <1>w

\* RUN --mount reads the context, the stage or the image that it denotes
LEMMA RunDenotes ==
    ASSUME AllInv, ResolvedAlike(file, override), NEW j \in Stages, InStage(j), At(j).kind = "RUN",
           NEW word, word = At(j).word
    PROVE  /\ word \in DOMAIN Contexts => Image(Contexts[word]) = Denotes(j, Len(resolved[j]) + 1)
           /\ word \notin DOMAIN Contexts /\ waitForStage(j, word) =>
                StageOrImage(j, word) = Denotes(j, Len(resolved[j]) + 1)
<1>m. PICK m : m = Len(resolved[j]) + 1
  BY Zenon
<1>0. /\ m \in 1 .. Len(file.refs[j]) /\ At(j) = file.refs[j][m] /\ file \in Files
      /\ At(j).kind = "FROM" <=> m = 1
      /\ m # 1 => GivenText(file, override, j, m) = Text(At(j).word, At(j).arg)
  BY Zenon, <1>m, AtFacts
<1>1. m # 1 /\ At(j).kind # "FROM" /\ At(j).kind # "COPY"
  BY <1>0
<1>2. GivenText(file, override, j, m).word = word /\ GivenText(file, override, j, m).arg = At(j).arg
  BY <1>0, <1>1 DEF Text
<1>3. \A k \in Stages : k < j /\ word \in {NameOf(k), k} => ~At(j).arg /\ NameOf(k) = word
  <2>1. /\ At(j).arg => NamedEarlier(file, override, j, m) = {}
        /\ \A k \in NamedEarlier(file, override, j, m) : file.name[k] = word
    BY Zenon, <1>0, <1>1, <1>2 DEF ResolvedAlike
  <2> QED
    BY Zenon, <1>2, <2>1 DEF NamedEarlier, NameOf
<1>4. Meant(j, m, word)
  BY Zenon, <1>0, <1>2, Denoted
<1>5. Looked(j, m) = word
  BY Zenon, <1>0, <1>1 DEF Looked
<1>6. ASSUME word \notin DOMAIN Contexts, waitForStage(j, word)
      PROVE  StageOrImage(j, word) = Denotes(j, m)
  <2>1. ASSUME NEW k \in Stages, k < j, word \in {NameOf(k), k}
        PROVE  StageOrImage(j, word) = Denotes(j, m)
    <3>1. word = NameOf(k) /\ ~At(j).arg
      BY Zenon, <1>3, <2>1
    <3>2. Denotes(j, m) = StageResult(k, TRUE)
      BY Zenon, <1>4, <1>6, <2>1, <3>1 DEF Meant
    <3>3. StageOrImage(j, NameOf(k)) = StageResult(k, TRUE)
      BY Zenon, <1>1, <1>5, <1>6, <1>m, <2>1, <3>1, ReadStageDenotes
    <3> QED
      BY Zenon, <3>1, <3>2, <3>3
  <2>2. ASSUME \A k \in Stages : k < j => word \notin {NameOf(k), k}
        PROVE  StageOrImage(j, word) = Denotes(j, m)
    <3>1. StageOrImage(j, word) = Image(word)
      BY Zenon, <2>2, ReadImageDenotes
    <3> QED
      BY Zenon, <1>4, <1>6, <2>2, <3>1 DEF Meant
  <2> QED
    BY Zenon, <2>1, <2>2
<1> QED
  BY Zenon, <1>4, <1>6, <1>m DEF Meant

\* What a stage needs besides itself, one of its references means
LEMMA NeedUsed ==
    ASSUME file \in Files, ContextsApart(file), NEW k \in Stages, NEW m \in 1 .. Len(file.refs[k]),
           Needed(k, m), NEW l \in Stages, l < k, Looked(k, m) = NameOf(l)
    PROVE  l \in Uses(k)
<1>w. PICK text, word : text = GivenText(file, override, k, m) /\ word = text.word
  BY Zenon
<1>1. /\ file.refs[k][m].kind \in {"FROM", "COPY", "RUN"}
      /\ file.refs[k][m].kind = "FROM" <=> m = 1
  BY Zenon, FileFacts
<1>2. NameOf(l) \notin DOMAIN Contexts
  BY Zenon DEF Needed
<1>3. word \notin DOMAIN Contexts /\ word \in {NameOf(l), l}
  <2>1. CASE m = 1
    <3>1. Looked(k, m) = BaseText(k).word
      BY Zenon, <1>1, <2>1 DEF Looked
    <3>2. CASE ~text.arg /\ word \in DOMAIN Contexts
      <4>1. BaseText(k) = Text(Contexts[word], FALSE)
        BY Zenon, <1>w, <2>1, <3>2 DEF BaseText
      <4>2. BaseText(k).word = Contexts[word]
        BY <4>1 DEF Text
      <4> QED
        BY Zenon, <3>1, <3>2, <4>2 DEF ContextsApart, NameOf
    <3>3. CASE ~(~text.arg /\ word \in DOMAIN Contexts)
      <4>1. BaseText(k) = text
        BY Zenon, <1>w, <2>1, <3>3 DEF BaseText
      <4> QED
        BY Zenon, <1>2, <1>w, <3>1, <4>1
    <3> QED
      BY Zenon, <3>2, <3>3
  <2>2. CASE m # 1
    <3>1. text = Text(file.refs[k][m].word, file.refs[k][m].arg)
      BY Zenon, <1>w, <2>2 DEF GivenText
    <3>2. word = file.refs[k][m].word
      BY <1>w, <3>1 DEF Text
    <3>3. NameOf(l) = StageNameOf(word) \/ NameOf(l) = word
      BY Zenon, <1>1, <2>2, <3>2 DEF Looked
    <3>4. CASE NameOf(l) = word
      BY Zenon, <1>2, <3>4
    <3>5. CASE NameOf(l) = StageNameOf(word) /\ NameOf(l) # word
      <4>1. word \in Stages /\ NameOf(l) = NameOf(word)
        BY Zenon, <3>5 DEF StageNameOf
      <4>2. l = word
        BY <4>1, FileFacts
      <4> QED
        BY Zenon, <4>1, <4>2, Positions
    <3> QED
      BY Zenon, <3>3, <3>4, <3>5
  <2> QED
    BY Zenon, <2>1, <2>2
<1>4. Meant(k, m, word)
  BY Zenon, <1>w, Denoted
<1>5. Denotes(k, m) = StageResult(l, TRUE)
  BY Zenon, <1>2, <1>3, <1>4 DEF Meant
<1> QED
  BY Zenon, <1>5 DEF Uses

\* What was resolved stays as it was
LEMMA ResolveStays ==
    ASSUME ResolveInv, UNCHANGED <<file, override, resolved>>
    PROVE  ResolveInv'
<1>1. ASSUME ReferencesDenote, NEW j \in Stages, NEW m \in 1 .. Len(resolved'[j])
      PROVE  resolved'[j][m] = Denotes(j, m)'
  <2>1. resolved'[j][m] = resolved[j][m] /\ m \in 1 .. Len(resolved[j])
    BY Zenon
  <2> QED
    BY Zenon, <1>1, <2>1, FixedFile DEF ReferencesDenote
<1>2. ReferencesDenote => ReferencesDenote'
  BY Zenon, <1>1 DEF ReferencesDenote
<1> QED
  BY Zenon, <1>2 DEF ResolveInv

\* What was marked stays as it was
LEMMA ClosedStays ==
    ASSUME ClosedInv, UNCHANGED <<file, override, neededByTarget, pending>>
    PROVE  ClosedInv'
<1>1. \A k : Uses(k)' = Uses(k) /\ NameOf(k)' = NameOf(k)
  BY Zenon, FixedFile
<1> QED
  BY ZenonT(60), <1>1 DEF ClosedInv, ContextsApart

\* What was recorded stays recorded
LEMMA RecordStays ==
    ASSUME RecordInv, UNCHANGED <<file, override, from, needs, baseMap, rootfsMap>>,
           \A j, m : Scanned(j, m)' => Scanned(j, m)
    PROVE  RecordInv'
<1>1. ASSUME NEW j, NEW m, Noted(j, m) PROVE Noted(j, m)'
  <2>1. BaseText(j)' = BaseText(j)
    BY Zenon, FixedFile
  <2>2. CASE file.refs[j][m].kind = "FROM"
    BY Zenon, <1>1, <2>1, <2>2 DEF Noted
  <2>3. CASE file.refs[j][m].kind # "FROM"
    BY Zenon, <1>1, <2>3 DEF Noted
  <2> QED
    BY Zenon, <2>2, <2>3
<1>2. ASSUME NEW j, NEW m, Recorded(j, m) PROVE Recorded(j, m)'
  BY Zenon, <1>1, <1>2, FixedFile DEF Recorded
<1>3. \A j \in Stages : \A m \in 1 .. Len(file'.refs[j]) : Scanned(j, m)' => Recorded(j, m)'
  BY Zenon, <1>2 DEF RecordInv
<1>4. ASSUME NEW j \in Stages, NEW w \in needs'[NameOf(j)']
      PROVE  \E m \in 1 .. Len(file'.refs[j]) : Needed(j, m)' /\ w = Looked(j, m)'
  <2>1. w \in needs[NameOf(j)] /\ file' = file
    BY Zenon, FixedFile
  <2>2. PICK m \in 1 .. Len(file.refs[j]) : Needed(j, m) /\ w = Looked(j, m)
    BY Zenon, <2>1 DEF RecordInv
  <2> QED
    BY Zenon, <2>1, <2>2, FixedFile
<1> QED
  BY Zenon, <1>3, <1>4 DEF RecordInv

\* Before the stages run, none has an image
LEMMA NoneRuns ==
    ASSUME RunInv, phase \in {"scan", "mark"}, UNCHANGED <<stages, terminatedStage, imageMap>>
    PROVE  RunInv'
<1>1. stages = {} /\ terminatedStage = {} /\ imageMap = {}
  BY Zenon DEF RunInv
<1> QED
  BY Zenon, <1>1 DEF RunInv

\* The scan keeps the invariant
LEMMA ScanAll ==
    ASSUME AllInv, Inv', ScanFrom \/ ScanCopy \/ ScanRun
    PROVE  AllInv'
<1>0. /\ phase = "scan" /\ Advance
      /\ UNCHANGED <<file, override, neededByTarget, stages, terminatedStage, imageMap, resolved>>
      /\ Inv /\ ProgressInv /\ RecordInv /\ RunInv /\ ResolveInv /\ ClosedInv
  BY Zenon DEF ScanFrom, ScanCopy, ScanRun, running, AllInv
<1>1. ProgressInv' /\ RecordInv'
  BY Zenon, <1>0, ScanFromRecords, ScanReadRecords
<1>2. RunInv'
  BY Zenon, <1>0, NoneRuns
<1>3. ResolveInv'
  BY Zenon, <1>0, ResolveStays
<1>4. ClosedInv'
  <2>1. neededByTarget' = {} /\ (pending' = {} \/ pending' = {NameOf(Target)})
    BY Zenon, <1>0 DEF Inv, MarkInv, Advance
  <2>2. NameOf(Target)' = NameOf(Target)
    BY Zenon, <1>0, FixedFile
  <2>3. ASSUME NEW S \in SUBSET Stages, Target \in S
        PROVE  (neededByTarget \cup pending)' \subseteq {NameOf(k)' : k \in S}
    BY Zenon, <2>1, <2>2, <2>3
  <2> QED
    BY Zenon, <2>3 DEF ClosedInv
<1> QED
  BY Zenon, <1>1, <1>2, <1>3, <1>4 DEF AllInv

\* Marking goes on to stages that are used
LEMMA MarkAll ==
    ASSUME AllInv, Inv', NEW name \in Words, markDependencyStagesForTarget(name)
    PROVE  AllInv'
<1>0. /\ phase = "mark" /\ phase' = phase /\ name \in pending
      /\ UNCHANGED <<file, override, fromOverride, from, i, n, known, needs, baseMap, rootfsMap>>
      /\ UNCHANGED <<stages, terminatedStage, imageMap, resolved>>
      /\ Inv /\ ProgressInv /\ RecordInv /\ RunInv /\ ResolveInv /\ ClosedInv /\ file \in Files
  BY DEF markDependencyStagesForTarget, scanned, running, AllInv, Inv, ScanInv
<1>1. ProgressInv'
  BY Zenon, <1>0 DEF ProgressInv, NamesUpTo, NameOf, Scanned
<1>2. RecordInv'
  <2>1. \A j, m : Scanned(j, m)' => Scanned(j, m)
    BY Zenon, <1>0 DEF Scanned
  <2> QED
    BY Zenon, <1>0, <2>1, RecordStays
<1>3. RunInv'
  BY Zenon, <1>0, NoneRuns
<1>4. ResolveInv'
  BY Zenon, <1>0, ResolveStays
<1>5. neededByTarget' \cup pending' \subseteq neededByTarget \cup pending \cup needs[name]
  BY Zenon, <1>0 DEF markDependencyStagesForTarget, NeedsOf
<1>6. ClosedInv'
  <2>1. ASSUME ContextsApart(file), NEW S \in SUBSET Stages, Target \in S, \A k \in S : Uses(k) \subseteq S
        PROVE  neededByTarget' \cup pending' \subseteq {NameOf(k) : k \in S}
    <3>1. neededByTarget \cup pending \subseteq {NameOf(k) : k \in S}
      BY Zenon, <1>0, <2>1 DEF ClosedInv
    <3>2. PICK k \in S : name = NameOf(k)
      BY Zenon, <1>0, <3>1
    <3>3. ASSUME NEW w \in needs[name] PROVE \E l \in S : w = NameOf(l)
      <4>1. PICK m \in 1 .. Len(file.refs[k]) : Needed(k, m) /\ w = Looked(k, m)
        BY Zenon, <1>0, <3>2, <3>3 DEF RecordInv
      <4>2. PICK l \in Stages : l <= k /\ w = NameOf(l)
        BY Zenon, <4>1 DEF Needed, NamesUpTo
      <4>3. CASE l = k
        BY Zenon, <4>2, <4>3
      <4>4. CASE l < k
        <5>1. l \in Uses(k)
          BY Zenon, <1>0, <2>1, <4>1, <4>2, <4>4, NeedUsed
        <5> QED
          BY Zenon, <2>1, <4>2, <5>1
      <4>5. l = k \/ l < k
        BY <4>2, Positions
      <4> QED
        BY Zenon, <4>3, <4>4, <4>5
    <3> QED
      BY Zenon, <1>5, <3>1, <3>3
  <2>2. \A k : Uses(k)' = Uses(k) /\ NameOf(k)' = NameOf(k)
    BY Zenon, <1>0, FixedFile
  <2> QED
    <3> SUFFICES ASSUME ContextsApart(file)', NEW S \in SUBSET Stages, Target \in S,
                        \A k \in S : Uses(k)' \subseteq S
                 PROVE  neededByTarget' \cup pending' \subseteq {NameOf(k)' : k \in S}
      BY Zenon DEF ClosedInv
    <3>1. ContextsApart(file) /\ \A k \in S : Uses(k) \subseteq S
      BY Zenon, <1>0, <2>2
    <3>2. neededByTarget' \cup pending' \subseteq {NameOf(k) : k \in S}
      BY Zenon, <2>1, <3>1
    <3> QED
      BY Zenon, <2>2, <3>2
<1> QED
  BY Zenon, <1>1, <1>2, <1>3, <1>4, <1>6 DEF AllInv

\* What scanning and marking left stays as it was
LEMMA ScannedStays ==
    ASSUME AllInv, Inv', UNCHANGED <<file, override, scanned, marked>>,
           phase' \in {phase, "failed", "panic"} \/ (phase = "mark" /\ phase' = "run")
    PROVE  ProgressInv' /\ RecordInv' /\ ClosedInv'
<1>0. /\ UNCHANGED <<file, override, fromOverride, from, i, n, known, needs, baseMap, rootfsMap>>
      /\ UNCHANGED <<neededByTarget, pending>> /\ ProgressInv /\ RecordInv /\ ClosedInv
  BY DEF scanned, marked, AllInv
<1>1. \A j, m : Scanned(j, m)' => Scanned(j, m)
  BY <1>0 DEF Scanned
<1>2. phase' = "scan" => phase = "scan"
  OBVIOUS
<1>3. phase' \in {"mark", "run"} => phase \in {"mark", "run"}
  OBVIOUS
<1>6. RecordInv'
  BY Zenon, <1>0, <1>1, RecordStays
<1>7. \A j, m : phase' = "scan" => Scanned(j, m)' = Scanned(j, m)
  BY <1>0, <1>2 DEF Scanned
<1>8. ProgressInv'
  BY Zenon, <1>0, <1>2, <1>3, <1>7 DEF ProgressInv, NamesUpTo, NameOf
<1> QED
  BY Zenon, <1>0, <1>6, <1>8, ClosedStays

\* A reference that is resolved to what it denotes
LEMMA ResolveAll ==
    ASSUME AllInv, Inv', NEW j \in Stages, InStage(j), NEW r \in Results, Resolve(j, r),
           ContextsApart(file) /\ ResolvedAlike(file, override) => r = Denotes(j, Len(resolved[j]) + 1)
    PROVE  AllInv'
<1>0. /\ UNCHANGED <<file, override, scanned, marked>> /\ phase' = phase
      /\ UNCHANGED <<layers, baseMap, neededByTarget, stages, imageMap, terminatedStage>>
      /\ resolved' = [resolved EXCEPT ![j] = Append(@, r)]
      /\ resolved \in [Stages -> Seq(Results)] /\ RunInv /\ ResolveInv
  BY DEF Resolve, scanned, marked, AllInv, ResolveInv
<1>1. ProgressInv' /\ RecordInv' /\ ClosedInv'
  <2>1. phase' \in {phase, "failed", "panic"}
    BY <1>0
  <2> QED
    BY Zenon, <1>0, <2>1, ScannedStays
<1>2. RunInv'
  BY Zenon, <1>0 DEF RunInv, NameOf, imageIsUsedLater
<1>3. /\ resolved' \in [Stages -> Seq(Results)]
      /\ \A k \in Stages : k # j => resolved'[k] = resolved[k]
      /\ Len(resolved'[j]) = Len(resolved[j]) + 1 /\ Len(resolved[j]) \in Nat
      /\ resolved'[j][Len(resolved[j]) + 1] = r
      /\ \A m \in 1 .. Len(resolved[j]) : resolved'[j][m] = resolved[j][m]
  BY <1>0
<1>4. ASSUME ContextsApart(file), ResolvedAlike(file, override), NEW k \in Stages,
             NEW m \in 1 .. Len(resolved'[k])
      PROVE  resolved'[k][m] = Denotes(k, m)
  <2>1. ReferencesDenote
    BY Zenon, <1>0, <1>4 DEF ResolveInv
  <2>2. CASE k # j
    BY ZenonT(60), <1>3, <2>1, <2>2 DEF ReferencesDenote
  <2>3. CASE k = j
    <3>1. m \in 1 .. Len(resolved[j]) \/ m = Len(resolved[j]) + 1
      BY <1>3, <2>3
    <3>2. CASE m \in 1 .. Len(resolved[j])
      BY Zenon, <1>3, <2>1, <2>3, <3>2 DEF ReferencesDenote
    <3>3. CASE m = Len(resolved[j]) + 1
      BY Zenon, <1>3, <1>4, <2>3, <3>3
    <3> QED
      BY Zenon, <3>1, <3>2, <3>3
  <2> QED
    BY Zenon, <2>2, <2>3
<1>5. ContextsApart(file) /\ ResolvedAlike(file, override) => ReferencesDenote'
  <2> SUFFICES ASSUME ContextsApart(file), ResolvedAlike(file, override), NEW k \in Stages,
                      NEW m \in 1 .. Len(resolved'[k])
               PROVE  resolved'[k][m] = Denotes(k, m)'
    BY Zenon DEF ReferencesDenote
  <2> QED
    BY ZenonT(60), <1>0, <1>4, FixedFile
<1>6. ResolveInv'
  BY Zenon, <1>0, <1>3, <1>5 DEF ResolveInv
<1> QED
  BY Zenon, <1>1, <1>2, <1>6 DEF AllInv

\* What a reference can be resolved to
LEMMA ResultTypes ==
    ASSUME AllInv
    PROVE  /\ \A w \in Words : Image(w) \in Results
           /\ \A w \in DOMAIN Contexts : Image(Contexts[w]) \in Results
           /\ \A k \in Stages : StageResult(k, TRUE) \in Results
           /\ \A j \in Stages, w \in Words : StageOrImage(j, w) \in Results
<1>1. \A w \in Words : Image(w) \in Results
  BY DependencyAssumption DEF Image, Results
<1>2. \A w \in DOMAIN Contexts : Image(Contexts[w]) \in Results
  BY Zenon, <1>1, DependencyAssumption
<1>3. \A k \in Stages, b \in BOOLEAN : StageResult(k, b) \in Results
  BY Positions DEF StageResult, Results
<1>4. ASSUME NEW j \in Stages, NEW w \in Words PROVE StageOrImage(j, w) \in Results
  <2>1. CASE StartedBefore(j, w) = {}
    BY Zenon, <1>1, <2>1 DEF StageOrImage
  <2>2. CASE StartedBefore(j, w) # {}
    <3>1. PICK k : k = CHOOSE l \in StartedBefore(j, w) : TRUE
      BY Zenon
    <3>2. k \in StartedBefore(j, w)
      BY Zenon, <2>2, <3>1
    <3>3. k \in Stages
      BY Zenon, <3>2 DEF StartedBefore, NamedBy, AllInv, RunInv
    <3>4. (~layers \/ rootfsIsUsedLater(k)) \in BOOLEAN
      BY Zenon
    <3>5. ReadStage(k) \in Results
      BY Zenon, <1>3, <3>3, <3>4 DEF ReadStage
    <3> QED
      BY Zenon, <2>2, <3>1, <3>5 DEF StageOrImage
  <2> QED
    BY Zenon, <2>1, <2>2
<1> QED
  BY Zenon, <1>1, <1>2, <1>3, <1>4

\* Every step of a stage keeps the invariant
LEMMA WorkAll ==
    ASSUME AllInv, Inv', NEW j \in Stages, Work(j)
    PROVE  AllInv'
<1>0. UNCHANGED <<file, override, layers, scanned, marked>> /\ phase' \in {phase, "failed", "panic"}
  BY DEF Work, SkipStage, startStage, ExecuteFrom, CopyFrom, CopyFails, CopyPanics,
         runStageMountPoints, Poll, FinishStage, Resolve, Panic, vars
<1>1. ProgressInv' /\ RecordInv' /\ ClosedInv'
  BY Zenon, <1>0, ScannedStays
<1>2. /\ \A k : NameOf(k)' = NameOf(k) /\ (imageIsUsedLater(k)' <=> imageIsUsedLater(k))
      /\ UNCHANGED <<layers, neededByTarget>> /\ RunInv /\ ResolveInv
  BY <1>0 DEF NameOf, imageIsUsedLater, scanned, marked, AllInv
<1>3. ASSUME UNCHANGED resolved, RunInv' PROVE AllInv'
  BY Zenon, <1>0, <1>1, <1>2, <1>3, ResolveStays DEF AllInv
<1>4. CASE SkipStage(j)
  <2>1. /\ phase = "run" /\ phase' = phase /\ j \notin stages \cup terminatedStage
        /\ SkipUnusedStages /\ NameOf(j) \notin neededByTarget
        /\ terminatedStage' = terminatedStage \cup {j} /\ UNCHANGED <<stages, imageMap, resolved>>
    BY <1>4 DEF SkipStage
  <2>2. RunInv'
    BY <1>2, <2>1 DEF RunInv
  <2> QED
    BY Zenon, <1>3, <2>1, <2>2
<1>5. CASE startStage(j)
  <2>1. /\ phase = "run" /\ phase' = phase /\ j \notin stages \cup terminatedStage
        /\ NameOf(j) \in neededByTarget \/ ~SkipUnusedStages
        /\ stages' = stages \cup {j} /\ UNCHANGED <<terminatedStage, imageMap, resolved>>
    BY <1>5 DEF startStage
  <2>2. RunInv'
    BY <1>2, <2>1 DEF RunInv
  <2> QED
    BY Zenon, <1>3, <2>1, <2>2
<1>6. CASE FinishStage(j)
  <2>1. /\ phase = "run" /\ phase' = phase /\ j \in stages \ terminatedStage
        /\ terminatedStage' = terminatedStage \cup {j} /\ UNCHANGED <<stages, resolved>>
        /\ imageMap' = IF j < Target /\ (layers \/ imageIsUsedLater(j))
                       THEN imageMap \cup {NameOf(j)} ELSE imageMap
    BY <1>6 DEF FinishStage
  <2>2. RunInv'
    BY <1>2, <2>1 DEF RunInv
  <2> QED
    BY Zenon, <1>3, <2>1, <2>2
<1>7. CASE CopyFails(j) \/ CopyPanics(j) \/ Poll(j)
  <2>1. UNCHANGED <<stages, terminatedStage, imageMap, resolved>>
    BY <1>7 DEF CopyFails, CopyPanics, Poll, Panic, running, vars
  <2>2. phase = "run"
    BY <1>7 DEF CopyFails, CopyPanics, Poll, InStage
  <2>3. RunInv'
    <3>1. phase' \notin {"scan", "mark"}
      BY <1>0, <2>2
    <3> QED
      BY Zenon, <1>2, <2>1, <3>1 DEF RunInv
  <2> QED
    BY Zenon, <1>3, <2>1, <2>3
<1>8. CASE ExecuteFrom(j)
  <2>0. PICK base : base = from[j].word
    BY Zenon
  <2> DEFINE r == IF base \in imageMap THEN StageResult(CHOOSE k \in Stages : NameOf(k) = base, TRUE)
                  ELSE Image(base)
  <2>2. InStage(j) /\ At(j).kind = "FROM" /\ waitForStage(j, base) /\ Resolve(j, r)
    BY Zenon, <1>8, <2>0 DEF ExecuteFrom
  <2>3. r \in Results
    <3>1. base \in Words
      BY <2>0 DEF AllInv, ProgressInv
    <3>2. base \in imageMap => (CHOOSE k \in Stages : NameOf(k) = base) \in Stages
      <4>1. base \in imageMap => \E k \in Stages : NameOf(k) = base
        BY <1>2 DEF RunInv
      <4> QED
        BY Zenon, <4>1
    <3> QED
      BY Zenon, <3>1, <3>2, ResultTypes
  <2>4. ContextsApart(file) /\ ResolvedAlike(file, override) => r = Denotes(j, Len(resolved[j]) + 1)
    BY Zenon, <2>0, <2>2, FromDenotes
  <2> HIDE DEF r
  <2> QED
    BY Zenon, <2>2, <2>3, <2>4, ResolveAll
<1>9. CASE CopyFrom(j)
  <2>0. PICK name : name = StageNameOf(At(j).word)
    BY Zenon
  <2>1. InStage(j) /\ At(j).kind = "COPY" /\ ~OutOfRange(At(j).word)
    BY Zenon, <1>9 DEF CopyFrom
  <2>2. name \in Words
    <3>1. At(j).word \in Words /\ file \in Files
      BY Zenon, <2>1, AtFacts
    <3> QED
      BY Zenon, <2>0, <3>1, FileFacts DEF StageNameOf
  <2>3. CASE name \in DOMAIN Contexts
    <3>1. Resolve(j, Image(Contexts[name]))
      BY Zenon, <1>9, <2>0, <2>3 DEF CopyFrom
    <3>2. ResolvedAlike(file, override) => Image(Contexts[name]) = Denotes(j, Len(resolved[j]) + 1)
      BY Zenon, <2>0, <2>1, <2>3, CopyDenotes
    <3>3. Image(Contexts[name]) \in Results
      BY Zenon, <2>3, ResultTypes
    <3> QED
      BY Zenon, <2>1, <3>1, <3>2, <3>3, ResolveAll
  <2>4. CASE name \notin DOMAIN Contexts
    <3>1. /\ Resolve(j, StageOrImage(j, name)) /\ waitForStage(j, name)
          /\ StartedBefore(j, name) # {} \/ name = At(j).word
      BY Zenon, <1>9, <2>0, <2>4 DEF CopyFrom
    <3>2. ResolvedAlike(file, override) => StageOrImage(j, name) = Denotes(j, Len(resolved[j]) + 1)
      BY Zenon, <2>0, <2>1, <2>4, <3>1, CopyDenotes
    <3>3. StageOrImage(j, name) \in Results
      BY Zenon, <2>2, ResultTypes
    <3> QED
      BY Zenon, <2>1, <3>1, <3>2, <3>3, ResolveAll
  <2> QED
    BY Zenon, <2>3, <2>4
<1>10. CASE runStageMountPoints(j)
  <2>0. PICK word : word = At(j).word
    BY Zenon
  <2>1. InStage(j) /\ At(j).kind = "RUN"
    BY Zenon, <1>10 DEF runStageMountPoints
  <2>2. word \in Words
    BY Zenon, <2>0, <2>1, AtFacts
  <2>3. CASE word \in DOMAIN Contexts
    <3>1. Resolve(j, Image(Contexts[word]))
      BY Zenon, <1>10, <2>0, <2>3 DEF runStageMountPoints
    <3>2. ResolvedAlike(file, override) => Image(Contexts[word]) = Denotes(j, Len(resolved[j]) + 1)
      BY Zenon, <2>0, <2>1, <2>3, RunDenotes
    <3>3. Image(Contexts[word]) \in Results
      BY Zenon, <2>3, ResultTypes
    <3> QED
      BY Zenon, <2>1, <3>1, <3>2, <3>3, ResolveAll
  <2>4. CASE word \notin DOMAIN Contexts
    <3>1. Resolve(j, StageOrImage(j, word)) /\ waitForStage(j, word)
      BY Zenon, <1>10, <2>0, <2>4 DEF runStageMountPoints
    <3>2. ResolvedAlike(file, override) => StageOrImage(j, word) = Denotes(j, Len(resolved[j]) + 1)
      BY Zenon, <2>0, <2>1, <2>4, <3>1, RunDenotes
    <3>3. StageOrImage(j, word) \in Results
      BY Zenon, <2>2, ResultTypes
    <3> QED
      BY Zenon, <2>1, <3>1, <3>2, <3>3, ResolveAll
  <2> QED
    BY Zenon, <2>3, <2>4
<1> QED
  BY Zenon, <1>4, <1>5, <1>6, <1>7, <1>8, <1>9, <1>10 DEF Work

\* The invariant holds at the start
LEMMA InitAll == Init => AllInv
<1> SUFFICES ASSUME Init PROVE AllInv
  BY Zenon
<1>0. /\ file \in Files /\ override \in FromOverrides /\ fromOverride = override
      /\ from = [j \in Stages |-> Text(file.refs[j][1].word, file.refs[j][1].arg)]
      /\ phase = "scan" /\ i = 0 /\ n = 1 /\ known = {NameOf(0)} /\ needs = [w \in Words |-> {}]
      /\ neededByTarget = {} /\ pending = {}
      /\ stages = {} /\ imageMap = {} /\ terminatedStage = {}
      /\ resolved = [j \in Stages |-> << >>]
  BY Zenon DEF Init
<1>1. ProgressInv
  <2>1. \A j \in Stages : /\ 1 \in 1 .. Len(file.refs[j]) /\ file.refs[j][1].word \in Words
                          /\ file.refs[j][1].arg \in BOOLEAN
    BY <1>0, FileFacts
  <2>2. from \in [Stages -> [word : Words, arg : BOOLEAN]]
    BY <1>0, <2>1 DEF Text
  <2>3. known = NamesUpTo(0)
    BY <1>0, StageBounds, Positions DEF NamesUpTo
  <2>4. \A j \in Stages : from[j] = Text(file.refs[j][1].word, file.refs[j][1].arg)
    BY Zenon, <1>0
  <2>5. n \in 1 .. Len(file.refs[i])
    BY Zenon, <1>0, <2>1, StageBounds
  <2>6. phase \notin {"mark", "run"}
    BY <1>0
  <2> QED
    BY Zenon, <1>0, <2>2, <2>3, <2>4, <2>5, <2>6 DEF ProgressInv
<1>2. RecordInv
  <2>1. \A j \in Stages : \A m \in 1 .. Len(file.refs[j]) : ~Scanned(j, m)
    BY <1>0, FileFacts, Positions DEF Scanned
  <2>2. \A j \in Stages : needs[NameOf(j)] = {}
    BY Zenon, <1>0, NamesAreWords
  <2> QED
    BY Zenon, <2>1, <2>2 DEF RecordInv
<1>3. RunInv
  BY Zenon, <1>0 DEF RunInv
<1>4. ResolveInv
  <2>1. resolved \in [Stages -> Seq(Results)] /\ \A j \in Stages : Len(resolved[j]) = 0
    BY <1>0
  <2>2. \A m : m \notin 1 .. 0
    OBVIOUS
  <2>3. ReferencesDenote
    BY Zenon, <2>1, <2>2 DEF ReferencesDenote
  <2> QED
    BY Zenon, <2>1, <2>3 DEF ResolveInv
<1>5. ClosedInv
  BY Zenon, <1>0 DEF ClosedInv
<1> QED
  BY Zenon, <1>1, <1>2, <1>3, <1>4, <1>5, InitInv DEF AllInv

\* Every step keeps the invariant
LEMMA NextAll ==
    ASSUME AllInv, [Next]_vars
    PROVE  AllInv'
<1>0. Inv /\ RunInv /\ ResolveInv
  BY Zenon DEF AllInv
<1>1. Inv'
  BY Zenon, <1>0, NextInv
<1>2. CASE ScanFrom \/ ScanCopy \/ ScanRun
  BY Zenon, <1>1, <1>2, ScanAll
<1>3. CASE \E name \in Words : markDependencyStagesForTarget(name)
  BY Zenon, <1>1, <1>3, MarkAll
<1>4. CASE \E j \in Stages : Work(j)
  BY Zenon, <1>1, <1>4, WorkAll
<1>5. CASE ScanCopyPanics \/ StartRunning \/ UNCHANGED vars
  <2>1. /\ UNCHANGED <<file, override, layers, scanned, marked>>
        /\ UNCHANGED <<stages, terminatedStage, imageMap, resolved>>
        /\ \/ phase' \in {phase, "failed", "panic"}
           \/ phase = "mark" /\ phase' = "run"
    BY <1>5 DEF ScanCopyPanics, Panic, StartRunning, running, vars
  <2>2. ProgressInv' /\ RecordInv' /\ ClosedInv'
    BY Zenon, <1>1, <2>1, ScannedStays
  <2>3. ResolveInv'
    BY Zenon, <1>0, <2>1, ResolveStays
  <2>4. phase' \in {"scan", "mark"} => phase \in {"scan", "mark"}
    BY <2>1
  <2>5. baseMap' = baseMap /\ neededByTarget' = neededByTarget
    BY <2>1 DEF scanned, marked
  <2>6. RunInv'
    BY Zenon, <1>0, <2>1, <2>4, <2>5 DEF RunInv, NameOf, imageIsUsedLater
  <2> QED
    BY Zenon, <1>1, <2>2, <2>3, <2>6 DEF AllInv
<1> QED
  BY Zenon, <1>2, <1>3, <1>4, <1>5 DEF Next, Prepare, Over

\* Scanning, marking and running keep the invariant in every build
LEMMA AllAlways == Spec => []AllInv
BY InitAll, NextAll, PTL DEF Spec

\* The marked stages are closed under Needs when the stages run: no stage that
\* markDependencyStagesForTarget kept needs one that is skipped.
THEOREM NeedsAreMarked == Spec => []NeedsMarked
<1>1. Inv => NeedsMarked
  BY DEF Inv, MarkInv, NeedsMarked
<1> QED
  BY <1>1, InitInv, NextInv, PTL DEF Spec

\* In Containerfiles whose references have forms that are resolved alike,
\* every FROM, COPY --from and RUN --mount of a stage uses the build context,
\* the finished stage or the image that the manual says it names, whatever is
\* skipped, cached or run at the same time (ExecuteFrom, CopyFrom,
\* runStageMountPoints).
THEOREM ReferencesAlwaysDenote ==
    Spec => [](ContextsApart(file) /\ ResolvedAlike(file, override) => ReferencesDenote)
<1>1. AllInv => (ContextsApart(file) /\ ResolvedAlike(file, override) => ReferencesDenote)
  BY Zenon DEF AllInv, ResolveInv
<1> QED
  BY <1>1, AllAlways, PTL

\* With --skip-unused-stages no stage runs that does not affect the target,
\* unless a build context leads to the name of a stage (startStage).
THEOREM UnusedAlwaysSkipped == Spec => [](ContextsApart(file) => UnusedStagesSkipped)
<1>1. AllInv => (ContextsApart(file) => UnusedStagesSkipped)
  <2> SUFFICES ASSUME AllInv, ContextsApart(file), SkipUnusedStages, NEW j \in stages,
                      NEW S \in SUBSET Stages, Target \in S, \A k \in S : Uses(k) \subseteq S
               PROVE  j \in S
    BY Zenon DEF UnusedStagesSkipped
  <2>1. NameOf(j) \in neededByTarget /\ j \in Stages /\ file \in Files
    BY Zenon DEF AllInv, RunInv, Inv, ScanInv
  <2>2. PICK k \in S : NameOf(j) = NameOf(k)
    BY Zenon, <2>1 DEF AllInv, ClosedInv
  <2>3. j = k
    BY <2>1, <2>2, FileFacts
  <2> QED
    BY Zenon, <2>3
<1> QED
  BY <1>1, AllAlways, PTL
============================================================================
