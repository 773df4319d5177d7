----------------------- MODULE ExecutorSharingProofs -----------------------
(***************************************************************************)
(* What the stages of a build share without a lock (Executor): the label,   *)
(* the maps, the builders that the cleanup deletes, and the containers that *)
(* it has to find.  For every number of stages and every Containerfile.     *)
(*                                                                          *)
(* All of it rests on CancelInv: an error anywhere has set the cancel flag, *)
(* and Build only leaves its loop when that is so or when every stage has   *)
(* succeeded.                                                               *)
(***************************************************************************)
EXTENDS ExecutorProofs

CancelInv ==
    /\ \A n \in 1 .. Len(ch) : ch[n].error => cancel
    /\ \A i \in Stages : /\ terminatedStage[i] = "error" => cancel
                         /\ pc[i] \in {"erring", "refused"} => cancel
                         /\ i < next => pc[i] # "idle"
    /\ mpc # "receive" => cancel \/ AllSucceeded
    /\ cleanupNil => mpc # "receive"

\* The first of a list of names is a name
LEMMA HeadName == \A s \in Seq(Names) : s # <<>> => Head(s) \in Names
  OBVIOUS

\* The dispatcher is at a stage until it has dispatched them all
LEMMA NextStage == next \in 0 .. NumStages /\ next < NumStages => next \in Stages /\ next >= next
  BY SizeAssumption DEF Stages

\* and what comes before a stage it has dispatched, it has dispatched
LEMMA Earlier ==
  ASSUME next \in 0 .. NumStages, NEW i \in Stages, NEW b \in Stages, b < i, ~(i >= next)
  PROVE  b < next /\ b # i
  BY SizeAssumption DEF Stages

\* A step of a goroutine that errs sets cancel, or finds it set
LEMMA StageCancel ==
  ASSUME TypeInv, CancelInv, NEW i \in Stages, StageWork(i) \/ Wake(i)
  PROVE  /\ cancel => cancel'
         /\ pc'[i] \in {"erring", "refused"} => cancel'
         /\ ch' = ch \/ \E r \in Result : ch' = Append(ch, r) /\ (r.error => cancel')
         /\ UNCHANGED cleanupNil /\ pc'[i] # "idle"
  <1> USE DEF semVars, ctlVars, stageVars, regVars, rootVars, mainVars, storeVars, Goto
  <1>0. pc \in [Stages -> StagePC] /\ cancel \in BOOLEAN
    BY DEF TypeInv, TypeOK
  <1>1. CASE ch' = ch /\ UNCHANGED <<cancel, cleanupNil>> /\ pc'[i] \notin {"erring", "refused", "idle"}
    BY <1>1
  <1>2. CASE ch' = ch /\ cancel' = TRUE /\ UNCHANGED cleanupNil /\ pc'[i] # "idle"
    BY <1>2
  <1>3. CASE Wake(i) \/ PollBase(i) \/ PollRead(i)
    BY ZenonT(60), <1>0, <1>1, <1>2, <1>3 DEF Wake, Reacquire, PollBase, PollRead, Poll, StageError
  <1>4. CASE StartStage(i) \/ LookupBase(i) \/ NewBuilder(i) \/ MountBuilder(i)
    BY <1>0, <1>1, <1>4 DEF StartStage, ExecuteFrom, LookupBase, NewBuilder, MountBuilder
  <1>5. CASE \/ NewBuilderFails(i) \/ MountBuilderFails(i) \/ RootfsMakeFails(i) \/ RebaseFails(i)
             \/ StepFails(i)
    BY Zenon, <1>0, <1>2, <1>5
    DEF NewBuilderFails, MountBuilderFails, RootfsMakeFails, RebaseFails, StepFails, StageError
  <1>6. CASE BeginRead(i) \/ ReadStage(i) \/ ReadImage(i) \/ RootfsLookup(i) \/ RootfsMake(i)
    BY ZenonT(60), <1>0, <1>1, <1>2, <1>6
    DEF BeginRead, ReadStage, ReadImage, RootfsLookup, RootfsMake, ReadDone, StageError
  <1>7. CASE Rebase(i) \/ UseDeletedBuilder(i) \/ ReleaseToken(i)
    BY <1>0, <1>1, <1>7 DEF Rebase, CanRebase, UseDeletedBuilder, ReleaseToken
  <1>8. CASE StageCanceled(i) \/ ReportError(i)
    <2> DEFINE r == [index |-> i, image |-> NoImage, error |-> TRUE]
    <2>1. ch' = Append(ch, r) /\ pc'[i] = "sent" /\ UNCHANGED <<cancel, cleanupNil>>
      BY <1>0, <1>8 DEF StageCanceled, ReportError, Send
    <2>2. cancel
      BY <1>8 DEF StageCanceled, ReportError, CancelInv
    <2>3. r \in Result
      BY DEF Result
    <2> QED
      BY <2>1, <2>2, <2>3
  <1>9. CASE StageSkipped(i) \/ FinishStage(i)
    <2>1. PICK image \in Images \cup {NoImage} :
            ch' = Append(ch, [index |-> i, image |-> image, error |-> FALSE])
      BY Zenon, <1>9, StageNames DEF StageSkipped, FinishStage, Send, TypeInv, TypeOK
    <2> DEFINE r == [index |-> i, image |-> image, error |-> FALSE]
    <2>2. r \in Result /\ ~r.error
      BY DEF Result
    <2>3. pc'[i] = "sent" /\ UNCHANGED <<cancel, cleanupNil>>
      BY <1>0, <1>9 DEF StageSkipped, FinishStage
    <2> QED
      BY <2>1, <2>2, <2>3
  <1> QED
    BY <1>3, <1>4, <1>5, <1>6, <1>7, <1>8, <1>9 DEF StageWork

\* Nothing is canceled at the start
LEMMA InitCancel == Init => CancelInv
  <1> SUFFICES ASSUME Init PROVE CancelInv
    BY Zenon
  <1>1. /\ \A i \in Stages : pc[i] = "idle" /\ terminatedStage[i] = "no"
        /\ mpc = "receive" /\ ~cleanupNil
    BY Zenon DEF Init
  <1>2. ch = << >> /\ next = 0
    BY Zenon DEF Init
  <1>3. (\A n \in 1 .. Len(ch) : ch[n].error => cancel) /\ (\A i \in Stages : ~(i < next))
    BY <1>2, SizeAssumption DEF Stages
  <1> QED
    BY Zenon, <1>1, <1>3 DEF CancelInv

\* Once canceled, for good
LEMMA CancelStays == ASSUME TypeInv, CancelInv, [Next]_vars, cancel PROVE cancel'
  <1> USE DEF semVars, ctlVars, stageVars, regVars, rootVars, mainVars, storeVars
  <1>1. CASE Main
    BY Zenon, <1>1 DEF Main, ReceiveSuccess, ReceiveError, ReturnError, ChannelClosed, AddTags,
       DeleteStages, DeleteRoots, DeleteIntermediateCtrs, DeleteImages, ReportImage
  <1> QED
    BY Zenon, <1>1, StageCancel
    DEF Next, CancelContext, Dispatch, DispatchFails, MapRace, Terminated, vars

\* Every step keeps errors and the cancel flag together
LEMMA NextCancel ==
  ASSUME ExecInv, CancelInv, [Next]_vars
  PROVE  CancelInv'
  <1> USE DEF semVars, ctlVars, stageVars, regVars, rootVars, mainVars, storeVars, Goto
  <1>i. TypeInv /\ BaseInv /\ ResultInv
    BY DEF ExecInv
  <1>p. pc \in [Stages -> StagePC] /\ next \in 0 .. NumStages
    BY <1>i DEF TypeInv, TypeOK
  <1>c. cancel => cancel'
    BY <1>i, CancelStays
  <1>1. CASE UNCHANGED <<ch, terminatedStage, pc, next, mpc, cleanupNil>>
    BY <1>1, <1>c DEF CancelInv, AllSucceeded
  <1>2. CASE CancelContext \/ MapRace \/ UNCHANGED vars
    BY <1>1, <1>2 DEF CancelContext, MapRace, vars
  <1>3. ASSUME NEW i \in Stages, StageWork(i) \/ Wake(i) PROVE CancelInv'
    <2>1. Shape(i)
      BY <1>3, <1>i, StageShape
    <2>2. /\ UNCHANGED <<next, terminatedStage, mpc>>
          /\ \A k \in Stages : k # i => pc'[k] = pc[k]
      BY <1>p, <2>1 DEF Shape
    <2>3. i < next /\ pc'[i] # "idle"
      BY <1>3, <1>i, <1>p, <2>1, SizeAssumption, StageCancel DEF Shape, BaseInv, DispatchInv, Stages
    <2>4. \A n \in 1 .. Len(ch') : ch'[n].error => cancel'
      <3>1. CASE ch' = ch
        BY <1>c, <3>1 DEF CancelInv
      <3>2. ASSUME NEW r \in Result, ch' = Append(ch, r), r.error => cancel'
            PROVE  \A n \in 1 .. Len(ch') : ch'[n].error => cancel'
        BY <1>c, <1>i, <3>2, AppendResult DEF CancelInv
      <3> QED
        BY <1>3, <1>i, <3>1, <3>2, StageCancel
    <2> QED
      BY Zenon, <1>3, <1>c, <1>i, <2>2, <2>3, <2>4, StageCancel DEF CancelInv, AllSucceeded
  <1>4. CASE Dispatch
    <2>1. next \in Stages /\ pc[next] = "idle" /\ next' = next + 1
      BY <1>4, <1>i, <1>p, SizeAssumption DEF Dispatch, BaseInv, DispatchInv, Stages
    <2>2. cleanupNil => cancel
      BY <1>i, <2>1, AllEnded DEF CancelInv, Ended
    <2>3. UNCHANGED <<ch, terminatedStage, mpc, cleanupNil, cancel>>
      BY <1>4 DEF Dispatch
    <2>4. pc' = [pc EXCEPT ![next] = IF cleanupNil THEN "refused" ELSE "spawned"]
      BY <1>4 DEF Dispatch
    <2>5. \A i \in Stages : i # next => (i < next' <=> i < next)
      BY <1>p, <2>1 DEF Stages
    <2> QED
      BY <1>p, <2>1, <2>2, <2>3, <2>4, <2>5 DEF CancelInv, AllSucceeded
  <1>5. CASE DispatchFails
    <2>1. next \in Stages /\ next' = next + 1 /\ cancel' = TRUE /\ UNCHANGED <<mpc, cleanupNil>>
      BY <1>5, <1>p, SizeAssumption DEF DispatchFails, Stages
    <2>2. pc' = [pc EXCEPT ![next] = "done"]
      BY <1>5 DEF DispatchFails
    <2>3. \A i \in Stages : i # next => (i < next' <=> i < next)
      BY <1>p, <2>1 DEF Stages
    <2> QED
      BY <1>p, <2>1, <2>2, <2>3 DEF CancelInv
  <1>6. CASE ReceiveSuccess \/ ReceiveError
    <2>0. ch # << >> /\ ch' = Tail(ch) /\ UNCHANGED <<pc, next, cancel, cleanupNil>> /\ mpc = "receive"
      BY <1>6 DEF ReceiveSuccess, ReceiveError
    <2>1. /\ 1 \in 1 .. Len(ch) /\ Head(ch) = ch[1] /\ ch[1].index \in Stages
          /\ \A n \in 1 .. Len(ch') : n + 1 \in 1 .. Len(ch) /\ ch'[n] = ch[n + 1]
      BY <1>i, <2>0, TailResult
    <2>2. terminatedStage \in [Stages -> {"no", "ok", "error"}]
      BY ZenonT(60), <1>i DEF TypeInv, TypeOK
    <2>3. CASE ReceiveSuccess
      BY SMTT(60), <2>0, <2>1, <2>2, <2>3 DEF ReceiveSuccess, CancelInv
    <2>4. CASE ReceiveError
      BY <2>0, <2>1, <2>2, <2>4 DEF ReceiveError, ReturnAfterError, CancelInv
    <2> QED
      BY ZenonT(60), <1>6, <2>3, <2>4
  <1>7. CASE ChannelClosed
    <2>1. UNCHANGED <<ch, terminatedStage, pc, next, cleanupNil, cancel>> /\ ch = << >>
      BY Zenon, <1>7 DEF ChannelClosed
    <2>2. AllSucceeded
      BY <1>7, <1>i
      DEF ChannelClosed, AllStagesDone, ResultInv, DeliveredInv, OutcomeInv, AllSucceeded, Ended,
          TypeInv, TypeOK
    <2>3. AllSucceeded' /\ mpc' # "receive"
      BY <1>7, <2>1, <2>2 DEF AllSucceeded, ChannelClosed
    <2> QED
      BY <2>1, <2>3 DEF CancelInv
  <1>8. CASE ReturnError \/ AddTags \/ ReportImage \/ DeleteStages \/ DeleteRoots
             \/ DeleteIntermediateCtrs \/ DeleteImages
    <2>1. UNCHANGED <<ch, terminatedStage, pc, next, cancel>>
      BY ZenonT(60), <1>8 DEF ReturnError, AddTags, ReportImage, DeleteStages, DeleteRoots,
         DeleteIntermediateCtrs, DeleteImages
    <2>2. mpc # "receive" /\ mpc' # "receive"
      BY Zenon, <1>8 DEF ReturnError, AddTags, ReportImage, DeleteStages, DeleteRoots,
         DeleteIntermediateCtrs, DeleteImages
    <2> QED
      BY <2>1, <2>2 DEF CancelInv, AllSucceeded
  <1> QED
    BY <1>2, <1>3, <1>4, <1>5, <1>6, <1>7, <1>8 DEF Next, Main, Terminated

-----------------------------------------------------------------------------
(***************************************************************************)
(* One job.  Until a first stage has fixed the label, nobody can be waiting *)
(* for another stage, so no token is lost even if the context is canceled,  *)
(* and one goroutine at a time is at work: whoever ended before was         *)
(* skipped, or the build is canceled and nobody starts any more.            *)
(***************************************************************************)
Fresh == {"lookup", "prepare", "mount"}

SoleInv ==
    label = NoLabel =>
        /\ \A i \in Stages : pc[i] \notin NoToken =>
                cur = 1 /\ \A j \in Stages : pc[j] \notin NoToken => j = i
        /\ (\A i \in Stages : pc[i] \in NoToken) => cur = 0
        /\ \A i \in Stages : /\ pc[i] \in Running => pc[i] \in Fresh
                             /\ pc[i] \in Ended /\ ~cancel => Skipped(i)
        /\ \A c \in containers : /\ pc[c.stage] = "mount" /\ c.k = made[c.stage]
                                 /\ c.label = <<c.stage, c.k>>

LabelInv == label # NoLabel => \A c \in containers : c.label = label

SerialInv == SoleInv /\ LabelInv

\* What a container is in the store
LEMMA ContainerFields ==
  ASSUME TypeInv, NEW c \in containers
  PROVE  c.stage \in Stages /\ c.k \in Nat /\ c.image \in Images /\ c.label \in Int \X Nat
  BY Zenon DEF TypeInv, TypeOK

\* The goroutine that holds the token moves on and nothing else happens
LEMMA SoleMoves ==
  ASSUME TypeInv, SerialInv, NEW i \in Stages, NEW to \in StagePC \ NoToken,
         pc[i] \notin NoToken \cup {"mount"}, pc' = [pc EXCEPT ![i] = to],
         UNCHANGED <<file, cur, label, containers, made>>, cancel => cancel',
         label = NoLabel => /\ to \in Running => to \in Fresh
                            /\ to \in Ended => cancel' \/ Skipped(i)
  PROVE  SerialInv'
  <1>0. pc \in [Stages -> StagePC] /\ \A c \in containers : c.stage \in Stages
    BY Zenon, ContainerFields DEF TypeInv, TypeOK
  <1>1. LabelInv'
    BY DEF SerialInv, LabelInv
  <1>2. \A k \in Stages : /\ k # i => pc'[k] = pc[k]
                          /\ Skipped(k)' = Skipped(k)
    BY <1>0 DEF Skipped
  <1>3. pc'[i] = to /\ \A k \in Stages : pc'[k] \in NoToken <=> pc[k] \in NoToken
    BY <1>0
  <1>4. SoleInv'
    <2> SUFFICES ASSUME label' = NoLabel PROVE SoleInv'
      BY DEF SoleInv
    <2>1. label = NoLabel
      BY Zenon
    <2>2. \A c \in containers' : pc'[c.stage] = "mount" /\ c.k = made'[c.stage] /\ c.label = <<c.stage, c.k>>
      BY ZenonT(60), <1>0, <2>1, <1>2 DEF SerialInv, SoleInv
    <2>3. \A k \in Stages : /\ pc'[k] \in Running => pc'[k] \in Fresh
                            /\ pc'[k] \in Ended /\ ~cancel' => Skipped(k)'
      BY <2>1, <1>2, <1>3 DEF SerialInv, SoleInv
    <2>4. \A k \in Stages : pc'[k] \notin NoToken =>
                cur' = 1 /\ \A j \in Stages : pc'[j] \notin NoToken => j = k
      BY ZenonT(60), <2>1, <1>3 DEF SerialInv, SoleInv
    <2>5. (\A k \in Stages : pc'[k] \in NoToken) => cur' = 0
      BY <2>1, <1>3 DEF SerialInv, SoleInv
    <2> QED
      BY ZenonT(60), <2>2, <2>3, <2>4, <2>5 DEF SoleInv
  <1> QED
    BY <1>1, <1>4 DEF SerialInv

\* With the label fixed, every container is made with it
LEMMA LabelKept ==
  ASSUME TypeInv, SerialInv, label # NoLabel, label' = label,
         \A c \in containers' : c \in containers \/ c.label = label
  PROVE  SerialInv'
  BY DEF SerialInv, SoleInv, LabelInv

\* The first stage that starts has no base in the build
LEMMA FirstStage ==
  ASSUME TypeInv, SerialInv, CancelInv, BaseInv, label = NoLabel, NEW i \in Stages, pc[i] = "spawned",
         ~cancel, ~Skipped(i)
  PROVE  file.base[i] = Ext
  <1> SUFFICES ASSUME file.base[i] # Ext PROVE FALSE
    OBVIOUS
  <1> DEFINE b == file.base[i]
  <1>1. b \in Stages /\ ~Skipped(b)
    BY NeededClosed
  <1>2. b < i
    <2>1. IsContainerfile(file)
      BY Zenon, ContainerfileAssumption DEF TypeInv, TypeOK
    <2> QED
      BY <1>1, <2>1, StageNames DEF IsContainerfile
  <1>3. b < next /\ b # i
    <2>1. next \in 0 .. NumStages /\ ~(i >= next)
      BY Zenon DEF BaseInv, DispatchInv, TypeInv, TypeOK
    <2> QED
      BY Zenon, <1>1, <1>2, <2>1, Earlier
  <1>4. pc[b] \in NoToken
    <2>1. pc[i] \notin NoToken
      BY Zenon DEF NoToken
    <2> QED
      BY Zenon, <1>1, <1>3, <2>1 DEF SerialInv, SoleInv
  <1>5. pc[b] # "idle"
    BY <1>1, <1>3 DEF CancelInv
  <1>6. pc[b] # "fromSleep" /\ pc[b] # "readSleep"
    BY <1>1 DEF SerialInv, SoleInv, Running, HasBase, Fresh
  <1>7. pc[b] # "done"
    BY <1>1 DEF SerialInv, SoleInv, Ended
  <1> QED
    BY <1>4, <1>5, <1>6, <1>7 DEF NoToken

\* With one job, a step of a goroutine keeps the label shared
LEMMA StageSerial ==
  ASSUME TypeInv, BaseInv, CancelInv, SerialInv, NEW i \in Stages, StageWork(i) \/ Wake(i)
  PROVE  SerialInv'
  <1> USE DEF semVars, ctlVars, stageVars, regVars, rootVars, mainVars, storeVars, Goto
  <1>0. /\ pc \in [Stages -> StagePC] /\ \A c \in containers : c.stage \in Stages /\ c.k \in Nat
        /\ made \in [Stages -> Nat]
    BY ZenonT(30), ContainerFields DEF TypeInv, TypeOK
  <1>1. label = NoLabel /\ pc[i] \in Running => pc[i] \in Fresh
    BY DEF SerialInv, SoleInv
  <1>2. CASE label # NoLabel
    <2>1. CASE NewBuilder(i)
      BY <1>2, <2>1, LabelKept DEF NewBuilder, MakeContainer
    <2>2. CASE RootfsMake(i)
      BY <1>2, <2>2, LabelKept DEF RootfsMake, MakeContainer
    <2>3. CASE Rebase(i)
      BY SMTT(60), <1>2, <2>3, LabelKept DEF Rebase, MakeContainer
    <2>4. CASE MountBuilder(i) \/ MountBuilderFails(i)
      BY <1>2, <2>4, LabelKept DEF MountBuilder, MountBuilderFails, ShareLabel, Without
    <2>5. CASE UNCHANGED <<label, containers>>
      BY Zenon, <1>2, <2>5, LabelKept
    <2> QED
      BY ZenonT(60), <2>1, <2>2, <2>3, <2>4, <2>5
      DEF StageWork, Wake, StageCanceled, StageSkipped, StartStage, PollBase, LookupBase,
          NewBuilderFails, BeginRead, PollRead, ReadStage, ReadImage, RootfsLookup,
          RootfsMakeFails, RebaseFails, StepFails, FinishStage, UseDeletedBuilder, ReportError,
          ReleaseToken
  <1>3. CASE label = NoLabel
    <2> USE <1>3
    <2>1. CASE StageCanceled(i) \/ ReportError(i)
      <3>1. cancel /\ pc[i] \in {"refused", "spawned", "erring"} /\ pc' = [pc EXCEPT ![i] = "sent"]
        BY <2>1 DEF StageCanceled, ReportError, CancelInv
      <3>2. UNCHANGED <<file, cur, label, containers, made, cancel>>
        BY <2>1 DEF StageCanceled, ReportError
      <3> QED
        BY ZenonT(60), <3>1, <3>2, SoleMoves DEF NoToken, StagePC, Running, HasBase
    <2>2. CASE StageSkipped(i)
      <3>1. UNCHANGED <<file, cur, label, containers, made, cancel>>
        BY <2>2 DEF StageSkipped
      <3> QED
        BY ZenonT(60), <2>2, <3>1, SoleMoves DEF StageSkipped, NoToken, StagePC, Running, HasBase
    <2>3. CASE StartStage(i)
      <3>1. pc[i] = "spawned" /\ pc' = [pc EXCEPT ![i] = "lookup"]
        BY ZenonT(60), <2>3, FirstStage DEF StartStage, ExecuteFrom
      <3>2. UNCHANGED <<file, cur, label, containers, made, cancel>>
        BY <2>3 DEF StartStage
      <3> QED
        BY Zenon, <3>1, <3>2, SoleMoves DEF NoToken, StagePC, Fresh, Ended
    <2>4. CASE LookupBase(i)
      <3>1. UNCHANGED <<file, cur, label, containers, made, cancel>>
        BY <2>4 DEF LookupBase
      <3>2. pc[i] = "lookup" /\ pc' = [pc EXCEPT ![i] = "prepare"]
        BY <2>4 DEF LookupBase
      <3> QED
        BY ZenonT(30), <3>1, <3>2, SoleMoves DEF NoToken, StagePC, Fresh, Ended
    <2>5. CASE NewBuilderFails(i)
      <3>1. UNCHANGED <<file, cur, label, containers, made>> /\ cancel'
        BY <2>5 DEF NewBuilderFails, StageError
      <3> QED
        BY ZenonT(60), <2>5, <3>1, SoleMoves
        DEF NewBuilderFails, StageError, NoToken, StagePC, Running, HasBase
    <2>6. CASE NewBuilder(i)
      <3> DEFINE c == [stage |-> i, k |-> made[i] + 1, image |-> baseImage[i],
                       label |-> <<i, made[i] + 1>>]
      <3>1. containers = {}
        <4>1. pc[i] = "prepare" /\ pc[i] \notin NoToken
          BY <2>6 DEF NewBuilder, NoToken
        <4>2. ASSUME NEW d \in containers PROVE FALSE
          <5>1. pc[d.stage] = "mount" /\ d.stage \in Stages
            BY Zenon, <1>0 DEF SerialInv, SoleInv
          <5>2. d.stage = i
            BY ZenonT(60), <4>1, <5>1 DEF SerialInv, SoleInv, NoToken
          <5> QED
            BY SMTT(60), <4>1, <5>1, <5>2
        <4> QED
          BY ZenonT(60), <4>2
      <3>2. containers' = {c} /\ made' = [made EXCEPT ![i] = made[i] + 1]
        BY <2>6, <3>1 DEF NewBuilder, MakeContainer
      <3>3. pc[i] = "prepare" /\ pc' = [pc EXCEPT ![i] = "mount"]
            /\ UNCHANGED <<file, cur, label, cancel>>
        BY ZenonT(60), <2>6 DEF NewBuilder
      <3>4. \A d \in containers' : /\ pc'[d.stage] = "mount" /\ d.k = made'[d.stage]
                                   /\ d.label = <<d.stage, d.k>>
        BY SMTT(60), <1>0, <3>2, <3>3
      <3>5. \A k \in Stages : /\ pc'[k] \in NoToken <=> pc[k] \in NoToken
                              /\ pc'[k] \in Ended => pc[k] \in Ended
                              /\ pc'[k] \in Running => pc[k] \in Running /\ (pc'[k] = pc[k] \/ pc'[k] = "mount")
                              /\ Skipped(k)' = Skipped(k)
        BY ZenonT(60), <1>0, <3>3 DEF NoToken, Ended, Running, HasBase, Skipped
      <3>6. SoleInv'
        BY <3>3, <3>4, <3>5 DEF SerialInv, SoleInv, Fresh
      <3> QED
        BY <3>3, <3>6 DEF SerialInv, LabelInv
    <2>7. CASE MountBuilder(i) \/ MountBuilderFails(i)
      <3>1. /\ pc[i] = "mount" /\ containers' \subseteq containers
            /\ \E c \in containers : c.stage = i /\ c.k = made[i] /\ label' = c.label
        BY ZenonT(30), <2>7 DEF MountBuilder, MountBuilderFails, ShareLabel, Without
      <3>2. \A c \in containers : c.stage = i /\ c.k = made[i] /\ c.label = <<i, made[i]>>
        BY ZenonT(60), <1>0, <3>1 DEF SerialInv, SoleInv, NoToken
      <3>3. label' = <<i, made[i]>> /\ \A c \in containers' : c.label = label'
        BY <3>1, <3>2
      <3>4. i # -1
        BY SMTT(60) DEF Stages
      <3>5. label' # NoLabel
        BY <3>3, <3>4 DEF NoLabel
      <3> QED
        BY ZenonT(30), <3>3, <3>5 DEF SerialInv, SoleInv, LabelInv
    <2>8. CASE ReleaseToken(i)
      <3>1. pc[i] = "sent" /\ pc' = [pc EXCEPT ![i] = "done"] /\ cur' = cur - 1
            /\ UNCHANGED <<file, label, containers, made, cancel>>
        BY ZenonT(60), <2>8 DEF ReleaseToken, Release
      <3>2. cur = 1 /\ \A k \in Stages : k # i => pc[k] \in NoToken /\ pc'[k] = pc[k]
        BY <1>0, <3>1 DEF SerialInv, SoleInv, NoToken
      <3>3. pc'[i] = "done" /\ cur' = 0 /\ \A k \in Stages : pc'[k] \in NoToken
        BY <1>0, <3>1, <3>2 DEF NoToken
      <3>4. containers = {}
        BY Zenon, <1>0, <3>1 DEF SerialInv, SoleInv, NoToken
      <3>5. \A k \in Stages : /\ pc'[k] \in Running => pc[k] \in Running /\ pc'[k] = pc[k]
                              /\ pc'[k] \in Ended => pc[k] \in Ended
                              /\ Skipped(k)' = Skipped(k)
        BY Zenon, <1>0, <3>1 DEF Running, HasBase, Ended, Skipped
      <3>6. SoleInv'
        BY ZenonT(60), <3>1, <3>3, <3>4, <3>5 DEF SerialInv, SoleInv
      <3> QED
        BY <3>1, <3>6 DEF SerialInv, LabelInv
    <2>9. pc[i] \notin Running \ Fresh
      BY <1>1
    <2>10. CASE Wake(i) \/ PollBase(i) \/ PollRead(i) \/ BeginRead(i) \/ ReadStage(i) \/ ReadImage(i)
      BY ZenonT(30), <2>9, <2>10
      DEF Wake, PollBase, PollRead, BeginRead, ReadStage, ReadImage, Running, HasBase, Fresh
    <2>11. CASE RootfsLookup(i) \/ RootfsMake(i) \/ RootfsMakeFails(i) \/ FinishStage(i)
      BY ZenonT(60), <2>9, <2>11
      DEF RootfsLookup, RootfsMake, RootfsMakeFails, FinishStage, Running, HasBase, Fresh
    <2>12. CASE Rebase(i) \/ RebaseFails(i) \/ StepFails(i) \/ UseDeletedBuilder(i)
      BY ZenonT(60), <2>9, <2>12
      DEF Rebase, RebaseFails, CanRebase, StepFails, UseDeletedBuilder, Running, HasBase, Fresh
    <2> QED
      BY ZenonT(60), <2>1, <2>2, <2>3, <2>4, <2>5, <2>6, <2>7, <2>8, <2>10, <2>11, <2>12 DEF StageWork
  <1> QED
    BY <1>2, <1>3

\* Nobody has made a container at the start
LEMMA InitSerial == Init => SerialInv
  BY DEF Init, SerialInv, SoleInv, LabelInv, NoToken, Running, HasBase, Ended

\* With one job, every step keeps the label shared
LEMMA NextSerial ==
  ASSUME Jobs = 1, ExecInv, CancelInv, SerialInv, [Next]_vars
  PROVE  SerialInv'
  <1> USE DEF semVars, ctlVars, stageVars, regVars, rootVars, mainVars, storeVars, Goto
  <1>i. TypeInv /\ BaseInv
    BY DEF ExecInv
  <1>0. /\ pc \in [Stages -> StagePC] /\ cur \in Int /\ next \in 0 .. NumStages
        /\ \A c \in containers : c.stage \in Stages
    BY ZenonT(60), <1>i, ContainerFields DEF TypeInv, TypeOK
  <1>1. ASSUME UNCHANGED <<file, pc, cur, label, made, cancel>>, containers' \subseteq containers
        PROVE  SerialInv'
    BY <1>1 DEF SerialInv, SoleInv, LabelInv, Skipped
  <1>2. CASE Main
    <2>1. UNCHANGED <<file, pc, cur, label, made, cancel>>
      BY ZenonT(30), <1>2 DEF Main, ReceiveSuccess, ReceiveError, ReturnError, ChannelClosed, AddTags,
         DeleteStages, DeleteRoots, DeleteIntermediateCtrs, DeleteImages, ReportImage
    <2>2. containers' \subseteq containers
      BY ZenonT(60), <1>2 DEF Main, ReceiveSuccess, ReceiveError, ReturnError, ChannelClosed, AddTags,
         DeleteStages, DeleteRoots, DeleteIntermediateCtrs, DeleteImages, ReportImage, Without
    <2> QED
      BY <1>1, <2>1, <2>2
  <1>3. CASE CancelContext \/ MapRace \/ UNCHANGED vars
    BY <1>1, <1>3 DEF CancelContext, MapRace, vars
  <1>4. CASE Dispatch \/ DispatchFails
    <2>0. PICK i \in Stages : i = next /\ pc[i] = "idle"
      BY <1>0, <1>4, <1>i, SizeAssumption DEF Dispatch, DispatchFails, BaseInv, DispatchInv, Stages
    <2>1. UNCHANGED <<file, label, made, containers>>
      BY <1>4 DEF Dispatch, DispatchFails
    <2>2. CASE label # NoLabel
      BY Zenon, <2>1, <2>2, <1>i, LabelKept
    <2>3. CASE label = NoLabel /\ Dispatch
      <3>1. cur' = cur + 1 /\ cur < 1 /\ cancel' = cancel
        BY <2>3 DEF Dispatch, Acquire
      <3>2. \A k \in Stages : pc[k] \in NoToken
        <4> SUFFICES ASSUME NEW k \in Stages, pc[k] \notin NoToken PROVE FALSE
          BY Zenon
        <4>1. cur = 1
          BY Zenon, <2>3 DEF SerialInv, SoleInv
        <4> QED
          BY <3>1, <4>1
      <3>3. cur' = 1
        <4>1. cur = 0
          BY Zenon, <2>3, <3>2 DEF SerialInv, SoleInv
        <4> QED
          BY <3>1, <4>1
      <3>4. PICK to \in {"refused", "spawned"} : pc' = [pc EXCEPT ![i] = to]
        BY ZenonT(60), <2>0, <2>3 DEF Dispatch
      <3>5. \A k \in Stages : /\ pc'[k] \notin NoToken <=> k = i
                              /\ pc'[k] \in Running => pc[k] \in Running /\ pc'[k] = pc[k]
                              /\ pc'[k] \in Ended => pc[k] \in Ended
                              /\ Skipped(k)' = Skipped(k)
        BY <1>0, <2>1, <3>2, <3>4 DEF NoToken, Running, HasBase, Ended, Skipped
      <3>6. containers' = {}
        BY ZenonT(60), <1>0, <2>1, <2>3, <3>2 DEF SerialInv, SoleInv, NoToken
      <3>7. SoleInv'
        BY ZenonT(60), <2>3, <3>1, <3>3, <3>5, <3>6 DEF SerialInv, SoleInv
      <3> QED
        BY ZenonT(60), <2>1, <2>3, <3>7 DEF SerialInv, LabelInv
    <2>4. CASE label = NoLabel /\ DispatchFails
      <3>1. cur' = cur /\ cancel' /\ pc' = [pc EXCEPT ![i] = "done"]
        BY <2>0, <2>4 DEF DispatchFails, AcquireFails
      <3>2. \A k \in Stages : /\ pc'[k] \in NoToken <=> pc[k] \in NoToken
                              /\ pc'[k] \in Running => pc[k] \in Running /\ pc'[k] = pc[k]
                              /\ pc[k] = "mount" => pc'[k] = "mount"
        BY ZenonT(60), <1>0, <2>0, <3>1 DEF NoToken, Running, HasBase
      <3>3. SoleInv'
        BY <1>0, <2>1, <2>4, <3>1, <3>2 DEF SerialInv, SoleInv
      <3> QED
        BY Zenon, <2>1, <2>4, <3>3 DEF SerialInv, LabelInv
    <2> QED
      BY ZenonT(60), <1>4, <2>2, <2>3, <2>4
  <1> QED
    BY ZenonT(60), <1>2, <1>3, <1>4, <1>i, StageSerial DEF Next, Terminated

\* With one job, one goroutine holds the token, unless the context was canceled
OneInv ==
    Jobs = 1 /\ ~ctxDone =>
                \/ Holding = {} /\ cur = 0
                \/ cur = 1 /\ \E i \in Stages : Holding = {i}

\* Every step keeps the one token in one place
LEMMA NextOne ==
  ASSUME TypeInv, BaseInv, OneInv, [Next]_vars
  PROVE  OneInv'
  <1>0. TokenStep /\ cur \in Int
    BY Zenon, NextDispatch DEF BaseInv, TypeInv, TypeOK
  <1>1. CASE KeepsTokens
    BY <1>0, <1>1 DEF TokenStep, KeepsTokens, OneInv
  <1>2. ASSUME NEW i \in Stages, TakesToken(i) PROVE OneInv'
    BY <1>0, <1>2 DEF TokenStep, TakesToken, Acquire, AcquireFails, OneInv
  <1>3. ASSUME NEW i \in Stages, GivesToken(i) PROVE OneInv'
    BY <1>0, <1>3 DEF TokenStep, GivesToken, Release, OneInv
  <1> QED
    BY Zenon, <1>0, <1>1, <1>2, <1>3 DEF TokenStep

\* With one job, only the cleanup after an error races with a stage
LEMMA NextMaps ==
  ASSUME Jobs = 1, ExecInv, OneInv, SerialMaps, [Next]_vars
  PROVE  SerialMaps'
  <1> USE DEF semVars, ctlVars, stageVars, regVars, rootVars, mainVars, storeVars
  <1>i. TypeInv /\ BaseInv /\ ResultInv
    BY DEF ExecInv
  <1>1. CASE Alive /\ MapRace
    <2> SUFFICES ASSUME ~ctxDone, outcome # "error" PROVE FALSE
      BY ZenonT(60), <1>1 DEF MapRace, SerialMaps
    <2>1. PICK i \in Stages :
        \/ pc[i] = "rootMake" /\ mpc = "delRoots"
        \/ Starting(i) /\ mpc = "delCtrs" /\ RemoveIntermediateCtrs
        \/ \E j \in Stages \ {i} :
            \/ pc[i] = "rootMake" /\ pc[j] \in {"rootfs", "rootMake"}
            \/ Starting(i) /\ pc[j] = "read"
      BY <1>1 DEF MapRace
    <2>2. pc[i] \in {"rootMake", "spawned"}
      BY <2>1 DEF Starting
    <2>3. CASE mpc \in {"delRoots", "delCtrs"}
      <3>1. AllSucceeded
        BY <1>i, <2>3 DEF ResultInv, OutcomeInv
      <3>2. pc[i] \in Ended
        BY <1>i, <3>1, AllEnded
      <3> QED
        BY <2>2, <3>2 DEF Ended
    <2>4. ASSUME NEW j \in Stages \ {i}, pc[j] \in {"rootfs", "rootMake", "read"} PROVE FALSE
      <3>1. i \in Holding /\ j \in Holding
        BY <2>2, <2>4 DEF Holding
      <3> QED
        BY <3>1 DEF OneInv
    <2> QED
      BY Zenon, <2>1, <2>3, <2>4
  <1>2. CASE Alive /\ crashed' # "race"
    BY ZenonT(60), <1>2 DEF SerialMaps
  <1>3. CASE UNCHANGED vars
    BY <1>3 DEF SerialMaps, vars
  <1>4. ASSUME Main PROVE crashed' = crashed
    BY ZenonT(30), <1>4 DEF Main, ReceiveSuccess, ReceiveError, ReturnError, ChannelClosed, AddTags,
       DeleteStages, DeleteRoots, DeleteIntermediateCtrs, DeleteImages, ReportImage
  <1>5. ASSUME NEW i \in Stages, StageWork(i) \/ Wake(i) PROVE crashed' \in {crashed, "nil", "semaphore"}
    BY ZenonT(60), <1>5 DEF StageWork, Wake, StageCanceled, StageSkipped, StartStage, PollBase, Poll, Release,
       LookupBase, NewBuilder, NewBuilderFails, MountBuilder, MountBuilderFails, BeginRead,
       PollRead, ReadStage, ReadImage, RootfsLookup, RootfsMake, RootfsMakeFails, Rebase,
       RebaseFails, StepFails, FinishStage, UseDeletedBuilder, ReportError, ReleaseToken
  <1>6. ASSUME CancelContext \/ Dispatch \/ DispatchFails PROVE crashed' = crashed
    BY <1>6 DEF CancelContext, Dispatch, DispatchFails
  <1> QED
    BY ZenonT(60), <1>1, <1>2, <1>3, <1>4, <1>5, <1>6 DEF Next, Terminated, Alive

(***************************************************************************)
(* With one job, all containers share one label, also when the context is   *)
(* canceled and tokens are lost, and no two goroutines meet in an unlocked  *)
(* map but for the cleanup after an error or a canceled context, for any    *)
(* number of stages, any Containerfile and all options                      *)
(* (stage_executor.go:762-770, 864-871; executor.go:348, 409, 613-619).     *)
(***************************************************************************)
THEOREM SerialSafe ==
  ASSUME Jobs = 1
  PROVE  Spec => []SerialSharing
  <1> DEFINE Inv == CancelInv /\ SerialInv /\ OneInv /\ SerialMaps
  <1>1. Init => Inv
    BY InitCancel, InitSerial DEF Init, SerialMaps, OneInv, Holding
  <1>2. ExecInv /\ Inv /\ [Next]_vars => Inv'
    BY NextCancel, NextSerial, NextOne, NextMaps DEF ExecInv
  <1>3. ASSUME TypeInv, SerialInv PROVE LabelShared
    <2>1. CASE label # NoLabel
      BY <1>3, <2>1 DEF SerialInv, LabelInv, LabelShared
    <2>2. CASE label = NoLabel
      <3>1. ASSUME NEW c \in containers, NEW d \in containers PROVE c.label = d.label
        <4>1. c.stage \in Stages /\ d.stage \in Stages
          BY SMTT(60), <1>3, ContainerFields
        <4>2. pc[c.stage] = "mount" /\ pc[d.stage] = "mount"
          BY <1>3, <2>2 DEF SerialInv, SoleInv
        <4>3. c.stage = d.stage
          BY <1>3, <2>2, <4>1, <4>2 DEF SerialInv, SoleInv, NoToken
        <4> QED
          BY <1>3, <2>2, <4>3 DEF SerialInv, SoleInv
      <3> QED
        BY SMTT(60), <3>1 DEF LabelShared
    <2> QED
      BY <2>1, <2>2
  <1>4. ExecInv /\ Inv => SerialSharing
    BY <1>3 DEF ExecInv, SerialSharing
  <1> QED
    BY SMTT(60), ExecAlways, <1>1, <1>2, <1>4, PTL DEF Spec

-----------------------------------------------------------------------------
(***************************************************************************)
(* A build in which no step fails and nobody cancels.  Nothing else can go  *)
(* wrong: the image of a base stage is found and still in the store, a      *)
(* stage that is read was started and has its builder, and the cleanup only *)
(* begins when every goroutine has ended.                                   *)
(***************************************************************************)
AtWork == {"work", "readWait", "readSleep", "read", "rootfs", "rootMake"}

CalmStage(i) ==
    /\ pc[i] \in Running \cup Ended => Skipped(i) \/ i \in stages
    /\ pc[i] = "mount" => made[i] # 0
    /\ ~cleanupNil /\ pc[i] \in AtWork \cup Ended => Skipped(i) \/ builder[i] # 0
    /\ pc[i] = "read" => Head(todo[i]) # Ext
    /\ pc[i] \in {"rootfs", "rootMake"} => Head(todo[i]) = Ext
    /\ file.base[i] = Ext => baseImage[i] \in {NoImage, Ext}

\* The images reported so far are in the store
StockInv ==
    mpc = "receive" =>
        /\ \A n \in 1 .. Len(ch) : ch[n].image = NoImage \/ ch[n].image \in images
        /\ \A i \in Stages : imageMap[i] = NoImage \/ imageMap[i] \in images

CalmInv ==
    /\ ~cancel /\ ~lastError /\ crashed # "nil"
    /\ mapNil \/ mpc = "delRoots" => cleanupNil
    /\ StockInv
    /\ \A i \in Stages : CalmStage(i)

\* What a stage has still to read, its Containerfile names
TodoInv ==
    \A i \in Stages : \A m \in 1 .. Len(todo[i]) :
        \E n \in 1 .. Len(file.reads[i]) : todo[i][m] = file.reads[i][n]

\* A step of one goroutine leaves what belongs to the others alone
LEMMA StageLocal ==
  ASSUME TypeInv, NEW i \in Stages, StageWork(i) \/ Wake(i)
  PROVE  /\ \A k \in Stages : k # i =>
                /\ todo'[k] = todo[k] /\ baseImage'[k] = baseImage[k] /\ made'[k] = made[k]
                /\ builder'[k] = builder[k] /\ containerIDs'[k] = containerIDs[k]
         /\ stages \subseteq stages' /\ cleanupStages \subseteq cleanupStages'
         /\ UNCHANGED <<lastError, ctxDone, cleanupNil, mapNil>>
  <1> USE DEF semVars, ctlVars, stageVars, regVars, rootVars, mainVars, storeVars, Goto
  <1>0. /\ todo \in [Stages -> Seq(Names)] /\ baseImage \in [Stages -> Images \cup {NoImage}]
        /\ made \in [Stages -> Nat] /\ builder \in [Stages -> Nat]
        /\ containerIDs \in [Stages -> SUBSET Nat]
    BY SMTT(60) DEF TypeInv, TypeOK
  <1>1. CASE /\ UNCHANGED stageVars
             /\ UNCHANGED <<lastError, ctxDone, cleanupNil, mapNil>>
             /\ stages \subseteq stages' /\ cleanupStages \subseteq cleanupStages'
    BY Zenon, <1>1
  <1>2. CASE \/ StageCanceled(i) \/ StageSkipped(i) \/ StartStage(i) \/ PollBase(i) \/ NewBuilderFails(i)
             \/ MountBuilderFails(i) \/ BeginRead(i) \/ PollRead(i) \/ ReadImage(i)
    BY ZenonT(30), <1>1, <1>2
    DEF StageCanceled, StageSkipped, StartStage, PollBase, NewBuilderFails, MountBuilderFails,
        BeginRead, PollRead, ReadImage
  <1>3. CASE \/ RootfsMakeFails(i) \/ StepFails(i) \/ FinishStage(i) \/ UseDeletedBuilder(i)
             \/ ReportError(i) \/ ReleaseToken(i) \/ Wake(i)
    BY ZenonT(30), <1>1, <1>3
    DEF RootfsMakeFails, StepFails, FinishStage, UseDeletedBuilder, ReportError, ReleaseToken, Wake
  <1>4. CASE LookupBase(i) \/ NewBuilder(i) \/ MountBuilder(i)
    BY ZenonT(30), <1>0, <1>4 DEF LookupBase, NewBuilder, MountBuilder, MakeContainer
  <1>5. CASE ReadStage(i) \/ RootfsLookup(i) \/ RootfsMake(i)
    BY SMTT(60), <1>0, <1>5 DEF ReadStage, RootfsLookup, RootfsMake, MakeContainer, ReadDone
  <1>6. CASE Rebase(i) \/ RebaseFails(i)
    BY SMTT(60), <1>0, <1>6 DEF Rebase, RebaseFails, MakeContainer, NoteReplaced
  <1> QED
    BY Zenon, <1>2, <1>3, <1>4, <1>5, <1>6 DEF StageWork

\* Reading takes names off the list
LEMMA NextTodo ==
  ASSUME TypeInv, BaseInv, TodoInv, [Next]_vars
  PROVE  TodoInv'
  <1> USE DEF semVars, ctlVars, stageVars, regVars, rootVars, mainVars, storeVars, Goto
  <1>0. todo \in [Stages -> Seq(Names)]
    BY DEF TypeInv, TypeOK
  <1>1. CASE UNCHANGED <<todo, file>>
    BY <1>1 DEF TodoInv
  <1>2. ASSUME NEW i \in Stages, StageWork(i) \/ Wake(i) PROVE TodoInv'
    <2>1. file' = file /\ \A k \in Stages : k # i => todo'[k] = todo[k]
      BY Zenon, <1>2, StageShape, StageLocal DEF Shape
    <2>2. CASE pc[i] \in Reading /\ todo' = [todo EXCEPT ![i] = Tail(todo[i])]
      <3>1. todo[i] \in Seq(Names) /\ todo[i] # << >>
        BY <1>0, <2>2 DEF TypeInv, ReadingInv, Reading
      <3>2. \A m \in 1 .. Len(Tail(todo[i])) :
                m + 1 \in 1 .. Len(todo[i]) /\ Tail(todo[i])[m] = todo[i][m + 1]
        BY <3>1
      <3>3. todo'[i] = Tail(todo[i])
        BY <1>0, <2>2
      <3>4. ASSUME NEW m \in 1 .. Len(todo'[i])
            PROVE  \E n \in 1 .. Len(file.reads[i]) : todo'[i][m] = file.reads[i][n]
        BY ZenonT(30), <3>2, <3>3, <3>4 DEF TodoInv
      <3>5. ASSUME NEW k \in Stages, k # i, NEW m \in 1 .. Len(todo'[k])
            PROVE  \E n \in 1 .. Len(file.reads[k]) : todo'[k][m] = file.reads[k][n]
        <4>1. todo'[k] = todo[k]
          BY Zenon, <2>1, <3>5
        <4>2. m \in 1 .. Len(todo[k])
          BY Zenon, <4>1
        <4>3. \E n \in 1 .. Len(file.reads[k]) : todo[k][m] = file.reads[k][n]
          BY Zenon, <4>2 DEF TodoInv
        <4> QED
          BY Zenon, <4>1, <4>3
      <3>6. \A k \in Stages : \A m \in 1 .. Len(todo'[k]) :
                \E n \in 1 .. Len(file.reads[k]) : todo'[k][m] = file.reads[k][n]
        BY ZenonT(60), <3>4, <3>5
      <3> QED
        BY Zenon, <2>1, <3>6 DEF TodoInv
    <2>3. CASE ReadStage(i) \/ RootfsLookup(i) \/ RootfsMake(i)
      BY Zenon, <1>1, <2>1, <2>2, <2>3 DEF ReadStage, RootfsLookup, RootfsMake, ReadDone, Reading
    <2>4. CASE todo' = todo
      BY Zenon, <1>1, <2>1, <2>4
    <2> QED
      BY ZenonT(30), <1>2, <2>3, <2>4
      DEF StageWork, Wake, StageCanceled, StageSkipped, StartStage, PollBase, LookupBase,
          NewBuilder, NewBuilderFails, MountBuilder, MountBuilderFails, BeginRead, PollRead,
          ReadImage, RootfsMakeFails, Rebase, RebaseFails, StepFails, FinishStage,
          UseDeletedBuilder, ReportError, ReleaseToken
  <1>3. CASE Main
    BY ZenonT(30), <1>1, <1>3 DEF Main, ReceiveSuccess, ReceiveError, ReturnError, ChannelClosed, AddTags,
       DeleteStages, DeleteRoots, DeleteIntermediateCtrs, DeleteImages, ReportImage
  <1> QED
    BY SMTT(60), <1>1, <1>2, <1>3 DEF Next, CancelContext, Dispatch, DispatchFails, MapRace, Terminated, vars

\* A stage that is being read was started and has its builder
LEMMA ReadStarted ==
  ASSUME TypeInv, BaseInv, ReadInv, TodoInv, CalmInv, NEW i \in Stages, pc[i] = "read"
  PROVE  Head(todo[i]) \in stages /\ (~cleanupNil => builder[Head(todo[i])] # 0)
  <1> DEFINE j == Head(todo[i])
  <1>1. todo[i] \in Seq(Names) /\ todo[i] # << >> /\ j \in Stages
    BY Zenon DEF TypeInv, TypeOK, ReadingInv, ReadInv, Reading, Settled, CalmInv, CalmStage
  <1>2. pc[j] \in Ended
    BY Zenon, <1>1, StageNames DEF ReadInv, Reading, Settled, BaseInv, ChannelInv
  <1>3. 1 \in 1 .. Len(todo[i]) /\ todo[i][1] = j
    BY SMTT(60), <1>1
  <1>4. j \in Needs(file, i)
    <2>0. \E n \in 1 .. Len(file.reads[i]) : todo[i][1] = file.reads[i][n]
      BY Zenon, <1>3 DEF TodoInv
    <2>1. PICK n \in 1 .. Len(file.reads[i]) : j = file.reads[i][n]
      BY Zenon, <1>3, <2>0
    <2>2. j # Ext
      BY ZenonT(60), <1>1, StageNames
    <2> QED
      BY <2>1, <2>2 DEF Needs
  <1>5. ~Skipped(i)
    BY DEF BaseInv, StartInv, Running, HasBase
  <1>6. i \in NeededByTarget(file) => j \in NeededByTarget(file)
    BY <1>1, <1>4 DEF NeededByTarget
  <1>7. ~Skipped(j)
    BY SMTT(60), <1>5, <1>6 DEF Skipped
  <1> QED
    BY Zenon, <1>1, <1>2, <1>7 DEF CalmInv, CalmStage

\* Without a failing step, no goroutine reports an error
LEMMA StageCalm ==
  ASSUME MayFail = {}, ExecInv, CancelInv, ReadInv, TodoInv, CalmInv, ~ctxDone,
         NEW i \in Stages, StageWork(i) \/ Wake(i)
  PROVE  CalmInv'
  <1> USE DEF semVars, ctlVars, stageVars, regVars, rootVars, mainVars, storeVars, Goto
  <1>i. TypeInv /\ BaseInv /\ ResultInv
    BY Zenon DEF ExecInv
  <1>0. /\ pc \in [Stages -> StagePC] /\ baseImage \in [Stages -> Images \cup {NoImage}]
        /\ made \in [Stages -> Nat] /\ builder \in [Stages -> Nat]
    BY Zenon, <1>i DEF TypeInv, TypeOK
  <1>c. ~cancel /\ ~lastError /\ crashed # "nil" /\ StockInv /\ CalmStage(i)
    BY DEF CalmInv
  <1>s. Shape(i)
    BY Zenon, <1>i, StageShape
  <1>l. /\ \A k \in Stages : k # i =>
                /\ todo'[k] = todo[k] /\ baseImage'[k] = baseImage[k] /\ made'[k] = made[k]
                /\ builder'[k] = builder[k]
        /\ stages \subseteq stages' /\ UNCHANGED <<lastError, cleanupNil, mapNil>>
    BY Zenon, <1>i, StageLocal
  <1>f. /\ UNCHANGED <<file, imageMap, mpc>> /\ images \subseteq images'
        /\ \A k \in Stages : k # i => pc'[k] = pc[k]
    BY ZenonT(60), <1>0, <1>s DEF Shape
  <1>k. \A k \in Stages : Skipped(k)' = Skipped(k)
    BY Zenon, <1>f DEF Skipped
  <1>1. ASSUME NEW k \in Stages, k # i PROVE CalmStage(k)'
    <2>1. /\ todo'[k] = todo[k] /\ baseImage'[k] = baseImage[k] /\ made'[k] = made[k]
          /\ builder'[k] = builder[k] /\ pc'[k] = pc[k] /\ Skipped(k)' = Skipped(k)
          /\ k \in stages => k \in stages'
          /\ cleanupNil' = cleanupNil /\ file' = file
      BY ZenonT(60), <1>1, <1>l, <1>f, <1>k
    <2>2. CalmStage(k)
      BY Zenon DEF CalmInv
    <2> QED
      BY ZenonT(60), <2>1, <2>2 DEF CalmStage
  <1>w. pc[i] \notin Ended => mpc = "receive" /\ ~cleanupNil /\ ~mapNil
    BY Zenon, <1>c, <1>i, AllEnded DEF CancelInv, CalmInv
  <1> DEFINE Same == ch' = ch
             Sends == \E r \in Result : ch' = Append(ch, r) /\ (r.image = NoImage \/ r.image \in images')
  <1>2. ASSUME Same \/ Sends PROVE StockInv'
    <2>1. CASE Same
      BY Zenon, <1>c, <1>f, <2>1 DEF StockInv
    <2>2. CASE Sends
      <3>1. PICK r \in Result : ch' = Append(ch, r) /\ (r.image = NoImage \/ r.image \in images')
        BY SMTT(60), <2>2
      <3>2. mpc = "receive" => \A n \in 1 .. Len(ch') : ch'[n].image = NoImage \/ ch'[n].image \in images'
        BY ZenonT(30), <1>c, <1>f, <1>i, <3>1, AppendResult DEF StockInv
      <3> QED
        BY ZenonT(60), <1>c, <1>f, <3>2 DEF StockInv
    <2> QED
      BY Zenon, <1>2, <2>1, <2>2
  <1>3. ASSUME Same \/ Sends, cancel' = cancel, crashed' # "nil", CalmStage(i)' PROVE CalmInv'
    BY ZenonT(60), <1>1, <1>2, <1>3, <1>c, <1>f, <1>l DEF CalmInv
  <1> HIDE DEF Same, Sends
  <1>r. ~Skipped(i) \/ pc[i] \notin Running
    BY Zenon, <1>i DEF BaseInv, StartInv
  <1> DEFINE To(where) == pc' = [pc EXCEPT ![i] = where] /\ ch' = ch /\ UNCHANGED <<cancel, crashed>>
  <1>e. ASSUME NEW where, To(where) PROVE pc'[i] = where /\ Same /\ cancel' = cancel /\ crashed' # "nil"
    BY ZenonT(60), <1>0, <1>c, <1>e DEF Same
  <1>4. CASE StageCanceled(i) \/ ReportError(i)
    BY <1>4, <1>c DEF StageCanceled, ReportError, CancelInv
  <1>5. CASE StageSkipped(i)
    <2> DEFINE r == [index |-> i, image |-> NoImage, error |-> FALSE]
    <2>1. r \in Result /\ r.image = NoImage /\ ch' = Append(ch, r)
      BY <1>5 DEF StageSkipped, Send, Result
    <2>2. Sends
      BY Zenon, <2>1 DEF Sends
    <2>3. pc'[i] = "sent" /\ UNCHANGED <<cancel, crashed, baseImage>> /\ Skipped(i)
      BY Zenon, <1>0, <1>5 DEF StageSkipped
    <2>4. CalmStage(i)'
      BY ZenonT(60), <1>c, <1>f, <1>k, <2>3 DEF CalmStage
    <2> QED
      BY ZenonT(60), <1>3, <1>c, <2>2, <2>3, <2>4
  <1>6. CASE StartStage(i)
    <2>1. PICK where \in {"lookup", "fromWait"} : To(where)
      BY Zenon, <1>6 DEF StartStage, ExecuteFrom
    <2>2. CalmStage(i)'
      BY ZenonT(60), <1>6, <1>c, <1>e, <1>f, <2>1 DEF StartStage, CalmStage, AtWork, Ended
    <2> QED
      BY ZenonT(60), <1>3, <1>e, <2>1, <2>2
  <1>7. CASE PollBase(i) \/ PollRead(i) \/ Wake(i)
    <2>1. ~AcquireFails
      BY DEF AcquireFails
    <2>2. PICK where \in {"lookup", "fromSleep", "fromWait", "read", "readSleep", "readWait"} :
             /\ pc' = [pc EXCEPT ![i] = where] /\ ch' = ch /\ cancel' = cancel
             /\ where \in AtWork => pc[i] \in {"readWait", "readSleep"}
             /\ pc[i] \in Running
      BY ZenonT(30), <1>7, <1>c, <2>1
      DEF PollBase, PollRead, Wake, Poll, Reacquire, AtWork, Running, HasBase
    <2>3. crashed' # "nil"
      BY ZenonT(30), <1>7, <1>c DEF PollBase, PollRead, Wake, Poll, Release, StageError
    <2>4. UNCHANGED <<stages, made, builder, todo, baseImage>>
      BY Zenon, <1>7 DEF PollBase, PollRead, Wake
    <2>5. where = "read" => Head(todo[i]) \in Stages
      BY ZenonT(60), <1>7, <1>i, <2>2 DEF TypeInv, ReadingInv, AtWork
    <2>6. CalmStage(i)'
      BY ZenonT(60), <1>0, <1>c, <1>f, <1>k, <1>l, <2>2, <2>4, <2>5, StageNames
      DEF CalmStage, AtWork, Ended, Running, HasBase
    <2> QED
      BY ZenonT(60), <1>3, <2>2, <2>3, <2>6 DEF Same
  <1>8. CASE LookupBase(i)
    <2>1. To("prepare") /\ pc[i] = "lookup" /\ stages' = stages
      BY ZenonT(60), <1>8 DEF LookupBase
    <2>2. file.base[i] = Ext => baseImage'[i] = Ext
      BY Zenon, <1>0, <1>8 DEF LookupBase
    <2>3. CalmStage(i)'
      BY ZenonT(30), <1>c, <1>e, <1>f, <1>k, <2>1, <2>2 DEF CalmStage, AtWork, Ended, Running, HasBase
    <2> QED
      BY ZenonT(30), <1>3, <1>e, <2>1, <2>3
  <1>9. CASE NewBuilder(i)
    <2>1. To("mount") /\ pc[i] = "prepare" /\ UNCHANGED <<stages, baseImage>> /\ made'[i] = made[i] + 1
      BY ZenonT(60), <1>0, <1>9 DEF NewBuilder, MakeContainer
    <2>2. made'[i] # 0
      BY <1>0, <2>1
    <2>3. CalmStage(i)'
      BY ZenonT(60), <1>c, <1>e, <1>f, <1>k, <2>1, <2>2 DEF CalmStage, AtWork, Ended, Running, HasBase
    <2> QED
      BY ZenonT(30), <1>3, <1>e, <2>1, <2>3
  <1>10. CASE NewBuilderFails(i)
    <2> DEFINE b == file.base[i]
    <2>1. pc[i] = "prepare" /\ baseImage[i] # NoImage /\ mpc = "receive"
      BY ZenonT(30), <1>10, <1>i, <1>w DEF NewBuilderFails, BaseInv, StartInv, HasBase, Ended
    <2>2. CASE b = Ext
      BY ZenonT(30), <1>10, <1>c, <2>1, <2>2 DEF NewBuilderFails, CalmStage
    <2>3. CASE b # Ext
      <3>1. b \in Stages
        BY ZenonT(30), <1>i, <1>r, <2>1, <2>3, NeededClosed DEF Running, HasBase
      <3>2. terminatedStage[b] # "error"
        BY ZenonT(60), <1>c, <3>1 DEF CancelInv
      <3>3. imageMap[b] # NoImage /\ baseImage[i] = imageMap[b]
        BY ZenonT(30), <1>i, <2>1, <2>3, <3>2 DEF BaseInv, BaseIsStageImage
      <3>4. baseImage[i] \in images
        BY ZenonT(60), <1>c, <2>1, <3>1, <3>3 DEF StockInv
      <3> QED
        BY ZenonT(30), <1>10, <3>3, <3>4 DEF NewBuilderFails
    <2> QED
      BY <2>2, <2>3
  <1>11. CASE MountBuilder(i)
    <2>1. To("work") /\ pc[i] = "mount" /\ UNCHANGED <<stages, baseImage>> /\ builder'[i] = made[i]
      BY <1>0, <1>11 DEF MountBuilder
    <2>2. CalmStage(i)'
      BY ZenonT(60), <1>c, <1>e, <1>f, <1>k, <2>1 DEF CalmStage, Ended, Running, HasBase
    <2> QED
      BY ZenonT(60), <1>3, <1>e, <2>1, <2>2
  <1>12. CASE MountBuilderFails(i) \/ RebaseFails(i) \/ StepFails(i)
    BY Zenon, <1>12 DEF MountBuilderFails, RebaseFails, StepFails
  <1>13. CASE BeginRead(i)
    <2>1. PICK where \in {"rootfs", "readWait"} : To(where) /\ (where = "rootfs" <=> Head(todo[i]) = Ext)
      BY ZenonT(60), <1>13 DEF BeginRead
    <2>2. pc[i] = "work" /\ UNCHANGED <<stages, baseImage, builder, todo>>
      BY Zenon, <1>13 DEF BeginRead
    <2>3. CalmStage(i)'
      BY ZenonT(60), <1>c, <1>e, <1>f, <1>k, <1>l, <2>1, <2>2 DEF CalmStage, AtWork, Ended, Running, HasBase
    <2> QED
      BY ZenonT(60), <1>3, <1>e, <2>1, <2>3
  <1>14. CASE ReadImage(i)
    BY <1>14, <1>i, ReadStarted DEF ReadImage
  <1>15. ASSUME To("work"), pc[i] \in AtWork, UNCHANGED <<stages, baseImage, builder>>
         PROVE  CalmInv'
    <2>1. CalmStage(i)'
      BY ZenonT(30), <1>15, <1>c, <1>e, <1>f, <1>k, <1>l DEF CalmStage, AtWork, Ended, Running, HasBase
    <2> QED
      BY ZenonT(60), <1>3, <1>15, <1>e, <2>1
  <1>16. CASE ReadStage(i)
    BY ZenonT(60), <1>15, <1>16, <1>c DEF ReadStage, ReadDone, AtWork
  <1>17. CASE RootfsLookup(i)
    <2>1. CASE To("rootMake") /\ todo' = todo
      <3>1. pc[i] = "rootfs" /\ UNCHANGED <<stages, baseImage, builder>>
        BY <1>17 DEF RootfsLookup
      <3>2. CalmStage(i)'
        BY ZenonT(60), <1>c, <1>e, <1>f, <1>k, <1>l, <2>1, <3>1 DEF CalmStage, AtWork, Ended, Running, HasBase
      <3> QED
        BY ZenonT(30), <1>3, <1>e, <2>1, <3>2
    <2> QED
      BY <1>15, <1>17, <2>1 DEF RootfsLookup, ReadDone, AtWork
  <1>18. CASE RootfsMake(i)
    BY ZenonT(60), <1>15, <1>18, <1>w DEF RootfsMake, ReadDone, AtWork, Ended
  <1>19. CASE RootfsMakeFails(i)
    BY Zenon, <1>19, <1>c DEF RootfsMakeFails, CalmStage
  <1>20. CASE Rebase(i)
    <2>1. pc[i] = "work" /\ UNCHANGED <<pc, ch, cancel, crashed, stages, baseImage>>
          /\ builder'[i] = made[i] + 1
      BY ZenonT(60), <1>0, <1>20 DEF Rebase, CanRebase
    <2>2. builder'[i] # 0
      BY <1>0, <2>1
    <2>3. CalmStage(i)'
      BY ZenonT(30), <1>c, <1>f, <1>k, <2>1, <2>2 DEF CalmStage, Ended
    <2> QED
      BY ZenonT(60), <1>3, <1>c, <2>1, <2>3 DEF Same
  <1>21. CASE FinishStage(i)
    <2>1. PICK image \in Images \cup {NoImage} :
            /\ images' = images \cup ({image} \ {NoImage})
            /\ ch' = Append(ch, [index |-> i, image |-> image, error |-> FALSE])
      BY ZenonT(60), <1>21, <1>0, StageNames DEF FinishStage, Send
    <2> DEFINE r == [index |-> i, image |-> image, error |-> FALSE]
    <2>2. r \in Result /\ (r.image = NoImage \/ r.image \in images')
      BY ZenonT(60), <2>1 DEF Result
    <2>3. Sends
      BY <2>1, <2>2 DEF Sends
    <2>4. pc[i] = "work" /\ pc'[i] = "sent" /\ UNCHANGED <<cancel, crashed, baseImage, builder, stages>>
      BY ZenonT(30), <1>0, <1>21 DEF FinishStage
    <2>5. CalmStage(i)'
      BY ZenonT(30), <1>c, <1>f, <1>k, <1>l, <2>4 DEF CalmStage, AtWork, Running, HasBase
    <2> QED
      BY ZenonT(30), <1>3, <1>c, <2>3, <2>4, <2>5
  <1>22. CASE UseDeletedBuilder(i)
    <2>1. pc[i] \in {"work", "read"} /\ ~cleanupNil /\ ~Skipped(i)
      BY ZenonT(30), <1>22, <1>r, <1>w DEF UseDeletedBuilder, Ended, Running, HasBase
    <2>2. builder[i] # 0
      BY ZenonT(60), <1>c, <2>1 DEF CalmStage, AtWork
    <2> QED
      BY ZenonT(30), <1>22, <1>i, <2>1, <2>2, ReadStarted DEF UseDeletedBuilder
  <1>23. CASE ReleaseToken(i)
    <2>1. pc[i] = "sent" /\ pc'[i] = "done" /\ ch' = ch /\ UNCHANGED <<cancel, baseImage, builder, stages>>
      BY ZenonT(60), <1>0, <1>23 DEF ReleaseToken
    <2>2. crashed' # "nil"
      BY <1>23, <1>c DEF ReleaseToken, Release
    <2>3. CalmStage(i)'
      BY ZenonT(60), <1>c, <1>f, <1>k, <1>l, <2>1 DEF CalmStage, Ended
    <2> QED
      BY ZenonT(60), <1>3, <2>1, <2>2, <2>3 DEF Same
  <1> QED
    BY ZenonT(60), <1>4, <1>5, <1>6, <1>7, <1>8, <1>9, <1>10, <1>11, <1>12, <1>13, <1>14, <1>16, <1>17, <1>18,
       <1>19, <1>20, <1>21, <1>22, <1>23
    DEF StageWork

\* Without a failing step, Build meets no error either
LEMMA MainCalm ==
  ASSUME ExecInv, CancelInv, CalmInv, Main
  PROVE  CalmInv'
  <1> USE DEF semVars, ctlVars, stageVars, regVars, rootVars, storeVars
  <1>i. TypeInv /\ BaseInv /\ ResultInv
    BY DEF ExecInv
  <1>1. UNCHANGED <<file, pc, todo, baseImage, made, stages, cancel, crashed>>
    BY Zenon DEF Main, ReceiveSuccess, ReceiveError, ReturnError, ChannelClosed, AddTags, DeleteStages,
       DeleteRoots, DeleteIntermediateCtrs, DeleteImages, ReportImage
  <1>2. \A i \in Stages : Skipped(i)' = Skipped(i)
    BY <1>1 DEF Skipped
  <1>3. ASSUME UNCHANGED <<builder, cleanupNil>> \/ cleanupNil' PROVE \A i \in Stages : CalmStage(i)'
    BY ZenonT(60), <1>1, <1>2, <1>3 DEF CalmInv, CalmStage
  <1>4. ASSUME UNCHANGED <<builder, cleanupNil>> \/ cleanupNil', mpc' # "receive", lastError' = lastError,
               mapNil' \/ mpc' = "delRoots" => cleanupNil'
        PROVE  CalmInv'
    BY Zenon, <1>1, <1>3, <1>4 DEF CalmInv, StockInv
  <1>5. CASE ReceiveSuccess
    <2>0. /\ ch # << >> /\ ch' = Tail(ch) /\ mpc = "receive"
          /\ UNCHANGED <<builder, cleanupNil, mapNil, images, mpc, lastError>>
      BY Zenon, <1>5 DEF ReceiveSuccess
    <2>1. /\ 1 \in 1 .. Len(ch) /\ Head(ch) = ch[1] /\ ch[1].index \in Stages
          /\ \A n \in 1 .. Len(ch') : n + 1 \in 1 .. Len(ch) /\ ch'[n] = ch[n + 1]
      BY ZenonT(60), <1>i, <2>0, TailResult
    <2>2. imageMap \in [Stages -> Images \cup {NoImage}]
      BY Zenon, <1>i DEF TypeInv, TypeOK
    <2>3. \A n \in 1 .. Len(ch') : ch'[n].image = NoImage \/ ch'[n].image \in images'
      <3>1. \A n \in 1 .. Len(ch) : ch[n].image = NoImage \/ ch[n].image \in images
        BY Zenon, <2>0 DEF CalmInv, StockInv
      <3> QED
        BY Zenon, <2>0, <2>1, <3>1
    <2>4. \A i \in Stages : imageMap'[i] = NoImage \/ imageMap'[i] \in images'
      BY ZenonT(30), <1>5, <2>0, <2>1, <2>2 DEF ReceiveSuccess, CalmInv, StockInv
    <2> QED
      BY ZenonT(60), <1>1, <1>3, <2>0, <2>3, <2>4 DEF CalmInv, StockInv
  <1>6. CASE ReceiveError
    <2>1. 1 \in 1 .. Len(ch) /\ Head(ch) = ch[1]
      BY Zenon, <1>6, <1>i, TailResult DEF ReceiveError
    <2> QED
      BY Zenon, <1>6, <2>1 DEF ReceiveError, CancelInv, CalmInv
  <1>7. CASE ReturnError
    BY ZenonT(60), <1>7, <1>i DEF ReturnError, ResultInv, OutcomeInv, CancelInv, CalmInv
  <1>8. CASE ChannelClosed \/ AddTags \/ ReportImage
    BY <1>4, <1>8 DEF ChannelClosed, AddTags, ReportImage, CalmInv
  <1>9. CASE DeleteStages
    BY ZenonT(60), <1>4, <1>9 DEF DeleteStages, CalmInv
  <1>10. CASE DeleteRoots
    BY ZenonT(30), <1>4, <1>10 DEF DeleteRoots, CalmInv
  <1>11. CASE DeleteIntermediateCtrs
    BY Zenon, <1>4, <1>11 DEF DeleteIntermediateCtrs, CalmInv
  <1>12. CASE DeleteImages
    <2>1. mpc' # "receive" /\ mpc' # "delRoots"
      BY Zenon, <1>12 DEF DeleteImages
    <2> QED
      BY ZenonT(60), <1>4, <1>12, <2>1 DEF DeleteImages, CalmInv
  <1> QED
    BY ZenonT(60), <1>5, <1>6, <1>7, <1>8, <1>9, <1>10, <1>11, <1>12 DEF Main

\* Every step of a build in which nothing fails keeps it calm
LEMMA NextCalm ==
  ASSUME MayFail = {}, ~MayCancel, ExecInv, CancelInv, ReadInv, TodoInv, CalmInv, ~ctxDone,
         [Next]_vars
  PROVE  CalmInv'
  <1> USE DEF semVars, ctlVars, stageVars, regVars, rootVars, mainVars, storeVars, Goto
  <1>i. TypeInv /\ BaseInv
    BY DEF ExecInv
  <1>1. CASE UNCHANGED vars
    BY ZenonT(30), <1>1 DEF vars, CalmInv, CalmStage, StockInv, Skipped
  <1>2. CASE MapRace
    <2>1. UNCHANGED <<file, pc, ch, imageMap, images, mpc, todo, baseImage, made, builder, stages,
                      cancel, lastError, mapNil, cleanupNil>> /\ crashed' # "nil"
      BY Zenon, <1>2 DEF MapRace
    <2> QED
      BY Zenon, <2>1 DEF CalmInv, CalmStage, StockInv, Skipped
  <1>3. CASE Dispatch
    <2>0. PICK i \in Stages : i = next /\ pc[i] = "idle"
      <3>1. next \in 0 .. NumStages /\ next < NumStages
        BY ZenonT(60), <1>3, <1>i DEF Dispatch, TypeInv, TypeOK
      <3>2. next \in Stages /\ next >= next
        BY ZenonT(60), <3>1, NextStage
      <3> QED
        BY Zenon, <1>i, <3>2 DEF BaseInv, DispatchInv
    <2>1. UNCHANGED <<file, ch, imageMap, images, mpc, todo, baseImage, made, builder, stages,
                      cancel, lastError, mapNil, cleanupNil, crashed>>
      BY <1>3 DEF Dispatch
    <2>2. PICK to \in {"refused", "spawned"} : pc' = [pc EXCEPT ![i] = to]
      BY ZenonT(60), <1>3, <2>0 DEF Dispatch
    <2>3. pc \in [Stages -> StagePC]
      BY <1>i DEF TypeInv, TypeOK
    <2>4. \A k \in Stages : pc'[k] = pc[k] \/ pc'[k] \in {"refused", "spawned"}
      BY <2>2, <2>3
    <2>5. \A k \in Stages : CalmStage(k)'
      BY ZenonT(60), <2>1, <2>4 DEF CalmInv, CalmStage, Skipped, Running, HasBase, AtWork, Ended
    <2> QED
      BY Zenon, <2>1, <2>5 DEF CalmInv, StockInv
  <1> QED
    BY ZenonT(60), <1>1, <1>2, <1>3, MainCalm, StageCalm
    DEF Next, CancelContext, DispatchFails, AcquireFails, Terminated

(***************************************************************************)
(* If no step of the build fails and nobody cancels it, no goroutine uses a *)
(* builder or the containerMap that the cleanup has taken away: the cleanup *)
(* only begins when every goroutine has ended, whatever the number of       *)
(* stages and jobs, the Containerfile and the options, and also when        *)
(* tagging or reporting the image fails (executor.go:596-619, 893-927).     *)
(***************************************************************************)
THEOREM NoUseAfterCleanupWhenNothingFails ==
  ASSUME MayFail = {}, ~MayCancel
  PROVE  Spec => []NoUseAfterCleanup
  <1> DEFINE Inv == CancelInv /\ ReadInv /\ TodoInv /\ CalmInv /\ ~ctxDone
  <1>1. Init => Inv
    <2> SUFFICES ASSUME Init PROVE Inv
      BY Zenon
    <2>1. TodoInv
      BY ZenonT(60) DEF Init, TodoInv
    <2>2. CalmInv
      BY SMTT(60) DEF Init, CalmInv, CalmStage, StockInv, Running, HasBase, AtWork, Ended
    <2> QED
      BY <2>1, <2>2, InitCancel, InitRead DEF Init
  <1>2. ExecInv /\ Inv /\ [Next]_vars => Inv'
    BY NextCancel, NextRead, NextTodo, NextCalm, NextNotCanceled DEF ExecInv
  <1>3. Inv => NoUseAfterCleanup
    BY Zenon DEF CalmInv, NoUseAfterCleanup
  <1> QED
    BY ExecAlways, <1>1, <1>2, <1>3, PTL DEF Spec

-----------------------------------------------------------------------------
(***************************************************************************)
(* Who can still find a container: the goroutine that is about to mount it, *)
(* the stage whose builder it is or whose list of replaced containers it is *)
(* on, or the containerMap, unless another stage has displaced it there.    *)
(***************************************************************************)
Early == {"idle", "refused", "spawned", "fromWait", "fromSleep", "lookup", "prepare", "mount"}

\* What the cleanup has to remove when the stage has succeeded
ToClean(i) == file.steps[i] /\ (~Layers \/ RemoveIntermediateCtrs)

KeepStage(i) ==
    /\ pc[i] \in Early \/ Skipped(i) => builder[i] = 0
    /\ pc[i] \in Working => made[i] # 0
    /\ pc[i] \in Running => i \in stages /\ (~Layers /\ file.steps[i] => i \in cleanupStages)
    /\ i \notin stages \/ ~Layers => containerIDs[i] = {}
    /\ terminatedStage[i] = "ok" /\ ToClean(i) =>
            IF cleanupNil THEN builder[i] = 0 ELSE Skipped(i) \/ i \in cleanupStages

\* What succeeds is registered for cleanup
RegisterInv ==
    \A n \in 1 .. Len(ch) :
        ch[n].error \/ ~ToClean(ch[n].index) \/ Skipped(ch[n].index) \/ ch[n].index \in cleanupStages

\* How far the cleanup has come
CleanupInv ==
    /\ mpc \in {"delRoots", "delCtrs", "delImages", "report", "returned"} => cleanupNil
    /\ mpc \in {"delCtrs", "delImages", "report", "returned"} => mapNil
    /\ mpc \in {"delImages", "returned"} /\ RemoveIntermediateCtrs =>
            \A i \in Stages : terminatedStage[i] = "ok" => containerIDs[i] = {}

KeepInv == (\A i \in Stages : KeepStage(i)) /\ RegisterInv /\ CleanupInv

Mapped(c) == ~mapNil /\ \E n \in Names : containerMap[n] = <<c.stage, c.k>>

Lost(c) ==
    /\ Jobs > 1 \/ ctxDone
    /\ \E n \in Names :
        /\ containerMap[n][1] \in Stages \ {c.stage}
        /\ mapNil \/ pc[c.stage] # "rootMake" \/ Head(todo[c.stage]) # n

Owned(c) ==
    /\ c.k # 0
    /\ \/ pc[c.stage] = "mount" /\ c.k = made[c.stage]
       \/ c.k = builder[c.stage]
       \/ c.k \in containerIDs[c.stage]
       \/ c.k > 1 /\ c.image = Ext /\ (Mapped(c) \/ Lost(c))

\* A stage that makes a container for an image has made none for it before
MapInv ==
    \A i \in Stages : pc[i] = "rootMake" /\ ~mapNil =>
        /\ containerMap[Head(todo[i])][1] # i
        /\ Jobs > 1 \/ ctxDone \/ containerMap[Head(todo[i])] = NoContainer

OwnInv == crashed # "nil" => MapInv /\ \A c \in containers : Owned(c)

\* A process that died of a nil pointer has not finished
NilInv == crashed = "nil" => \E i \in Stages : pc[i] \notin Ended

\* A container that has been made has a number
LEMMA NextMade == \A n \in Nat : n + 1 # 0 /\ (n # 0 => n + 1 > 1)
  OBVIOUS

\* and NoContainer belongs to no stage
LEMMA NoContainerStage == NoContainer[1] \notin Stages
  BY DEF NoContainer, Stages

\* A step of a goroutine keeps the registers of the cleanup
LEMMA StageKeep ==
  ASSUME TypeInv, BaseInv, KeepInv, NEW i \in Stages, StageWork(i) \/ Wake(i)
  PROVE  KeepInv'
  <1> USE DEF semVars, ctlVars, stageVars, regVars, rootVars, mainVars, storeVars, Goto
  <1>0. /\ pc \in [Stages -> StagePC] /\ made \in [Stages -> Nat] /\ builder \in [Stages -> Nat]
        /\ containerIDs \in [Stages -> SUBSET Nat]
        /\ baseImage \in [Stages -> Images \cup {NoImage}]
    BY DEF TypeInv, TypeOK
  <1>c. KeepStage(i) /\ RegisterInv /\ CleanupInv
    BY DEF KeepInv
  <1>s. Shape(i)
    BY Zenon, StageShape
  <1>l. /\ \A k \in Stages : k # i =>
                /\ made'[k] = made[k] /\ builder'[k] = builder[k] /\ containerIDs'[k] = containerIDs[k]
        /\ stages \subseteq stages' /\ cleanupStages \subseteq cleanupStages'
        /\ UNCHANGED <<cleanupNil, mapNil>>
    BY Zenon, StageLocal
  <1>f. /\ UNCHANGED <<file, mpc, terminatedStage>>
        /\ \A k \in Stages : k # i => pc'[k] = pc[k]
    BY ZenonT(30), <1>0, <1>s DEF Shape
  <1>k. \A k \in Stages : Skipped(k)' = Skipped(k) /\ ToClean(k)' = ToClean(k)
    BY ZenonT(30), <1>f DEF Skipped, ToClean
  <1>1. \A k \in Stages : k # i => KeepStage(k)'
    BY ZenonT(30), <1>l, <1>f, <1>k DEF KeepInv, KeepStage
  <1>w. pc[i] \notin Ended => terminatedStage[i] = "no"
    BY Zenon DEF BaseInv, ChannelInv
  <1>r. pc[i] \in Running => ~Skipped(i)
    BY Zenon DEF BaseInv, StartInv
  <1>2. \A k \in Stages : terminatedStage[k] = "ok" => containerIDs'[k] = containerIDs[k]
    BY ZenonT(30), <1>l, <1>s, <1>w DEF Shape
  <1>3. CleanupInv'
    BY ZenonT(30), <1>2, <1>c, <1>f, <1>l DEF CleanupInv
  <1>4. RegisterInv'
    <2>1. CASE ch' = ch
      <3>1. \A n \in 1 .. Len(ch) : ch[n].index \in Stages
        BY SMTT(60), ChannelType DEF Result
      <3> QED
        BY ZenonT(30), <1>c, <1>k, <1>l, <2>1, <3>1 DEF RegisterInv
    <2>2. ASSUME NEW r \in Result, ch' = Append(ch, r), r.index = i,
                 r.error \/ ~ToClean(i) \/ Skipped(i) \/ i \in cleanupStages'
          PROVE  RegisterInv'
      <3>1. \A n \in 1 .. Len(ch) : ch[n].index \in Stages
        BY Zenon, ChannelType DEF Result
      <3>2. /\ \A n \in 1 .. Len(ch) : ch'[n] = ch[n]
            /\ ch'[Len(ch) + 1] = r
            /\ \A n \in 1 .. Len(ch') : n \in 1 .. Len(ch) \/ n = Len(ch) + 1
        BY Zenon, <2>2, AppendResult
      <3>3. ASSUME NEW n \in 1 .. Len(ch')
            PROVE  \/ ch'[n].error \/ ~ToClean(ch'[n].index) \/ Skipped(ch'[n].index)
                   \/ ch'[n].index \in cleanupStages'
        BY ZenonT(30), <1>c, <1>l, <2>2, <3>1, <3>2 DEF RegisterInv
      <3>4. \A n \in 1 .. Len(ch') : ch'[n].index \in Stages
        BY ZenonT(60), <2>2, <3>1, <3>2
      <3> QED
        BY ZenonT(60), <1>k, <3>3, <3>4 DEF RegisterInv
    <2>3. CASE StageCanceled(i) \/ ReportError(i)
      <3> DEFINE r == [index |-> i, image |-> NoImage, error |-> TRUE]
      <3>1. r \in Result /\ r.index = i /\ r.error /\ ch' = Append(ch, r)
        BY SMTT(60), <2>3 DEF StageCanceled, ReportError, Send, Result
      <3> QED
        BY ZenonT(60), <2>2, <3>1
    <2>4. CASE StageSkipped(i)
      <3> DEFINE r == [index |-> i, image |-> NoImage, error |-> FALSE]
      <3>1. r \in Result /\ r.index = i /\ ch' = Append(ch, r) /\ Skipped(i)
        BY Zenon, <2>4 DEF StageSkipped, Send, Result
      <3> QED
        BY Zenon, <2>2, <3>1
    <2>5. CASE FinishStage(i)
      <3>1. PICK image \in Images \cup {NoImage} :
              ch' = Append(ch, [index |-> i, image |-> image, error |-> FALSE])
        BY ZenonT(60), <1>0, <2>5, StageNames DEF FinishStage, Send
      <3> DEFINE r == [index |-> i, image |-> image, error |-> FALSE]
      <3>2. r \in Result /\ r.index = i
        BY DEF Result
      <3>3. ToClean(i) => i \in cleanupStages'
        BY ZenonT(60), <1>c, <2>5 DEF FinishStage, KeepStage, ToClean, Running, HasBase
      <3> QED
        BY ZenonT(60), <2>2, <3>1, <3>2, <3>3
    <2> QED
      BY ZenonT(30), <2>1, <2>3, <2>4, <2>5
      DEF StageWork, Wake, StartStage, PollBase, LookupBase, NewBuilder, NewBuilderFails,
          MountBuilder, MountBuilderFails, BeginRead, PollRead, ReadStage, ReadImage, RootfsLookup,
          RootfsMake, RootfsMakeFails, Rebase, RebaseFails, StepFails, UseDeletedBuilder, ReleaseToken
  <1>5. SUFFICES KeepStage(i)'
    BY <1>1, <1>3, <1>4, <1>5 DEF KeepInv
  <1>6. ASSUME UNCHANGED <<made, builder, containerIDs>>,
               pc'[i] \in Early => pc[i] \in Early,
               pc'[i] \in Working => pc[i] \in Working,
               pc'[i] \in Running => pc[i] \in Running
        PROVE  KeepStage(i)'
    BY ZenonT(30), <1>6, <1>c, <1>f, <1>k, <1>l DEF KeepStage
  <1>7. CASE StageCanceled(i) \/ StageSkipped(i) \/ ReportError(i) \/ FinishStage(i) \/ ReleaseToken(i)
    <2>1. pc'[i] \in Ended /\ UNCHANGED <<made, builder, containerIDs>>
      BY ZenonT(30), <1>0, <1>7 DEF StageCanceled, StageSkipped, ReportError, FinishStage, ReleaseToken, Ended
    <2> QED
      BY <1>6, <2>1 DEF Ended, Early, Working, Running, HasBase
  <1>8. CASE NewBuilderFails(i) \/ MountBuilderFails(i) \/ RootfsMakeFails(i) \/ StepFails(i)
    <2>1. pc'[i] = "erring" /\ UNCHANGED <<made, builder, containerIDs>>
      BY ZenonT(30), <1>0, <1>8 DEF NewBuilderFails, MountBuilderFails, RootfsMakeFails, StepFails, StageError
    <2> QED
      BY ZenonT(30), <1>6, <2>1 DEF Early, Working, Running, HasBase
  <1>9. CASE StartStage(i)
    <2>1. pc'[i] \in {"lookup", "fromWait"} /\ pc[i] = "spawned"
          /\ UNCHANGED <<made, builder, containerIDs>>
      BY ZenonT(60), <1>0, <1>9 DEF StartStage, ExecuteFrom
    <2>2. i \in stages' /\ (~Layers /\ file.steps[i] => i \in cleanupStages')
      BY <1>9 DEF StartStage, CleanedFromStart
    <2> QED
      BY ZenonT(60), <1>c, <1>f, <1>k, <1>l, <2>1, <2>2 DEF KeepStage, Early, Working
  <1>10. CASE PollBase(i) \/ PollRead(i) \/ Wake(i)
    <2>1. UNCHANGED <<made, builder, containerIDs>>
      BY ZenonT(30), <1>10 DEF PollBase, PollRead, Wake
    <2>2. \/ pc'[i] = "erring"
          \/ pc[i] \in {"fromWait", "fromSleep"} /\ pc'[i] \in {"lookup", "fromWait", "fromSleep"}
          \/ pc[i] \in {"readWait", "readSleep"} /\ pc'[i] \in {"read", "readWait", "readSleep"}
      BY ZenonT(60), <1>0, <1>10 DEF PollBase, PollRead, Wake, Poll, Reacquire, StageError
    <2> QED
      BY ZenonT(30), <1>6, <2>1, <2>2 DEF Early, Working, Running, HasBase
  <1>11. CASE LookupBase(i)
    <2>1. pc[i] = "lookup" /\ pc'[i] = "prepare" /\ UNCHANGED <<made, builder, containerIDs>>
      BY ZenonT(30), <1>0, <1>11 DEF LookupBase
    <2> QED
      BY Zenon, <1>6, <2>1 DEF Early, Working, Running, HasBase
  <1>12. CASE NewBuilder(i)
    <2>1. pc[i] = "prepare" /\ pc'[i] = "mount" /\ made'[i] = made[i] + 1
          /\ UNCHANGED <<builder, containerIDs, stages, cleanupStages>>
      BY ZenonT(60), <1>0, <1>12 DEF NewBuilder, MakeContainer
    <2>2. made'[i] # 0
      BY ZenonT(60), <1>0, <2>1, NextMade
    <2> QED
      BY ZenonT(60), <1>c, <1>f, <1>k, <1>l, <2>1, <2>2 DEF KeepStage, Early, Running, HasBase
  <1>13. CASE MountBuilder(i)
    <2>1. pc[i] = "mount" /\ pc'[i] = "work" /\ UNCHANGED <<made, containerIDs, stages, cleanupStages>>
      BY <1>0, <1>13 DEF MountBuilder
    <2>2. ~Skipped(i) /\ terminatedStage[i] = "no"
      BY ZenonT(60), <1>r, <1>w, <2>1 DEF Running, HasBase, Ended
    <2> QED
      BY ZenonT(30), <1>c, <1>f, <1>k, <2>1, <2>2 DEF KeepStage, Early, Working, Running, HasBase
  <1>14. CASE BeginRead(i) \/ ReadStage(i) \/ ReadImage(i) \/ RootfsLookup(i)
    <2>1. UNCHANGED <<made, builder, containerIDs>>
      BY ZenonT(30), <1>14 DEF BeginRead, ReadStage, ReadImage, RootfsLookup
    <2>2. pc[i] \in AtWork /\ pc'[i] \in AtWork \cup {"erring"}
      BY ZenonT(30), <1>0, <1>14
      DEF BeginRead, ReadStage, ReadImage, RootfsLookup, ReadDone, StageError, AtWork
    <2> QED
      BY ZenonT(60), <1>6, <2>1, <2>2 DEF AtWork, Early, Working, Running, HasBase
  <1>15. CASE RootfsMake(i)
    <2>1. pc[i] = "rootMake" /\ pc'[i] = "work" /\ made'[i] = made[i] + 1
          /\ UNCHANGED <<builder, containerIDs, stages, cleanupStages>>
      BY ZenonT(60), <1>0, <1>15 DEF RootfsMake, MakeContainer, ReadDone
    <2>2. made'[i] # 0
      BY ZenonT(60), <1>0, <2>1, NextMade
    <2> QED
      BY ZenonT(60), <1>c, <1>f, <1>k, <1>l, <2>1, <2>2 DEF KeepStage, Early, Working, Running, HasBase
  <1>16. CASE Rebase(i) \/ RebaseFails(i)
    <2>1. pc[i] = "work" /\ pc'[i] \in {"work", "erring"} /\ Layers /\ UNCHANGED <<stages, cleanupStages>>
      BY ZenonT(60), <1>0, <1>16 DEF Rebase, RebaseFails, CanRebase, StageError
    <2>2. made'[i] # 0 \/ pc'[i] = "erring"
      BY SMTT(60), <1>0, <1>16 DEF Rebase, RebaseFails, MakeContainer, StageError
    <2>3. ~Skipped(i) /\ terminatedStage[i] = "no"
      BY ZenonT(30), <1>r, <1>w, <2>1 DEF Running, HasBase, Ended
    <2> QED
      BY ZenonT(60), <1>c, <1>f, <1>k, <2>1, <2>2, <2>3 DEF KeepStage, Early, Working, Running, HasBase
  <1>17. CASE UseDeletedBuilder(i)
    BY Zenon, <1>6, <1>17 DEF UseDeletedBuilder
  <1> QED
    BY ZenonT(60), <1>7, <1>8, <1>9, <1>10, <1>11, <1>12, <1>13, <1>14, <1>15, <1>16, <1>17 DEF StageWork

\* So does a step of Build
LEMMA MainKeep ==
  ASSUME TypeInv, BaseInv, CancelInv, KeepInv, Main
  PROVE  KeepInv'
  <1> USE DEF semVars, ctlVars, stageVars, regVars, rootVars, storeVars
  <1>0. /\ terminatedStage \in [Stages -> {"no", "ok", "error"}]
        /\ builder \in [Stages -> Nat] /\ containerIDs \in [Stages -> SUBSET Nat]
    BY DEF TypeInv, TypeOK
  <1>1. UNCHANGED <<file, pc, made, stages, cleanupStages>>
    BY Zenon DEF Main, ReceiveSuccess, ReceiveError, ReturnError, ChannelClosed, AddTags, DeleteStages,
       DeleteRoots, DeleteIntermediateCtrs, DeleteImages, ReportImage
  <1>2. \A i \in Stages : Skipped(i)' = Skipped(i) /\ ToClean(i)' = ToClean(i)
    BY <1>1 DEF Skipped, ToClean
  <1>c. RegisterInv /\ CleanupInv /\ \A i \in Stages : KeepStage(i)
    BY DEF KeepInv
  <1>h. \A n \in 1 .. Len(ch) : ch[n].index \in Stages
    BY Zenon, ChannelType DEF Result
  <1>3. ASSUME ch' = ch PROVE RegisterInv'
    BY ZenonT(60), <1>1, <1>2, <1>3, <1>c, <1>h DEF RegisterInv
  <1>4. CASE ReceiveSuccess \/ ReceiveError
    <2> DEFINE r == ch[1]
    <2>0. ch # << >> /\ ch' = Tail(ch) /\ mpc = "receive" /\ UNCHANGED <<builder, containerIDs, cleanupNil>>
      BY ZenonT(30), <1>4 DEF ReceiveSuccess, ReceiveError
    <2>1. /\ 1 \in 1 .. Len(ch) /\ Head(ch) = r /\ r.index \in Stages
          /\ \A n \in 1 .. Len(ch') : n + 1 \in 1 .. Len(ch) /\ ch'[n] = ch[n + 1]
      BY ZenonT(30), <2>0, TailResult
    <2>2. RegisterInv'
      <3>1. ASSUME NEW n \in 1 .. Len(ch')
            PROVE  \/ ch'[n].error \/ ~ToClean(ch'[n].index) \/ Skipped(ch'[n].index)
                   \/ ch'[n].index \in cleanupStages
        BY SMTT(60), <1>c, <2>1 DEF RegisterInv
      <3>2. \A n \in 1 .. Len(ch') : ch'[n].index \in Stages
        BY ZenonT(60), <1>h, <2>1
      <3> QED
        BY ZenonT(60), <1>1, <1>2, <3>1, <3>2 DEF RegisterInv
    <2>3. ~cleanupNil
      BY <2>0 DEF CancelInv
    <2>4. /\ mpc' \in {"receive", "failing"}
          /\ terminatedStage' = [terminatedStage EXCEPT ![r.index] = IF r.error THEN "error" ELSE "ok"]
      <3>1. CASE ReceiveSuccess
        BY Zenon, <2>0, <2>1, <3>1 DEF ReceiveSuccess
      <3>2. CASE ReceiveError
        BY ZenonT(60), <2>1, <3>2 DEF ReceiveError, ReturnAfterError
      <3> QED
        BY <1>4, <3>1, <3>2
    <2>5. CleanupInv'
      BY SMTT(60), <2>4 DEF CleanupInv
    <2>6. ASSUME NEW i \in Stages, terminatedStage'[i] = "ok", ToClean(i)
          PROVE  Skipped(i) \/ i \in cleanupStages
      <3>1. CASE i = r.index
        BY ZenonT(60), <1>0, <1>c, <2>1, <2>4, <2>6, <3>1 DEF RegisterInv
      <3>2. CASE i # r.index
        BY ZenonT(30), <1>0, <1>c, <2>1, <2>3, <2>4, <2>6, <3>2 DEF KeepStage
      <3> QED
        BY Zenon, <3>1, <3>2
    <2>7. \A i \in Stages : KeepStage(i)'
      BY ZenonT(60), <1>1, <1>2, <1>c, <2>0, <2>3, <2>6 DEF KeepStage
    <2> QED
      BY ZenonT(60), <2>2, <2>5, <2>7 DEF KeepInv
  <1>5. CASE ReturnError \/ ChannelClosed \/ AddTags \/ ReportImage
    <2>1. /\ mpc' \in {"tag", "delStages"}
          /\ UNCHANGED <<ch, terminatedStage, builder, containerIDs, cleanupNil>>
      BY ZenonT(30), <1>5 DEF ReturnError, ChannelClosed, AddTags, ReportImage
    <2>2. \A i \in Stages : KeepStage(i)'
      BY ZenonT(30), <1>1, <1>2, <1>c, <2>1 DEF KeepStage
    <2> QED
      BY Zenon, <1>3, <2>1, <2>2 DEF KeepInv, CleanupInv
  <1>6. CASE DeleteStages
    <2>1. /\ mpc' = "delRoots" /\ cleanupNil'
          /\ UNCHANGED <<ch, terminatedStage, containerIDs>>
          /\ \A i \in Stages : builder'[i] = IF i \in (IF cleanupNil THEN {} ELSE cleanupStages)
                                             THEN 0 ELSE builder[i]
      BY ZenonT(30), <1>6 DEF DeleteStages
    <2>2. \A i \in Stages : KeepStage(i)'
      BY ZenonT(30), <1>1, <1>2, <1>c, <2>1 DEF KeepStage
    <2> QED
      BY ZenonT(30), <1>3, <2>1, <2>2 DEF KeepInv, CleanupInv
  <1>7. CASE DeleteRoots
    <2>1. /\ mpc = "delRoots" /\ mpc' = "delCtrs" /\ mapNil'
          /\ UNCHANGED <<ch, terminatedStage, builder, containerIDs, cleanupNil>>
      BY <1>7 DEF DeleteRoots
    <2>2. \A i \in Stages : KeepStage(i)'
      BY ZenonT(30), <1>1, <1>2, <1>c, <2>1 DEF KeepStage
    <2> QED
      BY ZenonT(60), <1>3, <1>c, <2>1, <2>2 DEF KeepInv, CleanupInv
  <1>8. CASE DeleteIntermediateCtrs
    <2>1. /\ mpc = "delCtrs" /\ mpc' = "delImages"
          /\ UNCHANGED <<ch, terminatedStage, builder, cleanupNil, mapNil>>
      BY SMTT(60), <1>8 DEF DeleteIntermediateCtrs
    <2>2. \A i \in Stages : IF RemoveIntermediateCtrs /\ i \in stages THEN containerIDs'[i] = {}
                            ELSE containerIDs'[i] = containerIDs[i]
      BY Zenon, <1>0, <1>8 DEF DeleteIntermediateCtrs
    <2>3. \A i \in Stages : KeepStage(i)'
      BY ZenonT(60), <1>1, <1>2, <1>c, <2>1, <2>2 DEF KeepStage
    <2>4. RemoveIntermediateCtrs => \A i \in Stages : containerIDs'[i] = {}
      BY <1>c, <2>2 DEF KeepStage
    <2> QED
      BY ZenonT(30), <1>3, <1>c, <2>1, <2>3, <2>4 DEF KeepInv, CleanupInv
  <1>9. CASE DeleteImages
    <2>1. /\ mpc = "delImages" /\ mpc' \in {"returned", "delStages", "report"}
          /\ UNCHANGED <<ch, terminatedStage, builder, containerIDs, cleanupNil, mapNil>>
      BY ZenonT(30), <1>9 DEF DeleteImages
    <2>2. \A i \in Stages : KeepStage(i)'
      BY ZenonT(60), <1>1, <1>2, <1>c, <2>1 DEF KeepStage
    <2> QED
      BY ZenonT(30), <1>3, <1>c, <2>1, <2>2 DEF KeepInv, CleanupInv
  <1> QED
    BY ZenonT(60), <1>4, <1>5, <1>6, <1>7, <1>8, <1>9 DEF Main

\* Every step keeps the registers of the cleanup
LEMMA NextKeep ==
  ASSUME ExecInv, CancelInv, KeepInv, [Next]_vars
  PROVE  KeepInv'
  <1> USE DEF semVars, ctlVars, stageVars, regVars, rootVars, mainVars, storeVars, Goto
  <1>i. TypeInv /\ BaseInv
    BY DEF ExecInv
  <1>1. CASE UNCHANGED <<file, pc, ch, mpc, terminatedStage, made, builder, containerIDs, stages,
                         cleanupStages, cleanupNil, mapNil>>
    BY ZenonT(30), <1>1 DEF KeepInv, KeepStage, RegisterInv, CleanupInv, Skipped, ToClean
  <1>2. CASE CancelContext \/ MapRace \/ UNCHANGED vars
    BY Zenon, <1>1, <1>2 DEF CancelContext, MapRace, vars
  <1>3. CASE Dispatch \/ DispatchFails
    <2>0. PICK i \in Stages : i = next /\ pc[i] = "idle"
      <3>1. next \in 0 .. NumStages /\ next < NumStages
        BY ZenonT(60), <1>3, <1>i DEF Dispatch, DispatchFails, TypeInv, TypeOK
      <3>2. next \in Stages /\ next >= next
        BY Zenon, <3>1, NextStage
      <3> QED
        BY Zenon, <1>i, <3>2 DEF BaseInv, DispatchInv
    <2>1. UNCHANGED <<file, mpc, terminatedStage, made, builder, containerIDs, stages,
                      cleanupStages, cleanupNil, mapNil>>
      BY Zenon, <1>3 DEF Dispatch, DispatchFails
    <2>2. PICK to \in {"refused", "spawned", "done"} : pc' = [pc EXCEPT ![i] = to]
      BY ZenonT(60), <1>3, <2>0 DEF Dispatch, DispatchFails
    <2>3. pc \in [Stages -> StagePC]
      BY SMTT(60), <1>i DEF TypeInv, TypeOK
    <2>4. \A k \in Stages : /\ pc'[k] \in Early => pc[k] \in Early
                            /\ pc'[k] \in Working => pc[k] \in Working
                            /\ pc'[k] \in Running => pc[k] \in Running
      BY ZenonT(60), <2>0, <2>2, <2>3 DEF Early, Working, Running, HasBase
    <2>5. \A k \in Stages : Skipped(k)' = Skipped(k) /\ ToClean(k)' = ToClean(k)
      BY <2>1 DEF Skipped, ToClean
    <2>6. (\A k \in Stages : KeepStage(k)') /\ CleanupInv'
      BY ZenonT(60), <2>1, <2>4, <2>5 DEF KeepInv, KeepStage, CleanupInv
    <2>7. \A n \in 1 .. Len(ch) : ch[n].index \in Stages
      BY Zenon, <1>i, ChannelType DEF Result
    <2>8. CASE Dispatch
      <3>1. ch' = ch
        BY <2>8 DEF Dispatch
      <3> QED
        BY ZenonT(60), <2>1, <2>5, <2>6, <2>7, <3>1 DEF KeepInv, RegisterInv
    <2>9. CASE DispatchFails
      <3> DEFINE r == [index |-> i, image |-> NoImage, error |-> TRUE]
      <3>1. r \in Result /\ r.error /\ ch' = Append(ch, r)
        BY <2>0, <2>9 DEF DispatchFails, SendNotStarted, Send, Result
      <3>2. /\ \A n \in 1 .. Len(ch) : ch'[n] = ch[n]
            /\ ch'[Len(ch) + 1] = r
            /\ \A n \in 1 .. Len(ch') : n \in 1 .. Len(ch) \/ n = Len(ch) + 1
        BY ZenonT(30), <1>i, <3>1, AppendResult
      <3>3. \A n \in 1 .. Len(ch') : \/ ch'[n].error \/ ~ToClean(ch'[n].index)
                                     \/ Skipped(ch'[n].index) \/ ch'[n].index \in cleanupStages'
        BY ZenonT(60), <2>1, <3>1, <3>2 DEF KeepInv, RegisterInv
      <3>4. \A n \in 1 .. Len(ch') : ch'[n].index \in Stages
        BY SMTT(60), <2>7, <3>2
      <3>5. RegisterInv'
        BY ZenonT(60), <2>5, <3>3, <3>4 DEF RegisterInv
      <3> QED
        BY ZenonT(60), <2>6, <3>5 DEF KeepInv
    <2> QED
      BY ZenonT(60), <1>3, <2>8, <2>9
  <1> QED
    BY ZenonT(60), <1>2, <1>3, <1>i, StageKeep, MainKeep DEF Next, Terminated

\* A goroutine moves on, and what the others own stays theirs
LEMMA OwnKept ==
  ASSUME TypeInv, OwnInv, Alive, NEW i \in Stages, NEW to \in StagePC,
         pc' = [pc EXCEPT ![i] = to], to # "mount", pc[i] = "mount" => to = "mount",
         to = "rootMake" => pc[i] = "rootMake",
         todo' = todo \/ (to # "rootMake" /\ \A k \in Stages : k # i => todo'[k] = todo[k]),
         UNCHANGED <<containers, made, builder, containerIDs, containerMap, mapNil, ctxDone>>
  PROVE  OwnInv'
  <1>0. pc \in [Stages -> StagePC] /\ \A c \in containers : c.stage \in Stages
    BY ZenonT(30), ContainerFields DEF TypeInv, TypeOK
  <1>1. MapInv /\ \A c \in containers : Owned(c)
    BY Zenon DEF OwnInv, Alive
  <1>2. \A k \in Stages : /\ pc[k] = "mount" => pc'[k] = "mount"
                          /\ pc'[k] = "rootMake" => pc[k] = "rootMake" /\ todo'[k] = todo[k]
    BY ZenonT(60), <1>0
  <1>3. MapInv'
    BY <1>1, <1>2 DEF MapInv
  <1>4. ASSUME NEW c \in containers PROVE Owned(c)'
    <2>1. Mapped(c)' <=> Mapped(c)
      BY ZenonT(60) DEF Mapped
    <2>2. Lost(c) => Lost(c)'
      BY ZenonT(30), <1>0, <1>2 DEF Lost
    <2> QED
      BY ZenonT(30), <1>0, <1>1, <1>2, <2>1, <2>2 DEF Owned
  <1> QED
    BY Zenon, <1>3, <1>4 DEF OwnInv

\* A step of a goroutine loses no container, but those it displaces
LEMMA StageOwn ==
  ASSUME TypeInv, OneInv, KeepInv, OwnInv, Alive, NEW i \in Stages, StageWork(i) \/ Wake(i)
  PROVE  OwnInv'
  <1> USE DEF semVars, ctlVars, stageVars, regVars, rootVars, mainVars, storeVars, Goto
  <1>0. /\ pc \in [Stages -> StagePC] /\ made \in [Stages -> Nat] /\ builder \in [Stages -> Nat]
        /\ containerIDs \in [Stages -> SUBSET Nat] /\ todo \in [Stages -> Seq(Names)]
        /\ containerMap \in [Names -> Int \X Nat]
    BY Zenon DEF TypeInv, TypeOK
  <1>c. \A c \in containers : c.stage \in Stages /\ c.k \in Nat
    BY Zenon, ContainerFields
  <1>o. MapInv /\ \A c \in containers : Owned(c)
    BY DEF OwnInv, Alive
  <1>k. KeepStage(i)
    BY DEF KeepInv
  <1>1. CASE StageCanceled(i) \/ StageSkipped(i) \/ StartStage(i) \/ LookupBase(i) \/ ReportError(i)
    <2>1. UNCHANGED <<containers, made, builder, containerIDs, containerMap, mapNil, ctxDone, todo>>
      BY ZenonT(30), <1>1 DEF StageCanceled, StageSkipped, StartStage, LookupBase, ReportError
    <2>2. PICK to \in {"sent", "lookup", "fromWait", "prepare"} : pc' = [pc EXCEPT ![i] = to]
      BY ZenonT(30), <1>1
      DEF StageCanceled, StageSkipped, StartStage, ExecuteFrom, LookupBase, ReportError
    <2>3. pc[i] # "mount"
      BY ZenonT(30), <1>1 DEF StageCanceled, StageSkipped, StartStage, LookupBase, ReportError
    <2> QED
      BY ZenonT(30), <2>1, <2>2, <2>3, OwnKept DEF StagePC
  <1>2. CASE PollBase(i) \/ PollRead(i) \/ Wake(i)
    <2>1. UNCHANGED <<containers, made, builder, containerIDs, containerMap, mapNil, ctxDone, todo>>
      BY ZenonT(30), <1>2 DEF PollBase, PollRead, Wake
    <2>2. PICK to \in {"lookup", "fromWait", "fromSleep", "read", "readWait", "readSleep", "erring"} :
             pc' = [pc EXCEPT ![i] = to]
      BY ZenonT(30), <1>2 DEF PollBase, PollRead, Wake, Poll, Reacquire, StageError
    <2>3. pc[i] # "mount"
      BY ZenonT(30), <1>2 DEF PollBase, PollRead, Wake
    <2> QED
      BY ZenonT(30), <2>1, <2>2, <2>3, OwnKept DEF StagePC
  <1>3. CASE NewBuilderFails(i) \/ RootfsMakeFails(i) \/ StepFails(i) \/ FinishStage(i) \/ ReleaseToken(i)
    <2>1. UNCHANGED <<containers, made, builder, containerIDs, containerMap, mapNil, ctxDone, todo>>
      BY ZenonT(30), <1>3 DEF NewBuilderFails, RootfsMakeFails, StepFails, FinishStage, ReleaseToken
    <2>2. PICK to \in {"erring", "sent", "done"} : pc' = [pc EXCEPT ![i] = to]
      BY ZenonT(30), <1>3 DEF NewBuilderFails, RootfsMakeFails, StepFails, FinishStage, ReleaseToken, StageError
    <2>3. pc[i] # "mount"
      BY ZenonT(30), <1>3 DEF NewBuilderFails, RootfsMakeFails, StepFails, FinishStage, ReleaseToken
    <2> QED
      BY ZenonT(30), <2>1, <2>2, <2>3, OwnKept DEF StagePC
  <1>4. CASE BeginRead(i) \/ ReadStage(i) \/ ReadImage(i)
    <2>1. UNCHANGED <<containers, made, builder, containerIDs, containerMap, mapNil, ctxDone>>
      BY ZenonT(60), <1>4 DEF BeginRead, ReadStage, ReadImage
    <2>2. PICK to \in {"rootfs", "readWait", "work", "erring"} : pc' = [pc EXCEPT ![i] = to]
      BY Zenon, <1>4 DEF BeginRead, ReadStage, ReadImage, ReadDone, StageError
    <2>3. pc[i] # "mount" /\ \A k \in Stages : k # i => todo'[k] = todo[k]
      BY ZenonT(30), <1>0, <1>4 DEF BeginRead, ReadStage, ReadImage, ReadDone
    <2> QED
      BY ZenonT(30), <2>1, <2>2, <2>3, OwnKept DEF StagePC
  <1>5. CASE UseDeletedBuilder(i)
    BY ZenonT(60), <1>5 DEF UseDeletedBuilder, OwnInv
  <1>6. CASE NewBuilder(i)
    <2>0. PICK c : c = [stage |-> i, k |-> made[i] + 1, image |-> baseImage[i],
                        label |-> IF label = NoLabel THEN <<i, made[i] + 1>> ELSE label]
      BY ZenonT(30)
    <2>1. /\ pc[i] = "prepare" /\ pc'[i] = "mount" /\ \A k \in Stages : k # i => pc'[k] = pc[k]
          /\ containers' = containers \cup {c}
          /\ made'[i] = made[i] + 1 /\ \A k \in Stages : k # i => made'[k] = made[k]
          /\ UNCHANGED <<builder, containerIDs, containerMap, mapNil, ctxDone, todo, crashed>>
      BY ZenonT(30), <1>0, <1>6, <2>0 DEF NewBuilder, MakeContainer
    <2>2. MapInv'
      BY ZenonT(30), <1>o, <2>1 DEF MapInv
    <2>3. ASSUME NEW d \in containers PROVE Owned(d)'
      <3>1. Mapped(d)' <=> Mapped(d)
        BY Zenon, <2>1 DEF Mapped
      <3>2. Lost(d) => Lost(d)'
        BY ZenonT(30), <1>c, <2>1 DEF Lost
      <3> QED
        BY ZenonT(60), <1>c, <1>o, <2>1, <3>1, <3>2 DEF Owned
    <2>4. Owned(c)'
      <3>1. c.stage = i /\ c.k = made[i] + 1 /\ c.k # 0
        BY <1>0, <2>0
      <3> QED
        BY ZenonT(30), <2>1, <3>1 DEF Owned
    <2> QED
      BY ZenonT(60), <2>1, <2>2, <2>3, <2>4 DEF OwnInv
  <1>7. CASE MountBuilder(i) \/ MountBuilderFails(i)
    <2>1. /\ pc[i] = "mount" /\ pc'[i] \in {"work", "erring"} /\ \A k \in Stages : k # i => pc'[k] = pc[k]
          /\ UNCHANGED <<made, containerIDs, containerMap, mapNil, ctxDone, todo, crashed>>
          /\ \A k \in Stages : k # i => builder'[k] = builder[k]
          /\ containers' \subseteq containers
          /\ \A c \in containers' : c.stage = i /\ c.k = made[i] => c.k = builder'[i]
      BY ZenonT(30), <1>0, <1>7 DEF MountBuilder, MountBuilderFails, StageError, Without
    <2>2. builder[i] = 0
      BY ZenonT(30), <1>k, <2>1 DEF KeepStage, Early
    <2>3. MapInv'
      BY ZenonT(30), <1>o, <2>1 DEF MapInv
    <2>4. ASSUME NEW d \in containers' PROVE Owned(d)'
      <3>0. d \in containers
        BY ZenonT(30), <2>1
      <3>1. Mapped(d)' <=> Mapped(d)
        BY ZenonT(30), <2>1 DEF Mapped
      <3>2. Lost(d) => Lost(d)'
        BY ZenonT(30), <1>c, <2>1, <3>0 DEF Lost
      <3> QED
        BY ZenonT(30), <1>c, <1>o, <2>1, <2>2, <3>0, <3>1, <3>2 DEF Owned
    <2> QED
      BY Zenon, <2>3, <2>4 DEF OwnInv
  <1>8. CASE Rebase(i) \/ RebaseFails(i)
    <2>1. /\ pc[i] = "work" /\ pc'[i] \in {"work", "erring"} /\ \A k \in Stages : k # i => pc'[k] = pc[k]
          /\ UNCHANGED <<containerMap, mapNil, ctxDone, todo, crashed>>
          /\ \A k \in Stages : k # i => /\ builder'[k] = builder[k] /\ made'[k] = made[k]
                                        /\ containerIDs'[k] = containerIDs[k]
          /\ containerIDs'[i] = containerIDs[i] \cup {builder[i]}
      BY ZenonT(30), <1>0, <1>8 DEF Rebase, RebaseFails, CanRebase, StageError, NoteReplaced, MakeContainer
    <2>2. \A c \in containers' : c \in containers \/ (c.stage = i /\ c.k = builder'[i] /\ c.k # 0)
      <3>1. CASE Rebase(i)
        <4> DEFINE c == [stage |-> i, k |-> made[i] + 1, image |-> i, label |-> label]
        <4>1. containers' = containers \cup {c} /\ builder'[i] = made[i] + 1
          BY ZenonT(60), <1>0, <3>1 DEF Rebase, MakeContainer
        <4>2. c.stage = i /\ c.k = builder'[i] /\ c.k # 0
          BY <1>0, <4>1
        <4> QED
          BY ZenonT(60), <4>1, <4>2
      <3>2. CASE RebaseFails(i)
        BY ZenonT(30), <3>2 DEF RebaseFails
      <3> QED
        BY ZenonT(30), <1>8, <3>1, <3>2
    <2>3. MapInv'
      BY ZenonT(60), <1>o, <2>1 DEF MapInv
    <2>4. ASSUME NEW d \in containers PROVE Owned(d)'
      <3>1. Mapped(d)' <=> Mapped(d)
        BY ZenonT(30), <2>1 DEF Mapped
      <3>2. Lost(d) => Lost(d)'
        BY ZenonT(30), <1>c, <2>1 DEF Lost
      <3> QED
        BY ZenonT(30), <1>c, <1>o, <2>1, <3>1, <3>2 DEF Owned
    <2>5. ASSUME NEW d \in containers', d.stage = i, d.k = builder'[i], d.k # 0 PROVE Owned(d)'
      BY Zenon, <2>5 DEF Owned
    <2> QED
      BY ZenonT(30), <2>2, <2>3, <2>4, <2>5 DEF OwnInv
  <1>9. CASE RootfsLookup(i)
    <2>1. /\ pc[i] = "rootfs" /\ \A k \in Stages : k # i => pc'[k] = pc[k] /\ todo'[k] = todo[k]
          /\ UNCHANGED <<containers, made, builder, containerIDs, containerMap, mapNil, ctxDone>>
      BY Zenon, <1>0, <1>9 DEF RootfsLookup, ReadDone
    <2>2. CASE pc'[i] = "work"
      <3>1. pc' = [pc EXCEPT ![i] = "work"]
        BY ZenonT(60), <1>0, <1>9, <2>2 DEF RootfsLookup, ReadDone
      <3> QED
        BY ZenonT(30), <2>1, <3>1, OwnKept DEF StagePC
    <2>3. CASE pc'[i] # "work"
      <3>1. pc'[i] = "rootMake" /\ todo' = todo /\ (mapNil \/ containerMap[Head(todo[i])] = NoContainer)
        BY ZenonT(60), <1>0, <1>9, <2>3 DEF RootfsLookup, ReadDone
      <3>2. mapNil \/ containerMap[Head(todo[i])][1] \notin Stages
        BY Zenon, <3>1, NoContainerStage
      <3>3. MapInv'
        <4> SUFFICES ASSUME NEW j \in Stages, pc'[j] = "rootMake", ~mapNil
                     PROVE  /\ containerMap[Head(todo[j])][1] # j
                            /\ Jobs > 1 \/ ctxDone \/ containerMap[Head(todo[j])] = NoContainer
          BY ZenonT(30), <2>1, <3>1 DEF MapInv
        <4>1. CASE j = i
          BY ZenonT(60), <3>1, <3>2, <4>1
        <4>2. CASE j # i
          BY ZenonT(60), <1>o, <2>1, <4>2 DEF MapInv
        <4> QED
          BY Zenon, <4>1, <4>2
      <3>4. ASSUME NEW d \in containers PROVE Owned(d)'
        <4>1. Mapped(d)' <=> Mapped(d)
          BY ZenonT(30), <2>1 DEF Mapped
        <4>2. Lost(d) => Lost(d)'
          BY ZenonT(30), <1>c, <2>1, <3>1, <3>2 DEF Lost
        <4> QED
          BY ZenonT(30), <1>c, <1>o, <2>1, <4>1, <4>2 DEF Owned
      <3> QED
        BY ZenonT(30), <2>1, <3>3, <3>4 DEF OwnInv
    <2> QED
      BY Zenon, <2>2, <2>3
  <1>10. CASE RootfsMake(i)
    <2> SUFFICES ASSUME ~mapNil PROVE OwnInv'
      BY Zenon, <1>10 DEF RootfsMake, OwnInv
    <2>c. PICK c : c = [stage |-> i, k |-> made[i] + 1, image |-> Ext, label |-> label]
      BY ZenonT(30)
    <2>n. PICK n : n = Head(todo[i])
      BY Zenon
    <2>0. n \in Names /\ <<i, made[i] + 1>> \in Int \X Nat
      <3>1. todo[i] \in Seq(Names) /\ todo[i] # <<>>
        BY ZenonT(30), <1>0, <1>10 DEF RootfsMake, TypeInv, ReadingInv
      <3> QED
        <4>1. i \in Int
          BY DEF Stages
        <4>2. made[i] + 1 \in Nat
          BY <1>0
        <4> QED
          BY ZenonT(60), <2>n, <3>1, <4>1, <4>2, HeadName
    <2>1. /\ pc[i] = "rootMake" /\ pc'[i] = "work"
          /\ \A k \in Stages : k # i => pc'[k] = pc[k] /\ todo'[k] = todo[k] /\ made'[k] = made[k]
          /\ containers' = containers \cup {c}
          /\ UNCHANGED <<builder, containerIDs, mapNil, ctxDone>>
          /\ containerMap' = [containerMap EXCEPT ![n] = <<i, made[i] + 1>>]
      BY ZenonT(30), <1>0, <1>10, <2>c, <2>n DEF RootfsMake, MakeContainer, ReadDone
    <2>2. /\ containerMap'[n] = <<i, made[i] + 1>> /\ containerMap'[n][1] = i
          /\ \A m \in Names : m # n => containerMap'[m] = containerMap[m]
      BY Zenon, <1>0, <2>0, <2>1
    <2>3. /\ containerMap[n][1] # i
          /\ Jobs > 1 \/ ctxDone \/ containerMap[n] = NoContainer
      BY ZenonT(60), <1>o, <2>1, <2>n DEF MapInv
    <2>4. ASSUME NEW j \in Stages, pc'[j] = "rootMake"
          PROVE  /\ containerMap'[Head(todo'[j])][1] # j
                 /\ Jobs > 1 \/ ctxDone' \/ containerMap'[Head(todo'[j])] = NoContainer
      <3>1. j # i /\ pc[j] = "rootMake" /\ todo'[j] = todo[j]
        BY Zenon, <2>1, <2>4
      <3>2. Head(todo[j]) \in Names
        <4>1. todo[j] \in Seq(Names) /\ todo[j] # <<>>
          BY ZenonT(30), <1>0, <3>1 DEF TypeInv, ReadingInv
        <4> QED
          BY Zenon, <4>1, HeadName
      <3>3. Jobs > 1 \/ ctxDone
        <4>1. SUFFICES ASSUME ~(Jobs > 1), ~ctxDone PROVE FALSE
          BY Zenon
        <4>2. Jobs = 1
          BY <4>1, SizeAssumption
        <4>3. i \in Holding /\ j \in Holding
          BY ZenonT(30), <2>1, <3>1 DEF Holding
        <4>4. Holding = {} \/ \E k \in Stages : Holding = {k}
          BY Zenon, <4>1, <4>2 DEF OneInv
        <4> QED
          BY <3>1, <4>3, <4>4
      <3>4. containerMap'[Head(todo[j])][1] # j
        <4>1. CASE Head(todo[j]) = n
          BY Zenon, <2>2, <3>1, <4>1
        <4>2. CASE Head(todo[j]) # n
          BY ZenonT(60), <1>o, <2>1, <2>2, <3>1, <3>2, <4>2 DEF MapInv
        <4> QED
          BY Zenon, <4>1, <4>2
      <3> QED
        BY ZenonT(60), <2>1, <3>1, <3>3, <3>4
    <2>5. MapInv'
      BY Zenon, <2>4 DEF MapInv
    <2>6. ASSUME NEW d \in containers PROVE Owned(d)'
      <3>1. Lost(d) => Lost(d)'
        <4> SUFFICES ASSUME Lost(d) PROVE Lost(d)'
          BY ZenonT(60)
        <4>1. PICK m \in Names : /\ containerMap[m][1] \in Stages \ {d.stage}
                                 /\ pc[d.stage] # "rootMake" \/ Head(todo[d.stage]) # m
          BY DEF Lost
        <4>2. containerMap'[m][1] \in Stages \ {d.stage}
          BY ZenonT(60), <2>1, <2>2, <2>n, <4>1
        <4>3. pc'[d.stage] # "rootMake" \/ Head(todo'[d.stage]) # m
          BY Zenon, <1>c, <2>1, <4>1
        <4> QED
          BY ZenonT(60), <2>1, <4>2, <4>3 DEF Lost
      <3>2. Mapped(d) => Mapped(d)' \/ Lost(d)'
        <4> SUFFICES ASSUME Mapped(d) PROVE Mapped(d)' \/ Lost(d)'
          OBVIOUS
        <4>1. PICK m \in Names : containerMap[m] = <<d.stage, d.k>>
          BY Zenon DEF Mapped
        <4>2. CASE m # n
          BY ZenonT(30), <2>1, <2>2, <4>1, <4>2 DEF Mapped
        <4>3. CASE m = n
          <5>0. containerMap[n][1] = d.stage
            BY <4>1, <4>3
          <5>1. d.stage # i /\ d.stage \in Stages
            BY ZenonT(60), <1>c, <2>3, <5>0
          <5>2. Jobs > 1 \/ ctxDone
            <6>1. containerMap[n] # NoContainer
              BY Zenon, <5>0, <5>1, NoContainerStage
            <6> QED
              BY ZenonT(60), <2>3, <6>1
          <5>3. pc'[d.stage] = "rootMake" => Head(todo'[d.stage]) # n
            <6> SUFFICES ASSUME pc'[d.stage] = "rootMake", Head(todo'[d.stage]) = n
                         PROVE  FALSE
              BY Zenon
            <6>1. pc[d.stage] = "rootMake" /\ todo'[d.stage] = todo[d.stage]
              BY Zenon, <2>1, <5>1
            <6>2. containerMap[Head(todo[d.stage])][1] # d.stage
              BY ZenonT(60), <1>o, <5>1, <6>1 DEF MapInv
            <6> QED
              BY ZenonT(60), <5>0, <6>1, <6>2
          <5> QED
            BY ZenonT(60), <2>0, <2>1, <2>2, <5>1, <5>2, <5>3 DEF Lost
        <4> QED
          BY <4>2, <4>3
      <3>3. pc[d.stage] = "mount" => pc'[d.stage] = "mount" /\ made'[d.stage] = made[d.stage]
        BY Zenon, <1>c, <2>1
      <3> QED
        BY ZenonT(30), <1>o, <2>1, <3>1, <3>2, <3>3 DEF Owned
    <2>7. Owned(c)'
      <3>1. made[i] # 0
        BY ZenonT(30), <1>k, <2>1 DEF KeepStage, Working
      <3>2. c.k > 1 /\ c.k # 0 /\ c.image = Ext /\ c.stage = i
        BY ZenonT(60), <1>0, <2>c, <3>1, NextMade
      <3>3. Mapped(c)'
        <4>1. containerMap'[n] = <<c.stage, c.k>>
          BY ZenonT(30), <2>2, <2>c
        <4> QED
          BY ZenonT(30), <2>0, <2>1, <4>1 DEF Mapped
      <3> QED
        BY ZenonT(30), <3>2, <3>3 DEF Owned
    <2> QED
      BY ZenonT(30), <2>1, <2>5, <2>6, <2>7 DEF OwnInv
  <1> QED
    BY ZenonT(60), <1>1, <1>2, <1>3, <1>4, <1>5, <1>6, <1>7, <1>8, <1>9, <1>10 DEF StageWork

\* So does a step of Build
LEMMA MainOwn ==
  ASSUME TypeInv, OwnInv, Alive, Main
  PROVE  OwnInv'
  <1> USE DEF semVars, ctlVars, stageVars, regVars, rootVars, storeVars
  <1>0. /\ containerIDs \in [Stages -> SUBSET Nat] /\ containerMap \in [Names -> Int \X Nat]
    BY Zenon DEF TypeInv, TypeOK
  <1>c. \A c \in containers : c.stage \in Stages /\ c.k \in Nat
    BY Zenon, ContainerFields
  <1>o. MapInv /\ \A c \in containers : Owned(c)
    BY Zenon DEF OwnInv, Alive
  <1>1. UNCHANGED <<pc, todo, made, containerMap, ctxDone, crashed>> /\ (mapNil => mapNil')
    <2>1. UNCHANGED <<pc, todo, made, containerMap, ctxDone, crashed>>
      BY ZenonT(60) DEF Main, ReceiveSuccess, ReceiveError, ReturnError, ChannelClosed, AddTags,
         DeleteStages, DeleteRoots, DeleteIntermediateCtrs, DeleteImages, ReportImage
    <2>2. mapNil' = mapNil \/ mapNil' = TRUE
      BY ZenonT(60) DEF Main, ReceiveSuccess, ReceiveError, ReturnError, ChannelClosed, AddTags,
         DeleteStages, DeleteRoots, DeleteIntermediateCtrs, DeleteImages, ReportImage
    <2> QED
      BY <2>1, <2>2
  <1>2. MapInv'
    BY ZenonT(60), <1>1, <1>o DEF MapInv
  <1>3. \A c \in containers : Lost(c) => Lost(c)'
    BY Zenon, <1>1 DEF Lost
  <1>4. ASSUME containers' \subseteq containers,
               \A c \in containers' :
                  /\ c.k = builder[c.stage] => c.k = builder'[c.stage]
                  /\ c.k \in containerIDs[c.stage] => c.k \in containerIDs'[c.stage]
                  /\ Mapped(c) => Mapped(c)'
        PROVE  OwnInv'
    <2>1. ASSUME NEW c \in containers' PROVE Owned(c)'
      <3>1. c \in containers
        BY Zenon, <1>4
      <3> QED
        BY ZenonT(30), <1>1, <1>3, <1>4, <1>o, <3>1 DEF Owned
    <2> QED
      BY Zenon, <1>2, <2>1 DEF OwnInv
  <1>5. ASSUME mapNil' = mapNil, NEW c PROVE Mapped(c) => Mapped(c)'
    BY Zenon, <1>1, <1>5 DEF Mapped
  <1>6. CASE UNCHANGED <<containers, builder, containerIDs, mapNil>>
    BY ZenonT(60), <1>4, <1>5, <1>6
  <1>7. CASE DeleteStages
    <2> DEFINE gone == IF cleanupNil THEN {} ELSE cleanupStages
    <2>1. /\ containers' = Without({<<i, builder[i]>> : i \in gone})
          /\ builder' = [i \in Stages |-> IF i \in gone THEN 0 ELSE builder[i]]
          /\ UNCHANGED <<containerIDs, mapNil>>
      BY ZenonT(30), <1>7 DEF DeleteStages
    <2>2. \A c \in containers' : c \in containers /\ <<c.stage, c.k>> \notin {<<i, builder[i]>> : i \in gone}
      BY Zenon, <2>1 DEF Without
    <2>3. \A c \in containers' : c.k = builder[c.stage] => c.k = builder'[c.stage]
      BY ZenonT(60), <1>c, <2>1, <2>2
    <2> QED
      BY ZenonT(30), <1>4, <1>5, <2>1, <2>2, <2>3
  <1>8. CASE DeleteRoots
    <2>1. UNCHANGED <<builder, containerIDs>> /\ mapNil'
      BY ZenonT(60), <1>8 DEF DeleteRoots
    <2>2. containers' \subseteq containers
      BY ZenonT(30), <1>8 DEF DeleteRoots, Without
    <2>3. ASSUME NEW c \in containers' PROVE ~Mapped(c)
      BY Zenon, <1>8, <2>3 DEF DeleteRoots, Without, Mapped
    <2> QED
      BY ZenonT(60), <1>4, <2>1, <2>2, <2>3
  <1>9. CASE DeleteIntermediateCtrs
    <2>1. CASE RemoveIntermediateCtrs
      <3>1. /\ containers' = Without(UNION {{i} \X containerIDs[i] : i \in stages})
            /\ containerIDs' = [i \in Stages |-> IF i \in stages THEN {} ELSE containerIDs[i]]
            /\ UNCHANGED <<builder, mapNil>>
        BY Zenon, <1>9, <2>1 DEF DeleteIntermediateCtrs
      <3>2. \A c \in containers' :
               c \in containers /\ (c.stage \in stages => c.k \notin containerIDs[c.stage])
        <4> SUFFICES ASSUME NEW c \in containers', c.stage \in stages, c.k \in containerIDs[c.stage]
                     PROVE  FALSE
          BY ZenonT(60), <3>1 DEF Without
        <4>1. <<c.stage, c.k>> \in {c.stage} \X containerIDs[c.stage]
          OBVIOUS
        <4> QED
          BY Zenon, <3>1, <4>1 DEF Without
      <3>3. \A c \in containers' : c.k \in containerIDs[c.stage] => c.k \in containerIDs'[c.stage]
        BY ZenonT(30), <1>c, <3>1, <3>2
      <3> QED
        BY ZenonT(60), <1>4, <1>5, <3>1, <3>2, <3>3
    <2>2. CASE ~RemoveIntermediateCtrs
      BY ZenonT(60), <1>6, <1>9, <2>2 DEF DeleteIntermediateCtrs
    <2> QED
      BY <2>1, <2>2
  <1> QED
    BY ZenonT(30), <1>6, <1>7, <1>8, <1>9
    DEF Main, ReceiveSuccess, ReceiveError, ReturnError, ChannelClosed, AddTags, DeleteImages,
        ReportImage

\* No step loses a container
LEMMA NextOwn ==
  ASSUME TypeInv, BaseInv, OneInv, KeepInv, OwnInv, [Next]_vars
  PROVE  OwnInv'
  <1> USE DEF semVars, ctlVars, stageVars, regVars, rootVars, mainVars, storeVars, Goto
  <1>1. CASE UNCHANGED vars
    BY ZenonT(30), <1>1 DEF vars, OwnInv, MapInv, Owned, Mapped, Lost
  <1>2. CASE Alive /\ (CancelContext \/ MapRace)
    <2>1. UNCHANGED <<pc, todo, made, builder, containerIDs, containerMap, mapNil, containers>>
          /\ (ctxDone => ctxDone')
      <3>1. CASE CancelContext
        BY Zenon, <3>1 DEF CancelContext
      <3>2. CASE MapRace
        BY Zenon, <3>2 DEF MapRace
      <3> QED
        BY ZenonT(60), <1>2, <3>1, <3>2
    <2> QED
      BY ZenonT(60), <1>2, <2>1 DEF OwnInv, MapInv, Owned, Mapped, Lost, Alive
  <1>3. CASE Alive /\ (Dispatch \/ DispatchFails)
    <2>0. PICK i \in Stages : i = next /\ pc[i] = "idle"
      <3>1. next \in 0 .. NumStages /\ next < NumStages
        BY Zenon, <1>3 DEF Dispatch, DispatchFails, TypeInv, TypeOK
      <3>2. next \in Stages /\ next >= next
        BY ZenonT(60), <3>1, NextStage
      <3> QED
        BY ZenonT(60), <3>2 DEF BaseInv, DispatchInv
    <2>1. UNCHANGED <<containers, made, builder, containerIDs, containerMap, mapNil, ctxDone, todo>>
      BY Zenon, <1>3 DEF Dispatch, DispatchFails
    <2>2. PICK to \in {"refused", "spawned", "done"} : pc' = [pc EXCEPT ![i] = to]
      BY Zenon, <1>3, <2>0 DEF Dispatch, DispatchFails
    <2> QED
      BY ZenonT(60), <1>3, <2>0, <2>1, <2>2, OwnKept DEF StagePC
  <1> QED
    BY <1>1, <1>2, <1>3, StageOwn, MainOwn DEF Next, Terminated

\* A goroutine that dies of a nil pointer has not ended
LEMMA NextNil ==
  ASSUME TypeInv, BaseInv, NilInv, [Next]_vars
  PROVE  NilInv'
  <1> USE DEF semVars, ctlVars, stageVars, regVars, rootVars, mainVars, storeVars, Goto
  <1>1. CASE UNCHANGED vars
    BY ZenonT(60), <1>1 DEF vars, NilInv
  <1>2. CASE Alive /\ crashed' # "nil"
    BY <1>2 DEF NilInv
  <1>3. ASSUME NEW i \in Stages, UseDeletedBuilder(i) PROVE NilInv'
    BY ZenonT(30), <1>3 DEF UseDeletedBuilder, NilInv, Ended
  <1>4. ASSUME NEW i \in Stages, RootfsMake(i) PROVE NilInv'
    <2>1. pc'[i] = "work"
      BY ZenonT(30), <1>4 DEF RootfsMake, ReadDone, TypeInv, TypeOK
    <2> QED
      BY <2>1 DEF NilInv, Ended
  <1>5. ASSUME NEW i \in Stages, StageWork(i) \/ Wake(i)
        PROVE  UseDeletedBuilder(i) \/ RootfsMake(i) \/ crashed' \in {crashed, "semaphore"}
    BY ZenonT(30), <1>5 DEF StageWork, Wake, StageCanceled, StageSkipped, StartStage, PollBase, Poll, Release,
       LookupBase, NewBuilder, NewBuilderFails, MountBuilder, MountBuilderFails, BeginRead,
       PollRead, ReadStage, ReadImage, RootfsLookup, RootfsMakeFails, Rebase, RebaseFails,
       StepFails, FinishStage, ReportError, ReleaseToken
  <1>6. ASSUME Main PROVE crashed' = crashed
    BY ZenonT(30), <1>6 DEF Main, ReceiveSuccess, ReceiveError, ReturnError, ChannelClosed, AddTags,
       DeleteStages, DeleteRoots, DeleteIntermediateCtrs, DeleteImages, ReportImage
  <1>7. ASSUME CancelContext \/ Dispatch \/ DispatchFails \/ MapRace
        PROVE  crashed' \in {crashed, "race"}
    BY ZenonT(60), <1>7 DEF CancelContext, Dispatch, DispatchFails, MapRace
  <1> QED
    BY ZenonT(60), <1>1, <1>2, <1>3, <1>4, <1>5, <1>6, <1>7 DEF Next, Terminated, Alive

(***************************************************************************)
(* After a single-layer build or one with --rm, the cleanup has removed     *)
(* every container of a stage with instructions whose success Build has     *)
(* seen, but for those another stage displaced in containerMap, for any     *)
(* number of stages and jobs, any Containerfile, whatever fails or is       *)
(* canceled (executor.go:596-627, stage_executor.go:864-871).               *)
(***************************************************************************)
THEOREM ContainersCleaned == Spec => []ContainersRemoved
  <1> DEFINE Inv == CancelInv /\ OneInv /\ KeepInv /\ OwnInv /\ NilInv
  <1>1. Init => Inv
    <2> SUFFICES ASSUME Init PROVE Inv
      BY Zenon
    <2>1. KeepInv
      <3>1. \A i \in Stages : KeepStage(i)
        BY ZenonT(60) DEF Init, KeepStage, Working, Running, HasBase
      <3>2. RegisterInv
        BY DEF Init, RegisterInv
      <3>3. CleanupInv
        BY ZenonT(60) DEF Init, CleanupInv
      <3> QED
        BY ZenonT(60), <3>1, <3>2, <3>3 DEF KeepInv
    <2>2. OwnInv
      BY DEF Init, OwnInv, MapInv
    <2> QED
      BY Zenon, <2>1, <2>2, InitCancel DEF Init, NilInv, OneInv, Holding
  <1>2. ExecInv /\ Inv /\ [Next]_vars => Inv'
    BY ZenonT(60), NextCancel, NextOne, NextKeep, NextOwn, NextNil DEF ExecInv
  <1>3. ASSUME ExecInv, Inv PROVE ContainersRemoved
    <2> SUFFICES ASSUME Finished, ~Layers \/ RemoveIntermediateCtrs, NEW c \in containers,
                        file.steps[c.stage], terminatedStage[c.stage] = "ok"
                 PROVE  Displaced(c)
      BY Zenon DEF ContainersRemoved
    <2>1. c.stage \in Stages /\ c.k \in Nat
      BY ZenonT(60), <1>3, ContainerFields DEF ExecInv
    <2>2. crashed # "nil"
      BY Zenon, <1>3 DEF NilInv, Finished, Ended
    <2>3. Owned(c)
      BY ZenonT(30), <1>3, <2>2 DEF OwnInv
    <2>4. cleanupNil /\ mapNil /\ ToClean(c.stage)
      BY Zenon, <1>3 DEF KeepInv, CleanupInv, Finished, ToClean
    <2>5. c.k # builder[c.stage]
      BY ZenonT(30), <1>3, <2>1, <2>3, <2>4 DEF KeepInv, KeepStage, Owned
    <2>6. c.k \notin containerIDs[c.stage]
      BY ZenonT(60), <1>3, <2>1 DEF KeepInv, KeepStage, CleanupInv, Finished
    <2>7. c.k > 1 /\ c.image = Ext /\ Lost(c)
      BY ZenonT(60), <2>1, <2>3, <2>4, <2>5, <2>6 DEF Owned, Mapped, Finished
    <2> QED
      BY <2>7 DEF Displaced, Lost
  <1>4. ExecInv /\ Inv => ContainersRemoved
    BY <1>3
  <1> QED
    BY SMTT(60), ExecAlways, <1>1, <1>2, <1>4, PTL DEF Spec
=============================================================================
