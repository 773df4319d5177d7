--------------------------- MODULE ExecutorProofs ---------------------------
(***************************************************************************)
(* Theorems about Executor, for every number of stages and jobs, every set  *)
(* of Containerfiles and every combination of options: its types, that      *)
(* every stage starts from the image of its base stage, and that Build      *)
(* returns an image only when every stage succeeded on the right base, and  *)
(* an image that is still there.                                            *)
(*                                                                          *)
(* BaseIsStageImage is not inductive: that the main loop never changes the  *)
(* image of a stage somebody has started from needs that each stage reports *)
(* once (ChannelInv); that the lookup finds an image needs that waiting was *)
(* over (StartInv), that a needed base is never skipped (NeededClosed) and  *)
(* that a stage used as a base commits (ImageInv).                          *)
(***************************************************************************)
EXTENDS Executor, TLAPS

\* Where a stage has something to read
ReadingInv ==
    \A i \in Stages :
        /\ pc[i] \in {"readWait", "readSleep", "read", "rootfs", "rootMake"} => todo[i] # << >>
        /\ pc[i] \in {"readWait", "readSleep"} => Head(todo[i]) \in Stages

TypeInv == TypeOK /\ ReadingInv

\* Stages, image names and the two special names
LEMMA StageNames == /\ Stages \subseteq Names /\ Ext \in Names /\ Images = Names /\ Ext \notin Stages
                    /\ Names = Stages \cup {Ext} /\ Stages \subseteq Int /\ NoImage \notin Names
  BY SizeAssumption DEF Stages, Names, Images, Ext, NoImage

\* NewBuilder leaves a well-formed set of containers
LEMMA ContainerType ==
  ASSUME NEW i \in Stages, NEW image \in Images, NEW l \in Int \X Nat, MakeContainer(i, image, l), TypeOK
  PROVE /\ made' \in [Stages -> Nat]
        /\ containers' \subseteq [stage : Stages, k : Nat, image : Images, label : Int \X Nat]
        /\ <<i, made[i] + 1>> \in Int \X Nat
  <1>1. made' \in [Stages -> Nat] /\ made[i] + 1 \in Nat
    BY DEF MakeContainer, TypeOK
  <1>2. [stage |-> i, k |-> made[i] + 1, image |-> image, label |-> l]
            \in [stage : Stages, k : Nat, image : Images, label : Int \X Nat]
    BY <1>1
  <1>3. containers' \subseteq [stage : Stages, k : Nat, image : Images, label : Int \X Nat]
    BY Zenon, <1>2 DEF MakeContainer, TypeOK
  <1> QED
    BY <1>1, <1>3, StageNames

\* Finishing a read keeps the list of reads well-formed
LEMMA ReadDoneType ==
  ASSUME NEW i \in Stages, ReadDone(i), TypeOK, todo[i] # << >>
  PROVE todo' \in [Stages -> Seq(Names)]
  <1>1. Tail(todo[i]) \in Seq(Names)
    BY DEF TypeOK
  <1> QED
    BY <1>1 DEF TypeOK, ReadDone

\* What the main loop receives is a result
LEMMA HeadType ==
  ASSUME TypeOK, ch # << >>
  PROVE  /\ Head(ch) \in Result
         /\ Head(ch).image \in Images \cup {NoImage}
         /\ Head(ch).index \in Stages
         /\ IsIntermediate(Head(ch)) => Head(ch).image \in Images
  <1>1. ch \in Seq(Result)
    BY DEF TypeOK
  <1>2. Head(ch) \in Result
    BY <1>1
  <1> QED
    BY <1>2 DEF Result, IsIntermediate

\* The state Build starts from is well-formed
LEMMA InitTypeOK == Init => TypeOK
  <1> SUFFICES ASSUME Init PROVE TypeOK
    OBVIOUS
  <1> USE SizeAssumption, StageNames DEF Init
  <1>1. file \in Containerfiles /\ todo \in [Stages -> Seq(Names)]
    BY ContainerfileAssumption DEF IsContainerfile
  <1>2. /\ ctxDone \in BOOLEAN /\ cancel \in BOOLEAN /\ lastError \in BOOLEAN
        /\ cleanupNil \in BOOLEAN /\ mapNil \in BOOLEAN /\ deferred \in BOOLEAN
    BY Zenon
  <1>3. /\ cur \in Int /\ next \in 0 .. NumStages /\ ch \in Seq(Result)
        /\ cleanupImages \in Seq(Images)
    OBVIOUS
  <1>4. /\ pc \in [Stages -> StagePC]
        /\ mpc \in MainPC
        /\ outcome \in {"none", "ok", "error"}
        /\ terminatedStage \in [Stages -> {"no", "ok", "error"}]
        /\ crashed \in Crashes
    BY DEF StagePC, MainPC, Crashes
  <1>5. /\ baseImage \in [Stages -> Images \cup {NoImage}]
        /\ imageMap \in [Stages -> Images \cup {NoImage}]
        /\ imageID \in Images \cup {NoImage}
        /\ made \in [Stages -> Nat]
        /\ builder \in [Stages -> Nat]
        /\ containerIDs \in [Stages -> SUBSET Nat]
    OBVIOUS
  <1>6. /\ containerMap \in [Names -> Int \X Nat]
        /\ label \in Int \X Nat
    BY DEF NoContainer, NoLabel
  <1>7. /\ stages \in SUBSET Stages /\ cleanupStages \in SUBSET Stages
        /\ containers \subseteq [stage : Stages, k : Nat, image : Images, label : Int \X Nat]
        /\ images \in SUBSET Images
    OBVIOUS
  <1> QED
    BY Zenon, <1>1, <1>2, <1>3, <1>4, <1>5, <1>6, <1>7 DEF TypeOK

\* ... and nobody is reading yet
LEMMA InitType == Init => TypeInv
  BY Zenon, InitTypeOK DEF Init, TypeInv, ReadingInv

\* Every step of a goroutine or of Build keeps the state well-formed
LEMMA NextType == TypeInv /\ [Next]_vars => TypeInv'
  <1> SUFFICES ASSUME TypeInv, [Next]_vars PROVE TypeInv'
    OBVIOUS
  <1> USE SizeAssumption, OptionAssumption, ContainerfileAssumption
  <1> USE DEF semVars, ctlVars, stageVars, regVars, rootVars, mainVars, storeVars, Goto
  <1>file. file \in Containerfiles
    BY DEF TypeInv, TypeOK
  <1>cf. IsContainerfile(file)
    BY <1>file
  <1>pc. pc \in [Stages -> StagePC]
    BY DEF TypeInv, TypeOK
  <1>ch. ch \in Seq(Result)
    BY DEF TypeInv, TypeOK
  <1>made. made \in [Stages -> Nat]
    BY DEF TypeInv, TypeOK
  <1>builder. builder \in [Stages -> Nat]
    BY DEF TypeInv, TypeOK
  <1>ids. containerIDs \in [Stages -> SUBSET Nat]
    BY DEF TypeInv, TypeOK
  <1>images. images \in SUBSET Images
    BY DEF TypeInv, TypeOK
  <1>clean. cleanupImages \in Seq(Images)
    BY DEF TypeInv, TypeOK
  <1>outcome. outcome \in {"none", "ok", "error"}
    BY DEF TypeInv, TypeOK
  <1>imageID. imageID \in Images \cup {NoImage}
    BY DEF TypeInv, TypeOK
  <1>deferred. deferred \in BOOLEAN
    BY DEF TypeInv, TypeOK
  <1>1. CASE CancelContext
    <2> QED
      BY ZenonT(60), <1>1 DEF CancelContext, TypeInv, TypeOK, ReadingInv
  <1>2. CASE Dispatch
    <2>1. pc' \in [Stages -> StagePC]
      BY <1>2 DEF Dispatch, Acquire, Stages, TypeInv, TypeOK, StagePC
    <2>2. next' \in 0 .. NumStages
      BY <1>2 DEF Dispatch, Acquire, Stages, TypeInv, TypeOK
    <2>3. cur' \in Int
      BY <1>2 DEF Dispatch, Acquire, Stages, TypeInv, TypeOK
    <2>r. ReadingInv'
      BY Zenon, <1>2 DEF Dispatch, Acquire, Stages, TypeInv, TypeOK, ReadingInv, Names, Ext
    <2> QED
      BY ZenonT(30), <1>2, <2>1, <2>2, <2>3, <2>r DEF Dispatch, Acquire, Stages, TypeInv, TypeOK
  <1>3. CASE DispatchFails
    <2>1. pc' \in [Stages -> StagePC]
      BY <1>3 DEF DispatchFails, AcquireFails, SendNotStarted, Send, Stages, TypeInv, TypeOK, StagePC
    <2>2. next' \in 0 .. NumStages
      BY <1>3 DEF DispatchFails, AcquireFails, SendNotStarted, Send, Stages, TypeInv, TypeOK
    <2>3. cur' \in Int
      BY <1>3 DEF DispatchFails, AcquireFails, SendNotStarted, Send, Stages, TypeInv, TypeOK
    <2>4. ch' \in Seq(Result)
      BY <1>3 DEF DispatchFails, AcquireFails, SendNotStarted, Send, Stages, TypeInv, TypeOK, Result, Images, NoImage
    <2>r. ReadingInv'
      BY Zenon, <1>3 DEF DispatchFails, AcquireFails, SendNotStarted, Send, Stages, TypeInv, TypeOK, ReadingInv, Names, Ext
    <2> QED
      BY Zenon, <1>3, <2>1, <2>2, <2>3, <2>4, <2>r DEF DispatchFails, AcquireFails, SendNotStarted, Send, Stages, TypeInv, TypeOK
  <1>4. CASE MapRace
    <2>1. crashed' \in Crashes
      BY <1>4 DEF MapRace, TypeInv, TypeOK, Crashes
    <2> QED
      BY ZenonT(30), <1>4, <2>1 DEF MapRace, TypeInv, TypeOK, ReadingInv
  <1>5. ASSUME NEW i \in Stages, Wake(i) PROVE TypeInv'
    <2>1. pc' \in [Stages -> StagePC]
      <3>1. \E w \in {"fromWait", "readWait", "erring"} : pc' = [pc EXCEPT ![i] = w]
        BY <1>5 DEF Wake, Reacquire, StageError
      <3> QED
        BY <3>1 DEF TypeInv, TypeOK, StagePC
    <2>2. cur' \in Int
      BY <1>5 DEF Wake, Reacquire, Acquire, AcquireFails, StageError, TypeInv, TypeOK
    <2>3. cancel' \in BOOLEAN
      BY Zenon, <1>5 DEF Wake, Reacquire, Acquire, AcquireFails, StageError, TypeInv, TypeOK
    <2>r. ReadingInv'
      BY ZenonT(30), <1>5 DEF Wake, Reacquire, Acquire, AcquireFails, StageError, TypeInv, TypeOK, ReadingInv, Names, Stages, Ext
    <2> QED
      BY ZenonT(60), <1>5, <2>1, <2>2, <2>3, <2>r DEF Wake, Reacquire, Acquire, AcquireFails, StageError, TypeInv, TypeOK
  <1>6. ASSUME NEW i \in Stages, StageCanceled(i) PROVE TypeInv'
    <2>1. pc' \in [Stages -> StagePC]
      BY <1>6 DEF StageCanceled, Send, TypeInv, TypeOK, StagePC
    <2>2. ch' \in Seq(Result)
      BY <1>6 DEF StageCanceled, Send, TypeInv, TypeOK, Result, Images, NoImage
    <2>r. ReadingInv'
      BY Zenon, <1>6 DEF StageCanceled, Send, TypeInv, TypeOK, ReadingInv, Names, Stages, Ext
    <2> QED
      BY ZenonT(30), <1>6, <2>1, <2>2, <2>r DEF StageCanceled, Send, TypeInv, TypeOK
  <1>7. ASSUME NEW i \in Stages, StageSkipped(i) PROVE TypeInv'
    <2>1. pc' \in [Stages -> StagePC]
      BY <1>7 DEF StageSkipped, Send, TypeInv, TypeOK, StagePC
    <2>2. ch' \in Seq(Result)
      BY <1>7 DEF StageSkipped, Send, TypeInv, TypeOK, Result, Images, NoImage
    <2>r. ReadingInv'
      BY Zenon, <1>7 DEF StageSkipped, Send, TypeInv, TypeOK, ReadingInv, Names, Stages, Ext
    <2> QED
      BY ZenonT(60), <1>7, <2>1, <2>2, <2>r DEF StageSkipped, Send, TypeInv, TypeOK
  <1>8. ASSUME NEW i \in Stages, StartStage(i) PROVE TypeInv'
    <2>1. pc' \in [Stages -> StagePC]
      BY <1>8 DEF StartStage, ExecuteFrom, TypeInv, TypeOK, StagePC
    <2>2. stages' \in SUBSET Stages
      BY <1>8 DEF StartStage, ExecuteFrom, TypeInv, TypeOK
    <2>3. cleanupStages' \in SUBSET Stages
      BY Zenon, <1>8 DEF StartStage, ExecuteFrom, TypeInv, TypeOK
    <2>r. ReadingInv'
      BY Zenon, <1>8 DEF StartStage, ExecuteFrom, TypeInv, TypeOK, ReadingInv, Names, Stages, Ext
    <2> QED
      BY ZenonT(60), <1>8, <2>1, <2>2, <2>3, <2>r DEF StartStage, ExecuteFrom, TypeInv, TypeOK
  <1>9. ASSUME NEW i \in Stages, PollBase(i) PROVE TypeInv'
    <2>1. pc' \in [Stages -> StagePC]
      <3>1. \E w \in {"fromSleep", "lookup", "erring"} : pc' = [pc EXCEPT ![i] = w]
        BY <1>9 DEF PollBase, Poll, StageError
      <3> QED
        BY <3>1 DEF TypeInv, TypeOK, StagePC
    <2>2. cur' \in Int
      BY <1>9 DEF PollBase, Poll, StageError, Release, TypeInv, TypeOK
    <2>3. cancel' \in BOOLEAN
      BY Zenon, <1>9 DEF PollBase, Poll, StageError, Release, TypeInv, TypeOK
    <2>4. crashed' \in Crashes
      BY <1>9 DEF PollBase, Poll, StageError, Release, TypeInv, TypeOK, Crashes
    <2>r. ReadingInv'
      BY ZenonT(30), <1>9 DEF PollBase, Poll, StageError, Release, TypeInv, TypeOK, ReadingInv, Names, Stages, Ext
    <2> QED
      BY ZenonT(60), <1>9, <2>1, <2>2, <2>3, <2>4, <2>r DEF PollBase, Poll, StageError, Release, TypeInv, TypeOK
  <1>10. ASSUME NEW i \in Stages, LookupBase(i) PROVE TypeInv'
    <2>1. pc' \in [Stages -> StagePC]
      BY Zenon, <1>10 DEF LookupBase, TypeInv, TypeOK, StagePC
    <2>2. baseImage' \in [Stages -> Images \cup {NoImage}]
      <3>1. file.base[i] \in Names
        BY <1>file, <1>cf DEF IsContainerfile
      <3>2. file.base[i] # Ext => imageMap[file.base[i]] \in Images \cup {NoImage}
        BY Zenon, <3>1, StageNames DEF TypeInv, TypeOK
      <3> QED
        BY Zenon, <1>10, <3>1, <3>2, StageNames DEF TypeInv, TypeOK, LookupBase
    <2>r. ReadingInv'
      BY Zenon, <1>10 DEF LookupBase, TypeInv, TypeOK, ReadingInv, Names, Stages, Ext
    <2> QED
      BY ZenonT(60), <1>10, <2>1, <2>2, <2>r DEF LookupBase, TypeInv, TypeOK
  <1>11. ASSUME NEW i \in Stages, NewBuilder(i) PROVE TypeInv'
    <2>1. pc' \in [Stages -> StagePC]
      BY <1>11 DEF NewBuilder, MakeContainer, TypeInv, TypeOK, StagePC
    <2>2. made' \in [Stages -> Nat]
      BY <1>11 DEF NewBuilder, MakeContainer, TypeInv, TypeOK
    <2>3. containers' \subseteq [stage : Stages, k : Nat, image : Images, label : Int \X Nat]
      <3>1. baseImage[i] \in Images
        BY Zenon, <1>11, StageNames DEF NewBuilder, TypeInv, TypeOK
      <3>2. (IF label = NoLabel THEN <<i, made[i] + 1>> ELSE label) \in Int \X Nat
        BY StageNames DEF TypeInv, TypeOK
      <3> QED
        BY <1>11, <3>1, <3>2, ContainerType DEF NewBuilder, TypeInv
    <2>4. images' \in SUBSET Images
      <3>1. baseImage[i] \in Images
        BY Zenon, <1>11, StageNames DEF NewBuilder, TypeInv, TypeOK
      <3> QED
        BY <1>11, <3>1 DEF NewBuilder, TypeInv, TypeOK
    <2>r. ReadingInv'
      BY Zenon, <1>11 DEF NewBuilder, MakeContainer, TypeInv, TypeOK, ReadingInv, Names, Stages, Ext
    <2> QED
      BY ZenonT(60), <1>11, <2>1, <2>2, <2>3, <2>4, <2>r DEF NewBuilder, MakeContainer, TypeInv, TypeOK
  <1>12. ASSUME NEW i \in Stages, NewBuilderFails(i) PROVE TypeInv'
    <2>1. pc' \in [Stages -> StagePC]
      BY Zenon, <1>12 DEF NewBuilderFails, StageError, TypeInv, TypeOK, StagePC
    <2>2. cancel' \in BOOLEAN
      BY <1>12 DEF NewBuilderFails, StageError, TypeInv, TypeOK
    <2>r. ReadingInv'
      BY Zenon, <1>12 DEF NewBuilderFails, StageError, TypeInv, TypeOK, ReadingInv, Names, Stages, Ext
    <2> QED
      BY ZenonT(60), <1>12, <2>1, <2>2, <2>r DEF NewBuilderFails, StageError, TypeInv, TypeOK
  <1>13. ASSUME NEW i \in Stages, MountBuilder(i) PROVE TypeInv'
    <2>1. pc' \in [Stages -> StagePC]
      BY <1>13 DEF MountBuilder, ShareLabel, TypeInv, TypeOK, StagePC
    <2>2. label' \in Int \X Nat
      BY <1>13 DEF MountBuilder, ShareLabel, TypeInv, TypeOK
    <2>3. builder' \in [Stages -> Nat]
      BY Zenon, <1>13 DEF MountBuilder, ShareLabel, TypeInv, TypeOK
    <2>r. ReadingInv'
      BY <1>13 DEF MountBuilder, ShareLabel, TypeInv, TypeOK, ReadingInv, Names, Stages, Ext
    <2> QED
      BY ZenonT(30), <1>13, <2>1, <2>2, <2>3, <2>r DEF MountBuilder, ShareLabel, TypeInv, TypeOK
  <1>14. ASSUME NEW i \in Stages, MountBuilderFails(i) PROVE TypeInv'
    <2>1. pc' \in [Stages -> StagePC]
      BY Zenon, <1>14 DEF MountBuilderFails, ShareLabel, StageError, Without, TypeInv, TypeOK, StagePC
    <2>2. label' \in Int \X Nat
      BY <1>14 DEF MountBuilderFails, ShareLabel, StageError, Without, TypeInv, TypeOK
    <2>3. cancel' \in BOOLEAN
      BY Zenon, <1>14 DEF MountBuilderFails, ShareLabel, StageError, Without, TypeInv, TypeOK
    <2>4. containers' \subseteq [stage : Stages, k : Nat, image : Images, label : Int \X Nat]
      BY <1>14 DEF MountBuilderFails, ShareLabel, StageError, Without, TypeInv, TypeOK, Images, Stages, Ext
    <2>r. ReadingInv'
      BY Zenon, <1>14 DEF MountBuilderFails, ShareLabel, StageError, Without, TypeInv, TypeOK, ReadingInv, Names, Stages, Ext
    <2> QED
      BY ZenonT(30), <1>14, <2>1, <2>2, <2>3, <2>4, <2>r DEF MountBuilderFails, ShareLabel, StageError, Without, TypeInv, TypeOK
  <1>15. ASSUME NEW i \in Stages, BeginRead(i) PROVE TypeInv'
    <2>1. pc' \in [Stages -> StagePC]
      BY <1>15 DEF BeginRead, TypeInv, TypeOK, StagePC
    <2>r. ReadingInv'
      <3>1. Head(todo[i]) \in Names
        BY <1>15 DEF BeginRead, TypeInv, TypeOK
      <3> QED
        BY Zenon, <1>15, <3>1, StageNames DEF BeginRead, TypeInv, TypeOK, ReadingInv
    <2> QED
      BY ZenonT(30), <1>15, <2>1, <2>r DEF BeginRead, TypeInv, TypeOK
  <1>16. ASSUME NEW i \in Stages, PollRead(i) PROVE TypeInv'
    <2>1. pc' \in [Stages -> StagePC]
      <3>1. \E w \in {"readSleep", "read", "erring"} : pc' = [pc EXCEPT ![i] = w]
        BY <1>16 DEF PollRead, Poll, StageError
      <3> QED
        BY <3>1 DEF TypeInv, TypeOK, StagePC
    <2>2. cur' \in Int
      BY <1>16 DEF PollRead, Poll, StageError, Release, TypeInv, TypeOK
    <2>3. cancel' \in BOOLEAN
      BY Zenon, <1>16 DEF PollRead, Poll, StageError, Release, TypeInv, TypeOK
    <2>4. crashed' \in Crashes
      BY <1>16 DEF PollRead, Poll, StageError, Release, TypeInv, TypeOK, Crashes
    <2>r. ReadingInv'
      BY Zenon, <1>16 DEF PollRead, Poll, StageError, Release, TypeInv, TypeOK, ReadingInv, Names, Stages, Ext
    <2> QED
      BY Zenon, <1>16, <2>1, <2>2, <2>3, <2>4, <2>r DEF PollRead, Poll, StageError, Release, TypeInv, TypeOK
  <1>17. ASSUME NEW i \in Stages, ReadStage(i) PROVE TypeInv'
    <2>1. pc' \in [Stages -> StagePC]
      <3>1. \E w \in {"work", "erring"} : pc' = [pc EXCEPT ![i] = w]
        BY <1>17 DEF ReadStage, ReadDone, StageError
      <3> QED
        BY <1>pc, <3>1 DEF StagePC
    <2>2. todo' \in [Stages -> Seq(Names)]
      BY Zenon, <1>17, ReadDoneType DEF ReadStage, TypeInv, TypeOK, ReadingInv
    <2>3. cancel' \in BOOLEAN
      BY Zenon, <1>17 DEF ReadStage, ReadDone, StageError, TypeInv, TypeOK
    <2>r. ReadingInv'
      BY ZenonT(30), <1>17 DEF ReadStage, ReadDone, StageError, TypeInv, TypeOK, ReadingInv, Names, Stages, Ext
    <2> QED
      BY ZenonT(30), <1>17, <2>1, <2>2, <2>3, <2>r DEF ReadStage, ReadDone, StageError, TypeInv, TypeOK
  <1>18. ASSUME NEW i \in Stages, ReadImage(i) PROVE TypeInv'
    <2>1. pc' \in [Stages -> StagePC]
      BY <1>18 DEF ReadImage, TypeInv, TypeOK, StagePC
    <2>r. ReadingInv'
      BY Zenon, <1>18 DEF ReadImage, TypeInv, TypeOK, ReadingInv, Names, Stages, Ext
    <2> QED
      BY ZenonT(30), <1>18, <2>1, <2>r DEF ReadImage, TypeInv, TypeOK
  <1>19. ASSUME NEW i \in Stages, RootfsLookup(i) PROVE TypeInv'
    <2>1. pc' \in [Stages -> StagePC]
      <3>1. \E w \in {"work", "rootMake"} : pc' = [pc EXCEPT ![i] = w]
        BY <1>19 DEF RootfsLookup, ReadDone
      <3> QED
        BY <3>1 DEF TypeInv, TypeOK, StagePC
    <2>2. todo' \in [Stages -> Seq(Names)]
      BY Zenon, <1>19, ReadDoneType DEF RootfsLookup, TypeInv, TypeOK, ReadingInv
    <2>r. ReadingInv'
      BY ZenonT(30), <1>19 DEF RootfsLookup, ReadDone, TypeInv, TypeOK, ReadingInv, Names, Stages, Ext
    <2> QED
      BY ZenonT(30), <1>19, <2>1, <2>2, <2>r DEF RootfsLookup, ReadDone, TypeInv, TypeOK
  <1>20. ASSUME NEW i \in Stages, RootfsMake(i) PROVE TypeInv'
    <2>1. pc' \in [Stages -> StagePC]
      BY <1>20 DEF RootfsMake, ReadDone, MakeContainer, TypeInv, TypeOK, StagePC
    <2>2. todo' \in [Stages -> Seq(Names)]
      BY ZenonT(60), <1>20, ReadDoneType DEF RootfsMake, TypeInv, TypeOK, ReadingInv
    <2>3. made' \in [Stages -> Nat]
      BY <1>20, <1>made DEF RootfsMake, MakeContainer
    <2>4. containers' \subseteq [stage : Stages, k : Nat, image : Images, label : Int \X Nat]
      BY Zenon, <1>20, StageNames, ContainerType DEF RootfsMake, TypeInv, TypeOK
    <2>5. images' \in SUBSET Images
      BY ZenonT(60), <1>20, StageNames DEF RootfsMake, TypeInv, TypeOK
    <2>6. crashed' \in Crashes
      BY <1>20 DEF RootfsMake, ReadDone, MakeContainer, TypeInv, TypeOK, Crashes
    <2>7. containerMap' \in [Names -> Int \X Nat]
      <3>1. <<i, made[i] + 1>> \in Int \X Nat
        BY Zenon, <1>20, StageNames, ContainerType DEF RootfsMake, TypeInv, TypeOK
      <3> QED
        BY Zenon, <1>20, <3>1 DEF RootfsMake, TypeInv, TypeOK
    <2>r. ReadingInv'
      BY Zenon, <1>20 DEF RootfsMake, ReadDone, MakeContainer, TypeInv, TypeOK, ReadingInv, Names, Stages, Ext
    <2> QED
      BY ZenonT(30), <1>20, <2>1, <2>2, <2>3, <2>4, <2>5, <2>6, <2>7, <2>r DEF RootfsMake, ReadDone, MakeContainer, TypeInv, TypeOK
  <1>21. ASSUME NEW i \in Stages, RootfsMakeFails(i) PROVE TypeInv'
    <2>1. pc' \in [Stages -> StagePC]
      BY <1>21 DEF RootfsMakeFails, StageError, TypeInv, TypeOK, StagePC
    <2>2. cancel' \in BOOLEAN
      BY <1>21 DEF RootfsMakeFails, StageError, TypeInv, TypeOK
    <2>r. ReadingInv'
      BY Zenon, <1>21 DEF RootfsMakeFails, StageError, TypeInv, TypeOK, ReadingInv, Names, Stages, Ext
    <2> QED
      BY ZenonT(60), <1>21, <2>1, <2>2, <2>r DEF RootfsMakeFails, StageError, TypeInv, TypeOK
  <1>22. ASSUME NEW i \in Stages, Rebase(i) PROVE TypeInv'
    <2>1. containerIDs' \in [Stages -> SUBSET Nat]
      BY <1>22, <1>ids, <1>builder DEF Rebase, NoteReplaced
    <2>2. made' \in [Stages -> Nat]
      BY <1>22, <1>made DEF Rebase, MakeContainer
    <2>3. builder' \in [Stages -> Nat]
      BY <1>22, <1>made, <1>builder DEF Rebase
    <2>4. containers' \subseteq [stage : Stages, k : Nat, image : Images, label : Int \X Nat]
      BY Zenon, <1>22, StageNames, ContainerType DEF Rebase, TypeInv, TypeOK
    <2>5. images' \in SUBSET Images
      BY <1>22, <1>images, StageNames DEF Rebase
    <2> QED
      BY ZenonT(30), <1>22, <2>1, <2>2, <2>3, <2>4, <2>5 DEF Rebase, CanRebase, NoteReplaced, MakeContainer, TypeInv, TypeOK, ReadingInv
  <1>23. ASSUME NEW i \in Stages, RebaseFails(i) PROVE TypeInv'
    <2>1. pc' \in [Stages -> StagePC]
      BY Zenon, <1>23 DEF RebaseFails, CanRebase, NoteReplaced, StageError, TypeInv, TypeOK, StagePC
    <2>2. containerIDs' \in [Stages -> SUBSET Nat]
      BY <1>23 DEF RebaseFails, CanRebase, NoteReplaced, StageError, TypeInv, TypeOK
    <2>3. cancel' \in BOOLEAN
      BY <1>23 DEF RebaseFails, CanRebase, NoteReplaced, StageError, TypeInv, TypeOK
    <2>r. ReadingInv'
      BY Zenon, <1>23 DEF RebaseFails, CanRebase, NoteReplaced, StageError, TypeInv, TypeOK, ReadingInv, Names, Stages, Ext
    <2> QED
      BY ZenonT(30), <1>23, <2>1, <2>2, <2>3, <2>r DEF RebaseFails, CanRebase, NoteReplaced, StageError, TypeInv, TypeOK
  <1>24. ASSUME NEW i \in Stages, StepFails(i) PROVE TypeInv'
    <2>1. pc' \in [Stages -> StagePC]
      BY Zenon, <1>24 DEF StepFails, StageError, TypeInv, TypeOK, StagePC
    <2>2. cancel' \in BOOLEAN
      BY <1>24 DEF StepFails, StageError, TypeInv, TypeOK
    <2>r. ReadingInv'
      BY Zenon, <1>24 DEF StepFails, StageError, TypeInv, TypeOK, ReadingInv, Names, Stages, Ext
    <2> QED
      BY ZenonT(30), <1>24, <2>1, <2>2, <2>r DEF StepFails, StageError, TypeInv, TypeOK
  <1>25. ASSUME NEW i \in Stages, FinishStage(i) PROVE TypeInv'
    <2>1. pc' \in [Stages -> StagePC]
      BY <1>25 DEF FinishStage, Send, TypeInv, TypeOK, StagePC
    <2>2. ch' \in Seq(Result)
      <3>1. PICK image \in Images \cup {NoImage} : Send([index |-> i, image |-> image, error |-> FALSE])
        BY Zenon, <1>25, StageNames DEF FinishStage, TypeInv, TypeOK
      <3>2. [index |-> i, image |-> image, error |-> FALSE] \in Result
        BY DEF Result
      <3> QED
        BY <3>1, <3>2 DEF TypeInv, TypeOK, Send
    <2>3. images' \in SUBSET Images
      <3>1. PICK image \in Images \cup {NoImage} : images' = images \cup ({image} \ {NoImage})
        BY ZenonT(30), <1>25, StageNames DEF FinishStage, TypeInv, TypeOK
      <3> QED
        BY <3>1 DEF TypeInv, TypeOK
    <2>4. cleanupStages' \in SUBSET Stages
      BY <1>25 DEF FinishStage, Send, TypeInv, TypeOK
    <2>r. ReadingInv'
      BY Zenon, <1>25 DEF FinishStage, Send, TypeInv, TypeOK, ReadingInv, Names, Stages, Ext
    <2> QED
      BY ZenonT(30), <1>25, <2>1, <2>2, <2>3, <2>4, <2>r DEF FinishStage, Send, TypeInv, TypeOK
  <1>26. ASSUME NEW i \in Stages, UseDeletedBuilder(i) PROVE TypeInv'
    <2>1. crashed' \in Crashes
      BY <1>26 DEF UseDeletedBuilder, TypeInv, TypeOK, Crashes
    <2> QED
      BY ZenonT(30), <1>26, <2>1 DEF UseDeletedBuilder, TypeInv, TypeOK, ReadingInv
  <1>27. ASSUME NEW i \in Stages, ReportError(i) PROVE TypeInv'
    <2>1. pc' \in [Stages -> StagePC]
      BY Zenon, <1>27 DEF ReportError, Send, TypeInv, TypeOK, StagePC
    <2>2. ch' \in Seq(Result)
      BY <1>27 DEF ReportError, Send, TypeInv, TypeOK, Result, Images, NoImage
    <2>r. ReadingInv'
      BY Zenon, <1>27 DEF ReportError, Send, TypeInv, TypeOK, ReadingInv, Names, Stages, Ext
    <2> QED
      BY ZenonT(30), <1>27, <2>1, <2>2, <2>r DEF ReportError, Send, TypeInv, TypeOK
  <1>28. ASSUME NEW i \in Stages, ReleaseToken(i) PROVE TypeInv'
    <2>1. pc' \in [Stages -> StagePC]
      BY <1>28 DEF ReleaseToken, Release, TypeInv, TypeOK, StagePC
    <2>2. cur' \in Int
      BY <1>28 DEF ReleaseToken, Release, TypeInv, TypeOK
    <2>3. crashed' \in Crashes
      BY <1>28 DEF ReleaseToken, Release, TypeInv, TypeOK, Crashes
    <2>r. ReadingInv'
      BY Zenon, <1>28 DEF ReleaseToken, Release, TypeInv, TypeOK, ReadingInv, Names, Stages, Ext
    <2> QED
      BY ZenonT(30), <1>28, <2>1, <2>2, <2>3, <2>r DEF ReleaseToken, Release, TypeInv, TypeOK
  <1>29. CASE ReceiveSuccess
    <2>h. /\ Head(ch).image \in Images \cup {NoImage}
          /\ Head(ch).index \in Stages
          /\ IsIntermediate(Head(ch)) => Head(ch).image \in Images
      BY Zenon, <1>29, HeadType DEF ReceiveSuccess, TypeInv
    <2>1. terminatedStage' \in [Stages -> {"no", "ok", "error"}]
      BY Zenon, <1>29 DEF ReceiveSuccess, IsIntermediate, TypeInv, TypeOK, Result
    <2>2. imageMap' \in [Stages -> Images \cup {NoImage}]
      BY <1>29, <2>h DEF ReceiveSuccess, TypeInv, TypeOK
    <2>3. cleanupImages' \in Seq(Images)
      <3>1. CASE cleanupImages' = cleanupImages
        BY ZenonT(60), <1>clean, <3>1
      <3>2. CASE cleanupImages' = Append(cleanupImages, Head(ch).image) /\ IsIntermediate(Head(ch))
        BY <1>clean, <2>h, <3>2
      <3> QED
        BY <1>29, <3>1, <3>2 DEF ReceiveSuccess
    <2>4. imageID' \in Images \cup {NoImage}
      BY Zenon, <1>29, <2>h DEF ReceiveSuccess, TypeInv, TypeOK
    <2>5. ch' \in Seq(Result)
      BY <1>29, <1>ch DEF ReceiveSuccess
    <2> QED
      BY ZenonT(30), <1>29, <2>1, <2>2, <2>3, <2>4, <2>5 DEF ReceiveSuccess, IsIntermediate, TypeInv, TypeOK, ReadingInv
  <1>30. CASE ReceiveError
    <2>1. terminatedStage' \in [Stages -> {"no", "ok", "error"}]
      BY Zenon, <1>30 DEF ReceiveError, ReturnAfterError, TypeInv, TypeOK, Result
    <2>2. mpc' \in MainPC
      BY <1>30 DEF ReceiveError, ReturnAfterError, TypeInv, TypeOK, MainPC
    <2>3. ch' \in Seq(Result)
      BY <1>30 DEF ReceiveError, ReturnAfterError, TypeInv, TypeOK, Result, Images, NoImage
    <2> QED
      BY ZenonT(30), <1>30, <2>1, <2>2, <2>3 DEF ReceiveError, ReturnAfterError, TypeInv, TypeOK, ReadingInv
  <1>31. CASE ReturnError
    <2>1. imageID' \in Images \cup {NoImage}
      BY <1>31 DEF ReturnError, TypeInv, TypeOK, Result
    <2>2. outcome' \in {"none", "ok", "error"}
      BY <1>31 DEF ReturnError, TypeInv, TypeOK
    <2>3. mpc' \in MainPC
      BY Zenon, <1>31 DEF ReturnError, TypeInv, TypeOK, MainPC
    <2> QED
      BY ZenonT(60), <1>31, <2>1, <2>2, <2>3 DEF ReturnError, TypeInv, TypeOK, ReadingInv
  <1>32. CASE ChannelClosed
    <2>1. mpc' \in MainPC
      BY <1>32 DEF ChannelClosed, TypeInv, TypeOK, MainPC
    <2> QED
      BY ZenonT(60), <1>32, <2>1 DEF ChannelClosed, TypeInv, TypeOK, ReadingInv
  <1>33. CASE AddTags
    <2>1. outcome' \in {"none", "ok", "error"}
      BY Zenon, <1>33 DEF AddTags, TypeInv, TypeOK
    <2>2. mpc' \in MainPC
      BY Zenon, <1>33 DEF AddTags, TypeInv, TypeOK, MainPC
    <2> QED
      BY ZenonT(30), <1>33, <2>1, <2>2 DEF AddTags, TypeInv, TypeOK, ReadingInv
  <1>34. CASE DeleteStages
    <2>1. containers' \subseteq [stage : Stages, k : Nat, image : Images, label : Int \X Nat]
      BY <1>34 DEF DeleteStages, Without, TypeInv, TypeOK, Images, Stages, Ext
    <2>2. builder' \in [Stages -> Nat]
      BY ZenonT(30), <1>34 DEF DeleteStages, Without, TypeInv, TypeOK
    <2>3. mpc' \in MainPC
      BY ZenonT(30), <1>34 DEF DeleteStages, Without, TypeInv, TypeOK, MainPC
    <2> QED
      BY ZenonT(30), <1>34, <2>1, <2>2, <2>3 DEF DeleteStages, Without, TypeInv, TypeOK, ReadingInv
  <1>35. CASE DeleteRoots
    <2>1. containers' \subseteq [stage : Stages, k : Nat, image : Images, label : Int \X Nat]
      BY Zenon, <1>35 DEF DeleteRoots, Without, TypeInv, TypeOK, Images, Stages, Ext
    <2>2. mpc' \in MainPC
      BY ZenonT(30), <1>35 DEF DeleteRoots, Without, TypeInv, TypeOK, MainPC
    <2> QED
      BY ZenonT(60), <1>35, <2>1, <2>2 DEF DeleteRoots, Without, TypeInv, TypeOK, ReadingInv
  <1>36. CASE DeleteIntermediateCtrs
    <2>1. containers' \subseteq [stage : Stages, k : Nat, image : Images, label : Int \X Nat]
      BY ZenonT(30), <1>36 DEF DeleteIntermediateCtrs, Without, TypeInv, TypeOK, Images, Stages, Ext
    <2>2. outcome' \in {"none", "ok", "error"}
      BY ZenonT(30), <1>36 DEF DeleteIntermediateCtrs, Without, TypeInv, TypeOK
    <2>3. containerIDs' \in [Stages -> SUBSET Nat]
      BY ZenonT(30), <1>36 DEF DeleteIntermediateCtrs, Without, TypeInv, TypeOK
    <2>4. mpc' \in MainPC
      BY Zenon, <1>36 DEF DeleteIntermediateCtrs, Without, TypeInv, TypeOK, MainPC
    <2> QED
      BY ZenonT(30), <1>36, <2>1, <2>2, <2>3, <2>4 DEF DeleteIntermediateCtrs, Without, TypeInv, TypeOK, ReadingInv
  <1>37. CASE DeleteImages
    <2>1. /\ images' \subseteq images
          /\ outcome' \in {outcome, "error"}
          /\ imageID' \in {imageID, NoImage}
          /\ cleanupImages' = << >>
          /\ mpc' \in {"returned", "delStages", "report"}
          /\ deferred' \in {deferred, TRUE}
      BY Zenon, <1>37 DEF DeleteImages
    <2>2. /\ images' \in SUBSET Images
          /\ outcome' \in {"none", "ok", "error"}
          /\ imageID' \in Images \cup {NoImage}
          /\ mpc' \in MainPC
      BY <2>1, <1>images, <1>outcome, <1>imageID DEF MainPC
    <2>3. cleanupImages' \in Seq(Images)
      BY <2>1
    <2>4. deferred' \in BOOLEAN
      BY Zenon, <2>1, <1>deferred
    <2> QED
      BY ZenonT(30), <1>37, <2>2, <2>3, <2>4 DEF DeleteImages, TypeInv, TypeOK, ReadingInv
  <1>38. CASE ReportImage
    <2>1. outcome' \in {"none", "ok", "error"}
      BY <1>38 DEF ReportImage, TypeInv, TypeOK
    <2>2. mpc' \in MainPC
      BY <1>38 DEF ReportImage, TypeInv, TypeOK, MainPC
    <2> QED
      BY ZenonT(60), <1>38, <2>1, <2>2 DEF ReportImage, TypeInv, TypeOK, ReadingInv
  <1>u. CASE UNCHANGED vars
    BY ZenonT(30), <1>u DEF vars, TypeInv, TypeOK, ReadingInv
  <1> QED
    BY ZenonT(60), <1>1, <1>2, <1>3, <1>4, <1>5, <1>6, <1>7, <1>8, <1>9, <1>10, <1>11, <1>12, <1>13, <1>14, <1>15, <1>16, <1>17, <1>18, <1>19, <1>20, <1>21, <1>22, <1>23, <1>24, <1>25, <1>26, <1>27, <1>28, <1>29, <1>30, <1>31, <1>32, <1>33, <1>34, <1>35, <1>36, <1>37, <1>38, <1>u
    DEF Next, StageWork, Main, Terminated

(***************************************************************************)
(* The executor's state keeps its type; with it, a stage that waits or      *)
(* reads always has a name left to read, so Head and Tail of its list of    *)
(* reads are defined (stage_executor.go:1086-1136).                         *)
(***************************************************************************)
THEOREM TypeCorrect == Spec => []TypeOK
  <1>1. TypeInv => TypeOK
    BY DEF TypeInv
  <1> QED
    BY InitType, NextType, <1>1, PTL DEF Spec


-----------------------------------------------------------------------------
(***************************************************************************)
(* How one step moves goroutines and tokens: a goroutine moves once it was  *)
(* started, takes a token (or fails to) when it starts or wakes up, and     *)
(* releases one when it falls asleep or ends.                               *)
(***************************************************************************)
NoToken == {"idle", "fromSleep", "readSleep", "done"}

\* The dispatcher only starts stages that are still idle
DispatchInv == \A i \in Stages : i >= next => pc[i] = "idle"

KeepsTokens == Holding' = Holding /\ cur' = cur /\ (crashed' = "semaphore" => crashed = "semaphore")

TakesToken(i) == i \notin Holding /\ Holding' = Holding \cup {i} /\ crashed' = crashed
                 /\ (Acquire \/ AcquireFails)

GivesToken(i) == i \in Holding /\ Holding' = Holding \ {i} /\ Alive /\ Release

TokenStep ==
    /\ ctxDone => ctxDone'
    /\ KeepsTokens \/ \E i \in Stages : TakesToken(i) \/ GivesToken(i)

\* A step of stage i from one place to another, which leaves the rest alone
Moves(i, from, to) ==
    /\ pc[i] = from /\ pc' = [pc EXCEPT ![i] = to]
    /\ UNCHANGED <<next, ctxDone>>

\* A goroutine that moves was started before
LEMMA MovesDispatch ==
  ASSUME TypeInv, DispatchInv, NEW i \in Stages, NEW from \in StagePC \ {"idle"},
         NEW to \in StagePC, Moves(i, from, to)
  PROVE  DispatchInv'
  BY DEF DispatchInv, Moves, TypeInv, TypeOK

\* A goroutine that holds a token and keeps it
LEMMA KeepToken ==
  ASSUME TypeInv, DispatchInv, NEW i \in Stages, NEW from \in StagePC \ NoToken,
         NEW to \in StagePC \ NoToken, Moves(i, from, to), cur' = cur,
         crashed' = "semaphore" => crashed = "semaphore"
  PROVE  DispatchInv' /\ TokenStep
  <1>1. Holding' = Holding
    BY Zenon DEF Holding, Moves, TypeInv, TypeOK, NoToken
  <1>2. DispatchInv'
    BY Zenon, MovesDispatch DEF NoToken
  <1> QED
    BY <1>1, <1>2 DEF TokenStep, KeepsTokens, Moves

\* A goroutine takes a token, or goes on without one and will release one
LEMMA TakeToken ==
  ASSUME TypeInv, NEW i \in Stages, NEW from \in NoToken,
         NEW to \in StagePC \ NoToken, pc[i] = from, pc' = [pc EXCEPT ![i] = to],
         Acquire \/ AcquireFails, UNCHANGED <<ctxDone, crashed>>
  PROVE  TokenStep
  <1>1. Holding' = Holding \cup {i} /\ i \notin Holding
    BY ZenonT(60) DEF Holding, TypeInv, TypeOK, NoToken
  <1> QED
    BY Zenon, <1>1 DEF TokenStep, TakesToken

\* A goroutine gives its token back
LEMMA GiveToken ==
  ASSUME TypeInv, DispatchInv, Alive, NEW i \in Stages, NEW from \in StagePC \ NoToken,
         NEW to \in NoToken \ {"idle"}, Moves(i, from, to), Release
  PROVE  DispatchInv' /\ TokenStep
  <1>1. Holding' = Holding \ {i} /\ i \in Holding
    BY DEF Holding, Moves, TypeInv, TypeOK, NoToken
  <1>2. DispatchInv'
    BY MovesDispatch DEF NoToken, StagePC
  <1> QED
    BY Zenon, <1>1, <1>2 DEF TokenStep, GivesToken, Moves

\* Every step moves goroutines and tokens in one of these ways
LEMMA NextDispatch ==
  ASSUME TypeInv, DispatchInv, [Next]_vars
  PROVE  DispatchInv' /\ TokenStep
  <1> USE SizeAssumption
  <1> USE DEF semVars, ctlVars, stageVars, regVars, rootVars, mainVars, storeVars, Goto
  <1>1. ASSUME UNCHANGED <<pc, cur, next>>, ctxDone => ctxDone',
               crashed' = "semaphore" => crashed = "semaphore"
        PROVE  DispatchInv' /\ TokenStep
    BY Zenon, <1>1 DEF DispatchInv, TokenStep, KeepsTokens, Holding
  <1>2. CASE UNCHANGED vars
    BY <1>1, <1>2 DEF vars
  <1>3. CASE Main
    BY Zenon, <1>1, <1>3 DEF Main, ReceiveSuccess, ReceiveError, ReturnError, ChannelClosed, AddTags,
       DeleteStages, DeleteRoots, DeleteIntermediateCtrs, DeleteImages, ReportImage
  <1>4. CASE MapRace \/ CancelContext
    BY <1>1, <1>4 DEF MapRace, CancelContext
  <1>6. CASE Dispatch \/ DispatchFails
    <2>0. next \in 0 .. NumStages /\ pc \in [Stages -> StagePC]
      BY Zenon DEF TypeInv, TypeOK
    <2>1. next \in Stages /\ pc[next] = "idle" /\ next' = next + 1 /\ UNCHANGED <<ctxDone, crashed>>
      BY <1>6, <2>0 DEF Dispatch, DispatchFails, DispatchInv, Stages
    <2>2. PICK to \in {"refused", "spawned", "done"} :
             /\ pc' = [pc EXCEPT ![next] = to]
             /\ to = "done" => AcquireFails
             /\ to # "done" => Acquire
      BY <1>6 DEF Dispatch, DispatchFails
    <2>3. ASSUME to # "done" PROVE TokenStep
      <3>1. to \in StagePC \ NoToken /\ "idle" \in NoToken
        BY <2>3 DEF NoToken, StagePC
      <3> QED
        BY Zenon, <2>1, <2>2, <2>3, <3>1, TakeToken
    <2>4. ASSUME to = "done" PROVE TokenStep
      <3>1. Holding' = Holding
        BY Zenon, <2>0, <2>1, <2>2, <2>4 DEF Holding
      <3>2. UNCHANGED <<cur, ctxDone, crashed>>
        BY <2>1, <2>2, <2>4 DEF AcquireFails
      <3> QED
        BY <3>1, <3>2 DEF TokenStep, KeepsTokens
    <2>5. DispatchInv'
      BY <2>0, <2>1, <2>2 DEF DispatchInv, Stages
    <2> QED
      BY Zenon, <2>3, <2>4, <2>5
  <1>7. ASSUME NEW i \in Stages, Wake(i) PROVE DispatchInv' /\ TokenStep
    <2>1. PICK from \in {"fromSleep", "readSleep"}, to \in {"fromWait", "readWait", "erring"} :
            /\ Moves(i, from, to)
            /\ Acquire \/ AcquireFails
            /\ crashed' = crashed
      BY <1>7 DEF Wake, Reacquire, StageError, Moves
    <2>2. TokenStep
      BY Zenon, <2>1, TakeToken DEF NoToken, StagePC, Moves
    <2>3. DispatchInv'
      BY Zenon, <2>1, MovesDispatch DEF StagePC
    <2> QED
      BY Zenon, <2>2, <2>3
  <1>8. ASSUME Alive, NEW i \in Stages, StageWork(i) PROVE DispatchInv' /\ TokenStep
    <2> DEFINE Gives == \E from \in StagePC \ NoToken, to \in NoToken \ {"idle"} :
                            Moves(i, from, to) /\ Release
    <2> DEFINE Keeps == \E from, to \in StagePC \ NoToken :
                            /\ Moves(i, from, to) /\ cur' = cur
                            /\ crashed' = "semaphore" => crashed = "semaphore"
    <2>1. CASE Gives
      BY <1>8, <2>1, GiveToken
    <2>2. CASE Keeps
      BY <2>2, KeepToken
    <2>3. CASE ReleaseToken(i)
      BY ZenonT(30), <2>1, <2>3 DEF ReleaseToken, Moves, StagePC, NoToken
    <2>4. CASE PollBase(i)
      <3>1. CASE cur' = cur /\ crashed' = crashed
        <4>1. cur \in Int
          BY DEF TypeInv, TypeOK
        <4>2. ~Release
          BY <3>1, <4>1 DEF Release
        <4>3. \E to \in {"erring", "lookup"} : pc' = [pc EXCEPT ![i] = to]
          BY Zenon, <2>4, <4>2 DEF PollBase, Poll, StageError
        <4> QED
          BY ZenonT(30), <2>2, <2>4, <3>1, <4>3 DEF PollBase, Moves, StagePC, NoToken
      <3>2. CASE Release /\ pc' = [pc EXCEPT ![i] = "fromSleep"]
        BY Zenon, <2>1, <2>4, <3>2 DEF PollBase, Moves, StagePC, NoToken
      <3> QED
        BY Zenon, <2>4, <3>1, <3>2 DEF PollBase, Poll
    <2>5. CASE PollRead(i)
      <3>1. CASE cur' = cur /\ crashed' = crashed
        <4>1. cur \in Int
          BY DEF TypeInv, TypeOK
        <4>2. ~Release
          BY <3>1, <4>1 DEF Release
        <4>3. \E to \in {"erring", "read"} : pc' = [pc EXCEPT ![i] = to]
          BY <2>5, <4>2 DEF PollRead, Poll, StageError
        <4> QED
          BY Zenon, <2>2, <2>5, <3>1, <4>3 DEF PollRead, Moves, StagePC, NoToken
      <3>2. CASE Release /\ pc' = [pc EXCEPT ![i] = "readSleep"]
        BY ZenonT(30), <2>1, <2>5, <3>2 DEF PollRead, Moves, StagePC, NoToken
      <3> QED
        BY <2>5, <3>1, <3>2 DEF PollRead, Poll
    <2>6. CASE Rebase(i) \/ UseDeletedBuilder(i)
      BY Zenon, <1>1, <2>6 DEF Rebase, UseDeletedBuilder
    <2>7. CASE \/ StageCanceled(i) \/ StageSkipped(i) \/ StartStage(i) \/ LookupBase(i)
               \/ ReportError(i)
      BY ZenonT(30), <2>2, <2>7
      DEF StageCanceled, StageSkipped, StartStage, ExecuteFrom, LookupBase, ReportError,
          Moves, StagePC, NoToken
    <2>8. CASE NewBuilder(i) \/ NewBuilderFails(i) \/ MountBuilder(i) \/ MountBuilderFails(i)
      BY ZenonT(30), <2>2, <2>8
      DEF NewBuilder, NewBuilderFails, MountBuilder, MountBuilderFails, StageError,
          Moves, StagePC, NoToken
    <2>9. CASE BeginRead(i) \/ ReadStage(i) \/ ReadImage(i)
      BY ZenonT(30), <2>2, <2>9
      DEF BeginRead, ReadStage, ReadImage, ReadDone, StageError, Moves, StagePC, NoToken
    <2>10. CASE RootfsLookup(i) \/ RootfsMake(i) \/ RootfsMakeFails(i)
      BY ZenonT(30), <2>2, <2>10
      DEF RootfsLookup, RootfsMake, RootfsMakeFails, ReadDone, StageError,
          Moves, StagePC, NoToken
    <2>11. CASE RebaseFails(i) \/ StepFails(i) \/ FinishStage(i)
      BY ZenonT(30), <2>2, <2>11
      DEF RebaseFails, CanRebase, StepFails, FinishStage, StageError, Moves, StagePC, NoToken
    <2> QED
      BY Zenon, <1>8, <2>3, <2>4, <2>5, <2>6, <2>7, <2>8, <2>9, <2>10, <2>11 DEF StageWork
  <1> QED
    BY Zenon, <1>2, <1>3, <1>4, <1>6, <1>7, <1>8 DEF Next, Terminated

\* Nobody else closes the context's channel
LEMMA NextNotCanceled == ASSUME ~MayCancel, ~ctxDone, [Next]_vars PROVE ~ctxDone'
  <1> USE DEF semVars, ctlVars, stageVars, regVars, rootVars, mainVars, storeVars
  <1>1. CASE Main
    BY ZenonT(30), <1>1 DEF Main, ReceiveSuccess, ReceiveError, ReturnError, ChannelClosed, AddTags,
       DeleteStages, DeleteRoots, DeleteIntermediateCtrs, DeleteImages, ReportImage
  <1>2. ASSUME NEW i \in Stages, StageWork(i) \/ Wake(i) PROVE ctxDone' = ctxDone
    BY ZenonT(30), <1>2 DEF StageWork, Wake, StageCanceled, StageSkipped, StartStage, PollBase, LookupBase,
       NewBuilder, NewBuilderFails, MountBuilder, MountBuilderFails, BeginRead, PollRead,
       ReadStage, ReadImage, RootfsLookup, RootfsMake, RootfsMakeFails, Rebase, RebaseFails,
       StepFails, FinishStage, UseDeletedBuilder, ReportError, ReleaseToken
  <1> QED
    BY ZenonT(30), <1>1, <1>2 DEF Next, CancelContext, Dispatch, DispatchFails, MapRace, Terminated, vars

-----------------------------------------------------------------------------
Ended == {"sent", "done"}
HasBase == {"prepare", "mount", "work", "readWait", "readSleep", "read", "rootfs",
            "rootMake"}
Running == HasBase \cup {"fromWait", "fromSleep", "lookup"}

\* Each stage reports once, when it ends, and terminates when that is received
ChannelInv ==
    /\ \A n \in 1 .. Len(ch) : /\ pc[ch[n].index] \in Ended
                               /\ terminatedStage[ch[n].index] = "no"
    /\ \A m, n \in 1 .. Len(ch) : ch[m].index = ch[n].index => m = n
    /\ \A i \in Stages : pc[i] \notin Ended => terminatedStage[i] = "no"

\* A stage that others start from reports an image, and the image is recorded
ReportsImage(i, image) == Skipped(i) \/ ~Commits(i) \/ image # NoImage

ImageInv ==
    /\ \A n \in 1 .. Len(ch) : ch[n].error \/ ReportsImage(ch[n].index, ch[n].image)
    /\ \A i \in Stages : terminatedStage[i] = "ok" /\ i # Last => ReportsImage(i, imageMap[i])

\* A stage only starts when it is needed, and once its base has terminated
StartInv ==
    \A i \in Stages :
        /\ pc[i] \in Running => ~Skipped(i)
        /\ pc[i] \in HasBase => baseImage[i] # NoImage
        /\ file.base[i] # Ext /\ (pc[i] = "lookup" \/ baseImage[i] # NoImage) =>
                terminatedStage[file.base[i]] # "no"
        /\ pc[i] = "fromWait" \/ pc[i] = "fromSleep" => file.base[i] # Ext

BaseInv == DispatchInv /\ ChannelInv /\ ImageInv /\ StartInv /\ BaseIsStageImage

-----------------------------------------------------------------------------
\* markDependencyStagesForTarget also marks the base of a stage it marks
LEMMA NeededClosed ==
  ASSUME TypeInv, NEW i \in Stages, ~Skipped(i), file.base[i] # Ext
  PROVE  /\ file.base[i] \in Stages /\ file.base[i] # Last
         /\ ~Skipped(file.base[i]) /\ Commits(file.base[i])
  <1>1. IsContainerfile(file)
    BY ContainerfileAssumption DEF TypeInv, TypeOK
  <1>2. file.base[i] \in Stages /\ file.base[i] < i
    BY ZenonT(30), <1>1, StageNames DEF IsContainerfile
  <1>3. file.base[i] \in Needs(file, i)
    BY ZenonT(30) DEF Needs
  <1>4. i \in NeededByTarget(file) => file.base[i] \in NeededByTarget(file)
    BY <1>2, <1>3 DEF NeededByTarget
  <1> QED
    BY <1>2, <1>4, SizeAssumption DEF Skipped, Commits, ImageIsUsedLater, Last, Stages

\* Results in the channel are about stages
LEMMA ChannelType ==
  ASSUME TypeInv
  PROVE  \A n \in 1 .. Len(ch) : ch[n] \in Result /\ ch[n].index \in Stages
  <1>1. ch \in Seq(Result)
    BY DEF TypeInv, TypeOK
  <1>2. \A n \in 1 .. Len(ch) : ch[n] \in Result
    BY <1>1
  <1> QED
    BY <1>2 DEF Result

\* A step that moves stage i and touches neither channel nor images
LEMMA MoveStep ==
  ASSUME TypeInv, BaseInv, NEW i \in Stages, NEW to \in StagePC,
         pc' = [pc EXCEPT ![i] = to], DispatchInv',
         pc[i] \notin Ended \/ to \in Ended, pc[i] \in Ended \/ to \notin Ended,
         UNCHANGED <<file, ch, terminatedStage, imageMap, baseImage>>,
         to \in Running => ~Skipped(i),
         to \in HasBase => baseImage[i] # NoImage,
         to = "lookup" /\ file.base[i] # Ext => terminatedStage[file.base[i]] # "no",
         to \in {"fromWait", "fromSleep"} => file.base[i] # Ext
  PROVE  BaseInv'
  <1>0. /\ \A n \in 1 .. Len(ch) : ch[n].index \in Stages
        /\ pc \in [Stages -> StagePC]
    BY ZenonT(30), ChannelType DEF TypeInv, TypeOK
  <1>s. \A k \in Stages : (Skipped(k)' <=> Skipped(k)) /\ (Commits(k)' <=> Commits(k))
    BY ZenonT(30) DEF Skipped, Commits, ImageIsUsedLater
  <1>1. ChannelInv'
    BY ZenonT(30), <1>0 DEF BaseInv, ChannelInv
  <1>2. ImageInv'
    BY ZenonT(30), <1>0, <1>s DEF BaseInv, ImageInv, ReportsImage
  <1>3. StartInv'
    BY ZenonT(30), <1>0, <1>s DEF BaseInv, StartInv
  <1>4. BaseIsStageImage'
    BY Zenon DEF BaseInv, BaseIsStageImage
  <1> QED
    BY <1>1, <1>2, <1>3, <1>4 DEF BaseInv

\* A message sent on the channel comes after the ones already there
LEMMA Sent ==
  ASSUME NEW M, NEW c \in Seq(M), NEW m \in M
  PROVE  /\ Len(Append(c, m)) = Len(c) + 1 /\ Len(c) \in Nat
         /\ \A n \in 1 .. Len(c) : Append(c, m)[n] = c[n]
         /\ Append(c, m)[Len(c) + 1] = m
  OBVIOUS

\* A step in which stage i ends and reports
LEMMA SendStep ==
  ASSUME TypeInv, BaseInv, NEW i \in Stages, NEW to \in Ended,
         NEW image \in Images \cup {NoImage}, NEW error \in BOOLEAN,
         pc[i] \notin Ended, pc' = [pc EXCEPT ![i] = to], DispatchInv',
         ch' = Append(ch, [index |-> i, image |-> image, error |-> error]),
         error \/ ReportsImage(i, image),
         UNCHANGED <<file, terminatedStage, imageMap, baseImage>>
  PROVE  BaseInv'
  <1> DEFINE r == [index |-> i, image |-> image, error |-> error]
  <1>0. /\ \A n \in 1 .. Len(ch) : ch[n].index \in Stages
        /\ pc \in [Stages -> StagePC]
        /\ ch \in Seq(Result) /\ r \in Result
    <2>1. r \in Result
      BY ZenonT(60) DEF Result
    <2> QED
      BY Zenon, <2>1, ChannelType DEF TypeInv, TypeOK
  <1>s. \A k \in Stages : (Skipped(k)' <=> Skipped(k)) /\ (Commits(k)' <=> Commits(k))
    BY DEF Skipped, Commits, ImageIsUsedLater
  <1>c. /\ Len(ch') = Len(ch) + 1 /\ Len(ch) \in Nat
        /\ \A n \in 1 .. Len(ch) : ch'[n] = ch[n]
        /\ ch'[Len(ch) + 1] = r
    <2>1. ch' = Append(ch, r)
      BY Zenon
    <2> HIDE DEF r
    <2>2. /\ Len(Append(ch, r)) = Len(ch) + 1 /\ Len(ch) \in Nat
          /\ \A n \in 1 .. Len(ch) : Append(ch, r)[n] = ch[n]
          /\ Append(ch, r)[Len(ch) + 1] = r
      BY ZenonT(60), <1>0, Sent
    <2> QED
      BY <2>1, <2>2, Zenon
  <1>f. \A n \in 1 .. Len(ch) : ch[n].index # i
    BY Zenon DEF BaseInv, ChannelInv
  <1>1. ChannelInv'
    <2>1. \A n \in 1 .. Len(ch') : /\ pc'[ch'[n].index] \in Ended
                                   /\ terminatedStage'[ch'[n].index] = "no"
      <3> SUFFICES ASSUME NEW n \in 1 .. Len(ch')
                   PROVE  /\ pc'[ch'[n].index] \in Ended
                          /\ terminatedStage'[ch'[n].index] = "no"
        BY Zenon
      <3>1. CASE n \in 1 .. Len(ch)
        BY ZenonT(30), <1>0, <1>c, <1>f, <3>1 DEF BaseInv, ChannelInv
      <3>2. CASE n = Len(ch) + 1
        <4>1. ch'[n].index = i
          BY <1>c, <3>2
        <4>2. pc'[i] = to /\ terminatedStage'[i] = "no"
          BY ZenonT(30), <1>0 DEF BaseInv, ChannelInv
        <4> QED
          BY Zenon, <4>1, <4>2
      <3> QED
        BY <1>c, <3>1, <3>2
    <2>2. \A m, n \in 1 .. Len(ch') : ch'[m].index = ch'[n].index => m = n
      <3>0. \A m, n \in 1 .. Len(ch) : ch[m].index = ch[n].index => m = n
        BY Zenon DEF BaseInv, ChannelInv
      <3>1. r.index = i
        OBVIOUS
      <3> HIDE DEF r
      <3> QED
        BY <1>c, <1>f, <3>0, <3>1, SMT
    <2>3. \A k \in Stages : pc'[k] \notin Ended => terminatedStage'[k] = "no"
      BY ZenonT(30), <1>0 DEF BaseInv, ChannelInv, Ended
    <2> QED
      BY Zenon, <2>1, <2>2, <2>3 DEF ChannelInv
  <1>2. ImageInv'
    <2>0. \A n \in 1 .. Len(ch') : n \in 1 .. Len(ch) \/ n = Len(ch) + 1
      BY <1>c
    <2>1. \A n \in 1 .. Len(ch') : ch'[n].error \/ ReportsImage(ch'[n].index, ch'[n].image)
      <3>1. \A n \in 1 .. Len(ch) : ch[n].error \/ ReportsImage(ch[n].index, ch[n].image)
        BY Zenon DEF BaseInv, ImageInv
      <3>2. r.error \/ ReportsImage(r.index, r.image)
        OBVIOUS
      <3> HIDE DEF r
      <3> QED
        BY Zenon, <1>c, <2>0, <3>1, <3>2
    <2>2. \A n \in 1 .. Len(ch') : ch'[n].index \in Stages
      <3>1. r.index \in Stages
        OBVIOUS
      <3> HIDE DEF r
      <3> QED
        BY Zenon, <1>0, <1>c, <2>0, <3>1
    <2> QED
      BY ZenonT(30), <2>1, <2>2, <1>s DEF BaseInv, ImageInv, ReportsImage
  <1>3. StartInv'
    BY Zenon, <1>0, <1>s DEF BaseInv, StartInv, Ended, Running, HasBase
  <1>4. BaseIsStageImage'
    BY Zenon DEF BaseInv, BaseIsStageImage
  <1> QED
    BY <1>1, <1>2, <1>3, <1>4 DEF BaseInv

\* The main loop receives a result and records the termination
LEMMA ReceiveStep ==
  ASSUME TypeInv, BaseInv, ch # << >>, ch' = Tail(ch),
         NEW how \in {"ok", "error"},
         terminatedStage' = [terminatedStage EXCEPT ![Head(ch).index] = how],
         how = "ok" => ~Head(ch).error,
         imageMap' = IF how = "ok" /\ IsIntermediate(Head(ch))
                     THEN [imageMap EXCEPT ![Head(ch).index] = Head(ch).image]
                     ELSE imageMap,
         UNCHANGED <<file, pc, baseImage, next>>
  PROVE  BaseInv'
  <1> DEFINE r == ch[1]
  <1>0. /\ ch \in Seq(Result) /\ Len(ch) \in Nat /\ Len(ch) > 0 /\ Head(ch) = r
        /\ Len(ch') = Len(ch) - 1
        /\ \A n \in 1 .. Len(ch') : ch'[n] = ch[n + 1] /\ n + 1 \in 1 .. Len(ch)
    <2>1. ch \in Seq(Result)
      BY Zenon DEF TypeInv, TypeOK
    <2>2. Len(ch) \in Nat /\ Len(ch) > 0 /\ Head(ch) = r /\ Len(ch') = Len(ch) - 1
      BY <2>1
    <2>3. \A n \in 1 .. Len(ch') : ch'[n] = ch[n + 1]
      BY <2>1, <2>2
    <2> QED
      BY <2>1, <2>2, <2>3
  <1>1. /\ r.index \in Stages /\ terminatedStage[r.index] = "no" /\ pc[r.index] \in Ended
        /\ \A n \in 1 .. Len(ch') : ch'[n].index \in Stages /\ ch'[n].index # r.index
    BY <1>0, ChannelType DEF BaseInv, ChannelInv
  <1>t. /\ terminatedStage \in [Stages -> {"no", "ok", "error"}]
        /\ imageMap \in [Stages -> Images \cup {NoImage}]
    BY ZenonT(30) DEF TypeInv, TypeOK
  <1>s. \A k \in Stages : (Skipped(k)' <=> Skipped(k)) /\ (Commits(k)' <=> Commits(k))
    BY ZenonT(60) DEF Skipped, Commits, ImageIsUsedLater
  <1>b. \A i \in Stages : file.base[i] # Ext => file.base[i] \in Stages
    BY ContainerfileAssumption, StageNames DEF TypeInv, TypeOK, IsContainerfile
  <1>2. ChannelInv'
    BY <1>0, <1>1, <1>t DEF BaseInv, ChannelInv
  <1>3. ImageInv'
    <2>1. \A n \in 1 .. Len(ch') : ch'[n].error \/ ReportsImage(ch'[n].index, ch'[n].image)
      BY Zenon, <1>0 DEF BaseInv, ImageInv
    <2>2. ASSUME NEW i \in Stages, terminatedStage'[i] = "ok", i # Last
          PROVE  ReportsImage(i, imageMap'[i])
      <3>1. CASE i # r.index
        BY Zenon, <1>0, <1>1, <1>t, <2>2, <3>1 DEF BaseInv, ImageInv
      <3>2. CASE i = r.index
        <4>1. how = "ok" /\ ~r.error
          BY ZenonT(60), <1>0, <1>1, <1>t, <2>2, <3>2
        <4>2. ReportsImage(i, r.image)
          BY <1>0, <3>2, <4>1 DEF BaseInv, ImageInv
        <4>3. i < Last
          BY <2>2, SizeAssumption DEF Stages, Last
        <4>4. CASE r.image = NoImage
          BY ZenonT(60), <4>2, <4>4 DEF ReportsImage
        <4>5. CASE r.image # NoImage
          BY <1>0, <1>t, <3>2, <4>1, <4>2, <4>3, <4>5 DEF IsIntermediate
        <4> QED
          BY Zenon, <4>4, <4>5
      <3> QED
        BY Zenon, <3>1, <3>2
    <2> QED
      BY Zenon, <2>1, <2>2, <1>1, <1>s DEF ImageInv, ReportsImage
  <1>4. StartInv'
    BY ZenonT(30), <1>0, <1>1, <1>t, <1>s, <1>b DEF BaseInv, StartInv
  <1>5. BaseIsStageImage'
    <2> SUFFICES ASSUME NEW i \in Stages, file.base[i] # Ext, baseImage[i] # NoImage
                 PROVE  \/ /\ imageMap'[file.base[i]] # NoImage
                           /\ baseImage[i] = imageMap'[file.base[i]]
                        \/ terminatedStage'[file.base[i]] = "error"
      BY ZenonT(30) DEF BaseIsStageImage
    <2>1. file.base[i] # r.index
      BY <1>1 DEF BaseInv, StartInv
    <2> QED
      BY ZenonT(30), <1>0, <1>1, <1>t, <1>b, <2>1 DEF BaseInv, BaseIsStageImage
  <1>6. DispatchInv'
    BY DEF BaseInv, DispatchInv
  <1> QED
    BY <1>2, <1>3, <1>4, <1>5, <1>6 DEF BaseInv

\* The base image is looked up once the base stage has terminated
LEMMA LookupStep ==
  ASSUME TypeInv, BaseInv, NEW i \in Stages, LookupBase(i)
  PROVE  BaseInv'
  <1> USE DEF semVars, ctlVars, stageVars, regVars, rootVars, mainVars, storeVars, Goto
  <1>0. /\ pc[i] = "lookup" /\ pc' = [pc EXCEPT ![i] = "prepare"]
        /\ UNCHANGED <<file, ch, terminatedStage, imageMap, next>>
        /\ baseImage' = [baseImage EXCEPT ![i] =
                            IF file.base[i] # Ext /\ imageMap[file.base[i]] # NoImage
                            THEN imageMap[file.base[i]] ELSE Ext]
    BY ZenonT(30) DEF LookupBase
  <1>t. /\ pc \in [Stages -> StagePC] /\ baseImage \in [Stages -> Images \cup {NoImage}]
        /\ terminatedStage \in [Stages -> {"no", "ok", "error"}]
        /\ \A n \in 1 .. Len(ch) : ch[n].index \in Stages
        /\ Ext # NoImage
    BY ZenonT(30), ChannelType, StageNames DEF TypeInv, TypeOK
  <1>s. \A k \in Stages : (Skipped(k)' <=> Skipped(k)) /\ (Commits(k)' <=> Commits(k))
    BY ZenonT(30), <1>0 DEF Skipped, Commits, ImageIsUsedLater
  <1>1. ChannelInv'
    BY ZenonT(30), <1>0, <1>t DEF BaseInv, ChannelInv, Ended
  <1>2. ImageInv'
    BY ZenonT(30), <1>0, <1>t, <1>s DEF BaseInv, ImageInv, ReportsImage
  <1>3. StartInv'
    BY ZenonT(30), <1>0, <1>t, <1>s DEF BaseInv, StartInv, Running, HasBase
  <1>4. BaseIsStageImage'
    <2>1. ASSUME file.base[i] # Ext, terminatedStage[file.base[i]] # "error"
          PROVE  imageMap[file.base[i]] # NoImage
      <3>1. ~Skipped(i)
        BY Zenon, <1>0 DEF BaseInv, StartInv, Running
      <3>2. /\ file.base[i] \in Stages /\ file.base[i] # Last
            /\ ~Skipped(file.base[i]) /\ Commits(file.base[i])
        BY ZenonT(30), <2>1, <3>1, NeededClosed
      <3>3. terminatedStage[file.base[i]] = "ok"
        BY ZenonT(30), <1>0, <1>t, <2>1, <3>2 DEF BaseInv, StartInv
      <3> QED
        BY ZenonT(30), <3>2, <3>3 DEF BaseInv, ImageInv, ReportsImage
    <2> QED
      BY ZenonT(30), <1>0, <1>t, <2>1 DEF BaseInv, BaseIsStageImage
  <1>5. DispatchInv'
    BY Zenon, <1>0, <1>t DEF BaseInv, DispatchInv
  <1> QED
    BY <1>1, <1>2, <1>3, <1>4, <1>5 DEF BaseInv

\* Nothing has started, reported or terminated at the start
LEMMA InitBase == Init => BaseInv
  <1> SUFFICES ASSUME Init PROVE BaseInv
    OBVIOUS
  <1>0. /\ pc = [i \in Stages |-> "idle"] /\ ch = << >> /\ next = 0
        /\ terminatedStage = [i \in Stages |-> "no"]
        /\ baseImage = [i \in Stages |-> NoImage]
    BY DEF Init
  <1>1. DispatchInv
    BY Zenon, <1>0 DEF DispatchInv
  <1>2. ChannelInv
    BY <1>0 DEF ChannelInv, Ended
  <1>3. ImageInv
    BY <1>0 DEF ImageInv
  <1>4. StartInv
    BY ZenonT(60), <1>0 DEF StartInv, Running, HasBase
  <1>5. BaseIsStageImage
    BY <1>0 DEF BaseIsStageImage
  <1> QED
    BY Zenon, <1>1, <1>2, <1>3, <1>4, <1>5 DEF BaseInv

\* Every step keeps the inductive invariant
LEMMA NextBase ==
  ASSUME TypeInv, BaseInv, [Next]_vars
  PROVE  BaseInv'
  <1>d. DispatchInv'
    BY NextDispatch DEF BaseInv
  <1> USE DEF semVars, ctlVars, stageVars, regVars, rootVars, mainVars, storeVars, Goto
  <1>1. CASE UNCHANGED <<file, pc, ch, terminatedStage, imageMap, baseImage>>
    BY ZenonT(30), <1>1, <1>d DEF BaseInv, ChannelInv, ImageInv, StartInv, BaseIsStageImage,
       ReportsImage, Skipped, Commits, ImageIsUsedLater
  <1>2. CASE Dispatch
    <2>1. next \in Stages /\ pc[next] = "idle"
      BY <1>2, SizeAssumption DEF Dispatch, BaseInv, DispatchInv, TypeInv, TypeOK, Stages
    <2>2. PICK to \in {"refused", "spawned"} : pc' = [pc EXCEPT ![next] = to]
      BY ZenonT(30), <1>2 DEF Dispatch
    <2>3. UNCHANGED <<file, ch, terminatedStage, imageMap, baseImage>>
      BY <1>2 DEF Dispatch
    <2>4. /\ to \in StagePC \ (Ended \cup Running \cup {"lookup", "fromWait", "fromSleep"})
          /\ to \notin HasBase /\ pc[next] \notin Ended
      BY <2>1, <2>2 DEF StagePC, Ended, Running, HasBase
    <2> QED
      BY ZenonT(30), <1>d, <2>1, <2>2, <2>3, <2>4, MoveStep
  <1>3. CASE DispatchFails
    <2>1. next \in Stages /\ pc[next] = "idle"
      BY <1>3, SizeAssumption DEF DispatchFails, BaseInv, DispatchInv, TypeInv, TypeOK, Stages
    <2>2. /\ pc' = [pc EXCEPT ![next] = "done"]
          /\ ch' = Append(ch, [index |-> next, image |-> NoImage, error |-> TRUE])
          /\ UNCHANGED <<file, terminatedStage, imageMap, baseImage>>
      BY <1>3 DEF DispatchFails, SendNotStarted, Send
    <2>3. "done" \in Ended /\ pc[next] \notin Ended
      BY <2>1 DEF Ended
    <2> QED
      BY ZenonT(30), <1>d, <2>1, <2>2, <2>3, SendStep
  <1>4. CASE ReceiveSuccess
    <2>1. imageMap' = IF "ok" = "ok" /\ IsIntermediate(Head(ch))
                      THEN [imageMap EXCEPT ![Head(ch).index] = Head(ch).image]
                      ELSE imageMap
      BY ZenonT(30), <1>4 DEF ReceiveSuccess
    <2> QED
      BY ZenonT(30), <1>4, <2>1, ReceiveStep DEF ReceiveSuccess
  <1>5. CASE ReceiveError
    BY Zenon, <1>5, ReceiveStep DEF ReceiveError
  <1>6. CASE \/ ReturnError \/ ChannelClosed \/ AddTags \/ DeleteStages \/ DeleteRoots
             \/ DeleteIntermediateCtrs \/ DeleteImages \/ ReportImage
    BY ZenonT(30), <1>1, <1>6 DEF ReturnError, ChannelClosed, AddTags, DeleteStages, DeleteRoots,
       DeleteIntermediateCtrs, DeleteImages, ReportImage
  <1>7. CASE CancelContext \/ MapRace \/ UNCHANGED vars
    BY ZenonT(30), <1>1, <1>7 DEF CancelContext, MapRace, vars
  <1>8. ASSUME NEW i \in Stages, StageWork(i) \/ Wake(i) PROVE BaseInv'
    <2> DEFINE Moved(from, to) ==
          /\ pc[i] \in from /\ \E where \in to : pc' = [pc EXCEPT ![i] = where]
          /\ UNCHANGED <<file, ch, terminatedStage, imageMap, baseImage>>
    <2>i. /\ pc[i] \in Running => ~Skipped(i)
          /\ pc[i] \in HasBase => baseImage[i] # NoImage
          /\ pc[i] \in {"fromWait", "fromSleep"} => file.base[i] # Ext
      BY ZenonT(30) DEF BaseInv, StartInv
    <2>1. CASE Moved(HasBase, HasBase \cup {"erring"})
      BY ZenonT(30), <1>d, <2>1, <2>i, MoveStep DEF HasBase, Running, Ended, StagePC
    <2>2. CASE Moved({"fromWait", "fromSleep"}, {"fromWait", "fromSleep", "erring"})
      BY ZenonT(30), <1>d, <2>2, <2>i, MoveStep DEF HasBase, Running, Ended, StagePC
    <2>3. CASE Wake(i)
      BY <2>1, <2>2, <2>3 DEF Wake, Reacquire, StageError, HasBase
    <2>4. CASE PollBase(i)
      <3>1. CASE pc' = [pc EXCEPT ![i] = "lookup"] /\ terminatedStage[file.base[i]] # "no"
        BY ZenonT(30), <1>d, <2>4, <2>i, <3>1, MoveStep DEF PollBase, Running, HasBase, Ended, StagePC
      <3> QED
        BY ZenonT(30), <2>2, <2>4, <3>1 DEF PollBase, Poll, StageError
    <2>5. CASE PollRead(i) \/ BeginRead(i) \/ ReadStage(i) \/ ReadImage(i)
      BY ZenonT(30), <2>1, <2>5
      DEF PollRead, Poll, BeginRead, ReadStage, ReadImage, ReadDone, StageError, HasBase
    <2>6. CASE RootfsLookup(i) \/ RootfsMake(i) \/ RootfsMakeFails(i)
      BY ZenonT(30), <2>1, <2>6
      DEF RootfsLookup, RootfsMake, RootfsMakeFails, ReadDone, StageError, HasBase
    <2>7. CASE NewBuilder(i) \/ NewBuilderFails(i) \/ MountBuilder(i) \/ MountBuilderFails(i)
      BY ZenonT(30), <2>1, <2>7
      DEF NewBuilder, NewBuilderFails, MountBuilder, MountBuilderFails, StageError, HasBase
    <2>8. CASE RebaseFails(i) \/ StepFails(i)
      BY ZenonT(30), <2>1, <2>8 DEF RebaseFails, CanRebase, StepFails, StageError, HasBase
    <2>9. CASE Rebase(i) \/ UseDeletedBuilder(i)
      BY ZenonT(30), <1>1, <2>9 DEF Rebase, UseDeletedBuilder
    <2>10. CASE StartStage(i)
      <3>1. PICK to \in {"lookup", "fromWait"} :
                /\ pc' = [pc EXCEPT ![i] = to]
                /\ to = "lookup" <=> file.base[i] = Ext
        BY ZenonT(30), <2>10 DEF StartStage, ExecuteFrom
      <3> QED
        BY ZenonT(30), <1>d, <2>10, <3>1, MoveStep DEF StartStage, Running, HasBase, Ended, StagePC
    <2>11. CASE ReleaseToken(i)
      BY Zenon, <1>d, <2>11, MoveStep DEF ReleaseToken, Running, HasBase, Ended, StagePC
    <2>12. CASE StageCanceled(i) \/ ReportError(i)
      BY Zenon, <1>d, <2>12, SendStep DEF StageCanceled, ReportError, Send, Ended
    <2>13. CASE StageSkipped(i)
      BY ZenonT(30), <1>d, <2>13, SendStep DEF StageSkipped, Send, Ended, ReportsImage
    <2>14. CASE FinishStage(i)
      <3>1. baseImage[i] # NoImage /\ i # NoImage /\ baseImage[i] \in Images
        BY ZenonT(30), <2>14, <2>i, StageNames DEF FinishStage, HasBase, TypeInv, TypeOK
      <3>2. PICK image \in IF ~Commits(i) THEN {NoImage}
                           ELSE IF file.steps[i] THEN {i} ELSE {i, baseImage[i]} :
              ch' = Append(ch, [index |-> i, image |-> image, error |-> FALSE])
        BY ZenonT(30), <2>14 DEF FinishStage, Send
      <3>3. image \in Images \cup {NoImage} /\ ReportsImage(i, image)
        BY Zenon, <3>1, <3>2, StageNames DEF ReportsImage
      <3> QED
        BY Zenon, <1>d, <2>14, <3>2, <3>3, SendStep DEF FinishStage, Ended
    <2>15. CASE LookupBase(i)
      BY <2>15, LookupStep
    <2> QED
      BY ZenonT(60), <1>8, <2>3, <2>4, <2>5, <2>6, <2>7, <2>8, <2>9, <2>10, <2>11, <2>12, <2>13,
         <2>14, <2>15 DEF StageWork
  <1> QED
    BY <1>2, <1>3, <1>4, <1>5, <1>6, <1>7, <1>8 DEF Next, Main, Terminated

(***************************************************************************)
(* A stage whose FROM names an earlier stage starts from the image that     *)
(* stage reported, unless that stage failed, whatever the goroutines'       *)
(* interleaving, failures, cancellation and options                         *)
(* (stage_executor.go:901-918, executor.go:883-912).                        *)
(***************************************************************************)
THEOREM BaseCorrect == Spec => []BaseIsStageImage
  <1>1. TypeInv /\ BaseInv /\ [Next]_vars => TypeInv' /\ BaseInv'
    BY NextType, NextBase
  <1>2. BaseInv => BaseIsStageImage
    BY DEF BaseInv
  <1> QED
    BY InitType, InitBase, <1>1, <1>2, PTL DEF Spec

-----------------------------------------------------------------------------
\* What Build returns

Working == {"mount", "work", "readWait", "readSleep", "read", "rootfs", "rootMake"}

AllSucceeded == \A i \in Stages : terminatedStage[i] = "ok"

\* A stage that built something has looked up its base; the last stage's image
\* is in the store
Builds(i) == Skipped(i) \/ baseImage[i] # NoImage

\* Stage i leaves the channel alone, or ends and sends a result
Quiet(i) == ch' = ch /\ (pc'[i] \in Ended <=> pc[i] \in Ended)

Reports(i) ==
    /\ pc[i] \notin Ended /\ pc'[i] \in Ended /\ UNCHANGED baseImage
    /\ \E image \in Images \cup {NoImage}, error \in BOOLEAN :
        /\ ch' = Append(ch, [index |-> i, image |-> image, error |-> error])
        /\ error \/ Builds(i)
        /\ error \/ Skipped(i) \/ i # Last \/ image \in images'

\* What any step of a goroutine has in common with the others
Shape(i) ==
    /\ pc[i] \notin {"idle", "done"} /\ \E to \in StagePC : pc' = [pc EXCEPT ![i] = to]
    /\ Quiet(i) \/ Reports(i)
    /\ images \subseteq images'
    /\ \A k \in Stages : baseImage[k] # NoImage => baseImage'[k] # NoImage
    /\ pc[i] \in Ended => UNCHANGED <<stageVars, regVars, rootVars, storeVars>>
    /\ UNCHANGED <<file, next, terminatedStage, imageMap, cleanupImages, mpc, deferred,
                   imageID, outcome>>

\* Each step of a goroutine has that shape
LEMMA StageShape ==
  ASSUME TypeInv, BaseInv, NEW i \in Stages, StageWork(i) \/ Wake(i)
  PROVE  Shape(i)
  <1> USE DEF semVars, ctlVars, stageVars, regVars, rootVars, mainVars, storeVars, Goto
  <1>0. pc \in [Stages -> StagePC] /\ baseImage \in [Stages -> Images \cup {NoImage}]
    BY Zenon DEF TypeInv, TypeOK
  <1> DEFINE Moved(from, to) ==
        /\ pc[i] \in from /\ \E where \in to : pc' = [pc EXCEPT ![i] = where]
        /\ ch' = ch /\ images \subseteq images'
        /\ \A k \in Stages : baseImage[k] # NoImage => baseImage'[k] # NoImage
        /\ UNCHANGED <<file, next, terminatedStage, imageMap, cleanupImages, mpc, deferred,
                       imageID, outcome>>
  <1> DEFINE Before == StagePC \ (Ended \cup {"idle"})
  <1>1. CASE Moved(Before, Before)
    BY Zenon, <1>0, <1>1 DEF Shape, Quiet, Ended
  <1>2. CASE Rebase(i) \/ UseDeletedBuilder(i)
    <2>1. pc[i] \in Before /\ pc' = [pc EXCEPT ![i] = pc[i]]
      BY <1>0, <1>2, ZenonT(60) DEF Rebase, CanRebase, UseDeletedBuilder, StagePC, Ended
    <2> QED
      BY ZenonT(60), <1>1, <1>2, <2>1 DEF Rebase, UseDeletedBuilder
  <1>3. CASE Wake(i) \/ PollBase(i) \/ PollRead(i)
    BY <1>1, <1>3 DEF Wake, Reacquire, PollBase, PollRead, Poll, StageError, StagePC, Ended
  <1>4. CASE StartStage(i)
    BY Zenon, <1>1, <1>4 DEF StartStage, ExecuteFrom, StagePC, Ended
  <1>13. CASE LookupBase(i)
    <2>1. \A k \in Stages : baseImage[k] # NoImage => baseImage'[k] # NoImage
      BY <1>0, <1>13, StageNames, ZenonT(60) DEF LookupBase
    <2> QED
      BY ZenonT(60), <1>1, <1>13, <2>1 DEF LookupBase, StagePC, Ended
  <1>5. CASE NewBuilder(i) \/ NewBuilderFails(i) \/ MountBuilder(i) \/ MountBuilderFails(i)
    BY <1>1, <1>5
    DEF NewBuilder, NewBuilderFails, MountBuilder, MountBuilderFails, StageError, StagePC, Ended
  <1>6. CASE BeginRead(i) \/ ReadStage(i) \/ ReadImage(i)
    BY Zenon, <1>1, <1>6 DEF BeginRead, ReadStage, ReadImage, ReadDone, StageError, StagePC, Ended
  <1>7. CASE RootfsLookup(i) \/ RootfsMake(i) \/ RootfsMakeFails(i)
    BY ZenonT(60), <1>1, <1>7
    DEF RootfsLookup, RootfsMake, RootfsMakeFails, ReadDone, StageError, StagePC, Ended
  <1>8. CASE RebaseFails(i) \/ StepFails(i)
    BY <1>1, <1>8, ZenonT(60) DEF RebaseFails, CanRebase, StepFails, StageError, StagePC, Ended
  <1>9. CASE ReleaseToken(i)
    BY <1>0, <1>9 DEF ReleaseToken, Shape, Quiet, Ended, StagePC
  <1>10. CASE StageCanceled(i) \/ ReportError(i)
    <2>1. Reports(i)
      BY Zenon, <1>0, <1>10 DEF StageCanceled, ReportError, Send, Reports, Ended
    <2> QED
      BY <1>0, <1>10, <2>1 DEF StageCanceled, ReportError, Shape, Ended, StagePC
  <1>11. CASE StageSkipped(i)
    <2>1. Reports(i)
      BY Zenon, <1>0, <1>11 DEF StageSkipped, Send, Reports, Builds, Ended
    <2> QED
      BY <1>0, <1>11, <2>1 DEF StageSkipped, Shape, Ended, StagePC
  <1>12. CASE FinishStage(i)
    <2>1. baseImage[i] # NoImage /\ baseImage[i] \in Images \cup {NoImage}
      BY <1>12 DEF FinishStage, BaseInv, StartInv, HasBase, TypeInv, TypeOK
    <2>2. PICK image \in IF ~Commits(i) THEN {NoImage}
                         ELSE IF file.steps[i] THEN {i} ELSE {i, baseImage[i]} :
            /\ images' = images \cup ({image} \ {NoImage})
            /\ ch' = Append(ch, [index |-> i, image |-> image, error |-> FALSE])
      BY ZenonT(60), <1>12 DEF FinishStage, Send
    <2>3. image \in Images \cup {NoImage} /\ (i # Last \/ image \in images')
      BY <2>1, <2>2, StageNames DEF Commits
    <2>4. Reports(i)
      BY Zenon, <1>0, <1>12, <2>1, <2>2, <2>3 DEF FinishStage, Reports, Builds, Ended
    <2> QED
      BY ZenonT(60), <1>0, <1>12, <2>2, <2>4 DEF FinishStage, Shape, Ended, StagePC
  <1> QED
    BY <1>2, <1>3, <1>4, <1>5, <1>6, <1>7, <1>8, <1>9, <1>10, <1>11, <1>12, <1>13 DEF StageWork

-----------------------------------------------------------------------------
\* Every stage that has ended has reported
DeliveredInv ==
    \A i \in Stages : pc[i] \in Ended =>
        terminatedStage[i] # "no" \/ \E n \in 1 .. Len(ch) : ch[n].index = i

\* A success comes from a stage that has looked up its base
BuiltInv ==
    /\ \A n \in 1 .. Len(ch) : ch[n].error \/ Builds(ch[n].index)
    /\ \A i \in Stages : terminatedStage[i] = "ok" => Builds(i)

\* Where Build is tells what it has seen
OutcomeInv ==
    /\ mpc = "receive" => \A i \in Stages : terminatedStage[i] # "error"
    /\ mpc = "failing" => \E i \in Stages : terminatedStage[i] = "error"
    /\ mpc \notin {"receive", "failing"} /\ outcome # "error" => AllSucceeded
    /\ mpc \in {"receive", "failing", "tag", "report"} => outcome = "none" /\ ~deferred
    /\ outcome = "ok" => deferred

\* After a cleanup that went well nothing is left for the second one
TidyInv ==
    /\ mpc \in {"delImages", "report"} \/ outcome = "ok" =>
          \/ outcome = "error" \/ ~RemoveIntermediateCtrs
          \/ \A i \in stages : containerIDs[i] = {}
    /\ mpc = "report" \/ outcome = "ok" => cleanupImages = << >>

\* Unless the build failed, the image of the last stage is in the store
FinalInv ==
    mpc = "receive" \/ (mpc # "failing" /\ outcome # "error") =>
        /\ \A n \in 1 .. Len(ch) : ch[n].error \/ ch[n].index # Last \/ ch[n].image \in images
        /\ terminatedStage[Last] = "ok" => imageID \in images

ResultInv == DeliveredInv /\ BuiltInv /\ OutcomeInv /\ TidyInv /\ FinalInv

\* Stages that have terminated have ended, and nothing is left to receive
LEMMA AllEnded ==
  ASSUME TypeInv, BaseInv, AllSucceeded
  PROVE  (\A i \in Stages : pc[i] \in Ended) /\ ch = << >> /\ \A n \in 1 .. Len(ch) : FALSE
  <1>1. \A i \in Stages : pc[i] \in Ended
    BY ZenonT(60) DEF BaseInv, ChannelInv, AllSucceeded
  <1>2. ch \in Seq(Result)
    BY DEF TypeInv, TypeOK
  <1>3. ch # << >> => 1 \in 1 .. Len(ch)
    BY <1>2
  <1>4. 1 \notin 1 .. Len(ch)
    BY ChannelType DEF BaseInv, ChannelInv, AllSucceeded
  <1>5. ch = << >>
    BY <1>3, <1>4, Zenon
  <1>6. \A n \in 1 .. Len(<< >>) : FALSE
    OBVIOUS
  <1> QED
    BY <1>1, <1>5, <1>6, Zenon

\* The last stage is the target, which is never skipped
LEMMA LastNeeded == ASSUME TypeInv PROVE Last \in Stages /\ ~Skipped(Last)
  BY SizeAssumption DEF Last, Stages, Skipped, NeededByTarget

\* The result of stage i
LEMMA ResultIs ==
  ASSUME NEW i \in Stages, NEW image \in Images \cup {NoImage}, NEW error \in BOOLEAN, NEW r,
         r = [index |-> i, image |-> image, error |-> error]
  PROVE  r \in Result /\ r.index = i /\ r.image = image /\ r.error = error
  BY DEF Result

\* Appending a result
LEMMA AppendResult ==
  ASSUME TypeInv, NEW r \in Result, ch' = Append(ch, r)
  PROVE  /\ Len(ch) \in Nat /\ Len(ch') = Len(ch) + 1
         /\ \A n \in 1 .. Len(ch) : ch'[n] = ch[n]
         /\ ch'[Len(ch) + 1] = r
         /\ \A n \in 1 .. Len(ch') : n \in 1 .. Len(ch) \/ n = Len(ch) + 1
         /\ Len(ch) + 1 \in 1 .. Len(ch') /\ \A n \in 1 .. Len(ch) : n \in 1 .. Len(ch')
  <1>1. ch \in Seq(Result)
    BY DEF TypeInv, TypeOK
  <1> QED
    BY <1>1

\* A stage sends its result
LEMMA ReportStep ==
  ASSUME TypeInv, BaseInv, ResultInv, NEW i \in Stages, NEW image \in Images \cup {NoImage},
         NEW error \in BOOLEAN,
         pc[i] \notin Ended, \E to \in StagePC : pc' = [pc EXCEPT ![i] = to],
         ch' = Append(ch, [index |-> i, image |-> image, error |-> error]),
         error \/ Builds(i),
         error \/ Skipped(i) \/ i # Last \/ image \in images',
         images \subseteq images',
         UNCHANGED <<file, terminatedStage, baseImage, mpc, imageID, outcome>>
  PROVE  DeliveredInv' /\ BuiltInv' /\ FinalInv'
  <1> DEFINE r == [index |-> i, image |-> image, error |-> error]
  <1>0. r \in Result /\ r.index = i /\ r.image = image /\ r.error = error
    BY ResultIs
  <1> HIDE DEF r
  <1>1. /\ Len(ch) \in Nat /\ Len(ch') = Len(ch) + 1
        /\ \A n \in 1 .. Len(ch) : ch'[n] = ch[n]
        /\ ch'[Len(ch) + 1] = r
        /\ \A n \in 1 .. Len(ch') : n \in 1 .. Len(ch) \/ n = Len(ch) + 1
        /\ Len(ch) + 1 \in 1 .. Len(ch') /\ \A n \in 1 .. Len(ch) : n \in 1 .. Len(ch')
    BY <1>0, AppendResult, ZenonT(60) DEF r
  <1>2. pc \in [Stages -> StagePC] /\ \A n \in 1 .. Len(ch) : ch[n].index \in Stages
    BY ZenonT(60), ChannelType DEF TypeInv, TypeOK
  <1>3. DeliveredInv'
    <2> SUFFICES ASSUME NEW k \in Stages, pc'[k] \in Ended, terminatedStage[k] = "no"
                 PROVE  \E n \in 1 .. Len(ch') : ch'[n].index = k
      BY DEF DeliveredInv
    <2>1. CASE k = i
      <3>1. Len(ch) + 1 \in 1 .. Len(ch') /\ ch'[Len(ch) + 1].index = k
        BY <1>0, <1>1, <2>1, ZenonT(60)
      <3> QED
        BY <3>1, ZenonT(60)
    <2>2. CASE k # i
      <3>1. pc[k] \in Ended
        BY <1>2, <2>2, ZenonT(60)
      <3>2. PICK n \in 1 .. Len(ch) : ch[n].index = k
        BY <3>1 DEF ResultInv, DeliveredInv
      <3>3. n \in 1 .. Len(ch') /\ ch'[n].index = k
        BY <1>1, <3>2, ZenonT(60)
      <3> QED
        BY <3>3, Zenon
    <2> QED
      BY <2>1, <2>2, ZenonT(60)
  <1>4. \A k \in Stages : Builds(k)' <=> Builds(k)
    BY ZenonT(60) DEF Builds, Skipped
  <1>5. BuiltInv'
    <2>1. ASSUME NEW n \in 1 .. Len(ch') PROVE (ch[n].error \/ Builds(ch[n].index))'
      <3>1. CASE n \in 1 .. Len(ch)
        BY ZenonT(60), <1>1, <1>2, <3>1 DEF ResultInv, BuiltInv, Builds, Skipped
      <3>2. CASE n = Len(ch) + 1
        <4>1. ch'[n].error = error /\ ch'[n].index = i
          BY <1>0, <1>1, <3>2, ZenonT(60)
        <4>2. file' = file /\ baseImage' = baseImage
          OBVIOUS
        <4> QED
          BY <4>1, <4>2, ZenonT(60) DEF Builds, Skipped
      <3> QED
        BY Zenon, <1>1, <3>1, <3>2
    <2> QED
      BY <2>1, <1>4 DEF ResultInv, BuiltInv
  <1>6. FinalInv'
    <2> SUFFICES ASSUME mpc = "receive" \/ (mpc # "failing" /\ outcome # "error")
                 PROVE  /\ \A n \in 1 .. Len(ch') : \/ ch'[n].error \/ ch'[n].index # Last
                                                    \/ ch'[n].image \in images'
                        /\ terminatedStage[Last] = "ok" => imageID \in images'
      BY DEF FinalInv
    <2>1. ~Skipped(Last)
      BY LastNeeded
    <2>2. ASSUME NEW n \in 1 .. Len(ch')
          PROVE  ch'[n].error \/ ch'[n].index # Last \/ ch'[n].image \in images'
      <3>1. CASE n \in 1 .. Len(ch)
        BY Zenon, <1>1, <3>1 DEF ResultInv, FinalInv
      <3>2. CASE n = Len(ch) + 1
        BY ZenonT(60), <1>0, <1>1, <2>1, <3>2
      <3> QED
        BY Zenon, <1>1, <3>1, <3>2
    <2> QED
      BY <2>2 DEF ResultInv, FinalInv
  <1> QED
    BY <1>3, <1>5, <1>6

\* A step of a goroutine
LEMMA StageResult ==
  ASSUME TypeInv, BaseInv, ResultInv, NEW i \in Stages, StageWork(i) \/ Wake(i)
  PROVE  ResultInv'
  <1>1. Shape(i)
    BY StageShape
  <1>0. pc \in [Stages -> StagePC] /\ \A n \in 1 .. Len(ch) : ch[n].index \in Stages
    BY ZenonT(60), ChannelType DEF TypeInv, TypeOK
  <1>2. OutcomeInv'
    BY <1>1 DEF ResultInv, OutcomeInv, AllSucceeded, Shape
  <1>3. TidyInv'
    <2>1. CASE pc[i] \in Ended
      BY <1>1, <2>1, ZenonT(60) DEF ResultInv, TidyInv, Shape, stageVars, regVars
    <2>2. CASE pc[i] \notin Ended
      <3>1. ~AllSucceeded
        BY <2>2, AllEnded
      <3>2. mpc \in {"receive", "failing"} \/ outcome = "error"
        BY <3>1 DEF ResultInv, OutcomeInv
      <3>3. outcome = "error" \/ (mpc \notin {"delImages", "report"} /\ outcome # "ok")
        BY <3>2 DEF ResultInv, OutcomeInv
      <3> QED
        BY <1>1, <3>3 DEF ResultInv, TidyInv, Shape
    <2> QED
      BY ZenonT(60), <2>1, <2>2
  <1>4. CASE Quiet(i)
    <2>1. DeliveredInv'
      BY ZenonT(60), <1>0, <1>1, <1>4 DEF ResultInv, DeliveredInv, Shape, Quiet
    <2>2. BuiltInv'
      BY <1>0, <1>1, <1>4, ZenonT(60) DEF ResultInv, BuiltInv, Builds, Skipped, Shape, Quiet
    <2>3. FinalInv'
      BY <1>1, <1>4 DEF ResultInv, FinalInv, Shape, Quiet
    <2> QED
      BY Zenon, <1>2, <1>3, <2>1, <2>2, <2>3 DEF ResultInv
  <1>5. CASE Reports(i)
    BY Zenon, <1>1, <1>2, <1>3, <1>5, ReportStep DEF ResultInv, Shape, Reports
  <1> QED
    BY <1>1, <1>4, <1>5 DEF Shape

\* What is left in the channel after a receive
LEMMA TailResult ==
  ASSUME TypeInv, BaseInv, ch # << >>, ch' = Tail(ch)
  PROVE  /\ 1 \in 1 .. Len(ch) /\ Head(ch) = ch[1] /\ ch[1].index \in Stages
         /\ terminatedStage[ch[1].index] = "no"
         /\ \A n \in 1 .. Len(ch') : n + 1 \in 1 .. Len(ch) /\ ch'[n] = ch[n + 1]
         /\ \A n \in 1 .. Len(ch) : n # 1 => n - 1 \in 1 .. Len(ch') /\ ch'[n - 1] = ch[n]
         /\ \A n \in 1 .. Len(ch') : ch'[n].index \in Stages \ {ch[1].index}
  <1>0. ch \in Seq(Result)
    BY DEF TypeInv, TypeOK
  <1>1. /\ 1 \in 1 .. Len(ch) /\ Head(ch) = ch[1]
        /\ Len(ch) \in Nat /\ Len(ch') = Len(ch) - 1
        /\ \A n \in 1 .. Len(ch') : ch'[n] = ch[n + 1]
    BY <1>0
  <1>2. \A n \in 1 .. Len(ch') : n + 1 \in 1 .. Len(ch)
    BY <1>1
  <1>3. \A n \in 1 .. Len(ch) : n # 1 => n - 1 \in 1 .. Len(ch') /\ ch'[n - 1] = ch[n]
    BY <1>1
  <1>4. \A n \in 1 .. Len(ch') : ch'[n].index \in Stages /\ n + 1 # 1
    BY <1>1, <1>2, ChannelType
  <1> QED
    <2>1. /\ terminatedStage[ch[1].index] = "no"
          /\ \A m, n \in 1 .. Len(ch) : ch[m].index = ch[n].index => m = n
      BY Zenon, <1>1 DEF BaseInv, ChannelInv
    <2>2. \A n \in 1 .. Len(ch') : ch'[n].index # ch[1].index
      BY ZenonT(60), <1>1, <1>2, <1>4, <2>1
    <2> QED
      BY Zenon, <1>1, <1>2, <1>3, <1>4, <2>1, <2>2, ChannelType

\* Build receives a result
LEMMA ReceiveResult ==
  ASSUME TypeInv, BaseInv, ResultInv, ReceiveSuccess \/ ReceiveError
  PROVE  ResultInv'
  <1> USE DEF semVars, ctlVars, stageVars, regVars, rootVars, storeVars
  <1>0. /\ mpc = "receive" /\ ch # << >> /\ ch' = Tail(ch)
        /\ UNCHANGED <<file, pc, baseImage, images, outcome, deferred, stages, containerIDs>>
    BY Zenon DEF ReceiveSuccess, ReceiveError
  <1> DEFINE r == ch[1]
  <1>1. /\ 1 \in 1 .. Len(ch) /\ Head(ch) = r /\ r.index \in Stages
        /\ terminatedStage[r.index] = "no"
        /\ \A n \in 1 .. Len(ch') : n + 1 \in 1 .. Len(ch) /\ ch'[n] = ch[n + 1]
        /\ \A n \in 1 .. Len(ch) : n # 1 => n - 1 \in 1 .. Len(ch') /\ ch'[n - 1] = ch[n]
        /\ \A n \in 1 .. Len(ch') : ch'[n].index \in Stages \ {r.index}
    BY <1>0, TailResult
  <1>2. PICK how \in {"ok", "error"} :
            /\ terminatedStage' = [terminatedStage EXCEPT ![r.index] = how]
            /\ how = "ok" => ~r.error /\ mpc' = "receive"
            /\ how = "ok" => imageID' = IF r.index = Last THEN r.image ELSE imageID
            /\ how = "error" => mpc' = "failing"
    <2>1. CASE ReceiveSuccess
      BY Zenon, <1>1, <2>1 DEF ReceiveSuccess
    <2>2. CASE ReceiveError
      BY Zenon, <1>1, <2>2 DEF ReceiveError, ReturnAfterError
    <2> QED
      BY <2>1, <2>2
  <1>t. terminatedStage \in [Stages -> {"no", "ok", "error"}]
    BY DEF TypeInv, TypeOK
  <1>r. outcome = "none" /\ ~deferred
    BY <1>0 DEF ResultInv, OutcomeInv
  <1>3. DeliveredInv'
    <2> SUFFICES ASSUME NEW k \in Stages, pc[k] \in Ended, terminatedStage'[k] = "no"
                 PROVE  \E n \in 1 .. Len(ch') : ch'[n].index = k
      BY ZenonT(30), <1>0 DEF DeliveredInv
    <2>1. k # r.index /\ terminatedStage[k] = "no"
      BY <1>1, <1>2, <1>t
    <2>2. PICK n \in 1 .. Len(ch) : ch[n].index = k
      BY <2>1 DEF ResultInv, DeliveredInv
    <2>3. n # 1
      BY <2>1, <2>2
    <2> QED
      BY Zenon, <1>1, <2>2, <2>3
  <1>4. BuiltInv'
    <2>1. ASSUME NEW n \in 1 .. Len(ch') PROVE (ch[n].error \/ Builds(ch[n].index))'
      <3>1. ch[n + 1].error \/ Builds(ch[n + 1].index)
        BY Zenon, <1>1 DEF ResultInv, BuiltInv
      <3>2. \A k : Builds(k) => Builds(k)'
        BY Zenon, <1>0 DEF Builds, Skipped
      <3> QED
        BY Zenon, <1>1, <3>1, <3>2
    <2>2. ASSUME NEW k \in Stages, terminatedStage'[k] = "ok" PROVE Builds(k)'
      <3>1. Builds(k)
        BY Zenon, <1>1, <1>2, <1>t, <2>2 DEF ResultInv, BuiltInv
      <3> QED
        BY Zenon, <1>0, <3>1 DEF Builds, Skipped
    <2> QED
      BY <2>1, <2>2 DEF BuiltInv
  <1>5. OutcomeInv'
    BY Zenon, <1>0, <1>1, <1>2, <1>t, <1>r DEF ResultInv, OutcomeInv
  <1>6. TidyInv'
    BY <1>0, <1>2, <1>r DEF TidyInv
  <1>7. FinalInv'
    <2>1. CASE how = "error"
      BY Zenon, <1>2, <2>1 DEF FinalInv
    <2>2. CASE how = "ok"
      <3>1. /\ \A n \in 1 .. Len(ch) : ch[n].error \/ ch[n].index # Last \/ ch[n].image \in images
            /\ terminatedStage[Last] = "ok" => imageID \in images
        BY Zenon, <1>0 DEF ResultInv, FinalInv
      <3>2. terminatedStage'[Last] = "ok" => imageID' \in images
        BY Zenon, <1>1, <1>2, <1>t, <2>2, <3>1, LastNeeded
      <3> QED
        BY <1>0, <1>1, <3>1, <3>2 DEF FinalInv
    <2> QED
      BY Zenon, <2>1, <2>2
  <1> QED
    BY Zenon, <1>3, <1>4, <1>5, <1>6, <1>7 DEF ResultInv

\* The rest of Build, after the loop over the results
LEMMA TailOfBuild ==
  ASSUME TypeInv, BaseInv, ResultInv,
         \/ ReturnError \/ ChannelClosed \/ AddTags \/ DeleteStages \/ DeleteRoots
         \/ DeleteIntermediateCtrs \/ DeleteImages \/ ReportImage
  PROVE  ResultInv'
  <1> USE DEF semVars, ctlVars, stageVars, regVars, rootVars, storeVars
  <1>1. UNCHANGED <<file, pc, ch, terminatedStage, baseImage, stages>>
    BY ZenonT(30) DEF ReturnError, ChannelClosed, AddTags, DeleteStages, DeleteRoots,
       DeleteIntermediateCtrs, DeleteImages, ReportImage
  <1>2. DeliveredInv'
    BY <1>1 DEF ResultInv, DeliveredInv
  <1>3. BuiltInv'
    BY Zenon, <1>1 DEF ResultInv, BuiltInv, Builds, Skipped
  <1>o. outcome \in {"none", "ok", "error"} /\ deferred \in BOOLEAN
        /\ terminatedStage \in [Stages -> {"no", "ok", "error"}]
    BY DEF TypeInv, TypeOK
  <1>4. CASE ReturnError
    BY Zenon, <1>1, <1>2, <1>3, <1>4 DEF ReturnError, ResultInv, OutcomeInv, TidyInv, FinalInv
  <1>5. CASE ChannelClosed
    <2>1. \A n \in 1 .. Len(ch) : FALSE
      BY <1>5 DEF ChannelClosed
    <2>2. AllSucceeded
      BY Zenon, <1>5, <1>o, <2>1
      DEF ChannelClosed, AllStagesDone, AllSucceeded, Ended, ResultInv, DeliveredInv, OutcomeInv
    <2>3. OutcomeInv'
      BY Zenon, <1>1, <1>5, <2>2 DEF ChannelClosed, ResultInv, OutcomeInv, AllSucceeded
    <2>4. TidyInv' /\ FinalInv'
      BY Zenon, <1>1, <1>5 DEF ChannelClosed, ResultInv, OutcomeInv, TidyInv, FinalInv
    <2> QED
      BY Zenon, <1>2, <1>3, <2>3, <2>4 DEF ResultInv
  <1>6. CASE AddTags
    <2>1. OutcomeInv'
      BY Zenon, <1>1, <1>6 DEF AddTags, ResultInv, OutcomeInv, AllSucceeded
    <2>2. TidyInv' /\ FinalInv'
      BY Zenon, <1>1, <1>6 DEF AddTags, ResultInv, OutcomeInv, TidyInv, FinalInv
    <2> QED
      BY <1>2, <1>3, <2>1, <2>2 DEF ResultInv
  <1>7. CASE ReportImage
    <2>1. OutcomeInv'
      BY Zenon, <1>1, <1>7 DEF ReportImage, ResultInv, OutcomeInv, AllSucceeded
    <2>2. TidyInv' /\ FinalInv'
      BY ZenonT(60), <1>1, <1>7 DEF ReportImage, ResultInv, OutcomeInv, TidyInv, FinalInv
    <2> QED
      BY <1>2, <1>3, <2>1, <2>2 DEF ResultInv
  <1>8. CASE DeleteStages \/ DeleteRoots
    <2>1. /\ mpc \notin {"receive", "failing", "tag", "report"}
          /\ mpc' \in {"delRoots", "delCtrs"}
          /\ UNCHANGED <<outcome, deferred, containerIDs, cleanupImages, images, imageID>>
      BY <1>8 DEF DeleteStages, DeleteRoots
    <2>2. OutcomeInv'
      BY ZenonT(60), <1>1, <2>1 DEF ResultInv, OutcomeInv, AllSucceeded
    <2>3. TidyInv' /\ FinalInv'
      BY <1>1, <2>1 DEF ResultInv, TidyInv, FinalInv
    <2> QED
      BY <1>2, <1>3, <2>2, <2>3 DEF ResultInv
  <1>9. CASE DeleteIntermediateCtrs
    <2>1. /\ mpc = "delCtrs" /\ mpc' = "delImages"
          /\ UNCHANGED <<deferred, cleanupImages, images, imageID>>
          /\ outcome' \in {outcome, "error"}
          /\ \/ ~RemoveIntermediateCtrs
             \/ containerIDs' = [i \in Stages |-> IF i \in stages THEN {} ELSE containerIDs[i]]
      BY Zenon, <1>9 DEF DeleteIntermediateCtrs
    <2>2. OutcomeInv'
      BY Zenon, <1>1, <2>1 DEF ResultInv, OutcomeInv, AllSucceeded
    <2>3. TidyInv'
      BY Zenon, <1>1, <2>1 DEF ResultInv, TidyInv, TypeInv, TypeOK
    <2>4. FinalInv'
      BY ZenonT(30), <1>1, <2>1 DEF ResultInv, FinalInv
    <2> QED
      BY Zenon, <1>2, <1>3, <2>2, <2>3, <2>4 DEF ResultInv
  <1>10. CASE DeleteImages
    <2>1. /\ mpc = "delImages" /\ containerIDs' = containerIDs
          /\ outcome' \in {outcome, "error"} /\ cleanupImages' = << >>
          /\ \/ deferred /\ mpc' = "returned" /\ UNCHANGED <<deferred, imageID>>
             \/ ~deferred /\ outcome' = "error" /\ mpc' = "delStages" /\ deferred'
             \/ ~deferred /\ outcome' # "error" /\ mpc' = "report" /\ UNCHANGED <<deferred, imageID>>
      BY <1>10 DEF DeleteImages
    <2>2. imageID \in images => imageID \in images'
      BY Zenon, <1>10 DEF DeleteImages, ImagesToRemove
    <2>3. OutcomeInv'
      BY <1>1, <1>o, <2>1 DEF ResultInv, OutcomeInv, AllSucceeded
    <2>4. TidyInv'
      BY <1>1, <2>1 DEF ResultInv, TidyInv
    <2>5. FinalInv'
      <3>1. CASE outcome' = "error"
        BY Zenon, <2>1, <3>1 DEF FinalInv
      <3>2. CASE outcome' # "error"
        <4>1. outcome # "error" /\ AllSucceeded /\ imageID' = imageID
          BY <2>1, <3>2 DEF ResultInv, OutcomeInv
        <4>2. \A n \in 1 .. Len(ch) : FALSE
          BY <4>1, AllEnded, ZenonT(60)
        <4> QED
          BY Zenon, <1>1, <2>1, <2>2, <4>1, <4>2 DEF ResultInv, FinalInv
      <3> QED
        BY Zenon, <3>1, <3>2
    <2> QED
      BY <1>2, <1>3, <2>3, <2>4, <2>5, ZenonT(60) DEF ResultInv
  <1> QED
    BY Zenon, <1>4, <1>5, <1>6, <1>7, <1>8, <1>9, <1>10

\* Nothing has been reported or decided at the start
LEMMA InitResult == Init => ResultInv
  <1> SUFFICES ASSUME Init PROVE ResultInv
    OBVIOUS
  <1>0. Last \in Stages
    BY SizeAssumption DEF Last, Stages
  <1> QED
    BY <1>0 DEF Init, ResultInv, DeliveredInv, BuiltInv, OutcomeInv, TidyInv, FinalInv, Ended

\* Every step keeps the invariant
LEMMA NextResult ==
  ASSUME TypeInv, BaseInv, ResultInv, [Next]_vars
  PROVE  ResultInv'
  <1> USE DEF semVars, ctlVars, stageVars, regVars, rootVars, mainVars, storeVars, Goto
  <1>0. next < NumStages => next \in Stages /\ pc[next] = "idle"
    BY SizeAssumption DEF BaseInv, DispatchInv, TypeInv, TypeOK, Stages
  <1>p. pc \in [Stages -> StagePC]
    BY DEF TypeInv, TypeOK
  <1>1. CASE UNCHANGED <<file, pc, ch, terminatedStage, baseImage, images, containerIDs, stages,
                         mainVars>>
    BY ZenonT(30), <1>1 DEF ResultInv, DeliveredInv, BuiltInv, OutcomeInv, TidyInv, FinalInv, Builds,
       Skipped, AllSucceeded
  <1>2. CASE Dispatch
    <2>1. \A i \in Stages : pc'[i] \in Ended <=> pc[i] \in Ended
      BY Zenon, <1>0, <1>2, <1>p DEF Dispatch, Ended
    <2>2. UNCHANGED <<file, ch, terminatedStage, baseImage, images, containerIDs, stages, mainVars>>
      BY <1>2 DEF Dispatch
    <2>3. DeliveredInv'
      BY ZenonT(30), <2>1, <2>2 DEF ResultInv, DeliveredInv
    <2> QED
      BY Zenon, <2>2, <2>3 DEF ResultInv, BuiltInv, OutcomeInv, TidyInv, FinalInv, Builds,
         Skipped, AllSucceeded
  <1>3. CASE DispatchFails
    <2>1. /\ next \in Stages /\ pc[next] \notin Ended
          /\ \E to \in StagePC : pc' = [pc EXCEPT ![next] = to]
          /\ ch' = Append(ch, [index |-> next, image |-> NoImage, error |-> TRUE])
      BY Zenon, <1>0, <1>3 DEF DispatchFails, SendNotStarted, Send, Ended, StagePC
    <2>2. UNCHANGED <<file, terminatedStage, baseImage, images, containerIDs, stages, mainVars>>
      BY <1>3 DEF DispatchFails
    <2>3. DeliveredInv' /\ BuiltInv' /\ FinalInv'
      BY Zenon, <2>1, <2>2, ReportStep
    <2> QED
      BY Zenon, <2>2, <2>3 DEF ResultInv, OutcomeInv, TidyInv, AllSucceeded
  <1>4. CASE CancelContext \/ MapRace \/ UNCHANGED vars
    BY Zenon, <1>1, <1>4 DEF CancelContext, MapRace, vars
  <1>5. ASSUME NEW i \in Stages, StageWork(i) \/ Wake(i) PROVE ResultInv'
    BY <1>5, StageResult
  <1>6. CASE Main
    BY <1>6, ReceiveResult, TailOfBuild DEF Main
  <1> QED
    BY ZenonT(60), <1>2, <1>3, <1>4, <1>5, <1>6 DEF Next, Terminated

\* All that is known of the executor's state
ExecInv == TypeInv /\ BaseInv /\ ResultInv

\* The invariant holds in every state
LEMMA ExecAlways == Spec => []ExecInv
  <1>1. Init => ExecInv
    BY InitType, InitBase, InitResult DEF ExecInv
  <1>2. ExecInv /\ [Next]_vars => ExecInv'
    BY NextType, NextBase, NextResult DEF ExecInv
  <1> QED
    BY <1>1, <1>2, PTL DEF Spec

(***************************************************************************)
(* Build returns an image only if every stage terminated without error and  *)
(* every stage with a base in the build started from that base's image, for *)
(* any interleaving, failures, cancellation and options                     *)
(* (executor.go:883-912).                                                   *)
(***************************************************************************)
THEOREM SuccessComplete == Spec => []SuccessIsComplete
  <1>1. ExecInv => SuccessIsComplete
    <2> SUFFICES ASSUME ExecInv, outcome = "ok", NEW i \in Stages
                 PROVE  /\ terminatedStage[i] = "ok"
                        /\ ~Skipped(i) /\ file.base[i] # Ext =>
                              baseImage[i] = imageMap[file.base[i]] /\ baseImage[i] # NoImage
      BY DEF SuccessIsComplete
    <2>1. AllSucceeded
      BY Zenon DEF ExecInv, ResultInv, OutcomeInv
    <2>2. ASSUME ~Skipped(i), file.base[i] # Ext
          PROVE  baseImage[i] = imageMap[file.base[i]] /\ baseImage[i] # NoImage
      <3>1. file.base[i] \in Stages
        BY Zenon, <2>2, NeededClosed DEF ExecInv
      <3>2. baseImage[i] # NoImage
        BY Zenon, <2>1, <2>2 DEF ExecInv, ResultInv, BuiltInv, Builds, AllSucceeded
      <3> QED
        BY <2>1, <2>2, <3>1, <3>2 DEF ExecInv, BaseInv, BaseIsStageImage, AllSucceeded
    <2> QED
      BY Zenon, <2>1, <2>2 DEF AllSucceeded
  <1> QED
    BY ExecAlways, <1>1, PTL

(***************************************************************************)
(* The image that Build returns is in the store after both cleanups, for    *)
(* any Containerfile, also one whose last stage shares its image with a     *)
(* stage whose image is removed (executor.go:631-643).                      *)
(***************************************************************************)
THEOREM FinalImageStays == Spec => []FinalImageKept
  <1>1. ExecInv => FinalImageKept
    <2> SUFFICES ASSUME ExecInv, outcome = "ok" PROVE imageID \in images
      BY DEF FinalImageKept
    <2>1. mpc \notin {"receive", "failing"}
      BY DEF ExecInv, ResultInv, OutcomeInv
    <2>2. terminatedStage[Last] = "ok"
      BY Zenon, <2>1, LastNeeded DEF ExecInv, ResultInv, OutcomeInv, AllSucceeded
    <2> QED
      BY <2>1, <2>2 DEF ExecInv, ResultInv, FinalInv
  <1> QED
    BY ExecAlways, <1>1, PTL
-----------------------------------------------------------------------------
(***************************************************************************)
(* What a stage reads: what it was to read is still on its list, or has     *)
(* terminated.                                                              *)
(***************************************************************************)
Reading == {"read", "rootfs", "rootMake"}

\* A name that needs no more waiting
Settled(n) == n = Ext \/ (n \in Stages /\ terminatedStage[n] # "no")

\* What a stage is to read is still on its list or has terminated
ReadInv ==
    \A i \in Stages :
        /\ \A j \in Needs(file, i) :
            \/ j = file.base[i] \/ Settled(j)
            \/ \E m \in 1 .. Len(todo[i]) : todo[i][m] = j
        /\ pc[i] \in Reading => Settled(Head(todo[i]))

\* References are to earlier stages
LEMMA NeedsStages == ASSUME TypeInv, NEW i \in Stages PROVE Needs(file, i) \subseteq Stages
  <1>1. IsContainerfile(file)
    BY ZenonT(60), ContainerfileAssumption DEF TypeInv, TypeOK
  <1>2. /\ file.base[i] \in Names
        /\ \A n \in 1 .. Len(file.reads[i]) : file.reads[i][n] \in Names
    BY <1>1 DEF IsContainerfile
  <1> QED
    BY Zenon, <1>2, StageNames DEF Needs

\* A stage that has terminated stays so
LEMMA TerminatedStays ==
  ASSUME TypeInv, BaseInv, [Next]_vars, NEW j \in Stages, terminatedStage[j] # "no"
  PROVE  terminatedStage'[j] # "no"
  <1> USE DEF semVars, ctlVars, stageVars, regVars, rootVars, mainVars, storeVars
  <1>1. CASE Main
    <2>1. CASE ReceiveSuccess \/ ReceiveError
      BY ZenonT(30), <2>1 DEF ReceiveSuccess, ReceiveError, TypeInv, TypeOK
    <2> QED
      BY ZenonT(30), <1>1, <2>1 DEF Main, ReturnError, ChannelClosed, AddTags, DeleteStages, DeleteRoots,
         DeleteIntermediateCtrs, DeleteImages, ReportImage
  <1>2. ASSUME NEW i \in Stages, StageWork(i) \/ Wake(i) PROVE terminatedStage' = terminatedStage
    BY Zenon, <1>2, StageShape DEF Shape
  <1> QED
    BY ZenonT(30), <1>1, <1>2 DEF Next, CancelContext, Dispatch, DispatchFails, MapRace, Terminated, vars

\* A step that leaves the lists of names to read alone
LEMMA ReadKept ==
  ASSUME TypeInv, BaseInv, ReadInv, [Next]_vars, UNCHANGED <<file, todo>>,
         \A i \in Stages : pc'[i] \in Reading => pc[i] \in Reading \/ Settled(Head(todo[i]))
  PROVE  ReadInv'
  <1>1. \A n : Settled(n) => Settled(n)'
    BY Zenon, TerminatedStays DEF Settled
  <1>2. \A i \in Stages : Needs(file, i)' = Needs(file, i)
    BY Zenon DEF Needs
  <1> QED
    BY ZenonT(60), <1>1, <1>2 DEF ReadInv

\* The first name on the list has been read
LEMMA ReadDoneKeeps ==
  ASSUME TypeInv, BaseInv, ReadInv, [Next]_vars, NEW i \in Stages, pc[i] \in Reading,
         ReadDone(i), UNCHANGED file
  PROVE  ReadInv'
  <1>0. pc \in [Stages -> StagePC] /\ todo \in [Stages -> Seq(Names)] /\ todo[i] # << >>
    BY Zenon DEF TypeInv, TypeOK, ReadingInv, Reading
  <1>1. \A n : Settled(n) => Settled(n)'
    BY Zenon, TerminatedStays DEF Settled
  <1>2. \A k \in Stages : Needs(file, k)' = Needs(file, k)
    BY Zenon DEF Needs
  <1>3. \A k \in Stages : k # i => todo'[k] = todo[k] /\ pc'[k] = pc[k]
    BY <1>0 DEF ReadDone, Goto
  <1>4. todo'[i] = Tail(todo[i]) /\ pc'[i] \notin Reading
    BY Zenon, <1>0 DEF ReadDone, Goto, Reading
  <1>5. ASSUME NEW m \in 1 .. Len(todo[i])
        PROVE  todo[i][m] = Head(todo[i]) \/ \E l \in 1 .. Len(todo'[i]) : todo'[i][l] = todo[i][m]
    <2>1. todo[i] \in Seq(Names) /\ todo[i] # << >>
      BY Zenon, <1>0
    <2>2. CASE m = 1
      BY <2>1, <2>2
    <2>3. CASE m # 1
      <3>1. m - 1 \in 1 .. Len(Tail(todo[i])) /\ Tail(todo[i])[m - 1] = todo[i][m]
        BY <2>1, <2>3
      <3> QED
        BY Zenon, <1>4, <3>1
    <2> QED
      BY Zenon, <2>2, <2>3
  <1>6. Settled(Head(todo[i]))
    BY Zenon DEF ReadInv
  <1>7. ASSUME NEW k \in Stages
        PROVE  /\ \A j \in Needs(file, k) :
                    \/ j = file.base[k] \/ Settled(j)'
                    \/ \E m \in 1 .. Len(todo'[k]) : todo'[k][m] = j
               /\ pc'[k] \in Reading => Settled(Head(todo[k]))'
    <2>1. CASE k = i
      <3>1. ASSUME NEW j \in Needs(file, i), j # file.base[i], ~Settled(j)
            PROVE  \E m \in 1 .. Len(todo'[i]) : todo'[i][m] = j
        <4>1. PICK m \in 1 .. Len(todo[i]) : todo[i][m] = j
          BY Zenon, <3>1 DEF ReadInv
        <4> QED
          BY ZenonT(30), <1>5, <1>6, <3>1, <4>1
      <3> QED
        BY Zenon, <1>1, <1>4, <2>1, <3>1
    <2>2. CASE k # i
      <3>1. todo'[k] = todo[k] /\ pc'[k] = pc[k]
        BY Zenon, <1>3, <2>2
      <3>2. ASSUME NEW j \in Needs(file, k), j # file.base[k], ~Settled(j)'
            PROVE  \E m \in 1 .. Len(todo'[k]) : todo'[k][m] = j
        <4>1. ~Settled(j)
          BY Zenon, <1>1, <3>2
        <4>2. \E m \in 1 .. Len(todo[k]) : todo[k][m] = j
          BY Zenon, <3>2, <4>1 DEF ReadInv
        <4> QED
          BY Zenon, <3>1, <4>2
      <3>3. pc'[k] \in Reading => Settled(Head(todo[k]))'
        BY Zenon, <1>1, <3>1 DEF ReadInv
      <3> QED
        BY Zenon, <3>2, <3>3
    <2> QED
      BY Zenon, <2>1, <2>2
  <1> QED
    BY Zenon, <1>2, <1>7 DEF ReadInv

\* Nothing has been read at the start
LEMMA InitRead == Init => ReadInv
  <1> SUFFICES ASSUME Init PROVE ReadInv
    BY Zenon
  <1>1. todo = file.reads /\ \A i \in Stages : pc[i] \notin Reading
    BY Zenon DEF Init, Reading
  <1>2. ASSUME NEW i \in Stages, NEW j \in Needs(file, i)
        PROVE  j = file.base[i] \/ \E m \in 1 .. Len(todo[i]) : todo[i][m] = j
    BY Zenon, <1>1 DEF Needs
  <1> QED
    BY Zenon, <1>1, <1>2 DEF ReadInv

\* Every step keeps the lists
LEMMA NextRead ==
  ASSUME TypeInv, BaseInv, ReadInv, [Next]_vars
  PROVE  ReadInv'
  <1> USE DEF semVars, ctlVars, stageVars, regVars, rootVars, mainVars, storeVars, Goto
  <1>0. pc \in [Stages -> StagePC] /\ (next < NumStages => next \in Stages)
    BY SizeAssumption DEF TypeInv, TypeOK, Stages
  <1>1. CASE UNCHANGED <<file, todo, pc>>
    BY <1>1, ReadKept
  <1>2. CASE Dispatch \/ DispatchFails
    <2>1. \A i \in Stages : pc'[i] \in Reading => pc[i] \in Reading
      BY Zenon, <1>0, <1>2 DEF Dispatch, DispatchFails, Reading
    <2> QED
      BY ZenonT(30), <1>2, <2>1, ReadKept DEF Dispatch, DispatchFails
  <1>3. CASE Main
    BY ZenonT(30), <1>1, <1>3 DEF Main, ReceiveSuccess, ReceiveError, ReturnError, ChannelClosed, AddTags,
       DeleteStages, DeleteRoots, DeleteIntermediateCtrs, DeleteImages, ReportImage
  <1>4. CASE CancelContext \/ MapRace \/ UNCHANGED vars
    BY ZenonT(30), <1>1, <1>4 DEF CancelContext, MapRace, vars
  <1>5. ASSUME NEW i \in Stages, StageWork(i) \/ Wake(i) PROVE ReadInv'
    <2> DEFINE Moved(to) ==
          /\ \E where \in to : pc' = [pc EXCEPT ![i] = where]
          /\ UNCHANGED <<file, todo>>
    <2>1. CASE Moved(StagePC \ Reading)
      BY Zenon, <1>0, <2>1, ReadKept
    <2>2. CASE Moved(Reading) /\ (pc[i] \in Reading \/ Settled(Head(todo[i])))
      BY Zenon, <1>0, <2>2, ReadKept
    <2>3. CASE StageCanceled(i) \/ StageSkipped(i) \/ StartStage(i) \/ LookupBase(i)
      BY ZenonT(30), <2>1, <2>3
      DEF StageCanceled, StageSkipped, StartStage, ExecuteFrom, LookupBase, StagePC, Reading
    <2>4. CASE Wake(i) \/ PollBase(i)
      BY ZenonT(30), <2>1, <2>4 DEF Wake, Reacquire, PollBase, Poll, StageError, StagePC, Reading
    <2>5. CASE NewBuilder(i) \/ NewBuilderFails(i) \/ MountBuilder(i) \/ MountBuilderFails(i)
      BY Zenon, <2>1, <2>5
      DEF NewBuilder, NewBuilderFails, MountBuilder, MountBuilderFails, StageError, StagePC, Reading
    <2>6. CASE BeginRead(i)
      <3>1. CASE Head(todo[i]) = Ext
        BY ZenonT(30), <2>2, <2>6, <3>1 DEF BeginRead, Reading, Settled
      <3>2. CASE Head(todo[i]) # Ext
        BY Zenon, <2>1, <2>6, <3>2 DEF BeginRead, Reading, StagePC
      <3> QED
        BY <3>1, <3>2
    <2>7. CASE PollRead(i)
      <3>1. Head(todo[i]) \in Stages
        BY ZenonT(30), <2>7 DEF PollRead, TypeInv, ReadingInv
      <3>2. CASE pc' = [pc EXCEPT ![i] = "read"] /\ terminatedStage[Head(todo[i])] # "no"
        BY Zenon, <2>2, <2>7, <3>1, <3>2 DEF PollRead, Reading, Settled
      <3>3. CASE pc' = [pc EXCEPT ![i] = "erring"] \/ pc' = [pc EXCEPT ![i] = "readSleep"]
        BY Zenon, <2>1, <2>7, <3>3 DEF PollRead, Reading, StagePC
      <3> QED
        BY Zenon, <2>7, <3>2, <3>3 DEF PollRead, Poll, StageError
    <2>8. CASE ReadStage(i)
      <3>1. CASE StageError(i) /\ todo' = todo
        BY Zenon, <2>1, <2>8, <3>1 DEF ReadStage, StageError, StagePC, Reading
      <3> QED
        BY Zenon, <2>8, <3>1, ReadDoneKeeps DEF ReadStage, Reading
    <2>9. CASE ReadImage(i)
      BY Zenon, <2>2, <2>9 DEF ReadImage, Reading
    <2>10. CASE RootfsLookup(i)
      <3>1. CASE Goto(i, "rootMake") /\ todo' = todo
        BY <2>2, <2>10, <3>1 DEF RootfsLookup, Reading
      <3> QED
        BY ZenonT(60), <2>10, <3>1, ReadDoneKeeps DEF RootfsLookup, Reading
    <2>11. CASE RootfsMake(i)
      BY ZenonT(30), <2>11, ReadDoneKeeps DEF RootfsMake, Reading
    <2>12. CASE RootfsMakeFails(i) \/ RebaseFails(i) \/ StepFails(i)
      BY ZenonT(30), <2>1, <2>12 DEF RootfsMakeFails, RebaseFails, CanRebase, StepFails, StageError, StagePC, Reading
    <2>13. CASE FinishStage(i) \/ ReportError(i) \/ ReleaseToken(i)
      BY ZenonT(30), <2>1, <2>13 DEF FinishStage, ReportError, ReleaseToken, StagePC, Reading
    <2>14. CASE Rebase(i) \/ UseDeletedBuilder(i)
      BY Zenon, <1>1, <2>14 DEF Rebase, UseDeletedBuilder
    <2> QED
      BY ZenonT(60), <1>5, <2>3, <2>4, <2>5, <2>6, <2>7, <2>8, <2>9, <2>10, <2>11, <2>12, <2>13, <2>14
      DEF StageWork
  <1> QED
    BY <1>2, <1>3, <1>4, <1>5 DEF Next, Terminated
=============================================================================
