---------------------- MODULE ExecutorContractProofs ----------------------
(***************************************************************************)
(* What Build promises (Executor), for every number of stages and jobs,     *)
(* every Containerfile and every option: the semaphore counts its tokens,   *)
(* and the executor implements the contract of a multi-stage build          *)
(* (BuildContract).                                                         *)
(***************************************************************************)
EXTENDS ExecutorProofs, FiniteSetTheorems

(***************************************************************************)
(* Tokens.  The count of the semaphore is the number of goroutines that     *)
(* hold a token as long as nobody cancels the context, and no more than     *)
(* that ever.                                                               *)
(***************************************************************************)
CountInv == cur <= Jobs /\ cur <= Cardinality(Holding) /\ (~ctxDone => cur = Cardinality(Holding))

PanicInv == crashed = "semaphore" => ctxDone

TokenInv == CountInv /\ PanicInv

\* Only finitely many goroutines can hold a token
LEMMA HoldingFinite == IsFiniteSet(Holding) /\ Cardinality(Holding) \in Nat
  <1>1. IsFiniteSet(Stages)
    BY FS_Interval, SizeAssumption DEF Stages
  <1>2. IsFiniteSet(Holding)
    BY Zenon, <1>1, FS_Subset DEF Holding
  <1> QED
    BY <1>2, FS_CardinalityType

\* No goroutine holds a token at the start
LEMMA InitToken == Init => TokenInv
  <1> SUFFICES ASSUME Init PROVE TokenInv
    OBVIOUS
  <1>1. Holding = {}
    BY DEF Init, Holding
  <1>2. Cardinality(Holding) = 0
    BY Zenon, <1>1, FS_EmptySet
  <1> QED
    BY <1>2, SizeAssumption DEF Init, TokenInv, CountInv, PanicInv

\* Every step keeps the count of tokens right
LEMMA NextToken ==
  ASSUME ExecInv, TokenInv, [Next]_vars
  PROVE  TokenInv'
  <1>0. /\ TokenStep /\ cur \in Int /\ Jobs \in Nat
        /\ IsFiniteSet(Holding) /\ Cardinality(Holding) \in Nat
    BY Zenon, NextDispatch, HoldingFinite, SizeAssumption DEF ExecInv, BaseInv, TypeInv, TypeOK
  <1>1. CASE KeepsTokens
    BY Zenon, <1>0, <1>1 DEF KeepsTokens, TokenStep, TokenInv, CountInv, PanicInv
  <1>2. ASSUME NEW i \in Stages, TakesToken(i) PROVE TokenInv'
    <2>1. Cardinality(Holding') = Cardinality(Holding) + 1
      BY Zenon, <1>0, <1>2, FS_AddElement DEF TakesToken
    <2> QED
      BY <1>0, <1>2, <2>1
      DEF TakesToken, Acquire, AcquireFails, TokenStep, TokenInv, CountInv, PanicInv
  <1>3. ASSUME NEW i \in Stages, GivesToken(i) PROVE TokenInv'
    <2>1. Cardinality(Holding') = Cardinality(Holding) - 1
      BY ZenonT(30), <1>0, <1>3, FS_RemoveElement DEF GivesToken
    <2>2. Cardinality(Holding) # 0
      BY <1>0, <1>3, FS_EmptySet DEF GivesToken
    <2> QED
      BY <1>0, <1>3, <2>1, <2>2
      DEF GivesToken, Release, Alive, TokenStep, TokenInv, CountInv, PanicInv
  <1> QED
    BY Zenon, <1>0, <1>1, <1>2, <1>3 DEF TokenStep

(***************************************************************************)
(* Whatever is canceled and whenever: the semaphore never counts more than  *)
(* the goroutines that will release, and only a canceled context makes a    *)
(* Release panic, for any number of stages and jobs and any Containerfile   *)
(* (executor.go:391-412, 811-832).                                          *)
(***************************************************************************)
THEOREM TokensAccounted == Spec => []TokensLostToCancel
  <1>1. ExecInv /\ TokenInv /\ [Next]_vars => TokenInv'
    BY Zenon, NextToken
  <1>2. TokenInv => TokensLostToCancel
    BY DEF TokenInv, CountInv, PanicInv, TokensLostToCancel
  <1> QED
    BY ExecAlways, InitToken, <1>1, <1>2, PTL DEF Spec

(***************************************************************************)
(* Unless the context is canceled, the semaphore counts the goroutines that *)
(* hold a token, at most Jobs of them, and no Release panics, for any       *)
(* number of stages and any Containerfile (executor.go:391-412, 811-832).   *)
(***************************************************************************)
THEOREM TokensCounted ==
  ASSUME ~MayCancel
  PROVE  Spec => [](JobsBound /\ ReleaseMatchesAcquire)
  <1>1. /\ ExecInv /\ TokenInv /\ [Next]_vars => TokenInv'
        /\ ~ctxDone /\ [Next]_vars => ~ctxDone'
    BY Zenon, NextToken, NextNotCanceled
  <1>2. TokenInv /\ ~ctxDone => JobsBound /\ ReleaseMatchesAcquire
    BY DEF TokenInv, CountInv, PanicInv, JobsBound, ReleaseMatchesAcquire
  <1>3. Init => ~ctxDone
    BY DEF Init
  <1> QED
    BY ExecAlways, InitToken, <1>1, <1>2, <1>3, PTL DEF Spec

-----------------------------------------------------------------------------
(***************************************************************************)
(* The executor implements BuildContract: every step of a goroutine or of   *)
(* Build is a step of the contract or changes nothing the contract speaks   *)
(* of, under the mapping of Executor (a stage's phase from its program      *)
(* counter and its report, the verdict from Build's outcome).  That a stage *)
(* ends only after the stages it reads needs ReadInv: what it was to read   *)
(* is still on its list, or has terminated.                                 *)
(***************************************************************************)
Over == {"built", "failed"}

\* How the program counter and the report make up the phase
LEMMA PhaseDef ==
  ASSUME NEW i \in Stages
  PROVE  /\ pc[i] \in Ended => Phase(i) = IF Reported(i, TRUE) THEN "failed" ELSE "built"
         /\ pc[i] = "erring" => Phase(i) = "failed"
         /\ pc[i] \in Working => Phase(i) = "working"
         /\ pc[i] \notin Ended \cup {"erring"} \cup Working => Phase(i) = "pending"
  BY Zenon DEF Phase, Ended, Working

\* The same after the step
LEMMA PhaseDefAfter ==
  ASSUME NEW i \in Stages
  PROVE  /\ pc'[i] \in Ended => Phase(i)' = IF Reported(i, TRUE)' THEN "failed" ELSE "built"
         /\ pc'[i] = "erring" => Phase(i)' = "failed"
         /\ pc'[i] \in Working => Phase(i)' = "working"
         /\ pc'[i] \notin Ended \cup {"erring"} \cup Working => Phase(i)' = "pending"
  BY Zenon DEF Phase, Ended, Working

\* A stage keeps its phase where neither its program counter's class nor its report changes
LEMMA PhaseKept ==
  ASSUME NEW i \in Stages,
         \/ (pc'[i] = pc[i] \/ (pc[i] \in Ended /\ pc'[i] \in Ended))
            /\ (Reported(i, TRUE)' <=> Reported(i, TRUE))
         \/ pc[i] \in Working /\ pc'[i] \in Working
         \/ pc[i] \notin Ended \cup {"erring"} \cup Working
            /\ pc'[i] \notin Ended \cup {"erring"} \cup Working
         \/ pc[i] = "erring" /\ pc'[i] \in Ended /\ Reported(i, TRUE)'
  PROVE  Phase(i)' = Phase(i)
  <1>1. CASE pc[i] \in Working /\ pc'[i] \in Working
    BY Zenon, <1>1 DEF Phase, Ended, Working
  <1>2. CASE pc[i] \in Ended /\ pc'[i] \in Ended /\ (Reported(i, TRUE)' <=> Reported(i, TRUE))
    BY Zenon, <1>2 DEF Phase, Ended
  <1>3. CASE pc[i] = "erring" /\ pc'[i] \in Ended /\ Reported(i, TRUE)'
    BY <1>3 DEF Phase, Ended
  <1>4. CASE pc[i] \notin Ended \cup {"erring"} \cup Working /\ pc'[i] \notin Ended \cup {"erring"} \cup Working
    BY Zenon, <1>4 DEF Phase, Ended, Working
  <1>5. CASE pc'[i] = pc[i] /\ (Reported(i, TRUE)' <=> Reported(i, TRUE))
    BY Zenon, <1>5 DEF Phase
  <1> QED
    BY ZenonT(60), <1>1, <1>2, <1>3, <1>4, <1>5

\* A stage that has terminated is over
LEMMA TerminatedOver ==
  ASSUME BaseInv, NEW j \in Stages, terminatedStage[j] # "no"
  PROVE  Phase(j) \in Over
  BY Zenon, PhaseDef DEF BaseInv, ChannelInv, Over

\* Stages that succeeded are built
LEMMA SucceededBuilt ==
  ASSUME TypeInv, BaseInv, AllSucceeded, NEW i \in Stages
  PROVE  Phase(i) = "built"
  <1>1. pc[i] \in Ended /\ \A n \in 1 .. Len(ch) : FALSE
    BY AllEnded
  <1>2. ~Reported(i, TRUE)
    BY Zenon, <1>1 DEF Reported, AllSucceeded
  <1> QED
    BY Zenon, <1>1, <1>2, PhaseDef

\* One stage changes its phase
LEMMA ContractStep ==
  ASSUME TypeInv, UNCHANGED <<file, outcome>>, NEW i \in Stages, NEW to,
         \A k \in Stages : Phase(k)' = IF k = i THEN to ELSE Phase(k),
         \/ /\ Phase(i) = "pending" /\ to = "working"
            /\ file.base[i] # Ext => Phase(file.base[i]) \in Over
         \/ Phase(i) = "pending" /\ to = "built"
         \/ /\ Phase(i) = "working" /\ to = "built"
            /\ \A j \in Needs(file, i) : Phase(j) \in Over
         \/ Phase(i) \in {"pending", "working"} /\ to = "failed"
  PROVE  Contract!Next
  <1> DEFINE phase == [k \in Stages |-> Phase(k)]
  <1>1. phase' = [phase EXCEPT ![i] = to] /\ phase[i] = Phase(i)
    BY Zenon
  <1>2. /\ [k \in Stages |-> {file.base[k]} \ {Ext}]' = [k \in Stages |-> {file.base[k]} \ {Ext}]
        /\ [k \in Stages |-> Needs(file, k)]' = [k \in Stages |-> Needs(file, k)]
    BY Zenon DEF Needs
  <1>3. Needs(file, i) \subseteq Stages /\ (file.base[i] # Ext => file.base[i] \in Stages)
    BY Zenon, NeedsStages DEF Needs
  <1>4. CASE Phase(i) = "pending" /\ to = "working" /\ (file.base[i] # Ext => Phase(file.base[i]) \in Over)
    <2>1. Contract!Begin(i)
      BY ZenonT(60), <1>1, <1>2, <1>3, <1>4 DEF Contract!Begin, Contract!Move, Contract!Ended, Over
    <2> QED
      BY Zenon, <2>1 DEF Contract!Next
  <1>5. CASE Phase(i) = "pending" /\ to = "built"
    <2>1. Contract!Skip(i)
      BY Zenon, <1>1, <1>2, <1>5 DEF Contract!Skip, Contract!Move
    <2> QED
      BY Zenon, <2>1 DEF Contract!Next
  <1>6. CASE Phase(i) = "working" /\ to = "built" /\ \A j \in Needs(file, i) : Phase(j) \in Over
    <2>1. Contract!Finish(i)
      BY ZenonT(60), <1>1, <1>2, <1>3, <1>6 DEF Contract!Finish, Contract!Move, Contract!Ended, Over
    <2> QED
      BY Zenon, <2>1 DEF Contract!Next
  <1>7. CASE Phase(i) \in {"pending", "working"} /\ to = "failed"
    <2>1. Contract!Fail(i)
      BY Zenon, <1>1, <1>2, <1>7 DEF Contract!Fail, Contract!Move
    <2> QED
      BY Zenon, <2>1 DEF Contract!Next
  <1> QED
    BY ZenonT(60), <1>4, <1>5, <1>6, <1>7

\* Nothing changes that the contract speaks of
LEMMA ContractStutter ==
  ASSUME UNCHANGED <<file, outcome>>, \A k \in Stages : Phase(k)' = Phase(k)
  PROVE  UNCHANGED Contract!vars
  <1>1. [k \in Stages |-> Phase(k)]' = [k \in Stages |-> Phase(k)]
    OBVIOUS
  <1>2. /\ [k \in Stages |-> {file.base[k]} \ {Ext}]' = [k \in Stages |-> {file.base[k]} \ {Ext}]
        /\ [k \in Stages |-> Needs(file, k)]' = [k \in Stages |-> Needs(file, k)]
    BY DEF Needs
  <1> QED
    BY Zenon, <1>1, <1>2 DEF Contract!vars

\* What a result in the channel says of its stage
LEMMA ReportedAppend ==
  ASSUME TypeInv, BaseInv, NEW i \in Stages, NEW image \in Images \cup {NoImage},
         NEW error \in BOOLEAN, pc[i] \notin Ended, UNCHANGED terminatedStage,
         ch' = Append(ch, [index |-> i, image |-> image, error |-> error])
  PROVE  /\ \A k \in Stages : k # i => (Reported(k, TRUE)' <=> Reported(k, TRUE))
         /\ Reported(i, TRUE)' <=> error
  <1> DEFINE r == [index |-> i, image |-> image, error |-> error]
  <1>0. r \in Result /\ r.index = i /\ r.error = error
    BY DEF Result
  <1>1. /\ Len(ch) \in Nat /\ Len(ch') = Len(ch) + 1
        /\ \A n \in 1 .. Len(ch) : ch'[n] = ch[n]
        /\ ch'[Len(ch) + 1] = r
        /\ \A n \in 1 .. Len(ch') : n \in 1 .. Len(ch) \/ n = Len(ch) + 1
    BY Zenon, <1>0, AppendResult
  <1>2. Len(ch) + 1 \in 1 .. Len(ch') /\ \A n \in 1 .. Len(ch) : n \in 1 .. Len(ch')
    BY <1>1
  <1>3. /\ terminatedStage[i] = "no"
        /\ \A n \in 1 .. Len(ch) : ch[n].index # i
    BY Zenon DEF BaseInv, ChannelInv
  <1>4. ASSUME NEW k \in Stages, k # i PROVE Reported(k, TRUE)' <=> Reported(k, TRUE)
    BY ZenonT(60), <1>0, <1>1, <1>2, <1>4 DEF Reported
  <1>5. Reported(i, TRUE)' <=> error
    BY ZenonT(60), <1>0, <1>1, <1>2, <1>3 DEF Reported
  <1> QED
    BY ZenonT(60), <1>4, <1>5

\* Receiving a result does not change what was reported
LEMMA ReportedReceive ==
  ASSUME TypeInv, BaseInv, ReceiveSuccess \/ ReceiveError, NEW k \in Stages
  PROVE  Reported(k, TRUE)' <=> Reported(k, TRUE)
  <1> DEFINE r == ch[1]
  <1>0. ch # << >> /\ ch' = Tail(ch)
    BY DEF ReceiveSuccess, ReceiveError
  <1>1. /\ 1 \in 1 .. Len(ch) /\ Head(ch) = r /\ r.index \in Stages
        /\ terminatedStage[r.index] = "no"
        /\ \A n \in 1 .. Len(ch') : n + 1 \in 1 .. Len(ch) /\ ch'[n] = ch[n + 1]
        /\ \A n \in 1 .. Len(ch) : n # 1 => n - 1 \in 1 .. Len(ch') /\ ch'[n - 1] = ch[n]
        /\ \A n \in 1 .. Len(ch') : ch'[n].index \in Stages \ {r.index}
    BY ZenonT(60), <1>0, TailResult
  <1>2. r.error \in BOOLEAN
    BY Zenon, <1>1, ChannelType DEF Result
  <1>3. terminatedStage' = [terminatedStage EXCEPT ![r.index] = IF r.error THEN "error" ELSE "ok"]
    <2>1. CASE ReceiveSuccess
      BY Zenon, <1>1, <2>1 DEF ReceiveSuccess
    <2>2. CASE ReceiveError
      BY Zenon, <1>1, <2>2 DEF ReceiveError
    <2> QED
      BY ZenonT(60), <2>1, <2>2
  <1>t. terminatedStage \in [Stages -> {"no", "ok", "error"}]
    BY DEF TypeInv, TypeOK
  <1>4. CASE k = r.index
    <2>1. \A n \in 1 .. Len(ch) : ch[n].index = k => n = 1
      BY ZenonT(60), <1>1, <1>4 DEF BaseInv, ChannelInv
    <2>2. Reported(k, TRUE) <=> r.error
      BY ZenonT(60), <1>1, <1>2, <1>4, <2>1 DEF Reported
    <2>3. Reported(k, TRUE)' <=> r.error
      BY ZenonT(60), <1>1, <1>2, <1>3, <1>4, <1>t DEF Reported
    <2> QED
      BY Zenon, <2>2, <2>3
  <1>5. CASE k # r.index
    <2>1. terminatedStage'[k] = terminatedStage[k]
      BY ZenonT(60), <1>3, <1>5, <1>t
    <2>2. (\E n \in 1 .. Len(ch') : ch'[n].index = k /\ ch'[n].error = TRUE)
            <=> (\E n \in 1 .. Len(ch) : ch[n].index = k /\ ch[n].error = TRUE)
      <3>1. ASSUME NEW n \in 1 .. Len(ch), ch[n].index = k, ch[n].error = TRUE
            PROVE  \E m \in 1 .. Len(ch') : ch'[m].index = k /\ ch'[m].error = TRUE
        BY ZenonT(60), <1>1, <1>5, <3>1
      <3>2. ASSUME NEW n \in 1 .. Len(ch'), ch'[n].index = k, ch'[n].error = TRUE
            PROVE  \E m \in 1 .. Len(ch) : ch[m].index = k /\ ch[m].error = TRUE
        BY Zenon, <1>1, <3>2
      <3> QED
        BY Zenon, <3>1, <3>2
    <2> QED
      BY ZenonT(60), <2>1, <2>2 DEF Reported
  <1> QED
    BY Zenon, <1>4, <1>5

\* A step of a goroutine
LEMMA StageContract ==
  ASSUME ExecInv, ReadInv, NEW i \in Stages, StageWork(i) \/ Wake(i)
  PROVE  Contract!Next \/ UNCHANGED Contract!vars
  <1> USE DEF semVars, ctlVars, stageVars, regVars, rootVars, mainVars, storeVars, Goto
  <1>i. TypeInv /\ BaseInv /\ ResultInv
    BY DEF ExecInv
  <1>s. Shape(i)
    BY Zenon, <1>i, StageShape
  <1>p. pc \in [Stages -> StagePC]
    BY Zenon, <1>i DEF TypeInv, TypeOK
  <1>o. UNCHANGED <<file, outcome, terminatedStage>> /\ \A k \in Stages : k # i => pc'[k] = pc[k]
    BY Zenon, <1>p, <1>s DEF Shape
  <1>1. ASSUME ch' = ch, NEW k \in Stages PROVE Reported(k, TRUE)' <=> Reported(k, TRUE)
    BY Zenon, <1>1, <1>o DEF Reported
  <1>2. ASSUME ch' = ch PROVE \A k \in Stages : k # i => Phase(k)' = Phase(k)
    BY ZenonT(60), <1>1, <1>2, <1>o, PhaseKept
  <1>3. ASSUME Reports(i) PROVE \A k \in Stages : k # i => Phase(k)' = Phase(k)
    <2>1. \A k \in Stages : k # i => (Reported(k, TRUE)' <=> Reported(k, TRUE))
      BY ZenonT(60), <1>3, <1>i, <1>o, ReportedAppend DEF Reports
    <2> QED
      BY ZenonT(60), <2>1, <1>o, PhaseKept
  <1>4. ASSUME pc[i] \notin Ended, pc'[i] \in Ended, ~Reported(i, TRUE)', Reports(i),
               Phase(i) = "pending" \/ (Phase(i) = "working" /\ \A j \in Needs(file, i) : Phase(j) \in Over)
        PROVE  Contract!Next
    <2>1. Phase(i)' = "built"
      BY Zenon, <1>4, PhaseDefAfter
    <2> QED
      BY ZenonT(60), <1>3, <1>4, <1>i, <1>o, <2>1, ContractStep
  <1> DEFINE Before == StagePC \ (Ended \cup Working \cup {"erring"})
  <1>5. CASE pc[i] \in Before /\ pc'[i] \in Before /\ ch' = ch
    <2>1. Phase(i)' = Phase(i)
      BY Zenon, <1>5, PhaseKept
    <2> QED
      BY ZenonT(60), <1>2, <1>5, <1>o, <2>1, ContractStutter
  <1>6. CASE pc[i] \in Working /\ pc'[i] \in Working /\ ch' = ch
    <2>1. Phase(i)' = Phase(i)
      BY Zenon, <1>6, PhaseKept
    <2> QED
      BY ZenonT(60), <1>2, <1>6, <1>o, <2>1, ContractStutter
  <1>7. CASE pc[i] \in Before \cup Working /\ pc'[i] = "erring" /\ ch' = ch
    <2>1. Phase(i)' = "failed" /\ Phase(i) \in {"pending", "working"}
      BY ZenonT(60), <1>7, PhaseDef, PhaseDefAfter
    <2> QED
      BY ZenonT(60), <1>2, <1>7, <1>i, <1>o, <2>1, ContractStep
  <1>8. CASE Wake(i) \/ PollBase(i) \/ PollRead(i)
    BY ZenonT(30), <1>5, <1>6, <1>7, <1>8, <1>p
    DEF Wake, Reacquire, PollBase, PollRead, Poll, StageError, Working, Ended, StagePC
  <1>9. CASE StartStage(i) \/ LookupBase(i)
    BY ZenonT(30), <1>5, <1>9, <1>p DEF StartStage, ExecuteFrom, LookupBase, Working, Ended, StagePC
  <1>10. CASE MountBuilder(i) \/ BeginRead(i) \/ ReadImage(i) \/ RootfsLookup(i) \/ RootfsMake(i)
    BY ZenonT(60), <1>6, <1>10, <1>p
    DEF MountBuilder, BeginRead, ReadImage, RootfsLookup, RootfsMake, ReadDone, Working
  <1>11. CASE ReadStage(i)
    BY ZenonT(60), <1>6, <1>7, <1>11, <1>p DEF ReadStage, ReadDone, StageError, Working
  <1>12. CASE NewBuilderFails(i) \/ MountBuilderFails(i) \/ RootfsMakeFails(i) \/ RebaseFails(i)
              \/ StepFails(i)
    BY ZenonT(30), <1>7, <1>12, <1>p
    DEF NewBuilderFails, MountBuilderFails, RootfsMakeFails, RebaseFails, CanRebase, StepFails,
        StageError, Working, Ended, StagePC
  <1>13. CASE Rebase(i) \/ UseDeletedBuilder(i)
    BY ZenonT(30), <1>6, <1>13, <1>p DEF Rebase, CanRebase, UseDeletedBuilder, Working
  <1>14. CASE NewBuilder(i)
    <2>1. Phase(i) = "pending" /\ Phase(i)' = "working" /\ ch' = ch
      BY ZenonT(30), <1>14, <1>p, PhaseDef, PhaseDefAfter DEF NewBuilder, Working, Ended
    <2>2. file.base[i] # Ext => file.base[i] \in Stages /\ terminatedStage[file.base[i]] # "no"
      BY ZenonT(30), <1>14, <1>i, NeedsStages DEF NewBuilder, BaseInv, StartInv, HasBase, Needs
    <2>3. file.base[i] # Ext => Phase(file.base[i]) \in Over
      BY ZenonT(60), <1>i, <2>2, TerminatedOver
    <2> QED
      BY ZenonT(30), <1>2, <1>i, <1>o, <2>1, <2>3, ContractStep
  <1>15. CASE StageSkipped(i)
    <2>1. ~Reported(i, TRUE)' /\ pc[i] \notin Ended /\ Phase(i) = "pending"
      BY ZenonT(30), <1>15, <1>i, <1>o, ReportedAppend, PhaseDef DEF StageSkipped, Send, Ended, Working
    <2>2. Reports(i)
      BY ZenonT(60), <1>15, <1>p, <1>s, <2>1 DEF StageSkipped, Shape, Quiet, Ended
    <2> QED
      BY ZenonT(60), <1>4, <2>1, <2>2 DEF Reports
  <1>16. CASE StageCanceled(i)
    <2>1. Reported(i, TRUE)' /\ Phase(i) = "pending" /\ pc[i] \notin Ended /\ pc'[i] \in Ended
      BY ZenonT(60), <1>16, <1>i, <1>o, <1>p, ReportedAppend, PhaseDef
      DEF StageCanceled, Send, Ended, Working
    <2>2. Reports(i) /\ Phase(i)' = "failed"
      BY ZenonT(30), <1>s, <2>1, PhaseDefAfter DEF Shape, Quiet
    <2> QED
      BY ZenonT(30), <1>3, <1>i, <1>o, <2>1, <2>2, ContractStep
  <1>17. CASE ReportError(i)
    <2>1. Reported(i, TRUE)' /\ Phase(i) = "failed" /\ pc[i] \notin Ended /\ pc'[i] \in Ended
      BY ZenonT(60), <1>17, <1>i, <1>o, <1>p, ReportedAppend, PhaseDef DEF ReportError, Send, Ended
    <2>2. Reports(i) /\ Phase(i)' = Phase(i)
      BY ZenonT(60), <1>17, <1>s, <2>1, PhaseKept DEF Shape, Quiet, ReportError
    <2> QED
      BY ZenonT(60), <1>3, <1>o, <2>1, <2>2, ContractStutter
  <1>18. CASE ReleaseToken(i)
    <2>1. pc[i] \in Ended /\ pc'[i] \in Ended /\ ch' = ch
      BY ZenonT(60), <1>18, <1>p DEF ReleaseToken, Ended
    <2>2. Phase(i)' = Phase(i)
      BY ZenonT(30), <1>1, <2>1, PhaseKept
    <2> QED
      BY ZenonT(60), <1>2, <1>o, <2>1, <2>2, ContractStutter
  <1>19. CASE FinishStage(i)
    <2>1. PICK image \in Images \cup {NoImage} :
            ch' = Append(ch, [index |-> i, image |-> image, error |-> FALSE])
      BY ZenonT(60), <1>19, <1>i, StageNames DEF FinishStage, Send, TypeInv, TypeOK
    <2>2. ~Reported(i, TRUE)' /\ pc[i] \notin Ended /\ pc'[i] \in Ended /\ Phase(i) = "working"
      BY ZenonT(60), <1>19, <1>i, <1>o, <1>p, <2>1, ReportedAppend, PhaseDef DEF FinishStage, Ended, Working
    <2>3. Reports(i)
      BY ZenonT(60), <1>s, <2>2 DEF Shape, Quiet
    <2>4. ASSUME NEW j \in Needs(file, i) PROVE Phase(j) \in Over
      <3>1. j \in Stages /\ j # Ext
        BY ZenonT(60), <1>i, NeedsStages, StageNames
      <3>2. CASE j = file.base[i]
        <4>1. terminatedStage[j] # "no"
          BY ZenonT(60), <1>19, <1>i, <3>1, <3>2 DEF FinishStage, BaseInv, StartInv, HasBase
        <4> QED
          BY ZenonT(60), <1>i, <3>1, <4>1, TerminatedOver
      <3>3. CASE j # file.base[i]
        <4>0. todo[i] = << >>
          BY ZenonT(30), <1>19 DEF FinishStage
        <4>1. \A m \in 1 .. Len(todo[i]) : FALSE
          BY <4>0
        <4>2. Settled(j)
          BY ZenonT(60), <3>3, <4>1 DEF ReadInv
        <4> QED
          BY ZenonT(60), <1>i, <3>1, <4>2, TerminatedOver DEF Settled
      <3> QED
        BY ZenonT(60), <3>2, <3>3
    <2> QED
      BY ZenonT(60), <1>4, <2>2, <2>3, <2>4
  <1> QED
    BY ZenonT(60), <1>8, <1>9, <1>10, <1>11, <1>12, <1>13, <1>14, <1>15, <1>16, <1>17, <1>18, <1>19
    DEF StageWork

\* A step of Build itself
LEMMA MainContract ==
  ASSUME ExecInv, Main
  PROVE  Contract!Next \/ UNCHANGED Contract!vars
  <1> USE DEF semVars, ctlVars, stageVars, regVars, rootVars, storeVars
  <1>i. TypeInv /\ BaseInv /\ ResultInv
    BY DEF ExecInv
  <1>1. UNCHANGED <<file, pc>>
    BY Zenon DEF Main, ReceiveSuccess, ReceiveError, ReturnError, ChannelClosed, AddTags, DeleteStages,
       DeleteRoots, DeleteIntermediateCtrs, DeleteImages, ReportImage
  <1>2. CASE ReceiveSuccess \/ ReceiveError
    <2>1. \A k \in Stages : Reported(k, TRUE)' <=> Reported(k, TRUE)
      BY ZenonT(60), <1>2, <1>i, ReportedReceive
    <2>2. \A k \in Stages : Phase(k)' = Phase(k)
      BY ZenonT(60), <1>1, <2>1, PhaseKept
    <2>3. outcome' = outcome
      BY ZenonT(60), <1>2 DEF ReceiveSuccess, ReceiveError
    <2> QED
      BY ZenonT(60), <1>1, <2>2, <2>3, ContractStutter
  <1>3. ASSUME UNCHANGED <<ch, terminatedStage>> PROVE \A k \in Stages : Phase(k)' = Phase(k)
    <2>1. \A k \in Stages : Reported(k, TRUE)' <=> Reported(k, TRUE)
      BY <1>3 DEF Reported
    <2> QED
      BY Zenon, <1>1, <2>1, PhaseKept
  <1>4. ASSUME UNCHANGED <<ch, terminatedStage, outcome>> PROVE UNCHANGED Contract!vars
    BY ZenonT(60), <1>1, <1>3, <1>4, ContractStutter
  <1> DEFINE phase == [k \in Stages |-> Phase(k)]
  <1>5. ASSUME UNCHANGED <<ch, terminatedStage>>
        PROVE  UNCHANGED <<[k \in Stages |-> {file.base[k]} \ {Ext}], [k \in Stages |-> Needs(file, k)], phase>>
    <2>1. phase' = phase
      BY Zenon, <1>3, <1>5
    <2> QED
      BY ZenonT(60), <1>1, <2>1 DEF Needs
  <1>6. ASSUME UNCHANGED <<ch, terminatedStage>>, outcome = "none", outcome' \in {"ok", "error"},
               AllSucceeded
        PROVE  Contract!Next
    <2>1. \A k \in Stages : phase[k] = "built"
      BY ZenonT(60), <1>i, <1>6, SucceededBuilt
    <2>2. CASE outcome' = "ok"
      <3>1. Contract!Succeed
        BY ZenonT(60), <1>5, <1>6, <2>1, <2>2 DEF Contract!Succeed
      <3> QED
        BY Zenon, <3>1 DEF Contract!Next
    <2>3. CASE outcome' = "error"
      <3>1. Contract!GiveUp
        BY ZenonT(60), <1>5, <1>6, <2>1, <2>3 DEF Contract!GiveUp
      <3> QED
        BY Zenon, <3>1 DEF Contract!Next
    <2> QED
      BY Zenon, <1>6, <2>2, <2>3
  <1>7. CASE ReturnError
    <2>1. /\ UNCHANGED <<ch, terminatedStage>> /\ outcome = "none" /\ outcome' = "error"
          /\ \E k \in Stages : terminatedStage[k] = "error"
      BY Zenon, <1>7, <1>i DEF ReturnError, ResultInv, OutcomeInv
    <2>2. PICK k \in Stages : terminatedStage[k] = "error"
      BY <2>1
    <2>3. phase[k] = "failed"
      BY ZenonT(30), <1>i, <2>2, PhaseDef DEF BaseInv, ChannelInv, Reported
    <2>4. Contract!GiveUp
      BY ZenonT(60), <1>5, <2>1, <2>3 DEF Contract!GiveUp
    <2> QED
      BY Zenon, <2>4 DEF Contract!Next
  <1>8. CASE ChannelClosed \/ DeleteStages \/ DeleteRoots
    BY Zenon, <1>4, <1>8 DEF ChannelClosed, DeleteStages, DeleteRoots
  <1>9. CASE AddTags \/ ReportImage
    <2>1. /\ UNCHANGED <<ch, terminatedStage>> /\ outcome' \in {outcome, "ok", "error"}
          /\ mpc \in {"tag", "report"}
      BY <1>9 DEF AddTags, ReportImage
    <2>2. outcome = "none" /\ AllSucceeded
      BY <1>i, <2>1 DEF ResultInv, OutcomeInv
    <2> QED
      BY ZenonT(60), <1>4, <1>6, <2>1, <2>2
  <1>10. CASE DeleteIntermediateCtrs \/ DeleteImages
    <2>1. /\ UNCHANGED <<ch, terminatedStage>> /\ outcome' \in {outcome, "error"}
          /\ mpc \in {"delCtrs", "delImages"}
      BY Zenon, <1>10 DEF DeleteIntermediateCtrs, DeleteImages
    <2>2. outcome \in {"none", "ok", "error"}
      BY <1>i DEF TypeInv, TypeOK
    <2>3. CASE outcome = "none"
      <3>1. AllSucceeded
        BY ZenonT(60), <1>i, <2>1, <2>3 DEF ResultInv, OutcomeInv
      <3> QED
        BY ZenonT(60), <1>4, <1>6, <2>1, <2>3, <3>1
    <2>4. CASE outcome = "error"
      BY ZenonT(60), <1>4, <2>1, <2>4
    <2>5. CASE outcome = "ok"
      <3>1. outcome' = outcome
        <4>1. CASE DeleteIntermediateCtrs /\ RemoveIntermediateCtrs
          <5>1. \A k \in stages : containerIDs[k] = {}
            BY ZenonT(60), <1>i, <2>5, <4>1 DEF ResultInv, TidyInv
          <5>2. UNION {{k} \X containerIDs[k] : k \in stages} = {}
            BY Zenon, <5>1
          <5> QED
            BY ZenonT(60), <4>1, <5>2 DEF DeleteIntermediateCtrs
        <4>2. CASE DeleteIntermediateCtrs /\ ~RemoveIntermediateCtrs
          BY Zenon, <4>2 DEF DeleteIntermediateCtrs
        <4>3. CASE DeleteImages
          <5>1. cleanupImages = << >>
            BY Zenon, <1>i, <2>5 DEF ResultInv, TidyInv
          <5>2. ImagesToRemove = {}
            BY <5>1 DEF ImagesToRemove
          <5> QED
            BY Zenon, <4>3, <5>2 DEF DeleteImages
        <4> QED
          BY ZenonT(60), <1>10, <4>1, <4>2, <4>3
      <3> QED
        BY ZenonT(60), <1>4, <2>1, <3>1
    <2> QED
      BY ZenonT(60), <2>2, <2>3, <2>4, <2>5
  <1> QED
    BY ZenonT(60), <1>2, <1>7, <1>8, <1>9, <1>10 DEF Main

\* The build begins as the contract does
LEMMA InitContract == Init => Contract!Init
  <1> SUFFICES ASSUME Init PROVE Contract!Init
    OBVIOUS
  <1>1. TypeInv
    BY InitType
  <1>2. [k \in Stages |-> Needs(file, k)] \in [Stages -> SUBSET Stages]
    BY Zenon, <1>1, NeedsStages
  <1>3. [k \in Stages |-> {file.base[k]} \ {Ext}] \in [Stages -> SUBSET Stages]
    BY Zenon, <1>1, NeedsStages DEF Needs
  <1>4. \A k \in Stages : Phase(k) = "pending"
    BY Zenon, PhaseDef DEF Init, Ended, Working
  <1> QED
    BY ZenonT(60), <1>2, <1>3, <1>4 DEF Init, Contract!Init

\* Every step is a step of the contract or none
LEMMA NextContract ==
  ASSUME ExecInv, ReadInv, [Next]_vars
  PROVE  [Contract!Next]_Contract!vars
  <1> USE DEF semVars, ctlVars, stageVars, regVars, rootVars, mainVars, storeVars, Goto
  <1>i. TypeInv /\ BaseInv
    BY Zenon DEF ExecInv
  <1>0. pc \in [Stages -> StagePC] /\ (next < NumStages => next \in Stages /\ pc[next] = "idle")
    BY <1>i, SizeAssumption DEF TypeInv, TypeOK, Stages, BaseInv, DispatchInv
  <1>1. CASE UNCHANGED <<file, pc, ch, terminatedStage, outcome>>
    <2>1. \A k \in Stages : Phase(k)' = Phase(k)
      BY <1>1 DEF Phase, Reported
    <2> QED
      BY ZenonT(60), <1>1, <2>1, ContractStutter
  <1>2. CASE Dispatch
    <2>1. UNCHANGED <<file, ch, terminatedStage, outcome>>
      BY Zenon, <1>2 DEF Dispatch
    <2>2. \A k \in Stages : k # next => pc'[k] = pc[k]
      BY Zenon, <1>0, <1>2 DEF Dispatch
    <2>3. ASSUME NEW k \in Stages PROVE Phase(k)' = Phase(k)
      <3>1. CASE k = next
        BY ZenonT(60), <1>0, <1>2, <3>1, PhaseKept DEF Dispatch, Ended, Working
      <3>2. CASE k # next
        <4>1. Reported(k, TRUE)' <=> Reported(k, TRUE)
          BY Zenon, <2>1 DEF Reported
        <4> QED
          BY ZenonT(60), <2>2, <3>2, <4>1, PhaseKept
      <3> QED
        BY <3>1, <3>2
    <2> QED
      BY ZenonT(60), <2>1, <2>3, ContractStutter
  <1>3. CASE DispatchFails
    <2>0. PICK i \in Stages : i = next
      BY <1>0, <1>3 DEF DispatchFails
    <2>1. /\ UNCHANGED <<file, terminatedStage, outcome>>
          /\ ch' = Append(ch, [index |-> i, image |-> NoImage, error |-> TRUE])
          /\ pc[i] = "idle" /\ pc'[i] = "done"
          /\ \A k \in Stages : k # i => pc'[k] = pc[k]
      BY ZenonT(60), <1>0, <1>3, <2>0 DEF DispatchFails, SendNotStarted, Send
    <2>2. /\ \A k \in Stages : k # i => (Reported(k, TRUE)' <=> Reported(k, TRUE))
          /\ Reported(i, TRUE)'
      BY ZenonT(30), <1>i, <2>1, ReportedAppend DEF Ended
    <2>3. Phase(i) = "pending" /\ Phase(i)' = "failed"
      BY ZenonT(60), <2>1, <2>2, PhaseDef, PhaseDefAfter DEF Ended, Working
    <2>4. \A k \in Stages : k # i => Phase(k)' = Phase(k)
      BY ZenonT(60), <2>1, <2>2, PhaseKept
    <2> QED
      BY ZenonT(60), <1>i, <2>1, <2>3, <2>4, ContractStep
  <1>4. CASE CancelContext \/ MapRace \/ UNCHANGED vars
    BY ZenonT(60), <1>1, <1>4 DEF CancelContext, MapRace, vars
  <1> QED
    BY ZenonT(60), <1>2, <1>3, <1>4, StageContract, MainContract DEF Next, Terminated

(***************************************************************************)
(* Polling, tokens, the channel and the two-part recording of errors        *)
(* implement the contract of a multi-stage build, for every number of       *)
(* stages and jobs, every Containerfile and every option: stages begin and  *)
(* end in dependency order, and Build's answer is right and final           *)
(* (executor.go:811-912).                                                   *)
(***************************************************************************)
THEOREM BuildImplementsContract == Spec => ImplementsContract
  <1>1. Spec => []ReadInv
    <2>1. TypeInv /\ BaseInv /\ ReadInv /\ [Next]_vars
            => TypeInv' /\ BaseInv' /\ ReadInv'
      BY ZenonT(60), NextType, NextBase, NextRead
    <2> QED
      BY InitType, InitBase, InitRead, <2>1, PTL DEF Spec
  <1>2. ExecInv /\ ReadInv /\ [Next]_vars => [Contract!Next]_Contract!vars
    BY NextContract
  <1> QED
    BY ExecAlways, InitContract, <1>1, <1>2, PTL DEF Spec, ImplementsContract, Contract!Spec
=============================================================================
