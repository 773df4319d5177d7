--------------------------- MODULE BuildContract ---------------------------
(***************************************************************************)
(* What Executor.Build promises about a multi-stage build, with no          *)
(* goroutines, polling, tokens or channels: a stage begins when its base    *)
(* stage has ended, ends when every stage it reads has ended, and the build *)
(* returns an image only when every stage was built, and an error only when *)
(* one failed or when all are built and finishing the build fails.          *)
(***************************************************************************)
EXTENDS Naturals

CONSTANT Stages

VARIABLES
    base,    \* the stages each stage has to wait for before it begins
    needs,   \* the stages each stage has to wait for before it is built
    phase,
    verdict

vars == <<base, needs, phase, verdict>>

Ended(i) == phase[i] \in {"built", "failed"}
Move(i, to) == phase' = [phase EXCEPT ![i] = to]

Init ==
    /\ base \in [Stages -> SUBSET Stages]
    /\ needs \in [Stages -> SUBSET Stages]
    /\ phase = [i \in Stages |-> "pending"]
    /\ verdict = "none"

Begin(i) ==
    /\ phase[i] = "pending" /\ \A j \in base[i] : Ended(j)
    /\ Move(i, "working")
    /\ UNCHANGED <<base, needs, verdict>>

\* The target does not need the stage
Skip(i) ==
    /\ phase[i] = "pending"
    /\ Move(i, "built")
    /\ UNCHANGED <<base, needs, verdict>>

Finish(i) ==
    /\ phase[i] = "working" /\ \A j \in needs[i] : Ended(j)
    /\ Move(i, "built")
    /\ UNCHANGED <<base, needs, verdict>>

Fail(i) ==
    /\ phase[i] \in {"pending", "working"}
    /\ Move(i, "failed")
    /\ UNCHANGED <<base, needs, verdict>>

Succeed ==
    /\ verdict = "none" /\ \A i \in Stages : phase[i] = "built"
    /\ verdict' = "ok"
    /\ UNCHANGED <<base, needs, phase>>

GiveUp ==
    /\ verdict = "none"
    /\ \/ \E i \in Stages : phase[i] = "failed"
       \/ \A i \in Stages : phase[i] = "built"
    /\ verdict' = "error"
    /\ UNCHANGED <<base, needs, phase>>

Next ==
    \/ \E i \in Stages : Begin(i) \/ Skip(i) \/ Finish(i) \/ Fail(i)
    \/ Succeed
    \/ GiveUp

Spec == Init /\ [][Next]_vars
=============================================================================
