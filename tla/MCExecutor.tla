---------------------------- MODULE MCExecutor ----------------------------
(***************************************************************************)
(* Builds of up to three stages for Executor.                               *)
(***************************************************************************)
EXTENDS Executor

\* Every base, and at most one read per stage
SmallReads(i) == {<< >>} \cup {<<n>> : n \in (0 .. i - 1) \cup {Ext}}

AllContainerfiles ==
    {f \in [base : [Stages -> Names],
            reads : [Stages -> UNION {SmallReads(i) : i \in Stages}],
            steps : [Stages -> BOOLEAN]] : IsContainerfile(f)}

\* The stage in the middle may be a mere FROM
MiddleMayBeEmpty == {f \in AllContainerfiles : \A i \in Stages \ {1} : f.steps[i]}

\* No stage is a mere FROM
BuildsWithSteps == {f \in AllContainerfiles : \A i \in Stages : f.steps[i]}

\* Every stage but the first refers to an earlier one
LinkedBuilds == {f \in BuildsWithSteps : \A i \in 1 .. Last : Needs(f, i) # {}}

\* Two stages at work at the same time read the same image, the last one before
\* it reads the other stage
SharedReads ==
    {[base |-> [i \in Stages |-> Ext],
      reads |-> [i \in Stages |-> IF i = Last THEN <<Ext, Last - 1>> ELSE r[i]],
      steps |-> [i \in Stages |-> TRUE]] :
        r \in {[i \in Stages |-> IF i = 0 THEN << >> ELSE <<Ext>>],
              [i \in Stages |-> IF i = 0 THEN << >> ELSE <<0, Ext>>]}}

\* The first stage only works, the others refer to earlier ones
ContractBuilds == {f \in LinkedBuilds : f.reads[0] = << >>} \cup SharedReads
=============================================================================
