------------------------ MODULE MCStageDependencies ------------------------
(***************************************************************************)
(* Containerfiles of three stages.  Numerals are 0..3; stages 0, 1 and 2   *)
(* may be named 4, 5 and 6; 7 is an image, 8 the image of the contexts 5   *)
(* and 9.                                                                  *)
(***************************************************************************)
EXTENDS StageDependencies, TLC

AllWords == 0 .. 9
Stage0 == 4
Stage1 == 5
Stage2 == 6
AnImage == 7
AContext == 9
NoContexts == [w \in {} |-> 0]
TwoContexts == (Stage1 :> 8) @@ (AContext :> 8)
NotGiven == 10
NoOverride == {NotGiven}
Overrides == {NotGiven, AnImage}

R(kind, word, arg) == [kind |-> kind, word |-> word, arg |-> arg]
Refs(kinds, words, args) == {R(k, w, a) : k \in kinds, w \in words, a \in args}

\* Stages 0 and 1 may have a name or not
Names == {f \in [Stages -> AllWords] : /\ \A j \in Stages : f[j] \in {j, 4 + j}
                                       /\ f[2] = Stage2}

\* One FROM and at most one other reference
Bodies(froms, reads) ==
    {<<f>> : f \in froms} \cup {<<f, r>> : f \in froms, r \in reads}

File(nm, b0, b1, b2) ==
    [name |-> nm, refs |-> (0 :> b0) @@ (1 :> b1) @@ (2 :> b2)]

\* References by word, and references some of which are arguments
WordFiles ==
    UNION {{File(nm, <<R("FROM", AnImage, FALSE)>>, b1, b2) :
               b1 \in Bodies(Refs({"FROM"}, {nm[0], nm[1], AContext}, {FALSE}),
                             Refs({"COPY", "RUN"}, {nm[0], nm[2]}, {FALSE})
                                 \cup Refs({"COPY"}, {0, 1, 2}, {FALSE})),
               b2 \in Bodies(Refs({"FROM"}, {nm[0], nm[1], nm[2]}, {FALSE}),
                             Refs({"COPY", "RUN"}, {nm[0], nm[1], AContext}, {FALSE})
                                 \cup Refs({"COPY"}, {0, 1}, {FALSE}))} : nm \in Names}

ArgFiles ==
    UNION {{File(nm, <<R("FROM", nm[0], FALSE)>>, b1, b2) :
               b1 \in Bodies(Refs({"FROM"}, {nm[0]}, BOOLEAN),
                             Refs({"COPY", "RUN"}, {AnImage, AContext}, {TRUE})),
               b2 \in Bodies(Refs({"FROM"}, {nm[0], nm[1]} \ DOMAIN Contexts, BOOLEAN),
                             Refs({"RUN"}, {nm[0], nm[1]}, {FALSE})
                                 \cup Refs({"COPY"}, {0, 1}, {FALSE})
                                 \cup Refs({"COPY"}, {3}, BOOLEAN))} : nm \in Names}

\* The Containerfiles whose references scanning and running resolve alike
PlainFiles ==
    {f \in WordFiles \cup ArgFiles :
        ContextsApart(f) /\ \A o \in FromOverrides : ResolvedAlike(f, o)}
============================================================================
