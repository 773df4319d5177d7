---------------------------- MODULE MCLayerCache ----------------------------
(***************************************************************************)
(* Instances of LayerCache: Containerfiles of two or three instructions,   *)
(* and the option sets of the runs.                                        *)
(***************************************************************************)
EXTENDS LayerCache

CONSTANTS b1, b2, m1, m2

TwoBuilders == {b1, b2}
TwoMachines == {m1, m2}
SharedStore == {[b \in Builders |-> m1]}
OwnStore == {h \in [Builders -> Machines] : h[b1] # h[b2]}

Arg == [op |-> "ARG", var |-> "k", text |-> "-"]
Env(var, text) == [op |-> "ENV", var |-> var, text |-> text]
RunIns == [op |-> "RUN", var |-> "-", text |-> "-"]
Copy(text) == [op |-> "COPY", var |-> "-", text |-> text]

\* No word of a COPY or of the configuration refers to the argument, except an
\* ENV of the argument itself that a RUN follows
RemoteFiles == {<<Arg, RunIns>>, <<Copy("lit"), RunIns>>}
MixedFiles == {<<Arg, RunIns>>, <<Env("h", "lit"), RunIns>>, <<Env("h", "lit"), Copy("lit")>>}
OverrideFiles == {<<Arg, Env("k", ArgRef), RunIns>>}
ArgFiles == {<<Arg, Env("e", ArgRef)>>, <<Arg, Copy(ArgRef)>>}

Opts(ls, cs, sqs, ts, fr, to, fs) ==
    [layers : ls, useCache : cs, squash : sqs, timestamp : ts,
     cacheFrom : fr, cacheTo : to, format : fs]
MixedOptions == Opts({TRUE}, {TRUE}, {FALSE}, {TRUE}, {FALSE}, {FALSE}, {"oci", "docker"})
                  \cup Opts({TRUE}, {FALSE}, {TRUE}, {TRUE}, {FALSE}, {FALSE}, {"docker"})
                  \cup Opts({FALSE}, {FALSE}, {FALSE}, {TRUE}, {FALSE}, {FALSE}, {"docker"})
RemoteOptions == Opts({TRUE}, {TRUE}, {FALSE}, {FALSE}, {TRUE}, {TRUE}, {"oci"})
AllOptions == MixedOptions \cup RemoteOptions

\* Two builds at a time on one store, builds in turn on one store whose ENV
\* takes over the argument, and builds in turn on two machines
MCWorlds ==
    [shared |-> [homes |-> SharedStore, files |-> MixedFiles, contents |-> {"c1"},
                 options |-> AllOptions, overlap |-> TRUE, mayFail |-> TRUE, mayPrune |-> TRUE,
                 maxBuilds |-> 2],
     override |-> [homes |-> SharedStore, files |-> OverrideFiles, contents |-> {"c1"},
                   options |-> MixedOptions, overlap |-> FALSE, mayFail |-> TRUE, mayPrune |-> TRUE,
                   maxBuilds |-> 2],
     remote |-> [homes |-> OwnStore, files |-> RemoteFiles, contents |-> {"c1", "c2"},
                 options |-> RemoteOptions, overlap |-> FALSE, mayFail |-> FALSE, mayPrune |-> FALSE,
                 maxBuilds |-> 3]]

\* Builds in turn whose words refer to the argument: CacheTransparent is false
ArgWorlds ==
    [args |-> [MCWorlds.remote EXCEPT !.homes = SharedStore, !.files = ArgFiles,
                                      !.contents = {"c1"}, !.maxBuilds = 2]]

BuilderSymmetry == Permutations(Builders)
=============================================================================
