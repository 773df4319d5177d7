---------------------------- MODULE MCImageSource ----------------------------
(***************************************************************************)
(* Small instances of ImageSource: each scenario is about one part, so     *)
(* that chains of several images stay small.                               *)
(***************************************************************************)
EXTENDS ImageSource

Values(v) == [val |-> v, ref |-> ""]
Arg(form, k, v) == [form |-> form, key |-> k, value |-> Values(v)]
Refer(k, to) == [form |-> "set", key |-> k, value |-> [val |-> "", ref |-> to]]
Command(flags, history) == [flags |-> flags, history |-> history]

Plain == [squash |-> FALSE, empty |-> FALSE, omit |-> FALSE, comp |-> "none", fmt |-> "oci", unset |-> <<>>,
          named |-> TRUE, remote |-> FALSE]
Layers(n, known) == [i \in 1 .. n |-> [changes |-> <<-i>>, known |-> known, whole |-> TRUE]]
Pulled(n, known, history) ==
  [fmt |-> "docker", from |-> 0, named |-> TRUE, history |-> history, layers |-> Layers(n, known),
   config |-> [Unset EXCEPT !["arch"] = "armhf", !["env"] = <<<<"a", "1">>>>],
   docker |-> [UnsetDocker EXCEPT !["shell"] = <<"sh">>], ann |-> <<>>, lost |-> history = <<>>,
   wants |-> FlattenSeq([i \in 1 .. n |-> <<-i>>]), env |-> "a" :> "1"]
Full == <<Entry("layer", FALSE), Entry("env", TRUE), Entry("layer", FALSE)>>

\* Configurations: every flag and form, and images in both formats.
Edits == {
  Command("env" :> <<Arg("set", "b", "2"), Refer("a", "b"), Refer("b", "c")>>, TRUE),
  Command("env" :> <<Arg("unset", "a", ""), Arg("host", "h", "")>>, FALSE),
  Command("env" :> <<Arg("clear", "", ""), Arg("set", "a", "3")>> @@ "user" :> <<Arg("set", "", "u")>>, TRUE),
  Command("env" :> <<Arg("set", "a", "4"), Arg("host", "missing", "")>>, FALSE),
  Command("labels" :> <<Arg("set", "l", "1"), Arg("host", "m", "")>> @@ "annotation" :> <<Arg("set", "n", "1"), Arg("host", "m", "")>>
          @@ "ports" :> <<Arg("set", "p", ""), Arg("set", "q", "")>> @@ "volumes" :> <<Arg("set", "p", "")>>
          @@ "osfeatures" :> <<Arg("set", "p", ""), Arg("set", "p", "")>>, FALSE),
  Command("labels" :> <<Arg("unset", "l", "")>> @@ "ports" :> <<Arg("unset", "p", "")>>
          @@ "osfeatures" :> <<Arg("unset", "p", ""), Arg("set", "q", "")>>
          @@ "annotation" :> <<Arg("unset", "n", "")>> @@ "arch" :> <<Arg("set", "", "armhf")>>
          @@ "variant" :> <<Arg("set", "", "")>>, FALSE),
  Command("labels" :> <<Arg("clear", "", "")>> @@ "ports" :> <<Arg("clear", "", "")>>
          @@ "annotation" :> <<Arg("clear", "", "")>> @@ "osfeatures" :> <<Arg("clear", "", "")>>
          @@ "volumes" :> <<Arg("set", "q", ""), Arg("unset", "p", "")>>, TRUE),
  Command("cmd" :> <<Arg("set", "", "c")>> @@ "entrypoint" :> <<Arg("bad", "", "e")>>
          @@ "healthcheck" :> <<Arg("set", "", "t")>> @@ "shell" :> <<Arg("set", "", "s")>>
          @@ "hostname" :> <<Arg("set", "", "h")>> @@ "onbuild" :> <<Arg("set", "", "x"), Arg("set", "", "y")>>, TRUE),
  Command("user" :> <<Arg("set", "", "w")>> @@ "cmd" :> <<Arg("bad", "", "c")>>, FALSE),
  Command("entrypoint" :> <<Arg("set", "", "")>> @@ "healthcheck" :> <<Arg("bad", "", "t")>>, TRUE) }

Formats == {[Plain EXCEPT !.fmt = f, !.unset = u] : f \in {"oci", "docker"}, u \in {<<>>, <<"a">>}}

Configuring == [bases |-> <<Pulled(1, TRUE, <<Entry("layer", FALSE)>>)>>, configs |-> Edits, commits |-> Formats,
                max |-> 3]

\* Layers: base images with and without known digests, and every way to commit.
Commits == {[Plain EXCEPT !.squash = s, !.empty = e, !.comp = c] : s, e \in BOOLEAN, c \in {"none", "gzip", "zstd"}}
           \cup {[Plain EXCEPT !.fmt = "v1"], [Plain EXCEPT !.remote = TRUE, !.comp = "gzip"]}
Layering(known) == [bases |-> <<Pulled(2, known, Full)>>, configs |-> {}, commits |-> Commits,
                    max |-> 3]

\* History: chains of images.
Histories == {[Plain EXCEPT !.squash = s, !.empty = e, !.omit = o] : s, e, o \in BOOLEAN}
Noted1 == Command("user" :> <<Arg("set", "", "u")>>, TRUE)
Chains == [bases |-> <<Pulled(2, TRUE, Full)>>, configs |-> {Noted1}, commits |-> Histories,
           max |-> 4]
Naming == [bases |-> <<Pulled(1, TRUE, <<Entry("layer", FALSE)>>)>>, configs |-> {}, max |-> 4,
           commits |-> {[Plain EXCEPT !.named = n, !.fmt = f] : n \in BOOLEAN, f \in {"oci", "docker"}}]
NoHistories == [bases |-> <<Pulled(1, TRUE, <<>>)>>, configs |-> {}, commits |-> {Plain},
                max |-> 3]

MCScenarios == {Configuring, Layering(TRUE), Layering(FALSE), Chains, Naming}
MCLost == {NoHistories}
MCHostEnv == "h" :> "host"
MCShorthand == "armhf" :> [arch |-> "arm", variant |-> "v7"]
=============================================================================
