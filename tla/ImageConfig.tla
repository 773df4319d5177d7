----------------------------- MODULE ImageConfig -----------------------------
(***************************************************************************)
(* The configuration of a working container, which a Builder keeps twice:  *)
(* as OCI image configuration (o) and as Docker image configuration (d),   *)
(* so that it can be committed in either format.  Every setter changes     *)
(* both, or only d where OCI has no such setting; annotations belong to    *)
(* OCI manifests only.  "buildah config" applies its flags in one order,   *)
(* whatever the order on the command line.                                 *)
(*                                                                         *)
(* A setting stands for those that are stored in the same way: "user" for  *)
(* the plain values, for example.                                          *)
(***************************************************************************)
EXTENDS SequencesExt

CONSTANTS HostEnv,    \* the environment of the buildah process
          HostArch,   \* runtime.GOARCH
          Shorthand   \* names that stand for an architecture and a variant

Shared == {"arch", "variant", "user", "cmd", "entrypoint", "env", "labels", "ports",
           "volumes", "osfeatures"}
DockerOnly == {"shell", "onbuild", "healthcheck", "hostname"}

\* A history entry names the instruction that made it.
Entry(by, empty) == [by |-> by, empty |-> empty]

Unset == [f \in Shared |-> CASE f \in {"env", "cmd", "entrypoint", "labels", "osfeatures"} -> <<>>
                             [] f \in {"ports", "volumes"} -> {}
                             [] OTHER -> ""]
UnsetDocker == [f \in DockerOnly |-> IF f \in {"onbuild", "shell"} THEN <<>> ELSE ""]

-----------------------------------------------------------------------------
(* The setters of Builder.                                                 *)

Both(b, f, Edit(_)) == [b EXCEPT !.o[f] = Edit(@), !.d[f] = Edit(@)]

Set(b, f, v) == Both(b, f, LAMBDA old : v)
SetDocker(b, f, v) == [b EXCEPT !.d[f] = v]

Without(env, k) == SelectSeq(env, LAMBDA e : e[1] # k)
SetEnv(b, k, v) == Both(b, "env", LAMBDA env : Append(Without(env, k), <<k, v>>))

\* Variant: only the OCI configuration loses the variable
UnsetEnvOnce(b, k) == [b EXCEPT !.o["env"] = Without(@, k)]

UnsetEnv(b, k) == Both(b, "env", LAMBDA env : Without(env, k))

SetLabel(b, k, v) == Both(b, "labels", LAMBDA m : (k :> v) @@ m)
UnsetLabel(b, k) == Both(b, "labels", LAMBDA m : [x \in DOMAIN m \ {k} |-> m[x]])
\* Ports and volumes are sets; an OS feature is listed once.
AddTo(b, f, x) == Both(b, f, LAMBDA s : s \cup {x})
RemoveFrom(b, f, x) == Both(b, f, LAMBDA s : s \ {x})
SetOSFeature(b, x) == Both(b, "osfeatures", LAMBDA s : IF Contains(s, x) THEN s ELSE Append(s, x))
UnsetOSFeature(b, x) == Both(b, "osfeatures", LAMBDA s : SelectSeq(s, LAMBDA y : y # x))

SetOnBuild(b, v) == SetDocker(b, "onbuild", Append(b.d["onbuild"], v))
SetShell(b, v) == SetDocker(b, "shell", <<v>>)
SetHealthcheck(b, v) == SetDocker(b, "healthcheck", v)

SetAnnotation(b, k, v) == [b EXCEPT !.ann = (k :> v) @@ @]
UnsetAnnotation(b, k) == [b EXCEPT !.ann = [x \in DOMAIN @ \ {k} |-> @[x]]]

AddPrependedEmptyLayer(b, by) == [b EXCEPT !.pre = Append(@, Entry(by, TRUE))]

-----------------------------------------------------------------------------
(* initConfig and fixupConfig.                                             *)

NormalizePlatform(b) ==
  IF b.o["arch"] \in DOMAIN Shorthand
  THEN LET to == Shorthand[b.o["arch"]]
       IN Set(Set(b, "arch", to.arch), "variant", to.variant)
  ELSE b

\* Every opening of a container does this again.
fixupConfig(b) ==
  LET arch == IF b.o["arch"] = "" THEN NormalizePlatform(Set(b, "arch", HostArch)) ELSE b
      variant == IF arch.o["variant"] = "" THEN NormalizePlatform(arch) ELSE arch
  IN IF variant.fmt = "docker" /\ variant.d["hostname"] = ""
     THEN SetDocker(variant, "hostname", "random") ELSE variant

\* An image of one format is converted to the other: what is in one only is lost.
Docker(img) == img.config @@ (IF img.fmt = "docker" THEN img.docker ELSE UnsetDocker)

\* Variant: annotations of the base image win
AnnotationsOver(ann, img) == IF img.fmt = "oci" THEN img.ann @@ ann ELSE ann

Annotations(ann, img) ==
  IF img.fmt = "oci"
  THEN [k \in DOMAIN ann \cup DOMAIN img.ann |-> IF k \in DOMAIN ann /\ ann[k] # "" THEN ann[k] ELSE img.ann[k]]
  ELSE ann

initConfig(b, img) ==
  fixupConfig([b EXCEPT !.o = img.config, !.d = Docker(img), !.ann = Annotations(@, img), !.hist = img.history])

-----------------------------------------------------------------------------
(* updateConfig.  A command maps each flag that was given to its           *)
(* arguments; an argument [form, key, value] is of the form "set",         *)
(* "unset" (a trailing dash), "clear" (a dash), "host" (no value) or       *)
(* "bad" (it cannot be parsed).                                            *)

FlagOrder == <<"arch", "variant", "osfeatures", "user", "shell", "ports", "env", "entrypoint", "cmd",
               "volumes", "healthcheck", "labels", "hostname", "onbuild", "annotation">>
NoHistory == {"arch", "variant", "osfeatures", "hostname", "annotation"}

\* os.Expand, with the value a variable has by then, or else its name.
Expand(b, v) ==
  IF v.ref = "" THEN v.val
  ELSE LET known == SelectSeq(b.o["env"], LAMBDA e : e[1] = v.ref)
       IN IF known = <<>> THEN v.ref ELSE known[1][2]

EnvFlag(b, a) ==
  CASE a.form = "set"   -> SetEnv(b, a.key, Expand(b, a.value))
    [] a.form = "unset" -> UnsetEnv(b, a.key)
    [] a.form = "clear" -> Set(b, "env", <<>>)
    [] a.form = "host" /\ a.key \in DOMAIN HostEnv -> SetEnv(b, a.key, HostEnv[a.key])
    [] OTHER -> [b EXCEPT !.err = TRUE]

LabelFlag(b, a) ==
  CASE a.form = "set" -> SetLabel(b, a.key, a.value.val)
    [] a.form = "unset" -> UnsetLabel(b, a.key)
    [] a.form = "clear" -> Set(b, "labels", <<>>)
    [] OTHER -> SetLabel(b, a.key, "")

SetFlag(b, f, a) ==
  CASE a.form = "unset" -> RemoveFrom(b, f, a.key)
    [] a.form = "clear" -> Set(b, f, {})
    [] OTHER -> AddTo(b, f, a.key)

OSFeatureFlag(b, a) ==
  CASE a.form = "unset" -> UnsetOSFeature(b, a.key)
    [] a.form = "clear" -> Set(b, "osfeatures", <<>>)
    [] OTHER -> SetOSFeature(b, a.key)

AnnotationFlag(b, a) ==
  CASE a.form = "set" -> SetAnnotation(b, a.key, a.value.val)
    [] a.form = "unset" -> UnsetAnnotation(b, a.key)
    [] a.form = "clear" -> [b EXCEPT !.ann = <<>>]
    [] OTHER -> SetAnnotation(b, a.key, "")

\* The command line of an entry point is not looked at for errors; a test
\* without words removes the health check.
updateCmd(b, a) == IF a.form = "bad" THEN [b EXCEPT !.err = TRUE]
                   ELSE Set(b, "cmd", IF a.value.val = "" THEN <<>> ELSE <<a.value.val>>)
updateEntrypoint(b, a) ==
  Set(b, "entrypoint", IF a.value.val = "" THEN <<>>
                       ELSE IF a.form = "bad" THEN <<"/bin/sh", "-c", a.value.val>> ELSE <<a.value.val>>)
updateHealthcheck(b, a) == IF a.form = "bad" THEN [b EXCEPT !.err = TRUE]
                           ELSE SetHealthcheck(b, a.value.val)
ShellFlag(b, a) == IF a.form = "bad" THEN [b EXCEPT !.err = TRUE]
                   ELSE SetShell(b, a.value.val)

FlagValue(b, flag, a) ==
  CASE flag = "env" -> EnvFlag(b, a)
    [] flag = "labels" -> LabelFlag(b, a)
    [] flag \in {"ports", "volumes"} -> SetFlag(b, flag, a)
    [] flag = "osfeatures" -> OSFeatureFlag(b, a)
    [] flag = "annotation" -> AnnotationFlag(b, a)
    [] flag = "cmd" -> updateCmd(b, a)
    [] flag = "entrypoint" -> updateEntrypoint(b, a)
    [] flag = "healthcheck" -> updateHealthcheck(b, a)
    [] flag = "shell" -> ShellFlag(b, a)
    [] flag = "hostname" -> SetDocker(b, flag, a.value.val)
    [] flag = "onbuild" -> SetOnBuild(b, a.value.val)
    [] OTHER -> Set(b, flag, a.value.val)

\* One history entry for a flag, but one for each ONBUILD or VOLUME.  The one for the
\* environment is added whether or not there was such a flag.
conditionallyAddHistory(b, cmd, flag, args) ==
  IF ~cmd.history \/ flag \in NoHistory \/ b.err THEN b
  ELSE IF flag \in {"onbuild", "volumes"} THEN FoldLeft(LAMBDA x, a : AddPrependedEmptyLayer(x, flag), b, args)
  ELSE IF flag = "env" \/ args # <<>> THEN AddPrependedEmptyLayer(b, flag) ELSE b

Args(cmd, flag) == IF flag \in DOMAIN cmd.flags THEN cmd.flags[flag] ELSE <<>>
updateFlag(b, cmd, flag) ==
  LET set(x, a) == IF x.err THEN x ELSE FlagValue(x, flag, a)
  IN conditionallyAddHistory(FoldLeft(set, b, Args(cmd, flag)), cmd, flag, Args(cmd, flag))

updateConfig(b, cmd) == FoldLeft(LAMBDA x, flag : IF x.err THEN x ELSE updateFlag(x, cmd, flag), b, FlagOrder)

-----------------------------------------------------------------------------
(* What "--env" is to do, as a map.                                        *)

EnvMap(env) == [k \in {env[i][1] : i \in DOMAIN env} |-> env[CHOOSE i \in DOMAIN env : env[i][1] = k][2]]

\* The value of every variable after the arguments args.
EnvAfter(old, args) ==
  LET step(m, a) ==
        LET known(k) == IF k \in DOMAIN m THEN m[k] ELSE k
        IN CASE a.form = "clear" -> <<>>
             [] a.form = "unset" -> [k \in DOMAIN m \ {a.key} |-> m[k]]
             [] a.form = "host" -> (a.key :> HostEnv[a.key]) @@ m
             [] OTHER -> (a.key :> IF a.value.ref = "" THEN a.value.val ELSE known(a.value.ref)) @@ m
  IN FoldLeft(step, old, args)
=============================================================================
