---------------------------- MODULE MCRunMounts -----------------------------
(* Two stages of one build and a `buildah run` of another process. *)
EXTENDS RunMounts, TLC

T(k, v) == [k |-> k, v |-> v]
F(k) == T(k, NoArg)

Bind(dst) == <<T("type", "bind"), T("target", dst)>>
FromImage(dst) == <<T("type", "bind"), T("from", "img"), T("target", dst)>>
Locked(id, dst) == <<T("type", "cache"), T("id", id), T("target", dst), T("sharing", "locked")>>
StageCache(dst) == <<T("type", "cache"), T("from", "base"), T("target", dst), T("sharing", "locked")>>
EnvSecret == <<T("type", "secret"), T("id", "env")>>
Agent == <<T("type", "ssh")>>
Tmpfs(dst) == <<T("type", "tmpfs"), T("target", dst)>>

Vol(dst, o) == [dest |-> Path(dst), overlay |-> o]
\* A RUN of a build, and a `buildah run`.
RUN(mounts) == [mounts |-> mounts, cmdMounts |-> <<>>, volumes |-> <<>>,
                builtins |-> <<>>, contextDir |-> TRUE]
Cmd(mounts, volumes) == [mounts |-> <<>>, cmdMounts |-> mounts, volumes |-> volumes,
                         builtins |-> <<>>, contextDir |-> FALSE]
Overlay(r, dst) == [r EXCEPT !.volumes = <<Vol(dst, TRUE)>>, !.builtins = <<Path("/v")>>]

Work(a, b, c) == [t \in {"t1", "t2", "t3"} |->
                    CASE t = "t1" -> a [] t = "t2" -> b [] OTHER -> c]

\* Caches contended for by stages and a command, with secrets, agents and
\* overlays at stake when a set-up fails half way.
MCWorkloads ==
  { Work(<<RUN(<<Locked("a", "/a"), EnvSecret>>), RUN(<<Agent, Tmpfs("/t")>>)>>,
         <<RUN(<<Locked("a", "/b"), Locked("b", "/c")>>)>>,
         <<Cmd(<<Locked("b", "/a")>>, <<Vol("/o", TRUE)>>)>>),
    Work(<<Overlay(RUN(<<Agent, Agent, Bind("/o")>>), "/o")>>,
         <<RUN(<<StageCache("/a"), EnvSecret>>)>>,
         <<Cmd(<<StageCache("/b")>>, <<>>)>>),
    Work(<<RUN(<<FromImage("/i"), Locked("a", "/a")>>), RUN(<<EnvSecret>>)>>,
         <<RUN(<<Locked("a", "/a")>>)>>,
         <<Cmd(<<FromImage("/i"), Tmpfs("/t")>>, <<Vol("/t", FALSE)>>)>>),
    Work(<<RUN(<<<<T("type", "secret"), F("id")>>>>)>>,
         <<RUN(<<<<T("type", "cache"), F("sharing")>>>>)>>,
         <<Cmd(<<Agent \o <<T("target", "/s")>>>>, <<>>)>>),
    Work(<<RUN(<<Tmpfs("/t"), <<T("target", "/u"), T("tmpfs-size", "1")>>>>)>>,
         <<RUN(<<<<T("type", "cache"), T("target", "/a"), F("rw"), T("sharing", "locked")>>>>)>>,
         <<Cmd(<<<<T("type", "bind"), T("from", "img"), T("dst", "x")>>>>, <<>>)>>) }

MCContent == {Path("/a")}
MCSecrets == [id \in {"env", "file"} |-> id]
MCProcOf == [t \in {"t1", "t2", "t3"} |-> IF t = "t3" THEN "run" ELSE "build"]
MCCtrOf == [t \in {"t1", "t2", "t3"} |-> CASE t = "t1" -> "c1" [] t = "t2" -> "c2" [] OTHER -> "c3"]
==============================================================================
