------------------------------ MODULE MCAddCopy ------------------------------
(***************************************************************************)
(* Small instances of AddCopy: a handful of stages, each with a few        *)
(* instructions and a context of some files.                               *)
(***************************************************************************)
EXTENDS AddCopy

Names == <<"a", "b", "c", "d", "download", "e", "l", "v", "w">>

Dir(m) == Node("dir", m, 0, 0)
File(d) == Node("file", 644, 3, d)
Root == <<>> :> Dir(755)
D == <<"d">>
V == <<"v">>

\* Context: d holds files a and b (one file with two names), c and a
\* directory e with a file; l is a link to d.
Context ==
  Root @@ (D :> [Dir(711) EXCEPT !.owner = 3]) @@ (<<"d", "a">> :> File(1)) @@ (<<"d", "b">> :> File(1))
       @@ (<<"d", "e">> :> [Dir(750) EXCEPT !.owner = 3]) @@ (<<"d", "e", "c">> :> File(2))
       @@ (<<"l">> :> Symlink(FALSE, D))
Small == Root @@ (<<"a">> :> File(1)) @@ (<<"b">> :> File(2))
Special == Root @@ (D :> Dir(755)) @@ (<<"d", "a">> :> Node("dev", 600, 0, 0))
                @@ (<<"d", "b">> :> Node("socket", 600, 0, 0)) @@ (<<"d", "c">> :> File(2))
                @@ (<<"d", "l">> :> Symlink(TRUE, <<"c">>))
Archive == Root @@ (<<"a">> :> Node("archive", 644, 3, 1))

Entry(n, t, d, o) == [name |-> n, type |-> t, data |-> d, abs |-> FALSE, to |-> <<>>, owner |-> o,
                      mode |-> IF t = "dir" THEN 750 ELSE 640, whole |-> TRUE]
Entries == <<Entry(<<"e">>, "dir", 0, 0), Entry(<<"e", "c">>, "file", 4, 5),
             [Entry(<<"b">>, "hard", 4, 5) EXCEPT !.to = <<"e", "c">>]>>

\* The container: a directory w, and v.
Rootfs == Root @@ (<<"w">> :> [Dir(711) EXCEPT !.owner = 2]) @@ (<<"w", "a">> :> Node("file", 600, 2, 5))
ReadOnly == Root @@ (<<"w">> :> Dir(555)) @@ (<<"w", "a">> :> Dir(555))
Linked == Root @@ (<<"w">> :> Dir(755)) @@ (<<"l">> :> Symlink(TRUE, <<"w">>))

Local(g) == [remote |-> FALSE, glob |-> g, chunked |-> FALSE]
URL(n, chunked) == [remote |-> TRUE, glob |-> <<n>>, chunked |-> chunked]
Copy(sources, dest, slash) ==
  [op |-> "COPY", sources |-> sources, dest |-> dest, slash |-> slash, extract |-> FALSE,
   chown |-> NoOwner, preserve |-> FALSE, chmod |-> NoOwner, dry |-> FALSE, excludes |-> <<>>,
   srcmap |-> <<>>, path |-> <<>>]
VOLUME(p) == [Copy(<<>>, <<>>, FALSE) EXCEPT !.op = "VOLUME", !.path = p]
RUN == [Copy(<<>>, <<>>, FALSE) EXCEPT !.op = "RUN"]
Pattern(neg, p) == [neg |-> neg, path |-> p]

Stage(prog, context, rootfs) ==
  [prog |-> prog, src |-> context, tree |-> rootfs, destmap |-> <<>>, sub |-> TRUE, userns |-> FALSE,
   overlay |-> FALSE, archives |-> <<Entries>>]

\* Sources and destinations of every form.
Forms == {
  Stage(<<Copy(<<Local(D)>>, <<"w">>, FALSE)>>, Context, Rootfs),
  Stage(<<Copy(<<Local(<<"l">>)>>, <<"v", "e">>, TRUE)>>, Context, Rootfs),
  Stage(<<Copy(<<Local(<<"a">>)>>, <<"w", "a">>, FALSE)>>, Small, Rootfs),
  Stage(<<Copy(<<Local(<<"a">>)>>, <<"w">>, FALSE)>>, Small, Rootfs),
  Stage(<<Copy(<<Local(<<"a">>)>>, <<"v">>, FALSE)>>, Small, Rootfs),
  Stage(<<Copy(<<Local(<<Star>>), Local(<<"c", Star>>)>>, <<"v">>, TRUE)>>, Small, Rootfs),
  Stage(<<Copy(<<Local(<<"a">>), Local(<<"b">>)>>, <<"w", "a">>, FALSE)>>, Small, Rootfs),
  Stage(<<Copy(<<Local(<<"c">>)>>, <<"v">>, FALSE)>>, Small, Rootfs),
  Stage(<<Copy(<<Local(D)>>, <<"l", "e">>, FALSE)>>, Context, Linked),
  Stage(<<Copy(<<Local(D)>>, <<"w">>, FALSE)>>, Special, Rootfs) }

\* Options.
Excluding(pats) == [Copy(<<Local(<<>>)>>, <<"w">>, FALSE) EXCEPT !.excludes = pats]
Optional == {
  Stage(<<Excluding(<<Pattern(FALSE, <<"d", "e">>)>>)>>, Context, Rootfs),
  Stage(<<Excluding(<<Pattern(FALSE, D), Pattern(TRUE, <<"d", "e">>)>>)>>, Context, Rootfs),
  Stage(<<[Excluding(<<Pattern(FALSE, <<Star>>), Pattern(TRUE, <<"d", "e", "c">>)>>)
             EXCEPT !.sources = <<Local(<<Star>>)>>]>>, Context, Rootfs),
  Stage(<<[Excluding(<<Pattern(FALSE, D)>>) EXCEPT !.sources = <<Local(D)>>]>>, Context, Rootfs),
  Stage(<<[Copy(<<Local(D)>>, <<"w">>, FALSE) EXCEPT !.chown = 4, !.chmod = 700]>>, Context, Rootfs),
  [Stage(<<[Copy(<<Local(D)>>, <<"v">>, FALSE) EXCEPT !.preserve = TRUE, !.srcmap = (3 :> 1)]>>, Context, Rootfs)
     EXCEPT !.destmap = (0 :> 100) @@ (1 :> 101)],
  [Stage(<<Copy(<<Local(D)>>, <<"w">>, FALSE)>>, Special, Rootfs) EXCEPT !.userns = TRUE],
  [Stage(<<Copy(<<Local(<<Star>>)>>, <<"w", "a">>, TRUE)>>, Small, ReadOnly) EXCEPT !.sub = FALSE],
  [Stage(<<Copy(<<Local(D)>>, <<"w", "e">>, FALSE)>>, Context, Root @@ (<<"w">> :> Dir(755))) EXCEPT !.sub = FALSE],
  Stage(<<[Copy(<<Local(<<"a">>)>>, <<"w">>, FALSE) EXCEPT !.extract = TRUE]>>, Archive, Rootfs),
  Stage(<<[Copy(<<Local(D)>>, <<"w">>, FALSE) EXCEPT !.dry = TRUE], Copy(<<Local(D)>>, <<"w">>, FALSE)>>,
        Context, Rootfs),
  Stage(<<Copy(<<URL("a", TRUE)>>, <<"w">>, TRUE)>>, Small, Rootfs),
  Stage(<<[Copy(<<URL("a", FALSE), Local(<<"b">>)>>, <<>>, TRUE) EXCEPT !.chown = 4]>>, Small, Rootfs),
  Stage(<<Copy(<<URL("a", TRUE)>>, <<"v">>, FALSE)>>, Small, Rootfs) }

\* Volumes: declared before and after a COPY, nested, and through a link.
Volumes == {[Stage(p, Small, Linked) EXCEPT !.overlay = o] : o \in BOOLEAN, p \in {
  <<VOLUME(V), RUN, Copy(<<Local(<<"a">>)>>, V, TRUE), RUN>>,
  <<VOLUME(V), Copy(<<Local(<<"a">>)>>, <<"v", "e">>, FALSE), RUN, Copy(<<Local(<<"b">>)>>, <<"v", "e">>, FALSE), RUN>>,
  <<VOLUME(<<"v", "e">>), RUN, VOLUME(V), Copy(<<Local(<<"a">>)>>, <<"v", "e">>, TRUE), RUN>>,
  <<VOLUME(<<"v", "e">>), VOLUME(V), RUN, Copy(<<Local(<<"a">>)>>, <<"v", "e">>, TRUE), RUN>>,
  <<VOLUME(<<"l">>), RUN, VOLUME(<<"w", "e">>), RUN>>,
  <<VOLUME(<<"w">>), RUN, VOLUME(<<"l">>)>>,
  <<VOLUME(V), RUN, VOLUME(<<"v", "e">>), VOLUME(<<"v", "e">>), RUN>> }}

\* A COPY that names the volume itself, without a slash.
VolumeCopies == {Stage(<<VOLUME(V), RUN, Copy(<<Local(<<"a">>)>>, V, FALSE), RUN>>, Small, Linked)}

\* Copies that cannot succeed: a dangling link, an owner that a map does not
\* have, when reading and when writing, and a destination that is a device.
Refused == {
  Stage(<<Copy(<<Local(<<"l">>)>>, <<"v">>, TRUE)>>, Root @@ (<<"l">> :> Symlink(FALSE, D)), Rootfs),
  Stage(<<[Copy(<<Local(D)>>, <<"v">>, FALSE) EXCEPT !.preserve = TRUE, !.srcmap = (0 :> 1)]>>, Context, Rootfs),
  [Stage(<<[Copy(<<Local(<<"a">>)>>, <<"v">>, FALSE) EXCEPT !.extract = TRUE]>>, Archive, Rootfs)
     EXCEPT !.destmap = (0 :> 100)],
  Stage(<<Copy(<<Local(<<"a">>)>>, <<"w">>, FALSE)>>, Small, Root @@ (<<"w">> :> Node("dev", 600, 0, 0))) }

MCScenarios == Forms \cup Optional \cup Volumes \cup Refused
MCRunWrites == {<<"v", "a">>, <<"v", "e">>, <<"v", "e", "a">>, <<"w", "a">>}
MCNameOrder == Names
=============================================================================
