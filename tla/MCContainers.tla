----------------------------- MODULE MCContainers -----------------------------
(* Instances of Containers: three processes, and sets of commands in which   *)
(* they compete for a container, a name, an image name or a manifest list.   *)
EXTENDS Containers

MCProcs == {"p", "q", "r"}
MCImages == {"amd64", "arm64", "x", "p", "q", "r"}
MCNames == {"ctr", "foreign", "n1", "n2", "n3", "n4"}

Nothing == [op |-> "nothing"]
From(n, scratch, mount) == [op |-> "from", name |-> n, scratch |-> scratch, mount |-> mount]
On(op, c) == [op |-> op, ctr |-> c]
All(op) == [op |-> op]
Rename(c, n) == [op |-> "rename", ctr |-> c, new |-> n]
Config(c, e) == [op |-> "config", ctr |-> c, edit |-> e]
Commit(dest, rm, manifest) ==
  [op |-> "commit", ctr |-> "ctr", dest |-> dest, rm |-> rm, manifest |-> manifest, image |-> None]
Manifest(op, image) == [op |-> op, image |-> image]
Create(amend) == [op |-> "create", amend |-> amend, images |-> {"x"}]
Push(rm, file) == [op |-> "push", rm |-> rm, digestfile |-> file]
Build(manifest) == [op |-> "build", platforms |-> {"amd64", "arm64"}, manifest |-> manifest]

Run(a, b, c) == [z \in MCProcs |-> IF z = "p" THEN a ELSE IF z = "q" THEN b ELSE c]

With(stored, commands) == {[cmd |-> c, list |-> l] : c \in commands, l \in stored}

OnContainers ==
     {Run(Config("ctr", "e1"), b, c) :
        b \in {Config("ctr", "e2"), Rename("ctr", "n1"), On("mount", "ctr")},
        c \in {Commit(None, TRUE, FALSE), On("umount", "ctr"), All("mounts")}}
  \cup {Run(From(None, FALSE, TRUE), b, Nothing) :
        b \in {From(None, TRUE, FALSE), From("n1", FALSE, FALSE), Rename("ctr", "n1"),
               On("mount", "n1"), On("rm", "n1"), All("rmall"), All("umountall")}}
  \cup {Run(On("mount", "other"), On("umount", "foreign"), Rename("ctr", "foreign"))}

OnLists ==
     {Run(Commit(None, FALSE, TRUE), b, Nothing) :
        b \in {Commit(None, TRUE, TRUE), Commit("img", FALSE, TRUE), Push(FALSE, FALSE)}}
  \cup {Run(Nothing, Build(TRUE), c) : c \in {Manifest("add", "x"), Manifest("rmlist", "x")}}
  \cup {Run(Manifest("annotate", "x"), b, c) :
        b \in {Manifest("remove", "x"), Create(TRUE)},
        c \in {Manifest("rmlist", "x"), Push(TRUE, FALSE), Push(TRUE, TRUE), Create(FALSE)}}
  \cup {Run(Create(TRUE), Manifest("rmlist", "x"), Create(FALSE)),
        Run(Manifest("rmlist", "x"), Push(TRUE, TRUE), Nothing),
        Run(Build(FALSE), Nothing, Nothing)}

MCScenarios == With({Gone}, OnContainers)
               \cup With({Gone, [Fresh EXCEPT !.entries = {"x"}]}, OnLists)

TwoCommits == With({Gone}, {Run(Commit("img", FALSE, TRUE), Commit("img", FALSE, FALSE), Nothing)})
OneBuild == With({Gone}, {Run(Build(TRUE), Nothing, Nothing)})
=============================================================================
