------------------------------ MODULE Containers ------------------------------
(***************************************************************************)
(* Working containers and the buildah commands that use them at the same   *)
(* time: from, mount, umount, rename, config, commit and rm.  A container  *)
(* is an entry of the container store (name, mount count) and a state file *)
(* (the saved Builder).  Every command opens the Builder of its container, *)
(* changes it, and saves it; no lock spans these steps.  One step is one   *)
(* call into the stores.  A commit ends in addManifest (ManifestLists).    *)
(* The container and the image a process creates get the process as ID.    *)
(***************************************************************************)
EXTENDS ManifestLists, Integers

CONSTANTS Names,      \* names of containers
          Scenarios   \* what the processes are asked to do, and the manifest
                      \* list that is there at the start

\* Nothing is called None, a process is not one of the containers, nor the list,
\* that are there at the start, a container is renamed to a name, and the list
\* that is there at the start is one.
ASSUME ScenarioAssumption ==
  /\ None \notin Procs \cup Names
  /\ Procs \cap {"ctr", "other"} = {}
  /\ Stored \notin Procs
  /\ \A s \in Scenarios :
       /\ s.list \in [live : BOOLEAN, entries : SUBSET Images, noted : SUBSET Images]
       /\ \A p \in Procs : s.cmd[p].op = "rename" => s.cmd[p].new \in Names

VARIABLES ctrs,       \* the container store, with the state file of each
          images,     \* the images commits have written
          proc,       \* where each process is, and the Builders it opened
          serial      \* whether no two commands have run at the same time

vars == <<ctrs, images, proc, serial, cmd, lists, named, locks, edit>>

CIDs == Procs \cup {"ctr", "other"}

\* A Builder, as far as its state file is concerned.
NoBuilder == [name |-> None, mp |-> FALSE, conf |-> {}]
NoContainer == [live |-> FALSE, name |-> None, count |-> 0, image |-> TRUE,
                saved |-> FALSE, b |-> NoBuilder]
NoImage == [live |-> FALSE, names |-> {}, conf |-> {}]

ContainerOps == {"from", "mount", "mounts", "umount", "umountall", "rename", "config",
                 "commit", "rm", "rmall"}

InitProc(c) ==
  [pc |-> IF c.op = "from" THEN "name" ELSE IF c.op \in {"mounts", "umountall", "rmall"}
            THEN "list" ELSE "open",
   rc |-> IF c.op \in ContainerOps THEN "idle" ELSE "ok",
   todo |-> {}, open |-> {}, c |-> None, b |-> NoBuilder, name |-> None,
   img |-> None, deleted |-> FALSE, err |-> FALSE]

\* At the start there is a working container, and one that another program
\* made: it has no state file.
InitContainers ==
  /\ ctrs = [c \in CIDs |->
       CASE c = "ctr" -> [NoContainer EXCEPT !.live = TRUE, !.name = "ctr", !.saved = TRUE,
                                             !.b.name = "ctr"]
         [] c = "other" -> [NoContainer EXCEPT !.live = TRUE, !.name = "foreign"]
         [] OTHER -> NoContainer]
  /\ images = [i \in Procs |-> NoImage]
  /\ proc = [p \in Procs |-> InitProc(cmd[p])]
  /\ serial = TRUE

Running(p) == proc[p].rc = "none"
Doing(p, pc) == proc[p].rc = "none" /\ proc[p].pc = pc

Begin(p) ==
  /\ proc[p].rc = "idle"
  /\ proc' = [proc EXCEPT ![p].rc = "none"]
  /\ serial' = (serial /\ \A q \in Procs : ~Running(q))
  /\ UNCHANGED <<ctrs, images, listVars>>

\* A command that takes several containers goes on with the next one, and
\* returns the last error.
NextContainer(r) == [r EXCEPT !.pc = "next", !.b = NoBuilder]
Failing(r) == NextContainer([r EXCEPT !.err = TRUE])
Return(r, rc) == [r EXCEPT !.rc = rc]

-----------------------------------------------------------------------------
\* The container that a name or an ID denotes.
Denotes(c, arg) == ctrs[c].live /\ (c = arg \/ ctrs[c].name = arg)

\* openBuilder: OpenBuilder, and ImportBuilder when there is no state file,
\* which fails for a container that was not made from an image.
OpenBuilder(p) ==
  /\ Doing(p, "open")
  /\ proc' = [proc EXCEPT ![p] =
       IF \E c \in CIDs : Denotes(c, cmd[p].ctr)
       THEN LET c == CHOOSE c \in CIDs : Denotes(c, cmd[p].ctr)
            IN IF ctrs[c].saved THEN [@ EXCEPT !.pc = "do", !.c = c, !.b = ctrs[c].b]
               ELSE IF ctrs[c].image
                    THEN [@ EXCEPT !.pc = "import", !.c = c,
                                   !.b = [NoBuilder EXCEPT !.name = cmd[p].ctr]]
                    ELSE Failing(@)
       ELSE Failing(@)]
  /\ UNCHANGED <<ctrs, images, serial, listVars>>

\* Builder.Save replaces the state file, or fails when the container is gone.
Save(c, b) == [ctrs EXCEPT ![c].saved = TRUE, ![c].b = b]

ImportBuilder(p) ==
  /\ Doing(p, "import")
  /\ IF ctrs[proc[p].c].live
       THEN /\ ctrs' = Save(proc[p].c, proc[p].b)
            /\ proc' = [proc EXCEPT ![p].pc = "do"]
       ELSE /\ proc' = [proc EXCEPT ![p] = Failing(@)]
            /\ UNCHANGED ctrs
  /\ UNCHANGED <<images, serial, listVars>>

\* OpenAllBuilders: the list of containers first, then their state files.
ListContainers(p) ==
  /\ Doing(p, "list")
  /\ proc' = [proc EXCEPT ![p].todo = {c \in CIDs : ctrs[c].live}, ![p].pc = "readall"]
  /\ UNCHANGED <<ctrs, images, serial, listVars>>

StateFile(c) == IF ctrs[c].saved THEN {<<c, ctrs[c].b>>} ELSE {}

ReadState(p, c) ==
  /\ Doing(p, "readall") /\ c \in proc[p].todo
  /\ proc' = [proc EXCEPT ![p] =
       IF ~ctrs[c].live THEN Return(@, "err")
       ELSE [@ EXCEPT !.todo = proc[p].todo \ {c}, !.open = proc[p].open \cup StateFile(c)]]
  /\ UNCHANGED <<ctrs, images, serial, listVars>>

AllRead(p) ==
  /\ Doing(p, "readall") /\ proc[p].todo = {}
  /\ proc' = [proc EXCEPT ![p] = NextContainer(@)]
  /\ UNCHANGED <<ctrs, images, serial, listVars>>

TakeNext(p) ==
  /\ Doing(p, "next")
  /\ \/ \E o \in proc[p].open :
          proc' = [proc EXCEPT ![p].pc = "do", ![p].c = o[1], ![p].b = o[2], ![p].open = @ \ {o}]
     \/ /\ proc[p].open = {}
        /\ proc' = [proc EXCEPT ![p] = Return(@, IF @.err THEN "err" ELSE "ok")]
  /\ UNCHANGED <<ctrs, images, serial, listVars>>

-----------------------------------------------------------------------------
\* The container of p, when it is still there.
Present(p) == ctrs[proc[p].c].live

\* The container was removed since it was opened.
ContainerVanished(p) ==
  /\ Doing(p, "do") /\ ~Present(p)
  /\ cmd[p].op \in {"mount", "umount", "umountall", "mounts", "rm", "rmall"}
  /\ cmd[p].op \in {"umount", "umountall"} => proc[p].b.mp
  /\ proc' = [proc EXCEPT ![p] = IF cmd[p].op = "mounts" THEN Return(@, "err") ELSE Failing(@)]
  /\ UNCHANGED <<ctrs, images, serial, listVars>>

Mount(p) ==
  /\ Doing(p, "do") /\ cmd[p].op = "mount" /\ Present(p)
  /\ ctrs' = [ctrs EXCEPT ![proc[p].c].count = @ + 1]
  /\ proc' = [proc EXCEPT ![p].b.mp = TRUE, ![p].pc = "save"]
  /\ UNCHANGED <<images, serial, listVars>>

\* The commands skip a container whose Builder has no mount point.
Unmount(p) ==
  /\ Doing(p, "do") /\ cmd[p].op \in {"umount", "umountall"}
  /\ \/ /\ ~proc[p].b.mp
        /\ proc' = [proc EXCEPT ![p] = NextContainer(@)]
        /\ UNCHANGED ctrs
     \/ /\ proc[p].b.mp /\ Present(p)
        /\ ctrs' = [ctrs EXCEPT ![proc[p].c].count = @ - 1]
        /\ proc' = [proc EXCEPT ![p].b.mp = FALSE, ![p].pc = "save"]
  /\ UNCHANGED <<images, serial, listVars>>

\* "buildah mount" without arguments corrects the recorded mount point.
Mounted(p) ==
  /\ Doing(p, "do") /\ cmd[p].op = "mounts" /\ Present(p)
  /\ LET mounted == ctrs[proc[p].c].count > 0
     IN proc' = [proc EXCEPT ![p] =
          IF mounted = @.b.mp THEN NextContainer(@)
          ELSE [@ EXCEPT !.b.mp = mounted, !.pc = "save"]]
  /\ UNCHANGED <<ctrs, images, serial, listVars>>

\* Variant: the edit replaces what was configured before
UpdateAnew(p) ==
  /\ Doing(p, "do") /\ cmd[p].op = "config"
  /\ proc' = [proc EXCEPT ![p].b.conf = {cmd[p].edit}, ![p].pc = "save"]
  /\ UNCHANGED <<ctrs, images, serial, listVars>>

UpdateConfig(p) ==
  /\ Doing(p, "do") /\ cmd[p].op = "config"
  /\ \/ proc' = [proc EXCEPT ![p].b.conf = @ \cup {cmd[p].edit}, ![p].pc = "save"]
     \/ MayFail /\ proc' = [proc EXCEPT ![p] = Return(@, "err")]
  /\ UNCHANGED <<ctrs, images, serial, listVars>>

\* rename opens the new name to see whether it is in use; that imports a
\* container without a state file.
RenameCheck(p) ==
  /\ Doing(p, "do") /\ cmd[p].op = "rename"
  /\ LET taken == {c \in CIDs : Denotes(c, cmd[p].new) /\ (ctrs[c].saved \/ ctrs[c].image)}
     IN IF proc[p].b.name = cmd[p].new \/ taken # {}
        THEN /\ proc' = [proc EXCEPT ![p] = Return(@, "err")]
             /\ ctrs' = [c \in CIDs |->
                  IF c \in taken /\ ~ctrs[c].saved /\ proc[p].b.name # cmd[p].new
                  THEN [ctrs[c] EXCEPT !.saved = TRUE, !.b = [NoBuilder EXCEPT !.name = cmd[p].new]]
                  ELSE ctrs[c]]
        ELSE /\ proc' = [proc EXCEPT ![p].pc = "rename"]
             /\ UNCHANGED ctrs
  /\ UNCHANGED <<images, serial, listVars>>

\* Variant: the Builder keeps the old name
SetStoreNames(p) ==
  /\ Doing(p, "rename") /\ Present(p)
  /\ ctrs' = [c \in CIDs |->
       IF c = proc[p].c THEN [ctrs[c] EXCEPT !.name = cmd[p].new]
       ELSE IF ctrs[c].name = cmd[p].new THEN [ctrs[c] EXCEPT !.name = None]
       ELSE ctrs[c]]
  /\ proc' = [proc EXCEPT ![p].pc = "save"]
  /\ UNCHANGED <<images, serial, listVars>>

\* SetNames takes the name away from whichever container has it by now.
SetNames(p) ==
  /\ Doing(p, "rename")
  /\ IF Present(p)
       THEN /\ ctrs' = [c \in CIDs |->
                 IF c = proc[p].c THEN [ctrs[c] EXCEPT !.name = cmd[p].new]
                 ELSE IF ctrs[c].name = cmd[p].new THEN [ctrs[c] EXCEPT !.name = None]
                 ELSE ctrs[c]]
            /\ proc' = [proc EXCEPT ![p].b.name = cmd[p].new, ![p].pc = "save"]
       ELSE /\ proc' = [proc EXCEPT ![p] = Return(@, "err")]
            /\ UNCHANGED ctrs
  /\ UNCHANGED <<images, serial, listVars>>

Delete(p) ==
  /\ Doing(p, "do") /\ cmd[p].op \in {"rm", "rmall"} /\ Present(p)
  /\ ctrs' = [ctrs EXCEPT ![proc[p].c] = NoContainer]
  /\ proc' = [proc EXCEPT ![p] = NextContainer(@)]
  /\ UNCHANGED <<images, serial, listVars>>

SaveBuilder(p) ==
  /\ Doing(p, "save")
  /\ \/ /\ Present(p)
        /\ ctrs' = Save(proc[p].c, proc[p].b)
        /\ proc' = [proc EXCEPT ![p] = NextContainer(@)]
     \/ /\ ~Present(p) \/ MayFail
        /\ proc' = [proc EXCEPT ![p] = IF cmd[p].op = "mounts" THEN Return(@, "err") ELSE Failing(@)]
        /\ UNCHANGED ctrs
  /\ UNCHANGED <<images, serial, listVars>>

-----------------------------------------------------------------------------
\* "from": without --name the name is one that no container has at the moment;
\* CreateContainer refuses a name that has been taken since.
Taken(n) == \E c \in CIDs : ctrs[c].live /\ ctrs[c].name = n

ChooseName(p) ==
  /\ Doing(p, "name")
  /\ \E n \in Names :
       /\ IF cmd[p].name # None THEN n = cmd[p].name ELSE ~Taken(n)
       /\ proc' = [proc EXCEPT ![p].name = n, ![p].pc = "create"]
  /\ UNCHANGED <<ctrs, images, serial, listVars>>

CreateContainer(p) ==
  /\ Doing(p, "create") /\ ~Taken(proc[p].name)
  /\ ctrs' = [ctrs EXCEPT ![p] = [NoContainer EXCEPT !.live = TRUE, !.name = proc[p].name,
                                                     !.image = ~cmd[p].scratch]]
  /\ proc' = [proc EXCEPT ![p].c = p, ![p].b.name = proc[p].name,
                          ![p].pc = IF cmd[p].mount THEN "mount" ELSE "config"]
  /\ UNCHANGED <<images, serial, listVars>>

\* A duplicate name is fatal when it was asked for; else a random one is tried.
NameConflict(p) ==
  /\ Doing(p, "create") /\ Taken(proc[p].name)
  /\ IF cmd[p].name # None
       THEN proc' = [proc EXCEPT ![p] = Return(@, "err")]
       ELSE \E n \in Names : proc' = [proc EXCEPT ![p].name = n]
  /\ UNCHANGED <<ctrs, images, serial, listVars>>

\* Variant: the container stays
CreateGivenUp(p) == /\ proc' = [proc EXCEPT ![p] = Return(@, "err")]
                    /\ UNCHANGED ctrs

\* The deferred function of newBuilder removes the container if err is set.
CreateCleanup(p) == /\ proc' = [proc EXCEPT ![p] = Return(@, "err")]
                    /\ ctrs' = [ctrs EXCEPT ![p] = NoContainer]

MountNew(p) ==
  /\ Doing(p, "mount")
  /\ \/ /\ ctrs[p].live
        /\ ctrs' = [ctrs EXCEPT ![p].count = @ + 1]
        /\ proc' = [proc EXCEPT ![p].b.mp = TRUE, ![p].pc = "mount-save"]
     \/ (~ctrs[p].live \/ MayFail) /\ CreateCleanup(p)
  /\ UNCHANGED <<images, serial, listVars>>

\* initConfig: its error is not the one the deferred function looks at.
InitConfig(p) ==
  /\ Doing(p, "config")
  /\ \/ proc' = [proc EXCEPT ![p].pc = "create-save"]
     \/ MayFail /\ proc' = [proc EXCEPT ![p] = Return(@, "err")]
  /\ UNCHANGED <<ctrs, images, serial, listVars>>

SaveNew(p) ==
  /\ Doing(p, "mount-save") \/ Doing(p, "create-save")
  /\ \/ /\ ctrs[p].live
        /\ ctrs' = Save(p, proc[p].b)
        /\ proc' = [proc EXCEPT ![p].pc = IF @ = "mount-save" THEN "config" ELSE "onbuild"]
     \/ (~ctrs[p].live \/ MayFail) /\ CreateCleanup(p)
  /\ UNCHANGED <<images, serial, listVars>>

\* ONBUILD triggers of the base image and the container ID file.
OnBuild(p) ==
  /\ Doing(p, "onbuild")
  /\ \/ proc' = [proc EXCEPT ![p].b.conf = {"onbuild"}, ![p].pc = "save"]
     \/ MayFail /\ proc' = [proc EXCEPT ![p] = Return(@, "err")]
  /\ UNCHANGED <<ctrs, images, serial, listVars>>

-----------------------------------------------------------------------------
\* Commit copies the container to an image that has the destination's name, or
\* a temporary one; the name moves from the image that had it.
TempName(p) == <<"tmp", p>>
Dest(p) == IF cmd[p].dest = None THEN TempName(p) ELSE <<cmd[p].dest>>

CopyImage(p) ==
  /\ Doing(p, "do") /\ cmd[p].op = "commit"
  /\ \/ /\ Present(p)
        /\ images' = [i \in Procs |->
             IF i = p THEN [live |-> TRUE, names |-> {Dest(p)}, conf |-> proc[p].b.conf]
             ELSE [images[i] EXCEPT !.names = @ \ {Dest(p)}]]
        /\ proc' = [proc EXCEPT ![p].pc = "locate"]
     \/ /\ ~Present(p) \/ MayFail
        /\ proc' = [proc EXCEPT ![p] = Return(@, "err")]
        /\ UNCHANGED images
  /\ UNCHANGED <<ctrs, serial, listVars>>

\* The image is then found again by that name.
LocateImage(p) ==
  /\ Doing(p, "locate")
  /\ \E i \in Procs : /\ images[i].live /\ Dest(p) \in images[i].names
                      /\ proc' = [proc EXCEPT ![p].img = i, ![p].pc = "prune"]
  /\ UNCHANGED <<ctrs, images, serial, listVars>>

\* Variant: the temporary name stays
KeepTempName(p) ==
  /\ Doing(p, "prune")
  /\ proc' = [proc EXCEPT ![p].pc = IF cmd[p].manifest THEN "manifest" ELSE "finish"]
  /\ UNCHANGED <<ctrs, images, serial, listVars>>

\* The temporary name goes; then the image ID file is written.
RemoveTempName(p) ==
  /\ Doing(p, "prune")
  /\ images' = IF cmd[p].dest = None THEN [images EXCEPT ![proc[p].img].names = @ \ {Dest(p)}]
                                     ELSE images
  /\ \/ proc' = [proc EXCEPT ![p].pc = IF cmd[p].manifest THEN "manifest" ELSE "finish"]
     \/ MayFail /\ proc' = [proc EXCEPT ![p] = Return(@, "err")]
  /\ UNCHANGED <<ctrs, serial, listVars>>

CommitAddsManifest(p) ==
  /\ Doing(p, "manifest")
  /\ AddManifest(p, proc[p].img)
  /\ proc' = [proc EXCEPT ![p].pc = "adding"]
  /\ UNCHANGED <<ctrs, images, serial>>

\* Variant: an error of addManifest is only logged
ManifestTried(p) ==
  /\ Doing(p, "adding") /\ edit[p].rc # "none"
  /\ proc' = [proc EXCEPT ![p].pc = "finish"]
  /\ UNCHANGED <<ctrs, images, serial, listVars>>

ManifestAdded(p) ==
  /\ Doing(p, "adding") /\ edit[p].rc # "none"
  /\ proc' = [proc EXCEPT ![p] = IF edit[p].rc = "ok" THEN [@ EXCEPT !.pc = "finish"]
                                                      ELSE Return(@, "err")]
  /\ UNCHANGED <<ctrs, images, serial, listVars>>

FinishCommit(p) ==
  /\ Doing(p, "finish")
  /\ IF cmd[p].rm /\ Present(p)
       THEN /\ ctrs' = [ctrs EXCEPT ![proc[p].c] = NoContainer]
            /\ proc' = [proc EXCEPT ![p] = [Return(@, "ok") EXCEPT !.deleted = TRUE]]
       ELSE /\ proc' = [proc EXCEPT ![p] = Return(@, IF cmd[p].rm THEN "err" ELSE "ok")]
            /\ UNCHANGED ctrs
  /\ UNCHANGED <<images, serial, listVars>>

\* The process is killed; its stores keep what was written.
Crash(p) ==
  /\ p \in MayCrash /\ (Running(p) \/ Editing(p))
  /\ proc' = IF Running(p) THEN [proc EXCEPT ![p] = Return(@, "crashed")] ELSE proc
  /\ IF Editing(p) THEN CrashEditor(p) ELSE UNCHANGED listVars
  /\ UNCHANGED <<ctrs, images, serial>>

EditLists(p) == EditStep(p) /\ UNCHANGED <<ctrs, images, proc, serial>>

Step(p) ==
  \/ Begin(p) \/ OpenBuilder(p) \/ ImportBuilder(p) \/ ListContainers(p) \/ AllRead(p)
  \/ (\E c \in CIDs : ReadState(p, c)) \/ TakeNext(p) \/ ContainerVanished(p)
  \/ Mount(p) \/ Unmount(p) \/ Mounted(p) \/ UpdateConfig(p) \/ RenameCheck(p) \/ SetNames(p)
  \/ Delete(p) \/ SaveBuilder(p) \/ ChooseName(p) \/ CreateContainer(p) \/ NameConflict(p)
  \/ MountNew(p) \/ InitConfig(p) \/ SaveNew(p) \/ OnBuild(p) \/ CopyImage(p) \/ LocateImage(p)
  \/ RemoveTempName(p) \/ CommitAddsManifest(p) \/ ManifestAdded(p) \/ FinishCommit(p)
  \/ EditLists(p)

Terminated == /\ \A p \in Procs : proc[p].rc \notin {"idle", "none"} /\ ~Editing(p)
              /\ UNCHANGED vars

Init == /\ \E s \in Scenarios : InitLists(s.cmd, s.list)
        /\ InitContainers
Next == (\E p \in Procs : Step(p) \/ Crash(p)) \/ Terminated

\* A random suffix, from a range that grows with every attempt, is free at last.
DrawFree(p) == NameConflict(p) /\ ~Taken(proc'[p].name)

Fairness == \A p \in Procs : WF_vars(Step(p)) /\ SF_vars(DrawFree(p))
Spec == Init /\ [][Next]_vars /\ Fairness

-----------------------------------------------------------------------------
\* Type invariant.  A container can be unmounted more often than it was mounted.
TypeOK ==
  /\ \A c \in CIDs : /\ ctrs[c].live \in BOOLEAN
                     /\ ctrs[c].count \in Int
                     /\ ctrs[c].name \in Names \cup {None}
                     /\ ctrs[c].b.mp \in BOOLEAN
  /\ \A p \in Procs : /\ proc[p].rc \in {"idle", "none", "ok", "err", "crashed"}
                      /\ proc[p].c \in CIDs \cup {None}
                      /\ edit[p].id \in IDs \cup {None}
                      /\ images[p].live \in BOOLEAN
  /\ named \in IDs \cup {None}
  /\ locks \in [IDs -> Procs \cup {None}]

\* The edits to container c that "config" has reported as done.
Acknowledged(c) ==
  {cmd[q].edit : q \in {q \in Procs : cmd[q].op = "config" /\ proc[q].rc = "ok" /\ proc[q].c = c}}

\* A change of the configuration that was acknowledged is never lost to a
\* later command on the container, be that command killed at any point or
\* failed, as long as commands run one after the other (Builder.Save).
EditsKept == serial => \A c \in CIDs : ctrs[c].live => Acknowledged(c) \subseteq ctrs[c].b.conf

\* When commands have run one after the other and succeeded, the state file
\* agrees with the store: it has the container's name, no container has lost
\* its name to a rename, and a recorded mount point is mounted.
StateAgrees ==
  serial /\ (\A p \in Procs : proc[p].rc \in {"idle", "ok"}) =>
    \A c \in CIDs : ctrs[c].live =>
      /\ ctrs[c].name # None
      /\ ctrs[c].saved => ctrs[c].b.name \in {ctrs[c].name, c}
      /\ ctrs[c].b.mp => ctrs[c].count > 0

\* "commit --rm" removes the container only when its image is in the store, in
\* the manifest list if one was asked for, and has every change that was
\* acknowledged before.
CommitBeforeRemove ==
  \A p \in Procs : cmd[p].op = "commit" /\ proc[p].deleted =>
    /\ images[p].live
    /\ cmd[p].manifest => edit[p].rc = "ok"
    /\ serial => Acknowledged(proc[p].c) \subseteq images[p].conf

\* A commit without a destination reports its own image, and leaves no
\* temporary name behind, whatever other commits do meanwhile.
TempNameRemoved ==
  \A p \in Procs : cmd[p].op = "commit" /\ cmd[p].dest = None /\ proc[p].rc = "ok" =>
    proc[p].img = p /\ images[p].names = {}

\* A "from" that fails while it sets its container up removes it again, except
\* when the configuration of the base image can not be read; and it never fails
\* for want of a name unless it was given one (newBuilder).
FromCleansUp ==
  \A p \in Procs : cmd[p].op = "from" /\ proc[p].rc = "err" =>
    /\ proc[p].pc \in {"create", "mount", "mount-save", "create-save"} => ~ctrs[p].live
    /\ proc[p].pc = "create" => cmd[p].name # None

\* Commands one after the other keep a container's state file: it has every
\* change that was acknowledged and agrees with the store (Builder.Save).
StateKept == EditsKept /\ StateAgrees

\* A commit that succeeds has a complete image of its own to show, under the
\* names it was to have, before it takes the container away (Builder.Commit).
CommitCompletes == CommitBeforeRemove /\ TempNameRemoved

\* Every command ends: a lock whose holder was killed is released, and a name
\* is found.
CommandsEnd == <>(\A p \in Procs : proc[p].rc \notin {"idle", "none"} /\ ~Editing(p))

\* "Commit ... Returns the ID of the new image if commit was successful": the
\* image that is reported, and put in the manifest list, is the one the commit
\* wrote (commit.go).
OwnImage == \A p \in Procs : cmd[p].op = "commit" /\ proc[p].rc = "ok" => proc[p].img = p
=============================================================================
