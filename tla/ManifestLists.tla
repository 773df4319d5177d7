---------------------------- MODULE ManifestLists ----------------------------
(***************************************************************************)
(* Manifest lists in local storage and the processes that edit one: commit *)
(* (addManifest), the "buildah manifest" subcommands, and a build for      *)
(* several platforms.  All of them name the same list.  A list is a set of *)
(* images and the images whose platform was recorded.  One step is one     *)
(* call into the image store; what happens between two calls is local.     *)
(* The list a process creates gets the process as its ID.                  *)
(***************************************************************************)
EXTENDS Naturals, Sequences, FiniteSets

CONSTANTS Procs,      \* the processes
          Images,     \* the images that can be put in a list
          MayFail,    \* whether storage, a registry or a platform may fail
          MayCrash    \* the processes that may be killed

None == "none"
Stored == "stored"    \* the ID of a list that is there at the start
IDs == Procs \cup {Stored}

VARIABLES cmd,        \* what each process was asked to do
          lists,      \* the lists of local storage, by ID
          named,      \* the ID the name of the list denotes
          locks,      \* who holds the lock file of each list
          edit        \* where each process is, and its copy of the list

listVars == <<cmd, lists, named, locks, edit>>

Gone == [live |-> FALSE, entries |-> {}, noted |-> {}]
Fresh == [Gone EXCEPT !.live = TRUE]

\* The call each command makes first.
Start(op) == CASE op \in {"create", "build"} -> op
               [] op \in {"add", "annotate", "remove", "rmlist", "push"} -> "lookup"
               [] OTHER -> "idle"

InitEdit(c) ==
  [pc |-> Start(c.op), id |-> None, list |-> Gone, rc |-> "none", built |-> <<>>,
   at |-> 0, failed |-> {}, pushed |-> FALSE,
   image |-> IF c.op \in {"commit", "add", "annotate", "remove"} THEN c.image ELSE None]

InitLists(commands, stored) ==
  /\ cmd = commands
  /\ lists = [i \in IDs |-> IF i = Stored THEN stored ELSE Gone]
  /\ named = IF stored.live THEN Stored ELSE None
  /\ locks = [i \in IDs |-> None]
  /\ edit = [p \in Procs |-> InitEdit(cmd[p])]

Editing(p) == edit[p].rc = "none" /\ edit[p].pc # "idle"
At(p, pc) == edit[p].rc = "none" /\ edit[p].pc = pc

\* The lock file is released when its holder returns, or dies.
Unlocked(p) == [i \in IDs |-> IF locks[i] = p THEN None ELSE locks[i]]

\* A command returns rc.
End(p, rc) == /\ edit' = [edit EXCEPT ![p].rc = rc]
              /\ locks' = Unlocked(p)

-----------------------------------------------------------------------------
\* Commit calls addManifest once its image is written.
AddManifest(p, image) ==
  /\ cmd[p].op = "commit" /\ At(p, "idle")
  /\ edit' = [edit EXCEPT ![p].pc = "lookup", ![p].image = image]
  /\ UNCHANGED <<cmd, lists, named, locks>>

\* Variant: addManifest takes no lock either
AfterLookupUnlocked(op) == CASE op \in {"remove", "build"} -> "save"
                             [] op = "rmlist" -> "delete"
                             [] OTHER -> "load"

\* What is done once the list is found: only addManifest takes the lock, and
\* RemoveInstance and the build work on the list that the lookup read.
AfterLookup(op) == CASE op = "commit" -> "lock"
                     [] op \in {"remove", "build"} -> "save"
                     [] op = "rmlist" -> "delete"
                     [] OTHER -> "load"

LookupManifestList(p) ==
  /\ At(p, "lookup") /\ named # None
  /\ edit' = [edit EXCEPT ![p].id = named, ![p].list = lists[named],
                          ![p].pc = AfterLookup(cmd[p].op)]
  /\ UNCHANGED <<cmd, lists, named, locks>>

\* No such list: commit and the build create it; "create --amend" goes on with
\* the list it made in memory; every other command fails.
ListUnknown(p) ==
  /\ At(p, "lookup") /\ named = None
  /\ \/ /\ cmd[p].op \in {"commit", "build"}
        /\ edit' = [edit EXCEPT ![p].pc = "create"]
        /\ UNCHANGED locks
     \/ /\ cmd[p].op = "create"
        /\ edit' = [edit EXCEPT ![p].pc = "save", ![p].list = Fresh]
        /\ UNCHANGED locks
     \/ /\ cmd[p].op \notin {"commit", "build", "create"}
        /\ End(p, "err")
  /\ UNCHANGED <<cmd, lists, named>>

LockList(p) ==
  /\ At(p, "lock") /\ locks[edit[p].id] = None
  /\ locks' = [locks EXCEPT ![edit[p].id] = p]
  /\ edit' = [edit EXCEPT ![p].pc = "load"]
  /\ UNCHANGED <<cmd, lists, named>>

LoadFromImage(p) ==
  /\ At(p, "load")
  /\ IF lists[edit[p].id].live
       THEN /\ edit' = [edit EXCEPT ![p].list = lists[edit[p].id],
                                    ![p].pc = IF cmd[p].op = "push" THEN "push" ELSE "save"]
            /\ UNCHANGED locks
       ELSE End(p, "err")
  /\ UNCHANGED <<cmd, lists, named>>

\* SaveToImage without an ID: a new image, unless the name is taken.
CreateList(p) ==
  /\ At(p, "create") /\ named = None
  /\ LET created == IF cmd[p].op = "commit" THEN [Fresh EXCEPT !.entries = {edit[p].image}]
                                            ELSE Fresh
     IN /\ lists' = [lists EXCEPT ![p] = created]
        /\ named' = p
        /\ edit' = [edit EXCEPT ![p].id = p, ![p].list = created,
                                ![p].pc = "save",
                                ![p].rc = IF cmd[p].op = "commit" THEN "ok" ELSE "none"]
  /\ UNCHANGED <<cmd, locks>>

DuplicateName(p) ==
  /\ At(p, "create") /\ named # None
  /\ IF cmd[p].op = "create" /\ cmd[p].amend
       THEN edit' = [edit EXCEPT ![p].pc = "lookup"] /\ UNCHANGED locks
       ELSE End(p, "err")
  /\ UNCHANGED <<cmd, lists, named>>

-----------------------------------------------------------------------------
\* The instance a build is adding (even steps) or annotating (odd steps).
Instance(p) == edit[p].built[(edit[p].at \div 2) + 1]
Annotating(p) == edit[p].at % 2 = 1

\* Variant: the last instance is not annotated
BuildAlmostDone(p) == edit[p].at >= 2 * Len(edit[p].built) - 1

BuildDone(p) == edit[p].at = 2 * Len(edit[p].built)

\* Setting a property or removing an entry fails when the image is not listed.
Refused(p) ==
  \/ cmd[p].op \in {"annotate", "remove"} /\ edit[p].image \notin edit[p].list.entries
  \/ cmd[p].op = "build" /\ Annotating(p) /\ Instance(p) \notin edit[p].list.entries

Edited(p) ==
  LET l == edit[p].list
  IN CASE cmd[p].op \in {"commit", "add"} -> [l EXCEPT !.entries = @ \cup {edit[p].image}]
       [] cmd[p].op = "annotate" -> [l EXCEPT !.noted = @ \cup {edit[p].image}]
       [] cmd[p].op = "remove" -> [l EXCEPT !.entries = @ \ {edit[p].image},
                                            !.noted = @ \ {edit[p].image}]
       [] cmd[p].op = "create" -> [l EXCEPT !.entries = @ \cup cmd[p].images]
       [] cmd[p].op = "build" /\ Annotating(p) -> [l EXCEPT !.noted = @ \cup {Instance(p)}]
       [] OTHER -> [l EXCEPT !.entries = @ \cup {Instance(p)}]

\* The edit is refused, the image to add can not be read, or writing fails.
\* "manifest annotate" drops the error of the write.
EditFails(p) ==
  /\ At(p, "save") /\ ~(cmd[p].op = "build" /\ BuildDone(p))
  /\ \/ Refused(p) /\ End(p, "err")
     \/ MayFail /\ ~Refused(p) /\ End(p, IF cmd[p].op = "annotate" THEN "ok" ELSE "err")
  /\ UNCHANGED <<cmd, lists, named>>

\* SaveToImage to the ID that was looked up.  When that list was removed in the
\* meantime it comes back: with its name if "create" passes it, else without one.
SaveToImage(p) ==
  LET i == IF edit[p].id = None THEN p ELSE edit[p].id
      naming == ~lists[i].live /\ cmd[p].op = "create"
  IN /\ At(p, "save") /\ ~Refused(p) /\ ~(cmd[p].op = "build" /\ BuildDone(p))
     /\ IF naming /\ named # None
          THEN End(p, "err") /\ UNCHANGED <<lists, named>>
          ELSE /\ lists' = [lists EXCEPT ![i] = Edited(p)]
               /\ named' = IF naming THEN i ELSE named
               /\ edit' = [edit EXCEPT
                    ![p].id = i, ![p].list = Edited(p),
                    ![p].pc = IF cmd[p].op \in {"remove", "build"} THEN "reload" ELSE "save",
                    ![p].rc = IF cmd[p].op \in {"remove", "build"} THEN "none" ELSE "ok"]
               /\ locks' = Unlocked(p)
     /\ UNCHANGED cmd

\* libimage reads back what it saved.
ReloadList(p) ==
  /\ At(p, "reload")
  /\ IF ~lists[edit[p].id].live THEN End(p, "err")
     ELSE /\ edit' = [edit EXCEPT ![p].list = lists[edit[p].id],
                                  ![p].at = @ + 1, ![p].pc = "save",
                                  ![p].rc = IF cmd[p].op = "remove" THEN "ok" ELSE "none"]
          /\ UNCHANGED locks
  /\ UNCHANGED <<cmd, lists, named>>

DeleteList(p) ==
  /\ At(p, "delete")
  /\ IF ~lists[edit[p].id].live
       THEN /\ End(p, IF cmd[p].op = "push" /\ cmd[p].digestfile THEN "ok" ELSE "err")
            /\ UNCHANGED <<lists, named>>
       ELSE /\ lists' = [lists EXCEPT ![edit[p].id] = Gone]
            /\ named' = IF named = edit[p].id THEN None ELSE named
            /\ End(p, "ok")
  /\ UNCHANGED cmd

\* Writing the digest file replaces the error of the push, or of the deletion.
PushList(p) ==
  /\ At(p, "push")
  /\ \/ /\ cmd[p].rm
        /\ edit' = [edit EXCEPT ![p].pushed = TRUE, ![p].pc = "delete"]
        /\ UNCHANGED locks
     \/ /\ ~cmd[p].rm
        /\ edit' = [edit EXCEPT ![p].pushed = TRUE, ![p].rc = "ok"]
        /\ UNCHANGED locks
     \/ /\ MayFail
        /\ End(p, IF cmd[p].digestfile THEN "ok" ELSE "err")
  /\ UNCHANGED <<cmd, lists, named>>

-----------------------------------------------------------------------------
\* BuildDockerfiles: every platform builds in a goroutine of its own.  The
\* instances are recorded in the order in which the goroutines end.
Building(p) == cmd[p].platforms \ (edit[p].failed \cup {edit[p].built[i] : i \in DOMAIN edit[p].built})

PlatformBuilt(p, x) ==
  /\ At(p, "build") /\ x \in Building(p)
  /\ edit' = [edit EXCEPT ![p].built = Append(@, x)]
  /\ UNCHANGED <<cmd, lists, named, locks>>

PlatformFails(p, x) ==
  /\ MayFail /\ At(p, "build") /\ x \in Building(p)
  /\ edit' = [edit EXCEPT ![p].failed = @ \cup {x}]
  /\ UNCHANGED <<cmd, lists, named, locks>>

BuildsWait(p) ==
  /\ At(p, "build") /\ Building(p) = {}
  /\ IF edit[p].failed # {} THEN End(p, "err")
     ELSE /\ edit' = [edit EXCEPT ![p].image = edit[p].built[1],
                                  ![p].pc = IF cmd[p].manifest THEN "lookup" ELSE "build",
                                  ![p].rc = IF cmd[p].manifest THEN "none" ELSE "ok"]
          /\ UNCHANGED locks
  /\ UNCHANGED <<cmd, lists, named>>

\* All instances are in the list: BuildDockerfiles returns the ID of the list.
BuildReturns(p) ==
  /\ At(p, "save") /\ cmd[p].op = "build" /\ BuildDone(p)
  /\ End(p, IF lists[edit[p].id].live THEN "ok" ELSE "err")
  /\ UNCHANGED <<cmd, lists, named>>

\* Variant: the lock outlives its holder
CrashLocked(p) == /\ p \in MayCrash /\ Editing(p)
                  /\ edit' = [edit EXCEPT ![p].rc = "crashed"]
                  /\ UNCHANGED <<cmd, lists, named, locks>>

CrashEditor(p) == /\ p \in MayCrash /\ Editing(p)
                  /\ End(p, "crashed")
                  /\ UNCHANGED <<cmd, lists, named>>

EditStep(p) ==
  \/ LookupManifestList(p) \/ ListUnknown(p) \/ LockList(p) \/ LoadFromImage(p)
  \/ CreateList(p) \/ DuplicateName(p) \/ EditFails(p) \/ SaveToImage(p) \/ ReloadList(p)
  \/ DeleteList(p) \/ PushList(p) \/ BuildsWait(p) \/ BuildReturns(p)
  \/ \E x \in Images : PlatformBuilt(p, x) \/ PlatformFails(p, x)

NextLists == \E p \in Procs : \/ EditStep(p)
                              \/ CrashEditor(p)
                              \/ \E image \in Images : AddManifest(p, image)

-----------------------------------------------------------------------------
\* Whether p may write to the list without the lock.
Lockless(p) == \/ cmd[p].op \in {"add", "annotate", "remove", "create", "build", "rmlist"}
               \/ cmd[p].op = "push" /\ cmd[p].rm

\* Commits that add their images to one list at the same time lose none of
\* them: what a successful addManifest put in the list stays there, as long as
\* every writer takes the lock (commit.go, LockerForImage).
EntriesKept ==
  (\A q \in Procs : ~Lockless(q)) =>
     \A p \in Procs : cmd[p].op = "commit" /\ edit[p].rc = "ok" =>
        /\ lists[edit[p].id].live
        /\ edit[p].image \in lists[edit[p].id].entries

\* A build for several platforms writes to no list before all of its platforms
\* have been built, and a list it reports success for has every instance, with
\* its platform recorded, unless another process wrote to the list as well.
BuildPopulates ==
  \A p \in Procs : cmd[p].op = "build" =>
    /\ edit[p].failed # {} => ~lists[p].live /\ edit[p].id = None
    /\ edit[p].rc = "ok" /\ cmd[p].manifest
         /\ (\A q \in Procs \ {p} : edit[q].rc = "none" /\ edit[q].pc = Start(cmd[q].op))
         => cmd[p].platforms \subseteq lists[edit[p].id].entries \cap lists[edit[p].id].noted

\* "Create the manifest list ourselves, so that it's not in a
\* partially-populated state at any point if we're creating it fresh": a list
\* that the build created always has every instance (imagebuildah/build.go).
NeverPartial ==
  \A p \in Procs : cmd[p].op = "build" /\ lists[p].live =>
    lists[p].entries = cmd[p].platforms
=============================================================================
