--------------------------- MODULE ContainersProofs ---------------------------
(***************************************************************************)
(* Commands that use containers and manifest lists at the same time, for   *)
(* every number of processes, whatever fails and whoever is killed.  The   *)
(* first part is about the lists: ListInv is inductive as long as every    *)
(* writer takes the lock, and the steps on containers leave it alone.  The *)
(* second part is about containers, state files and images: CtrInv says    *)
(* what one command knows of its own (OwnInv), what is true when commands  *)
(* run one after the other (SerialInv), and when nothing has gone wrong    *)
(* besides (AgreeInv).  A step is reduced to its own process by Assemble.  *)
(***************************************************************************)
EXTENDS Containers, TLAPS

\* A list, and a process's place in its edit, are records with these fields.
IsList(l) == {"live", "entries", "noted"} \subseteq DOMAIN l

IsEdit(e) == {"pc", "id", "list", "rc", "built", "at", "failed", "pushed", "image"} \subseteq DOMAIN e

ListTypes ==
  /\ DOMAIN lists = IDs /\ \A i \in IDs : IsList(lists[i])
  /\ named \in IDs \cup {None}
  /\ locks \in [IDs -> Procs \cup {None}]
  /\ DOMAIN edit = Procs
  /\ \A p \in Procs : IsEdit(edit[p]) /\ IsList(edit[p].list) /\ edit[p].id \in IDs \cup {None}

\* Where a commit, a push and a command that edits no list may be.
Places ==
  \A p \in Procs :
    /\ cmd[p].op \notin {"commit", "push"} => edit[p].pc = "idle"
    /\ cmd[p].op = "commit" => edit[p].pc \in {"idle", "lookup", "lock", "load", "save", "create"}
    /\ cmd[p].op = "push" => edit[p].pc \in {"lookup", "load", "push"}
    /\ edit[p].rc = "none" /\ edit[p].pc \in {"lock", "load", "save", "push"} => edit[p].id # None

\* A commit has the lock from the load to the save, and what it saves is the
\* list with one entry more.
Locking ==
  \A p \in Procs : cmd[p].op = "commit" =>
    /\ edit[p].rc = "none" /\ edit[p].pc \in {"load", "save"} => locks[edit[p].id] = p
    /\ edit[p].rc = "none" /\ edit[p].pc = "save" =>
         lists[edit[p].id].live /\ edit[p].list = lists[edit[p].id]

Kept ==
  \A p \in Procs : cmd[p].op = "commit" /\ edit[p].rc = "ok" =>
    /\ edit[p].id # None
    /\ lists[edit[p].id].live
    /\ edit[p].image \in lists[edit[p].id].entries

\* Before there is a list nobody has found one.
Unfound == named = None => \A p \in Procs : edit[p].id = None

AllLock == \A p \in Procs : ~Lockless(p)

ListInv == /\ ListTypes /\ Places /\ Locking /\ Kept /\ Unfound

-----------------------------------------------------------------------------
\* When every writer takes the lock, a command on lists is a commit or a push
\* that leaves the list in place.
LEMMA Writers ==
  ASSUME AllLock, NEW p \in Procs
  PROVE  /\ cmd[p].op \notin {"add", "annotate", "remove", "create", "build", "rmlist"}
         /\ cmd[p].op = "push" => ~cmd[p].rm
BY DEF AllLock, Lockless

\* Finding the list: a commit goes on to the lock.
LEMMA LookupKeeps ==
  ASSUME AllLock, ListInv, NEW p \in Procs, LookupManifestList(p)
  PROVE  ListInv'
<1> USE DEF ListInv
<1>0. /\ UNCHANGED <<cmd, lists, named, locks>> /\ named # None
      /\ edit[p].rc = "none" /\ edit[p].pc = "lookup"
      /\ \A q \in Procs : q # p => edit'[q] = edit[q]
      /\ edit'[p].id = named /\ edit'[p].list = lists[named]
      /\ edit'[p].pc = AfterLookup(cmd[p].op) /\ edit'[p].rc = "none"
  BY DEF LookupManifestList, At, ListTypes, IsEdit
<1>1. ListTypes'
  BY <1>0 DEF LookupManifestList, ListTypes, IsEdit
<1>2. Places'
  BY <1>0, ScenarioAssumption, Writers DEF ListTypes, IDs, None, Stored, Places, AfterLookup
<1>3. Locking'
  BY <1>0, ScenarioAssumption, Writers DEF Locking, Places, AfterLookup
<1>4. Kept' /\ Unfound'
  BY <1>0 DEF Kept, Unfound
<1> QED
  BY <1>1, <1>2, <1>3, <1>4

\* A command that returns, or dies, gives its lock back and changes no list.
LEMMA EndKeeps ==
  ASSUME AllLock, ListInv, NEW p \in Procs, NEW rc, rc # "none",
         cmd[p].op = "commit" => rc # "ok",
         End(p, rc), UNCHANGED <<cmd, lists, named>>
  PROVE  ListInv'
<1> USE DEF ListInv
<1>0. /\ \A q \in Procs : q # p => edit'[q] = edit[q]
      /\ edit'[p].id = edit[p].id /\ edit'[p].pc = edit[p].pc /\ edit'[p].rc = rc
      /\ \A i \in IDs : locks'[i] = IF locks[i] = p THEN None ELSE locks[i]
  BY DEF End, Unlocked, ListTypes, IsEdit
<1>1. ListTypes'
  BY DEF End, Unlocked, ListTypes, IsEdit
<1>2. Places'
  BY <1>0 DEF Places
<1>3. Locking'
  BY <1>0 DEF Locking, ListTypes, Places
<1>4. Kept' /\ Unfound'
  BY <1>0 DEF Kept, Unfound
<1> QED
  BY <1>1, <1>2, <1>3, <1>4

\* There is no list: a commit creates one, a push fails.
LEMMA UnknownKeeps ==
  ASSUME AllLock, ListInv, NEW p \in Procs, ListUnknown(p)
  PROVE  ListInv'
<1> USE DEF ListInv
<1>1. CASE cmd[p].op # "commit"
  BY <1>1, EndKeeps, Writers DEF ListUnknown
<1>2. CASE cmd[p].op = "commit"
  <2>0. /\ UNCHANGED <<cmd, lists, named, locks>>
        /\ edit' = [edit EXCEPT ![p].pc = "create"]
        /\ edit[p].rc = "none"
    BY <1>2 DEF ListUnknown, At
  <2>1. /\ \A q \in Procs : q # p => edit'[q] = edit[q]
        /\ edit'[p].id = edit[p].id /\ edit'[p].pc = "create" /\ edit'[p].rc = "none"
    BY <2>0 DEF ListTypes, IsEdit
  <2>2. ListTypes'
    BY <2>0 DEF ListTypes, IsEdit
  <2>3. Places' /\ Locking' /\ Kept' /\ Unfound'
    BY <1>2, <2>0, <2>1 DEF Places, Locking, Kept, Unfound
  <2> QED
    BY <2>2, <2>3
<1> QED
  BY <1>1, <1>2

\* The lock of the list was free, so no other commit is between load and save.
LEMMA LockKeeps ==
  ASSUME AllLock, ListInv, NEW p \in Procs, LockList(p)
  PROVE  ListInv'
<1> USE DEF ListInv
<1>0. /\ UNCHANGED <<cmd, lists, named>>
      /\ edit[p].rc = "none" /\ edit[p].pc = "lock" /\ edit[p].id \in IDs
      /\ locks[edit[p].id] = None /\ locks' = [locks EXCEPT ![edit[p].id] = p]
      /\ edit' = [edit EXCEPT ![p].pc = "load"]
  BY DEF LockList, At, Places, ListTypes
<1>1. /\ \A q \in Procs : q # p => edit'[q] = edit[q]
      /\ edit'[p].id = edit[p].id /\ edit'[p].pc = "load" /\ edit'[p].rc = "none"
  BY <1>0 DEF ListTypes, IsEdit
<1>2. ListTypes'
  BY <1>0 DEF ListTypes, IsEdit
<1>3. cmd[p].op = "commit"
  BY <1>0 DEF Places
<1>4. Places'
  BY <1>0, <1>1, <1>3 DEF Places
<1>5. Locking'
  BY <1>0, <1>1, <1>3, ScenarioAssumption DEF Locking, ListTypes
<1>6. Kept' /\ Unfound'
  BY <1>0, <1>1 DEF Kept, Unfound
<1> QED
  BY <1>2, <1>4, <1>5, <1>6

\* What a commit loads stays as it is while it has the lock.
LEMMA LoadKeeps ==
  ASSUME AllLock, ListInv, NEW p \in Procs, LoadFromImage(p)
  PROVE  ListInv'
<1> USE DEF ListInv
<1>1. CASE ~lists[edit[p].id].live
  BY <1>1, EndKeeps DEF LoadFromImage
<1>2. CASE lists[edit[p].id].live
  <2> DEFINE next == IF cmd[p].op = "push" THEN "push" ELSE "save"
  <2>0. /\ UNCHANGED <<cmd, lists, named, locks>>
        /\ edit[p].rc = "none" /\ edit[p].pc = "load" /\ edit[p].id \in IDs
        /\ edit' = [edit EXCEPT ![p].list = lists[edit[p].id], ![p].pc = next]
    BY <1>2 DEF LoadFromImage, At, Places, ListTypes
  <2>1. /\ \A q \in Procs : q # p => edit'[q] = edit[q]
        /\ edit'[p].id = edit[p].id /\ edit'[p].pc = next /\ edit'[p].rc = "none"
        /\ edit'[p].list = lists[edit[p].id]
    BY <2>0 DEF ListTypes, IsEdit
  <2>2. ListTypes'
    BY <2>0 DEF ListTypes, IsEdit
  <2>3. cmd[p].op \in {"commit", "push"}
    BY <2>0 DEF Places
  <2>4. Places'
    <3>1. /\ cmd[p].op = "commit" => next = "save"
          /\ cmd[p].op = "push" => next = "push"
          /\ edit'[p].id # None
      BY <2>0, <2>1 DEF Places
    <3> HIDE DEF next
    <3> QED
      BY <2>0, <2>1, <2>3, <3>1, ZenonT(60) DEF Places
  <2>6. Kept'
    BY <2>0, <2>1, <2>3, ZenonT(60) DEF Kept
  <2>7. Unfound'
    BY Zenon, <2>0, <2>1, <2>3 DEF Unfound
  <2>5. Locking'
    <3>1. cmd[p].op = "commit" => locks[edit[p].id] = p
      BY <2>0 DEF Locking
    <3>2. lists'[edit'[p].id].live /\ edit'[p].list = lists'[edit'[p].id]
      BY <1>2, <2>0, <2>1
    <3>3. cmd'[p].op = "commit" => locks'[edit'[p].id] = p
      BY <2>0, <2>1, <3>1
    <3>4. \A q \in Procs : q # p => UNCHANGED <<edit[q], cmd[q], lists[edit[q].id], locks[edit[q].id]>>
      BY Zenon, <2>0, <2>1
    <3> QED
      BY <3>2, <3>3, <3>4 DEF Locking
  <2> QED
    BY <2>2, <2>4, <2>5, <2>6, <2>7
<1> QED
  BY <1>1, <1>2

\* The first commit of a list: nobody has found a list yet.
LEMMA CreateKeeps ==
  ASSUME AllLock, ListInv, NEW p \in Procs, CreateList(p)
  PROVE  ListInv'
<1> USE DEF ListInv
<1>0. cmd[p].op = "commit" /\ edit[p].pc = "create" /\ named = None /\ p \in IDs
  BY Writers DEF CreateList, At, Places, IDs
<1> DEFINE created == [Fresh EXCEPT !.entries = {edit[p].image}]
<1>1. /\ UNCHANGED <<cmd, locks>> /\ named' = p
      /\ lists' = [lists EXCEPT ![p] = created]
      /\ edit' = [edit EXCEPT ![p].id = p, ![p].list = created, ![p].pc = "save", ![p].rc = "ok"]
  BY <1>0 DEF CreateList
<1>2. IsList(created) /\ created.live /\ created.entries = {edit[p].image}
  BY DEF IsList, Fresh, Gone
<1> HIDE DEF created
<1>3. /\ \A q \in Procs : q # p => edit'[q] = edit[q]
      /\ edit'[p].id = p /\ edit'[p].pc = "save" /\ edit'[p].rc = "ok"
      /\ edit'[p].image = edit[p].image
      /\ lists'[p] = created
  BY <1>0, <1>1 DEF ListTypes, IsEdit
<1>4. ListTypes'
  BY <1>0, <1>1, <1>2 DEF ListTypes, IsEdit
<1>5. Places'
  BY <1>0, <1>1, <1>3, ZenonT(60) DEF Places
<1>6. Locking'
  BY <1>0, <1>1, <1>3, ZenonT(60) DEF Locking, Places, Unfound
<1>7. Kept'
  <2>1. \A q \in Procs : q # p => ~(cmd[q].op = "commit" /\ edit[q].rc = "ok")
    BY <1>0 DEF Kept, Unfound
  <2>2. p # None
    BY ScenarioAssumption
  <2>3. /\ lists'[edit'[p].id].live
        /\ edit'[p].image \in lists'[edit'[p].id].entries
    BY <1>2, <1>3
  <2> QED
    BY ZenonT(30), <1>1, <1>3, <2>1, <2>2, <2>3 DEF Kept
<1>8. Unfound'
  BY <1>1, ScenarioAssumption DEF Unfound
<1> QED
  BY <1>4, <1>5, <1>6, <1>7, <1>8

\* The name was taken in the meantime: the commit fails.
LEMMA DuplicateKeeps ==
  ASSUME AllLock, ListInv, NEW p \in Procs, DuplicateName(p)
  PROVE  ListInv'
<1> USE DEF ListInv
<1> QED
  BY EndKeeps, Writers DEF DuplicateName

\* A commit that can not write its entry fails.
LEMMA EditFailsKeeps ==
  ASSUME AllLock, ListInv, NEW p \in Procs, EditFails(p)
  PROVE  ListInv'
BY EndKeeps, Writers DEF EditFails

\* The commit that has the lock saves the list with its own entry added: the
\* entries of other commits stay, and no other commit is about to save.
LEMMA SaveKeeps ==
  ASSUME AllLock, ListInv, NEW p \in Procs, SaveToImage(p)
  PROVE  ListInv'
<1> USE DEF ListInv
<1> DEFINE i == edit[p].id
           new == Edited(p)
<1>0. /\ cmd[p].op = "commit" /\ edit[p].rc = "none" /\ edit[p].pc = "save" /\ i \in IDs /\ i # None
  BY Writers DEF SaveToImage, At, Places, ListTypes
<1>1. locks[i] = p /\ lists[i].live /\ edit[p].list = lists[i]
  BY <1>0 DEF Locking
<1>2. /\ UNCHANGED <<cmd, named>>
      /\ lists' = [lists EXCEPT ![i] = new]
      /\ edit' = [edit EXCEPT ![p].id = i, ![p].list = new, ![p].pc = "save", ![p].rc = "ok"]
      /\ locks' = Unlocked(p)
  BY Zenon, <1>0 DEF SaveToImage
<1>3. new = [lists[i] EXCEPT !.entries = @ \cup {edit[p].image}]
  BY <1>0, <1>1 DEF Edited
<1>4. /\ IsList(new) /\ new.live
      /\ new.entries = lists[i].entries \cup {edit[p].image}
  BY <1>0, <1>1, <1>3 DEF IsList, ListTypes
<1> HIDE DEF new
<1>5. /\ \A q \in Procs : q # p => edit'[q] = edit[q]
      /\ edit'[p].id = i /\ edit'[p].pc = "save" /\ edit'[p].rc = "ok"
      /\ edit'[p].image = edit[p].image
      /\ lists'[i] = new /\ \A j \in IDs : j # i => lists'[j] = lists[j]
      /\ \A j \in IDs : locks'[j] = IF locks[j] = p THEN None ELSE locks[j]
  BY <1>0, <1>2 DEF ListTypes, IsEdit, Unlocked
<1>6. ListTypes'
  BY <1>0, <1>2, <1>4 DEF ListTypes, IsEdit, Unlocked
<1>7. Places'
  <2> HIDE DEF i
  <2> QED
    BY <1>0, <1>2, <1>5, ZenonT(60) DEF Places
<1>8. Locking'
  <2> SUFFICES ASSUME NEW q \in Procs, cmd'[q].op = "commit", edit'[q].rc = "none",
                      edit'[q].pc \in {"load", "save"}
               PROVE  /\ locks'[edit'[q].id] = q
                      /\ edit'[q].pc = "save" => /\ lists'[edit'[q].id].live
                                                 /\ edit'[q].list = lists'[edit'[q].id]
    BY DEF Locking
  <2>1. q # p /\ edit'[q] = edit[q] /\ cmd[q].op = "commit"
    BY Zenon, <1>2, <1>5
  <2>2. edit[q].id \in IDs
    BY <2>1 DEF Places, ListTypes
  <2>3. /\ locks[edit[q].id] = q
        /\ edit[q].pc = "save" => lists[edit[q].id].live /\ edit[q].list = lists[edit[q].id]
    BY <2>1 DEF Locking
  <2>4. edit[q].id # i
    BY <1>1, <2>1, <2>3
  <2> QED
    BY <1>5, <2>1, <2>2, <2>3, <2>4
<1>9. Kept'
  BY <1>0, <1>2, <1>4, <1>5, ZenonT(60) DEF Kept, ListTypes
<1>10. Unfound'
  BY <1>0, <1>2, <1>5 DEF Unfound
<1> QED
  BY <1>6, <1>7, <1>8, <1>9, <1>10

\* A push that leaves the list in place only reads it.
LEMMA PushKeeps ==
  ASSUME AllLock, ListInv, NEW p \in Procs, PushList(p)
  PROVE  ListInv'
<1> USE DEF ListInv
<1>0. cmd[p].op = "push" /\ ~cmd[p].rm /\ edit[p].rc = "none" /\ edit[p].pc = "push"
  BY Writers DEF PushList, At, Places
<1>1. CASE End(p, IF cmd[p].digestfile THEN "ok" ELSE "err")
  BY <1>0, <1>1, EndKeeps DEF PushList
<1>2. CASE edit' = [edit EXCEPT ![p].pushed = TRUE, ![p].rc = "ok"] /\ UNCHANGED locks
  <2>0. /\ UNCHANGED <<cmd, lists, named, locks>>
    BY <1>2 DEF PushList
  <2>1. /\ \A q \in Procs : q # p => edit'[q] = edit[q]
        /\ edit'[p].id = edit[p].id /\ edit'[p].pc = edit[p].pc /\ edit'[p].rc = "ok"
    BY <1>2 DEF ListTypes, IsEdit
  <2>2. ListTypes'
    BY <1>2, <2>0 DEF ListTypes, IsEdit
  <2>3. Places' /\ Locking' /\ Kept' /\ Unfound'
    BY <1>0, <2>0, <2>1 DEF Places, Locking, Kept, Unfound
  <2> QED
    BY <2>2, <2>3
<1> QED
  BY Zenon, <1>0, <1>1, <1>2 DEF PushList

\* A commit that has written its image starts to look for the list.
LEMMA AddKeeps ==
  ASSUME AllLock, ListInv, NEW p \in Procs, NEW image, AddManifest(p, image)
  PROVE  ListInv'
<1> USE DEF ListInv
<1>0. /\ UNCHANGED <<cmd, lists, named, locks>>
      /\ cmd[p].op = "commit" /\ edit[p].rc = "none"
      /\ edit' = [edit EXCEPT ![p].pc = "lookup", ![p].image = image]
  BY DEF AddManifest, At
<1>1. /\ \A q \in Procs : q # p => edit'[q] = edit[q]
      /\ edit'[p].id = edit[p].id /\ edit'[p].pc = "lookup" /\ edit'[p].rc = "none"
  BY <1>0 DEF ListTypes, IsEdit
<1>2. ListTypes'
  BY <1>0 DEF ListTypes, IsEdit
<1>3. Places'
  BY <1>0, <1>1, ZenonT(60) DEF Places
<1>4. Locking'
  BY ZenonT(30), <1>0, <1>1 DEF Locking
<1>5. Kept'
  BY ZenonT(60), <1>0, <1>1 DEF Kept
<1>6. Unfound'
  BY ZenonT(30), <1>0, <1>1 DEF Unfound
<1> QED
  BY <1>2, <1>3, <1>4, <1>5, <1>6

\* One lemma per step on lists, put together.
LEMMA StepKeeps ==
  ASSUME AllLock, ListInv, NEW p \in Procs,
         EditStep(p) \/ CrashEditor(p) \/ \E image : AddManifest(p, image)
  PROVE  ListInv'
<1>1. ASSUME NEW image, AddManifest(p, image) PROVE ListInv'
  BY <1>1, AddKeeps
<1>2. CASE CrashEditor(p)
  BY <1>2, EndKeeps DEF CrashEditor
<1>3. CASE EditStep(p)
  <2>1. edit[p].pc \notin {"reload", "delete", "build"} /\ cmd[p].op # "build"
    BY Writers DEF ListInv, Places
  <2> QED
    BY ZenonT(60), <1>3, <2>1, LookupKeeps, UnknownKeeps, LockKeeps, LoadKeeps, CreateKeeps, DuplicateKeeps,
       EditFailsKeeps, SaveKeeps, PushKeeps
    DEF EditStep, ReloadList, DeleteList, BuildsWait, BuildReturns, PlatformBuilt, PlatformFails, At
<1> QED
  BY <1>1, <1>2, <1>3

\* At the start nobody has found a list, and nobody holds a lock.
LEMMA InitKeeps ==
  ASSUME Init, AllLock
  PROVE  ListInv
<1> PICK s \in Scenarios : InitLists(s.cmd, s.list)
  BY DEF Init
<1>0. s.list \in [live : BOOLEAN, entries : SUBSET Images, noted : SUBSET Images]
  BY ScenarioAssumption
<1>1. /\ edit = [p \in Procs |-> InitEdit(cmd[p])]
      /\ lists = [i \in IDs |-> IF i = Stored THEN s.list ELSE Gone]
      /\ named = IF s.list.live THEN Stored ELSE None
      /\ locks = [i \in IDs |-> None]
  BY DEF InitLists
<1>2. \A p \in Procs : /\ edit[p].pc = Start(cmd[p].op) /\ edit[p].id = None
                        /\ edit[p].rc = "none" /\ edit[p].list = Gone /\ IsEdit(edit[p])
  BY <1>1 DEF InitEdit, IsEdit
<1>3. ListTypes
  BY <1>0, <1>1, <1>2 DEF ListTypes, IsList, Gone, IDs
<1>4. Places
  BY <1>2, Writers DEF Places, Start
<1>5. Locking
  BY <1>2, <1>4 DEF Locking, Start
<1>6. Kept /\ Unfound
  BY Zenon, <1>2 DEF Kept, Unfound
<1> QED
  BY <1>3, <1>4, <1>5, <1>6 DEF ListInv

\* A step on lists leaves what the processes were asked to do alone.
LEMMA CmdFixed ==
  ASSUME NEW p \in Procs, EditStep(p) \/ CrashEditor(p) \/ \E image : AddManifest(p, image)
  PROVE  UNCHANGED cmd
BY Zenon DEF EditStep, LookupManifestList, ListUnknown, LockList, LoadFromImage, CreateList, DuplicateName,
       EditFails, SaveToImage, ReloadList, DeleteList, PushList, BuildsWait, BuildReturns,
       PlatformBuilt, PlatformFails, CrashEditor, AddManifest

\* Every step of the system is a step on lists, or leaves the lists alone.
LEMMA ListSteps ==
  ASSUME [Next]_vars
  PROVE  \/ UNCHANGED listVars
         \/ \E p \in Procs : EditStep(p) \/ CrashEditor(p) \/ \E image : AddManifest(p, image)
<1>1. CASE UNCHANGED vars \/ Terminated
  BY <1>1 DEF vars, listVars, Terminated
<1>2. ASSUME NEW p \in Procs, Crash(p)
      PROVE  CrashEditor(p) \/ UNCHANGED listVars
  BY <1>2 DEF Crash
<1>3. ASSUME NEW p \in Procs, Step(p)
      PROVE  \/ UNCHANGED listVars
             \/ EditStep(p) \/ \E image : AddManifest(p, image)
  <2>1. CASE EditLists(p)
    BY <2>1 DEF EditLists
  <2>2. CASE CommitAddsManifest(p)
    BY Zenon, <2>2 DEF CommitAddsManifest
  <2>3. CASE \/ Begin(p) \/ OpenBuilder(p) \/ ImportBuilder(p) \/ ListContainers(p) \/ AllRead(p)
             \/ (\E c \in CIDs : ReadState(p, c)) \/ TakeNext(p) \/ ContainerVanished(p)
    BY ZenonT(30), <2>3 DEF Begin, OpenBuilder, ImportBuilder, ListContainers, AllRead, ReadState, TakeNext,
                ContainerVanished
  <2>4. CASE \/ Mount(p) \/ Unmount(p) \/ Mounted(p) \/ UpdateConfig(p) \/ RenameCheck(p)
             \/ SetNames(p) \/ Delete(p) \/ SaveBuilder(p)
    BY ZenonT(60), <2>4 DEF Mount, Unmount, Mounted, UpdateConfig, RenameCheck, SetNames, Delete, SaveBuilder
  <2>5. CASE \/ ChooseName(p) \/ CreateContainer(p) \/ NameConflict(p) \/ MountNew(p)
             \/ InitConfig(p) \/ SaveNew(p) \/ OnBuild(p)
    BY <2>5 DEF ChooseName, CreateContainer, NameConflict, MountNew, InitConfig, SaveNew, OnBuild
  <2>6. CASE \/ CopyImage(p) \/ LocateImage(p) \/ RemoveTempName(p) \/ ManifestAdded(p)
             \/ FinishCommit(p)
    BY <2>6 DEF CopyImage, LocateImage, RemoveTempName, ManifestAdded, FinishCommit
  <2> QED
    BY <1>3, <2>1, <2>2, <2>3, <2>4, <2>5, <2>6 DEF Step
<1> QED
  BY <1>1, <1>2, <1>3 DEF Next

\* ListInv is inductive as long as every writer takes the lock.
LEMMA NextKeeps ==
  ASSUME [Next]_vars, AllLock => ListInv
  PROVE  (AllLock => ListInv)'
<1>1. CASE UNCHANGED listVars
  BY <1>1 DEF listVars, AllLock, Lockless, ListInv, ListTypes, Places, Locking, Kept, Unfound
<1>2. ASSUME NEW p \in Procs, EditStep(p) \/ CrashEditor(p) \/ \E image : AddManifest(p, image)
      PROVE  (AllLock => ListInv)'
  <2>1. AllLock' => AllLock
    BY <1>2, CmdFixed DEF AllLock, Lockless
  <2> QED
    BY <1>2, <2>1, StepKeeps
<1> QED
  BY ZenonT(60), <1>1, <1>2, ListSteps

\* Commits that run at the same time lose no entry of the manifest list they
\* share (addManifest, commit.go): for every number of processes, and whatever
\* fails or is killed, what a successful one put in the list stays there, when
\* every process that writes to the list takes its lock.
THEOREM CommitsKeepEntries == Spec => []EntriesKept
<1>1. Init => (AllLock => ListInv)
  BY InitKeeps
<1>2. (AllLock => ListInv) /\ [Next]_vars => (AllLock => ListInv)'
  BY NextKeeps
<1>3. (AllLock => ListInv) => EntriesKept
  BY DEF AllLock, ListInv, Kept, EntriesKept
<1> QED
  BY <1>1, <1>2, <1>3, PTL DEF Spec

-----------------------------------------------------------------------------
(***************************************************************************)
(* A build for several platforms, next to any other commands.  Its list is *)
(* its own as long as no other process has made a call: then what the      *)
(* build has in memory is the list in storage, with what its edits so far  *)
(* have put in.                                                            *)
(***************************************************************************)
AtStart(q) == edit[q].rc = "none" /\ edit[q].pc = Start(cmd[q].op)
Undisturbed(p) == \A q \in Procs \ {p} : AtStart(q)

\* Storage knows of no list with the ID that p would give one.
Unlisted(p) == ~lists[p].live /\ named # p /\ \A q \in Procs : edit[q].id # p

\* What n edits have put in the list: the k-th instance, then its platform.
Covers(built, list, n) ==
  \A k \in 1 .. Len(built) : /\ 2 * k <= n + 1 => built[k] \in list.entries
                             /\ 2 * k <= n => built[k] \in list.noted

EditTypes ==
  /\ DOMAIN lists = IDs /\ named \in IDs \cup {None}
  /\ DOMAIN edit = Procs
  /\ \A q \in Procs : /\ IsEdit(edit[q]) /\ edit[q].id \in IDs \cup {None}
                      /\ edit[q].pc = "build" => cmd[q].op = "build"

\* Where a build may be.
BuildPlace(p) ==
  /\ edit[p].pc \in {"build", "lookup", "create", "save", "reload"}
  /\ edit[p].built \in Seq(Images) /\ edit[p].at \in Nat
  /\ edit[p].pc \in {"build", "lookup", "create"} => edit[p].at = 0
  /\ edit[p].pc = "build" => edit[p].id = None
  /\ edit[p].pc # "build" =>
       /\ edit[p].failed = {}
       /\ \A x \in cmd[p].platforms : \E k \in 1 .. Len(edit[p].built) : edit[p].built[k] = x
  /\ edit[p].rc = "ok" /\ cmd[p].manifest => edit[p].pc = "save" /\ BuildDone(p)

\* The edits that a build has saved.
Saved(p) == IF edit[p].pc = "reload" THEN edit[p].at + 1 ELSE edit[p].at

BuildWrites(p) ==
  /\ edit[p].pc = "build" => Unlisted(p)
  /\ Undisturbed(p) => \A i \in IDs : IsList(lists[i])
  /\ Undisturbed(p) /\ edit[p].pc \in {"save", "reload"} =>
       /\ edit[p].id \in IDs /\ edit[p].list = lists[edit[p].id]
       /\ Covers(edit[p].built, edit[p].list, Saved(p))

BuildInv(p) == cmd[p].op = "build" => BuildPlace(p) /\ BuildWrites(p)

\* What a step of q does to the lists, whatever it is: it writes at most to the
\* list that q has found or creates, and it is no longer at its start then.
Moves(q) ==
  /\ UNCHANGED cmd
  /\ DOMAIN lists' = DOMAIN lists /\ DOMAIN edit' = DOMAIN edit
  /\ \A r \in Procs \ {q} : edit'[r] = edit[r]
  /\ IsEdit(edit'[q])
  /\ edit'[q].id \in {edit[q].id, named, q}
  /\ named' \in {named, None, q, edit[q].id}
  /\ \A i \in IDs : i # q /\ i # edit[q].id => lists'[i] = lists[i]
  /\ edit'[q].pc = "build" =>
       edit[q].pc = "build" /\ UNCHANGED <<lists, named>> /\ edit'[q].id = edit[q].id
  /\ AtStart(q)' => AtStart(q) /\ UNCHANGED lists

-----------------------------------------------------------------------------
\* A process that only changes its place changes no list.
LEMMA PlaceMoves ==
  ASSUME EditTypes, NEW q \in Procs, UNCHANGED <<cmd, lists, named>>,
         DOMAIN edit' = Procs, \A r \in Procs \ {q} : edit'[r] = edit[r],
         IsEdit(edit'[q]), edit'[q].id \in {edit[q].id, named, q},
         edit'[q].pc = "build" => edit[q].pc = "build" /\ edit'[q].id = edit[q].id,
         AtStart(q)' => AtStart(q)
  PROVE  Moves(q)
  BY Zenon DEF EditTypes, Moves

\* A command that returns
LEMMA EndMoves ==
  ASSUME EditTypes, NEW q \in Procs, UNCHANGED <<cmd, lists, named>>, NEW rc,
         End(q, rc), edit[q].rc = "none"
  PROVE  Moves(q)
<1>1. /\ edit' = [edit EXCEPT ![q] = [edit[q] EXCEPT !.rc = rc]]
      /\ IsEdit(edit[q]) /\ DOMAIN edit = Procs
  BY ZenonT(60) DEF End, EditTypes
<1>2. /\ DOMAIN edit' = Procs /\ \A r \in Procs \ {q} : edit'[r] = edit[r]
      /\ IsEdit(edit'[q]) /\ edit'[q].id = edit[q].id /\ edit'[q].pc = edit[q].pc
  BY ZenonT(60), <1>1 DEF IsEdit
<1>3. AtStart(q)' => AtStart(q)
  BY ZenonT(60), <1>2 DEF AtStart
<1> QED
  BY ZenonT(60), <1>2, <1>3, PlaceMoves

\* A command that goes on, to a place that is not its start
LEMMA GoMoves ==
  ASSUME EditTypes, NEW q \in Procs, UNCHANGED <<cmd, lists, named>>, NEW e,
         edit' = [edit EXCEPT ![q] = e], DOMAIN e = DOMAIN edit[q],
         e.id \in {edit[q].id, named}, e.pc # "build", e.rc = "none" => e.pc # Start(cmd[q].op)
  PROVE  Moves(q)
<1>1. /\ DOMAIN edit' = Procs /\ \A r \in Procs \ {q} : edit'[r] = edit[r]
      /\ edit'[q] = e /\ IsEdit(e)
  BY ZenonT(60) DEF EditTypes, IsEdit
<1>2. ~AtStart(q)'
  BY ZenonT(60), <1>1 DEF AtStart
<1> QED
  BY ZenonT(60), <1>1, <1>2, PlaceMoves

\* A command that writes one list, its own or the one it found
LEMMA WriteMoves ==
  ASSUME EditTypes, NEW q \in Procs, UNCHANGED cmd, NEW e, NEW i \in {q, edit[q].id}, NEW l,
         edit' = [edit EXCEPT ![q] = e], DOMAIN e = DOMAIN edit[q],
         lists' = [lists EXCEPT ![i] = l], named' \in {named, None, q, edit[q].id},
         e.id \in {edit[q].id, q}, e.pc # "build", e.rc = "none" => e.pc # Start(cmd[q].op)
  PROVE  Moves(q)
<1>1. /\ DOMAIN edit' = Procs /\ \A r \in Procs \ {q} : edit'[r] = edit[r]
      /\ edit'[q] = e /\ IsEdit(e)
  BY ZenonT(60) DEF EditTypes, IsEdit
<1>2. ~AtStart(q)'
  BY ZenonT(60), <1>1 DEF AtStart
<1>3. /\ DOMAIN lists' = DOMAIN lists
      /\ \A j \in IDs : j # q /\ j # edit[q].id => lists'[j] = lists[j]
  BY ZenonT(60) DEF EditTypes
<1> QED
  BY ZenonT(60), <1>1, <1>2, <1>3 DEF Moves, EditTypes

\* Every step on lists moves its own process only.
LEMMA EditMoves ==
  ASSUME EditTypes, NEW q \in Procs,
         EditStep(q) \/ CrashEditor(q) \/ \E image : AddManifest(q, image)
  PROVE  Moves(q)
<1>e. IsEdit(edit[q]) /\ DOMAIN edit = Procs
  BY Zenon DEF EditTypes
<1>s. /\ \A op : Start(op) \notin {"save", "load", "lock", "reload", "delete", "push"}
      /\ Start("create") # "lookup" /\ Start("commit") \notin {"lookup", "create"}
      /\ Start("build") \notin {"lookup", "create"}
  BY DEF Start
<1>a. \A op : AfterLookup(op) \in {"lock", "save", "delete", "load"}
  BY DEF AfterLookup
<1>1. ASSUME NEW image, AddManifest(q, image) PROVE Moves(q)
  <2> DEFINE e == [edit[q] EXCEPT !.pc = "lookup", !.image = image]
  <2>1. /\ edit' = [edit EXCEPT ![q] = e] /\ UNCHANGED <<cmd, lists, named>>
        /\ cmd[q].op = "commit"
    BY ZenonT(60), <1>1, <1>e DEF AddManifest
  <2>2. DOMAIN e = DOMAIN edit[q] /\ e.id = edit[q].id /\ e.pc = "lookup"
    BY ZenonT(60), <1>e DEF IsEdit
  <2> QED
    BY ZenonT(60), <1>s, <2>1, <2>2, GoMoves
<1>2. CASE CrashEditor(q)
  BY ZenonT(60), <1>2, EndMoves DEF CrashEditor, Editing
<1>3. CASE LookupManifestList(q)
  <2> DEFINE e == [edit[q] EXCEPT !.id = named, !.list = lists[named], !.pc = AfterLookup(cmd[q].op)]
  <2>1. edit' = [edit EXCEPT ![q] = e] /\ UNCHANGED <<cmd, lists, named>>
    BY ZenonT(60), <1>3, <1>e DEF LookupManifestList
  <2>2. DOMAIN e = DOMAIN edit[q] /\ e.id = named /\ e.pc = AfterLookup(cmd[q].op)
    BY ZenonT(60), <1>e DEF IsEdit
  <2>3. e.pc # "build" /\ e.pc # Start(cmd[q].op)
    BY <1>s, <1>a, <2>2
  <2> QED
    BY ZenonT(60), <2>1, <2>2, <2>3, GoMoves
<1>4. CASE ListUnknown(q)
  <2>1. CASE \E rc : End(q, rc)
    BY ZenonT(60), <1>4, <2>1, EndMoves DEF ListUnknown, At
  <2>2. CASE cmd[q].op \in {"commit", "build"} /\ edit' = [edit EXCEPT ![q].pc = "create"]
    <3> DEFINE e == [edit[q] EXCEPT !.pc = "create"]
    <3>1. edit' = [edit EXCEPT ![q] = e] /\ UNCHANGED <<cmd, lists, named>>
      BY ZenonT(60), <1>4, <2>2, <1>e DEF ListUnknown
    <3>2. DOMAIN e = DOMAIN edit[q] /\ e.id = edit[q].id /\ e.pc = "create"
      BY ZenonT(60), <1>e DEF IsEdit
    <3> QED
      BY ZenonT(60), <1>s, <2>2, <3>1, <3>2, GoMoves
  <2>3. CASE edit' = [edit EXCEPT ![q].pc = "save", ![q].list = Fresh]
    <3> DEFINE e == [edit[q] EXCEPT !.pc = "save", !.list = Fresh]
    <3>1. edit' = [edit EXCEPT ![q] = e] /\ UNCHANGED <<cmd, lists, named>>
      BY ZenonT(60), <1>4, <2>3, <1>e DEF ListUnknown
    <3>2. DOMAIN e = DOMAIN edit[q] /\ e.id = edit[q].id /\ e.pc = "save"
      BY ZenonT(60), <1>e DEF IsEdit
    <3> QED
      BY ZenonT(60), <1>s, <3>1, <3>2, GoMoves
  <2> QED
    BY ZenonT(60), <1>4, <2>1, <2>2, <2>3 DEF ListUnknown
<1>5. CASE LockList(q)
  <2> DEFINE e == [edit[q] EXCEPT !.pc = "load"]
  <2>1. edit' = [edit EXCEPT ![q] = e] /\ UNCHANGED <<cmd, lists, named>>
    BY ZenonT(60), <1>5, <1>e DEF LockList
  <2>2. DOMAIN e = DOMAIN edit[q] /\ e.id = edit[q].id /\ e.pc = "load"
    BY ZenonT(60), <1>e DEF IsEdit
  <2> QED
    BY ZenonT(60), <1>s, <2>1, <2>2, GoMoves
<1>6. CASE LoadFromImage(q)
  <2>1. CASE ~lists[edit[q].id].live
    BY ZenonT(60), <1>6, <2>1, EndMoves DEF LoadFromImage, At
  <2>2. CASE lists[edit[q].id].live
    <3> DEFINE to == IF cmd[q].op = "push" THEN "push" ELSE "save"
               e == [edit[q] EXCEPT !.list = lists[edit[q].id], !.pc = to]
    <3>1. edit' = [edit EXCEPT ![q] = e] /\ UNCHANGED <<cmd, lists, named>>
      BY ZenonT(60), <1>6, <2>2, <1>e DEF LoadFromImage
    <3>2. DOMAIN e = DOMAIN edit[q] /\ e.id = edit[q].id /\ e.pc \in {"push", "save"}
      BY ZenonT(60), <1>e DEF IsEdit
    <3> QED
      BY ZenonT(60), <1>s, <3>1, <3>2, GoMoves
  <2> QED
    BY Zenon, <2>1, <2>2
<1>7. CASE CreateList(q)
  <2> DEFINE created == IF cmd[q].op = "commit" THEN [Fresh EXCEPT !.entries = {edit[q].image}]
                                                ELSE Fresh
             rc == IF cmd[q].op = "commit" THEN "ok" ELSE "none"
             e == [edit[q] EXCEPT !.id = q, !.list = created, !.pc = "save", !.rc = rc]
  <2>1. /\ edit' = [edit EXCEPT ![q] = e] /\ UNCHANGED cmd
        /\ lists' = [lists EXCEPT ![q] = created] /\ named' = q
    BY ZenonT(60), <1>7, <1>e DEF CreateList
  <2>2. DOMAIN e = DOMAIN edit[q] /\ e.id = q /\ e.pc = "save"
    BY ZenonT(60), <1>e DEF IsEdit
  <2> HIDE DEF e, created
  <2> QED
    BY ZenonT(60), <1>s, <2>1, <2>2, WriteMoves
<1>8. CASE DuplicateName(q)
  <2>1. CASE cmd[q].op = "create" /\ cmd[q].amend
    <3> DEFINE e == [edit[q] EXCEPT !.pc = "lookup"]
    <3>1. edit' = [edit EXCEPT ![q] = e] /\ UNCHANGED <<cmd, lists, named>>
      BY ZenonT(60), <1>8, <2>1, <1>e DEF DuplicateName
    <3>2. DOMAIN e = DOMAIN edit[q] /\ e.id = edit[q].id /\ e.pc = "lookup"
      BY ZenonT(60), <1>e DEF IsEdit
    <3> QED
      BY ZenonT(60), <1>s, <2>1, <3>1, <3>2, GoMoves
  <2>2. CASE ~(cmd[q].op = "create" /\ cmd[q].amend)
    BY ZenonT(60), <1>8, <2>2, EndMoves DEF DuplicateName, At
  <2> QED
    BY Zenon, <2>1, <2>2
<1>9. CASE EditFails(q)
  BY ZenonT(60), <1>9, EndMoves DEF EditFails, At
<1>10. CASE SaveToImage(q)
  <2> DEFINE i == IF edit[q].id = None THEN q ELSE edit[q].id
             naming == ~lists[i].live /\ cmd[q].op = "create"
             to == IF cmd[q].op \in {"remove", "build"} THEN "reload" ELSE "save"
             rc == IF cmd[q].op \in {"remove", "build"} THEN "none" ELSE "ok"
             e == [edit[q] EXCEPT !.id = i, !.list = Edited(q), !.pc = to, !.rc = rc]
  <2>1. CASE naming /\ named # None
    BY ZenonT(60), <1>10, <2>1, EndMoves DEF SaveToImage, At
  <2>2. CASE ~(naming /\ named # None)
    <3>1. /\ edit' = [edit EXCEPT ![q] = e] /\ UNCHANGED cmd
          /\ lists' = [lists EXCEPT ![i] = Edited(q)] /\ named' \in {named, i}
      BY ZenonT(60), <1>10, <2>2, <1>e DEF SaveToImage
    <3>2. DOMAIN e = DOMAIN edit[q] /\ e.id = i /\ e.pc \in {"reload", "save"}
      BY ZenonT(60), <1>e DEF IsEdit
    <3>3. i \in {q, edit[q].id}
      BY Zenon
    <3> HIDE DEF e, i
    <3> QED
      BY ZenonT(60), <1>s, <3>1, <3>2, <3>3, WriteMoves
  <2> QED
    BY Zenon, <2>1, <2>2
<1>11. CASE ReloadList(q)
  <2>1. CASE ~lists[edit[q].id].live
    BY ZenonT(60), <1>11, <2>1, EndMoves DEF ReloadList, At
  <2>2. CASE lists[edit[q].id].live
    <3> DEFINE rc == IF cmd[q].op = "remove" THEN "ok" ELSE "none"
               e == [edit[q] EXCEPT !.list = lists[edit[q].id], !.at = edit[q].at + 1,
                                    !.pc = "save", !.rc = rc]
    <3>1. edit' = [edit EXCEPT ![q] = e] /\ UNCHANGED <<cmd, lists, named>>
      BY ZenonT(60), <1>11, <2>2, <1>e DEF ReloadList
    <3>2. DOMAIN e = DOMAIN edit[q] /\ e.id = edit[q].id /\ e.pc = "save"
      BY ZenonT(60), <1>e DEF IsEdit
    <3> QED
      BY ZenonT(60), <1>s, <3>1, <3>2, GoMoves
  <2> QED
    BY Zenon, <2>1, <2>2
<1>12. CASE DeleteList(q)
  <2>1. CASE ~lists[edit[q].id].live
    BY ZenonT(60), <1>12, <2>1, EndMoves DEF DeleteList, At
  <2>2. CASE lists[edit[q].id].live
    <3> DEFINE e == [edit[q] EXCEPT !.rc = "ok"]
    <3>1. /\ edit' = [edit EXCEPT ![q] = e] /\ UNCHANGED cmd
          /\ lists' = [lists EXCEPT ![edit[q].id] = Gone] /\ named' \in {named, None}
      BY ZenonT(60), <1>12, <2>2, <1>e DEF DeleteList, End
    <3>2. DOMAIN e = DOMAIN edit[q] /\ e.id = edit[q].id /\ e.pc = "delete"
      BY ZenonT(60), <1>12, <1>e DEF IsEdit, DeleteList, At
    <3> HIDE DEF e
    <3> QED
      BY ZenonT(60), <1>s, <3>1, <3>2, WriteMoves
  <2> QED
    BY Zenon, <2>1, <2>2
<1>13. CASE PushList(q)
  <2>1. CASE \E rc : End(q, rc)
    BY ZenonT(60), <1>13, <2>1, EndMoves DEF PushList, At
  <2>2. CASE edit' = [edit EXCEPT ![q].pushed = TRUE, ![q].pc = "delete"]
    <3> DEFINE e == [edit[q] EXCEPT !.pushed = TRUE, !.pc = "delete"]
    <3>1. edit' = [edit EXCEPT ![q] = e] /\ UNCHANGED <<cmd, lists, named>>
      BY ZenonT(60), <1>13, <2>2, <1>e DEF PushList
    <3>2. DOMAIN e = DOMAIN edit[q] /\ e.id = edit[q].id /\ e.pc = "delete"
      BY ZenonT(60), <1>e DEF IsEdit
    <3> QED
      BY ZenonT(60), <1>s, <3>1, <3>2, GoMoves
  <2>3. CASE edit' = [edit EXCEPT ![q].pushed = TRUE, ![q].rc = "ok"]
    <3> DEFINE e == [edit[q] EXCEPT !.pushed = TRUE, !.rc = "ok"]
    <3>1. edit' = [edit EXCEPT ![q] = e] /\ UNCHANGED <<cmd, lists, named>>
      BY ZenonT(60), <1>13, <2>3, <1>e DEF PushList
    <3>2. DOMAIN e = DOMAIN edit[q] /\ e.id = edit[q].id /\ e.pc = "push"
      BY ZenonT(60), <1>13, <1>e DEF IsEdit, PushList, At
    <3> QED
      BY ZenonT(60), <1>s, <3>1, <3>2, GoMoves
  <2> QED
    BY ZenonT(60), <1>13, <2>1, <2>2, <2>3 DEF PushList
<1>14. CASE BuildsWait(q)
  <2>1. CASE edit[q].failed # {}
    BY ZenonT(60), <1>14, <2>1, EndMoves DEF BuildsWait, At
  <2>2. CASE edit[q].failed = {}
    <3> DEFINE to == IF cmd[q].manifest THEN "lookup" ELSE "build"
               rc == IF cmd[q].manifest THEN "none" ELSE "ok"
               e == [edit[q] EXCEPT !.image = edit[q].built[1], !.pc = to, !.rc = rc]
    <3>1. edit' = [edit EXCEPT ![q] = e] /\ UNCHANGED <<cmd, lists, named>>
      BY ZenonT(60), <1>14, <2>2, <1>e DEF BuildsWait
    <3>2. DOMAIN e = DOMAIN edit[q] /\ e.id = edit[q].id /\ e.pc = to /\ e.rc = rc
      BY ZenonT(60), <1>e DEF IsEdit
    <3>3. edit[q].pc = "build" /\ cmd[q].op = "build"
      BY Zenon, <1>14 DEF BuildsWait, At, EditTypes
    <3>4. /\ DOMAIN edit' = Procs /\ \A r \in Procs \ {q} : edit'[r] = edit[r]
          /\ edit'[q] = e /\ IsEdit(e)
      BY ZenonT(60), <1>e, <3>1, <3>2 DEF IsEdit
    <3>5. ~AtStart(q)'
      BY <1>s, <3>1, <3>2, <3>3, <3>4 DEF AtStart
    <3> QED
      BY ZenonT(60), <3>1, <3>2, <3>3, <3>4, <3>5, PlaceMoves
  <2> QED
    BY Zenon, <2>1, <2>2
<1>15. CASE BuildReturns(q)
  BY ZenonT(60), <1>15, EndMoves DEF BuildReturns, At
<1>16. ASSUME NEW x, PlatformBuilt(q, x) \/ PlatformFails(q, x) PROVE Moves(q)
  <2> DEFINE e == IF PlatformBuilt(q, x) THEN [edit[q] EXCEPT !.built = Append(edit[q].built, x)]
                                         ELSE [edit[q] EXCEPT !.failed = edit[q].failed \cup {x}]
  <2>1. edit' = [edit EXCEPT ![q] = e] /\ UNCHANGED <<cmd, lists, named>>
    BY ZenonT(60), <1>16, <1>e DEF PlatformBuilt, PlatformFails
  <2>2. e.id = edit[q].id /\ e.pc = edit[q].pc /\ e.rc = edit[q].rc /\ IsEdit(e)
    BY ZenonT(60), <1>e DEF IsEdit
  <2> HIDE DEF e
  <2>3. DOMAIN edit' = Procs /\ (\A r \in Procs \ {q} : edit'[r] = edit[r]) /\ edit'[q] = e
    BY ZenonT(60), <1>e, <2>1
  <2>4. AtStart(q)' => AtStart(q)
    BY ZenonT(60), <2>1, <2>2, <2>3 DEF AtStart
  <2> QED
    BY ZenonT(60), <2>1, <2>2, <2>3, <2>4, PlaceMoves
<1> QED
  BY ZenonT(60), <1>1, <1>2, <1>3, <1>4, <1>5, <1>6, <1>7, <1>8, <1>9, <1>10, <1>11, <1>12, <1>13,
     <1>14, <1>15, <1>16 DEF EditStep

-----------------------------------------------------------------------------
LEMMA MovesTypes ==
  ASSUME EditTypes, NEW q \in Procs, Moves(q)
  PROVE  EditTypes'
<1>1. q \in IDs
  BY DEF IDs
<1>2. named' \in IDs \cup {None} /\ edit'[q].id \in IDs \cup {None}
  BY ZenonT(60), <1>1 DEF EditTypes, Moves
<1>3. ASSUME NEW r \in Procs
      PROVE  /\ IsEdit(edit'[r]) /\ edit'[r].id \in IDs \cup {None}
             /\ edit'[r].pc = "build" => cmd'[r].op = "build"
  <2>1. CASE r = q
    BY ZenonT(60), <1>2, <2>1 DEF EditTypes, Moves
  <2>2. CASE r # q
    BY ZenonT(60), <2>2 DEF EditTypes, Moves
  <2> QED
    BY Zenon, <2>1, <2>2
<1> QED
  BY ZenonT(60), <1>2, <1>3 DEF EditTypes, Moves

\* A step of another process leaves a build what it has; once it is no longer
\* at its start nothing is claimed of the list.
LEMMA OthersMove ==
  ASSUME EditTypes, NEW p \in Procs, NEW q \in Procs, p # q, Moves(q), BuildInv(p)
  PROVE  BuildInv(p)'
<1> SUFFICES ASSUME cmd[p].op = "build"
             PROVE  (BuildPlace(p) /\ BuildWrites(p))'
  BY Zenon DEF Moves, BuildInv
<1>0. edit'[p] = edit[p] /\ UNCHANGED cmd /\ p \in IDs /\ None # p /\ p # None
  BY ScenarioAssumption DEF Moves, IDs
<1>1. BuildPlace(p)'
  BY ZenonT(60), <1>0 DEF BuildInv, BuildPlace, BuildDone
<1>2. Unlisted(p) => Unlisted(p)'
  <2> SUFFICES ASSUME Unlisted(p) PROVE Unlisted(p)'
    BY Zenon
  <2>1. lists'[p] = lists[p] /\ named' # p /\ edit'[q].id # p
    <3>1. p # edit[q].id /\ named # p
      BY Zenon DEF Unlisted
    <3> QED
      BY ZenonT(60), <1>0, <3>1 DEF Moves
  <2>2. \A r \in Procs : edit'[r].id # p
    BY ZenonT(60), <2>1 DEF Unlisted, Moves
  <2> QED
    BY ZenonT(60), <2>1, <2>2 DEF Unlisted
<1>3. Undisturbed(p)' => Undisturbed(p) /\ UNCHANGED lists
  <2>1. \A r \in Procs \ {q} : AtStart(r)' => AtStart(r)
    BY ZenonT(60) DEF AtStart, Moves
  <2>2. AtStart(q)' => AtStart(q) /\ UNCHANGED lists
    BY Zenon DEF Moves
  <2> QED
    BY ZenonT(60), <2>1, <2>2 DEF Undisturbed
<1>4. Saved(p)' = Saved(p)
  BY Zenon, <1>0 DEF Saved
<1> QED
  BY ZenonT(60), <1>0, <1>1, <1>2, <1>3, <1>4 DEF BuildInv, BuildWrites, Covers

-----------------------------------------------------------------------------
\* The steps of a build.  The other processes stay where they are.
LEMMA OwnMove ==
  ASSUME NEW p \in Procs, Moves(p)
  PROVE  Undisturbed(p)' => Undisturbed(p)
<1>1. \A q \in Procs \ {p} : AtStart(q)' => AtStart(q)
  BY ZenonT(60) DEF AtStart, Moves
<1> QED
  BY ZenonT(60), <1>1 DEF Undisturbed

\* The build returns, or is killed.
LEMMA BuildEnds ==
  ASSUME EditTypes, NEW p \in Procs, BuildPlace(p), BuildWrites(p), Moves(p),
         NEW rc, End(p, rc), UNCHANGED <<cmd, lists, named>>,
         rc = "ok" /\ cmd[p].manifest => edit[p].pc = "save" /\ BuildDone(p)
  PROVE  (BuildPlace(p) /\ BuildWrites(p))'
<1>1. edit' = [edit EXCEPT ![p] = [edit[p] EXCEPT !.rc = rc]] /\ IsEdit(edit[p]) /\ DOMAIN edit = Procs
  BY ZenonT(60) DEF End, EditTypes
<1>2. /\ edit'[p].pc = edit[p].pc /\ edit'[p].id = edit[p].id /\ edit'[p].list = edit[p].list
      /\ edit'[p].built = edit[p].built /\ edit'[p].at = edit[p].at
      /\ edit'[p].failed = edit[p].failed /\ edit'[p].rc = rc
  BY ZenonT(60), <1>1 DEF IsEdit
<1>3. \A q \in Procs : edit'[q].id = edit[q].id
  BY ZenonT(60), <1>2 DEF Moves
<1>4. BuildPlace(p)'
  BY ZenonT(60), <1>2 DEF BuildPlace, BuildDone
<1>5. Unlisted(p) => Unlisted(p)'
  BY ZenonT(60), <1>3 DEF Unlisted
<1>6. Saved(p)' = Saved(p)
  BY Zenon, <1>2 DEF Saved
<1> QED
  BY ZenonT(60), <1>2, <1>4, <1>5, <1>6, OwnMove DEF BuildWrites, Covers

\* A platform has been built, or could not be built.
LEMMA PlatformEnds ==
  ASSUME EditTypes, NEW p \in Procs, BuildPlace(p), BuildWrites(p), Moves(p),
         NEW x \in Images, PlatformBuilt(p, x) \/ PlatformFails(p, x)
  PROVE  (BuildPlace(p) /\ BuildWrites(p))'
<1>0. IsEdit(edit[p]) /\ DOMAIN edit = Procs /\ edit[p].built \in Seq(Images)
  BY Zenon DEF EditTypes, BuildPlace
<1>1. Append(edit[p].built, x) \in Seq(Images)
  BY <1>0
<1>2. /\ edit[p].pc = "build" /\ edit[p].rc = "none" /\ UNCHANGED <<cmd, lists, named>>
      /\ edit'[p].pc = edit[p].pc /\ edit'[p].rc = edit[p].rc /\ edit'[p].id = edit[p].id
      /\ edit'[p].at = edit[p].at
      /\ edit'[p].built \in {edit[p].built, Append(edit[p].built, x)}
  <2>1. CASE PlatformBuilt(p, x)
    BY ZenonT(60), <1>0, <2>1 DEF PlatformBuilt, At, IsEdit
  <2>2. CASE PlatformFails(p, x)
    BY ZenonT(60), <1>0, <2>2 DEF PlatformFails, At, IsEdit
  <2> QED
    BY Zenon, <2>1, <2>2
<1>3. \A q \in Procs : edit'[q].id = edit[q].id
  BY ZenonT(60), <1>2 DEF Moves
<1>4. BuildPlace(p)'
  BY ZenonT(60), <1>0, <1>1, <1>2 DEF BuildPlace
<1>5. Unlisted(p)'
  BY ZenonT(60), <1>2, <1>3 DEF BuildWrites, Unlisted
<1> QED
  BY ZenonT(60), <1>2, <1>4, <1>5, OwnMove DEF BuildWrites

\* All platforms have been built: the build goes on to the list, if it has one.
LEMMA AllBuilt ==
  ASSUME EditTypes, NEW p \in Procs, BuildPlace(p), BuildWrites(p), Moves(p),
         BuildsWait(p), edit[p].failed = {}
  PROVE  (BuildPlace(p) /\ BuildWrites(p))'
<1>0. /\ IsEdit(edit[p]) /\ DOMAIN edit = Procs /\ edit[p].pc = "build"
      /\ UNCHANGED <<cmd, lists, named>>
  BY Zenon DEF EditTypes, BuildsWait, At
<1>1. /\ edit'[p].pc = IF cmd[p].manifest THEN "lookup" ELSE "build"
      /\ edit'[p].rc = IF cmd[p].manifest THEN "none" ELSE "ok"
      /\ edit'[p].id = edit[p].id /\ edit'[p].at = edit[p].at
      /\ edit'[p].built = edit[p].built /\ edit'[p].failed = edit[p].failed
  <2> DEFINE to == IF cmd[p].manifest THEN "lookup" ELSE "build"
             rc == IF cmd[p].manifest THEN "none" ELSE "ok"
             e == [edit[p] EXCEPT !.image = edit[p].built[1], !.pc = to, !.rc = rc]
  <2>1. edit' = [edit EXCEPT ![p] = e]
    BY ZenonT(60), <1>0 DEF BuildsWait
  <2>2. edit'[p] = e
    BY ZenonT(60), <1>0, <2>1
  <2> HIDE DEF to, rc
  <2>3. /\ e.pc = to /\ e.rc = rc /\ e.id = edit[p].id /\ e.at = edit[p].at
        /\ e.built = edit[p].built /\ e.failed = edit[p].failed
    BY ZenonT(60), <1>0 DEF IsEdit
  <2> QED
    BY ZenonT(60), <2>2, <2>3 DEF to, rc
<1>2. \A x \in cmd[p].platforms : \E k \in 1 .. Len(edit[p].built) : edit[p].built[k] = x
  <2>1. DOMAIN edit[p].built = 1 .. Len(edit[p].built)
    BY DEF BuildPlace
  <2> QED
    BY ZenonT(60), <2>1 DEF BuildsWait, Building
<1>3. \A q \in Procs : edit'[q].id = edit[q].id
  BY ZenonT(60), <1>1 DEF Moves
<1>4. BuildPlace(p)'
  BY ZenonT(60), <1>0, <1>1, <1>2 DEF BuildPlace
<1>5. Unlisted(p)'
  BY ZenonT(60), <1>0, <1>3 DEF BuildWrites, Unlisted
<1>6. edit'[p].pc \notin {"save", "reload"}
  BY <1>1
<1> QED
  BY ZenonT(60), <1>0, <1>4, <1>5, <1>6, OwnMove DEF BuildWrites

\* No edit has been made: nothing need be in the list.
LEMMA NoEdits ==
  ASSUME NEW built \in Seq(Images), NEW list
  PROVE  Covers(built, list, 0)
<1>1. Len(built) \in Nat
  OBVIOUS
<1>2. \A k \in 1 .. Len(built) : ~(2 * k <= 0 + 1) /\ ~(2 * k <= 0)
  BY <1>1
<1> QED
  BY Zenon, <1>2 DEF Covers

\* The build finds the list.
LEMMA ListFound ==
  ASSUME EditTypes, NEW p \in Procs, BuildPlace(p), BuildWrites(p), Moves(p),
         cmd[p].op = "build", LookupManifestList(p)
  PROVE  (BuildPlace(p) /\ BuildWrites(p))'
<1>0. /\ IsEdit(edit[p]) /\ DOMAIN edit = Procs /\ edit[p].pc = "lookup" /\ edit[p].rc = "none"
      /\ UNCHANGED <<cmd, lists, named>> /\ named \in IDs /\ edit[p].at = 0
  BY ZenonT(60) DEF EditTypes, LookupManifestList, At, BuildPlace
<1>a. AfterLookup("build") = "save"
  BY DEF AfterLookup
<1>1. /\ edit'[p].pc = "save" /\ edit'[p].rc = "none" /\ edit'[p].id = named /\ edit'[p].at = 0
      /\ edit'[p].built = edit[p].built /\ edit'[p].failed = edit[p].failed
      /\ edit'[p].list = lists[named]
  BY ZenonT(60), <1>0, <1>a DEF LookupManifestList, IsEdit
<1>2. BuildPlace(p)'
  BY <1>0, <1>1 DEF BuildPlace
<1>3. Saved(p)' = 0
  BY <1>1 DEF Saved
<1> QED
  BY ZenonT(60), <1>0, <1>1, <1>2, <1>3, OwnMove, NoEdits DEF BuildWrites, BuildPlace, Covers

\* There is no list yet.
LEMMA ListMissing ==
  ASSUME EditTypes, NEW p \in Procs, BuildPlace(p), BuildWrites(p), Moves(p),
         cmd[p].op = "build", ListUnknown(p)
  PROVE  (BuildPlace(p) /\ BuildWrites(p))'
<1>0. /\ IsEdit(edit[p]) /\ DOMAIN edit = Procs /\ edit[p].pc = "lookup" /\ edit[p].rc = "none"
      /\ UNCHANGED <<cmd, lists, named>> /\ edit[p].at = 0
  BY ZenonT(60) DEF EditTypes, ListUnknown, At, BuildPlace
<1>a. edit' = [edit EXCEPT ![p].pc = "create"]
  BY DEF ListUnknown
<1>1. /\ edit'[p].pc = "create" /\ edit'[p].rc = "none" /\ edit'[p].id = edit[p].id /\ edit'[p].at = 0
      /\ edit'[p].built = edit[p].built /\ edit'[p].failed = edit[p].failed
  BY ZenonT(60), <1>0, <1>a DEF IsEdit
<1>2. BuildPlace(p)'
  BY <1>0, <1>1 DEF BuildPlace
<1> QED
  BY ZenonT(60), <1>0, <1>1, <1>2, OwnMove DEF BuildWrites

\* The build creates the list.
LEMMA ListCreated ==
  ASSUME EditTypes, NEW p \in Procs, BuildPlace(p), BuildWrites(p), Moves(p),
         cmd[p].op = "build", CreateList(p)
  PROVE  (BuildPlace(p) /\ BuildWrites(p))'
<1>0. /\ IsEdit(edit[p]) /\ DOMAIN edit = Procs /\ edit[p].pc = "create" /\ edit[p].rc = "none"
      /\ UNCHANGED cmd /\ edit[p].at = 0 /\ DOMAIN lists = IDs
  BY ZenonT(60) DEF EditTypes, CreateList, At, BuildPlace
<1>f. IsList(Fresh) /\ p \in IDs
  BY DEF IsList, Fresh, Gone, IDs
<1>a. /\ lists' = [lists EXCEPT ![p] = Fresh]
      /\ edit' = [edit EXCEPT ![p].id = p, ![p].list = Fresh, ![p].pc = "save", ![p].rc = "none"]
  BY DEF CreateList
<1>1. /\ edit'[p].pc = "save" /\ edit'[p].rc = "none" /\ edit'[p].id = p /\ edit'[p].at = 0
      /\ edit'[p].built = edit[p].built /\ edit'[p].failed = edit[p].failed
      /\ edit'[p].list = Fresh /\ lists'[p] = Fresh
  BY ZenonT(60), <1>0, <1>a, <1>f DEF IsEdit
<1>2. BuildPlace(p)'
  BY <1>0, <1>1 DEF BuildPlace
<1>3. Saved(p)' = 0
  BY <1>1 DEF Saved
<1>4. Undisturbed(p)' => \A i \in IDs : IsList(lists'[i])
  <2>1. \A i \in IDs : IsList(lists[i]) => IsList(lists'[i])
    BY ZenonT(60), <1>0, <1>a, <1>f
  <2> QED
    BY ZenonT(60), <2>1, OwnMove DEF BuildWrites
<1> QED
  BY ZenonT(60), <1>1, <1>2, <1>3, <1>4, <1>f, NoEdits DEF BuildWrites, BuildPlace, Covers

\* One edit more: the instance goes in, and the next time its platform.
LEMMA OneEdit ==
  ASSUME NEW n \in Nat, NEW k \in Nat
  PROVE  /\ n % 2 = 1 /\ 2 * k <= (n + 1) + 1 => 2 * k <= n + 1
         /\ n % 2 = 1 /\ 2 * k <= n + 1 => 2 * k <= n \/ k = (n \div 2) + 1
         /\ n % 2 # 1 /\ 2 * k <= (n + 1) + 1 => 2 * k <= n + 1 \/ k = (n \div 2) + 1
         /\ n % 2 # 1 /\ 2 * k <= n + 1 => 2 * k <= n
  OBVIOUS

\* What an edit of the build makes of its list.
LEMMA EditedBuild ==
  ASSUME NEW p \in Procs, cmd[p].op = "build", IsList(edit[p].list)
  PROVE  /\ DOMAIN Edited(p) = DOMAIN edit[p].list
         /\ Annotating(p) => /\ Edited(p).noted = edit[p].list.noted \cup {Instance(p)}
                             /\ Edited(p).entries = edit[p].list.entries
         /\ ~Annotating(p) => /\ Edited(p).entries = edit[p].list.entries \cup {Instance(p)}
                              /\ Edited(p).noted = edit[p].list.noted
<1> DEFINE l == edit[p].list
<1>1. CASE Annotating(p)
  <2>1. Edited(p) = [l EXCEPT !.noted = l.noted \cup {Instance(p)}]
    BY <1>1 DEF Edited
  <2> QED
    BY ZenonT(60), <1>1, <2>1 DEF IsList
<1>2. CASE ~Annotating(p)
  <2>1. Edited(p) = [l EXCEPT !.entries = l.entries \cup {Instance(p)}]
    BY <1>2 DEF Edited
  <2> QED
    BY ZenonT(60), <1>2, <2>1 DEF IsList
<1> QED
  BY Zenon, <1>1, <1>2

LEMMA EditCovers ==
  ASSUME NEW p \in Procs, cmd[p].op = "build", IsList(edit[p].list),
         edit[p].built \in Seq(Images), edit[p].at \in Nat,
         Covers(edit[p].built, edit[p].list, edit[p].at)
  PROVE  Covers(edit[p].built, Edited(p), edit[p].at + 1)
<1> DEFINE n == edit[p].at
<1> SUFFICES ASSUME NEW k \in 1 .. Len(edit[p].built)
             PROVE  /\ 2 * k <= (n + 1) + 1 => edit[p].built[k] \in Edited(p).entries
                    /\ 2 * k <= n + 1 => edit[p].built[k] \in Edited(p).noted
  BY Zenon DEF Covers
<1>1. n \in Nat /\ k \in Nat
  OBVIOUS
<1>2. /\ 2 * k <= n + 1 => edit[p].built[k] \in edit[p].list.entries
      /\ 2 * k <= n => edit[p].built[k] \in edit[p].list.noted
  BY Zenon DEF Covers
<1>3. k = (n \div 2) + 1 => edit[p].built[k] = Instance(p)
  BY Zenon DEF Instance
<1>4. Annotating(p) <=> n % 2 = 1
  BY Zenon DEF Annotating
<1>5. CASE Annotating(p)
  <2>1. /\ 2 * k <= (n + 1) + 1 => 2 * k <= n + 1
        /\ 2 * k <= n + 1 => 2 * k <= n \/ k = (n \div 2) + 1
    BY Zenon, <1>1, <1>4, <1>5, OneEdit
  <2> HIDE DEF n
  <2> QED
    BY ZenonT(60), <1>2, <1>3, <1>5, <2>1, EditedBuild
<1>6. CASE ~Annotating(p)
  <2>1. /\ 2 * k <= (n + 1) + 1 => 2 * k <= n + 1 \/ k = (n \div 2) + 1
        /\ 2 * k <= n + 1 => 2 * k <= n
    BY Zenon, <1>1, <1>4, <1>6, OneEdit
  <2> HIDE DEF n
  <2> QED
    BY ZenonT(60), <1>2, <1>3, <1>6, <2>1, EditedBuild
<1> QED
  BY Zenon, <1>5, <1>6

\* The build saves the list it has in memory.
LEMMA ListSaved ==
  ASSUME EditTypes, NEW p \in Procs, BuildPlace(p), BuildWrites(p), Moves(p),
         cmd[p].op = "build", SaveToImage(p)
  PROVE  (BuildPlace(p) /\ BuildWrites(p))'
<1> DEFINE i == IF edit[p].id = None THEN p ELSE edit[p].id
           e == [edit[p] EXCEPT !.id = i, !.list = Edited(p), !.pc = "reload", !.rc = "none"]
<1>0. /\ IsEdit(edit[p]) /\ DOMAIN edit = Procs /\ edit[p].pc = "save" /\ edit[p].rc = "none"
      /\ UNCHANGED cmd /\ DOMAIN lists = IDs /\ p \in IDs
  BY ZenonT(60) DEF EditTypes, SaveToImage, At, IDs
<1>i. i \in IDs
  BY ZenonT(60), <1>0 DEF EditTypes
<1>1. edit' = [edit EXCEPT ![p] = e] /\ lists' = [lists EXCEPT ![i] = Edited(p)]
  <2>1. /\ edit' = [edit EXCEPT ![p].id = i, ![p].list = Edited(p), ![p].pc = "reload",
                                ![p].rc = "none"]
        /\ lists' = [lists EXCEPT ![i] = Edited(p)]
    BY DEF SaveToImage
  <2> QED
    BY ZenonT(60), <1>0, <2>1
<1>2. /\ edit'[p].pc = "reload" /\ edit'[p].rc = "none" /\ edit'[p].id = i
      /\ edit'[p].at = edit[p].at /\ edit'[p].built = edit[p].built
      /\ edit'[p].failed = edit[p].failed /\ edit'[p].list = Edited(p)
  <2> HIDE DEF i
  <2>1. edit'[p] = e
    BY ZenonT(60), <1>0, <1>1
  <2>2. /\ e.pc = "reload" /\ e.rc = "none" /\ e.id = i /\ e.at = edit[p].at
        /\ e.built = edit[p].built /\ e.failed = edit[p].failed /\ e.list = Edited(p)
    BY ZenonT(60), <1>0 DEF IsEdit
  <2> HIDE DEF e
  <2> QED
    BY Zenon, <2>1, <2>2
<1> HIDE DEF e, i
<1>3. BuildPlace(p)'
  BY <1>0, <1>2 DEF BuildPlace
<1>4. Saved(p) = edit[p].at /\ Saved(p)' = edit[p].at + 1
  BY <1>0, <1>2 DEF Saved
<1>5. ASSUME Undisturbed(p)'
      PROVE  /\ \A j \in IDs : IsList(lists'[j])
             /\ lists'[i] = Edited(p) /\ Covers(edit[p].built, Edited(p), edit[p].at + 1)
  <2>1. /\ \A j \in IDs : IsList(lists[j])
        /\ IsList(edit[p].list) /\ Covers(edit[p].built, edit[p].list, edit[p].at)
    <3>1. Undisturbed(p)
      BY Zenon, <1>5, OwnMove
    <3>2. edit[p].id \in IDs /\ edit[p].list = lists[edit[p].id]
      BY Zenon, <1>0, <3>1 DEF BuildWrites
    <3> QED
      BY ZenonT(60), <1>0, <1>4, <3>1, <3>2 DEF BuildWrites
  <2>2. lists'[i] = Edited(p) /\ \A j \in IDs \ {i} : lists'[j] = lists[j]
    BY ZenonT(60), <1>0, <1>1, <1>i
  <2>3. IsList(Edited(p))
    BY ZenonT(60), <2>1, EditedBuild DEF IsList
  <2>4. Covers(edit[p].built, Edited(p), edit[p].at + 1)
    BY ZenonT(60), <2>1, EditCovers DEF BuildPlace
  <2> QED
    BY ZenonT(60), <2>1, <2>2, <2>3, <2>4
<1> QED
  BY ZenonT(60), <1>2, <1>3, <1>4, <1>5, <1>i DEF BuildWrites, Covers

\* The build reads back what it saved.
LEMMA ListReloaded ==
  ASSUME EditTypes, NEW p \in Procs, BuildPlace(p), BuildWrites(p), Moves(p),
         cmd[p].op = "build", ReloadList(p), lists[edit[p].id].live
  PROVE  (BuildPlace(p) /\ BuildWrites(p))'
<1> DEFINE e == [edit[p] EXCEPT !.list = lists[edit[p].id], !.at = edit[p].at + 1,
                                !.pc = "save", !.rc = "none"]
<1>0. /\ IsEdit(edit[p]) /\ DOMAIN edit = Procs /\ edit[p].pc = "reload" /\ edit[p].rc = "none"
      /\ UNCHANGED <<cmd, lists, named>> /\ edit[p].at \in Nat
  BY ZenonT(60) DEF EditTypes, ReloadList, At, BuildPlace
<1>1. edit' = [edit EXCEPT ![p] = e]
  <2>1. edit' = [edit EXCEPT ![p].list = lists[edit[p].id], ![p].at = @ + 1, ![p].pc = "save",
                             ![p].rc = "none"]
    BY DEF ReloadList
  <2> QED
    BY ZenonT(60), <1>0, <2>1
<1>2. /\ edit'[p].pc = "save" /\ edit'[p].rc = "none" /\ edit'[p].id = edit[p].id
      /\ edit'[p].at = edit[p].at + 1 /\ edit'[p].built = edit[p].built
      /\ edit'[p].failed = edit[p].failed /\ edit'[p].list = lists[edit[p].id]
  <2>1. edit'[p] = e
    BY ZenonT(60), <1>0, <1>1
  <2>2. /\ e.pc = "save" /\ e.rc = "none" /\ e.id = edit[p].id /\ e.at = edit[p].at + 1
        /\ e.built = edit[p].built /\ e.failed = edit[p].failed /\ e.list = lists[edit[p].id]
    BY ZenonT(60), <1>0 DEF IsEdit
  <2> HIDE DEF e
  <2> QED
    BY Zenon, <2>1, <2>2
<1> HIDE DEF e
<1>3. BuildPlace(p)'
  <2>1. edit'[p].at \in Nat
    BY <1>0, <1>2
  <2> QED
    BY <1>0, <1>2, <2>1 DEF BuildPlace
<1>4. Saved(p)' = Saved(p)
  BY Zenon, <1>0, <1>2 DEF Saved
<1> QED
  BY ZenonT(60), <1>0, <1>2, <1>3, <1>4, OwnMove DEF BuildWrites, Covers

\* Every step of a build keeps what is known of it.
LEMMA BuildMoves ==
  ASSUME EditTypes, NEW p \in Procs, BuildInv(p), Moves(p),
         EditStep(p) \/ CrashEditor(p) \/ \E image : AddManifest(p, image)
  PROVE  BuildInv(p)'
<1> SUFFICES ASSUME cmd[p].op = "build"
             PROVE  (BuildPlace(p) /\ BuildWrites(p))'
  BY Zenon DEF Moves, BuildInv
<1>0. BuildPlace(p) /\ BuildWrites(p)
  BY Zenon DEF BuildInv
<1>p. edit[p].pc \notin {"lock", "load", "delete", "push"}
  BY <1>0 DEF BuildPlace
<1>1. CASE CrashEditor(p)
  BY ZenonT(60), <1>0, <1>1, BuildEnds DEF CrashEditor
<1>2. CASE DuplicateName(p) \/ EditFails(p)
  BY ZenonT(60), <1>0, <1>2, BuildEnds DEF DuplicateName, EditFails
<1>3. CASE ReloadList(p)
  BY ZenonT(60), <1>0, <1>3, BuildEnds, ListReloaded DEF ReloadList
<1>4. CASE BuildsWait(p)
  BY ZenonT(60), <1>0, <1>4, BuildEnds, AllBuilt DEF BuildsWait
<1>5. CASE BuildReturns(p)
  BY ZenonT(60), <1>0, <1>5, BuildEnds DEF BuildReturns, At
<1>6. CASE LockList(p) \/ LoadFromImage(p) \/ DeleteList(p) \/ PushList(p)
  BY ZenonT(60), <1>p, <1>6 DEF LockList, LoadFromImage, DeleteList, PushList, At
<1>7. CASE \E image : AddManifest(p, image)
  BY Zenon, <1>7 DEF AddManifest
<1> QED
  BY ZenonT(60), <1>0, <1>1, <1>2, <1>3, <1>4, <1>5, <1>6, <1>7, ListFound, ListMissing, ListCreated,
     ListSaved, PlatformEnds DEF EditStep

\* At the start no list has the ID of a process.
LEMMA InitBuilds ==
  ASSUME Init
  PROVE  EditTypes /\ \A p \in Procs : BuildInv(p)
<1> PICK s \in Scenarios : InitLists(s.cmd, s.list)
  BY Zenon DEF Init
<1>0. s.list \in [live : BOOLEAN, entries : SUBSET Images, noted : SUBSET Images]
  BY Zenon, ScenarioAssumption
<1>1. /\ edit = [p \in Procs |-> InitEdit(cmd[p])]
      /\ lists = [i \in IDs |-> IF i = Stored THEN s.list ELSE Gone]
      /\ named = IF s.list.live THEN Stored ELSE None
  BY Zenon DEF InitLists
<1>2. \A p \in Procs : /\ edit[p].pc = Start(cmd[p].op) /\ edit[p].id = None /\ IsEdit(edit[p])
                       /\ edit[p].rc = "none" /\ edit[p].built = <<>> /\ edit[p].at = 0
  BY <1>1 DEF InitEdit, IsEdit
<1>3. /\ named \in {Stored, None} /\ DOMAIN lists = IDs /\ DOMAIN edit = Procs /\ Stored \in IDs
      /\ \A i \in IDs : IsList(lists[i])
      /\ \A p \in Procs : ~lists[p].live /\ p # Stored /\ p # None
  BY <1>0, <1>1, ScenarioAssumption DEF IsList, Gone, IDs
<1>4. \A op : Start(op) = "build" => op = "build"
  BY DEF Start
<1>5. EditTypes
  BY ZenonT(60), <1>2, <1>3, <1>4 DEF EditTypes
<1>6. ASSUME NEW p \in Procs, cmd[p].op = "build"
      PROVE  BuildPlace(p) /\ BuildWrites(p)
  <2>1. edit[p].pc = "build"
    BY <1>2, <1>6 DEF Start
  <2>2. BuildPlace(p)
    <3>1. <<>> \in Seq(Images) /\ 0 \in Nat
      OBVIOUS
    <3> QED
      BY ZenonT(60), <1>2, <2>1, <3>1 DEF BuildPlace
  <2>3. Unlisted(p)
    BY ZenonT(60), <1>2, <1>3 DEF Unlisted
  <2>4. edit[p].pc \notin {"save", "reload"}
    BY <2>1
  <2> QED
    BY ZenonT(60), <1>3, <2>2, <2>3, <2>4 DEF BuildWrites
<1> QED
  BY Zenon, <1>5, <1>6 DEF BuildInv

\* EditTypes and the BuildInv of all processes are inductive.
LEMMA NextBuilds ==
  ASSUME [Next]_vars, EditTypes, \A p \in Procs : BuildInv(p)
  PROVE  EditTypes' /\ \A p \in Procs : BuildInv(p)'
<1>1. CASE UNCHANGED listVars
  <2>1. UNCHANGED <<cmd, lists, named, edit>>
    BY Zenon, <1>1 DEF listVars
  <2>2. EditTypes'
    BY ZenonT(60), <2>1 DEF EditTypes
  <2>3. ASSUME NEW p \in Procs
        PROVE  BuildInv(p)'
    <3>1. BuildPlace(p) => BuildPlace(p)'
      BY ZenonT(60), <2>1 DEF BuildPlace, BuildDone
    <3>2. (Undisturbed(p)' => Undisturbed(p)) /\ (Unlisted(p) => Unlisted(p)')
      BY ZenonT(60), <2>1 DEF Undisturbed, AtStart, Unlisted
    <3>3. BuildWrites(p) => BuildWrites(p)'
      BY ZenonT(60), <2>1, <3>2 DEF BuildWrites, Saved, Covers
    <3> QED
      BY ZenonT(60), <2>1, <2>3, <3>1, <3>3 DEF BuildInv
  <2> QED
    BY Zenon, <2>2, <2>3
<1>2. ASSUME NEW q \in Procs, EditStep(q) \/ CrashEditor(q) \/ \E image : AddManifest(q, image)
      PROVE  EditTypes' /\ \A p \in Procs : BuildInv(p)'
  <2>1. Moves(q)
    BY Zenon, <1>2, EditMoves
  <2>2. BuildInv(q)'
    BY Zenon, <1>2, <2>1, BuildMoves
  <2>3. \A p \in Procs \ {q} : BuildInv(p)'
    BY ZenonT(60), <2>1, OthersMove
  <2>4. EditTypes'
    BY Zenon, <2>1, MovesTypes
  <2> QED
    BY Zenon, <2>2, <2>3, <2>4
<1> QED
  BY ZenonT(60), <1>1, <1>2, ListSteps

\* A build for several platforms (BuildDockerfiles) writes to no list before all
\* of its platforms have been built, and a list it reports success for has every
\* instance with its platform, unless another process has made a call as well:
\* for every number of processes and platforms, whatever fails or is killed.
THEOREM BuildAlwaysPopulates == Spec => []BuildPopulates
<1> DEFINE Inv == EditTypes /\ \A p \in Procs : BuildInv(p)
<1>1. Init => Inv
  BY Zenon, InitBuilds
<1>2. Inv /\ [Next]_vars => Inv'
  BY Zenon, NextBuilds
<1>3. Inv => BuildPopulates
  <2> SUFFICES ASSUME Inv, NEW p \in Procs, cmd[p].op = "build"
               PROVE  /\ edit[p].failed # {} => ~lists[p].live /\ edit[p].id = None
                      /\ edit[p].rc = "ok" /\ cmd[p].manifest /\ Undisturbed(p) =>
                           cmd[p].platforms \subseteq
                             lists[edit[p].id].entries \cap lists[edit[p].id].noted
    BY Zenon DEF BuildPopulates, Undisturbed, AtStart
  <2>0. BuildPlace(p) /\ BuildWrites(p)
    BY Zenon DEF BuildInv
  <2>1. edit[p].failed # {} => ~lists[p].live /\ edit[p].id = None
    BY ZenonT(60), <2>0 DEF BuildPlace, BuildWrites, Unlisted
  <2>2. ASSUME edit[p].rc = "ok", cmd[p].manifest, Undisturbed(p)
        PROVE  cmd[p].platforms \subseteq lists[edit[p].id].entries \cap lists[edit[p].id].noted
    <3>1. edit[p].pc = "save" /\ BuildDone(p)
      BY Zenon, <2>0, <2>2 DEF BuildPlace
    <3>2. /\ Covers(edit[p].built, lists[edit[p].id], Saved(p))
          /\ \A x \in cmd[p].platforms : \E k \in 1 .. Len(edit[p].built) : edit[p].built[k] = x
      BY ZenonT(60), <2>0, <2>2, <3>1 DEF BuildPlace, BuildWrites, Covers
    <3>3. Saved(p) = 2 * Len(edit[p].built)
      BY <3>1 DEF Saved, BuildDone
    <3>4. Len(edit[p].built) \in Nat
      BY <2>0 DEF BuildPlace
    <3>5. \A k \in 1 .. Len(edit[p].built) : /\ 2 * k <= 2 * Len(edit[p].built)
                                             /\ 2 * k <= 2 * Len(edit[p].built) + 1
      BY <3>4
    <3> QED
      BY ZenonT(60), <3>2, <3>3, <3>5 DEF Covers
  <2> QED
    BY Zenon, <2>1, <2>2
<1> QED
  BY <1>1, <1>2, <1>3, PTL DEF Spec

-----------------------------------------------------------------------------
(***************************************************************************)
(* The commands on working containers.                                     *)
(***************************************************************************)
IsBuilder(b) == {"name", "mp", "conf"} \subseteq DOMAIN b

IsContainer(c) == {"live", "name", "count", "image", "saved", "b"} \subseteq DOMAIN c /\ IsBuilder(c.b)

IsImage(i) == {"live", "names", "conf"} \subseteq DOMAIN i

IsProc(r) ==
  /\ {"pc", "rc", "todo", "open", "c", "b", "name", "img", "deleted", "err"} \subseteq DOMAIN r
  /\ IsBuilder(r.b)
  /\ \A o \in r.open : IsBuilder(o[2])

\* A container without a state file has no Builder; nothing at all is known of
\* one that is not there.
CtrTypes ==
  /\ DOMAIN ctrs = CIDs /\ \A c \in CIDs : IsContainer(ctrs[c])
  /\ \A c \in CIDs : ctrs[c].saved \/ ctrs[c].b = NoBuilder
  /\ DOMAIN images = Procs /\ \A i \in Procs : IsImage(images[i])
  /\ DOMAIN proc = Procs /\ \A p \in Procs : IsProc(proc[p])
  /\ DOMAIN edit = Procs

\* Where a "from" sets its container up, where a command works on a container,
\* and where a commit has written its image.
Setting == {"mount", "mount-save", "config", "create-save", "onbuild"}
Working == {"import", "do", "rename", "save"} \cup Setting
Written == {"locate", "prune", "manifest", "adding", "finish"}

\* Nobody knows of a container that has not been created.
Unborn(p) ==
  /\ ~ctrs[p].live
  /\ \A q \in Procs : /\ proc[q].c # p /\ p \notin proc[q].todo
                      /\ \A o \in proc[q].open : o[1] # p

\* A command that has not begun is at its first step.
IdleInv(p) == proc[p].rc = "idle" => proc[p] = InitProc(cmd[p])

SetUpInv(p) ==
  proc[p].rc = "err" =>
    /\ proc[p].pc \in {"mount", "mount-save", "create-save"} => ~ctrs[p].live
    /\ proc[p].pc = "create" => cmd[p].name # None

PlaceInv(p) ==
  /\ proc[p].pc \in {"name", "create"} => proc[p].b = NoBuilder /\ cmd[p].op = "from"
  /\ proc[p].pc \in Working \cup Written => proc[p].c \in CIDs
  /\ proc[p].pc \in Setting => proc[p].c = p /\ cmd[p].op = "from"
  /\ proc[p].pc \in Written => cmd[p].op = "commit"
  /\ cmd[p].op \notin {"mounts", "umountall", "rmall"} =>
       /\ proc[p].open = {} /\ proc[p].pc \notin {"list", "readall"}
       /\ proc[p].err => proc[p].pc = "next"
  /\ proc[p].pc = "open" => cmd[p].op \notin {"mounts", "umountall", "rmall"}
  /\ proc[p].todo \subseteq CIDs /\ \A o \in proc[p].open : o[1] \in CIDs
  /\ cmd[p].op = "config" => proc[p].pc \in {"open", "import", "do", "save", "next"}
  /\ cmd[p].op = "commit" => /\ proc[p].pc \in {"open", "import", "do", "next"} \cup Written
                             /\ proc[p].pc = "next" => proc[p].err

\* The image of a commit has no name but the one the commit gave it, so nobody
\* else finds an image by a temporary name.
ImageInv(p) ==
  /\ \A x \in images[p].names : cmd[p].op = "commit" /\ x = Dest(p)
  /\ proc[p].pc \in Written => images[p].live
  /\ proc[p].pc \in Written \ {"locate"} /\ cmd[p].dest = None => proc[p].img = p
  /\ proc[p].pc \in {"manifest", "adding", "finish"} /\ cmd[p].dest = None => images[p].names = {}
  /\ proc[p].pc = "finish" /\ cmd[p].manifest => edit[p].rc = "ok"
  /\ cmd[p].op = "commit" /\ proc[p].rc = "ok" => proc[p].pc = "finish"
  /\ proc[p].deleted => proc[p].pc = "finish" /\ proc[p].rc = "ok" /\ ~ctrs[proc[p].c].live

OwnInv(p) == IdleInv(p) /\ SetUpInv(p) /\ PlaceInv(p) /\ ImageInv(p)

\* While commands run one after the other, what a command has read of a
\* container is what the store has.
Opened(p, o) ==
  /\ o = <<o[1], o[2]>> /\ o[1] \in CIDs
  /\ ctrs[o[1]].live /\ ctrs[o[1]].saved /\ ctrs[o[1]].b = o[2]
  /\ proc[p].pc \in Working => o[1] # proc[p].c

Configuring(p) ==
  /\ proc[p].c # None => proc[p].c \in CIDs /\ ctrs[proc[p].c].live
  /\ proc[p].pc = "save" => cmd[p].edit \in proc[p].b.conf
  /\ proc[p].pc = "next" /\ ~proc[p].err =>
       proc[p].c \in CIDs /\ cmd[p].edit \in ctrs[proc[p].c].b.conf

Busy(p) ==
  /\ proc[p].pc \in Working =>
       ctrs[proc[p].c].live /\ Acknowledged(proc[p].c) \subseteq proc[p].b.conf
  /\ cmd[p].op = "from" => Acknowledged(p) = {}
  /\ \A o \in proc[p].open : Opened(p, o)
  /\ cmd[p].op = "config" => Configuring(p)
  /\ proc[p].pc \in Written => Acknowledged(proc[p].c) \subseteq images[p].conf

Imaged(p) == proc[p].deleted => Acknowledged(proc[p].c) \subseteq images[p].conf

AtMostOne == \A p, q \in Procs : Running(p) /\ Running(q) => p = q

SerialInv ==
  serial => /\ AtMostOne
            /\ \A c \in CIDs : ctrs[c].live => Acknowledged(c) \subseteq ctrs[c].b.conf
            /\ \A p \in Procs : (Running(p) => Busy(p)) /\ Imaged(p)

\* When nothing has gone wrong either, state files agree with the store, but
\* for the container that a command is just about to save.
Good == /\ serial
        /\ \A p \in Procs : proc[p].rc \in {"idle", "ok"} \/ (proc[p].rc = "none" /\ ~proc[p].err)

Matches(c, b) == /\ ctrs[c].name # None
                 /\ b.name \in {ctrs[c].name, c}
                 /\ b.mp => ctrs[c].count > 0

Sound(c) == /\ ctrs[c].name # None
            /\ ctrs[c].saved => Matches(c, ctrs[c].b)
            /\ ~ctrs[c].saved => ctrs[c].image

Saving(p, c) == Running(p) /\ proc[p].pc \in {"save"} \cup Setting /\ proc[p].c = c

Agreeing(p) ==
  /\ proc[p].pc \in Working => Matches(proc[p].c, proc[p].b)
  /\ proc[p].pc = "create" => proc[p].name # None
  /\ proc[p].pc = "rename" => /\ cmd[p].new # None
                              /\ \A c \in CIDs : ctrs[c].live => ctrs[c].name # cmd[p].new

AgreeInv ==
  Good => /\ \A c \in CIDs : ctrs[c].count \in Nat
          /\ \A c \in CIDs : ctrs[c].live => Sound(c) \/ \E p \in Procs : Saving(p, c)
          /\ \A p \in Procs : Running(p) => Agreeing(p)

CtrInv ==
  /\ CtrTypes
  /\ \A p \in Procs : cmd[p].op = "rename" => cmd[p].new \in Names
  /\ \A p \in Procs : proc[p].pc \in {"name", "create"} => Unborn(p)
  /\ \A p \in Procs : OwnInv(p)
  /\ SerialInv /\ AgreeInv

-----------------------------------------------------------------------------
\* A step of p leaves the other processes alone; it may take a name from an
\* image of theirs.
Mild(p) ==
  /\ UNCHANGED <<cmd, serial>>
  /\ \A q \in Procs : q # p =>
       /\ proc'[q] = proc[q] /\ edit'[q] = edit[q]
       /\ images'[q].live = images[q].live /\ images'[q].conf = images[q].conf
       /\ images'[q].names \subseteq images[q].names

\* It creates no container but its own, and knows of no container but the ones
\* that it finds in the store.
Birth(p) ==
  \A c \in CIDs : ctrs'[c].live =>
    \/ ctrs[c].live
    \/ c = p /\ proc[p].pc = "create" /\ proc'[p].pc \notin {"name", "create"}

Follows(p) ==
  /\ proc'[p].pc \in {"name", "create"} => proc[p].pc \in {"name", "create"}
  /\ \/ proc'[p].c = proc[p].c \/ ctrs[proc'[p].c].live \/ ctrs'[proc'[p].c].live
     \/ \E o \in proc[p].open : proc'[p].c = o[1]
  /\ \A o \in proc'[p].open : o \in proc[p].open \/ ctrs[o[1]].live
  /\ \A c \in proc'[p].todo : c \in proc[p].todo \/ ctrs[c].live

\* An edit is acknowledged only when its "config" returns.
LEMMA AcknowledgedStays ==
  ASSUME NEW p \in Procs, UNCHANGED cmd, \A q \in Procs : q # p => proc'[q] = proc[q],
         proc[p].rc # "ok", proc'[p].rc # "ok" \/ cmd[p].op # "config"
  PROVE  \A c : Acknowledged(c)' = Acknowledged(c)
<1> SUFFICES ASSUME NEW c PROVE Acknowledged(c)' = Acknowledged(c)
  OBVIOUS
<1>1. \A q \in Procs : (cmd'[q].op = "config" /\ proc'[q].rc = "ok" /\ proc'[q].c = c)
                   <=> (cmd[q].op = "config" /\ proc[q].rc = "ok" /\ proc[q].c = c)
  OBVIOUS
<1>2. \A q \in Procs : cmd'[q].edit = cmd[q].edit
  OBVIOUS
<1> QED
  BY <1>1, <1>2 DEF Acknowledged

\* No step makes an unborn container known.
LEMMA UnbornStays ==
  ASSUME CtrInv, NEW p \in Procs, Mild(p), Birth(p), Follows(p)
  PROVE  \A q \in Procs : proc'[q].pc \in {"name", "create"} => Unborn(q)'
<1> SUFFICES ASSUME NEW q \in Procs, proc'[q].pc \in {"name", "create"}
             PROVE  Unborn(q)'
  OBVIOUS
<1>1. proc[q].pc \in {"name", "create"}
  BY DEF Mild, Follows
<1>2. Unborn(q) /\ q \in CIDs
  BY <1>1 DEF CtrInv, CIDs
<1>3. ~ctrs'[q].live
  BY <1>2 DEF Birth, Unborn
<1>4. \A r \in Procs : /\ proc'[r].c # q /\ q \notin proc'[r].todo
                      /\ \A o \in proc'[r].open : o[1] # q
  BY <1>2, <1>3 DEF Unborn, Mild, Follows
<1> QED
  BY <1>3, <1>4 DEF Unborn

\* What the other processes have stays true of them.
LEMMA OthersStand ==
  ASSUME CtrInv, NEW p \in Procs, Mild(p), Birth(p), NEW q \in Procs, q # p
  PROVE  OwnInv(q)'
<1>0. OwnInv(q) /\ q \in CIDs
  BY DEF CtrInv, CIDs
<1>1. IdleInv(q)' /\ PlaceInv(q)'
  BY <1>0 DEF Mild, OwnInv, IdleInv, PlaceInv
<1>2. SetUpInv(q)'
  BY <1>0 DEF Mild, Birth, OwnInv, SetUpInv
<1>3. proc[q].deleted => ~ctrs'[proc[q].c].live
  <2> SUFFICES ASSUME proc[q].deleted PROVE ~ctrs'[proc[q].c].live
    BY ZenonT(60)
  <2>1. proc[q].c \in CIDs /\ ~ctrs[proc[q].c].live
    BY <1>0 DEF OwnInv, PlaceInv, ImageInv, Written
  <2>2. proc[p].pc = "create" => proc[q].c # p
    BY DEF CtrInv, Unborn
  <2> QED
    BY <2>1, <2>2 DEF Birth
<1>4. ImageInv(q)'
  BY ZenonT(60), <1>0, <1>3 DEF Mild, OwnInv, ImageInv, Dest, TempName
<1> QED
  BY <1>1, <1>2, <1>4 DEF OwnInv

\* The facts of SerialInv and AgreeInv that a step of p can disturb.
SerialStep(p) ==
  serial =>
    /\ \A c \in CIDs : Acknowledged(c)' \subseteq Acknowledged(c) \/ ctrs[c].live
    /\ \A c \in CIDs : ctrs'[c].live => Acknowledged(c)' \subseteq ctrs'[c].b.conf
    /\ (Running(p) => Busy(p))' /\ Imaged(p)'

AgreeStep(p) ==
  Good /\ (proc'[p].rc = "ok" \/ (proc'[p].rc = "none" /\ ~proc'[p].err)) =>
    /\ \A c \in CIDs : ctrs'[c].count \in Nat
    /\ \A c \in CIDs : ctrs'[c].live => Sound(c)' \/ Saving(p, c)'
    /\ (Running(p) => Agreeing(p))'

\* Errors are remembered until the command returns.
ErrStep(p) == /\ proc'[p].rc \in {"none", "ok", "err", "crashed"}
              /\ proc[p].err => proc'[p].rc # "ok" /\ (proc'[p].rc = "none" => proc'[p].err)

\* Alone, p has only its own facts to restore.
LEMMA SerialFacts ==
  ASSUME CtrInv, NEW p \in Procs, Running(p), Mild(p), SerialStep(p)
  PROVE  SerialInv'
<1> SUFFICES ASSUME serial'
             PROVE  (/\ AtMostOne
                     /\ \A c \in CIDs : ctrs[c].live => Acknowledged(c) \subseteq ctrs[c].b.conf
                     /\ \A q \in Procs : (Running(q) => Busy(q)) /\ Imaged(q))'
  BY DEF SerialInv
<1>0. serial
  BY DEF Mild
<1>1. \A q \in Procs : q # p => ~Running(q) /\ ~Running(q)'
  BY <1>0 DEF CtrInv, SerialInv, AtMostOne, Running, Mild
<1>2. AtMostOne'
  BY <1>1 DEF AtMostOne
<1>3. ASSUME NEW q \in Procs, q # p PROVE Imaged(q)'
  <2> SUFFICES ASSUME proc[q].deleted
               PROVE  Acknowledged(proc[q].c)' \subseteq images'[q].conf
    BY <1>3 DEF Imaged, Mild
  <2>1. OwnInv(q) /\ Imaged(q)
    BY ZenonT(60), <1>0 DEF CtrInv, SerialInv
  <2>2. proc[q].c \in CIDs /\ ~ctrs[proc[q].c].live
    BY <2>1 DEF OwnInv, PlaceInv, ImageInv, Written
  <2>3. PICK c \in CIDs : c = proc[q].c /\ c = proc'[q].c
    BY <1>3, <2>2 DEF Mild
  <2>4. Acknowledged(c)' \subseteq Acknowledged(c)
    BY <1>0, <2>2, <2>3 DEF SerialStep
  <2>5. Acknowledged(c) \subseteq images[q].conf
    BY <2>1, <2>3 DEF Imaged
  <2> QED
    BY <1>3, <2>3, <2>4, <2>5 DEF Mild
<1> QED
  BY <1>0, <1>1, <1>2, <1>3 DEF SerialStep

LEMMA AgreeFacts ==
  ASSUME CtrInv, NEW p \in Procs, Running(p), Mild(p), ErrStep(p), AgreeStep(p)
  PROVE  AgreeInv'
<1> SUFFICES ASSUME Good'
             PROVE  /\ \A c \in CIDs : ctrs'[c].count \in Nat
                    /\ \A c \in CIDs : ctrs'[c].live => Sound(c)' \/ \E q \in Procs : Saving(q, c)'
                    /\ \A q \in Procs : (Running(q) => Agreeing(q))'
  BY DEF AgreeInv
<1>1. /\ Good /\ serial
      /\ proc'[p].rc = "ok" \/ (proc'[p].rc = "none" /\ ~proc'[p].err)
  BY DEF Good, Mild, ErrStep, Running
<1>2. \A q \in Procs : q # p => ~Running(q)'
  BY Zenon, <1>1 DEF CtrInv, SerialInv, AtMostOne, Running, Mild
<1> QED
  BY <1>1, <1>2 DEF AgreeStep

\* Alone, p is the only one that may be about to save a container.
LEMMA GoodFacts ==
  ASSUME CtrInv, Good, NEW p \in Procs, Running(p)
  PROVE  /\ serial /\ ~proc[p].err /\ Busy(p) /\ Agreeing(p)
         /\ \A c \in CIDs : ctrs[c].count \in Nat
         /\ \A c \in CIDs : ctrs[c].live => Sound(c) \/ Saving(p, c)
<1>1. serial /\ ~proc[p].err
  BY DEF Good, Running
<1>2. \A q \in Procs : Running(q) => q = p
  BY ZenonT(60), <1>1 DEF CtrInv, SerialInv, AtMostOne
<1> QED
  BY <1>1, <1>2 DEF CtrInv, SerialInv, AgreeInv, Saving

\* What has to be shown of a step.
LEMMA Assemble ==
  ASSUME CtrInv, NEW p \in Procs, Running(p), Mild(p), Birth(p), Follows(p), ErrStep(p),
         CtrTypes', OwnInv(p)', SerialStep(p), AgreeStep(p)
  PROVE  CtrInv'
<1>1. \A q \in Procs : OwnInv(q)'
  BY Zenon, OthersStand
<1>2. \A q \in Procs : cmd'[q].op = "rename" => cmd'[q].new \in Names
  BY Zenon DEF Mild, CtrInv
<1> QED
  BY <1>1, <1>2, UnbornStays, SerialFacts, AgreeFacts DEF CtrInv

\* A command that returns an error, or is killed, where nothing is left to clean up.
LEMMA GiveUpKeeps ==
  ASSUME CtrInv, NEW p \in Procs, Running(p), Mild(p), UNCHANGED ctrs,
         DOMAIN images' = Procs, \A i \in Procs : IsImage(images'[i]),
         images'[p].live = images[p].live, images'[p].names \subseteq images[p].names,
         NEW rc \in {"err", "crashed"}, proc' = [proc EXCEPT ![p] = Return(@, rc)],
         edit[p].rc = "ok" => edit'[p].rc = "ok", DOMAIN edit' = DOMAIN edit,
         rc = "err" => /\ proc[p].pc \notin {"mount", "mount-save", "create-save"}
                       /\ proc[p].pc = "create" => cmd[p].name # None
  PROVE  CtrInv'
<1>0. /\ CtrTypes /\ OwnInv(p) /\ IsProc(proc[p]) /\ proc[p].rc = "none"
  BY DEF CtrInv, CtrTypes, Running
<1>1. /\ proc'[p] = [proc[p] EXCEPT !.rc = rc] /\ proc'[p].rc = rc /\ IsProc(proc'[p])
      /\ proc'[p].pc = proc[p].pc /\ proc'[p].c = proc[p].c /\ proc'[p].b = proc[p].b
      /\ proc'[p].open = proc[p].open /\ proc'[p].todo = proc[p].todo
      /\ proc'[p].img = proc[p].img /\ proc'[p].deleted = proc[p].deleted
      /\ proc'[p].err = proc[p].err
  BY <1>0 DEF CtrTypes, IsProc, Return
<1>2. CtrTypes'
  BY <1>0, <1>1 DEF CtrTypes, Mild
<1>3. Birth(p) /\ Follows(p) /\ ErrStep(p)
  BY <1>1 DEF Birth, Follows, ErrStep
<1>4. OwnInv(p)'
  <2>1. IdleInv(p)' /\ SetUpInv(p)'
    BY ZenonT(60), <1>1 DEF IdleInv, SetUpInv, Mild
  <2>2. PlaceInv(p)'
    BY <1>0, <1>1 DEF OwnInv, PlaceInv, Mild
  <2>3. ImageInv(p)'
    BY <1>0, <1>1 DEF OwnInv, ImageInv, Mild, Dest, TempName
  <2> QED
    BY <2>1, <2>2, <2>3 DEF OwnInv
<1>5. SerialStep(p)
  <2>1. \A c : Acknowledged(c)' = Acknowledged(c)
    BY <1>0, <1>1, AcknowledgedStays DEF Mild
  <2>2. ~proc'[p].deleted
    BY <1>0, <1>1 DEF OwnInv, ImageInv
  <2> QED
    BY <1>1, <2>1, <2>2 DEF SerialStep, CtrInv, SerialInv, Running, Imaged
<1>6. AgreeStep(p)
  BY <1>1 DEF AgreeStep
<1> QED
  BY ZenonT(60), <1>2, <1>3, <1>4, <1>5, <1>6, Assemble

LEMMA ErrorKeeps ==
  ASSUME CtrInv, NEW p \in Procs, Running(p), Mild(p), UNCHANGED <<ctrs, images>>,
         NEW rc \in {"err", "crashed"}, proc' = [proc EXCEPT ![p] = Return(@, rc)],
         edit[p].rc = "ok" => edit'[p].rc = "ok", DOMAIN edit' = DOMAIN edit,
         rc = "err" => /\ proc[p].pc \notin {"mount", "mount-save", "create-save"}
                       /\ proc[p].pc = "create" => cmd[p].name # None
  PROVE  CtrInv'
<1>1. DOMAIN images' = Procs /\ \A i \in Procs : IsImage(images'[i])
  BY DEF CtrInv, CtrTypes
<1> QED
  BY ZenonT(60), <1>1, GiveUpKeeps

\* A command that goes on with its next container, if it has one.
LEMMA GoOnKeeps ==
  ASSUME CtrInv, NEW p \in Procs, Running(p), Mild(p), UNCHANGED <<ctrs, images, edit>>,
         proc[p].pc \notin Written,
         \/ proc' = [proc EXCEPT ![p] = Failing(@)]
         \/ /\ proc' = [proc EXCEPT ![p] = NextContainer(@)]
            /\ cmd[p].op \notin {"config", "commit"} /\ proc[p].pc \in {"readall", "do"}
  PROVE  CtrInv'
<1>0. /\ CtrTypes /\ OwnInv(p) /\ IsProc(proc[p]) /\ proc[p].rc = "none"
  BY DEF CtrInv, CtrTypes, Running
<1>1. /\ proc'[p].rc = "none" /\ IsProc(proc'[p])
      /\ proc'[p].pc = "next" /\ proc'[p].c = proc[p].c /\ proc'[p].b = NoBuilder
      /\ proc'[p].open = proc[p].open /\ proc'[p].todo = proc[p].todo
      /\ proc'[p].img = proc[p].img /\ proc'[p].deleted = proc[p].deleted
      /\ \/ proc'[p].err = TRUE
         \/ /\ proc'[p].err = proc[p].err
            /\ cmd[p].op \notin {"config", "commit"} /\ proc[p].pc \in {"readall", "do"}
  <2>1. CASE proc' = [proc EXCEPT ![p] = Failing(@)]
    BY <1>0, <2>1 DEF CtrTypes, IsProc, Failing, NextContainer, NoBuilder, IsBuilder
  <2>2. CASE /\ proc' = [proc EXCEPT ![p] = NextContainer(@)]
             /\ cmd[p].op \notin {"config", "commit"} /\ proc[p].pc \in {"readall", "do"}
    BY Zenon, <1>0, <2>2 DEF CtrTypes, IsProc, NextContainer, NoBuilder, IsBuilder
  <2> QED
    BY ZenonT(30), <2>1, <2>2
<1>2. CtrTypes'
  BY Zenon, <1>0, <1>1 DEF CtrTypes, Mild
<1>3. Birth(p) /\ Follows(p) /\ ErrStep(p)
  BY ZenonT(60), <1>1 DEF Birth, Follows, ErrStep
<1>d. ~proc'[p].deleted
  BY <1>0, <1>1 DEF OwnInv, ImageInv
<1>4. OwnInv(p)'
  <2>1. IdleInv(p)' /\ SetUpInv(p)'
    BY Zenon, <1>1 DEF IdleInv, SetUpInv, Mild
  <2>2. PlaceInv(p)'
    BY Zenon, <1>0, <1>1 DEF OwnInv, PlaceInv, Mild, Working, Setting, Written
  <2>3. ImageInv(p)'
    BY Zenon, <1>0, <1>1, <1>d DEF OwnInv, ImageInv, Mild, Dest, TempName, Written
  <2> QED
    BY Zenon, <2>1, <2>2, <2>3 DEF OwnInv
<1>5. SerialStep(p)
  <2> SUFFICES ASSUME serial PROVE SerialStep(p)
    BY Zenon DEF SerialStep
  <2>1. \A c : Acknowledged(c)' = Acknowledged(c)
    BY Zenon, <1>0, <1>1, AcknowledgedStays DEF Mild
  <2>2. Busy(p)
    BY Zenon DEF CtrInv, SerialInv
  <2>3. \A o \in proc[p].open : Opened(p, o)'
    BY Zenon, <1>1, <2>2 DEF Busy, Opened, Working, Setting
  <2>4. cmd[p].op = "config" => Configuring(p)'
    BY Zenon, <1>1, <2>2 DEF Busy, Configuring, Mild
  <2>5. Busy(p)'
    BY Zenon, <1>1, <2>1, <2>2, <2>3, <2>4 DEF Busy, Mild, Working, Written, Setting
  <2> QED
    BY Zenon, <1>1, <1>d, <2>1, <2>5 DEF SerialStep, CtrInv, SerialInv, Running, Imaged
<1>6. AgreeStep(p)
  <2> SUFFICES ASSUME Good, ~proc'[p].err PROVE AgreeStep(p)
    BY Zenon, <1>1 DEF AgreeStep
  <2>1. \A c : ~Saving(p, c)
    BY ZenonT(60), <1>1 DEF Saving, Setting
  <2>2. /\ \A c \in CIDs : ctrs[c].count \in Nat
        /\ \A c \in CIDs : ctrs[c].live => Sound(c)
    BY <2>1, GoodFacts
  <2>3. \A c \in CIDs : Sound(c)' = Sound(c)
    BY Zenon DEF Sound, Matches
  <2>4. Agreeing(p)'
    BY Zenon, <1>1 DEF Agreeing, Working, Setting
  <2> QED
    BY Zenon, <2>2, <2>3, <2>4 DEF AgreeStep
<1> QED
  BY ZenonT(60), <1>2, <1>3, <1>4, <1>5, <1>6, Assemble

\* Steps of a command that has written no image.
LEMMA OwnStays ==
  ASSUME CtrInv, NEW p \in Procs, Running(p), UNCHANGED cmd, images'[p] = images[p],
         proc'[p].rc = "none", proc'[p].pc \notin Written, proc'[p].deleted = proc[p].deleted,
         PlaceInv(p)'
  PROVE  OwnInv(p)' /\ ~proc'[p].deleted
<1>0. OwnInv(p) /\ proc[p].rc = "none"
  BY DEF CtrInv, Running
<1>1. IdleInv(p)' /\ SetUpInv(p)'
  BY ZenonT(60) DEF IdleInv, SetUpInv
<1>2. ImageInv(p)' /\ ~proc'[p].deleted
  BY <1>0 DEF OwnInv, ImageInv, Dest, TempName, Written
<1> QED
  BY <1>1, <1>2 DEF OwnInv

\* Steps that call into no store, or only read.
LEMMA LocalKeeps ==
  ASSUME CtrInv, NEW p \in Procs, Running(p), UNCHANGED <<ctrs, images, serial, listVars>>,
         NEW s, proc' = [proc EXCEPT ![p] = s], IsProc(s),
         s.rc = "none", s.err = proc[p].err, s.deleted = proc[p].deleted,
         s.pc \notin Written, PlaceInv(p)', Follows(p),
         proc[p].pc \in {"save"} \cup Setting => s.pc \in {"save"} \cup Setting /\ s.c = proc[p].c,
         serial => Busy(p)', Good => Agreeing(p)'
  PROVE  CtrInv'
<1>0. /\ CtrTypes /\ OwnInv(p) /\ proc[p].rc = "none" /\ proc'[p] = s
  BY Zenon DEF CtrInv, CtrTypes, Running
<1>1. Mild(p) /\ Birth(p) /\ ErrStep(p)
  BY ZenonT(60), <1>0 DEF Mild, Birth, ErrStep, CtrTypes, listVars
<1>2. CtrTypes'
  BY <1>0 DEF CtrTypes, listVars
<1>3. OwnInv(p)' /\ ~proc'[p].deleted
  BY Zenon, <1>0, OwnStays DEF listVars
<1>4. SerialStep(p)
  <2>1. \A c : Acknowledged(c)' = Acknowledged(c)
    BY Zenon, <1>0, <1>1, AcknowledgedStays DEF Mild
  <2> QED
    BY Zenon, <1>3, <2>1 DEF SerialStep, CtrInv, SerialInv, Imaged
<1>5. AgreeStep(p)
  <2> SUFFICES ASSUME Good PROVE AgreeStep(p)
    BY DEF AgreeStep
  <2>1. \A c : Saving(p, c) => Saving(p, c)'
    BY <1>0 DEF Saving, Running
  <2>2. \A c \in CIDs : Sound(c)' = Sound(c)
    BY Zenon DEF Sound, Matches
  <2> QED
    BY ZenonT(30), <2>1, <2>2, GoodFacts DEF AgreeStep
<1> QED
  BY Zenon, <1>1, <1>2, <1>3, <1>4, <1>5, Assemble

\* A command takes up a container, with the Builder that it has read.
LEMMA TakeKeeps ==
  ASSUME CtrInv, NEW p \in Procs, Running(p), UNCHANGED <<ctrs, images, serial, listVars>>,
         NEW s, proc' = [proc EXCEPT ![p] = s], IsProc(s),
         s.rc = "none", s.err = proc[p].err, s.deleted = proc[p].deleted, s.todo = proc[p].todo,
         s.pc \in {"do", "import"}, s.c \in CIDs, s.open \subseteq proc[p].open,
         ctrs[s.c].live \/ \E o \in proc[p].open : s.c = o[1],
         proc[p].pc \in {"open", "next"}, 
         cmd[p].op \notin {"mounts", "umountall", "rmall"} => ~proc[p].err,
         serial => /\ ctrs[s.c].live /\ Acknowledged(s.c) \subseteq s.b.conf
                   /\ \A o \in s.open : o[1] # s.c,
         Good => Matches(s.c, s.b)
  PROVE  CtrInv'
<1>0. /\ CtrTypes /\ PlaceInv(p) /\ proc[p].rc = "none" /\ proc'[p] = s /\ cmd' = cmd
      /\ \A q \in Procs : q # p => proc'[q] = proc[q]
  BY DEF CtrInv, OwnInv, CtrTypes, Running, listVars
<1>1. PlaceInv(p)'
  BY ZenonT(30), <1>0 DEF PlaceInv, Working, Setting, Written
<1>2. Follows(p)
  BY Zenon, <1>0 DEF Follows
<1>3. ASSUME serial PROVE Busy(p)'
  <2>1. Acknowledged(s.c)' = Acknowledged(s.c) /\ Acknowledged(p)' = Acknowledged(p)
    BY Zenon, <1>0, AcknowledgedStays
  <2>2. Busy(p)
    BY Zenon, <1>3 DEF CtrInv, SerialInv
  <2>3. \A o \in s.open : Opened(p, o)'
    BY ZenonT(60), <1>0, <1>3, <2>2 DEF Busy, Opened
  <2>4. Configuring(p)'
    BY Zenon, <1>0, <1>3 DEF Configuring
  <2>5. Acknowledged(proc[p].c)' \subseteq proc'[p].b.conf
    BY ZenonT(60), <1>0, <1>3, <2>1
  <2> QED
    BY ZenonT(30), <1>0, <1>3, <2>1, <2>2, <2>3, <2>4, <2>5 DEF Busy, Written
<1>4. ASSUME Good PROVE Agreeing(p)'
  BY Zenon, <1>0, <1>4 DEF Agreeing, Matches
<1> QED
  BY ZenonT(60), <1>0, <1>1, <1>2, <1>3, <1>4, LocalKeeps DEF Written, Setting

\* Opening the Builder of the container that the argument denotes.
LEMMA OpenKeeps ==
  ASSUME CtrInv, NEW p \in Procs, OpenBuilder(p)
  PROVE  CtrInv'
<1>0. /\ Running(p) /\ proc[p].pc = "open" /\ IsProc(proc[p]) /\ PlaceInv(p) /\ p \in DOMAIN proc
      /\ UNCHANGED <<ctrs, images, serial, listVars>> /\ Mild(p) /\ UNCHANGED edit
  BY DEF OpenBuilder, Doing, Running, CtrInv, CtrTypes, OwnInv, Mild, listVars
<1>1. CASE proc' = [proc EXCEPT ![p] = Failing(@)]
  BY Zenon, <1>0, <1>1, GoOnKeeps DEF Written
<1>2. ASSUME NEW c \in CIDs, Denotes(c, cmd[p].ctr), ctrs[c].saved,
             proc' = [proc EXCEPT ![p] = [@ EXCEPT !.pc = "do", !.c = c, !.b = ctrs[c].b]]
      PROVE  CtrInv'
  <2> DEFINE s == [proc[p] EXCEPT !.pc = "do", !.c = c, !.b = ctrs[c].b]
  <2>1. /\ IsProc(s) /\ s.pc = "do" /\ s.c = c /\ s.b = ctrs[c].b /\ s.rc = "none"
        /\ s.open = proc[p].open /\ s.todo = proc[p].todo /\ s.err = proc[p].err
        /\ s.deleted = proc[p].deleted
    BY <1>0 DEF IsProc, CtrInv, CtrTypes, IsContainer, Running
  <2>2. proc' = [proc EXCEPT ![p] = s] /\ proc'[p] = s
    BY <1>0, <1>2
  <2> HIDE DEF s
  <2>3. serial => Acknowledged(c) \subseteq ctrs[c].b.conf
    BY <1>2 DEF CtrInv, SerialInv, Denotes
  <2>4. Good => Matches(c, ctrs[c].b)
    BY ZenonT(60), <1>0, <1>2, GoodFacts DEF Sound, Saving, Setting, Denotes
  <2>5. ~proc[p].err /\ proc[p].open = {}
    BY <1>0 DEF PlaceInv
  <2> QED
    BY Zenon, <1>0, <1>2, <2>1, <2>2, <2>3, <2>4, <2>5, TakeKeeps DEF Denotes
<1>3. ASSUME NEW c \in CIDs, Denotes(c, cmd[p].ctr), ~ctrs[c].saved,
             proc' = [proc EXCEPT ![p] = [@ EXCEPT !.pc = "import", !.c = c,
                                             !.b = [NoBuilder EXCEPT !.name = cmd[p].ctr]]]
      PROVE  CtrInv'
  <2> DEFINE b == [NoBuilder EXCEPT !.name = cmd[p].ctr]
             s == [proc[p] EXCEPT !.pc = "import", !.c = c, !.b = b]
  <2>0. IsBuilder(b) /\ b.name = cmd[p].ctr /\ b.conf = {} /\ b.mp = FALSE
    BY DEF IsBuilder, NoBuilder
  <2> HIDE DEF b
  <2>1. /\ IsProc(s) /\ s.pc = "import" /\ s.c = c /\ s.b = b /\ s.rc = "none"
        /\ s.open = proc[p].open /\ s.todo = proc[p].todo /\ s.err = proc[p].err
        /\ s.deleted = proc[p].deleted
    BY <1>0, <2>0 DEF IsProc, Running
  <2>2. proc' = [proc EXCEPT ![p] = s] /\ proc'[p] = s
    BY <1>0, <1>3 DEF b
  <2> HIDE DEF s
  <2>3. serial => Acknowledged(c) \subseteq b.conf
    BY <1>3, <2>0 DEF CtrInv, SerialInv, Denotes, CtrTypes, NoBuilder
  <2>4. Good => Matches(c, b)
    BY <1>0, <1>3, <2>0, GoodFacts DEF Sound, Matches, Saving, Setting, Denotes
  <2>5. ~proc[p].err /\ proc[p].open = {}
    BY <1>0 DEF PlaceInv
  <2> QED
    BY ZenonT(30), <1>0, <1>3, <2>1, <2>2, <2>3, <2>4, <2>5, TakeKeeps DEF Denotes
<1> QED
  BY Zenon, <1>1, <1>2, <1>3 DEF OpenBuilder

\* A step that changes the container that the command works on.
LEMMA StoreKeeps ==
  ASSUME CtrInv, NEW p \in Procs, Running(p), UNCHANGED <<images, serial, listVars>>,
         NEW c \in CIDs, proc[p].c = c, proc[p].pc \in Working, ctrs[c].live,
         NEW k, ctrs' = [ctrs EXCEPT ![c] = k], IsContainer(k), k.live,
         k.saved \/ k.b = NoBuilder,
         NEW s, proc' = [proc EXCEPT ![p] = s], IsProc(s),
         s.rc = "none", s.err = proc[p].err, s.deleted = proc[p].deleted, s.todo = proc[p].todo,
         s.open = proc[p].open, s.c = c, s.pc \notin Written \cup {"name", "create"}, PlaceInv(p)',
         serial => /\ Acknowledged(c) \subseteq k.b.conf
                   /\ s.pc \in Working => Acknowledged(c) \subseteq s.b.conf
                   /\ cmd[p].op = "config" => Configuring(p)',
         Good => k.count \in Nat /\ (Sound(c)' \/ s.pc \in {"save"} \cup Setting) /\ Agreeing(p)'
  PROVE  CtrInv'
<1>0. /\ CtrTypes /\ OwnInv(p) /\ proc[p].rc = "none" /\ proc'[p] = s /\ ctrs'[c] = k
      /\ UNCHANGED <<cmd, edit>>
      /\ \A q \in Procs : q # p => proc'[q] = proc[q]
      /\ \A d \in CIDs : d # c => ctrs'[d] = ctrs[d]
  BY Zenon DEF CtrInv, CtrTypes, Running, listVars
<1>1. Mild(p) /\ Birth(p) /\ ErrStep(p) /\ Follows(p)
  BY ZenonT(30), <1>0 DEF Mild, Birth, ErrStep, Follows
<1>2. CtrTypes'
  BY Zenon, <1>0 DEF CtrTypes
<1>3. OwnInv(p)' /\ ~proc'[p].deleted
  BY ZenonT(30), <1>0, OwnStays
<1>4. SerialStep(p)
  <2> SUFFICES ASSUME serial PROVE SerialStep(p)
    BY Zenon DEF SerialStep
  <2>1. \A d : Acknowledged(d)' = Acknowledged(d)
    BY ZenonT(30), <1>0, <1>1, AcknowledgedStays
  <2>2. Busy(p)
    BY ZenonT(60) DEF CtrInv, SerialInv
  <2>3. \A o \in s.open : Opened(p, o)'
    BY SMTT(60), <1>0, <2>2 DEF Busy, Opened
  <2>4. Acknowledged(proc[p].c)' = Acknowledged(c) /\ Acknowledged(p)' = Acknowledged(p)
    BY ZenonT(30), <1>0, <2>1
  <2>5. Busy(p)'
    <3>0. proc'[p].pc \in Working => Acknowledged(proc[p].c)' \subseteq proc'[p].b.conf
      BY ZenonT(30), <1>0, <2>4
    <3>1. ctrs'[proc'[p].c].live
      BY ZenonT(60), <1>0
    <3>2. cmd[p].op = "from" => Acknowledged(p)' = {}
      BY ZenonT(30), <2>2, <2>4 DEF Busy
    <3>3. proc'[p].pc \notin Written /\ proc'[p].open = s.open
      BY Zenon, <1>0
    <3> QED
      BY ZenonT(30), <1>0, <2>3, <3>0, <3>1, <3>2, <3>3 DEF Busy
  <2>6. \A d \in CIDs : ctrs'[d].live => Acknowledged(d) \subseteq ctrs'[d].b.conf
    BY Zenon, <1>0 DEF CtrInv, SerialInv
  <2> QED
    BY ZenonT(30), <1>3, <2>1, <2>5, <2>6 DEF SerialStep, Imaged
<1>5. AgreeStep(p)
  <2> SUFFICES ASSUME Good PROVE AgreeStep(p)
    BY Zenon DEF AgreeStep
  <2>1. \A d \in CIDs : d # c => Sound(d)' = Sound(d) /\ ~Saving(p, d)
    BY ZenonT(30), <1>0 DEF Sound, Matches, Saving
  <2>2. Sound(c)' \/ Saving(p, c)'
    BY Zenon, <1>0 DEF Saving, Running
  <2>3. \A d \in CIDs : ctrs'[d].count \in Nat
    BY Zenon, <1>0, GoodFacts
  <2>4. \A d \in CIDs : ctrs'[d].live => Sound(d)' \/ Saving(p, d)'
    BY Zenon, <1>0, <2>1, <2>2, GoodFacts
  <2> QED
    BY Zenon, <2>3, <2>4 DEF AgreeStep
<1> QED
  BY ZenonT(60), <1>1, <1>2, <1>3, <1>4, <1>5, Assemble

\* A container without a state file gets one.
LEMMA ImportKeeps ==
  ASSUME CtrInv, NEW p \in Procs, ImportBuilder(p)
  PROVE  CtrInv'
<1> DEFINE c == proc[p].c
           k == [ctrs[c] EXCEPT !.saved = TRUE, !.b = proc[p].b]
           s == [proc[p] EXCEPT !.pc = "do"]
<1>0. /\ Running(p) /\ proc[p].pc = "import" /\ IsProc(proc[p]) /\ PlaceInv(p) /\ p \in DOMAIN proc
      /\ UNCHANGED <<images, serial, listVars>> /\ UNCHANGED <<cmd, edit>>
      /\ c \in CIDs /\ c \in DOMAIN ctrs /\ IsContainer(ctrs[c])
  BY DEF ImportBuilder, Doing, Running, CtrInv, CtrTypes, OwnInv, PlaceInv, Working, listVars
<1>1. CASE ~ctrs[c].live
  BY Zenon, <1>0, <1>1, GoOnKeeps DEF ImportBuilder, Written, Mild, CtrInv, CtrTypes
<1>2. CASE ctrs[c].live
  <2>1. /\ IsProc(s) /\ s.pc = "do" /\ s.c = c /\ s.b = proc[p].b /\ s.rc = "none"
        /\ s.open = proc[p].open /\ s.todo = proc[p].todo /\ s.err = proc[p].err
        /\ s.deleted = proc[p].deleted
    BY <1>0 DEF IsProc, Running
  <2>2. /\ IsContainer(k) /\ k.saved /\ k.b = proc[p].b /\ k.live = ctrs[c].live
        /\ k.count = ctrs[c].count /\ k.name = ctrs[c].name
    BY <1>0 DEF IsContainer, IsProc
  <2>3. proc' = [proc EXCEPT ![p] = s] /\ ctrs' = [ctrs EXCEPT ![c] = k] 
    BY ZenonT(30), <1>2 DEF ImportBuilder, Save
  <2>4. proc'[p] = s /\ ctrs'[c] = k
    BY ZenonT(60), <1>0, <2>3
  <2> HIDE DEF s, k
  <2>5. PlaceInv(p)'
    BY <1>0, <2>1, <2>4 DEF PlaceInv, Working, Setting, Written
  <2>6. serial => /\ Acknowledged(c) \subseteq k.b.conf
                  /\ Acknowledged(c) \subseteq s.b.conf
    BY ZenonT(30), <1>0, <2>1, <2>2 DEF CtrInv, SerialInv, Busy, Working
  <2>7. Configuring(p)'
    BY ZenonT(30), <1>0, <1>2, <2>1, <2>2, <2>4 DEF Configuring
  <2>8. Good => k.count \in Nat /\ Sound(c)' /\ Agreeing(p)'
    BY <1>0, <2>1, <2>2, <2>4, GoodFacts DEF Agreeing, Sound, Matches, Working
  <2> HIDE DEF c
  <2> QED
    BY ZenonT(60), <1>0, <1>2, <2>1, <2>2, <2>3, <2>5, <2>6, <2>7, <2>8, StoreKeeps DEF c, Working, Written
<1> QED
  BY <1>1, <1>2

\* OpenAllBuilders lists the containers, then reads their state files.
LEMMA ListKeeps ==
  ASSUME CtrInv, NEW p \in Procs, ListContainers(p)
  PROVE  CtrInv'
<1> DEFINE s == [proc[p] EXCEPT !.todo = {c \in CIDs : ctrs[c].live}, !.pc = "readall"]
<1>0. /\ Running(p) /\ proc[p].pc = "list" /\ IsProc(proc[p]) /\ PlaceInv(p) /\ p \in DOMAIN proc
      /\ UNCHANGED <<ctrs, images, serial, listVars>> /\ UNCHANGED cmd
      /\ proc' = [proc EXCEPT ![p] = s] /\ proc'[p] = s
      /\ \A q \in Procs : q # p => proc'[q] = proc[q]
  BY ZenonT(30) DEF ListContainers, Doing, Running, CtrInv, CtrTypes, OwnInv, listVars
<1>1. /\ IsProc(s) /\ s.pc = "readall" /\ s.c = proc[p].c /\ s.b = proc[p].b /\ s.rc = "none"
      /\ s.open = proc[p].open /\ s.todo = {c \in CIDs : ctrs[c].live} /\ s.err = proc[p].err
      /\ s.deleted = proc[p].deleted
  BY ZenonT(60), <1>0 DEF IsProc, Running
<1> HIDE DEF s
<1>2. PlaceInv(p)' /\ Follows(p)
  BY <1>0, <1>1 DEF PlaceInv, Follows, Working, Setting, Written
<1>3. ASSUME serial PROVE Busy(p)'
  <2>1. Busy(p)
    BY Zenon, <1>0, <1>3 DEF CtrInv, SerialInv
  <2>2. \A o \in s.open : Opened(p, o)'
    BY Zenon, <1>0, <1>1, <2>1 DEF Busy, Opened, Working, Setting
  <2>3. cmd[p].op \notin {"from", "config"} \/ Acknowledged(p)' = Acknowledged(p)
    BY ZenonT(60), <1>0, <1>1, AcknowledgedStays DEF Running
  <2> QED
    BY ZenonT(60), <1>0, <1>1, <2>1, <2>2, <2>3 DEF Busy, Working, Setting, Written, PlaceInv
<1>4. Agreeing(p)'
  BY <1>0, <1>1 DEF Agreeing, Working, Setting
<1> QED
  BY ZenonT(60), <1>0, <1>1, <1>2, <1>3, <1>4, LocalKeeps DEF Written, Setting

LEMMA ReadKeeps ==
  ASSUME CtrInv, NEW p \in Procs, NEW c \in CIDs, ReadState(p, c)
  PROVE  CtrInv'
<1>0. /\ Running(p) /\ proc[p].pc = "readall" /\ IsProc(proc[p]) /\ PlaceInv(p) /\ p \in DOMAIN proc
      /\ UNCHANGED <<ctrs, images, serial, listVars>> /\ UNCHANGED <<cmd, edit>> /\ c \in proc[p].todo
      /\ IsContainer(ctrs[c]) /\ Mild(p)
  BY DEF ReadState, Doing, Running, CtrInv, CtrTypes, OwnInv, listVars, Mild
<1>1. CASE ~ctrs[c].live
  BY Zenon, <1>0, <1>1, ErrorKeeps DEF ReadState
<1>2. CASE ctrs[c].live
  <2> DEFINE open == proc[p].open \cup StateFile(c)
             s == [proc[p] EXCEPT !.todo = @ \ {c}, !.open = open]
  <2>0. /\ proc' = [proc EXCEPT ![p] = s] /\ proc'[p] = s
        /\ \A q \in Procs : q # p => proc'[q] = proc[q]
    <3>0. proc' = [proc EXCEPT ![p] = IF ~ctrs[c].live THEN Return(@, "err") ELSE s]
      BY DEF ReadState
    <3> HIDE DEF s
    <3>1. proc' = [proc EXCEPT ![p] = s]
      BY ZenonT(60), <1>2, <3>0
    <3> QED
      BY <1>0, <3>1 DEF CtrInv, CtrTypes
  <2>1. \A o \in open : o \in proc[p].open \/ (o = <<c, ctrs[c].b>> /\ ctrs[c].saved)
    BY DEF StateFile
  <2> HIDE DEF open
  <2>2. /\ s.pc = "readall" /\ s.c = proc[p].c /\ s.b = proc[p].b /\ s.rc = "none"
        /\ s.open = open /\ s.todo = proc[p].todo \ {c} /\ s.err = proc[p].err
        /\ s.deleted = proc[p].deleted
    BY <1>0 DEF IsProc, Running
  <2>3. IsProc(s)
    BY SMTT(60), <1>0, <2>1, <2>2 DEF IsProc, IsContainer
  <2> HIDE DEF s
  <2>4. PlaceInv(p)' /\ Follows(p)
    BY SMTT(60), <1>0, <1>2, <2>0, <2>1, <2>2 DEF PlaceInv, Follows, Working, Setting, Written
  <2>5. ASSUME serial PROVE Busy(p)'
    <3>1. Busy(p)
      BY ZenonT(30), <1>0, <2>5 DEF CtrInv, SerialInv
    <3>2. \A o \in s.open : Opened(p, o)'
      BY SMTT(60), <1>0, <1>2, <2>0, <2>1, <2>2, <3>1 DEF Busy, Opened, Working, Setting
    <3> QED
      BY ZenonT(60), <1>0, <2>0, <2>2, <3>1, <3>2 DEF Busy, Working, Setting, Written, PlaceInv
  <2>6. Agreeing(p)'
    BY Zenon, <1>0, <2>0, <2>2 DEF Agreeing, Working, Setting
  <2> QED
    BY ZenonT(60), <1>0, <2>0, <2>2, <2>3, <2>4, <2>5, <2>6, LocalKeeps DEF Written, Setting
<1> QED
  BY <1>1, <1>2

LEMMA AllReadKeeps ==
  ASSUME CtrInv, NEW p \in Procs, AllRead(p)
  PROVE  CtrInv'
<1>1. /\ Running(p) /\ proc[p].pc = "readall" /\ UNCHANGED <<ctrs, images, edit>> /\ Mild(p)
      /\ PlaceInv(p)
  BY Zenon DEF AllRead, Doing, Running, CtrInv, CtrTypes, OwnInv, listVars, Mild
<1> QED
  BY Zenon, <1>1, GoOnKeeps DEF AllRead, PlaceInv, Written

\* The next of the containers that were listed.
LEMMA NextOneKeeps ==
  ASSUME CtrInv, NEW p \in Procs, Doing(p, "next"), UNCHANGED <<ctrs, images, serial, listVars>>,
         NEW o \in proc[p].open,
         proc' = [proc EXCEPT ![p].pc = "do", ![p].c = o[1], ![p].b = o[2], ![p].open = @ \ {o}]
  PROVE  CtrInv'
<1> DEFINE s == [proc[p] EXCEPT !.pc = "do", !.c = o[1], !.b = o[2], !.open = @ \ {o}]
<1>0. /\ Running(p) /\ proc[p].pc = "next" /\ IsProc(proc[p]) /\ PlaceInv(p) /\ p \in DOMAIN proc
  BY DEF Doing, Running, CtrInv, CtrTypes, OwnInv
<1>1. /\ IsProc(s) /\ s.pc = "do" /\ s.c = o[1] /\ s.b = o[2] /\ s.rc = "none"
      /\ s.open = proc[p].open \ {o} /\ s.todo = proc[p].todo /\ s.err = proc[p].err
      /\ s.deleted = proc[p].deleted
  BY <1>0 DEF IsProc, Running
<1>2. proc' = [proc EXCEPT ![p] = s]
  BY Zenon, <1>0
<1> HIDE DEF s
<1>3. o[1] \in CIDs /\ cmd[p].op \in {"mounts", "umountall", "rmall"}
  BY Zenon, <1>0 DEF PlaceInv
<1>4. serial => /\ Opened(p, o) /\ ctrs[s.c].live /\ Acknowledged(s.c) \subseteq s.b.conf
                /\ \A x \in s.open : x[1] # s.c
  BY <1>0, <1>1, <1>3 DEF CtrInv, SerialInv, Busy, Opened
<1>5. Good => Matches(s.c, s.b)
  <2> SUFFICES ASSUME Good PROVE Matches(o[1], o[2])
    BY <1>1
  <2>1. Sound(o[1]) \/ Saving(p, o[1])
    BY <1>0, <1>3, <1>4, <1>1, GoodFacts
  <2>2. ~Saving(p, o[1])
    BY <1>0 DEF Saving, Setting
  <2>3. ctrs[o[1]].saved /\ ctrs[o[1]].b = o[2]
    BY <1>0, <1>4, GoodFacts DEF Opened
  <2> QED
    BY <2>1, <2>2, <2>3 DEF Sound
<1> QED
  BY ZenonT(60), <1>0, <1>1, <1>2, <1>3, <1>4, <1>5, TakeKeeps

\* The command returns; an edit whose state file was saved is acknowledged now.
LEMMA ReturnKeeps ==
  ASSUME CtrInv, NEW p \in Procs, Doing(p, "next"), UNCHANGED <<ctrs, images, serial, listVars>>,
         proc[p].open = {}, ~proc[p].err, proc' = [proc EXCEPT ![p] = Return(@, "ok")]
  PROVE  CtrInv'
<1>0. /\ Running(p) /\ proc[p].pc = "next" /\ IsProc(proc[p]) /\ OwnInv(p) /\ p \in DOMAIN proc
      /\ CtrTypes /\ UNCHANGED <<cmd, edit>> /\ proc[p].rc = "none"
  BY Zenon DEF Doing, Running, CtrInv, CtrTypes, listVars
<1>1. /\ proc'[p].rc = "ok" /\ IsProc(proc'[p])
      /\ proc'[p].pc = proc[p].pc /\ proc'[p].c = proc[p].c /\ proc'[p].b = proc[p].b
      /\ proc'[p].open = proc[p].open /\ proc'[p].todo = proc[p].todo
      /\ proc'[p].img = proc[p].img /\ proc'[p].deleted = proc[p].deleted
      /\ proc'[p].err = proc[p].err
      /\ \A q \in Procs : q # p => proc'[q] = proc[q]
  BY Zenon, <1>0 DEF CtrTypes, IsProc, Return
<1>2. CtrTypes'
  BY Zenon, <1>0, <1>1 DEF CtrTypes
<1>3. Mild(p) /\ Birth(p) /\ Follows(p) /\ ErrStep(p)
  BY Zenon, <1>0, <1>1 DEF Mild, Birth, Follows, ErrStep
<1>4. OwnInv(p)' /\ ~proc'[p].deleted
  <2>1. IdleInv(p)' /\ SetUpInv(p)'
    BY Zenon, <1>1 DEF IdleInv, SetUpInv
  <2>2. PlaceInv(p)'
    BY Zenon, <1>0, <1>1 DEF OwnInv, PlaceInv
  <2>3. ImageInv(p)' /\ ~proc'[p].deleted
    BY Zenon, <1>0, <1>1 DEF OwnInv, ImageInv, PlaceInv, Dest, TempName, Written
  <2> QED
    BY Zenon, <2>1, <2>2, <2>3 DEF OwnInv
<1>5. SerialStep(p)
  <2> SUFFICES ASSUME serial PROVE SerialStep(p)
    BY Zenon DEF SerialStep
  <2>1. CASE cmd[p].op # "config"
    <3>1. \A c : Acknowledged(c)' = Acknowledged(c)
      BY Zenon, <1>0, <1>1, <2>1, AcknowledgedStays
    <3> QED
      BY Zenon, <1>1, <1>4, <3>1 DEF SerialStep, CtrInv, SerialInv, Running, Imaged
  <2>2. CASE cmd[p].op = "config"
    <3>1. /\ proc[p].c \in CIDs /\ ctrs[proc[p].c].live
          /\ cmd[p].edit \in ctrs[proc[p].c].b.conf
      BY Zenon, <1>0, <2>2, ScenarioAssumption DEF CtrInv, SerialInv, Busy, Configuring, CIDs, None
    <3>2. \A c : Acknowledged(c)' \subseteq Acknowledged(c) \cup IF c = proc[p].c THEN {cmd[p].edit} ELSE {}
      <4> SUFFICES ASSUME NEW c, NEW q \in Procs, cmd[q].op = "config", proc'[q].rc = "ok",
                          proc'[q].c = c
                   PROVE  cmd[q].edit \in Acknowledged(c) \/ (c = proc[p].c /\ cmd[q].edit = cmd[p].edit)
        BY SMTT(60), <1>0 DEF Acknowledged
      <4>1. CASE q = p
        BY Zenon, <1>1, <4>1
      <4>2. CASE q # p
        BY Zenon, <1>1, <4>2 DEF Acknowledged
      <4> QED
        BY ZenonT(60), <4>1, <4>2
    <3>3. \A c \in CIDs : ctrs[c].live => Acknowledged(c) \subseteq ctrs[c].b.conf
      BY Zenon DEF CtrInv, SerialInv
    <3>4. \A c \in CIDs : ctrs[c].live => Acknowledged(c)' \subseteq ctrs[c].b.conf
      BY Zenon, <3>1, <3>2, <3>3
    <3>5. \A c \in CIDs : Acknowledged(c)' \subseteq Acknowledged(c) \/ ctrs[c].live
      BY Zenon, <3>1, <3>2
    <3> QED
      BY Zenon, <1>1, <1>4, <3>4, <3>5 DEF SerialStep, Running, Imaged
  <2> QED
    BY Zenon, <2>1, <2>2
<1>6. AgreeStep(p)
  <2> SUFFICES ASSUME Good PROVE AgreeStep(p)
    BY DEF AgreeStep
  <2>1. \A c \in CIDs : Sound(c)' = Sound(c) /\ ~Saving(p, c)
    BY Zenon, <1>0 DEF Sound, Matches, Saving, Setting
  <2> QED
    BY ZenonT(60), <1>0, <1>1, <2>1, GoodFacts DEF AgreeStep, Running
<1> QED
  BY ZenonT(60), <1>0, <1>2, <1>3, <1>4, <1>5, <1>6, Assemble

LEMMA TakeNextKeeps ==
  ASSUME CtrInv, NEW p \in Procs, TakeNext(p)
  PROVE  CtrInv'
<1>0. /\ Doing(p, "next") /\ Running(p) /\ proc[p].pc = "next" /\ Mild(p)
      /\ UNCHANGED <<ctrs, images, serial, listVars>> /\ UNCHANGED edit
  BY Zenon DEF TakeNext, Doing, Running, CtrInv, CtrTypes, Mild, listVars
<1>1. CASE proc[p].open = {} /\ proc' = [proc EXCEPT ![p] = Return(@, IF @.err THEN "err" ELSE "ok")]
  <2>1. CASE proc[p].err
    <3>1. proc' = [proc EXCEPT ![p] = Return(@, "err")]
      BY <1>1, <2>1
    <3> QED
      BY Zenon, <1>0, <3>1, ErrorKeeps
  <2>2. CASE ~proc[p].err
    <3>1. proc' = [proc EXCEPT ![p] = Return(@, "ok")]
      BY <1>1, <2>2
    <3> QED
      BY ZenonT(30), <1>0, <1>1, <2>2, <3>1, ReturnKeeps
  <2> QED
    BY Zenon, <2>1, <2>2
<1> QED
  BY ZenonT(30), <1>0, <1>1, NextOneKeeps DEF TakeNext

LEMMA VanishedKeeps ==
  ASSUME CtrInv, NEW p \in Procs, ContainerVanished(p)
  PROVE  CtrInv'
<1>0. /\ Running(p) /\ proc[p].pc = "do" /\ Mild(p) /\ UNCHANGED <<ctrs, images, edit>>
  BY DEF ContainerVanished, Doing, Running, CtrInv, CtrTypes, Mild, listVars
<1>1. CASE cmd[p].op = "mounts"
  BY Zenon, <1>0, <1>1, ErrorKeeps DEF ContainerVanished
<1>2. CASE cmd[p].op # "mounts"
  BY Zenon, <1>0, <1>2, GoOnKeeps DEF ContainerVanished, Written
<1> QED
  BY ZenonT(60), <1>1, <1>2

\* A step that mounts or unmounts the container, and notes it in the Builder.
LEMMA CountKeeps ==
  ASSUME CtrInv, NEW p \in Procs, Running(p), UNCHANGED <<images, serial, listVars>>,
         NEW c \in CIDs, proc[p].c = c, proc[p].pc \in Working, ctrs[c].live,
         NEW n, ctrs' = [ctrs EXCEPT ![c].count = n],
         NEW b, IsBuilder(b), b.name = proc[p].b.name, b.conf = proc[p].b.conf,
         NEW to \in {"save", "mount-save"}, to = "mount-save" => proc[p].pc = "mount",
         proc' = [proc EXCEPT ![p].b = b, ![p].pc = to],
         cmd[p].op \notin {"config", "commit"}, Good => n \in Nat /\ (b.mp => n > 0)
  PROVE  CtrInv'
<1> DEFINE k == [ctrs[c] EXCEPT !.count = n]
           s == [proc[p] EXCEPT !.b = b, !.pc = to]
<1>0. /\ IsProc(proc[p]) /\ PlaceInv(p) /\ p \in DOMAIN proc /\ UNCHANGED <<cmd, edit>>
      /\ c \in DOMAIN ctrs /\ IsContainer(ctrs[c]) /\ (ctrs[c].saved \/ ctrs[c].b = NoBuilder)
  BY DEF Running, CtrInv, CtrTypes, OwnInv, listVars
<1>1. /\ IsProc(s) /\ s.pc = to /\ s.c = c /\ s.b = b /\ s.rc = "none"
      /\ s.open = proc[p].open /\ s.todo = proc[p].todo /\ s.err = proc[p].err
      /\ s.deleted = proc[p].deleted
  BY <1>0 DEF IsProc, Running
<1>2. /\ IsContainer(k) /\ k.saved = ctrs[c].saved /\ k.b = ctrs[c].b /\ k.live = ctrs[c].live
      /\ k.count = n /\ k.name = ctrs[c].name /\ k.image = ctrs[c].image
  BY Zenon, <1>0 DEF IsContainer
<1>3. proc' = [proc EXCEPT ![p] = s] /\ ctrs' = [ctrs EXCEPT ![c] = k]
  BY Zenon
<1>4. proc'[p] = s /\ ctrs'[c] = k
  BY <1>0, <1>3
<1> HIDE DEF s, k
<1>5. PlaceInv(p)'
  BY <1>0, <1>1, <1>4 DEF PlaceInv, Working, Setting, Written
<1>6. serial => Acknowledged(c) \subseteq ctrs[c].b.conf /\ Acknowledged(c) \subseteq s.b.conf
  BY ZenonT(60), <1>0, <1>1 DEF CtrInv, SerialInv, Busy
<1>7. Good => Agreeing(p)'
  BY <1>0, <1>1, <1>2, <1>4, GoodFacts DEF Agreeing, Matches
<1>8. /\ Acknowledged(c) \subseteq ctrs[c].b.conf => Acknowledged(c) \subseteq k.b.conf
      /\ k.live /\ (k.saved \/ k.b = NoBuilder) /\ s.pc \notin Written \cup {"name", "create"}
      /\ s.pc \in {"save"} \cup Setting
  BY <1>0, <1>1, <1>2 DEF Written, Setting
<1> QED
  BY ZenonT(60), <1>0, <1>1, <1>2, <1>3, <1>5, <1>6, <1>7, <1>8, StoreKeeps

\* A step that only changes the Builder that the command holds.
LEMMA EditKeeps ==
  ASSUME CtrInv, NEW p \in Procs, Running(p), UNCHANGED <<ctrs, images, serial, listVars>>,
         proc[p].pc \in Working, NEW b, IsBuilder(b), b.name = proc[p].b.name,
         NEW to \in {"save", "create-save"}, to = "create-save" => proc[p].pc = "config",
         proc' = [proc EXCEPT ![p].b = b, ![p].pc = to],
         cmd[p].op # "commit", cmd[p].op = "config" => to = "save" /\ cmd[p].edit \in b.conf,
         serial => Acknowledged(proc[p].c) \subseteq b.conf,
         Good => (b.mp => ctrs[proc[p].c].count > 0)
  PROVE  CtrInv'
<1> DEFINE s == [proc[p] EXCEPT !.b = b, !.pc = to]
<1>0. /\ IsProc(proc[p]) /\ PlaceInv(p) /\ p \in DOMAIN proc /\ UNCHANGED <<cmd, edit>>
      /\ \A q \in Procs : q # p => proc'[q] = proc[q]
  BY DEF Running, CtrInv, CtrTypes, OwnInv, listVars
<1>1. /\ IsProc(s) /\ s.pc = to /\ s.c = proc[p].c /\ s.b = b /\ s.rc = "none"
      /\ s.open = proc[p].open /\ s.todo = proc[p].todo /\ s.err = proc[p].err
      /\ s.deleted = proc[p].deleted
  BY <1>0 DEF IsProc, Running
<1>3. proc' = [proc EXCEPT ![p] = s] /\ proc'[p] = s
  BY Zenon, <1>0
<1> HIDE DEF s
<1>4. PlaceInv(p)' /\ Follows(p)
  BY <1>0, <1>1, <1>3 DEF PlaceInv, Working, Setting, Written, Follows
<1>5. ASSUME serial PROVE Busy(p)'
  <2>1. Busy(p)
    BY <1>5 DEF CtrInv, SerialInv
  <2>a. \A c : Acknowledged(c)' = Acknowledged(c)
    BY ZenonT(60), <1>0, <1>1, <1>3, AcknowledgedStays DEF Running
  <2>c. PICK c : c = proc[p].c /\ c = proc'[p].c
    BY <1>1, <1>3
  <2>2. Acknowledged(c)' \subseteq b.conf /\ Acknowledged(p)' = Acknowledged(p)
    BY Zenon, <1>5, <2>a, <2>c
  <2>3. \A o \in s.open : Opened(p, o)'
    BY <1>0, <1>1, <1>3, <2>1 DEF Busy, Opened
  <2>4. cmd[p].op = "config" => Configuring(p)'
    BY ZenonT(60), <1>0, <1>1, <1>3, <2>1 DEF Busy, Configuring
  <2> QED
    BY ZenonT(60), <1>0, <1>1, <1>3, <2>c, <2>1, <2>2, <2>3, <2>4 DEF Busy, Written
<1>6. ASSUME Good PROVE Agreeing(p)'
  BY <1>0, <1>1, <1>3, <1>6, GoodFacts DEF Agreeing, Matches
<1>7. s.pc \notin Written /\ s.pc \in {"save"} \cup Setting
  BY Zenon, <1>1 DEF Written, Setting
<1> QED
  BY ZenonT(60), <1>0, <1>1, <1>3, <1>4, <1>5, <1>6, <1>7, LocalKeeps

LEMMA MountKeeps ==
  ASSUME CtrInv, NEW p \in Procs, Mount(p)
  PROVE  CtrInv'
<1>0. /\ Running(p) /\ proc[p].pc = "do" /\ IsProc(proc[p]) /\ PlaceInv(p) /\ CtrTypes
  BY DEF Mount, Doing, Running, CtrInv, CtrTypes, OwnInv
<1>1. PICK c \in CIDs : c = proc[p].c
  BY <1>0 DEF PlaceInv, Working
<1>2. PICK b : b = [proc[p].b EXCEPT !.mp = TRUE]
  BY Zenon
<1>3. PICK n : n = ctrs[c].count + 1
  OBVIOUS
<1>4. IsBuilder(b) /\ b.name = proc[p].b.name /\ b.conf = proc[p].b.conf
  BY <1>0, <1>2 DEF IsProc, IsBuilder
<1>5. proc' = [proc EXCEPT ![p].b = b, ![p].pc = "save"]
  BY <1>2 DEF Mount
<1>6. ctrs' = [ctrs EXCEPT ![c].count = n] /\ ctrs[c].live /\ cmd[p].op = "mount"
  BY ZenonT(60), <1>1, <1>3 DEF Mount, Present
<1>7. Good => n \in Nat /\ n > 0
  BY <1>0, <1>3, GoodFacts
<1> QED
  BY ZenonT(30), <1>0, <1>1, <1>4, <1>5, <1>6, <1>7, CountKeeps DEF Mount, Working

LEMMA UnmountKeeps ==
  ASSUME CtrInv, NEW p \in Procs, Unmount(p)
  PROVE  CtrInv'
<1>0. /\ Running(p) /\ proc[p].pc = "do" /\ IsProc(proc[p]) /\ PlaceInv(p) /\ CtrTypes
      /\ cmd[p].op \in {"umount", "umountall"} /\ UNCHANGED <<images, serial, listVars>>
  BY DEF Unmount, Doing, Running, CtrInv, CtrTypes, OwnInv
<1>1. CASE proc' = [proc EXCEPT ![p] = NextContainer(@)] /\ UNCHANGED ctrs
  <2>1. Mild(p) /\ UNCHANGED edit
    BY <1>0, <1>1 DEF Mild, listVars, CtrTypes
  <2> QED
    BY ZenonT(30), <1>0, <1>1, <2>1, GoOnKeeps DEF Written
<1>2. CASE /\ proc[p].b.mp /\ Present(p)
           /\ ctrs' = [ctrs EXCEPT ![proc[p].c].count = @ - 1]
           /\ proc' = [proc EXCEPT ![p].b.mp = FALSE, ![p].pc = "save"]
  <2>1. PICK c \in CIDs : c = proc[p].c
    BY <1>0 DEF PlaceInv, Working
  <2>2. PICK b : b = [proc[p].b EXCEPT !.mp = FALSE]
    BY Zenon
  <2>3. PICK n : n = ctrs[c].count - 1
    OBVIOUS
  <2>4. IsBuilder(b) /\ b.name = proc[p].b.name /\ b.conf = proc[p].b.conf /\ ~b.mp
    BY <1>0, <2>2 DEF IsProc, IsBuilder
  <2>5. proc' = [proc EXCEPT ![p].b = b, ![p].pc = "save"]
    BY Zenon, <1>2, <2>2
  <2>6. ctrs' = [ctrs EXCEPT ![c].count = n] /\ ctrs[c].live
    BY ZenonT(60), <1>2, <2>1, <2>3 DEF Present
  <2>7. Good => n \in Nat
    BY <1>0, <1>2, <2>1, <2>3, GoodFacts DEF Agreeing, Matches, Working
  <2> QED
    BY ZenonT(60), <1>0, <2>1, <2>4, <2>5, <2>6, <2>7, CountKeeps DEF Working
<1> QED
  BY Zenon, <1>1, <1>2 DEF Unmount

LEMMA MountedKeeps ==
  ASSUME CtrInv, NEW p \in Procs, Mounted(p)
  PROVE  CtrInv'
<1>0. /\ Running(p) /\ proc[p].pc = "do" /\ IsProc(proc[p]) /\ PlaceInv(p) /\ CtrTypes
      /\ cmd[p].op = "mounts" /\ UNCHANGED <<ctrs, images, serial, listVars>>
  BY DEF Mounted, Doing, Running, CtrInv, CtrTypes, OwnInv
<1>1. PICK m : m = (ctrs[proc[p].c].count > 0)
  OBVIOUS
<1>2. proc' = [proc EXCEPT ![p] = IF m = @.b.mp THEN NextContainer(@)
                                  ELSE [@ EXCEPT !.b.mp = m, !.pc = "save"]]
  BY Zenon, <1>1 DEF Mounted
<1>3. CASE m = proc[p].b.mp
  <2>1. proc' = [proc EXCEPT ![p] = NextContainer(@)]
    BY ZenonT(60), <1>2, <1>3
  <2>2. Mild(p) /\ UNCHANGED edit
    BY <1>0, <2>1 DEF Mild, listVars, CtrTypes
  <2> QED
    BY Zenon, <1>0, <2>1, <2>2, GoOnKeeps DEF Written
<1>4. CASE m # proc[p].b.mp
  <2>1. PICK b : b = [proc[p].b EXCEPT !.mp = m]
    BY Zenon
  <2>2. IsBuilder(b) /\ b.name = proc[p].b.name /\ b.conf = proc[p].b.conf /\ b.mp = m
    BY <1>0, <2>1 DEF IsProc, IsBuilder
  <2>3. proc' = [proc EXCEPT ![p].b = b, ![p].pc = "save"]
    BY Zenon, <1>2, <1>4, <2>1
  <2>4. serial => Acknowledged(proc[p].c) \subseteq b.conf
    BY Zenon, <1>0, <2>2 DEF CtrInv, SerialInv, Busy, Working
  <2> QED
    BY ZenonT(60), <1>0, <1>1, <2>2, <2>3, <2>4, EditKeeps DEF Working
<1> QED
  BY Zenon, <1>3, <1>4

LEMMA UpdateKeeps ==
  ASSUME CtrInv, NEW p \in Procs, UpdateConfig(p)
  PROVE  CtrInv'
<1>0. /\ Running(p) /\ proc[p].pc = "do" /\ IsProc(proc[p]) /\ PlaceInv(p) /\ CtrTypes
      /\ cmd[p].op = "config" /\ UNCHANGED <<ctrs, images, serial, listVars>>
  BY Zenon DEF UpdateConfig, Doing, Running, CtrInv, CtrTypes, OwnInv
<1>1. CASE proc' = [proc EXCEPT ![p] = Return(@, "err")]
  <2>1. Mild(p) /\ UNCHANGED edit
    BY <1>0, <1>1 DEF Mild, listVars, CtrTypes
  <2> QED
    BY ZenonT(60), <1>0, <1>1, <2>1, ErrorKeeps
<1>2. CASE proc' = [proc EXCEPT ![p].b.conf = @ \cup {cmd[p].edit}, ![p].pc = "save"]
  <2>1. PICK b : b = [proc[p].b EXCEPT !.conf = @ \cup {cmd[p].edit}]
    BY ZenonT(30)
  <2>2. /\ IsBuilder(b) /\ b.name = proc[p].b.name /\ b.conf = proc[p].b.conf \cup {cmd[p].edit}
        /\ b.mp = proc[p].b.mp
    BY Zenon, <1>0, <2>1 DEF IsProc, IsBuilder
  <2>3. proc' = [proc EXCEPT ![p].b = b, ![p].pc = "save"]
    BY <1>2, <2>1
  <2>4. serial => Acknowledged(proc[p].c) \subseteq b.conf
    BY Zenon, <1>0, <2>2 DEF CtrInv, SerialInv, Busy, Working
  <2>5. Good => (b.mp => ctrs[proc[p].c].count > 0)
    BY Zenon, <1>0, <2>2, GoodFacts DEF Agreeing, Matches, Working
  <2> QED
    BY ZenonT(60), <1>0, <2>2, <2>3, <2>4, <2>5, EditKeeps DEF Working
<1> QED
  BY Zenon, <1>1, <1>2 DEF UpdateConfig

\* The configuration of the base image, and its ONBUILD triggers.
LEMMA ConfigureKeeps ==
  ASSUME CtrInv, NEW p \in Procs, InitConfig(p) \/ OnBuild(p)
  PROVE  CtrInv'
<1>0. /\ Running(p) /\ proc[p].pc \in {"config", "onbuild"} /\ IsProc(proc[p]) /\ PlaceInv(p)
      /\ CtrTypes /\ cmd[p].op = "from" /\ UNCHANGED <<ctrs, images, serial, listVars>>
      /\ proc[p].c = p
  BY Zenon DEF InitConfig, OnBuild, Doing, Running, CtrInv, CtrTypes, OwnInv, PlaceInv, Setting
<1>1. CASE proc' = [proc EXCEPT ![p] = Return(@, "err")]
  <2>1. Mild(p) /\ UNCHANGED edit
    BY Zenon, <1>0, <1>1 DEF Mild, listVars, CtrTypes
  <2> QED
    BY ZenonT(30), <1>0, <1>1, <2>1, ErrorKeeps
<1>a. /\ serial => Acknowledged(proc[p].c) = {}
      /\ Good => (proc[p].b.mp => ctrs[proc[p].c].count > 0)
  BY Zenon, <1>0, GoodFacts DEF CtrInv, SerialInv, Busy, Agreeing, Matches, Working, Setting
<1>2. CASE proc[p].pc = "config" /\ proc' = [proc EXCEPT ![p].pc = "create-save"]
  <2>1. PICK b : b = proc[p].b
    OBVIOUS
  <2>2. IsBuilder(b)
    BY <1>0, <2>1 DEF IsProc
  <2>3. proc' = [proc EXCEPT ![p].b = b, ![p].pc = "create-save"]
    BY Zenon, <1>0, <1>2, <2>1 DEF IsProc, CtrTypes
  <2> QED
    BY ZenonT(60), <1>0, <1>2, <1>a, <2>1, <2>2, <2>3, EditKeeps DEF Working, Setting
<1>3. CASE proc' = [proc EXCEPT ![p].b.conf = {"onbuild"}, ![p].pc = "save"]
  <2>1. PICK b : b = [proc[p].b EXCEPT !.conf = {"onbuild"}]
    BY ZenonT(30)
  <2>2. IsBuilder(b) /\ b.name = proc[p].b.name /\ b.mp = proc[p].b.mp
    BY <1>0, <2>1 DEF IsProc, IsBuilder
  <2>3. proc' = [proc EXCEPT ![p].b = b, ![p].pc = "save"]
    BY Zenon, <1>3, <2>1
  <2> QED
    BY ZenonT(60), <1>0, <1>a, <2>2, <2>3, EditKeeps DEF Working, Setting
<1> QED
  BY Zenon, <1>1, <1>2, <1>3 DEF InitConfig, OnBuild, Doing

\* A command that is done with its container, or with all of them.
LEMMA DoneKeeps ==
  ASSUME CtrInv, NEW p \in Procs, Running(p), UNCHANGED <<images, serial, listVars>>,
         NEW c \in CIDs, proc[p].c = c, DOMAIN ctrs' = CIDs,
         \A d \in CIDs : d # c => ctrs'[d] = ctrs[d],
         \/ ctrs'[c] = NoContainer
         \/ ctrs'[c] = ctrs[c] /\ proc[p].pc \notin {"save"} \cup Setting,
         NEW s, proc' = [proc EXCEPT ![p] = s], IsProc(s), s.c = c,
         s.open = proc[p].open, s.todo = proc[p].todo, s.pc \notin {"name", "create"},
         cmd[p].op # "config", OwnInv(p)', ErrStep(p), serial => Imaged(p)',
         s.rc = "none" => /\ s.pc = "next" /\ proc[p].pc \in Working
                          /\ cmd[p].op # "from"
  PROVE  CtrInv'
<1>0. /\ CtrTypes /\ proc[p].rc = "none" /\ proc'[p] = s /\ UNCHANGED <<cmd, edit>>
      /\ \A q \in Procs : q # p => proc'[q] = proc[q]
  BY Zenon DEF CtrInv, CtrTypes, Running, listVars
<1>n. ~NoContainer.live /\ NoContainer.count = 0 /\ NoContainer.b = NoBuilder /\ IsContainer(NoContainer)
  BY ZenonT(30) DEF NoContainer, NoBuilder, IsContainer, IsBuilder
<1>1. Mild(p) /\ Birth(p) /\ Follows(p)
  BY ZenonT(30), <1>0, <1>n DEF Mild, Birth, Follows
<1>2. CtrTypes'
  BY SMTT(60), <1>0, <1>n DEF CtrTypes
<1>3. SerialStep(p)
  <2> SUFFICES ASSUME serial PROVE SerialStep(p)
    BY Zenon DEF SerialStep
  <2>1. \A d : Acknowledged(d)' = Acknowledged(d)
    BY Zenon, <1>0, AcknowledgedStays
  <2>2. Busy(p)
    BY Zenon DEF CtrInv, SerialInv
  <2>3. ASSUME s.rc = "none" PROVE Busy(p)'
    <3>1. \A o \in s.open : Opened(p, o)'
      BY ZenonT(60), <1>0, <2>2, <2>3 DEF Busy, Opened, Working, Setting
    <3> QED
      BY ZenonT(30), <1>0, <2>3, <3>1 DEF Busy, Working, Setting, Written
  <2>4. \A d \in CIDs : ctrs'[d].live => Acknowledged(d) \subseteq ctrs'[d].b.conf
    BY ZenonT(30), <1>n DEF CtrInv, SerialInv
  <2> QED
    BY Zenon, <1>0, <2>1, <2>3, <2>4 DEF SerialStep, Running
<1>4. AgreeStep(p)
  <2> SUFFICES ASSUME Good PROVE AgreeStep(p)
    BY Zenon DEF AgreeStep
  <2>1. \A d \in CIDs : d # c => Sound(d)' = Sound(d) /\ ~Saving(p, d)
    BY ZenonT(60), <1>0 DEF Sound, Matches, Saving
  <2>2. \A d \in CIDs : ctrs'[d].count \in Nat
    BY SMTT(60), <1>n, GoodFacts
  <2>3. ctrs'[c].live => Sound(c)'
    <3>1. CASE ctrs'[c] = ctrs[c] /\ proc[p].pc \notin {"save"} \cup Setting
      <4>1. Sound(c)' = Sound(c) /\ ~Saving(p, c)
        BY Zenon, <3>1 DEF Sound, Matches, Saving
      <4> QED
        BY Zenon, <3>1, <4>1, GoodFacts
    <3> QED
      BY Zenon, <1>n, <3>1
  <2>4. s.rc = "none" => Agreeing(p)'
    BY Zenon, <1>0 DEF Agreeing, Working, Setting
  <2> QED
    BY ZenonT(30), <1>0, <2>1, <2>2, <2>3, <2>4, GoodFacts DEF AgreeStep, Running
<1> QED
  BY ZenonT(60), <1>1, <1>2, <1>3, <1>4, Assemble

LEMMA DeleteKeeps ==
  ASSUME CtrInv, NEW p \in Procs, Delete(p)
  PROVE  CtrInv'
<1> DEFINE s == NextContainer(proc[p])
<1>0. /\ Running(p) /\ proc[p].pc = "do" /\ IsProc(proc[p]) /\ PlaceInv(p) /\ CtrTypes
      /\ p \in DOMAIN proc /\ cmd[p].op \in {"rm", "rmall"} /\ UNCHANGED <<images, serial, listVars>>
      /\ UNCHANGED cmd
  BY Zenon DEF Delete, Doing, Running, CtrInv, CtrTypes, OwnInv, listVars
<1>1. PICK c \in CIDs : c = proc[p].c
  BY Zenon, <1>0 DEF PlaceInv, Working
<1>2. /\ IsProc(s) /\ s.pc = "next" /\ s.c = c /\ s.b = NoBuilder /\ s.rc = "none"
      /\ s.open = proc[p].open /\ s.todo = proc[p].todo /\ s.err = proc[p].err
      /\ s.deleted = proc[p].deleted
  BY <1>0, <1>1 DEF IsProc, Running, NextContainer, NoBuilder, IsBuilder
<1>3. proc' = [proc EXCEPT ![p] = s] /\ proc'[p] = s
  BY <1>0 DEF Delete
<1>4. /\ DOMAIN ctrs' = CIDs /\ ctrs'[c] = NoContainer
      /\ \A d \in CIDs : d # c => ctrs'[d] = ctrs[d]
  BY Zenon, <1>0, <1>1 DEF Delete, CtrTypes
<1> HIDE DEF s
<1>5. PlaceInv(p)'
  BY Zenon, <1>0, <1>2, <1>3 DEF PlaceInv, Working, Setting, Written
<1>6. OwnInv(p)' /\ ~proc'[p].deleted
  BY Zenon, <1>0, <1>2, <1>3, <1>5, OwnStays DEF Written
<1>7. ErrStep(p) /\ Imaged(p)'
  BY Zenon, <1>2, <1>3, <1>6 DEF ErrStep, Imaged
<1> QED
  BY ZenonT(30), <1>0, <1>1, <1>2, <1>3, <1>4, <1>6, <1>7, DoneKeeps DEF Working

\* newBuilder's deferred function.
LEMMA CleanupKeeps ==
  ASSUME CtrInv, NEW p \in Procs, Running(p), UNCHANGED <<images, serial, listVars>>,
         proc[p].pc \in {"mount", "mount-save", "create-save"}, CreateCleanup(p)
  PROVE  CtrInv'
<1> DEFINE s == Return(proc[p], "err")
<1>0. /\ IsProc(proc[p]) /\ OwnInv(p) /\ CtrTypes /\ p \in DOMAIN proc /\ UNCHANGED <<cmd, edit>>
      /\ proc[p].rc = "none"
  BY ZenonT(60) DEF Running, CtrInv, CtrTypes, listVars
<1>1. p \in CIDs /\ proc[p].c = p /\ cmd[p].op = "from"
  BY <1>0 DEF OwnInv, PlaceInv, Setting, CIDs
<1>2. /\ IsProc(s) /\ s.pc = proc[p].pc /\ s.c = p /\ s.b = proc[p].b /\ s.rc = "err"
      /\ s.open = proc[p].open /\ s.todo = proc[p].todo /\ s.err = proc[p].err
      /\ s.deleted = proc[p].deleted /\ s.img = proc[p].img
  BY <1>0, <1>1 DEF IsProc, Return
<1>3. proc' = [proc EXCEPT ![p] = s] /\ proc'[p] = s
  BY Zenon, <1>0 DEF CreateCleanup
<1>4. /\ DOMAIN ctrs' = CIDs /\ ctrs'[p] = NoContainer /\ ~ctrs'[p].live
      /\ \A d \in CIDs : d # p => ctrs'[d] = ctrs[d]
  BY Zenon, <1>0, <1>1 DEF CreateCleanup, CtrTypes, NoContainer
<1> HIDE DEF s
<1>5. IdleInv(p)' /\ SetUpInv(p)'
  BY Zenon, <1>2, <1>3, <1>4 DEF IdleInv, SetUpInv
<1>6. PlaceInv(p)'
  BY Zenon, <1>0, <1>1, <1>2, <1>3 DEF OwnInv, PlaceInv
<1>7. ImageInv(p)' /\ ~proc'[p].deleted
  BY ZenonT(60), <1>0, <1>2, <1>3 DEF OwnInv, ImageInv, Dest, TempName
<1>8. OwnInv(p)' /\ ErrStep(p) /\ Imaged(p)'
  BY Zenon, <1>2, <1>3, <1>5, <1>6, <1>7 DEF OwnInv, ErrStep, Imaged
<1> QED
  BY ZenonT(30), <1>0, <1>1, <1>2, <1>3, <1>4, <1>8, DoneKeeps

LEMMA MountNewKeeps ==
  ASSUME CtrInv, NEW p \in Procs, MountNew(p)
  PROVE  CtrInv'
<1>0. /\ Running(p) /\ proc[p].pc = "mount" /\ IsProc(proc[p]) /\ CtrTypes /\ p \in CIDs
      /\ cmd[p].op = "from" /\ proc[p].c = p /\ UNCHANGED <<images, serial, listVars>>
  BY DEF MountNew, Doing, Running, CtrInv, CtrTypes, OwnInv, PlaceInv, Setting, CIDs
<1>1. CASE CreateCleanup(p)
  BY <1>0, <1>1, CleanupKeeps
<1>2. CASE /\ ctrs[p].live
           /\ ctrs' = [ctrs EXCEPT ![p].count = @ + 1]
           /\ proc' = [proc EXCEPT ![p].b.mp = TRUE, ![p].pc = "mount-save"]
  <2>2. PICK b : b = [proc[p].b EXCEPT !.mp = TRUE]
    BY Zenon
  <2>3. PICK n : n = ctrs[p].count + 1
    OBVIOUS
  <2>4. IsBuilder(b) /\ b.name = proc[p].b.name /\ b.conf = proc[p].b.conf
    BY <1>0, <2>2 DEF IsProc, IsBuilder
  <2>5. proc' = [proc EXCEPT ![p].b = b, ![p].pc = "mount-save"]
    BY <1>2, <2>2
  <2>6. ctrs' = [ctrs EXCEPT ![p].count = n]
    BY <1>2, <2>3
  <2>7. Good => n \in Nat /\ n > 0
    BY <1>0, <2>3, GoodFacts
  <2>8. proc[p].pc \in Working /\ cmd[p].op \notin {"config", "commit"}
    BY Zenon, <1>0 DEF Working, Setting
  <2> QED
    BY ZenonT(60), <1>0, <1>2, <2>4, <2>5, <2>6, <2>7, <2>8, CountKeeps
<1> QED
  BY ZenonT(30), <1>1, <1>2 DEF MountNew

\* The state file is replaced by the Builder.
LEMMA SaveBuilderKeeps ==
  ASSUME CtrInv, NEW p \in Procs, SaveBuilder(p)
  PROVE  CtrInv'
<1>0. /\ Running(p) /\ proc[p].pc = "save" /\ IsProc(proc[p]) /\ PlaceInv(p) /\ p \in DOMAIN proc
      /\ UNCHANGED <<images, serial, listVars>> /\ UNCHANGED <<cmd, edit>> /\ CtrTypes
  BY ZenonT(30) DEF SaveBuilder, Doing, Running, CtrInv, CtrTypes, OwnInv, listVars
<1>c. PICK c \in CIDs : c = proc[p].c
  BY <1>0 DEF PlaceInv, Working
<1>1. CASE /\ UNCHANGED ctrs
           /\ proc' = [proc EXCEPT ![p] = IF cmd[p].op = "mounts" THEN Return(@, "err") ELSE Failing(@)]
  <2>1. Mild(p)
    BY Zenon, <1>0, <1>1 DEF Mild, CtrTypes
  <2>2. CASE cmd[p].op = "mounts"
    BY ZenonT(60), <1>0, <1>1, <2>1, <2>2, ErrorKeeps
  <2>3. CASE cmd[p].op # "mounts"
    BY ZenonT(60), <1>0, <1>1, <2>1, <2>3, GoOnKeeps DEF Written
  <2> QED
    BY Zenon, <2>2, <2>3
<1>2. CASE ctrs[c].live /\ ctrs' = Save(c, proc[p].b) /\ proc' = [proc EXCEPT ![p] = NextContainer(@)]
  <2> DEFINE k == [ctrs[c] EXCEPT !.saved = TRUE, !.b = proc[p].b]
             s == NextContainer(proc[p])
  <2>1. /\ IsProc(s) /\ s.pc = "next" /\ s.c = c /\ s.b = NoBuilder /\ s.rc = "none"
        /\ s.open = proc[p].open /\ s.todo = proc[p].todo /\ s.err = proc[p].err
        /\ s.deleted = proc[p].deleted
    BY <1>0, <1>c DEF IsProc, Running, NextContainer, NoBuilder, IsBuilder
  <2>2. /\ IsContainer(k) /\ k.saved /\ k.b = proc[p].b /\ k.live = ctrs[c].live
        /\ k.count = ctrs[c].count /\ k.name = ctrs[c].name
    BY <1>0, <1>c DEF IsContainer, IsProc, CtrTypes
  <2>3. proc' = [proc EXCEPT ![p] = s] /\ ctrs' = [ctrs EXCEPT ![c] = k]
    BY Zenon, <1>2 DEF Save
  <2>4. proc'[p] = s /\ ctrs'[c] = k
    BY <1>0, <2>3 DEF CtrTypes
  <2> HIDE DEF s, k
  <2>5. PlaceInv(p)'
    BY ZenonT(30), <1>0, <2>1, <2>4 DEF PlaceInv, Working, Setting, Written
  <2>6. serial => Busy(p)
    BY ZenonT(30), <1>0 DEF CtrInv, SerialInv
  <2>7. serial => Acknowledged(c) \subseteq k.b.conf
    BY ZenonT(30), <1>0, <1>c, <2>2, <2>6 DEF Busy, Working
  <2>8. serial => (cmd[p].op = "config" => Configuring(p)')
    BY ZenonT(30), <1>0, <1>2, <1>c, <2>1, <2>2, <2>4, <2>6 DEF Busy, Configuring
  <2>9. Good => k.count \in Nat /\ Sound(c)' /\ Agreeing(p)'
    BY ZenonT(30), <1>0, <1>c, <2>1, <2>2, <2>4, GoodFacts DEF Agreeing, Sound, Matches, Working, Setting
  <2>10. s.pc \notin Working \cup Written \cup {"name", "create"} /\ proc[p].pc \in Working
    BY <1>0, <2>1 DEF Working, Setting, Written
  <2> QED
    BY ZenonT(60), <1>0, <1>2, <1>c, <2>1, <2>2, <2>3, <2>5, <2>7, <2>8, <2>9, <2>10, StoreKeeps
<1> QED
  BY Zenon, <1>1, <1>2, <1>c DEF SaveBuilder, Present

LEMMA SaveNewKeeps ==
  ASSUME CtrInv, NEW p \in Procs, SaveNew(p)
  PROVE  CtrInv'
<1>0. /\ Running(p) /\ proc[p].pc \in {"mount-save", "create-save"} /\ IsProc(proc[p]) /\ PlaceInv(p)
      /\ UNCHANGED <<images, serial, listVars>> /\ UNCHANGED <<cmd, edit>> /\ CtrTypes
      /\ p \in CIDs /\ cmd[p].op = "from" /\ proc[p].c = p
  BY Zenon DEF SaveNew, Doing, Running, CtrInv, CtrTypes, OwnInv, listVars, PlaceInv, Setting, CIDs
<1>1. CASE CreateCleanup(p)
  BY Zenon, <1>0, <1>1, CleanupKeeps
<1>2. CASE /\ ctrs[p].live /\ ctrs' = Save(p, proc[p].b)
           /\ proc' = [proc EXCEPT ![p].pc = IF @ = "mount-save" THEN "config" ELSE "onbuild"]
  <2>0. PICK to \in {"config", "onbuild"} : to = IF proc[p].pc = "mount-save" THEN "config" ELSE "onbuild"
    OBVIOUS
  <2> DEFINE k == [ctrs[p] EXCEPT !.saved = TRUE, !.b = proc[p].b]
             s == [proc[p] EXCEPT !.pc = to]
  <2>1. /\ IsProc(s) /\ s.pc = to /\ s.c = p /\ s.b = proc[p].b /\ s.rc = "none"
        /\ s.open = proc[p].open /\ s.todo = proc[p].todo /\ s.err = proc[p].err
        /\ s.deleted = proc[p].deleted
    BY <1>0 DEF IsProc, Running
  <2>2. /\ IsContainer(k) /\ k.saved /\ k.b = proc[p].b /\ k.live = ctrs[p].live
        /\ k.count = ctrs[p].count /\ k.name = ctrs[p].name
    BY <1>0 DEF IsContainer, IsProc, CtrTypes
  <2>3. proc' = [proc EXCEPT ![p] = s] /\ ctrs' = [ctrs EXCEPT ![p] = k]
    BY Zenon, <1>2, <2>0 DEF Save
  <2>4. proc'[p] = s /\ ctrs'[p] = k
    BY <1>0, <2>3 DEF CtrTypes
  <2> HIDE DEF s, k
  <2>5. PlaceInv(p)'
    BY ZenonT(30), <1>0, <2>1, <2>4 DEF PlaceInv, Working, Setting, Written
  <2>6. serial => Acknowledged(p) \subseteq k.b.conf /\ Acknowledged(p) \subseteq s.b.conf
    BY ZenonT(30), <1>0, <2>1, <2>2 DEF CtrInv, SerialInv, Busy
  <2>7. Good => k.count \in Nat /\ Agreeing(p)'
    BY <1>0, <2>1, <2>2, <2>4, GoodFacts DEF Agreeing, Matches, Working, Setting
  <2>8. /\ s.pc \notin Written \cup {"name", "create"} /\ s.pc \in {"save"} \cup Setting
        /\ proc[p].pc \in Working
    BY Zenon, <1>0, <2>1 DEF Working, Setting, Written
  <2> QED
    BY ZenonT(60), <1>0, <1>2, <2>1, <2>2, <2>3, <2>5, <2>6, <2>7, <2>8, StoreKeeps
<1> QED
  BY Zenon, <1>1, <1>2 DEF SaveNew

\* A "from" draws a name.
LEMMA DrawKeeps ==
  ASSUME CtrInv, NEW p \in Procs, Running(p), proc[p].pc \in {"name", "create"},
         UNCHANGED <<ctrs, images, serial, listVars>>,
         NEW n \in Names, proc' = [proc EXCEPT ![p].name = n, ![p].pc = "create"]
  PROVE  CtrInv'
<1> DEFINE s == [proc[p] EXCEPT !.name = n, !.pc = "create"]
<1>0. /\ IsProc(proc[p]) /\ PlaceInv(p) /\ p \in DOMAIN proc /\ UNCHANGED <<cmd, edit>>
      /\ \A q \in Procs : q # p => proc'[q] = proc[q]
  BY DEF Running, CtrInv, CtrTypes, OwnInv, listVars
<1>1. /\ IsProc(s) /\ s.pc = "create" /\ s.c = proc[p].c /\ s.b = proc[p].b /\ s.rc = "none"
      /\ s.open = proc[p].open /\ s.todo = proc[p].todo /\ s.err = proc[p].err
      /\ s.deleted = proc[p].deleted /\ s.name = n
  BY <1>0 DEF IsProc, Running
<1>3. proc' = [proc EXCEPT ![p] = s] /\ proc'[p] = s
  BY Zenon, <1>0
<1> HIDE DEF s
<1>4. PlaceInv(p)' /\ Follows(p)
  BY ZenonT(60), <1>0, <1>1, <1>3 DEF PlaceInv, Working, Setting, Written, Follows
<1>5. ASSUME serial PROVE Busy(p)'
  <2>1. Busy(p) /\ Acknowledged(p)' = Acknowledged(p)
    BY ZenonT(60), <1>0, <1>1, <1>3, <1>5, AcknowledgedStays DEF CtrInv, SerialInv, Running
  <2> QED
    BY <1>0, <1>1, <1>3, <2>1 DEF Busy, PlaceInv, Working, Setting, Written
<1>6. Agreeing(p)'
  BY <1>0, <1>1, <1>3, ScenarioAssumption DEF Agreeing, Working, Setting
<1> QED
  BY ZenonT(60), <1>0, <1>1, <1>3, <1>4, <1>5, <1>6, LocalKeeps DEF Written, Setting

LEMMA ChooseKeeps ==
  ASSUME CtrInv, NEW p \in Procs, ChooseName(p)
  PROVE  CtrInv'
<1>1. Running(p) /\ proc[p].pc \in {"name", "create"}
  BY DEF ChooseName, Doing, Running
<1> QED
  BY Zenon, <1>1, DrawKeeps DEF ChooseName

LEMMA ConflictKeeps ==
  ASSUME CtrInv, NEW p \in Procs, NameConflict(p)
  PROVE  CtrInv'
<1>0. /\ Running(p) /\ proc[p].pc = "create" /\ IsProc(proc[p]) /\ CtrTypes
      /\ UNCHANGED <<ctrs, images, serial, listVars>>
  BY DEF NameConflict, Doing, Running, CtrInv, CtrTypes
<1>1. CASE cmd[p].name # None /\ proc' = [proc EXCEPT ![p] = Return(@, "err")]
  <2>1. Mild(p) /\ UNCHANGED edit
    BY Zenon, <1>0, <1>1 DEF Mild, listVars, CtrTypes
  <2> QED
    BY Zenon, <1>0, <1>1, <2>1, ErrorKeeps
<1>2. ASSUME NEW n \in Names, proc' = [proc EXCEPT ![p].name = n] PROVE CtrInv'
  <2>1. proc' = [proc EXCEPT ![p].name = n, ![p].pc = "create"]
    BY ZenonT(30), <1>0, <1>2 DEF IsProc, CtrTypes
  <2> QED
    BY Zenon, <1>0, <2>1, DrawKeeps
<1> QED
  BY <1>1, <1>2 DEF NameConflict

\* A container comes into being; nobody knew of it.
LEMMA CreateContainerKeeps ==
  ASSUME CtrInv, NEW p \in Procs, CreateContainer(p)
  PROVE  CtrInv'
<1>0. /\ Running(p) /\ proc[p].pc = "create" /\ IsProc(proc[p]) /\ PlaceInv(p) /\ p \in DOMAIN proc
      /\ UNCHANGED <<images, serial, listVars>> /\ UNCHANGED <<cmd, edit>> /\ CtrTypes
      /\ p \in CIDs /\ cmd[p].op = "from" /\ proc[p].b = NoBuilder /\ proc[p].open = {}
      /\ ~proc[p].err /\ proc[p].rc = "none"
  BY DEF CreateContainer, Doing, Running, CtrInv, CtrTypes, OwnInv, listVars, PlaceInv, CIDs
<1>1. PICK to \in {"mount", "config"} : to = IF cmd[p].mount THEN "mount" ELSE "config"
  OBVIOUS
<1> DEFINE k == [NoContainer EXCEPT !.live = TRUE, !.name = proc[p].name, !.image = ~cmd[p].scratch]
           b == [NoBuilder EXCEPT !.name = proc[p].name]
           s == [proc[p] EXCEPT !.c = p, !.b = b, !.pc = to]
<1>2. IsBuilder(b) /\ b.name = proc[p].name /\ ~b.mp
  BY DEF NoBuilder, IsBuilder
<1>3. /\ IsContainer(k) /\ ~k.saved /\ k.b = NoBuilder /\ k.live /\ k.count = 0 /\ k.name = proc[p].name
  BY DEF IsContainer, IsBuilder, NoContainer, NoBuilder
<1>4. ctrs' = [ctrs EXCEPT ![p] = k] /\ ctrs'[p] = k /\ \A d \in CIDs : d # p => ctrs'[d] = ctrs[d]
  BY <1>0 DEF CreateContainer, CtrTypes
<1>5. proc' = [proc EXCEPT ![p] = s]
  BY ZenonT(30), <1>0, <1>1 DEF CreateContainer
<1> HIDE DEF b, k
<1>6. /\ IsProc(s) /\ s.pc = to /\ s.c = p /\ s.b = b /\ s.rc = "none"
      /\ s.open = proc[p].open /\ s.todo = proc[p].todo /\ s.err = proc[p].err
      /\ s.deleted = proc[p].deleted
  BY <1>0, <1>2 DEF IsProc
<1>7. proc'[p] = s /\ \A q \in Procs : q # p => proc'[q] = proc[q]
  BY <1>0, <1>5 DEF CtrTypes
<1> HIDE DEF s
<1>8. PlaceInv(p)'
  BY Zenon, <1>0, <1>6, <1>7 DEF PlaceInv, Working, Setting, Written
<1>9. OwnInv(p)' /\ ~proc'[p].deleted
  BY ZenonT(30), <1>0, <1>6, <1>7, <1>8, OwnStays DEF Written
<1>10. Mild(p) /\ Birth(p) /\ Follows(p) /\ ErrStep(p)
  BY ZenonT(30), <1>0, <1>3, <1>4, <1>6, <1>7 DEF Mild, Birth, Follows, ErrStep
<1>11. CtrTypes'
  BY ZenonT(60), <1>0, <1>3, <1>4, <1>5, <1>6, <1>7 DEF CtrTypes
<1>12. SerialStep(p)
  <2> SUFFICES ASSUME serial PROVE SerialStep(p)
    BY ZenonT(30) DEF SerialStep
  <2>1. \A d : Acknowledged(d)' = Acknowledged(d)
    BY ZenonT(60), <1>0, <1>7, AcknowledgedStays
  <2>2. Busy(p) /\ Acknowledged(p)' = {} /\ Acknowledged(p) = {}
    BY ZenonT(30), <1>0, <2>1 DEF CtrInv, SerialInv, Busy
  <2>3. ctrs'[proc'[p].c].live /\ proc'[p].open = {} /\ proc'[p].pc \notin Written /\ proc'[p].c = p
    BY ZenonT(30), <1>0, <1>3, <1>4, <1>6, <1>7 DEF Written
  <2>4. Busy(p)'
    BY ZenonT(30), <1>0, <2>2, <2>3 DEF Busy
  <2>5. \A d \in CIDs : ctrs'[d].live => Acknowledged(d) \subseteq ctrs'[d].b.conf
    BY ZenonT(30), <1>4, <2>2 DEF CtrInv, SerialInv
  <2> QED
    BY ZenonT(60), <1>9, <2>1, <2>4, <2>5 DEF SerialStep, Imaged
<1>13. AgreeStep(p)
  <2> SUFFICES ASSUME Good PROVE AgreeStep(p)
    BY ZenonT(30) DEF AgreeStep
  <2>1. \A d \in CIDs : d # p => Sound(d)' = Sound(d) /\ ~Saving(p, d)
    BY Zenon, <1>0, <1>4 DEF Sound, Matches, Saving, Setting
  <2>2. Saving(p, p)'
    BY Zenon, <1>6, <1>7 DEF Saving, Running, Setting
  <2>3. \A d \in CIDs : ctrs'[d].count \in Nat
    <3>1. k.count \in Nat
      BY <1>3
    <3> QED
      BY ZenonT(30), <1>0, <1>4, <3>1, GoodFacts
  <2>4. Agreeing(p)'
    <3>1. proc[p].name # None
      BY ZenonT(30), <1>0, GoodFacts DEF Agreeing
    <3>2. ctrs'[p].name = proc[p].name /\ b.name = proc[p].name /\ ~b.mp
      BY Zenon, <1>2, <1>3, <1>4
    <3>3. proc'[p].c = p /\ proc'[p].b = b /\ proc'[p].pc = to
      BY Zenon, <1>6, <1>7
    <3>4. Matches(proc[p].c, proc[p].b)'
      BY Zenon, <3>1, <3>2, <3>3 DEF Matches
    <3> QED
      BY Zenon, <3>3, <3>4 DEF Agreeing
  <2> QED
    BY ZenonT(30), <1>0, <1>4, <2>1, <2>2, <2>3, <2>4, GoodFacts DEF AgreeStep
<1> QED
  BY ZenonT(60), <1>0, <1>9, <1>10, <1>11, <1>12, <1>13, Assemble

\* A rename that is refused may have imported the container that has the name.
LEMMA RefusedKeeps ==
  ASSUME CtrInv, NEW p \in Procs, Running(p), proc[p].pc = "do",
         UNCHANGED <<images, serial, listVars>>, proc' = [proc EXCEPT ![p] = Return(@, "err")],
         NEW b, IsBuilder(b), NEW imported \in SUBSET CIDs, \A c \in imported : ~ctrs[c].saved,
         ctrs' = [c \in CIDs |-> IF c \in imported THEN [ctrs[c] EXCEPT !.saved = TRUE, !.b = b]
                                 ELSE ctrs[c]]
  PROVE  CtrInv'
<1>0. /\ CtrTypes /\ OwnInv(p) /\ IsProc(proc[p]) /\ proc[p].rc = "none" /\ UNCHANGED <<cmd, edit>>
      /\ p \in DOMAIN proc
  BY ZenonT(30) DEF CtrInv, CtrTypes, Running, listVars
<1>1. /\ proc'[p].rc = "err" /\ IsProc(proc'[p])
      /\ proc'[p].pc = proc[p].pc /\ proc'[p].c = proc[p].c /\ proc'[p].b = proc[p].b
      /\ proc'[p].open = proc[p].open /\ proc'[p].todo = proc[p].todo
      /\ proc'[p].img = proc[p].img /\ proc'[p].deleted = proc[p].deleted
      /\ proc'[p].err = proc[p].err
      /\ \A q \in Procs : q # p => proc'[q] = proc[q]
  BY ZenonT(30), <1>0 DEF CtrTypes, IsProc, Return
<1>2. \A c \in CIDs : /\ IsContainer(ctrs'[c]) /\ (ctrs'[c].saved \/ ctrs'[c].b = NoBuilder)
                      /\ ctrs'[c].live = ctrs[c].live
                      /\ ctrs'[c] = ctrs[c] \/ ctrs[c].b = NoBuilder
  BY ZenonT(30), <1>0 DEF CtrTypes, IsContainer
<1>3. CtrTypes'
  BY ZenonT(30), <1>0, <1>1, <1>2 DEF CtrTypes
<1>4. Mild(p) /\ Birth(p) /\ Follows(p) /\ ErrStep(p)
  BY ZenonT(30), <1>0, <1>1, <1>2 DEF Mild, Birth, Follows, ErrStep
<1>5. OwnInv(p)' /\ ~proc'[p].deleted
  <2>1. IdleInv(p)' /\ SetUpInv(p)'
    BY ZenonT(30), <1>1 DEF IdleInv, SetUpInv
  <2>2. PlaceInv(p)'
    BY ZenonT(30), <1>0, <1>1 DEF OwnInv, PlaceInv
  <2>3. ImageInv(p)' /\ ~proc'[p].deleted
    BY ZenonT(30), <1>0, <1>1 DEF OwnInv, ImageInv, Dest, TempName, Written
  <2> QED
    BY ZenonT(30), <2>1, <2>2, <2>3 DEF OwnInv
<1>6. SerialStep(p)
  <2> SUFFICES ASSUME serial PROVE SerialStep(p)
    BY ZenonT(30) DEF SerialStep
  <2>1. \A c : Acknowledged(c)' = Acknowledged(c)
    BY ZenonT(30), <1>0, <1>1, AcknowledgedStays
  <2>2. \A c \in CIDs : ctrs[c].live => Acknowledged(c) \subseteq ctrs[c].b.conf
    BY ZenonT(30) DEF CtrInv, SerialInv
  <2>3. NoBuilder.conf = {}
    BY Zenon DEF NoBuilder
  <2>4. \A c \in CIDs : ctrs'[c].live => Acknowledged(c) \subseteq ctrs'[c].b.conf
    BY <1>2, <2>2, <2>3, ZenonT(60)
  <2> QED
    BY ZenonT(30), <1>1, <1>5, <2>1, <2>4 DEF SerialStep, Running, Imaged
<1>7. AgreeStep(p)
  BY ZenonT(30), <1>1 DEF AgreeStep
<1> QED
  BY ZenonT(30), <1>3, <1>4, <1>5, <1>6, <1>7, Assemble

LEMMA CheckKeeps ==
  ASSUME CtrInv, NEW p \in Procs, RenameCheck(p)
  PROVE  CtrInv'
<1>0. /\ Running(p) /\ proc[p].pc = "do" /\ IsProc(proc[p]) /\ PlaceInv(p) /\ p \in DOMAIN proc
      /\ UNCHANGED <<images, serial, listVars>> /\ UNCHANGED <<cmd, edit>> /\ CtrTypes
      /\ cmd[p].op = "rename" /\ cmd[p].new \in Names /\ cmd[p].new # None
  BY ZenonT(30), ScenarioAssumption
  DEF RenameCheck, Doing, Running, CtrInv, CtrTypes, OwnInv, listVars
<1> DEFINE taken == {c \in CIDs : Denotes(c, cmd[p].new) /\ (ctrs[c].saved \/ ctrs[c].image)}
<1>1. CASE proc[p].b.name = cmd[p].new \/ taken # {}
  <2>1. PICK imported \in SUBSET CIDs :
           imported = {c \in taken : ~ctrs[c].saved /\ proc[p].b.name # cmd[p].new}
    BY Zenon
  <2>2. PICK b : b = [NoBuilder EXCEPT !.name = cmd[p].new]
    BY Zenon
  <2>3. ctrs' = [c \in CIDs |-> IF c \in imported THEN [ctrs[c] EXCEPT !.saved = TRUE, !.b = b]
                                ELSE ctrs[c]]
    BY Zenon, <1>1, <2>1, <2>2 DEF RenameCheck
  <2>4. IsBuilder(b) /\ \A c \in imported : ~ctrs[c].saved
    BY Zenon, <2>1, <2>2 DEF IsBuilder, NoBuilder
  <2>5. proc' = [proc EXCEPT ![p] = Return(@, "err")]
    BY Zenon, <1>1 DEF RenameCheck
  <2> QED
    BY ZenonT(60), <1>0, <2>3, <2>4, <2>5, RefusedKeeps
<1>2. CASE proc[p].b.name # cmd[p].new /\ taken = {}
  <2> DEFINE s == [proc[p] EXCEPT !.pc = "rename"]
  <2>1. /\ IsProc(s) /\ s.pc = "rename" /\ s.c = proc[p].c /\ s.b = proc[p].b /\ s.rc = "none"
        /\ s.open = proc[p].open /\ s.todo = proc[p].todo /\ s.err = proc[p].err
        /\ s.deleted = proc[p].deleted
    BY <1>0 DEF IsProc, Running
  <2>2. proc' = [proc EXCEPT ![p] = s] /\ UNCHANGED ctrs /\ proc'[p] = s
    BY Zenon, <1>0, <1>2 DEF RenameCheck
  <2>3. \A q \in Procs : q # p => proc'[q] = proc[q]
    BY Zenon, <1>0, <2>2 DEF CtrTypes
  <2> HIDE DEF s
  <2>4. PlaceInv(p)' /\ Follows(p)
    BY ZenonT(60), <1>0, <2>1, <2>2 DEF PlaceInv, Working, Setting, Written, Follows
  <2>5. ASSUME serial PROVE Busy(p)'
    <3>1. Busy(p)
      BY ZenonT(60), <1>0, <2>5 DEF CtrInv, SerialInv
    <3>2. PICK c : c = proc[p].c /\ c = proc'[p].c
      BY Zenon, <2>1, <2>2
    <3>3. Acknowledged(c)' = Acknowledged(c)
      BY ZenonT(60), <1>0, <2>1, <2>2, <2>3, AcknowledgedStays DEF Running
    <3> QED
      BY ZenonT(60), <1>0, <2>1, <2>2, <3>1, <3>2, <3>3 DEF Busy, PlaceInv, Working, Written
  <2>6. ASSUME Good PROVE Agreeing(p)'
    <3>1. Matches(proc[p].c, proc[p].b) /\ \A c \in CIDs : ctrs[c].live => Sound(c)
      BY ZenonT(30), <1>0, <2>6, GoodFacts DEF Agreeing, Working, Saving, Setting
    <3>2. \A c \in CIDs : ctrs[c].live => ctrs[c].name # cmd[p].new
      BY <1>2, <3>1 DEF Denotes, Sound
    <3> QED
      BY ZenonT(60), <1>0, <2>1, <2>2, <3>1, <3>2 DEF Agreeing, Matches
  <2> QED
    BY ZenonT(60), <1>0, <2>1, <2>2, <2>4, <2>5, <2>6, LocalKeeps DEF Written, Setting
<1> QED
  BY Zenon, <1>1, <1>2

\* The name goes to the container; nobody else had it.
LEMMA SetNamesKeeps ==
  ASSUME CtrInv, NEW p \in Procs, SetNames(p)
  PROVE  CtrInv'
<1>0. /\ Running(p) /\ proc[p].pc = "rename" /\ IsProc(proc[p]) /\ PlaceInv(p) /\ p \in DOMAIN proc
      /\ UNCHANGED <<images, serial, listVars>> /\ UNCHANGED <<cmd, edit>> /\ CtrTypes
      /\ proc[p].rc = "none"
  BY Zenon DEF SetNames, Doing, Running, CtrInv, CtrTypes, OwnInv, listVars
<1>c. PICK c \in CIDs : c = proc[p].c
  BY Zenon, <1>0 DEF PlaceInv, Working
<1>1. CASE ~ctrs[c].live
  <2>1. proc' = [proc EXCEPT ![p] = Return(@, "err")] /\ UNCHANGED ctrs
    BY Zenon, <1>1, <1>c DEF SetNames, Present
  <2>2. Mild(p)
    BY Zenon, <1>0, <2>1 DEF Mild, CtrTypes
  <2> QED
    BY ZenonT(60), <1>0, <2>1, <2>2, ErrorKeeps
<1>2. CASE ctrs[c].live
  <2>0. PICK n : n = cmd[p].new
    OBVIOUS
  <2> DEFINE b == [proc[p].b EXCEPT !.name = n]
             s == [proc[p] EXCEPT !.b = b, !.pc = "save"]
  <2>1. IsBuilder(b) /\ b.name = n /\ b.mp = proc[p].b.mp /\ b.conf = proc[p].b.conf
    BY <1>0 DEF IsProc, IsBuilder
  <2>2. proc' = [proc EXCEPT ![p] = s]
    BY ZenonT(30), <1>2, <1>c, <2>0 DEF SetNames, Present
  <2> HIDE DEF b
  <2>3. /\ IsProc(s) /\ s.pc = "save" /\ s.c = c /\ s.b = b /\ s.rc = "none"
        /\ s.open = proc[p].open /\ s.todo = proc[p].todo /\ s.err = proc[p].err
        /\ s.deleted = proc[p].deleted
    BY ZenonT(60), <1>0, <1>c, <2>1 DEF IsProc
  <2>4. proc'[p] = s /\ \A q \in Procs : q # p => proc'[q] = proc[q]
    BY <1>0, <2>2 DEF CtrTypes
  <2> HIDE DEF s
  <2>5. ctrs' = [d \in CIDs |-> IF d = c THEN [ctrs[d] EXCEPT !.name = n]
                                ELSE IF ctrs[d].name = n THEN [ctrs[d] EXCEPT !.name = None]
                                ELSE ctrs[d]]
    BY Zenon, <1>2, <1>c, <2>0 DEF SetNames, Present
  <2>6. \A d \in CIDs : /\ IsContainer(ctrs'[d]) /\ ctrs'[d].live = ctrs[d].live
                        /\ ctrs'[d].saved = ctrs[d].saved /\ ctrs'[d].b = ctrs[d].b
                        /\ ctrs'[d].count = ctrs[d].count
                        /\ d # c /\ ctrs[d].name # n => ctrs'[d] = ctrs[d]
    BY <1>0, <2>5 DEF CtrTypes, IsContainer
  <2>7. ctrs'[c].name = n
    BY <1>0, <2>5 DEF CtrTypes, IsContainer
  <2>8. PlaceInv(p)'
    BY ZenonT(30), <1>0, <1>c, <2>3, <2>4 DEF PlaceInv, Working, Setting, Written
  <2>9. OwnInv(p)' /\ ~proc'[p].deleted
    BY ZenonT(60), <1>0, <2>3, <2>4, <2>8, OwnStays DEF Written
  <2>10. CtrTypes'
    BY SMTT(60), <1>0, <2>2, <2>3, <2>4, <2>5, <2>6 DEF CtrTypes
  <2>11. Mild(p) /\ Birth(p) /\ Follows(p) /\ ErrStep(p)
    BY ZenonT(30), <1>0, <1>c, <2>3, <2>4, <2>6 DEF Mild, Birth, Follows, ErrStep
  <2>12. SerialStep(p)
    <3> SUFFICES ASSUME serial PROVE SerialStep(p)
      BY Zenon DEF SerialStep
    <3>1. \A d : Acknowledged(d)' = Acknowledged(d)
      BY Zenon, <1>0, <2>3, <2>4, AcknowledgedStays
    <3>2. Busy(p) /\ Acknowledged(c) \subseteq b.conf
      BY ZenonT(30), <1>0, <1>c, <2>1 DEF CtrInv, SerialInv, Busy, Working
    <3>3. \A o \in s.open : Opened(p, o)'
      BY SMTT(60), <1>0, <1>c, <2>3, <2>4, <2>6, <3>2 DEF Busy, Opened, Working
    <3>4. proc'[p].c = c /\ Acknowledged(c)' \subseteq proc'[p].b.conf
      BY ZenonT(60), <2>3, <2>4, <3>1, <3>2
    <3>5. Busy(p)'
      BY ZenonT(30), <1>0, <1>2, <1>c, <2>3, <2>4, <2>6, <3>1, <3>2, <3>3, <3>4 DEF Busy, PlaceInv, Working, Setting, Written
    <3>6. \A d \in CIDs : ctrs'[d].live => Acknowledged(d) \subseteq ctrs'[d].b.conf
      BY Zenon, <2>6 DEF CtrInv, SerialInv
    <3> QED
      BY ZenonT(30), <2>9, <3>1, <3>5, <3>6 DEF SerialStep, Imaged
  <2>13. AgreeStep(p)
    <3> SUFFICES ASSUME Good PROVE AgreeStep(p)
      BY ZenonT(30) DEF AgreeStep
    <3>1. n # None /\ \A d \in CIDs : ctrs[d].live => ctrs[d].name # n
      BY ZenonT(60), <1>0, <2>0, GoodFacts DEF Agreeing
    <3>2. \A d \in CIDs : d # c /\ ctrs[d].live => Sound(d)' = Sound(d) /\ ~Saving(p, d)
      BY ZenonT(30), <1>0, <2>6, <3>1 DEF Sound, Matches, Saving, Setting
    <3>3. Saving(p, c)'
      BY Zenon, <2>3, <2>4 DEF Saving, Running, Setting
    <3>4. \A d \in CIDs : ctrs'[d].count \in Nat
      BY Zenon, <1>0, <2>6, GoodFacts
    <3>5. Agreeing(p)'
      <4>1. Matches(c, proc[p].b)
        BY Zenon, <1>0, <1>c, GoodFacts DEF Agreeing, Working
      <4>2. /\ ctrs'[c].name = n /\ n # None /\ b.name = n
            /\ b.mp => ctrs'[c].count > 0
        BY ZenonT(60), <2>1, <2>6, <2>7, <3>1, <4>1 DEF Matches
      <4>3. proc'[p].pc = "save" /\ proc'[p].c = c /\ proc'[p].b = b
        BY Zenon, <2>3, <2>4
      <4> QED
        BY Zenon, <4>2, <4>3 DEF Agreeing, Matches
    <3> QED
      BY ZenonT(30), <1>0, <2>6, <3>2, <3>3, <3>4, <3>5, GoodFacts DEF AgreeStep
  <2> QED
    BY ZenonT(30), <1>0, <2>9, <2>10, <2>11, <2>12, <2>13, Assemble
<1> QED
  BY <1>1, <1>2

\* A commit goes on once it has written its image, with what the container had.
LEMMA CommitKeeps ==
  ASSUME CtrInv, NEW p \in Procs, Running(p), Mild(p), UNCHANGED ctrs, DOMAIN edit' = Procs,
         DOMAIN images' = Procs, \A i \in Procs : IsImage(images'[i]),
         NEW s, proc' = [proc EXCEPT ![p] = s], IsProc(s), s.pc \in Written, s.c = proc[p].c,
         s.rc = "none", s.open = proc[p].open, s.todo = proc[p].todo, s.err = proc[p].err,
         s.deleted = proc[p].deleted, cmd[p].op = "commit", ImageInv(p)',
         \/ proc[p].pc \in Written /\ images'[p].conf = images[p].conf
         \/ proc[p].pc = "do" /\ images'[p].conf = proc[p].b.conf
  PROVE  CtrInv'
<1>0. /\ CtrTypes /\ OwnInv(p) /\ proc[p].rc = "none" /\ proc'[p] = s /\ UNCHANGED cmd
      /\ \A q \in Procs : q # p => proc'[q] = proc[q]
  BY ZenonT(30) DEF CtrInv, CtrTypes, Running, Mild
<1>c. PICK c \in CIDs : c = proc[p].c
  BY ZenonT(30), <1>0 DEF OwnInv, PlaceInv, Working
<1>1. CtrTypes'
  BY ZenonT(30), <1>0 DEF CtrTypes
<1>2. Birth(p) /\ Follows(p)
  BY ZenonT(30), <1>0 DEF Birth, Follows, Written
<1>3. ErrStep(p) /\ ~s.err /\ ~s.deleted /\ s.open = {}
  BY ZenonT(30), <1>0 DEF ErrStep, OwnInv, PlaceInv, ImageInv, Written
<1>4. PlaceInv(p)'
  BY ZenonT(30), <1>0, <1>3, <1>c DEF OwnInv, PlaceInv, Working, Setting, Written
<1>5. OwnInv(p)'
  BY ZenonT(30), <1>0, <1>4 DEF OwnInv, IdleInv, SetUpInv
<1>6. SerialStep(p)
  <2> SUFFICES ASSUME serial PROVE SerialStep(p)
    BY ZenonT(30) DEF SerialStep
  <2>1. \A d : Acknowledged(d)' = Acknowledged(d)
    BY Zenon, <1>0, AcknowledgedStays
  <2>2. Acknowledged(c) \subseteq images'[p].conf
    BY ZenonT(30), <1>0, <1>c DEF CtrInv, SerialInv, Busy, Working
  <2>3. proc'[p].c = c /\ Acknowledged(c)' \subseteq images'[p].conf
    BY ZenonT(30), <1>0, <1>c, <2>1, <2>2
  <2>4. Busy(p)'
    BY ZenonT(30), <1>0, <1>3, <2>3 DEF Busy, Working, Setting, Written
  <2> QED
    BY ZenonT(30), <1>0, <1>3, <2>1, <2>4 DEF SerialStep, CtrInv, SerialInv, Imaged
<1>7. AgreeStep(p)
  <2> SUFFICES ASSUME Good PROVE AgreeStep(p)
    BY ZenonT(30) DEF AgreeStep
  <2>1. \A d \in CIDs : Sound(d)' = Sound(d) /\ ~Saving(p, d)
    BY ZenonT(30), <1>0 DEF Sound, Matches, Saving, Setting, Written
  <2>2. Agreeing(p)'
    BY Zenon, <1>0 DEF Agreeing, Working, Setting, Written
  <2> QED
    BY ZenonT(30), <2>1, <2>2, GoodFacts DEF AgreeStep
<1> QED
  BY ZenonT(60), <1>1, <1>2, <1>3, <1>5, <1>6, <1>7, Assemble

\* The image gets the destination's name, or a temporary one that nobody else has.
LEMMA CopyKeeps ==
  ASSUME CtrInv, NEW p \in Procs, CopyImage(p)
  PROVE  CtrInv'
<1>0. /\ Running(p) /\ proc[p].pc = "do" /\ IsProc(proc[p]) /\ OwnInv(p) /\ p \in DOMAIN proc
      /\ UNCHANGED <<ctrs, serial, listVars>> /\ UNCHANGED <<cmd, edit>> /\ CtrTypes
      /\ proc[p].rc = "none" /\ cmd[p].op = "commit"
  BY Zenon DEF CopyImage, Doing, Running, CtrInv, CtrTypes, listVars
<1>1. CASE proc' = [proc EXCEPT ![p] = Return(@, "err")] /\ UNCHANGED images
  <2>1. Mild(p)
    BY <1>0, <1>1 DEF Mild, CtrTypes
  <2> QED
    BY ZenonT(60), <1>0, <1>1, <2>1, ErrorKeeps
<1>2. CASE /\ images' = [i \in Procs |->
                IF i = p THEN [live |-> TRUE, names |-> {Dest(p)}, conf |-> proc[p].b.conf]
                ELSE [images[i] EXCEPT !.names = @ \ {Dest(p)}]]
           /\ proc' = [proc EXCEPT ![p].pc = "locate"]
  <2> DEFINE s == [proc[p] EXCEPT !.pc = "locate"]
  <2>1. /\ IsProc(s) /\ s.pc = "locate" /\ s.c = proc[p].c /\ s.rc = "none"
        /\ s.open = proc[p].open /\ s.todo = proc[p].todo /\ s.err = proc[p].err
        /\ s.deleted = proc[p].deleted
    BY <1>0 DEF IsProc
  <2>2. proc' = [proc EXCEPT ![p] = s] /\ proc'[p] = s
    BY <1>0, <1>2
  <2> HIDE DEF s
  <2>3. images'[p].live /\ images'[p].names = {Dest(p)} /\ images'[p].conf = proc[p].b.conf
    BY <1>2
  <2>4. \A i \in Procs : /\ IsImage(images'[i])
                         /\ i # p => /\ images'[i].live = images[i].live
                                     /\ images'[i].conf = images[i].conf
                                     /\ images'[i].names \subseteq images[i].names
    BY Zenon, <1>0, <1>2 DEF CtrTypes, IsImage
  <2>5. Mild(p) /\ DOMAIN images' = Procs
    BY ZenonT(30), <1>0, <1>2, <2>2, <2>4 DEF Mild, CtrTypes
  <2>6. ~proc[p].deleted
    BY Zenon, <1>0 DEF OwnInv, ImageInv
  <2>7. ImageInv(p)'
    BY ZenonT(60), <1>0, <2>1, <2>2, <2>3, <2>6 DEF ImageInv, Dest, TempName
  <2>8. s.pc \in Written /\ DOMAIN edit' = Procs
    BY ZenonT(30), <1>0, <2>1 DEF Written, CtrTypes
  <2> QED
    BY ZenonT(60), <1>0, <2>1, <2>2, <2>3, <2>4, <2>5, <2>7, <2>8, CommitKeeps
<1> QED
  BY <1>1, <1>2 DEF CopyImage

\* Only the commit's own image has its temporary name.
LEMMA LocateKeeps ==
  ASSUME CtrInv, NEW p \in Procs, LocateImage(p)
  PROVE  CtrInv'
<1>0. /\ Running(p) /\ proc[p].pc = "locate" /\ IsProc(proc[p]) /\ OwnInv(p) /\ p \in DOMAIN proc
      /\ UNCHANGED <<ctrs, images, serial, listVars>> /\ UNCHANGED <<cmd, edit>> /\ CtrTypes
      /\ proc[p].rc = "none" /\ cmd[p].op = "commit"
  BY DEF LocateImage, Doing, Running, CtrInv, CtrTypes, listVars, OwnInv, PlaceInv, Written
<1>1. PICK i \in Procs : /\ images[i].live /\ Dest(p) \in images[i].names
                         /\ proc' = [proc EXCEPT ![p].img = i, ![p].pc = "prune"]
  BY Zenon DEF LocateImage
<1>2. cmd[p].dest = None => i = p
  <2>1. Dest(p) = Dest(i)
    BY <1>1 DEF CtrInv, OwnInv, ImageInv
  <2> QED
    BY <2>1 DEF Dest, TempName
<1> DEFINE s == [proc[p] EXCEPT !.img = i, !.pc = "prune"]
<1>3. /\ IsProc(s) /\ s.pc = "prune" /\ s.c = proc[p].c /\ s.rc = "none"
      /\ s.open = proc[p].open /\ s.todo = proc[p].todo /\ s.err = proc[p].err
      /\ s.deleted = proc[p].deleted /\ s.img = i
  BY <1>0 DEF IsProc
<1>4. proc' = [proc EXCEPT ![p] = s] /\ proc'[p] = s
  BY ZenonT(30), <1>0, <1>1
<1> HIDE DEF s
<1>5. Mild(p) /\ DOMAIN images' = Procs /\ \A j \in Procs : IsImage(images'[j])
  BY Zenon, <1>0, <1>4 DEF Mild, CtrTypes
<1>6. ImageInv(p)'
  BY Zenon, <1>0, <1>2, <1>3, <1>4 DEF OwnInv, ImageInv, Dest, TempName, Written
<1>7. s.pc \in Written /\ proc[p].pc \in Written /\ DOMAIN edit' = Procs
  BY Zenon, <1>0, <1>3 DEF Written, CtrTypes
<1> QED
  BY ZenonT(60), <1>0, <1>3, <1>4, <1>5, <1>6, <1>7, CommitKeeps

\* The temporary name goes, and with it the only name the image had.
LEMMA PruneKeeps ==
  ASSUME CtrInv, NEW p \in Procs, RemoveTempName(p)
  PROVE  CtrInv'
<1>0. /\ Running(p) /\ proc[p].pc = "prune" /\ IsProc(proc[p]) /\ OwnInv(p) /\ p \in DOMAIN proc
      /\ UNCHANGED <<ctrs, serial, listVars>> /\ UNCHANGED <<cmd, edit>> /\ CtrTypes
      /\ proc[p].rc = "none" /\ cmd[p].op = "commit" /\ p \in DOMAIN images
  BY ZenonT(60) DEF RemoveTempName, Doing, Running, CtrInv, CtrTypes, listVars, OwnInv, PlaceInv, Written
<1>1. /\ DOMAIN images' = Procs /\ \A i \in Procs : IsImage(images'[i])
      /\ \A i \in Procs : i # p => images'[i] = images[i]
      /\ images'[p].live = images[p].live /\ images'[p].conf = images[p].conf
      /\ images'[p].names \subseteq images[p].names
      /\ cmd[p].dest = None => images'[p].names = {}
  <2>1. CASE cmd[p].dest # None
    BY <1>0, <2>1 DEF RemoveTempName, CtrTypes
  <2>2. CASE cmd[p].dest = None
    <3>1. proc[p].img = p /\ images[p].names \subseteq {Dest(p)}
      BY Zenon, <1>0, <2>2 DEF OwnInv, ImageInv, Written
    <3>2. images' = [images EXCEPT ![p].names = @ \ {Dest(p)}]
      BY Zenon, <2>2, <3>1 DEF RemoveTempName
    <3> QED
      BY ZenonT(60), <1>0, <3>1, <3>2 DEF CtrTypes, IsImage
  <2> QED
    BY Zenon, <2>1, <2>2
<1>2. CASE proc' = [proc EXCEPT ![p] = Return(@, "err")]
  <2>1. Mild(p)
    BY <1>0, <1>1, <1>2 DEF Mild, CtrTypes
  <2> QED
    BY ZenonT(60), <1>0, <1>1, <1>2, <2>1, GiveUpKeeps
<1>3. CASE proc' = [proc EXCEPT ![p].pc = IF cmd[p].manifest THEN "manifest" ELSE "finish"]
  <2>0. PICK next \in {"manifest", "finish"} :
           next = IF cmd[p].manifest THEN "manifest" ELSE "finish"
    OBVIOUS
  <2> DEFINE s == [proc[p] EXCEPT !.pc = next]
  <2>1. /\ IsProc(s) /\ s.pc = next /\ s.c = proc[p].c /\ s.rc = "none"
        /\ s.open = proc[p].open /\ s.todo = proc[p].todo /\ s.err = proc[p].err
        /\ s.deleted = proc[p].deleted /\ s.img = proc[p].img
    BY <1>0 DEF IsProc
  <2>2. proc' = [proc EXCEPT ![p] = s] /\ proc'[p] = s
    BY ZenonT(60), <1>0, <1>3, <2>0
  <2> HIDE DEF s
  <2>3. Mild(p)
    BY <1>0, <1>1, <2>2 DEF Mild, CtrTypes
  <2>4. ImageInv(p)'
    BY ZenonT(60), <1>0, <1>1, <2>0, <2>1, <2>2 DEF OwnInv, ImageInv, Dest, TempName, Written
  <2>5. s.pc \in Written /\ proc[p].pc \in Written /\ DOMAIN edit' = Procs
    BY Zenon, <1>0, <2>1 DEF Written, CtrTypes
  <2> QED
    BY ZenonT(30), <1>0, <1>1, <2>1, <2>2, <2>3, <2>4, <2>5, CommitKeeps
<1> QED
  BY Zenon, <1>2, <1>3 DEF RemoveTempName

\* The commit waits for addManifest, and finishes only when it succeeded.
LEMMA ManifestKeeps ==
  ASSUME CtrInv, NEW p \in Procs, CommitAddsManifest(p) \/ ManifestAdded(p)
  PROVE  CtrInv'
<1>0. /\ Running(p) /\ proc[p].pc \in {"manifest", "adding"} /\ IsProc(proc[p]) /\ OwnInv(p)
      /\ p \in DOMAIN proc /\ UNCHANGED <<ctrs, images, serial>> /\ UNCHANGED cmd /\ CtrTypes
      /\ proc[p].rc = "none" /\ cmd[p].op = "commit"
  BY DEF CommitAddsManifest, ManifestAdded, AddManifest, Doing, Running, CtrInv, CtrTypes, listVars,
         OwnInv, PlaceInv, Written
<1>e. /\ DOMAIN edit' = Procs /\ (edit[p].rc = "ok" => edit'[p].rc = "ok")
      /\ \A q \in Procs : q # p => edit'[q] = edit[q]
  BY Zenon, <1>0 DEF CommitAddsManifest, ManifestAdded, AddManifest, At, CtrTypes, listVars
<1>i. DOMAIN images' = Procs /\ \A i \in Procs : IsImage(images'[i])
  BY Zenon, <1>0 DEF CtrTypes
<1>1. CASE proc' = [proc EXCEPT ![p] = Return(@, "err")]
  <2>1. Mild(p)
    BY <1>0, <1>e, <1>1 DEF Mild, CtrTypes
  <2>2. DOMAIN edit' = DOMAIN edit
    BY Zenon, <1>0, <1>e DEF CtrTypes
  <2> QED
    BY ZenonT(30), <1>0, <1>e, <1>1, <2>1, <2>2, ErrorKeeps
<1>2. ASSUME NEW next \in {"adding", "finish"}, proc' = [proc EXCEPT ![p].pc = next],
             next = "finish" => edit'[p].rc = "ok"
      PROVE  CtrInv'
  <2> DEFINE s == [proc[p] EXCEPT !.pc = next]
  <2>1. /\ IsProc(s) /\ s.pc = next /\ s.c = proc[p].c /\ s.rc = "none"
        /\ s.open = proc[p].open /\ s.todo = proc[p].todo /\ s.err = proc[p].err
        /\ s.deleted = proc[p].deleted /\ s.img = proc[p].img
    BY <1>0 DEF IsProc
  <2>2. proc' = [proc EXCEPT ![p] = s] /\ proc'[p] = s
    BY Zenon, <1>0, <1>2
  <2> HIDE DEF s
  <2>3. Mild(p)
    BY <1>0, <1>e, <2>2 DEF Mild, CtrTypes
  <2>4. ImageInv(p)'
    BY ZenonT(60), <1>0, <1>2, <2>1, <2>2 DEF OwnInv, ImageInv, Dest, TempName, Written
  <2>5. s.pc \in Written /\ proc[p].pc \in Written
    BY <1>0, <2>1 DEF Written
  <2> QED
    BY ZenonT(60), <1>0, <1>e, <1>i, <2>1, <2>2, <2>3, <2>4, <2>5, CommitKeeps
<1>3. CASE CommitAddsManifest(p)
  BY <1>2, <1>3 DEF CommitAddsManifest
<1>4. CASE ManifestAdded(p)
  BY Zenon, <1>1, <1>2, <1>4 DEF ManifestAdded, listVars
<1> QED
  BY ZenonT(60), <1>3, <1>4

\* "commit --rm" takes the container away.
LEMMA FinishKeeps ==
  ASSUME CtrInv, NEW p \in Procs, FinishCommit(p)
  PROVE  CtrInv'
<1>0. /\ Running(p) /\ proc[p].pc = "finish" /\ IsProc(proc[p]) /\ OwnInv(p) /\ p \in DOMAIN proc
      /\ UNCHANGED <<images, serial, listVars>> /\ UNCHANGED <<cmd, edit>> /\ CtrTypes
      /\ proc[p].rc = "none" /\ cmd[p].op = "commit"
  BY ZenonT(60) DEF FinishCommit, Doing, Running, CtrInv, CtrTypes, listVars, OwnInv, PlaceInv, Written
<1>c. PICK c \in CIDs : c = proc[p].c
  BY <1>0 DEF OwnInv, PlaceInv, Written
<1>1. CASE cmd[p].rm /\ ~ctrs[c].live
  <2>1. proc' = [proc EXCEPT ![p] = Return(@, "err")] /\ UNCHANGED ctrs
    BY ZenonT(60), <1>1, <1>c DEF FinishCommit, Present
  <2>2. Mild(p)
    BY <1>0, <2>1 DEF Mild, CtrTypes
  <2> QED
    BY ZenonT(60), <1>0, <2>1, <2>2, ErrorKeeps
<1>2. ASSUME NEW s, proc' = [proc EXCEPT ![p] = s], IsProc(s), s.pc = proc[p].pc, s.c = c,
             s.rc = "ok", s.open = proc[p].open, s.todo = proc[p].todo, s.err = proc[p].err,
             s.img = proc[p].img, s.deleted => ctrs'[c] = NoContainer, DOMAIN ctrs' = CIDs,
             \A d \in CIDs : d # c => ctrs'[d] = ctrs[d],
             ctrs'[c] = NoContainer \/ ctrs'[c] = ctrs[c]
      PROVE  CtrInv'
  <2>1. proc'[p] = s /\ \A q \in Procs : q # p => proc'[q] = proc[q]
    BY Zenon, <1>0, <1>2 DEF CtrTypes
  <2>2. PlaceInv(p)' /\ ~s.err
    BY ZenonT(60), <1>0, <1>2, <2>1 DEF OwnInv, PlaceInv
  <2>3. ImageInv(p)'
    BY SMTT(60), <1>0, <1>2, <2>1 DEF OwnInv, ImageInv, Dest, TempName, Written, NoContainer
  <2>4. OwnInv(p)' /\ ErrStep(p)
    BY ZenonT(60), <1>0, <1>2, <2>1, <2>2, <2>3 DEF OwnInv, IdleInv, SetUpInv, ErrStep
  <2>5. serial => Imaged(p)'
    <3>1. \A d : Acknowledged(d)' = Acknowledged(d)
      BY ZenonT(60), <1>0, <2>1, AcknowledgedStays
    <3>2. serial => Acknowledged(c) \subseteq images[p].conf
      BY ZenonT(30), <1>0, <1>c DEF CtrInv, SerialInv, Busy, Written
    <3>3. proc'[p].c = c /\ (serial => Acknowledged(c)' \subseteq images'[p].conf)
      BY ZenonT(60), <1>0, <1>2, <2>1, <3>1, <3>2
    <3> QED
      BY Zenon, <3>3 DEF Imaged
  <2>6. s.pc \notin {"name", "create", "save"} /\ proc[p].pc \notin {"save"} \cup Setting
    BY Zenon, <1>0, <1>2 DEF Setting
  <2> QED
    BY ZenonT(30), <1>0, <1>2, <1>c, <2>4, <2>5, <2>6, DoneKeeps
<1>3. CASE cmd[p].rm /\ ctrs[c].live
  <2> DEFINE s == [Return(proc[p], "ok") EXCEPT !.deleted = TRUE]
  <2>1. /\ IsProc(s) /\ s.pc = proc[p].pc /\ s.c = c /\ s.rc = "ok" /\ s.open = proc[p].open
        /\ s.todo = proc[p].todo /\ s.err = proc[p].err /\ s.img = proc[p].img
    BY Zenon, <1>0, <1>c DEF IsProc, Return
  <2>2. /\ proc' = [proc EXCEPT ![p] = s] /\ ctrs' = [ctrs EXCEPT ![c] = NoContainer]
    BY Zenon, <1>3, <1>c DEF FinishCommit, Present
  <2> HIDE DEF s
  <2>3. /\ DOMAIN ctrs' = CIDs /\ ctrs'[c] = NoContainer
        /\ \A d \in CIDs : d # c => ctrs'[d] = ctrs[d]
    BY <1>0, <2>2 DEF CtrTypes
  <2> QED
    BY ZenonT(60), <1>2, <2>1, <2>2, <2>3
<1>4. CASE ~cmd[p].rm
  <2> DEFINE s == Return(proc[p], "ok")
  <2>1. /\ IsProc(s) /\ s.pc = proc[p].pc /\ s.c = c /\ s.rc = "ok" /\ s.open = proc[p].open
        /\ s.todo = proc[p].todo /\ s.err = proc[p].err /\ s.img = proc[p].img
        /\ s.deleted = proc[p].deleted
    BY <1>0, <1>c DEF IsProc, Return
  <2>2. proc' = [proc EXCEPT ![p] = s] /\ UNCHANGED ctrs
    BY Zenon, <1>4 DEF FinishCommit
  <2> HIDE DEF s
  <2>3. ~s.deleted /\ DOMAIN ctrs' = CIDs
    BY ZenonT(60), <1>0, <2>1, <2>2 DEF CtrTypes, OwnInv, ImageInv
  <2> QED
    BY Zenon, <1>2, <2>1, <2>2, <2>3
<1> QED
  BY ZenonT(60), <1>1, <1>3, <1>4

\* An edit that has ended is not taken up again.
LEMMA EditsEnd ==
  ASSUME CtrTypes, NEW p \in Procs, EditStep(p) \/ CrashEditor(p)
  PROVE  /\ edit[p].rc = "none" /\ DOMAIN edit' = Procs
         /\ \A q \in Procs : q # p => edit'[q] = edit[q]
<1>1. DOMAIN edit = Procs
  BY Zenon DEF CtrTypes
<1>2. CASE CrashEditor(p)
  BY <1>1, <1>2 DEF CrashEditor, Editing, End
<1>3. CASE LookupManifestList(p) \/ ListUnknown(p) \/ LockList(p) \/ LoadFromImage(p)
  BY Zenon, <1>1, <1>3 DEF LookupManifestList, ListUnknown, LockList, LoadFromImage, At, End
<1>4. CASE CreateList(p) \/ DuplicateName(p) \/ EditFails(p) \/ ReloadList(p)
  BY ZenonT(60), <1>1, <1>4 DEF CreateList, DuplicateName, EditFails, ReloadList, At, End
<1>5. CASE SaveToImage(p)
  BY ZenonT(60), <1>1, <1>5 DEF SaveToImage, At, End
<1>6. CASE DeleteList(p) \/ PushList(p) \/ BuildsWait(p) \/ BuildReturns(p)
  BY <1>1, <1>6 DEF DeleteList, PushList, BuildsWait, BuildReturns, At, End
<1>7. CASE \E x \in Images : PlatformBuilt(p, x) \/ PlatformFails(p, x)
  BY ZenonT(60), <1>1, <1>7 DEF PlatformBuilt, PlatformFails, At
<1> QED
  BY ZenonT(30), <1>2, <1>3, <1>4, <1>5, <1>6, <1>7 DEF EditStep

\* The containers do not depend on the lists, but for the commit that waits.
LEMMA ListsKeep ==
  ASSUME CtrInv, NEW p \in Procs, EditStep(p) \/ CrashEditor(p),
         UNCHANGED <<ctrs, images, proc, serial>>
  PROVE  CtrInv'
<1>0. /\ UNCHANGED cmd /\ edit[p].rc = "none" /\ DOMAIN edit' = Procs
      /\ \A q \in Procs : q # p => edit'[q] = edit[q]
  BY Zenon, CmdFixed, EditsEnd DEF CtrInv
<1>1. CtrTypes'
  BY ZenonT(30), <1>0 DEF CtrInv, CtrTypes
<1>2. \A q \in Procs : Unborn(q)' = Unborn(q)
  BY DEF Unborn
<1>3. ASSUME NEW q \in Procs PROVE OwnInv(q)'
  <2>1. OwnInv(q)
    BY Zenon DEF CtrInv
  <2>2. IdleInv(q)' /\ SetUpInv(q)' /\ PlaceInv(q)'
    BY ZenonT(30), <1>0, <2>1 DEF OwnInv, IdleInv, SetUpInv, PlaceInv
  <2>3. edit[q].rc = "ok" => edit'[q].rc = "ok"
    BY ZenonT(30), <1>0
  <2>4. ImageInv(q)'
    BY ZenonT(30), <1>0, <2>1, <2>3 DEF OwnInv, ImageInv, Dest, TempName
  <2> QED
    BY Zenon, <2>2, <2>4 DEF OwnInv
<1>4. \A c : Acknowledged(c)' = Acknowledged(c)
  BY Zenon, <1>0 DEF Acknowledged
<1>5. \A q \in Procs : Busy(q)' = Busy(q) /\ Imaged(q)' = Imaged(q) /\ Running(q)' = Running(q)
  <2> SUFFICES ASSUME NEW q \in Procs
               PROVE  Busy(q)' = Busy(q) /\ Imaged(q)' = Imaged(q) /\ Running(q)' = Running(q)
    OBVIOUS
  <2>1. \A o : Opened(q, o)' = Opened(q, o)
    BY ZenonT(60) DEF Opened
  <2>2. Configuring(q)' = Configuring(q)
    BY <1>0 DEF Configuring
  <2>3. PICK c : c = proc[q].c /\ c = proc'[q].c
    BY Zenon
  <2>4. Imaged(q)' = Imaged(q)
    BY Zenon, <1>4, <2>3 DEF Imaged
  <2>5. Busy(q)' = Busy(q)
    BY ZenonT(30), <1>0, <1>4, <2>1, <2>2, <2>3 DEF Busy
  <2> QED
    BY Zenon, <2>4, <2>5 DEF Running
<1>6. SerialInv'
  BY ZenonT(60), <1>4, <1>5 DEF CtrInv, SerialInv, AtMostOne
<1>7. AgreeInv'
  <2>1. \A c \in CIDs : Sound(c)' = Sound(c) /\ \A q \in Procs : Saving(q, c)' = Saving(q, c)
    BY Zenon DEF Sound, Matches, Saving, Running
  <2>2. \A q \in Procs : Agreeing(q)' = Agreeing(q)
    BY ZenonT(60), <1>0 DEF Agreeing, Matches
  <2>3. Good' = Good
    BY DEF Good
  <2> QED
    BY ZenonT(30), <1>5, <2>1, <2>2, <2>3 DEF CtrInv, AgreeInv
<1> QED
  BY ZenonT(60), <1>0, <1>1, <1>2, <1>3, <1>6, <1>7 DEF CtrInv

\* A process is killed at any point.
LEMMA CrashKeeps ==
  ASSUME CtrInv, NEW p \in Procs, Crash(p)
  PROVE  CtrInv'
<1>1. CASE ~Running(p)
  <2>1. CrashEditor(p) /\ UNCHANGED <<ctrs, images, proc, serial>>
    BY Zenon, <1>1 DEF Crash
  <2> QED
    BY Zenon, <2>1, ListsKeep
<1>2. CASE Running(p)
  <2>1. /\ proc' = [proc EXCEPT ![p] = Return(@, "crashed")] /\ UNCHANGED <<ctrs, images, serial>>
        /\ CrashEditor(p) \/ UNCHANGED listVars
    BY Zenon, <1>2 DEF Crash
  <2>2. /\ UNCHANGED cmd /\ (edit[p].rc = "ok" => edit'[p].rc = "ok") /\ DOMAIN edit' = DOMAIN edit
        /\ \A q \in Procs : q # p => edit'[q] = edit[q]
    <3>1. CASE CrashEditor(p)
      BY ZenonT(30), <3>1, CmdFixed, EditsEnd DEF CtrInv, CtrTypes
    <3>2. CASE UNCHANGED listVars
      BY Zenon, <3>2 DEF listVars
    <3> QED
      BY ZenonT(60), <2>1, <3>1, <3>2
  <2>3. Mild(p)
    BY Zenon, <2>1, <2>2 DEF Mild, CtrInv, CtrTypes
  <2> QED
    BY ZenonT(60), <1>2, <2>1, <2>2, <2>3, ErrorKeeps
<1> QED
  BY <1>1, <1>2

\* A command begins, knowing nothing; if it is the only one, all is in order.
LEMMA BeginKeeps ==
  ASSUME CtrInv, NEW p \in Procs, Begin(p)
  PROVE  CtrInv'
<1>0. /\ CtrTypes /\ OwnInv(p) /\ p \in DOMAIN proc /\ proc[p].rc = "idle" /\ IsProc(proc[p])
      /\ UNCHANGED <<ctrs, images>> /\ UNCHANGED <<cmd, edit>>
      /\ proc' = [proc EXCEPT ![p].rc = "none"]
      /\ serial' => serial /\ \A q \in Procs : ~Running(q)
  BY ZenonT(60) DEF Begin, CtrInv, CtrTypes, listVars
<1>1. /\ proc[p].pc \in {"name", "list", "open"} /\ proc[p].open = {} /\ proc[p].c = None
      /\ ~proc[p].deleted /\ (cmd[p].op = "from" => proc[p].pc = "name") /\ ~proc[p].err
  <2>1. proc[p] = InitProc(cmd[p])
    BY <1>0 DEF OwnInv, IdleInv
  <2> QED
    BY <2>1 DEF InitProc
<1>2. /\ proc'[p].rc = "none" /\ IsProc(proc'[p])
      /\ proc'[p].pc = proc[p].pc /\ proc'[p].c = proc[p].c /\ proc'[p].b = proc[p].b
      /\ proc'[p].open = proc[p].open /\ proc'[p].todo = proc[p].todo
      /\ proc'[p].img = proc[p].img /\ proc'[p].deleted = proc[p].deleted
      /\ proc'[p].err = proc[p].err
      /\ \A q \in Procs : q # p => proc'[q] = proc[q]
  BY <1>0 DEF CtrTypes, IsProc
<1>3. CtrTypes'
  BY <1>0, <1>2 DEF CtrTypes
<1>4. \A q \in Procs : Unborn(q)' = Unborn(q) /\ proc'[q].pc = proc[q].pc
  BY <1>0, <1>2 DEF Unborn
<1>5. ASSUME NEW q \in Procs PROVE OwnInv(q)'
  <2>1. OwnInv(q)
    BY ZenonT(60) DEF CtrInv
  <2>2. CASE q # p
    BY SMTT(60), <1>0, <1>2, <2>1, <2>2 DEF OwnInv, IdleInv, SetUpInv, PlaceInv, ImageInv, Dest, TempName
  <2>3. CASE q = p
    <3>1. IdleInv(p)' /\ SetUpInv(p)'
      BY Zenon, <1>2 DEF IdleInv, SetUpInv
    <3>2. PlaceInv(p)'
      BY <1>0, <1>2 DEF OwnInv, PlaceInv
    <3>3. ImageInv(p)'
      BY ZenonT(60), <1>0, <1>1, <1>2 DEF OwnInv, ImageInv, Dest, TempName
    <3> QED
      BY ZenonT(60), <2>3, <3>1, <3>2, <3>3 DEF OwnInv
  <2> QED
    BY Zenon, <2>2, <2>3
<1>6. \A c : Acknowledged(c)' = Acknowledged(c)
  BY <1>0, <1>2, AcknowledgedStays
<1>7. \A q \in Procs : q # p => ~(serial' /\ Running(q)')
  BY <1>0, <1>2 DEF Running
<1>8. ASSUME serial' PROVE Busy(p)'
  <2>1. cmd[p].op = "from" => Acknowledged(p) = {}
    BY ZenonT(60), <1>1 DEF CtrInv, Unborn, Acknowledged
  <2>2. cmd[p].op = "config" => Configuring(p)'
    BY <1>1, <1>2 DEF Configuring
  <2> QED
    BY ZenonT(60), <1>0, <1>1, <1>2, <1>6, <2>1, <2>2 DEF Busy, Working, Setting, Written
<1>9. \A q \in Procs : Imaged(q) => Imaged(q)'
  <2> SUFFICES ASSUME NEW q \in Procs, Imaged(q) PROVE Imaged(q)'
    BY ZenonT(60)
  <2>1. PICK c : c = proc[q].c /\ c = proc'[q].c
    BY <1>2
  <2> QED
    BY ZenonT(60), <1>0, <1>1, <1>2, <1>6, <2>1 DEF Imaged
<1>10. SerialInv'
  <2> SUFFICES ASSUME serial'
               PROVE  (/\ AtMostOne
                       /\ \A c \in CIDs : ctrs[c].live => Acknowledged(c) \subseteq ctrs[c].b.conf
                       /\ \A q \in Procs : (Running(q) => Busy(q)) /\ Imaged(q))'
    BY Zenon DEF SerialInv
  <2>1. AtMostOne'
    BY <1>7 DEF AtMostOne
  <2> QED
    BY ZenonT(60), <1>0, <1>6, <1>7, <1>8, <1>9, <2>1 DEF CtrInv, SerialInv
<1>11. AgreeInv'
  <2> SUFFICES ASSUME Good'
               PROVE  /\ \A c \in CIDs : ctrs'[c].count \in Nat
                      /\ \A c \in CIDs : ctrs'[c].live => Sound(c)'
                      /\ \A q \in Procs : (Running(q) => Agreeing(q))'
    BY DEF AgreeInv
  <2>1. Good /\ serial'
    BY <1>0, <1>2 DEF Good
  <2>2. \A c \in CIDs : Sound(c)' = Sound(c) /\ \A q \in Procs : ~Saving(q, c)
    BY ZenonT(60), <1>0, <2>1 DEF Sound, Matches, Saving
  <2>3. Agreeing(p)'
    BY <1>1, <1>2 DEF Agreeing, Working, Setting
  <2> QED
    BY ZenonT(60), <1>0, <1>7, <2>1, <2>2, <2>3 DEF CtrInv, AgreeInv
<1>12. \A q \in Procs : cmd'[q].op = "rename" => cmd'[q].new \in Names
  BY Zenon, <1>0 DEF CtrInv
<1> QED
  BY ZenonT(30), <1>3, <1>4, <1>5, <1>10, <1>11, <1>12 DEF CtrInv

\* At the start a container is there, and nobody has opened it.
LEMMA InitCtr ==
  ASSUME Init
  PROVE  CtrInv
<1> PICK s \in Scenarios : InitLists(s.cmd, s.list)
  BY DEF Init
<1>0. /\ cmd = s.cmd /\ edit = [p \in Procs |-> InitEdit(cmd[p])]
      /\ images = [i \in Procs |-> NoImage] /\ proc = [p \in Procs |-> InitProc(cmd[p])]
  BY ZenonT(60) DEF InitLists, Init, InitContainers
<1>1. \A p \in Procs : cmd[p].op = "rename" => cmd[p].new \in Names
  BY <1>0, ScenarioAssumption
<1>2. /\ DOMAIN ctrs = CIDs
      /\ \A p \in Procs : ctrs[p] = NoContainer
      /\ ctrs["ctr"] = [NoContainer EXCEPT !.live = TRUE, !.name = "ctr", !.saved = TRUE,
                                           !.b.name = "ctr"]
      /\ ctrs["other"] = [NoContainer EXCEPT !.live = TRUE, !.name = "foreign"]
  BY Zenon, ScenarioAssumption DEF Init, InitContainers, CIDs
<1>3. \A c \in CIDs : /\ IsContainer(ctrs[c]) /\ (ctrs[c].saved \/ ctrs[c].b = NoBuilder)
                      /\ ctrs[c].count = 0
                      /\ ctrs[c].live => Sound(c)
  <2>1. ASSUME NEW c \in Procs
        PROVE  /\ IsContainer(ctrs[c]) /\ (ctrs[c].saved \/ ctrs[c].b = NoBuilder)
               /\ ctrs[c].count = 0 /\ ~ctrs[c].live
    <3>1. /\ IsContainer(NoContainer) /\ NoContainer.b = NoBuilder /\ NoContainer.count = 0
          /\ ~NoContainer.live
      BY Zenon DEF NoContainer, NoBuilder, IsContainer, IsBuilder
    <3> QED
      BY <1>2, <3>1, ZenonT(60)
  <2>2. /\ IsContainer(ctrs["ctr"]) /\ ctrs["ctr"].saved /\ ctrs["ctr"].count = 0 /\ Sound("ctr")
    BY <1>2 DEF NoContainer, NoBuilder, IsContainer, IsBuilder, Sound, Matches, None
  <2>3. /\ IsContainer(ctrs["other"]) /\ ctrs["other"].b = NoBuilder /\ ctrs["other"].count = 0
        /\ Sound("other")
    BY Zenon, <1>2 DEF NoContainer, NoBuilder, IsContainer, IsBuilder, Sound, Matches, None
  <2> QED
    BY ZenonT(60), <2>1, <2>2, <2>3 DEF CIDs
<1>4. \A p \in Procs :
        /\ proc[p] = InitProc(cmd[p]) /\ IsProc(proc[p])
        /\ proc[p].c = None /\ proc[p].b = NoBuilder /\ proc[p].open = {} /\ proc[p].todo = {}
        /\ ~proc[p].deleted /\ ~proc[p].err /\ proc[p].rc \in {"idle", "ok"}
        /\ cmd[p].op \in {"config", "commit"} => proc[p].rc = "idle" /\ proc[p].pc = "open"
        /\ proc[p].pc \in {"name", "list", "open"}
        /\ proc[p].pc = "name" => cmd[p].op = "from"
        /\ proc[p].pc = "list" <=> cmd[p].op \in {"mounts", "umountall", "rmall"}
  BY ZenonT(30), <1>0 DEF InitProc, IsProc, IsBuilder, NoBuilder, ContainerOps
<1>5. \A p \in Procs : images[p] = NoImage /\ images[p].names = {} /\ IsImage(images[p])
  BY Zenon, <1>0 DEF NoImage, IsImage
<1>6. CtrTypes
  BY ZenonT(60), <1>0, <1>2, <1>3, <1>4, <1>5 DEF CtrTypes
<1>7. \A p \in Procs : Unborn(p)
  BY SMTT(60), <1>2, <1>4, ScenarioAssumption DEF Unborn, NoContainer
<1>8. ASSUME NEW p \in Procs PROVE OwnInv(p)
  <2>1. IdleInv(p) /\ SetUpInv(p)
    BY Zenon, <1>4 DEF IdleInv, SetUpInv
  <2>2. PlaceInv(p)
    BY ZenonT(30), <1>4 DEF PlaceInv, Working, Setting, Written
  <2>3. ImageInv(p)
    BY ZenonT(30), <1>4, <1>5 DEF ImageInv, Written
  <2> QED
    BY ZenonT(60), <2>1, <2>2, <2>3 DEF OwnInv
<1>9. \A c : Acknowledged(c) = {}
  BY Zenon, <1>4 DEF Acknowledged
<1>10. \A p \in Procs : ~Running(p) /\ Imaged(p)
  BY Zenon, <1>4 DEF Running, Imaged
<1>11. SerialInv
  BY ZenonT(60), <1>9, <1>10 DEF SerialInv, AtMostOne
<1>12. AgreeInv
  BY <1>3, <1>10 DEF AgreeInv
<1> QED
  BY ZenonT(60), <1>1, <1>6, <1>7, <1>8, <1>11, <1>12 DEF CtrInv

\* CtrInv is inductive.
LEMMA NextCtr ==
  ASSUME CtrInv, [Next]_vars
  PROVE  CtrInv'
<1>1. ASSUME UNCHANGED vars PROVE CtrInv'
  <2> USE <1>1 DEF vars
  <2>1. \A c : /\ Acknowledged(c)' = Acknowledged(c) /\ Sound(c)' = Sound(c)
               /\ \A q \in Procs : Saving(q, c)' = Saving(q, c)
    BY ZenonT(30) DEF Acknowledged, Sound, Matches, Saving, Running
  <2>2. \A q \in Procs : /\ Unborn(q)' = Unborn(q) /\ OwnInv(q)' = OwnInv(q)
                         /\ Running(q)' = Running(q) /\ Agreeing(q)' = Agreeing(q)
    <3>1. ASSUME NEW q \in Procs PROVE IdleInv(q)' = IdleInv(q) /\ SetUpInv(q)' = SetUpInv(q)
      BY Zenon DEF IdleInv, SetUpInv
    <3>2. ASSUME NEW q \in Procs PROVE PlaceInv(q)' = PlaceInv(q)
      BY Zenon DEF PlaceInv
    <3>3. ASSUME NEW q \in Procs PROVE ImageInv(q)' = ImageInv(q)
      BY Zenon DEF ImageInv, Dest, TempName
    <3>4. ASSUME NEW q \in Procs PROVE Unborn(q)' = Unborn(q) /\ Agreeing(q)' = Agreeing(q)
      BY Zenon DEF Unborn, Agreeing, Matches
    <3> QED
      BY ZenonT(60), <3>1, <3>2, <3>3, <3>4 DEF OwnInv, Running
  <2>3. ASSUME NEW q \in Procs PROVE Busy(q)' = Busy(q) /\ Imaged(q)' = Imaged(q)
    BY ZenonT(30) DEF Busy, Imaged, Acknowledged, Opened, Configuring
  <2>4. SerialInv' = SerialInv
    BY ZenonT(30), <2>1, <2>2, <2>3 DEF SerialInv, AtMostOne
  <2>5. AgreeInv' = AgreeInv
    BY ZenonT(30), <2>1, <2>2 DEF AgreeInv, Good
  <2>6. CtrTypes' = CtrTypes
    BY Zenon DEF CtrTypes
  <2> QED
    BY ZenonT(30), <2>2, <2>4, <2>5, <2>6 DEF CtrInv
<1>2. ASSUME NEW p \in Procs, Step(p) PROVE CtrInv'
  <2>1. CASE \/ Begin(p) \/ OpenBuilder(p) \/ ImportBuilder(p) \/ ListContainers(p) \/ AllRead(p)
             \/ (\E c \in CIDs : ReadState(p, c)) \/ TakeNext(p) \/ ContainerVanished(p)
    BY ZenonT(60), <2>1, BeginKeeps, OpenKeeps, ImportKeeps, ListKeeps, AllReadKeeps, ReadKeeps, TakeNextKeeps,
       VanishedKeeps
  <2>2. CASE \/ Mount(p) \/ Unmount(p) \/ Mounted(p) \/ UpdateConfig(p) \/ RenameCheck(p)
             \/ SetNames(p) \/ Delete(p) \/ SaveBuilder(p)
    BY ZenonT(60), <2>2, MountKeeps, UnmountKeeps, MountedKeeps, UpdateKeeps, CheckKeeps, SetNamesKeeps,
       DeleteKeeps, SaveBuilderKeeps
  <2>3. CASE \/ ChooseName(p) \/ CreateContainer(p) \/ NameConflict(p) \/ MountNew(p)
             \/ InitConfig(p) \/ SaveNew(p) \/ OnBuild(p)
    BY ZenonT(60), <2>3, ChooseKeeps, CreateContainerKeeps, ConflictKeeps, MountNewKeeps, ConfigureKeeps,
       SaveNewKeeps
  <2>4. CASE \/ CopyImage(p) \/ LocateImage(p) \/ RemoveTempName(p) \/ CommitAddsManifest(p)
             \/ ManifestAdded(p) \/ FinishCommit(p)
    BY ZenonT(60), <2>4, CopyKeeps, LocateKeeps, PruneKeeps, ManifestKeeps, FinishKeeps
  <2>5. CASE EditLists(p)
    BY <2>5, ListsKeep DEF EditLists
  <2> QED
    BY ZenonT(60), <1>2, <2>1, <2>2, <2>3, <2>4, <2>5 DEF Step
<1> QED
  BY ZenonT(60), <1>1, <1>2, CrashKeeps DEF Next, Terminated

\* CtrInv holds of every state.
LEMMA CtrAlways == Spec => []CtrInv
<1>1. Init => CtrInv
  BY InitCtr
<1>2. CtrInv /\ [Next]_vars => CtrInv'
  BY NextCtr
<1> QED
  BY SMTT(60), <1>1, <1>2, PTL DEF Spec

\* A "from" that fails while it sets its container up removes it again, and is
\* refused for its name only when it was given one (newBuilder, new.go): for
\* every number of commands that run, fail and are killed at the same time.
THEOREM FromAlwaysCleansUp == Spec => []FromCleansUp
<1>1. CtrInv => FromCleansUp
  <2> SUFFICES ASSUME CtrInv, NEW p \in Procs, cmd[p].op = "from", proc[p].rc = "err"
               PROVE  /\ proc[p].pc \in {"create", "mount", "mount-save", "create-save"} => ~ctrs[p].live
                      /\ proc[p].pc = "create" => cmd[p].name # None
    BY Zenon DEF FromCleansUp
  <2>1. SetUpInv(p) /\ (proc[p].pc \in {"name", "create"} => Unborn(p))
    BY ZenonT(60) DEF CtrInv, OwnInv
  <2> QED
    BY Zenon, <2>1 DEF SetUpInv, Unborn
<1> QED
  BY SMTT(60), <1>1, CtrAlways, PTL

\* Commands that run one after the other lose no acknowledged change of the
\* configuration and leave state files that agree with the store (Builder.Save,
\* buildah.go), whatever number of commands there are and whichever are killed.
THEOREM StateAlwaysKept == Spec => []StateKept
<1>1. CtrInv => StateKept
  <2> SUFFICES ASSUME CtrInv PROVE StateKept
    BY Zenon
  <2>1. EditsKept
    BY Zenon DEF CtrInv, SerialInv, EditsKept
  <2>2. ASSUME serial, \A p \in Procs : proc[p].rc \in {"idle", "ok"}, NEW c \in CIDs, ctrs[c].live
        PROVE  /\ ctrs[c].name # None
               /\ ctrs[c].saved => ctrs[c].b.name \in {ctrs[c].name, c}
               /\ ctrs[c].b.mp => ctrs[c].count > 0
    <3>1. Good /\ \A p \in Procs : ~Saving(p, c)
      BY Zenon, <2>2 DEF Good, Saving, Running
    <3>2. Sound(c)
      BY ZenonT(30), <2>2, <3>1 DEF CtrInv, AgreeInv
    <3>3. ~ctrs[c].saved => ~ctrs[c].b.mp
      <4>1. ctrs[c].saved \/ ctrs[c].b = NoBuilder
        BY Zenon DEF CtrInv, CtrTypes
      <4>2. ~NoBuilder.mp
        BY DEF NoBuilder
      <4> QED
        BY Zenon, <4>1, <4>2
    <3> QED
      BY Zenon, <3>2, <3>3 DEF Sound, Matches
  <2>3. StateAgrees
    BY ZenonT(60), <2>2 DEF StateAgrees
  <2> QED
    BY <2>1, <2>3 DEF StateKept
<1> QED
  BY <1>1, CtrAlways, PTL

\* A commit that succeeds has its own complete image, in the manifest list it
\* was to be added to and without a temporary name, before it removes the
\* container (Builder.Commit, commit.go), whatever other commits do meanwhile.
THEOREM CommitAlwaysCompletes == Spec => []CommitCompletes
<1>1. CtrInv => CommitCompletes
  <2> SUFFICES ASSUME CtrInv PROVE CommitCompletes
    OBVIOUS
  <2>1. CommitBeforeRemove
    <3> SUFFICES ASSUME NEW p \in Procs, cmd[p].op = "commit", proc[p].deleted
                 PROVE  /\ images[p].live
                        /\ cmd[p].manifest => edit[p].rc = "ok"
                        /\ serial => Acknowledged(proc[p].c) \subseteq images[p].conf
      BY Zenon DEF CommitBeforeRemove
    <3>1. ImageInv(p) /\ (serial => Imaged(p))
      BY Zenon DEF CtrInv, OwnInv, SerialInv
    <3> QED
      BY Zenon, <3>1 DEF ImageInv, Imaged, Written
  <2>2. TempNameRemoved
    <3> SUFFICES ASSUME NEW p \in Procs, cmd[p].op = "commit", cmd[p].dest = None, proc[p].rc = "ok"
                 PROVE  proc[p].img = p /\ images[p].names = {}
      BY ZenonT(60) DEF TempNameRemoved
    <3>1. ImageInv(p)
      BY DEF CtrInv, OwnInv
    <3> QED
      BY Zenon, <3>1 DEF ImageInv, Written
  <2> QED
    BY <2>1, <2>2 DEF CommitCompletes
<1> QED
  BY <1>1, CtrAlways, PTL


=============================================================================
