--------------------------- MODULE RunMountsProofs ---------------------------
(***************************************************************************)
(* RUN with its --mount flags, for every number of tasks and processes and *)
(* all flags.  First the cache locks: a lock that a task will release is   *)
(* held by it, and no two running commands see the same locked cache; only *)
(* runs, task, lock and alive matter there.  Then what a RUN takes from    *)
(* the host: it gives back all of it by the end, and while the command     *)
(* runs everything it was given is still there.                            *)
(***************************************************************************)
EXTENDS RunMounts, FiniteSetTheorems, TLAPS

\* A task, and what it has taken, are records with these fields.
IsArt(a) == {"targets", "dests", "tmp", "agents", "images", "locks", "sock"} \subseteq DOMAIN a

IsTask(r) ==
  /\ {"pc", "at", "idx", "art", "cmd", "spec", "temp", "early"} \subseteq DOMAIN r
  /\ IsArt(r.art) /\ IsArt(r.cmd)

Types ==
  /\ runs \in Workloads
  /\ DOMAIN task = Tasks
  /\ \A t \in Tasks : IsTask(task[t]) /\ task[t].idx \in Nat \ {0} /\ task[t].at \in 0 .. Len(runs[t])
  /\ lock \in [Locks -> Tasks \cup {NoTask}]

\* A task that is in a RUN is at one of its steps; only a `buildah run` is in
\* getMounts.
Active == {"getMounts", "mounts", "exec", "agents", "cleanup"}

Places ==
  \A t \in Tasks :
    /\ task[t].pc \in Active \cup {"idle", "done", "failed"}
    /\ task[t].pc \in Active => task[t].at # 0

Own(t) == task[t].art.locks \cup task[t].cmd.locks

Held == \A t \in Tasks : Runs(t) => \A l \in Own(t) : l \in Locks /\ lock[l] = t

\* The locks of the locked caches among the flags before the n-th are taken.
IsLocked(flags, j) == TypeAt(flags, j) = "cache" /\ LastValue(flags[j], {"sharing"}) = "locked"

Covers(flags, n, locks) ==
  \A j \in DOMAIN flags : j < n /\ IsLocked(flags, j) => CacheLock(flags[j]) \in locks

CoversAll(flags, locks) ==
  \A j \in DOMAIN flags : IsLocked(flags, j) => CacheLock(flags[j]) \in locks

Covered ==
  \A t \in Tasks :
    /\ task[t].pc = "getMounts" => Covers(Step(t).cmdMounts, task[t].idx, task[t].art.locks)
    /\ task[t].pc = "mounts" => /\ Covers(Step(t).mounts, task[t].idx, task[t].art.locks)
                                /\ CoversAll(Step(t).cmdMounts, task[t].cmd.locks)
    /\ task[t].pc = "exec" => /\ CoversAll(Step(t).mounts, task[t].art.locks)
                              /\ CoversAll(Step(t).cmdMounts, task[t].cmd.locks)

LockInv == Types /\ Places /\ Held /\ Covered

-----------------------------------------------------------------------------
\* The step of an active task, with its flags.
LEMMA StepTypes ==
  ASSUME Types, Places, NEW t \in Tasks, task[t].pc \in Active
  PROVE  /\ task[t].at \in DOMAIN runs[t]
         /\ IsSeq(Step(t).mounts) /\ \A j \in DOMAIN Step(t).mounts : HasLock(Step(t).mounts[j])
         /\ IsSeq(Step(t).cmdMounts) /\ \A j \in DOMAIN Step(t).cmdMounts : HasLock(Step(t).cmdMounts[j])
         /\ t \notin Commands => Step(t).cmdMounts = <<>>
<1>1. IsSeq(runs[t])
  BY Zenon, RunAssumption DEF Types
<1>2. task[t].at \in DOMAIN runs[t]
  BY <1>1 DEF Types, Places, IsSeq
<1> QED
  BY ZenonT(60), <1>2, RunAssumption DEF Types, Step

\* GetCacheMount returns the lock of a locked cache, and waits for that lock.
LEMMA CacheMountLocks ==
  ASSUME NEW f, NEW stages, GetCacheMount(f, stages).res = "mount"
  PROVE  LET m == GetCacheMount(f, stages) IN
         /\ HasKey(f, TargetKeys)
         /\ m.lock = m.waits
         /\ m.lock = IF LastValue(f, {"sharing"}) = "locked" THEN CacheLock(f) ELSE ""
<1> DEFINE sharing == IF HasKey(f, {"sharing"}) THEN LastValue(f, {"sharing"}) ELSE "shared"
           lk == TargetLock(f, sharing)
<1>1. lk = IF LastValue(f, {"sharing"}) = "locked" THEN CacheLock(f) ELSE ""
  <2>1. ~HasKey(f, {"sharing"}) => LastValue(f, {"sharing"}) = NoArg
    BY DEF LastValue
  <2> QED
    BY Zenon, <2>1 DEF TargetLock, NoArg
<1> HIDE DEF lk
<1>2. /\ HasKey(f, TargetKeys)
      /\ GetCacheMount(f, stages) =
           [Nothing EXCEPT !.res = "mount", !.dest = Path(LastValue(f, TargetKeys)),
                           !.opts = CacheOptions(f), !.waits = lk, !.lock = lk]
  BY Zenon DEF GetCacheMount, Failure, Panic, Nothing, lk
<1> QED
  BY ZenonT(60), <1>1, <1>2 DEF Nothing

\* Giving back locks of its own takes a lock from no other task.
LEMMA ReleaseKeeps ==
  ASSUME LockInv, NEW t \in Tasks, Runs(t), NEW released \in SUBSET Own(t), Unlock(released),
         UNCHANGED <<runs, alive>>, DOMAIN task' = Tasks,
         \A u \in Tasks \ {t} : task'[u] = task[u],
         IsTask(task'[t]), task'[t].at = task[t].at, task'[t].idx = task[t].idx,
         task'[t].pc \in {"idle", "done", "failed"},
         task'[t].art.locks = {}, task'[t].cmd.locks = {}
  PROVE  LockInv'
<1> USE DEF LockInv
<1>1. Types'
  BY DEF Types, Unlock
<1>2. Places'
  BY DEF Places, Active
<1>3. Held'
  <2> SUFFICES ASSUME NEW u \in Tasks, Runs(u)', NEW l \in Own(u)'
               PROVE  l \in Locks /\ lock'[l] = u
    BY DEF Held
  <2>1. u # t /\ Runs(u) /\ l \in Own(u)
    BY DEF Own, Runs
  <2>2. l \in Locks /\ lock[l] = u
    BY <2>1 DEF Held
  <2>3. l \notin released
    BY ZenonT(60), <2>1, <2>2 DEF Held
  <2> QED
    BY <2>2, <2>3 DEF Unlock
<1>4. Covered'
  BY DEF Covered, Step
<1> QED
  BY <1>1, <1>2, <1>3, <1>4

\* A set-up that fails gives back all of its task's locks.
LEMMA FailKeeps ==
  ASSUME LockInv, NEW t \in Tasks, Runs(t), FailSetup(t), UNCHANGED <<runs, alive>>
  PROVE  LockInv'
<1>1. /\ DOMAIN task' = Tasks
      /\ \A u \in Tasks \ {t} : task'[u] = task[u]
      /\ IsTask(task'[t]) /\ task'[t].at = task[t].at /\ task'[t].idx = task[t].idx
      /\ task'[t].pc = "failed" /\ task'[t].art.locks = {} /\ task'[t].cmd.locks = {}
  BY ZenonT(60) DEF FailSetup, LockInv, Types, IsTask, IsArt, NoArtifacts
<1> QED
  BY <1>1, ReleaseKeeps DEF FailSetup, Own

\* The end of a RUN, and of a clean-up that is cut short.
LEMMA EndKeeps ==
  ASSUME LockInv, NEW t \in Tasks, Runs(t), NEW early, NEW newHost, NEW newCtr,
         NEW unlocked \in SUBSET task[t].art.locks,
         EndRun(t, early, newHost, newCtr, unlocked), UNCHANGED <<runs, alive>>
  PROVE  LockInv'
<1>1. /\ DOMAIN task' = Tasks
      /\ \A u \in Tasks \ {t} : task'[u] = task[u]
      /\ IsTask(task'[t]) /\ task'[t].at = task[t].at /\ task'[t].idx = task[t].idx
      /\ task'[t].pc \in {"idle", "done", "failed"}
      /\ task'[t].art.locks = {} /\ task'[t].cmd.locks = {}
  <2> PICK end \in {IF task[t].at < Len(runs[t]) THEN "idle" ELSE "done", "failed"} :
         task' = [task EXCEPT ![t].pc = end, ![t].art = NoArtifacts, ![t].cmd = NoArtifacts,
                              ![t].early = @ \/ early]
    BY Zenon DEF EndRun
  <2> QED
    BY DEF LockInv, Types, IsTask, IsArt, NoArtifacts
<1> QED
  BY <1>1, ReleaseKeeps DEF EndRun, Own

\* Counting on.
LEMMA Successor == \A n \in Nat \ {0} : n + 1 \in Nat \ {0}
OBVIOUS

\* One flag more.
LEMMA CoversNext ==
  ASSUME NEW flags, IsSeq(flags), NEW n \in Nat, NEW locks, NEW more,
         Covers(flags, n, locks), locks \subseteq more,
         IsLocked(flags, n) => CacheLock(flags[n]) \in more
  PROVE  Covers(flags, n + 1, more)
<1>1. \A j \in DOMAIN flags : j < n + 1 => j < n \/ j = n
  BY DEF IsSeq
<1> QED
  BY <1>1 DEF Covers

\* The loop goes on to the next flag; the lock of a locked cache was free.
LEMMA RecordKeeps ==
  ASSUME LockInv, NEW t \in Tasks, Runs(t), InLoop(t), NEW m, Record(t, m),
         UNCHANGED <<runs, alive>>,
         m.lock \in Locks \cup {""},
         m.lock # "" => m.res = "mount" /\ lock[m.lock] = NoTask,
         lock' = [l \in Locks |-> IF l = m.lock THEN t ELSE lock[l]],
         IsLocked(Mounts(t), task[t].idx) => m.lock = CacheLock(Flag(t)) /\ m.lock # ""
  PROVE  LockInv'
<1> USE DEF LockInv
<1> DEFINE new == {m.lock} \ {""}
<1>0. PICK temp, art :
           /\ task' = [task EXCEPT ![t].idx = @ + 1, ![t].temp = temp, ![t].art = art]
           /\ IsArt(art) /\ art.locks = task[t].art.locks \cup new
  <2> DEFINE old == task[t].art
             temp == IF Holds(m.opts, "O") THEN task[t].temp \cup {<<t, task[t].idx>>} ELSE task[t].temp
             more == [targets |-> old.targets \cup {m.dest}, dests |-> Append(old.dests, m.dest),
                      tmp |-> old.tmp + (IF m.tmp THEN 1 ELSE 0),
                      agents |-> old.agents + (IF m.agent THEN 1 ELSE 0),
                      images |-> IF m.image # "" THEN Append(old.images, m.image) ELSE old.images,
                      locks |-> old.locks \cup new,
                      sock |-> IF m.agent /\ old.agents = 0 THEN m.dest ELSE old.sock]
             art == IF m.res # "mount" THEN old ELSE more
  <2>1. IsArt(old) /\ IsArt(more) /\ more.locks = old.locks \cup new
    BY Zenon DEF Types, IsTask, IsArt
  <2>2. IsArt(art) /\ art.locks = old.locks \cup new
    BY Zenon, <2>1
  <2>3. task' = [task EXCEPT ![t].idx = @ + 1, ![t].temp = temp, ![t].art = art]
    BY Zenon DEF Record, Types, IsTask
  <2> QED
    BY ZenonT(60), <2>2, <2>3
<1>1. /\ DOMAIN task' = Tasks
      /\ \A u \in Tasks \ {t} : task'[u] = task[u]
      /\ task'[t].at = task[t].at /\ task'[t].idx = task[t].idx + 1
      /\ task'[t].pc = task[t].pc /\ task'[t].cmd = task[t].cmd
  BY Zenon, <1>0 DEF Types, IsTask
<1>2. IsTask(task'[t]) /\ task'[t].art.locks = task[t].art.locks \cup new
  BY Zenon, <1>0 DEF Types, IsTask
<1>3. Types'
  <2>1. task[t].idx + 1 \in Nat \ {0} /\ lock' \in [Locks -> Tasks \cup {NoTask}]
    <3>1. task[t].idx \in Nat \ {0}
      BY Zenon DEF Types
    <3>2. task[t].idx + 1 \in Nat \ {0}
      BY <3>1, Successor, Zenon
    <3>3. lock' \in [Locks -> Tasks \cup {NoTask}]
      BY Zenon DEF Types
    <3> QED
      BY Zenon, <3>2, <3>3
  <2>2. ASSUME NEW u \in Tasks
        PROVE  IsTask(task'[u]) /\ task'[u].idx \in Nat \ {0} /\ task'[u].at \in 0 .. Len(runs'[u])
    <3>1. CASE u = t
      BY Zenon, <1>1, <1>2, <2>1, <3>1 DEF Types
    <3>2. CASE u # t
      BY Zenon, <1>1, <3>2 DEF Types
    <3> QED
      BY Zenon, <3>1, <3>2
  <2> QED
    BY Zenon, <1>1, <2>1, <2>2 DEF Types, IsTask
<1>4. Places'
  BY Zenon, <1>1 DEF Places
<1>5. Held'
  <2> SUFFICES ASSUME NEW u \in Tasks, Runs(u)', NEW l \in Own(u)'
               PROVE  l \in Locks /\ lock'[l] = u
    BY Zenon DEF Held
  <2>1. CASE l \in Own(u)
    <3>1. l \in Locks /\ lock[l] = u
      BY Zenon, <2>1 DEF Held, Runs
    <3>2. l # m.lock
      BY Zenon, <3>1, RunAssumption
    <3> QED
      BY Zenon, <3>1, <3>2
  <2>2. CASE l \notin Own(u)
    <3>1. u = t /\ l = m.lock /\ l # ""
      BY Zenon, <1>1, <1>2, <2>2 DEF Own
    <3> QED
      BY Zenon, <3>1
  <2> QED
    BY Zenon, <2>1, <2>2
<1>6. Covered'
  <2>1. task[t].pc \in {"getMounts", "mounts"} /\ UNCHANGED Step(t) /\ task[t].idx \in Nat
    BY Zenon, <1>1 DEF InLoop, Step, Types
  <2>2. IsSeq(Mounts(t))
    BY Zenon, <2>1, StepTypes DEF Mounts, Active
  <2>3. ASSUME Covers(Mounts(t), task[t].idx, task[t].art.locks)
        PROVE  Covers(Mounts(t), task[t].idx + 1, task'[t].art.locks)
    BY Zenon, <1>2, <2>1, <2>2, <2>3, CoversNext DEF Flag
  <2>4. ASSUME NEW u \in Tasks \ {t}
        PROVE  UNCHANGED <<task[u], Step(u)>>
    BY Zenon, <1>1 DEF Step
  <2> QED
    BY ZenonT(60), <1>1, <2>1, <2>3, <2>4 DEF Covered, Mounts
<1> QED
  BY Zenon, <1>3, <1>4, <1>5, <1>6

-----------------------------------------------------------------------------
\* Only a cache mount has a lock.
LEMMA OtherMounts ==
  ASSUME NEW f, NEW a, NEW b, NEW c
  PROVE  /\ GetBindMount(f, a, b, c).lock = ""
         /\ GetTmpfsMount(f).lock = ""
         /\ getSecretMount(f, a).lock = ""
         /\ getSSHMount(f, a, b).lock = ""
<1>1. GetBindMount(f, a, b, c).lock = ""
  BY DEF GetBindMount, Failure, Nothing
<1>2. GetTmpfsMount(f).lock = ""
  BY DEF GetTmpfsMount, Failure, Nothing
<1>3. getSecretMount(f, a).lock = ""
  BY DEF getSecretMount, Failure, Panic, Nothing
<1>4. getSSHMount(f, a, b).lock = ""
  BY DEF getSSHMount, Failure, Nothing
<1> QED
  BY Zenon, <1>1, <1>2, <1>3, <1>4

\* A mount of another type leaves the locks alone.
LEMMA UnlockedRecordKeeps ==
  ASSUME LockInv, NEW t \in Tasks, Runs(t), InLoop(t), FlagType(t) # "cache", NEW m, m.lock = "",
         Record(t, m), UNCHANGED <<runs, alive, lock>>
  PROVE  LockInv'
<1>1. lock' = [l \in Locks |-> IF l = m.lock THEN t ELSE lock[l]]
  BY Zenon, RunAssumption DEF LockInv, Types
<1>2. ~IsLocked(Mounts(t), task[t].idx)
  BY Zenon DEF IsLocked, FlagType
<1> QED
  BY Zenon, <1>1, <1>2, RecordKeeps

\* Bind, tmpfs, secret and ssh mounts, and flags of an unknown type.
LEMMA OtherFlagKeeps ==
  ASSUME LockInv, NEW t \in Tasks,
         MountBind(t) \/ MountTmpfs(t) \/ MountSecret(t) \/ MountSSH(t) \/ MountUnknown(t)
  PROVE  LockInv'
<1>1. CASE MountBind(t)
  <2> DEFINE m == GetBindMount(Flag(t), Step(t).contextDir, StagesSeen(t), Images)
  <2>0. m.lock = ""
    BY OtherMounts, Zenon
  <2>1. Runs(t) /\ InLoop(t) /\ FlagType(t) # "cache" /\ m.lock = "" /\ UNCHANGED <<runs, alive>>
    BY Zenon, <1>1, <2>0 DEF MountBind, Parses
  <2>2. (Record(t, m) /\ UNCHANGED lock) \/ FailSetup(t)
    BY <1>1 DEF MountBind
  <2> QED
    BY Zenon, <2>1, <2>2, UnlockedRecordKeeps, FailKeeps
<1>2. CASE MountTmpfs(t)
  <2> DEFINE m == GetTmpfsMount(Flag(t))
  <2>1. Runs(t) /\ InLoop(t) /\ FlagType(t) # "cache" /\ m.lock = "" /\ UNCHANGED <<runs, alive>>
    BY Zenon, <1>2, OtherMounts DEF MountTmpfs, Parses
  <2>2. (Record(t, m) /\ UNCHANGED lock) \/ FailSetup(t)
    BY <1>2 DEF MountTmpfs
  <2> QED
    BY Zenon, <2>1, <2>2, UnlockedRecordKeeps, FailKeeps
<1>3. CASE MountSecret(t)
  <2> DEFINE m == getSecretMount(Flag(t), Secrets)
  <2>1. Runs(t) /\ InLoop(t) /\ FlagType(t) # "cache" /\ m.lock = "" /\ UNCHANGED <<runs, alive>>
    BY Zenon, <1>3, OtherMounts DEF MountSecret, Parses
  <2>2. (Record(t, m) /\ UNCHANGED lock) \/ FailSetup(t)
    BY <1>3 DEF MountSecret
  <2> QED
    BY Zenon, <2>1, <2>2, UnlockedRecordKeeps, FailKeeps
<1>4. CASE MountSSH(t)
  <2> DEFINE m == getSSHMount(Flag(t), task[t].art.agents, SSHSources)
  <2>0. m.lock = ""
    BY OtherMounts, Zenon
  <2>1. Runs(t) /\ InLoop(t) /\ FlagType(t) # "cache" /\ m.lock = "" /\ UNCHANGED <<runs, alive>>
    BY Zenon, <1>4, <2>0 DEF MountSSH, Parses
  <2>2. (Record(t, m) /\ UNCHANGED lock) \/ FailSetup(t)
    BY <1>4 DEF MountSSH
  <2> QED
    BY Zenon, <2>1, <2>2, UnlockedRecordKeeps, FailKeeps
<1>5. CASE MountUnknown(t)
  BY <1>5, FailKeeps DEF MountUnknown
<1> QED
  BY <1>1, <1>2, <1>3, <1>4, <1>5

\* A cache mount has its lock, or fails without it.
LEMMA CacheKeeps ==
  ASSUME LockInv, NEW t \in Tasks, MountCache(t)
  PROVE  LockInv'
<1> DEFINE m == GetCacheMount(Flag(t), StagesSeen(t))
<1>1. Runs(t) /\ InLoop(t) /\ UNCHANGED <<runs, alive>> /\ (m.waits # "" => LockFree(t, m.waits))
  BY Zenon DEF MountCache, Parses
<1>2. CASE FailSetup(t)
  BY Zenon, <1>1, <1>2, FailKeeps
<1>3. CASE ~FailSetup(t)
  <2>1. /\ m.res = "mount" /\ Record(t, m)
        /\ lock' = [l \in Locks |-> IF l = m.lock THEN t ELSE lock[l]]
    BY Zenon, <1>3 DEF MountCache
  <2>2. /\ HasKey(Flag(t), TargetKeys) /\ m.lock = m.waits
        /\ m.lock = IF LastValue(Flag(t), {"sharing"}) = "locked" THEN CacheLock(Flag(t)) ELSE ""
    BY Zenon, <2>1, CacheMountLocks
  <2>3. HasLock(Flag(t))
    <3>1. /\ task[t].pc \in {"getMounts", "mounts"}
          /\ task[t].idx <= Len(Mounts(t)) /\ task[t].idx \in Nat \ {0}
      BY Zenon, <1>1 DEF InLoop, LockInv, Types
    <3>2. IsSeq(Mounts(t)) /\ \A j \in DOMAIN Mounts(t) : HasLock(Mounts(t)[j])
      BY <3>1, StepTypes DEF LockInv, Mounts, Active
    <3> QED
      BY <3>1, <3>2 DEF Flag, IsSeq
  <2>4. m.lock \in Locks \cup {""} /\ (m.lock # "" => lock[m.lock] = NoTask)
    BY ZenonT(30), <1>1, <2>2, <2>3 DEF HasLock, LockFree
  <2>5. IsLocked(Mounts(t), task[t].idx) => m.lock = CacheLock(Flag(t)) /\ m.lock # ""
    BY ZenonT(30), <2>2, <2>3, RunAssumption DEF IsLocked, Flag, HasLock
  <2> HIDE DEF m
  <2> QED
    BY Zenon, <1>1, <2>1, <2>4, <2>5, RecordKeeps
<1> QED
  BY <1>2, <1>3

-----------------------------------------------------------------------------
\* A step of one task that leaves its locks, and everybody else, alone.
LEMMA MoveKeeps ==
  ASSUME LockInv, NEW t \in Tasks, UNCHANGED <<runs, alive, lock>>, DOMAIN task' = Tasks,
         \A u \in Tasks \ {t} : task'[u] = task[u],
         IsTask(task'[t]), task'[t].idx \in Nat \ {0}, task'[t].at \in 0 .. Len(runs[t]),
         task'[t].pc \in Active, task'[t].at # 0,
         Own(t)' \subseteq Own(t),
         task'[t].pc = "getMounts" => Covers(Step(t)'.cmdMounts, task'[t].idx, task'[t].art.locks),
         task'[t].pc = "mounts" => /\ Covers(Step(t)'.mounts, task'[t].idx, task'[t].art.locks)
                                   /\ CoversAll(Step(t)'.cmdMounts, task'[t].cmd.locks),
         task'[t].pc = "exec" => /\ CoversAll(Step(t)'.mounts, task'[t].art.locks)
                                 /\ CoversAll(Step(t)'.cmdMounts, task'[t].cmd.locks)
  PROVE  LockInv'
<1> USE DEF LockInv
<1>1. Types'
  BY DEF Types
<1>2. Places'
  BY DEF Places
<1>3. Held'
  <2> SUFFICES ASSUME NEW u \in Tasks, Runs(u)', NEW l \in Own(u)'
               PROVE  l \in Locks /\ lock'[l] = u
    BY DEF Held
  <2>1. Runs(u) /\ l \in Own(u)
    BY DEF Own, Runs
  <2> QED
    BY <2>1 DEF Held
<1>4. Covered'
  <2>1. ASSUME NEW u \in Tasks \ {t} PROVE UNCHANGED <<task[u], Step(u)>>
    BY DEF Step
  <2> QED
    BY ZenonT(60), <2>1 DEF Covered
<1> QED
  BY <1>1, <1>2, <1>3, <1>4

\* At the first flag nothing has to be locked yet.
LEMMA CoversNone ==
  ASSUME NEW flags, NEW locks, IsSeq(flags)
  PROVE  Covers(flags, 1, locks)
BY DEF Covers, IsSeq

\* After the last flag every locked cache is locked.
LEMMA CoversEverything ==
  ASSUME NEW flags, NEW locks, IsSeq(flags), NEW n \in Nat \ {0}, n > Len(flags), Covers(flags, n, locks)
  PROVE  CoversAll(flags, locks)
<1>1. \A j \in DOMAIN flags : j < n
  BY DEF IsSeq
<1> QED
  BY <1>1 DEF Covers, CoversAll

\* The start of a RUN of a build, or of a `buildah run`.
LEMMA BeginKeeps ==
  ASSUME LockInv, NEW t \in Tasks, RunCommand(t) \/ BeginRun(t)
  PROVE  LockInv'
<1> DEFINE next == IF t \in Commands THEN "getMounts" ELSE "mounts"
<1>1. /\ Runs(t) /\ task[t].at < Len(runs[t]) /\ UNCHANGED <<runs, alive, lock>>
      /\ task' = [task EXCEPT ![t] = [task[t] EXCEPT !.pc = next, !.at = @ + 1, !.idx = 1]]
  BY Zenon DEF RunCommand, BeginRun, EnterRun, LockInv, Types, IsTask
<1>2. /\ DOMAIN task' = Tasks
      /\ \A u \in Tasks \ {t} : task'[u] = task[u]
      /\ task'[t].pc = next /\ task'[t].at = task[t].at + 1 /\ task'[t].idx = 1
      /\ task'[t].art = task[t].art /\ task'[t].cmd = task[t].cmd /\ IsTask(task'[t])
  BY <1>1 DEF LockInv, Types, IsTask
<1>3. task'[t].at \in 1 .. Len(runs[t])
  <2>1. task[t].at \in 0 .. Len(runs[t]) /\ Len(runs[t]) \in Nat
    BY Zenon, RunAssumption DEF LockInv, Types, IsSeq
  <2> QED
    BY <1>1, <1>2, <2>1
<1>4. /\ IsSeq(Step(t)'.mounts) /\ IsSeq(Step(t)'.cmdMounts)
      /\ t \notin Commands => Step(t)'.cmdMounts = <<>>
  <2>1. runs \in Workloads /\ Step(t)' = runs[t][task'[t].at]
    BY <1>1 DEF LockInv, Types, Step
  <2>2. task'[t].at \in DOMAIN runs[t]
    BY Zenon, <1>3, <2>1, RunAssumption DEF IsSeq
  <2> QED
    BY ZenonT(30), <2>1, <2>2, RunAssumption
<1>5. Covers(Step(t)'.mounts, 1, task'[t].art.locks) /\ Covers(Step(t)'.cmdMounts, 1, task'[t].art.locks)
  BY <1>4, CoversNone
<1>6. t \notin Commands => CoversAll(Step(t)'.cmdMounts, task'[t].cmd.locks)
  BY <1>4 DEF CoversAll
<1>7. task'[t].idx \in Nat \ {0} /\ task'[t].at \in 0 .. Len(runs[t]) /\ task'[t].at # 0
  BY <1>2, <1>3
<1>8. Own(t)' \subseteq Own(t)
  BY <1>2 DEF Own
<1> QED
  BY <1>1, <1>2, <1>5, <1>6, <1>7, <1>8, MoveKeeps DEF Active

\* The locks of getMounts become the command's.
LEMMA BeginCommandKeeps ==
  ASSUME LockInv, NEW t \in Tasks, BeginCommandRun(t)
  PROVE  LockInv'
<1>1. /\ Runs(t) /\ task[t].pc = "getMounts" /\ task[t].idx > Len(Step(t).cmdMounts)
      /\ UNCHANGED <<runs, alive, lock>>
      /\ task' = [task EXCEPT ![t] = [task[t] EXCEPT !.pc = "mounts", !.idx = 1, !.cmd = task[t].art,
                                                     !.art = NoArtifacts]]
  BY DEF BeginCommandRun, EnterRun, Mounts
<1>2. /\ DOMAIN task' = Tasks
      /\ \A u \in Tasks \ {t} : task'[u] = task[u]
      /\ task'[t].pc = "mounts" /\ task'[t].at = task[t].at /\ task'[t].idx = 1
      /\ task'[t].art = NoArtifacts /\ task'[t].cmd = task[t].art /\ IsTask(task'[t])
  BY ZenonT(60), <1>1 DEF LockInv, Types, IsTask, IsArt, NoArtifacts
<1>3. IsSeq(Step(t).mounts) /\ IsSeq(Step(t).cmdMounts) /\ Step(t)' = Step(t)
  BY <1>1, <1>2, StepTypes DEF LockInv, Active, Step
<1>4. CoversAll(Step(t).cmdMounts, task[t].art.locks)
  <2>1. Covers(Step(t).cmdMounts, task[t].idx, task[t].art.locks) /\ task[t].idx \in Nat \ {0}
    BY <1>1 DEF LockInv, Covered, Types
  <2> QED
    BY <1>1, <1>3, <2>1, CoversEverything
<1>5. Covers(Step(t).mounts, 1, task'[t].art.locks)
  BY <1>3, CoversNone
<1>6. Own(t)' \subseteq Own(t)
  BY <1>2 DEF Own, NoArtifacts
<1>7. task'[t].idx \in Nat \ {0} /\ task'[t].at \in 0 .. Len(runs[t]) /\ task'[t].at # 0
  BY <1>1, <1>2 DEF LockInv, Types, Places, Active
<1> QED
  BY ZenonT(60), <1>1, <1>2, <1>3, <1>4, <1>5, <1>6, <1>7, MoveKeeps DEF Active

\* The command starts with every flag done, and ends.
LEMMA ExecKeeps ==
  ASSUME LockInv, NEW t \in Tasks, SetupVolumes(t) \/ CommandEnds(t) \/ ShutdownAgents(t)
  PROVE  LockInv'
<1>1. /\ Runs(t) /\ UNCHANGED <<runs, alive, lock>>
      /\ task[t].pc \in Active /\ task'[t].pc \in Active \ {"getMounts", "mounts"}
      /\ DOMAIN task' = Tasks
      /\ \A u \in Tasks \ {t} : task'[u] = task[u]
      /\ task'[t].at = task[t].at /\ task'[t].idx = task[t].idx
      /\ IsTask(task'[t]) /\ task'[t].art.locks = task[t].art.locks /\ task'[t].cmd = task[t].cmd
  <2>1. CASE SetupVolumes(t)
    BY ZenonT(60), <2>1 DEF SetupVolumes, LockInv, Types, IsTask, Active
  <2>2. CASE CommandEnds(t)
    BY <2>2 DEF CommandEnds, LockInv, Types, IsTask, IsArt, Active
  <2>3. CASE ShutdownAgents(t)
    BY <2>3 DEF ShutdownAgents, LockInv, Types, IsTask, Active
  <2> QED
    BY <2>1, <2>2, <2>3
<1>2. task'[t].pc = "exec" => /\ CoversAll(Step(t).mounts, task[t].art.locks)
                              /\ CoversAll(Step(t).cmdMounts, task[t].cmd.locks)
  <2> SUFFICES ASSUME task'[t].pc = "exec"
               PROVE  /\ CoversAll(Step(t).mounts, task[t].art.locks)
                      /\ CoversAll(Step(t).cmdMounts, task[t].cmd.locks)
    OBVIOUS
  <2>1. task[t].pc = "mounts" /\ task[t].idx > Len(Step(t).mounts)
    <3>1. CommandEnds(t) => task'[t].pc = "agents"
      BY DEF CommandEnds, LockInv, Types, IsTask
    <3>2. ShutdownAgents(t) => task'[t].pc = "cleanup"
      BY DEF ShutdownAgents, LockInv, Types, IsTask
    <3>3. SetupVolumes(t)
      BY <3>1, <3>2
    <3> QED
      BY ZenonT(60), <3>3 DEF SetupVolumes, Mounts
  <2>2. /\ Covers(Step(t).mounts, task[t].idx, task[t].art.locks) /\ task[t].idx \in Nat \ {0}
        /\ CoversAll(Step(t).cmdMounts, task[t].cmd.locks)
    BY <2>1 DEF LockInv, Covered, Types
  <2>3. IsSeq(Step(t).mounts)
    BY <1>1, StepTypes DEF LockInv
  <2> QED
    BY <2>1, <2>2, <2>3, CoversEverything
<1>3. Own(t)' \subseteq Own(t) /\ Step(t)' = Step(t)
  BY <1>1 DEF Own, Step
<1>4. task'[t].idx \in Nat \ {0} /\ task'[t].at \in 0 .. Len(runs[t]) /\ task'[t].at # 0
  BY <1>1 DEF LockInv, Types, Places
<1> QED
  BY ZenonT(60), <1>1, <1>2, <1>3, <1>4, MoveKeeps DEF Active

\* A process that ends takes its own locks only.
LEMMA GoneKeeps ==
  ASSUME LockInv, NEW p, Gone(p)
  PROVE  LockInv'
<1> USE DEF LockInv
<1>1. Types'
  BY ZenonT(30) DEF Gone, Types
<1>2. Places' /\ Covered'
  BY ZenonT(30) DEF Gone, Places, Covered, Step
<1>3. Held'
  <2> SUFFICES ASSUME NEW u \in Tasks, Runs(u)', NEW l \in Own(u)'
               PROVE  l \in Locks /\ lock'[l] = u
    BY DEF Held
  <2>1. Runs(u) /\ l \in Own(u) /\ ProcOf[u] # p
    BY Zenon DEF Own, Runs, Gone
  <2>2. l \in Locks /\ lock[l] = u
    BY <2>1 DEF Held
  <2> QED
    BY Zenon, <2>1, <2>2 DEF Gone
<1> QED
  BY <1>1, <1>2, <1>3

\* Every step keeps the invariant: one case per action.
LEMMA NextKeeps ==
  ASSUME LockInv, [Next]_vars
  PROVE  LockInv'
<1>1. ASSUME UNCHANGED <<runs, task, lock, alive>>
      PROVE  LockInv'
  BY <1>1 DEF LockInv, Types, Places, Held, Covered, Own, Step, Runs
<1>2. ASSUME NEW t \in Tasks, TaskStep(t)
      PROVE  LockInv'
  <2>1. CASE DuplicateVolume(t)
    BY <2>1, FailKeeps DEF DuplicateVolume
  <2>2. CASE ParserPanics(t)
    BY <2>2, GoneKeeps DEF ParserPanics
  <2>3. CASE CleanupRunMounts(t)
    <3> DEFINE art == task[t].art
               early == art.images # <<>>
    <3>1. /\ Runs(t) /\ UNCHANGED <<runs, alive>>
          /\ EndRun(t, early,
                    IF early THEN host ELSE [host EXCEPT ![t].tmp = @ - art.tmp],
                    IF early THEN ctr ELSE [ctr EXCEPT ![CtrOf[t]].rootfs = @ \ art.targets],
                    IF early THEN {} ELSE art.locks)
      BY <2>3 DEF CleanupRunMounts
    <3> QED
      BY ZenonT(60), <3>1, EndKeeps
  <2> QED
    BY ZenonT(60), <1>2, <2>1, <2>2, <2>3, BeginKeeps, BeginCommandKeeps, OtherFlagKeeps, CacheKeeps, ExecKeeps
    DEF TaskStep
<1>3. ASSUME NEW t \in Tasks, SetupFails(t)
      PROVE  LockInv'
  BY <1>3, FailKeeps DEF SetupFails
<1>4. ASSUME NEW t \in Tasks, CleanupFails(t)
      PROVE  LockInv'
  BY ZenonT(30), <1>4, EndKeeps DEF CleanupFails
<1>5. ASSUME NEW t \in Tasks, AgentStep(t)
      PROVE  LockInv'
  BY <1>1, <1>5 DEF AgentStep, Accept, ServeAgent, CloseConnection
<1>6. ASSUME NEW p \in Procs, Exit(p) \/ Crash(p)
      PROVE  LockInv'
  BY <1>6, GoneKeeps DEF Exit, Crash
<1>7. CASE Terminating \/ UNCHANGED vars
  BY <1>1, <1>7 DEF Terminating, vars
<1> QED
  BY ZenonT(60), <1>2, <1>3, <1>4, <1>5, <1>6, <1>7 DEF Next

\* No task has a lock at the start.
LEMMA InitKeeps ==
  ASSUME Init
  PROVE  LockInv
<1>1. \A t \in Tasks : Len(runs[t]) \in Nat
  BY Zenon, RunAssumption DEF Init, IsSeq
<1>2. DOMAIN task = Tasks /\ \A t \in Tasks : task[t] = Idle
  BY DEF Init
<1>3. /\ IsTask(Idle) /\ Idle.pc = "idle" /\ Idle.at = 0 /\ Idle.idx = 1
      /\ Idle.art.locks = {} /\ Idle.cmd.locks = {}
  BY Zenon DEF Idle, IsTask, IsArt, NoArtifacts
<1>4. Types
  BY <1>1, <1>2, <1>3 DEF Init, Types
<1>5. Places /\ Held /\ Covered
  BY <1>2, <1>3 DEF Places, Active, Held, Own, Covered
<1> QED
  BY <1>4, <1>5 DEF LockInv

\* The invariant of the cache locks.
LEMMA LockInvariant == Spec => []LockInv
BY InitKeeps, NextKeeps, PTL DEF Spec

\* UnlockLockArray never releases a lock its task does not hold, on no path of
\* a RUN that succeeds, fails or is cut short (Unlock of a lock that is not
\* held would panic).
THEOREM LocksAreOwned == Spec => []LocksOwned
<1>1. LockInv => LocksOwned
  BY DEF LockInv, Held, Own, LocksOwned
<1> QED
  BY <1>1, LockInvariant, PTL

\* sharing=locked: no two commands that run at the same time, in one process or
\* in several, see the same locked cache (GetCacheMount).
THEOREM CachesAreExclusive == Spec => []CacheExclusive
<1>1. LockInv => CacheExclusive
  <2> SUFFICES ASSUME LockInv, NEW t \in Tasks, NEW u \in Tasks, t # u, Runs(t), Runs(u),
                      task[t].pc = "exec", task[u].pc = "exec",
                      NEW l \in LockedCaches(t), l \in LockedCaches(u)
               PROVE  FALSE
    BY DEF CacheExclusive
  <2>1. ASSUME NEW v \in Tasks, task[v].pc = "exec", l \in LockedCaches(v)
        PROVE  l \in Own(v)
    <3>1. \/ \E j \in DOMAIN Step(v).mounts :
                IsLocked(Step(v).mounts, j) /\ l = CacheLock(Step(v).mounts[j])
          \/ \E j \in DOMAIN Step(v).cmdMounts :
                IsLocked(Step(v).cmdMounts, j) /\ l = CacheLock(Step(v).cmdMounts[j])
      BY ZenonT(60), <2>1 DEF LockedCaches, IsLocked
    <3>2. /\ CoversAll(Step(v).mounts, task[v].art.locks)
          /\ CoversAll(Step(v).cmdMounts, task[v].cmd.locks)
      BY <2>1 DEF LockInv, Covered
    <3> QED
      BY Zenon, <3>1, <3>2 DEF CoversAll, Own
  <2> QED
    BY <2>1 DEF LockInv, Held
<1> QED
  BY <1>1, LockInvariant, PTL

-----------------------------------------------------------------------------
(***************************************************************************)
(* What a RUN takes and gives back.  The invariant says, for every task,   *)
(* what it has on the host and in its container at each point of the RUN.  *)
(***************************************************************************)
IsHost(h) == {"bundle", "tmp", "agents", "conn"} \subseteq DOMAIN h
IsCtr(c) == {"mounts", "overlay", "rootfs"} \subseteq DOMAIN c

Surroundings ==
  /\ DOMAIN host = Tasks /\ DOMAIN ctr = Containers
  /\ \A t \in Tasks : IsHost(host[t]) /\ host[t].tmp \in Int /\ host[t].agents \in Int
  /\ \A c \in Containers : IsCtr(ctr[c]) /\ ctr[c].mounts \in Int

\* The temporary files and the agents on the host are those the RUN knows of;
\* what earlier RUNs left behind is there only after a clean-up cut short.
Holding(t) ==
  /\ task[t].art.tmp \in Nat /\ task[t].art.agents \in Nat
  /\ task[t].art.sock # NoSock => task[t].art.agents # 0
  /\ task[t].pc \in {"idle", "getMounts", "done"} =>
       ~host[t].bundle /\ task[t].art.tmp = 0 /\ task[t].art.agents = 0
  /\ Runs(t) => host[t].agents >= 0
  /\ Runs(t) /\ task[t].pc \in {"mounts", "exec", "agents"} => host[t].agents >= task[t].art.agents
  /\ Runs(t) /\ ~task[t].early /\ task[t].pc # "failed" =>
       /\ host[t].tmp = task[t].art.tmp
       /\ host[t].agents = IF task[t].pc = "cleanup" THEN 0 ELSE task[t].art.agents

\* No lock is held that is not recorded to be released.
Keeps(t) ==
  /\ task[t].pc \in {"idle", "done"} => Own(t) = {}
  /\ task[t].pc = "getMounts" => task[t].cmd.locks = {}
  /\ Runs(t) /\ ~task[t].early => \A l \in Locks : lock[l] = t => l \in Own(t)

\* The overlays of a task are those it will clean up.
Tidy(t) ==
  \A d \in ctr[CtrOf[t]].overlay :
    d[1] = t => \/ task[t].pc = "failed"
                \/ task[t].pc \in {"mounts", "exec"} /\ d \in task[t].temp

\* The overlays of the volumes of a running command are there.
Fresh(t) ==
  {<<t, i + Len(Step(t).mounts)>> : i \in {j \in DOMAIN Step(t).volumes : Step(t).volumes[j].overlay}}

Alone(t) == \A u \in Tasks : CtrOf[u] = CtrOf[t] => u = t

Live(t) == task[t].pc = "exec" /\ Alone(t) => Fresh(t) \subseteq ctr[CtrOf[t]].overlay

TaskInv(t) == Holding(t) /\ Keeps(t) /\ Tidy(t) /\ Live(t)

GiveInv == Surroundings /\ (\A t \in Tasks : TaskInv(t)) /\ MountsBalanced

\* A step of task u leaves the other tasks, what they have on the host and
\* other containers alone; in its own container it may take overlays away and
\* add its own.
LocalStep(u) ==
  /\ UNCHANGED <<runs, alive>>
  /\ DOMAIN task' = Tasks /\ \A t \in Tasks \ {u} : task'[t] = task[t]
  /\ DOMAIN host' = Tasks /\ \A t \in Tasks \ {u} : host'[t] = host[t]
  /\ DOMAIN ctr' = Containers /\ \A c \in Containers \ {CtrOf[u]} : ctr'[c] = ctr[c]
  /\ \A d \in ctr'[CtrOf[u]].overlay : d \in ctr[CtrOf[u]].overlay \/ d[1] = u
  /\ \A l \in Locks : lock'[l] \in {lock[l], NoTask, u}

\* Such a step keeps the invariant of every other task.
LEMMA OthersKeep ==
  ASSUME GiveInv, NEW u \in Tasks, LocalStep(u), NEW t \in Tasks \ {u}
  PROVE  TaskInv(t)'
<1>0. task'[t] = task[t] /\ host'[t] = host[t] /\ Runs(t)' = Runs(t) /\ Own(t)' = Own(t)
      /\ Step(t)' = Step(t)
  BY DEF LocalStep, Runs, Own, Step
<1>i. TaskInv(t)
  BY Zenon DEF GiveInv
<1>1. Holding(t)'
  BY ZenonT(60), <1>0, <1>i DEF TaskInv, Holding
<1>2. Keeps(t)'
  <2>1. \A l \in Locks : lock'[l] = t => lock[l] = t
    BY ZenonT(30), RunAssumption DEF LocalStep
  <2> QED
    BY <1>0, <1>i, <2>1 DEF TaskInv, Keeps
<1>c. CtrOf[t] \in Containers
  BY Zenon, RunAssumption
<1>3. Tidy(t)'
  <2>1. \A d \in ctr'[CtrOf[t]].overlay : d[1] = t => d \in ctr[CtrOf[t]].overlay
    BY Zenon, <1>c DEF LocalStep
  <2> QED
    BY Zenon, <1>0, <1>i, <2>1 DEF TaskInv, Tidy
<1>4. Live(t)'
  <2>1. Fresh(t)' = Fresh(t)
    BY Zenon, <1>0 DEF Fresh
  <2>2. Alone(t) => ctr'[CtrOf[t]] = ctr[CtrOf[t]]
    BY <1>c DEF LocalStep, Alone
  <2>3. Alone(t)' = Alone(t)
    BY DEF Alone
  <2> QED
    BY ZenonT(60), <1>0, <1>i, <2>1, <2>2, <2>3 DEF TaskInv, Live
<1> QED
  BY ZenonT(60), <1>1, <1>2, <1>3, <1>4 DEF TaskInv

Inside(c) == {t \in Tasks : CtrOf[t] = c /\ InRun(t)}

\* It keeps the count of the mounts when it counts its own coming and going.
LEMMA BalanceKeeps ==
  ASSUME GiveInv, NEW u \in Tasks, LocalStep(u),
         ctr'[CtrOf[u]].mounts = ctr[CtrOf[u]].mounts + (IF InRun(u)' THEN 1 ELSE 0)
                                                      - (IF InRun(u) THEN 1 ELSE 0)
  PROVE  MountsBalanced'
<1> SUFFICES ASSUME NEW c \in Containers
             PROVE  ctr'[c].mounts = Cardinality(Inside(c)')
  BY DEF MountsBalanced, Inside
<1>1. ctr[c].mounts = Cardinality(Inside(c)) /\ ctr[c].mounts \in Int
  BY DEF GiveInv, MountsBalanced, Inside, Surroundings
<1>2. IsFiniteSet(Inside(c)) /\ Cardinality(Inside(c)) \in Nat
  BY ZenonT(30), RunAssumption, FS_Subset, FS_CardinalityType DEF Inside
<1>3. \A t \in Tasks \ {u} : InRun(t)' = InRun(t)
  BY DEF LocalStep, InRun
<1>4. CASE c # CtrOf[u]
  <2>1. Inside(c)' = Inside(c) /\ ctr'[c] = ctr[c]
    BY ZenonT(60), <1>3, <1>4 DEF Inside, LocalStep
  <2> QED
    BY Zenon, <1>1, <2>1
<1>5. CASE c = CtrOf[u]
  <2>1. CASE InRun(u)' /\ InRun(u)
    <3>1. Inside(c)' = Inside(c)
      BY ZenonT(60), <1>3, <1>5, <2>1 DEF Inside
    <3> QED
      BY SMTT(60), <1>1, <1>5, <2>1, <3>1
  <2>2. CASE ~InRun(u)' /\ ~InRun(u)
    <3>1. Inside(c)' = Inside(c)
      BY ZenonT(60), <1>3, <1>5, <2>2 DEF Inside
    <3> QED
      BY SMTT(60), <1>1, <1>5, <2>2, <3>1
  <2>3. CASE InRun(u)' /\ ~InRun(u)
    <3>1. Inside(c)' = Inside(c) \cup {u} /\ u \notin Inside(c)
      BY <1>3, <1>5, <2>3 DEF Inside
    <3>2. Cardinality(Inside(c)') = Cardinality(Inside(c)) + 1
      BY ZenonT(60), <1>2, <3>1, FS_AddElement
    <3> QED
      BY <1>1, <1>5, <2>3, <3>2
  <2>4. CASE ~InRun(u)' /\ InRun(u)
    <3>1. Inside(c)' = Inside(c) \ {u} /\ u \in Inside(c)
      BY <1>3, <1>5, <2>4 DEF Inside
    <3>2. Cardinality(Inside(c)') = Cardinality(Inside(c)) - 1
      BY Zenon, <1>2, <3>1, FS_RemoveElement
    <3> QED
      BY SMTT(60), <1>1, <1>5, <2>4, <3>2
  <2> QED
    BY ZenonT(60), <2>1, <2>2, <2>3, <2>4 DEF InRun
<1> QED
  BY ZenonT(60), <1>4, <1>5

\* So a step of a task has to be looked at for this task only.
LEMMA TaskKeeps ==
  ASSUME GiveInv, NEW u \in Tasks, LocalStep(u), TaskInv(u)',
         IsHost(host'[u]), host'[u].tmp \in Int, host'[u].agents \in Int,
         IsCtr(ctr'[CtrOf[u]]),
         ctr'[CtrOf[u]].mounts = ctr[CtrOf[u]].mounts + (IF InRun(u)' THEN 1 ELSE 0)
                                                      - (IF InRun(u) THEN 1 ELSE 0)
  PROVE  GiveInv'
<1>1. MountsBalanced'
  BY BalanceKeeps
<1>2. \A t \in Tasks : TaskInv(t)'
  BY Zenon, OthersKeep
<1>3. Surroundings'
  <2>0. ctr[CtrOf[u]].mounts \in Int
    BY ZenonT(30), RunAssumption DEF GiveInv, Surroundings
  <2>1. \A c \in Containers : IsCtr(ctr'[c]) /\ ctr'[c].mounts \in Int
    <3>1. ctr'[CtrOf[u]].mounts \in Int
      BY <2>0
    <3> QED
      BY Zenon, <3>1 DEF LocalStep, GiveInv, Surroundings
  <2>2. \A t \in Tasks : IsHost(host'[t]) /\ host'[t].tmp \in Int /\ host'[t].agents \in Int
    BY Zenon DEF LocalStep, GiveInv, Surroundings
  <2> QED
    BY <2>1, <2>2 DEF LocalStep, Surroundings
<1> QED
  BY ZenonT(60), <1>1, <1>2, <1>3 DEF GiveInv

\* In particular when it stays in, or enters, prepare's mount of the root.
LEMMA RunStays ==
  ASSUME GiveInv, NEW u \in Tasks, LocalStep(u), TaskInv(u)',
         IsHost(host'[u]), host'[u].tmp \in Int, host'[u].agents \in Int,
         IsCtr(ctr'[CtrOf[u]]), InRun(u)' <=> InRun(u),
         ctr'[CtrOf[u]].mounts = ctr[CtrOf[u]].mounts
  PROVE  GiveInv'
<1>1. ctr[CtrOf[u]].mounts \in Int
  BY Zenon, RunAssumption DEF GiveInv, Surroundings
<1>2. ctr'[CtrOf[u]].mounts = ctr[CtrOf[u]].mounts + (IF InRun(u)' THEN 1 ELSE 0)
                                                   - (IF InRun(u) THEN 1 ELSE 0)
  BY <1>1
<1> QED
  BY Zenon, <1>2, TaskKeeps

LEMMA RunEnters ==
  ASSUME GiveInv, NEW u \in Tasks, LocalStep(u), TaskInv(u)',
         IsHost(host'[u]), host'[u].tmp \in Int, host'[u].agents \in Int,
         IsCtr(ctr'[CtrOf[u]]), ~InRun(u), InRun(u)',
         ctr'[CtrOf[u]].mounts = ctr[CtrOf[u]].mounts + 1
  PROVE  GiveInv'
<1>1. ctr[CtrOf[u]].mounts \in Int
  BY Zenon, RunAssumption DEF GiveInv, Surroundings
<1>2. ctr'[CtrOf[u]].mounts = ctr[CtrOf[u]].mounts + (IF InRun(u)' THEN 1 ELSE 0)
                                                   - (IF InRun(u) THEN 1 ELSE 0)
  BY <1>1
<1> QED
  BY Zenon, <1>2, TaskKeeps

\* A set-up that fails unmounts the container and removes the bundle.
LEMMA FailGives ==
  ASSUME LockInv, GiveInv, NEW u \in Tasks, Runs(u), FailSetup(u), UNCHANGED <<runs, alive>>
  PROVE  GiveInv'
<1>1. /\ DOMAIN task' = Tasks
      /\ \A t \in Tasks \ {u} : task'[t] = task[t]
      /\ task'[u].pc = "failed" /\ task'[u].art = NoArtifacts /\ task'[u].cmd = NoArtifacts
      /\ task'[u].early = task[u].early
  BY ZenonT(60) DEF FailSetup, LockInv, Types, IsTask
<1>2. /\ DOMAIN host' = Tasks /\ DOMAIN ctr' = Containers
      /\ \A t \in Tasks \ {u} : host'[t] = host[t]
      /\ \A c \in Containers \ {CtrOf[u]} : ctr'[c] = ctr[c]
      /\ IsHost(host'[u]) /\ host'[u].tmp = host[u].tmp /\ host'[u].agents = host[u].agents
      /\ IsCtr(ctr'[CtrOf[u]]) /\ ctr'[CtrOf[u]].overlay = ctr[CtrOf[u]].overlay
      /\ ctr'[CtrOf[u]].mounts = ctr[CtrOf[u]].mounts - (IF InRun(u) THEN 1 ELSE 0)
  <2>1. CtrOf[u] \in Containers
    BY Zenon, RunAssumption
  <2>2. CASE InRun(u)
    BY <2>1, <2>2 DEF FailSetup, LeaveRun, GiveInv, Surroundings, IsHost, IsCtr
  <2>3. CASE ~InRun(u)
    BY <2>1, <2>3 DEF FailSetup, GiveInv, Surroundings
  <2> QED
    BY <2>2, <2>3
<1>3. ~InRun(u)'
  BY <1>1 DEF InRun
<1>4. LocalStep(u)
  BY <1>1, <1>2 DEF LocalStep, FailSetup, Unlock
<1>i. TaskInv(u) /\ host[u].tmp \in Int /\ host[u].agents \in Int /\ ctr[CtrOf[u]].mounts \in Int
  BY ZenonT(60), RunAssumption DEF GiveInv, Surroundings
<1>5. Holding(u)'
  BY <1>1, <1>2, <1>i DEF Holding, TaskInv, NoArtifacts, Runs
<1>6. Keeps(u)'
  <2>1. \A l \in Locks : lock'[l] = u => lock[l] = u /\ l \notin Own(u)
    BY ZenonT(60), RunAssumption DEF FailSetup, Unlock, Own
  <2> QED
    BY Zenon, <1>1, <1>i, <2>1 DEF TaskInv, Keeps, Runs
<1>7. Tidy(u)' /\ Live(u)'
  BY <1>1 DEF Tidy, Live
<1> QED
  BY SMTT(60), <1>2, <1>3, <1>4, <1>5, <1>6, <1>7, <1>i, TaskKeeps DEF TaskInv

\* The number of files and of agents a mount function has made; only a mount
\* it returns has any, or a lock.
Added(m, files, agents) ==
  /\ files = (IF m.tmp THEN 1 ELSE 0) /\ agents = (IF m.agent THEN 1 ELSE 0)
  /\ files # 0 \/ agents # 0 => m.res = "mount"

Returned(m) == m.res # "mount" => m.lock = ""

\* What the loops record of a mount.
Recorded(u, m, files, agents) ==
  /\ DOMAIN task' = Tasks
  /\ \A t \in Tasks \ {u} : task'[t] = task[t]
  /\ task'[u].pc = task[u].pc /\ task'[u].cmd = task[u].cmd /\ task'[u].early = task[u].early
  /\ task'[u].temp = IF Holds(m.opts, "O") THEN task[u].temp \cup {<<u, task[u].idx>>}
                                           ELSE task[u].temp
  /\ task'[u].art.locks = task[u].art.locks \cup ({m.lock} \ {""})
  /\ \/ /\ task'[u].art.tmp = task[u].art.tmp + files
        /\ task'[u].art.agents = task[u].art.agents + agents
        /\ task'[u].art.sock = task[u].art.sock \/ agents # 0
     \/ /\ task'[u].art.tmp = task[u].art.tmp /\ files = 0
        /\ task'[u].art.agents = task[u].art.agents /\ agents = 0
        /\ task'[u].art.sock = task[u].art.sock

LEMMA RecordFields ==
  ASSUME LockInv, NEW u \in Tasks, NEW m, Record(u, m), Returned(m),
         NEW files \in {0, 1}, NEW agents \in {0, 1}, Added(m, files, agents)
  PROVE  Recorded(u, m, files, agents)
<1> DEFINE old == task[u].art
           temp == IF Holds(m.opts, "O") THEN task[u].temp \cup {<<u, task[u].idx>>} ELSE task[u].temp
           more == [targets |-> old.targets \cup {m.dest}, dests |-> Append(old.dests, m.dest),
                    tmp |-> old.tmp + (IF m.tmp THEN 1 ELSE 0),
                    agents |-> old.agents + (IF m.agent THEN 1 ELSE 0),
                    images |-> IF m.image # "" THEN Append(old.images, m.image) ELSE old.images,
                    locks |-> old.locks \cup ({m.lock} \ {""}),
                    sock |-> IF m.agent /\ old.agents = 0 THEN m.dest ELSE old.sock]
           art == IF m.res # "mount" THEN old ELSE more
<1>1. task' = [task EXCEPT ![u].idx = @ + 1, ![u].temp = temp, ![u].art = art]
  BY ZenonT(30) DEF Record, LockInv, Types, IsTask
<1>2. PICK te, ar : te = temp /\ ar = art
  BY ZenonT(60)
<1>3. /\ DOMAIN task' = Tasks
      /\ \A t \in Tasks \ {u} : task'[t] = task[t]
      /\ task'[u].pc = task[u].pc /\ task'[u].at = task[u].at /\ task'[u].cmd = task[u].cmd
      /\ task'[u].early = task[u].early
      /\ task'[u].temp = te /\ task'[u].art = ar
  <2>1. task' = [task EXCEPT ![u].idx = @ + 1, ![u].temp = te, ![u].art = ar]
    BY Zenon, <1>1, <1>2
  <2> HIDE DEF temp, art
  <2> QED
    BY <2>1 DEF LockInv, Types, IsTask
<1>4. /\ more.locks = old.locks \cup ({m.lock} \ {""})
      /\ more.tmp = old.tmp + files /\ more.agents = old.agents + agents
      /\ more.sock = old.sock \/ agents # 0
  <2>1. /\ more.locks = old.locks \cup ({m.lock} \ {""})
        /\ more.tmp = old.tmp + (IF m.tmp THEN 1 ELSE 0)
        /\ more.agents = old.agents + (IF m.agent THEN 1 ELSE 0)
        /\ more.sock = IF m.agent /\ old.agents = 0 THEN m.dest ELSE old.sock
    BY Zenon
  <2> HIDE DEF more
  <2>2. files = (IF m.tmp THEN 1 ELSE 0) /\ agents = (IF m.agent THEN 1 ELSE 0)
    BY Zenon DEF Added
  <2>3. more.sock = old.sock \/ agents # 0
    <3>1. CASE m.agent
      <4>1. agents = 1
        BY Zenon, <2>2, <3>1
      <4> QED
        BY <4>1
    <3>2. CASE ~m.agent
      BY Zenon, <2>1, <3>2
    <3> QED
      BY Zenon, <3>1, <3>2
  <2> QED
    BY Zenon, <2>1, <2>2, <2>3
<1>5. CASE m.res = "mount"
  <2>1. ar = more
    BY ZenonT(30), <1>2, <1>5
  <2> HIDE DEF more
  <2> QED
    BY ZenonT(30), <1>2, <1>3, <1>4, <1>5, <2>1 DEF Recorded
<1>6. CASE m.res # "mount"
  <2>1. ar = old /\ files = 0 /\ agents = 0 /\ {m.lock} \ {""} = {}
    BY Zenon, <1>2, <1>6 DEF Added, Returned
  <2> HIDE DEF more
  <2> QED
    BY ZenonT(30), <1>2, <1>3, <1>6, <2>1 DEF Recorded
<1> QED
  BY <1>5, <1>6

\* What a mount adds to the host, the container and the locks, and what is
\* recorded of it.
TaskGains(u, locks, files, agents, made) ==
  /\ DOMAIN task' = Tasks /\ \A t \in Tasks \ {u} : task'[t] = task[t]
  /\ task'[u].pc = task[u].pc /\ task'[u].cmd = task[u].cmd /\ task'[u].early = task[u].early
  /\ task[u].temp \cup made \subseteq task'[u].temp
  /\ Own(u)' = Own(u) \cup locks
  /\ task'[u].art.tmp = task[u].art.tmp + files
  /\ task'[u].art.agents = task[u].art.agents + agents
  /\ task'[u].art.sock = task[u].art.sock \/ agents # 0

HostGains(u, files, agents) ==
  /\ DOMAIN host' = Tasks /\ \A t \in Tasks \ {u} : host'[t] = host[t]
  /\ IsHost(host'[u]) /\ host'[u].bundle = host[u].bundle
  /\ host'[u].tmp = host[u].tmp + files /\ host'[u].agents = host[u].agents + agents

LockGains(u, locks) == lock' = [l \in Locks |-> IF l \in locks THEN u ELSE lock[l]]

CtrGains(u, made) ==
  /\ \A d \in made : d[1] = u
  /\ \/ ctr' = ctr
     \/ task[u].pc = "mounts" /\ ctr' = [ctr EXCEPT ![CtrOf[u]].overlay = made]

\* The task records, and the host gains, the same files and agents.
LEMMA HoldsMore ==
  ASSUME NEW u \in Tasks, Holding(u), task[u].pc \in {"getMounts", "mounts"},
         NEW files \in {0, 1}, NEW agents \in {0, 1},
         files # 0 \/ agents # 0 => task[u].pc = "mounts",
         host[u].tmp \in Int, host[u].agents \in Int,
         Runs(u)' = Runs(u), task'[u].pc = task[u].pc, task'[u].early = task[u].early,
         task'[u].art.tmp = task[u].art.tmp + files,
         task'[u].art.agents = task[u].art.agents + agents,
         task'[u].art.sock = task[u].art.sock \/ agents # 0,
         host'[u].bundle = host[u].bundle, host'[u].tmp = host[u].tmp + files,
         host'[u].agents = host[u].agents + agents
  PROVE  Holding(u)'
<1>1. CASE task[u].pc = "getMounts"
  <2>1. files = 0 /\ agents = 0
    BY <1>1
  <2>2. task[u].art.tmp \in Nat /\ task[u].art.agents \in Nat
    BY Zenon DEF Holding
  <2>3. /\ task'[u].art.tmp = task[u].art.tmp /\ task'[u].art.agents = task[u].art.agents
        /\ host'[u].tmp = host[u].tmp /\ host'[u].agents = host[u].agents
    BY <2>1, <2>2
  <2>4. task'[u].art.sock # NoSock => task[u].art.sock # NoSock
    BY ZenonT(60), <2>1
  <2> QED
    BY ZenonT(30), <1>1, <2>2, <2>3, <2>4 DEF Holding
<1>2. CASE task[u].pc = "mounts"
  BY <1>2 DEF Holding
<1> QED
  BY ZenonT(60), <1>1, <1>2

\* The agents the RUN knows of are stopped: none is left on the host.
LEMMA AgentsGone ==
  ASSUME NEW u \in Tasks, Holding(u), Runs(u), Runs(u)' = Runs(u),
         host[u].tmp \in Int, host[u].agents \in Int,
         task[u].pc = "agents", task'[u].pc = "cleanup", task'[u].early = task[u].early,
         task'[u].art = task[u].art, host'[u].tmp = host[u].tmp,
         host'[u].agents = host[u].agents - task[u].art.agents
  PROVE  Holding(u)'
BY DEF Holding

\* When all of it is recorded, the task holds what it knows of.
LEMMA AddGives ==
  ASSUME LockInv, GiveInv, NEW u \in Tasks, UNCHANGED <<runs, alive>>,
         task[u].pc \in {"getMounts", "mounts"},
         NEW locks, NEW files \in {0, 1}, NEW agents \in {0, 1}, NEW made,
         files # 0 \/ agents # 0 => task[u].pc = "mounts",
         TaskGains(u, locks, files, agents, made), HostGains(u, files, agents),
         LockGains(u, locks), CtrGains(u, made)
  PROVE  GiveInv'
<1> USE DEF TaskGains, HostGains, LockGains, CtrGains
<1>i. /\ TaskInv(u) /\ host[u].tmp \in Int /\ host[u].agents \in Int /\ ctr[CtrOf[u]].mounts \in Int
      /\ IsCtr(ctr[CtrOf[u]]) /\ CtrOf[u] \in Containers /\ DOMAIN ctr = Containers
  BY Zenon, RunAssumption DEF GiveInv, Surroundings
<1>1. /\ DOMAIN ctr' = Containers
      /\ \A c \in Containers \ {CtrOf[u]} : ctr'[c] = ctr[c]
      /\ IsCtr(ctr'[CtrOf[u]]) /\ ctr'[CtrOf[u]].mounts = ctr[CtrOf[u]].mounts
      /\ \/ ctr'[CtrOf[u]].overlay = ctr[CtrOf[u]].overlay
         \/ task[u].pc = "mounts" /\ ctr'[CtrOf[u]].overlay = made
  <2>1. CASE ctr' = ctr
    BY Zenon, <1>i, <2>1
  <2>2. CASE task[u].pc = "mounts" /\ ctr' = [ctr EXCEPT ![CtrOf[u]].overlay = made]
    BY Zenon, <1>i, <2>2 DEF IsCtr
  <2> QED
    BY Zenon, <2>1, <2>2
<1>2. InRun(u)' <=> InRun(u)
  BY DEF InRun
<1>3. LocalStep(u)
  BY Zenon, <1>1 DEF LocalStep
<1>4. Holding(u)'
  <2>1. Runs(u)' = Runs(u)
    BY DEF Runs
  <2>2. /\ task'[u].pc = task[u].pc /\ task'[u].early = task[u].early
        /\ task'[u].art.tmp = task[u].art.tmp + files
        /\ task'[u].art.agents = task[u].art.agents + agents
        /\ task'[u].art.sock = task[u].art.sock \/ agents # 0
        /\ host'[u].bundle = host[u].bundle
        /\ host'[u].tmp = host[u].tmp + files /\ host'[u].agents = host[u].agents + agents
    BY Zenon
  <2> HIDE DEF TaskGains, HostGains, LockGains, CtrGains
  <2>3. Holding(u)
    BY Zenon, <1>i DEF TaskInv
  <2> QED
    BY ZenonT(60), <1>i, <2>1, <2>2, <2>3, HoldsMore
<1>5. Keeps(u)'
  <2>1. \A l \in Locks : lock'[l] = u => lock[l] = u \/ l \in locks
    BY Zenon
  <2> QED
    BY Zenon, <1>i, <2>1 DEF TaskInv, Keeps, Runs
<1>6. Tidy(u)'
  BY Zenon, <1>i, <1>1 DEF TaskInv, Tidy
<1>7. Live(u)'
  BY DEF Live
<1>8. TaskInv(u)'
  BY ZenonT(60), <1>4, <1>5, <1>6, <1>7 DEF TaskInv
<1>9. IsHost(host'[u]) /\ host'[u].tmp \in Int /\ host'[u].agents \in Int
  BY <1>i
<1> QED
  BY ZenonT(60), <1>1, <1>2, <1>3, <1>8, <1>9, RunStays

\* A mount that is recorded is recorded in full.
LEMMA RecordGives ==
  ASSUME LockInv, GiveInv, NEW u \in Tasks, InLoop(u), NEW m, Record(u, m), Returned(m),
         UNCHANGED <<runs, alive>>,
         lock' = [l \in Locks |-> IF l = m.lock THEN u ELSE lock[l]],
         NEW files \in {0, 1}, NEW agents \in {0, 1}, Added(m, files, agents),
         files # 0 \/ agents # 0 => task[u].pc = "mounts",
         HostGains(u, files, agents), ctr' = ctr \/ ctr' = Overlaid(u, m)
  PROVE  GiveInv'
<1>r. Recorded(u, m, files, agents)
  BY ZenonT(30), RecordFields
<1>1. /\ DOMAIN task' = Tasks
      /\ \A t \in Tasks \ {u} : task'[t] = task[t]
      /\ task'[u].pc = task[u].pc /\ task'[u].cmd = task[u].cmd /\ task'[u].early = task[u].early
      /\ task[u].temp \subseteq task'[u].temp
      /\ Holds(m.opts, "O") => <<u, task[u].idx>> \in task'[u].temp
  BY ZenonT(60), <1>r DEF Recorded
<1>2. task[u].pc \in {"getMounts", "mounts"}
  BY DEF InLoop
<1>3. PICK locks : locks = {m.lock} \ {""}
  BY ZenonT(60)
<1>4. Own(u)' = Own(u) \cup locks
  <2>1. task'[u].art.locks = task[u].art.locks \cup locks
    BY ZenonT(30), <1>r, <1>3 DEF Recorded
  <2> QED
    BY <1>1, <2>1 DEF Own
<1>5. lock' = [l \in Locks |-> IF l \in locks THEN u ELSE lock[l]]
  BY ZenonT(30), <1>3, RunAssumption
<1>6. /\ task'[u].art.tmp = task[u].art.tmp + files
      /\ task'[u].art.agents = task[u].art.agents + agents
      /\ task'[u].art.sock = task[u].art.sock \/ agents # 0
  <2>1. task[u].art.tmp \in Nat /\ task[u].art.agents \in Nat
    BY ZenonT(30) DEF GiveInv, TaskInv, Holding
  <2>2. \/ /\ task'[u].art.tmp = task[u].art.tmp + files
           /\ task'[u].art.agents = task[u].art.agents + agents
           /\ task'[u].art.sock = task[u].art.sock \/ agents # 0
        \/ /\ task'[u].art.tmp = task[u].art.tmp /\ files = 0
           /\ task'[u].art.agents = task[u].art.agents /\ agents = 0
           /\ task'[u].art.sock = task[u].art.sock
    BY Zenon, <1>r DEF Recorded
  <2> QED
    BY <2>1, <2>2
<1>7. PICK made : /\ made = {} \/ (made = {<<u, task[u].idx>>} /\ Holds(m.opts, "O"))
                  /\ \/ ctr' = ctr
                     \/ task[u].pc = "mounts" /\ ctr' = [ctr EXCEPT ![CtrOf[u]].overlay = made]
  <2> DEFINE made == IF Holds(m.opts, "O") THEN {<<u, task[u].idx>>} ELSE {}
  <2>1. \/ ctr' = ctr
        \/ task[u].pc = "mounts" /\ ctr' = [ctr EXCEPT ![CtrOf[u]].overlay = made]
    BY <1>2 DEF Overlaid
  <2> QED
    BY Zenon, <2>1
<1>8. (\A d \in made : d[1] = u) /\ made \subseteq task'[u].temp
  <2>1. <<u, task[u].idx>>[1] = u
    BY Zenon
  <2> QED
    BY Zenon, <1>1, <1>7, <2>1
<1>9. TaskGains(u, locks, files, agents, made)
  BY ZenonT(60), <1>1, <1>4, <1>6, <1>8 DEF TaskGains
<1>10. LockGains(u, locks) /\ CtrGains(u, made)
  BY ZenonT(60), <1>5, <1>7, <1>8 DEF LockGains, CtrGains
<1> QED
  BY ZenonT(30), <1>2, <1>9, <1>10, AddGives

\* The mounts that add a lock or an overlay at most.
LEMMA PlainGives ==
  ASSUME LockInv, GiveInv, NEW u \in Tasks, InLoop(u), NEW m, Record(u, m), m.res = "mount",
         m.tmp = FALSE, m.agent = FALSE, UNCHANGED <<runs, alive, host>>, ctr' = Overlaid(u, m),
         lock' = [l \in Locks |-> IF l = m.lock THEN u ELSE lock[l]]
  PROVE  GiveInv'
<1>1. HostGains(u, 0, 0)
  BY DEF GiveInv, Surroundings, HostGains
<1>2. Returned(m) /\ Added(m, 0, 0)
  BY DEF Returned, Added
<1>3. 0 \in {0, 1} /\ (0 # 0 \/ 0 # 0 => task[u].pc = "mounts") /\ UNCHANGED <<runs, alive>>
  OBVIOUS
<1> QED
  BY <1>1, <1>2, <1>3, RecordGives, ZenonT(30)

\* Every flag of a RUN.
LEMMA FlagGives ==
  ASSUME LockInv, GiveInv, NEW u \in Tasks,
         \/ MountBind(u) \/ MountCache(u) \/ MountTmpfs(u) \/ MountSecret(u) \/ MountSSH(u)
         \/ MountUnknown(u)
  PROVE  GiveInv'
<1>0. Runs(u) /\ InLoop(u) /\ UNCHANGED <<runs, alive>>
  BY Zenon DEF MountBind, MountCache, MountTmpfs, MountSecret, MountSSH, MountUnknown, Parses
<1>f. CASE FailSetup(u)
  BY Zenon, <1>0, <1>f, FailGives
<1>l. ASSUME NEW m, m.lock = "", UNCHANGED lock
      PROVE  lock' = [l \in Locks |-> IF l = m.lock THEN u ELSE lock[l]]
  BY Zenon, <1>l, RunAssumption DEF LockInv, Types
<1>1. CASE MountBind(u) /\ ~FailSetup(u)
  <2>1. PICK m : m = GetBindMount(Flag(u), Step(u).contextDir, StagesSeen(u), Images)
    OBVIOUS
  <2>2. m.lock = "" /\ m.tmp = FALSE /\ m.agent = FALSE
    BY ZenonT(30), <2>1 DEF GetBindMount, Failure, Nothing
  <2>3. m.res = "mount" /\ Record(u, m) /\ ctr' = Overlaid(u, m) /\ UNCHANGED <<lock, host>>
    BY ZenonT(30), <1>1, <2>1 DEF MountBind
  <2> QED
    BY ZenonT(60), <1>0, <1>l, <2>2, <2>3, PlainGives
<1>2. CASE MountCache(u) /\ ~FailSetup(u)
  <2>1. PICK m : m = GetCacheMount(Flag(u), StagesSeen(u))
    OBVIOUS
  <2>2. m.tmp = FALSE /\ m.agent = FALSE
    BY ZenonT(30), <2>1 DEF GetCacheMount, Failure, Panic, Nothing
  <2>3. /\ m.res = "mount" /\ Record(u, m) /\ ctr' = Overlaid(u, m) /\ UNCHANGED host
        /\ lock' = [l \in Locks |-> IF l = m.lock THEN u ELSE lock[l]]
    BY ZenonT(30), <1>2, <2>1 DEF MountCache
  <2> QED
    BY ZenonT(60), <1>0, <2>2, <2>3, PlainGives
<1>3. CASE MountTmpfs(u) /\ ~FailSetup(u)
  <2>1. PICK m : m = GetTmpfsMount(Flag(u))
    OBVIOUS
  <2>2. m.lock = "" /\ m.tmp = FALSE /\ m.agent = FALSE
    BY Zenon, <2>1 DEF GetTmpfsMount, Failure, Nothing
  <2>3. m.res = "mount" /\ Record(u, m) /\ ctr' = Overlaid(u, m) /\ UNCHANGED <<lock, host>>
    BY ZenonT(60), <1>3, <2>1 DEF MountTmpfs
  <2> QED
    BY Zenon, <1>0, <1>l, <2>2, <2>3, PlainGives
<1>h. DOMAIN host = Tasks /\ IsHost(host[u]) /\ host[u].tmp \in Int /\ host[u].agents \in Int
  BY DEF GiveInv, Surroundings
<1>4. CASE MountSecret(u) /\ ~FailSetup(u)
  <2>1. PICK m : m = getSecretMount(Flag(u), Secrets)
    OBVIOUS
  <2>2. m.lock = "" /\ m.agent = FALSE
    BY Zenon, <2>1 DEF getSecretMount, Failure, Panic, Nothing
  <2>3. m.tmp => m.res = "mount"
    BY Zenon, <2>1 DEF getSecretMount, Failure, Panic, Nothing
  <2>4. PICK files \in {0, 1} : files = IF m.tmp THEN 1 ELSE 0
    OBVIOUS
  <2>5. /\ Record(u, m) /\ UNCHANGED <<lock, ctr>> /\ InRun(u)
        /\ host' = [host EXCEPT ![u].tmp = @ + files]
    BY ZenonT(60), <1>4, <2>1, <2>4 DEF MountSecret
  <2>6. HostGains(u, files, 0)
    BY <1>h, <2>5 DEF IsHost, HostGains
  <2>7. task[u].pc = "mounts" /\ Returned(m) /\ Added(m, files, 0)
    BY ZenonT(60), <1>0, <2>2, <2>3, <2>4, <2>5 DEF InRun, InLoop, Returned, Added
  <2> QED
    BY ZenonT(30), <1>0, <1>l, <2>2, <2>5, <2>6, <2>7, RecordGives
<1>5. CASE MountSSH(u) /\ ~FailSetup(u)
  <2>1. PICK m : m = getSSHMount(Flag(u), task[u].art.agents, SSHSources)
    OBVIOUS
  <2>2. m.lock = "" /\ m.tmp = FALSE
    BY Zenon, <2>1 DEF getSSHMount, Failure, Nothing
  <2>3. m.agent => m.res = "mount"
    BY Zenon, <2>1 DEF getSSHMount, Failure, Nothing
  <2>4. PICK agents \in {0, 1} : agents = IF m.agent THEN 1 ELSE 0
    OBVIOUS
  <2>5. /\ Record(u, m) /\ UNCHANGED <<lock, ctr>> /\ InRun(u)
        /\ host' = [host EXCEPT ![u].agents = @ + agents]
    BY ZenonT(60), <1>5, <2>1, <2>4 DEF MountSSH
  <2>6. HostGains(u, 0, agents)
    BY <1>h, <2>5 DEF IsHost, HostGains
  <2>7. task[u].pc = "mounts" /\ Returned(m) /\ Added(m, 0, agents)
    BY ZenonT(60), <1>0, <2>2, <2>3, <2>4, <2>5 DEF InRun, InLoop, Returned, Added
  <2> QED
    BY ZenonT(30), <1>0, <1>l, <2>2, <2>5, <2>6, <2>7, RecordGives
<1> QED
  BY ZenonT(60), <1>f, <1>1, <1>2, <1>3, <1>4, <1>5 DEF MountUnknown

\* A RUN begins with nothing of its own.
LEMMA BeginGives ==
  ASSUME LockInv, GiveInv, NEW u \in Tasks, RunCommand(u) \/ BeginRun(u)
  PROVE  GiveInv'
<1> DEFINE next == IF u \in Commands THEN "getMounts" ELSE "mounts"
<1>1. /\ task[u].pc = "idle" /\ UNCHANGED <<runs, alive, lock>>
      /\ task' = [task EXCEPT ![u] = [task[u] EXCEPT !.pc = next, !.at = @ + 1, !.idx = 1]]
  BY ZenonT(30) DEF RunCommand, BeginRun, EnterRun, LockInv, Types, IsTask
<1>2. /\ DOMAIN task' = Tasks
      /\ \A t \in Tasks \ {u} : task'[t] = task[t]
      /\ task'[u].pc = next /\ task'[u].art = task[u].art /\ task'[u].cmd = task[u].cmd
      /\ task'[u].early = task[u].early
  BY <1>1 DEF LockInv, Types, IsTask
<1>i. /\ TaskInv(u) /\ host[u].tmp \in Int /\ host[u].agents \in Int /\ ctr[CtrOf[u]].mounts \in Int
      /\ IsCtr(ctr[CtrOf[u]]) /\ CtrOf[u] \in Containers /\ DOMAIN ctr = Containers
      /\ IsHost(host[u]) /\ DOMAIN host = Tasks
  BY Zenon, RunAssumption DEF GiveInv, Surroundings
<1>3. /\ DOMAIN host' = Tasks /\ \A t \in Tasks \ {u} : host'[t] = host[t]
      /\ IsHost(host'[u]) /\ host'[u].tmp = host[u].tmp /\ host'[u].agents = host[u].agents
      /\ next = "getMounts" => host'[u].bundle = host[u].bundle
      /\ DOMAIN ctr' = Containers /\ \A c \in Containers \ {CtrOf[u]} : ctr'[c] = ctr[c]
      /\ IsCtr(ctr'[CtrOf[u]]) /\ ctr'[CtrOf[u]].overlay = ctr[CtrOf[u]].overlay
      /\ ctr'[CtrOf[u]].mounts = ctr[CtrOf[u]].mounts + (IF u \in Commands THEN 0 ELSE 1)
  <2>1. CASE RunCommand(u)
    BY SMTT(60), <1>i, <2>1 DEF RunCommand, shared
  <2>2. CASE BeginRun(u)
    BY ZenonT(60), <1>i, <2>2 DEF BeginRun, EnterRun, IsHost, IsCtr
  <2> QED
    BY ZenonT(60), <2>1, <2>2
<1>4. ~InRun(u) /\ (InRun(u)' <=> u \notin Commands)
  BY <1>1, <1>2 DEF InRun
<1>5. LocalStep(u)
  BY ZenonT(60), <1>1, <1>2, <1>3 DEF LocalStep
<1>6. Runs(u)' = Runs(u) /\ Own(u)' = Own(u)
  BY ZenonT(60), <1>1, <1>2 DEF Runs, Own
<1>7. Holding(u)'
  BY SMTT(60), <1>i, <1>1, <1>2, <1>3, <1>6 DEF TaskInv, Holding
<1>8. Keeps(u)'
  BY ZenonT(60), <1>i, <1>1, <1>2, <1>6 DEF TaskInv, Keeps, Own
<1>9. Tidy(u)' /\ Live(u)'
  BY SMTT(60), <1>i, <1>1, <1>2, <1>3 DEF TaskInv, Tidy, Live
<1>10. TaskInv(u)'
  BY Zenon, <1>7, <1>8, <1>9 DEF TaskInv
<1>11. host'[u].tmp \in Int /\ host'[u].agents \in Int
  BY Zenon, <1>i, <1>3
<1>12. ctr'[CtrOf[u]].mounts = ctr[CtrOf[u]].mounts + (IF InRun(u)' THEN 1 ELSE 0)
                                                   - (IF InRun(u) THEN 1 ELSE 0)
  BY <1>i, <1>3, <1>4
<1> QED
  BY ZenonT(60), <1>3, <1>5, <1>10, <1>11, <1>12, TaskKeeps

\* The command's flags took locks and images only.
LEMMA BeginCommandGives ==
  ASSUME LockInv, GiveInv, NEW u \in Tasks, BeginCommandRun(u)
  PROVE  GiveInv'
<1>1. /\ task[u].pc = "getMounts" /\ UNCHANGED <<runs, alive, lock>>
      /\ task' = [task EXCEPT ![u] = [task[u] EXCEPT !.pc = "mounts", !.idx = 1, !.cmd = task[u].art,
                                                     !.art = NoArtifacts]]
      /\ host' = [host EXCEPT ![u].bundle = TRUE]
      /\ ctr' = [ctr EXCEPT ![CtrOf[u]].mounts = @ + 1]
  BY DEF BeginCommandRun, EnterRun
<1>2. /\ DOMAIN task' = Tasks
      /\ \A t \in Tasks \ {u} : task'[t] = task[t]
      /\ task'[u].pc = "mounts" /\ task'[u].art = NoArtifacts /\ task'[u].cmd = task[u].art
      /\ task'[u].early = task[u].early
  BY <1>1 DEF LockInv, Types, IsTask
<1>i. /\ TaskInv(u) /\ host[u].tmp \in Int /\ host[u].agents \in Int /\ ctr[CtrOf[u]].mounts \in Int
      /\ IsCtr(ctr[CtrOf[u]]) /\ CtrOf[u] \in Containers /\ DOMAIN ctr = Containers
      /\ IsHost(host[u]) /\ DOMAIN host = Tasks
  BY Zenon, RunAssumption DEF GiveInv, Surroundings
<1>3. /\ DOMAIN host' = Tasks /\ \A t \in Tasks \ {u} : host'[t] = host[t]
      /\ IsHost(host'[u]) /\ host'[u].tmp = host[u].tmp /\ host'[u].agents = host[u].agents
      /\ DOMAIN ctr' = Containers /\ \A c \in Containers \ {CtrOf[u]} : ctr'[c] = ctr[c]
      /\ IsCtr(ctr'[CtrOf[u]]) /\ ctr'[CtrOf[u]].overlay = ctr[CtrOf[u]].overlay
      /\ ctr'[CtrOf[u]].mounts = ctr[CtrOf[u]].mounts + 1
  BY ZenonT(60), <1>i, <1>1 DEF IsHost, IsCtr
<1>4. ~InRun(u) /\ InRun(u)'
  BY ZenonT(60), <1>1, <1>2 DEF InRun
<1>5. LocalStep(u)
  BY ZenonT(60), <1>1, <1>2, <1>3 DEF LocalStep
<1>6. Runs(u)' = Runs(u)
  BY ZenonT(60), <1>1 DEF Runs
<1>7. Holding(u)'
  BY <1>i, <1>1, <1>2, <1>3, <1>6 DEF TaskInv, Holding, NoArtifacts
<1>8. Keeps(u)'
  BY ZenonT(60), <1>i, <1>1, <1>2, <1>6 DEF TaskInv, Keeps, Own, NoArtifacts
<1>9. Tidy(u)' /\ Live(u)'
  BY ZenonT(60), <1>i, <1>1, <1>2, <1>3 DEF TaskInv, Tidy, Live
<1>10. TaskInv(u)'
  BY ZenonT(60), <1>7, <1>8, <1>9 DEF TaskInv
<1> QED
  BY ZenonT(60), <1>i, <1>3, <1>4, <1>5, <1>10, RunEnters

\* The overlays of the volumes are made last, and are the task's to clean up.
LEMMA SetupGives ==
  ASSUME LockInv, GiveInv, NEW u \in Tasks, SetupVolumes(u)
  PROVE  GiveInv'
<1>1. task[u].pc = "mounts" /\ UNCHANGED <<runs, alive, lock, host>>
  BY ZenonT(30) DEF SetupVolumes
<1>2. /\ DOMAIN task' = Tasks
      /\ \A t \in Tasks \ {u} : task'[t] = task[t]
      /\ task'[u].pc = "exec" /\ task'[u].art = task[u].art /\ task'[u].cmd = task[u].cmd
      /\ task'[u].early = task[u].early /\ task'[u].temp = task[u].temp \cup Fresh(u)
      /\ task'[u].at = task[u].at
  BY ZenonT(30), <1>1 DEF SetupVolumes, LockInv, Types, IsTask, Fresh, Mounts
<1>i. /\ TaskInv(u) /\ host[u].tmp \in Int /\ host[u].agents \in Int /\ ctr[CtrOf[u]].mounts \in Int
      /\ IsCtr(ctr[CtrOf[u]]) /\ CtrOf[u] \in Containers /\ DOMAIN ctr = Containers
      /\ IsHost(host[u]) /\ DOMAIN host = Tasks
  BY Zenon, RunAssumption DEF GiveInv, Surroundings
<1>3. /\ DOMAIN ctr' = Containers /\ \A c \in Containers \ {CtrOf[u]} : ctr'[c] = ctr[c]
      /\ IsCtr(ctr'[CtrOf[u]]) /\ ctr'[CtrOf[u]].overlay = Fresh(u)
      /\ ctr'[CtrOf[u]].mounts = ctr[CtrOf[u]].mounts
  BY ZenonT(30), <1>i, <1>1 DEF SetupVolumes, IsCtr, Overlays, Fresh, Mounts
<1>4. InRun(u) /\ InRun(u)'
  BY ZenonT(60), <1>1, <1>2 DEF InRun
<1>5. LocalStep(u)
  <2>1. \A d \in Fresh(u) : d[1] = u
    BY SMTT(60) DEF Fresh
  <2> QED
    BY ZenonT(60), <1>i, <1>1, <1>2, <1>3, <2>1 DEF LocalStep
<1>6. Runs(u)' = Runs(u) /\ Own(u)' = Own(u)
  BY ZenonT(60), <1>1, <1>2 DEF Runs, Own
<1>7. Holding(u)'
  BY ZenonT(60), <1>i, <1>1, <1>2, <1>6 DEF TaskInv, Holding
<1>8. Keeps(u)'
  BY ZenonT(60), <1>i, <1>1, <1>2, <1>6 DEF TaskInv, Keeps
<1>9. Tidy(u)'
  BY Zenon, <1>2, <1>3 DEF Tidy
<1>10. Live(u)'
  <2>1. Step(u)' = Step(u)
    BY ZenonT(60), <1>1, <1>2 DEF Step
  <2>2. Fresh(u)' = Fresh(u)
    BY <2>1 DEF Fresh
  <2> QED
    BY Zenon, <1>3, <2>2 DEF Live
<1>11. TaskInv(u)'
  BY ZenonT(60), <1>7, <1>8, <1>9, <1>10 DEF TaskInv
<1>12. IsHost(host'[u]) /\ host'[u].tmp \in Int /\ host'[u].agents \in Int
  BY Zenon, <1>i, <1>1
<1> QED
  BY ZenonT(60), <1>3, <1>4, <1>5, <1>11, <1>12, RunStays

\* cleanupTempVolumes takes every overlay of the task away.
LEMMA CommandEndsGives ==
  ASSUME LockInv, GiveInv, NEW u \in Tasks, CommandEnds(u)
  PROVE  GiveInv'
<1>1. PICK images :
        /\ task[u].pc = "exec" /\ UNCHANGED <<runs, alive, lock, host>>
        /\ task' = [task EXCEPT ![u].pc = "agents", ![u].temp = {}, ![u].spec = {},
                                ![u].art.images = images]
        /\ ctr' = [ctr EXCEPT ![CtrOf[u]].overlay = @ \ task[u].temp]
  BY ZenonT(30) DEF CommandEnds
<1>2. /\ DOMAIN task' = Tasks
      /\ \A t \in Tasks \ {u} : task'[t] = task[t]
      /\ task'[u].pc = "agents" /\ task'[u].cmd = task[u].cmd /\ task'[u].early = task[u].early
      /\ task'[u].art.tmp = task[u].art.tmp /\ task'[u].art.agents = task[u].art.agents
      /\ task'[u].art.sock = task[u].art.sock /\ task'[u].art.locks = task[u].art.locks
  BY ZenonT(60), <1>1 DEF LockInv, Types, IsTask, IsArt
<1>i. /\ TaskInv(u) /\ host[u].tmp \in Int /\ host[u].agents \in Int /\ ctr[CtrOf[u]].mounts \in Int
      /\ IsCtr(ctr[CtrOf[u]]) /\ CtrOf[u] \in Containers /\ DOMAIN ctr = Containers
      /\ IsHost(host[u]) /\ DOMAIN host = Tasks
  BY Zenon, RunAssumption DEF GiveInv, Surroundings
<1>3. /\ DOMAIN ctr' = Containers /\ \A c \in Containers \ {CtrOf[u]} : ctr'[c] = ctr[c]
      /\ IsCtr(ctr'[CtrOf[u]]) /\ ctr'[CtrOf[u]].overlay = ctr[CtrOf[u]].overlay \ task[u].temp
      /\ ctr'[CtrOf[u]].mounts = ctr[CtrOf[u]].mounts
  BY ZenonT(60), <1>i, <1>1 DEF IsCtr
<1>4. InRun(u) /\ InRun(u)'
  BY ZenonT(60), <1>1, <1>2 DEF InRun
<1>5. LocalStep(u)
  BY ZenonT(60), <1>i, <1>1, <1>2, <1>3 DEF LocalStep
<1>6. Runs(u)' = Runs(u) /\ Own(u)' = Own(u)
  BY Zenon, <1>1, <1>2 DEF Runs, Own
<1>7. Holding(u)'
  BY ZenonT(60), <1>i, <1>1, <1>2, <1>6 DEF TaskInv, Holding
<1>8. Keeps(u)'
  BY SMTT(60), <1>i, <1>1, <1>2, <1>6 DEF TaskInv, Keeps
<1>9. Tidy(u)' /\ Live(u)'
  BY ZenonT(60), <1>i, <1>1, <1>2, <1>3 DEF TaskInv, Tidy, Live
<1>10. TaskInv(u)'
  BY ZenonT(60), <1>7, <1>8, <1>9 DEF TaskInv
<1>11. IsHost(host'[u]) /\ host'[u].tmp \in Int /\ host'[u].agents \in Int
  BY ZenonT(60), <1>i, <1>1
<1> QED
  BY ZenonT(60), <1>3, <1>4, <1>5, <1>10, <1>11, RunStays

\* Only the agents of the RUN, or a connection, change on the host.
LEMMA AgentsGive ==
  ASSUME LockInv, GiveInv, NEW u \in Tasks, ShutdownAgents(u) \/ AgentStep(u)
  PROVE  GiveInv'
<1>1. UNCHANGED <<runs, alive, lock, ctr>>
  BY DEF ShutdownAgents, AgentStep, Accept, ServeAgent, CloseConnection
<1>i. /\ TaskInv(u) /\ host[u].tmp \in Int /\ host[u].agents \in Int /\ ctr[CtrOf[u]].mounts \in Int
      /\ IsCtr(ctr[CtrOf[u]]) /\ CtrOf[u] \in Containers /\ DOMAIN ctr = Containers
      /\ IsHost(host[u]) /\ DOMAIN host = Tasks /\ DOMAIN task = Tasks
  BY ZenonT(30), RunAssumption DEF GiveInv, Surroundings, LockInv, Types
<1>2. CASE ShutdownAgents(u)
  <2>1. /\ DOMAIN task' = Tasks
        /\ \A t \in Tasks \ {u} : task'[t] = task[t]
        /\ task[u].pc = "agents" /\ task'[u].pc = "cleanup" /\ task'[u].cmd = task[u].cmd
        /\ task'[u].early = task[u].early /\ task'[u].art = task[u].art
    BY <1>2 DEF ShutdownAgents, LockInv, Types, IsTask
  <2>2. /\ DOMAIN host' = Tasks /\ \A t \in Tasks \ {u} : host'[t] = host[t]
        /\ IsHost(host'[u]) /\ host'[u].tmp = host[u].tmp
        /\ host'[u].agents = host[u].agents - task[u].art.agents
    BY ZenonT(60), <1>2, <1>i DEF ShutdownAgents, IsHost
  <2>3. LocalStep(u)
    BY ZenonT(60), <1>1, <1>i, <2>1, <2>2 DEF LocalStep
  <2>4. Runs(u)' = Runs(u) /\ Own(u)' = Own(u) /\ InRun(u) /\ InRun(u)'
    BY ZenonT(60), <1>1, <2>1 DEF Runs, Own, InRun
  <2>5. Runs(u)
    BY Zenon, <1>2 DEF ShutdownAgents
  <2>6. Holding(u)'
    <3>1. Holding(u)
      BY Zenon, <1>i DEF TaskInv
    <3> QED
      BY ZenonT(60), <1>i, <2>1, <2>2, <2>4, <2>5, <3>1, AgentsGone
  <2>7. Keeps(u)' /\ Tidy(u)' /\ Live(u)'
    BY ZenonT(60), <1>1, <1>i, <2>1, <2>4 DEF TaskInv, Keeps, Tidy, Live
  <2>8. TaskInv(u)' /\ host'[u].agents \in Int
    <3>1. task[u].art.agents \in Nat
      BY ZenonT(60), <1>i DEF TaskInv, Holding
    <3>2. host'[u].agents \in Int
      BY <1>i, <2>2, <3>1
    <3> QED
      BY ZenonT(60), <2>6, <2>7, <3>2 DEF TaskInv
  <2> QED
    BY ZenonT(60), <1>1, <1>i, <2>2, <2>3, <2>4, <2>8, RunStays
<1>3. CASE AgentStep(u)
  <2>1. PICK conn : UNCHANGED task /\ host' = [host EXCEPT ![u].conn = conn]
    BY <1>3 DEF AgentStep, Accept, ServeAgent, CloseConnection
  <2>2. /\ DOMAIN host' = Tasks /\ \A t \in Tasks \ {u} : host'[t] = host[t]
        /\ IsHost(host'[u]) /\ host'[u].tmp = host[u].tmp /\ host'[u].bundle = host[u].bundle
        /\ host'[u].agents = host[u].agents
    BY <1>i, <2>1 DEF IsHost
  <2>3. LocalStep(u)
    BY ZenonT(60), <1>1, <1>i, <2>1, <2>2 DEF LocalStep
  <2>4. Runs(u)' = Runs(u) /\ Own(u)' = Own(u) /\ (InRun(u)' <=> InRun(u)) /\ Fresh(u)' = Fresh(u)
    BY <1>1, <2>1 DEF Runs, Own, InRun, Fresh, Step
  <2>5. Holding(u)'
    BY ZenonT(60), <1>i, <2>1, <2>2, <2>4 DEF TaskInv, Holding
  <2>6. Keeps(u)' /\ Tidy(u)' /\ Live(u)'
    BY ZenonT(60), <1>1, <1>i, <2>1, <2>4 DEF TaskInv, Keeps, Tidy, Live, Alone
  <2>7. TaskInv(u)'
    BY ZenonT(60), <2>5, <2>6 DEF TaskInv
  <2> QED
    BY ZenonT(60), <1>1, <1>i, <2>2, <2>3, <2>4, <2>7, RunStays
<1> QED
  BY ZenonT(60), <1>2, <1>3

\* The end of a RUN gives everything back unless it is cut short.
LEMMA EndGives ==
  ASSUME LockInv, GiveInv, NEW u \in Tasks, Runs(u), UNCHANGED <<runs, alive>>,
         task[u].pc \in {"agents", "cleanup"},
         NEW early \in BOOLEAN, NEW newHost, NEW newCtr, NEW unlocked \in SUBSET task[u].art.locks,
         EndRun(u, early, newHost, newCtr, unlocked),
         newHost = IF early THEN host ELSE [host EXCEPT ![u].tmp = @ - task[u].art.tmp],
         NEW rootfs, newCtr = ctr \/ newCtr = [ctr EXCEPT ![CtrOf[u]].rootfs = rootfs],
         ~early => task[u].pc = "cleanup" /\ unlocked = task[u].art.locks
  PROVE  GiveInv'
<1>1. /\ DOMAIN task' = Tasks
      /\ \A t \in Tasks \ {u} : task'[t] = task[t]
      /\ task'[u].pc \in {"idle", "done", "failed"}
      /\ task'[u].art = NoArtifacts /\ task'[u].cmd = NoArtifacts
      /\ task'[u].early = (task[u].early \/ early)
  <2> PICK end \in {IF task[u].at < Len(runs[u]) THEN "idle" ELSE "done", "failed"} :
         task' = [task EXCEPT ![u].pc = end, ![u].art = NoArtifacts, ![u].cmd = NoArtifacts,
                              ![u].early = @ \/ early]
    BY Zenon DEF EndRun
  <2> QED
    BY DEF LockInv, Types, IsTask
<1>i. /\ TaskInv(u) /\ host[u].tmp \in Int /\ host[u].agents \in Int /\ ctr[CtrOf[u]].mounts \in Int
      /\ IsCtr(ctr[CtrOf[u]]) /\ CtrOf[u] \in Containers /\ DOMAIN ctr = Containers
      /\ IsHost(host[u]) /\ DOMAIN host = Tasks
  BY Zenon, RunAssumption DEF GiveInv, Surroundings
<1>n. task[u].art.tmp \in Nat /\ task[u].art.agents \in Nat
  BY <1>i DEF TaskInv, Holding
<1>2. /\ DOMAIN host' = Tasks /\ \A t \in Tasks \ {u} : host'[t] = host[t]
      /\ IsHost(host'[u]) /\ host'[u].agents = host[u].agents /\ ~host'[u].bundle
      /\ host'[u].tmp = host[u].tmp - (IF early THEN 0 ELSE task[u].art.tmp)
  <2>1. host' = [newHost EXCEPT ![u].bundle = FALSE]
    BY DEF EndRun, LeaveRun
  <2>2. CASE early
    BY <1>i, <2>1, <2>2 DEF IsHost
  <2>3. CASE ~early
    BY ZenonT(60), <1>i, <2>1, <2>3 DEF IsHost
  <2> QED
    BY ZenonT(60), <2>2, <2>3
<1>3. /\ DOMAIN ctr' = Containers /\ \A c \in Containers \ {CtrOf[u]} : ctr'[c] = ctr[c]
      /\ IsCtr(ctr'[CtrOf[u]]) /\ ctr'[CtrOf[u]].overlay = ctr[CtrOf[u]].overlay
      /\ ctr'[CtrOf[u]].mounts = ctr[CtrOf[u]].mounts - 1
  <2>1. ctr' = [newCtr EXCEPT ![CtrOf[u]].mounts = @ - 1]
    BY DEF EndRun, LeaveRun
  <2>2. CASE newCtr = ctr
    BY Zenon, <1>i, <2>1, <2>2 DEF IsCtr
  <2>3. CASE newCtr = [ctr EXCEPT ![CtrOf[u]].rootfs = rootfs]
    BY ZenonT(60), <1>i, <2>1, <2>3 DEF IsCtr
  <2> QED
    BY ZenonT(60), <2>2, <2>3
<1>4. InRun(u) /\ ~InRun(u)'
  BY Zenon, <1>1 DEF InRun
<1>5. LocalStep(u)
  BY ZenonT(60), <1>1, <1>2, <1>3 DEF LocalStep, EndRun, Unlock
<1>6. Runs(u)'
  BY DEF Runs
<1>7. Holding(u)'
  <2>1. /\ NoArtifacts.tmp = 0 /\ NoArtifacts.agents = 0 /\ NoArtifacts.sock = NoSock
    BY DEF NoArtifacts
  <2>2. host[u].agents >= 0
    BY ZenonT(60), <1>i DEF TaskInv, Holding
  <2>3. ~task[u].early /\ ~early => host[u].tmp = task[u].art.tmp /\ host[u].agents = 0
    BY <1>i DEF TaskInv, Holding
  <2>4. ~task'[u].early => host'[u].tmp = 0 /\ host'[u].agents = 0
    <3>1. ~task'[u].early => ~task[u].early /\ ~early
      BY <1>1, Zenon
    <3>2. CASE ~task[u].early /\ ~early
      <4>1. host'[u].tmp = host[u].tmp - task[u].art.tmp /\ host'[u].agents = host[u].agents
        BY <1>2, <3>2
      <4> QED
        BY SMTT(60), <1>n, <2>3, <3>2, <4>1
    <3> QED
      BY <3>1, <3>2
  <2>5. host'[u].agents >= 0 /\ ~host'[u].bundle
    BY <1>2, <2>2
  <2>6. /\ task'[u].pc \in {"idle", "done", "failed"}
        /\ task'[u].art.tmp = 0 /\ task'[u].art.agents = 0 /\ task'[u].art.sock = NoSock
    BY <1>1, <2>1
  <2> QED
    BY SMTT(60), <2>4, <2>5, <2>6 DEF Holding
<1>8. Keeps(u)'
  <2>1. NoArtifacts.locks = {} /\ Own(u)' = {}
    BY <1>1 DEF NoArtifacts, Own
  <2>2. ~early => \A l \in Locks : lock'[l] = u => lock[l] = u /\ l \notin Own(u)
    BY Zenon, RunAssumption DEF EndRun, Unlock, Own
  <2>3. ~task[u].early => \A l \in Locks : lock[l] = u => l \in Own(u)
    BY Zenon, <1>i DEF TaskInv, Keeps
  <2> QED
    BY ZenonT(60), <1>1, <2>1, <2>2, <2>3 DEF Keeps
<1>9. Tidy(u)' /\ Live(u)'
  BY ZenonT(60), <1>i, <1>1, <1>3 DEF TaskInv, Tidy, Live
<1>10. TaskInv(u)' /\ host'[u].tmp \in Int
  <2>1. host'[u].tmp \in Int
    BY <1>i, <1>n, <1>2
  <2> QED
    BY ZenonT(60), <1>7, <1>8, <1>9, <2>1 DEF TaskInv
<1>11. host'[u].agents \in Int
  BY Zenon, <1>i, <1>2
<1>12. ctr'[CtrOf[u]].mounts = ctr[CtrOf[u]].mounts + (IF InRun(u)' THEN 1 ELSE 0)
                                                   - (IF InRun(u) THEN 1 ELSE 0)
  BY <1>i, <1>3, <1>4
<1> QED
  BY ZenonT(60), <1>2, <1>3, <1>5, <1>10, <1>11, <1>12, TaskKeeps

\* A process that is gone leaves the others, and every container, alone.
LEMMA GoneGives ==
  ASSUME LockInv, GiveInv, NEW p, Gone(p)
  PROVE  GiveInv'
<1>1. UNCHANGED <<runs, task, ctr>> /\ alive' = alive \ {p}
  BY ZenonT(30) DEF Gone
<1>2. /\ DOMAIN host' = Tasks
      /\ \A t \in Tasks : /\ IsHost(host'[t]) /\ host'[t].bundle = host[t].bundle
                          /\ host'[t].tmp = host[t].tmp /\ host'[t].agents \in {host[t].agents, 0}
                          /\ ProcOf[t] # p => host'[t] = host[t]
  BY Zenon DEF Gone, GiveInv, Surroundings, IsHost
<1>3. ASSUME NEW t \in Tasks PROVE TaskInv(t)'
  <2>i. TaskInv(t) /\ host[t].agents \in Int
    BY DEF GiveInv, Surroundings
  <2>1. Runs(t)' => Runs(t) /\ host'[t] = host[t]
    BY ZenonT(60), <1>1, <1>2 DEF Runs
  <2>2. Own(t)' = Own(t) /\ Step(t)' = Step(t)
    BY <1>1 DEF Own, Step
  <2>3. Holding(t)'
    BY ZenonT(30), <1>1, <1>2, <2>i, <2>1 DEF TaskInv, Holding
  <2>4. Keeps(t)'
    <3>1. \A l \in Locks : lock'[l] = t => lock[l] = t
      BY Zenon, RunAssumption DEF Gone
    <3> QED
      BY ZenonT(30), <1>1, <2>i, <2>1, <2>2, <3>1 DEF TaskInv, Keeps
  <2>5. Tidy(t)'
    BY Zenon, <1>1, <2>i DEF TaskInv, Tidy
  <2>6. Live(t)'
    BY ZenonT(60), <1>1, <2>i, <2>2 DEF TaskInv, Live, Fresh, Alone
  <2> QED
    BY ZenonT(60), <2>3, <2>4, <2>5, <2>6 DEF TaskInv
<1>4. Surroundings'
  BY SMTT(60), <1>1, <1>2 DEF GiveInv, Surroundings
<1>5. MountsBalanced'
  BY <1>1 DEF GiveInv, MountsBalanced, InRun
<1> QED
  BY <1>3, <1>4, <1>5 DEF GiveInv

\* Every step keeps the balance: one case per action.
LEMMA NextGives ==
  ASSUME LockInv, GiveInv, [Next]_vars
  PROVE  GiveInv'
<1>1. CASE Terminating \/ UNCHANGED vars
  <2>1. UNCHANGED <<runs, task, lock, host, ctr, alive>>
    BY <1>1 DEF Terminating, vars
  <2>2. \A t \in Tasks : Step(t)' = Step(t)
    BY Zenon, <2>1 DEF Step
  <2>3. \A t \in Tasks : TaskInv(t)'
    <3> SUFFICES ASSUME NEW t \in Tasks PROVE TaskInv(t)'
      BY Zenon
    <3>0. TaskInv(t) /\ (Runs(t)' <=> Runs(t))
      BY Zenon, <2>1, <2>2 DEF GiveInv, Runs
    <3>1. Holding(t) => Holding(t)'
      BY ZenonT(30), <2>1, <3>0 DEF Holding
    <3>2. Keeps(t) => Keeps(t)'
      BY ZenonT(30), <2>1, <3>0 DEF Keeps, Own
    <3>3. (Tidy(t) => Tidy(t)') /\ (Live(t) => Live(t)')
      BY ZenonT(30), <2>1, <2>2 DEF Tidy, Live, Alone, Fresh
    <3> QED
      BY ZenonT(60), <3>0, <3>1, <3>2, <3>3 DEF TaskInv
  <2>4. Surroundings' /\ MountsBalanced'
    BY Zenon, <2>1 DEF GiveInv, Surroundings, MountsBalanced, InRun
  <2> QED
    BY Zenon, <2>3, <2>4 DEF GiveInv
<1>2. ASSUME NEW t \in Tasks, TaskStep(t)
      PROVE  GiveInv'
  <2>1. CASE DuplicateVolume(t)
    BY Zenon, <2>1, FailGives DEF DuplicateVolume
  <2>2. CASE ParserPanics(t)
    BY <2>2, GoneGives DEF ParserPanics
  <2>3. CASE CleanupRunMounts(t)
    <3>1. PICK art : art = task[t].art
      OBVIOUS
    <3>2. PICK early \in BOOLEAN : early = (art.images # <<>>)
      BY Zenon
    <3>3. PICK rootfs : rootfs = ctr[CtrOf[t]].rootfs \ art.targets
      BY Zenon
    <3>4. PICK newHost : newHost = IF early THEN host ELSE [host EXCEPT ![t].tmp = @ - art.tmp]
      BY Zenon
    <3>5. PICK newCtr : newCtr = IF early THEN ctr ELSE [ctr EXCEPT ![CtrOf[t]].rootfs = rootfs]
      BY Zenon
    <3>6. PICK unlocked : unlocked = IF early THEN {} ELSE art.locks
      BY Zenon
    <3>7. /\ Runs(t) /\ UNCHANGED <<runs, alive>> /\ task[t].pc = "cleanup"
          /\ EndRun(t, early, newHost, newCtr, unlocked)
      BY ZenonT(60), <2>3, <3>1, <3>2, <3>3, <3>4, <3>5, <3>6 DEF CleanupRunMounts
    <3> QED
      BY ZenonT(60), <3>1, <3>4, <3>5, <3>6, <3>7, EndGives
  <2> QED
    BY ZenonT(60), <1>2, <2>1, <2>2, <2>3, BeginGives, BeginCommandGives, FlagGives, SetupGives,
       CommandEndsGives, AgentsGive
    DEF TaskStep
<1>3. ASSUME NEW t \in Tasks, SetupFails(t)
      PROVE  GiveInv'
  BY <1>3, FailGives DEF SetupFails
<1>4. ASSUME NEW t \in Tasks, CleanupFails(t)
      PROVE  GiveInv'
  <2>1. /\ Runs(t) /\ UNCHANGED <<runs, alive>> /\ task[t].pc \in {"agents", "cleanup"}
        /\ EndRun(t, TRUE, host, ctr, {})
    BY Zenon, <1>4 DEF CleanupFails
  <2>2. /\ {} \in SUBSET task[t].art.locks /\ TRUE \in BOOLEAN
        /\ host = IF TRUE THEN host ELSE [host EXCEPT ![t].tmp = @ - task[t].art.tmp]
    OBVIOUS
  <2> QED
    BY ZenonT(60), <2>1, <2>2, EndGives
<1>5. ASSUME NEW t \in Tasks, AgentStep(t)
      PROVE  GiveInv'
  BY ZenonT(60), <1>5, AgentsGive
<1>6. ASSUME NEW p \in Procs, Exit(p) \/ Crash(p)
      PROVE  GiveInv'
  BY <1>6, GoneGives DEF Exit, Crash
<1> QED
  BY ZenonT(60), <1>1, <1>2, <1>3, <1>4, <1>5, <1>6 DEF Next

\* At the start nothing is taken.
LEMMA InitGives ==
  ASSUME Init
  PROVE  GiveInv
<1>1. \A t \in Tasks : task[t] = Idle
  BY Zenon DEF Init
<1>2. /\ Idle.pc = "idle" /\ Idle.art.tmp = 0 /\ Idle.art.agents = 0 /\ Idle.art.sock = NoSock
      /\ Idle.art.locks = {} /\ Idle.cmd.locks = {}
  BY ZenonT(60) DEF Idle, NoArtifacts
<1>3. Surroundings
  BY DEF Init, Surroundings, IsHost, IsCtr
<1>4. ASSUME NEW t \in Tasks PROVE TaskInv(t)
  <2>1. /\ host[t].bundle = FALSE /\ host[t].tmp = 0 /\ host[t].agents = 0
        /\ ctr[CtrOf[t]].overlay = {} /\ \A l \in Locks : lock[l] = NoTask
    BY ZenonT(30), RunAssumption DEF Init
  <2>2. Holding(t)
    BY <1>1, <1>2, <2>1 DEF Holding
  <2>3. Keeps(t)
    BY ZenonT(30), <1>1, <1>2, <2>1, RunAssumption DEF Keeps, Own
  <2>4. Tidy(t) /\ Live(t)
    BY ZenonT(60), <1>1, <1>2, <2>1 DEF Tidy, Live
  <2> QED
    BY <2>2, <2>3, <2>4 DEF TaskInv
<1>5. MountsBalanced
  <2> SUFFICES ASSUME NEW c \in Containers PROVE ctr[c].mounts = Cardinality(Inside(c))
    BY DEF MountsBalanced, Inside
  <2>1. Inside(c) = {} /\ ctr[c].mounts = 0
    BY Zenon, <1>1, <1>2 DEF Inside, InRun, Init
  <2> QED
    BY ZenonT(60), <2>1, FS_EmptySet
<1> QED
  BY ZenonT(60), <1>3, <1>4, <1>5 DEF GiveInv

\* The invariant of what RUNs take.
LEMMA GiveInvariant == Spec => []GiveInv
<1>1. LockInv /\ GiveInv /\ [Next]_vars => GiveInv'
  BY ZenonT(60), NextGives
<1> QED
  BY <1>1, InitGives, LockInvariant, PTL DEF Spec

\* What a RUN takes on the host, in its container and in the count of mounts it
\* gives back, on every path, whatever fails and whoever else is at work, for
\* any number of tasks, processes and containers and any flags
\* (cleanupRunMounts, and the deferred calls of Run).
THEOREM RunsGiveBack == Spec => []GivesBack
<1>1. GiveInv => GivesBack
  <2> SUFFICES ASSUME GiveInv PROVE RunLeavesNothing
    BY DEF GivesBack, GiveInv
  <2> SUFFICES ASSUME NEW t \in Tasks, Runs(t), task[t].pc \in {"idle", "done"}, ~task[t].early
               PROVE  /\ host[t].tmp = 0 /\ host[t].agents = 0 /\ ~host[t].bundle
                      /\ \A l \in Locks : lock[l] # t
                      /\ \A d \in ctr[CtrOf[t]].overlay : d[1] # t
    BY DEF RunLeavesNothing
  <2>1. Holding(t) /\ Keeps(t) /\ Tidy(t)
    BY Zenon DEF GiveInv, TaskInv
  <2>2. host[t].tmp = 0 /\ host[t].agents = 0 /\ ~host[t].bundle
    BY Zenon, <2>1 DEF Holding
  <2>3. \A l \in Locks : lock[l] # t
    BY Zenon, <2>1 DEF Keeps
  <2>4. \A d \in ctr[CtrOf[t]].overlay : d[1] # t
    BY ZenonT(60), <2>1 DEF Tidy
  <2> QED
    BY ZenonT(60), <2>2, <2>3, <2>4
<1> QED
  BY <1>1, GiveInvariant, PTL

\* The overlays and the agent a command was given are there while it runs,
\* although other RUNs clean up (CleanupContent, AgentServer.Shutdown).
THEOREM SurroundingsStay == Spec => []SurroundingsLive
<1>1. GiveInv => SurroundingsLive
  <2> SUFFICES ASSUME GiveInv PROVE OverlayLive /\ SocketServed
    BY Zenon DEF SurroundingsLive
  <2>1. OverlayLive
    BY ZenonT(60) DEF GiveInv, TaskInv, Live, Alone, Fresh, OverlayLive
  <2>2. SocketServed
    <3> SUFFICES ASSUME NEW t \in Tasks, Runs(t), task[t].pc = "exec", task[t].art.sock # NoSock
                 PROVE  host[t].agents > 0
      BY DEF SocketServed
    <3>1. Holding(t) /\ host[t].agents \in Int
      BY DEF GiveInv, TaskInv, Surroundings
    <3> QED
      BY <3>1 DEF Holding
  <2> QED
    BY <2>1, <2>2
<1> QED
  BY <1>1, GiveInvariant, PTL
=============================================================================
