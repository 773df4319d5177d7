------------------------------ MODULE RunMounts -------------------------------
(***************************************************************************)
(* Builder.Run and what it owns for the time of one RUN: the bundle, the   *)
(* container's mount, cache locks, mounted images, ssh agents, secret      *)
(* files, overlays and mount points (run_linux.go, run_common.go,          *)
(* internal/parse, pkg/overlay, pkg/sshagent, cmd/buildah/run.go).         *)
(*                                                                         *)
(* A task is a goroutine of a build running the RUN steps of one stage, or *)
(* one `buildah run` command.  Tasks of one process share its fate: the    *)
(* locks of a process that exits or is killed are free again, everything   *)
(* else it leaves on the host stays.                                       *)
(***************************************************************************)
EXTENDS MountFlags

CONSTANTS
  Tasks, Procs, Containers, Locks, Images,
  ProcOf, CtrOf,   \* the process that runs a task, and the task's container
  Commands,        \* the tasks that are `buildah run` commands
  Stages,          \* the names a build can mount without mounting an image
  Secrets,         \* id |-> "env" or "file"
  SSHSources,      \* the ids of --ssh
  Content,         \* the paths every container's image has content at
  Workloads,       \* the possible RUN steps of the tasks: [Tasks -> Seq(step)]
  MayCrash,        \* the processes that may be killed
  SetupMayFail,    \* a store or file system error may hit the set-up of a RUN
  CleanupMayFail   \* ... or its clean-up

NoTask == "no task"
NoSock == Path("")

\* Every task has one of the containers.  The RUN steps of the tasks are
\* sequences, with sequences of flags; only a `buildah run` has flags of its
\* own; every locked cache has its lock file.
IsSeq(s) == Len(s) \in Nat /\ DOMAIN s = 1 .. Len(s)
HasLock(f) == LastValue(f, {"sharing"}) = "locked" /\ HasKey(f, TargetKeys) => CacheLock(f) \in Locks

ASSUME RunAssumption ==
  /\ NoTask \notin Tasks /\ "" \notin Locks
  /\ IsFiniteSet(Tasks) /\ CtrOf \in [Tasks -> Containers]
  /\ \A w \in Workloads : \A t \in Tasks :
       /\ IsSeq(w[t])
       /\ \A i \in DOMAIN w[t] :
            /\ IsSeq(w[t][i].mounts) /\ \A j \in DOMAIN w[t][i].mounts : HasLock(w[t][i].mounts[j])
            /\ IsSeq(w[t][i].cmdMounts)
            /\ \A j \in DOMAIN w[t][i].cmdMounts : HasLock(w[t][i].cmdMounts[j])
            /\ t \notin Commands => w[t][i].cmdMounts = <<>>

VARIABLES
  runs,         \* the RUN steps of every task, chosen at the start
  task,         \* the state of every task: [pc, at, idx, art, cmd, spec, temp, early]
  lock,         \* the task that holds a cache lock
  imageMounts,  \* how often each image is mounted
  host,         \* what a task has on the host: [bundle, tmp, agents, conn]
  ctr,          \* every container: [mounts, overlay, rootfs]
  alive         \* the processes that run

shared == <<imageMounts, host, ctr>>
vars == <<runs, task, lock, imageMounts, host, ctr, alive>>

NoArtifacts == [targets |-> {}, dests |-> <<>>, tmp |-> 0, agents |-> 0,
                images |-> <<>>, locks |-> {}, sock |-> NoSock]

Idle == [pc |-> "idle", at |-> 0, idx |-> 1, art |-> NoArtifacts, cmd |-> NoArtifacts,
         spec |-> {}, temp |-> {}, early |-> FALSE]

Init ==
  /\ runs \in Workloads
  /\ task = [t \in Tasks |-> Idle]
  /\ lock = [l \in Locks |-> NoTask]
  /\ imageMounts = [i \in Images |-> 0]
  /\ host = [t \in Tasks |-> [bundle |-> FALSE, tmp |-> 0, agents |-> 0, conn |-> "none"]]
  /\ ctr = [c \in Containers |-> [mounts |-> 0, overlay |-> {}, rootfs |-> Content]]
  /\ alive = Procs

-----------------------------------------------------------------------------
Step(t) == runs[t][task[t].at]
InRun(t) == task[t].pc \in {"mounts", "volumes", "exec", "agents", "cleanup"}
Runs(t) == ProcOf[t] \in alive

\* The flags of the loop the task is in: getMounts or runSetupRunMounts.
Mounts(t) == IF task[t].pc = "getMounts" THEN Step(t).cmdMounts ELSE Step(t).mounts
Flag(t) == Mounts(t)[task[t].idx]
InLoop(t) == task[t].pc \in {"getMounts", "mounts"} /\ task[t].idx <= Len(Mounts(t))
StagesSeen(t) == IF task[t].pc = "getMounts" THEN {} ELSE Stages

\* mountType is declared outside the loop, so a flag inherits the type of the
\* one before it.
TypeAt(flags, i) ==
  LET typed == {j \in 1 .. i : MountType(flags[j], NoArg) # NoArg}
  IN IF typed = {} THEN "bind"
     ELSE MountType(flags[CHOOSE j \in typed : \A k \in typed : k <= j], NoArg)

FlagType(t) == TypeAt(Mounts(t), task[t].idx)

\* UnlockLockArray
Unlock(locks) == lock' = [l \in Locks |-> IF l \in locks THEN NoTask ELSE lock[l]]

\* Variant: the bundle is not removed
LeaveBundle(t, newHost, newCtr) ==
  host' = newHost /\ ctr' = [newCtr EXCEPT ![CtrOf[t]].mounts = @ - 1]

\* Variant: the container is not unmounted
LeaveMounted(t, newHost, newCtr) ==
  host' = [newHost EXCEPT ![t].bundle = FALSE] /\ ctr' = newCtr

\* The deferred b.Unmount() and os.RemoveAll(bundle) of Run.
LeaveRun(t, newHost, newCtr) ==
  /\ host' = [newHost EXCEPT ![t].bundle = FALSE]
  /\ ctr' = [newCtr EXCEPT ![CtrOf[t]].mounts = @ - 1]

\* Variant: the locks are kept
FailLocked(t) ==
  /\ task' = [task EXCEPT ![t].pc = "failed", ![t].art = NoArtifacts, ![t].cmd = NoArtifacts]
  /\ UNCHANGED lock
  /\ IF InRun(t) THEN LeaveRun(t, host, ctr) ELSE UNCHANGED <<host, ctr>>

\* An error in getMounts or in the set-up of Run: the locks taken so far, and
\* those of GetVolumes, are released.  Agents, images and files are not.
FailSetup(t) ==
  /\ task' = [task EXCEPT ![t].pc = "failed", ![t].art = NoArtifacts, ![t].cmd = NoArtifacts]
  /\ Unlock(task[t].art.locks \cup task[t].cmd.locks)
  /\ IF InRun(t) THEN LeaveRun(t, host, ctr) ELSE UNCHANGED <<host, ctr>>

-----------------------------------------------------------------------------
\* runCmd up to GetVolumes.
RunCommand(t) ==
  /\ Runs(t) /\ t \in Commands
  /\ task[t].pc = "idle" /\ task[t].at < Len(runs[t])
  /\ task' = [task EXCEPT ![t].pc = "getMounts", ![t].at = @ + 1, ![t].idx = 1]
  /\ UNCHANGED <<runs, lock, shared, alive>>

\* Run: the bundle is made and the container mounted.
EnterRun(t, next) ==
  /\ task' = [task EXCEPT ![t] = next]
  /\ host' = [host EXCEPT ![t].bundle = TRUE]
  /\ ctr' = [ctr EXCEPT ![CtrOf[t]].mounts = @ + 1]
  /\ UNCHANGED <<runs, lock, imageMounts, alive>>

BeginRun(t) ==
  /\ Runs(t) /\ t \notin Commands
  /\ task[t].pc = "idle" /\ task[t].at < Len(runs[t])
  /\ EnterRun(t, [task[t] EXCEPT !.pc = "mounts", !.at = @ + 1, !.idx = 1])

\* GetVolumes is done: --volume and --mount share no destination, and the
\* images and locks of getMounts become the command's.
BeginCommandRun(t) ==
  /\ Runs(t) /\ task[t].pc = "getMounts" /\ task[t].idx > Len(Mounts(t))
  /\ \A i \in DOMAIN Step(t).volumes :
       \A j \in DOMAIN task[t].art.dests : Step(t).volumes[i].dest # task[t].art.dests[j]
  /\ EnterRun(t, [task[t] EXCEPT !.pc = "mounts", !.idx = 1, !.cmd = task[t].art,
                                 !.art = NoArtifacts])

DuplicateVolume(t) ==
  /\ Runs(t) /\ task[t].pc = "getMounts" /\ task[t].idx > Len(Mounts(t))
  /\ \E i \in DOMAIN Step(t).volumes :
       \E j \in DOMAIN task[t].art.dests : Step(t).volumes[i].dest = task[t].art.dests[j]
  /\ FailSetup(t)
  /\ UNCHANGED <<runs, imageMounts, alive>>

\* Everything the loops record of a mount: m is the result of its function.
Record(t, m) ==
  task' = [task EXCEPT
    ![t].idx = @ + 1,
    ![t].temp = IF Holds(m.opts, "O") THEN @ \cup {<<t, task[t].idx>>} ELSE @,
    ![t].art = IF m.res # "mount" THEN @ ELSE
      [targets |-> @.targets \cup {m.dest}, dests |-> Append(@.dests, m.dest),
       tmp |-> @.tmp + (IF m.tmp THEN 1 ELSE 0),
       agents |-> @.agents + (IF m.agent THEN 1 ELSE 0),
       images |-> IF m.image # "" THEN Append(@.images, m.image) ELSE @.images,
       locks |-> @.locks \cup ({m.lock} \ {""}),
       sock |-> IF m.agent /\ @.agents = 0 THEN m.dest ELSE @.sock]]

\* getMounts refuses a destination it already has; runSetupRunMounts does not.
Duplicate(t, m) == task[t].pc = "getMounts" /\ m.dest \in Range(task[t].art.dests)

\* In Run every bind, cache and tmpfs mount goes through runSetupVolumeMounts,
\* which first empties the container's overlay directory.
Overlaid(t, m) ==
  IF task[t].pc = "getMounts" THEN ctr
  ELSE [ctr EXCEPT ![CtrOf[t]].overlay =
          IF Holds(m.opts, "O") THEN {<<t, task[t].idx>>} ELSE {}]

Parses(t, type) == Runs(t) /\ InLoop(t) /\ FlagType(t) = type

MountBind(t) ==
  /\ Parses(t, "bind")
  /\ \E m \in {GetBindMount(Flag(t), Step(t).contextDir, StagesSeen(t), Images)} :
       /\ imageMounts' = [i \in Images |->
                            imageMounts[i] + (IF i \in {m.image, m.stray} THEN 1 ELSE 0)]
       /\ IF m.res = "mount" /\ ~Duplicate(t, m) /\ (InRun(t) => Step(t).contextDir)
          THEN Record(t, m) /\ ctr' = Overlaid(t, m) /\ UNCHANGED <<lock, host>>
          ELSE FailSetup(t)
  /\ UNCHANGED <<runs, alive>>

\* Variant: a lock that the process has already is not waited for
FreeToProcess(t, l) ==
  IF lock[l] = NoTask THEN TRUE ELSE ProcOf[lock[l]] = ProcOf[t]

\* lockfile.Lock() waits, also for a lock of the same process.
LockFree(t, l) == lock[l] = NoTask

MountCache(t) ==
  /\ Parses(t, "cache")
  /\ \E m \in {GetCacheMount(Flag(t), StagesSeen(t))} :
       /\ m.res # "panic"
       /\ m.waits # "" => LockFree(t, m.waits)
       /\ IF m.res = "mount" /\ ~Duplicate(t, m)
          THEN /\ Record(t, m)
               /\ lock' = [l \in Locks |-> IF l = m.lock THEN t ELSE lock[l]]
               /\ ctr' = Overlaid(t, m)
               /\ UNCHANGED host
          ELSE FailSetup(t)
  /\ UNCHANGED <<runs, imageMounts, alive>>

MountTmpfs(t) ==
  /\ Parses(t, "tmpfs")
  /\ \E m \in {GetTmpfsMount(Flag(t))} :
       IF m.res = "mount" /\ ~Duplicate(t, m)
       THEN Record(t, m) /\ ctr' = Overlaid(t, m) /\ UNCHANGED <<lock, host>>
       ELSE FailSetup(t)
  /\ UNCHANGED <<runs, imageMounts, alive>>

MountSecret(t) ==
  /\ Parses(t, "secret") /\ InRun(t)
  /\ \E m \in {getSecretMount(Flag(t), Secrets)} :
       /\ m.res # "panic"
       /\ IF m.res = "error" THEN FailSetup(t)
          ELSE /\ Record(t, m)
               /\ host' = [host EXCEPT ![t].tmp = @ + (IF m.tmp THEN 1 ELSE 0)]
               /\ UNCHANGED <<lock, ctr>>
  /\ UNCHANGED <<runs, imageMounts, alive>>

\* Variant: the agent is not served
MountUnserved(t) ==
  /\ Parses(t, "ssh") /\ InRun(t)
  /\ \E m \in {getSSHMount(Flag(t), task[t].art.agents, SSHSources)} :
       IF m.res = "error" THEN FailSetup(t) ELSE Record(t, m) /\ UNCHANGED <<lock, host, ctr>>
  /\ UNCHANGED <<runs, imageMounts, alive>>

\* NewAgentServer and Serve.
MountSSH(t) ==
  /\ Parses(t, "ssh") /\ InRun(t)
  /\ \E m \in {getSSHMount(Flag(t), task[t].art.agents, SSHSources)} :
       IF m.res = "error" THEN FailSetup(t)
       ELSE /\ Record(t, m)
            /\ host' = [host EXCEPT ![t].agents = @ + (IF m.agent THEN 1 ELSE 0)]
            /\ UNCHANGED <<lock, ctr>>
  /\ UNCHANGED <<runs, imageMounts, alive>>

\* getMounts knows bind, cache and tmpfs only.
MountUnknown(t) ==
  /\ Runs(t) /\ InLoop(t)
  /\ FlagType(t) \notin {"bind", "cache", "tmpfs"} \cup
                        (IF InRun(t) THEN {"secret", "ssh"} ELSE {})
  /\ FailSetup(t)
  /\ UNCHANGED <<runs, imageMounts, alive>>

-----------------------------------------------------------------------------
\* Variant: the overlay directory is emptied last
EmptiedLast(made) == {}

\* runSetupVolumeMounts: the overlay directory is emptied, then filled.
Overlays(made) == made

\* The rest of setupMounts: built-in volumes exist in the rootfs from here on,
\* every :O volume gets a fresh overlay, and the mounts are merged, the first
\* one of a destination winning: volumes, built-in volumes, then RUN mounts.
\* The task then starts its command; the runtime makes missing mount points.
SetupVolumes(t) ==
  LET c == CtrOf[t]
      volumes == Step(t).volumes
      fresh == {<<t, i + Len(Mounts(t))>> : i \in {j \in DOMAIN volumes : volumes[j].overlay}}
      listed == [i \in DOMAIN volumes |-> [dest |-> volumes[i].dest, from |-> "volume"]]
             \o [i \in DOMAIN Step(t).builtins |-> [dest |-> Step(t).builtins[i], from |-> "builtin"]]
             \o [i \in DOMAIN task[t].art.dests |-> [dest |-> task[t].art.dests[i], from |-> "run"]]
      first == {i \in DOMAIN listed : \A j \in 1 .. i - 1 : listed[j].dest # listed[i].dest}
  IN /\ Runs(t) /\ task[t].pc = "mounts" /\ task[t].idx > Len(Mounts(t))
     /\ task' = [task EXCEPT ![t].pc = "exec", ![t].temp = @ \cup fresh,
                             ![t].spec = {listed[i] : i \in first}]
     /\ ctr' = [ctr EXCEPT ![c].overlay = Overlays(fresh),
                           ![c].rootfs = @ \cup {m.dest : m \in Range(listed)}]
     /\ UNCHANGED <<runs, lock, imageMounts, host, alive>>

\* A store, file system or policy error anywhere in the set-up of Run.
SetupFails(t) ==
  /\ SetupMayFail
  /\ Runs(t) /\ task[t].pc = "mounts"
  /\ FailSetup(t)
  /\ UNCHANGED <<runs, imageMounts, alive>>

\* The agent's accept loop: a connection is accepted, then counted in the wait
\* group; ServeAgent ends when its two seconds are over.
Accept(t) ==
  /\ Runs(t) /\ task[t].pc = "exec" /\ host[t].agents > 0 /\ host[t].conn = "none"
  /\ host' = [host EXCEPT ![t].conn = "accepted"]
  /\ UNCHANGED <<runs, task, lock, imageMounts, ctr, alive>>

ServeAgent(t) ==
  /\ Runs(t) /\ host[t].conn = "accepted"
  /\ host' = [host EXCEPT ![t].conn = "served"]
  /\ UNCHANGED <<runs, task, lock, imageMounts, ctr, alive>>

CloseConnection(t) ==
  /\ Runs(t) /\ host[t].conn = "served"
  /\ host' = [host EXCEPT ![t].conn = "none"]
  /\ UNCHANGED <<runs, task, lock, imageMounts, ctr, alive>>

\* The command ends and cleanupTempVolumes, deferred last, runs first.  The
\* images of GetVolumes were added to the artifacts before the command started.
CommandEnds(t) ==
  /\ Runs(t) /\ task[t].pc = "exec"
  /\ task' = [task EXCEPT ![t].pc = "agents", ![t].temp = {}, ![t].spec = {},
                          ![t].art.images = @ \o task[t].cmd.images]
  /\ ctr' = [ctr EXCEPT ![CtrOf[t]].overlay = @ \ task[t].temp]
  /\ UNCHANGED <<runs, lock, imageMounts, host, alive>>

\* agent.Shutdown() of every agent: wg.Wait() waits for counted connections.
ShutdownAgents(t) ==
  /\ Runs(t) /\ task[t].pc = "agents" /\ host[t].conn # "served"
  /\ task' = [task EXCEPT ![t].pc = "cleanup"]
  /\ host' = [host EXCEPT ![t].agents = @ - task[t].art.agents]
  /\ UNCHANGED <<runs, lock, imageMounts, ctr, alive>>

\* What Run and runCmd do last, whatever cleanupRunMounts returned.  The task
\* goes on with its next RUN unless the command had failed.
EndRun(t, early, newHost, newCtr, unlocked) ==
  /\ \E end \in {IF task[t].at < Len(runs[t]) THEN "idle" ELSE "done", "failed"} :
       task' = [task EXCEPT ![t].pc = end,
                          ![t].art = NoArtifacts, ![t].cmd = NoArtifacts,
                          ![t].early = @ \/ early]
  /\ LeaveRun(t, newHost, newCtr)
  /\ Unlock(unlocked \cup task[t].cmd.locks)

\* The rest of cleanupRunMounts.  Once an image was found and unmounted the
\* loop over the images returns, and nothing after it is done.
CleanupRunMounts(t) ==
  LET art == task[t].art
      early == art.images # <<>>
  IN /\ Runs(t) /\ task[t].pc = "cleanup"
     /\ imageMounts' = IF early THEN [imageMounts EXCEPT ![Head(art.images)] = @ - 1]
                       ELSE imageMounts
     /\ EndRun(t, early,
               IF early THEN host ELSE [host EXCEPT ![t].tmp = @ - art.tmp],
               IF early THEN ctr ELSE [ctr EXCEPT ![CtrOf[t]].rootfs = @ \ art.targets],
               IF early THEN {} ELSE art.locks)
     /\ UNCHANGED <<runs, alive>>

\* agent.Shutdown(), LookupImage or copier.Remove() fails: cleanupRunMounts
\* returns there.
CleanupFails(t) ==
  /\ CleanupMayFail
  /\ Runs(t)
  /\ \/ task[t].pc = "agents" /\ task[t].art.agents > 0 /\ host[t].conn # "served"
     \/ task[t].pc = "cleanup" /\ (task[t].art.images # <<>> \/ task[t].art.targets # {})
  /\ EndRun(t, TRUE, host, ctr, {})
  /\ UNCHANGED <<runs, imageMounts, alive>>

-----------------------------------------------------------------------------
Ended(t) == task[t].pc \in {"done", "failed"}

\* The process is gone: the kernel drops its locks and its sockets.
Gone(p) ==
  /\ alive' = alive \ {p}
  /\ lock' = [l \in Locks |-> IF lock[l] # NoTask /\ ProcOf[lock[l]] = p THEN NoTask ELSE lock[l]]
  /\ host' = [t \in Tasks |-> IF ProcOf[t] = p
                              THEN [host[t] EXCEPT !.agents = 0, !.conn = "none"] ELSE host[t]]
  /\ UNCHANGED <<runs, task, imageMounts, ctr>>

Exit(p) == p \in alive /\ (\A t \in Tasks : ProcOf[t] = p => Ended(t)) /\ Gone(p)

Crash(p) == p \in alive /\ p \in MayCrash /\ Gone(p)

\* kv[1] of a token without "=".
ParserPanics(t) ==
  /\ Runs(t) /\ InLoop(t)
  /\ \/ FlagType(t) = "cache" /\ GetCacheMount(Flag(t), StagesSeen(t)).res = "panic"
     \/ InRun(t) /\ FlagType(t) = "secret" /\ getSecretMount(Flag(t), Secrets).res = "panic"
  /\ Gone(ProcOf[t])

TaskStep(t) ==
  \/ RunCommand(t) \/ BeginRun(t) \/ BeginCommandRun(t) \/ DuplicateVolume(t)
  \/ MountBind(t) \/ MountCache(t) \/ MountTmpfs(t) \/ MountSecret(t) \/ MountSSH(t)
  \/ MountUnknown(t) \/ ParserPanics(t)
  \/ SetupVolumes(t) \/ CommandEnds(t) \/ ShutdownAgents(t) \/ CleanupRunMounts(t)

AgentStep(t) == Accept(t) \/ ServeAgent(t) \/ CloseConnection(t)

Terminating == alive = {} /\ UNCHANGED vars

Next ==
  \/ \E t \in Tasks : TaskStep(t) \/ SetupFails(t) \/ CleanupFails(t) \/ AgentStep(t)
  \/ \E p \in Procs : Exit(p) \/ Crash(p)
  \/ Terminating

\* Tasks are goroutines, commands of containers end, connections are closed
\* after two seconds, and a process whose work is done exits.
Fairness ==
  /\ \A t \in Tasks : WF_vars(TaskStep(t)) /\ WF_vars(ServeAgent(t)) /\ WF_vars(CloseConnection(t))
  /\ \A p \in Procs : WF_vars(Exit(p))

Spec == Init /\ [][Next]_vars /\ Fairness

-----------------------------------------------------------------------------
\* Type invariant.
TypeOK ==
  /\ alive \subseteq Procs
  /\ lock \in [Locks -> Tasks \cup {NoTask}]
  /\ imageMounts \in [Images -> Nat]
  /\ \A t \in Tasks :
       /\ task[t].pc \in {"idle", "getMounts", "mounts", "exec", "agents", "cleanup",
                          "done", "failed"}
       /\ task[t].at \in 0 .. Len(runs[t])
       /\ host[t].tmp \in Nat /\ host[t].agents \in Nat
       /\ host[t].conn \in {"none", "accepted", "served"}
  /\ \A c \in Containers : ctr[c].mounts \in Nat

\* The locked cache directories the command of a RUN sees, read off its flags.
LockedCaches(t) ==
  LET locked(flags) ==
        {CacheLock(flags[i]) : i \in
          {j \in DOMAIN flags : /\ TypeAt(flags, j) = "cache"
                                /\ LastValue(flags[j], {"sharing"}) = "locked"}}
  IN locked(Step(t).mounts) \cup locked(Step(t).cmdMounts)

\* sharing=locked: while the command of a RUN runs, no other task's command,
\* of this or of another buildah process, sees the same locked cache.
CacheExclusive ==
  \A t, u \in Tasks :
    t # u /\ Runs(t) /\ Runs(u) /\ task[t].pc = "exec" /\ task[u].pc = "exec"
      => LockedCaches(t) \cap LockedCaches(u) = {}

\* Unlock() of a lock that is not held panics: every lock recorded for a later
\* UnlockLockArray is held by the task that will release it, on every path.
LocksOwned ==
  \A t \in Tasks : Runs(t) =>
    \A l \in task[t].art.locks \cup task[t].cmd.locks : lock[l] = t

\* "runSetupRunMounts sets up mounts that exist only in this RUN": after a RUN
\* whose clean-up was not cut short the host and the container hold nothing of
\* it, and between two RUNs the container is unmounted.
RunLeavesNothing ==
  \A t \in Tasks :
    Runs(t) /\ task[t].pc \in {"idle", "done"} /\ ~task[t].early =>
      /\ host[t].tmp = 0 /\ host[t].agents = 0 /\ ~host[t].bundle
      /\ \A l \in Locks : lock[l] # t
      /\ \A d \in ctr[CtrOf[t]].overlay : d[1] # t

\* A container stays mounted as often as RUNs are in progress in it, also when
\* a RUN fails on the way; only a killed process leaves a mount behind.
MountsBalanced ==
  \A c \in Containers :
    LET inside == {t \in Tasks : CtrOf[t] = c /\ InRun(t)}
    IN ctr[c].mounts = Cardinality(inside)

\* While a command runs, the overlay behind every :O volume it was given is
\* there: the clean-ups of the overlay directory never hit a running command
\* that has its container to itself.
OverlayLive ==
  \A t \in Tasks :
    /\ Runs(t) /\ task[t].pc = "exec"
    /\ \A u \in Tasks : CtrOf[u] = CtrOf[t] => u = t
    => {<<t, i + Len(Step(t).mounts)>> :
          i \in {j \in DOMAIN Step(t).volumes : Step(t).volumes[j].overlay}}
         \subseteq ctr[CtrOf[t]].overlay

\* A command that is told SSH_AUTH_SOCK has an agent behind it until it ends.
SocketServed ==
  \A t \in Tasks :
    Runs(t) /\ task[t].pc = "exec" /\ task[t].art.sock # NoSock => host[t].agents > 0

\* What a RUN takes it gives back, on the host, in its container and in the
\* count of mounts, whatever failed and whoever else is at work
\* (cleanupRunMounts, and the deferred calls of Run).
GivesBack == RunLeavesNothing /\ MountsBalanced

\* The overlays and the agent a command was given are there while it runs,
\* although other RUNs clean up (CleanupContent, AgentServer.Shutdown).
SurroundingsLive == OverlayLive /\ SocketServed

\* Every task of a process that is not killed ends, whatever the order in which
\* the tasks and the processes meet at the locks, as long as no clean-up was
\* cut short.
RunsEnd == [](\A t \in Tasks : ~task[t].early) => <>(alive = {})

\* "Will be unlocked after the RUN step is executed": a task holds no cache
\* lock outside Run.
LocksReleased ==
  \A l \in Locks : lock[l] # NoTask =>
    task[lock[l]].pc \notin {"idle", "done", "failed"}

\* "everything other than these might have users content": what the image has
\* in the container's root file system is still there between RUNs.
ContentKept ==
  \A t \in Tasks : task[t].pc \in {"idle", "done"} => Content \subseteq ctr[CtrOf[t]].rootfs

==============================================================================
