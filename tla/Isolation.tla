------------------------------- MODULE Isolation -------------------------------
(***************************************************************************)
(* How Builder.Run starts a command and waits for it.  With an OCI runtime *)
(* (run_common.go) Run starts a subprocess that creates, starts, watches   *)
(* and deletes the container; Run itself configures the container's        *)
(* network in between, over a pair of pipes.  With chroot isolation        *)
(* (chroot/run_common.go) the subprocess mounts everything itself and      *)
(* starts another that enters the root and drops its privileges.  In both  *)
(* a goroutine of the subprocess relays stdio.  Data are counted in        *)
(* chunks, the amount one read() returns; stderr behaves as stdout does    *)
(* and is left out, and so is the pseudo-terminal.                         *)
(***************************************************************************)
EXTENDS MountNamespace

CONSTANTS
  Requests,      \* what Run may be asked for
  MaxOut,        \* chunks a command writes
  PipeSize,      \* chunks a pipe holds
  MayFail,       \* steps that may fail
  MaySignal,     \* whether the caller may be interrupted
  Protected      \* the read-only and then the masked paths of the specification
                 \* that exist: [path, mask, dir, content]

VARIABLES
  job,      \* the arguments of this Run
  caller,   \* where runUsingRuntimeSubproc (RunUsingChroot) is
  sub,      \* where its subprocess is
  rc,       \* the status the subprocess exits with
  result,   \* what Run returns
  conf,     \* the configuration pipe: "full" until the subprocess read it
  sync,     \* the create and start pipes: "empty", "sent" or "closed"
  network,  \* "none", "up" or "down"
  spec,     \* the mounts left to mount
  protect,  \* the paths left to protect
  ns,       \* the mount namespace of the subprocess
  exec,     \* the steps left to the process that starts the command
  priv,     \* its privileges
  ctr,      \* the container: "none", "created", "running", "exited", "deleted"
  code,     \* the status the command exited with
  reaped,   \* whether the reaping goroutine has it
  stopped,  \* the atomic flag
  relay,    \* the relaying goroutine: "none", "poll", "handle", "done" or "broken"
  polled,   \* the descriptors it still polls
  revents,  \* what its last poll returned
  finish,   \* whether finishCopy's writing end is closed
  closeStdin, \* stdin has ended, its pipe is closed once the buffer is empty
  in,       \* the data on their way to the command
  out       \* the data on their way from it

procVars == <<caller, sub, rc, result, conf>>
netVars == <<sync, network>>
mountVars == <<spec, protect, ns, exec, priv>>
ctrVars == <<ctr, code, reaped, stopped>>
relayVars == <<relay, polled, revents, finish, closeStdin>>
dataVars == <<in, out>>
vars == <<job, procVars, netVars, mountVars, ctrVars, relayVars, dataVars>>

Least(a, b) == IF a < b THEN a ELSE b
OCI == job.iso # "chroot"
Alive == sub \notin {"none", "exited", "killed"}

\* What the process that starts the command does in turn, and the capability
\* the kernel asks for it.
ExecSteps == << <<"chroot", {"SYS_CHROOT"}>>, <<"confine", {}>>, <<"rlimits", {}>>,
                <<"chdir", {}>>, <<"groups", {"SETGID"}>>, <<"gid", {"SETGID"}>>,
                <<"seccomp", {"SYS_ADMIN"}>>, <<"capabilities", {"SETPCAP"}>>,
                <<"uid", {"SETUID"}>>, <<"start", {}>> >>
AllCaps == {"SYS_CHROOT", "SETGID", "SYS_ADMIN", "SETPCAP", "SETUID", "CHOWN"}

ASSUME RequestAssumption ==
  \A r \in Requests : /\ r.net \in BOOLEAN /\ r.limit \in Nat /\ r.hard \in Nat
                      /\ r.uid \in Nat /\ r.caps \subseteq AllCaps

\* The pipes for the command's stdin and stdout.
InitPipes ==
  /\ in = [left |-> job.in, buf |-> 0, pipe |-> 0, write |-> TRUE, read |-> TRUE]
  /\ out = [wrote |-> 0, pipe |-> 0, buf |-> 0, shown |-> 0, write |-> TRUE, read |-> TRUE]

Init ==
  /\ job \in Requests
  /\ caller = "start" /\ sub = "none" /\ rc = 0 /\ result = "none" /\ conf = "full"
  /\ sync = [create |-> "empty", start |-> "empty"] /\ network = "none"
  /\ spec = job.mounts /\ protect = Protected /\ ns = << [at |-> <<>>, kind |-> "root", flags |-> {}] >>
  /\ exec = ExecSteps
  /\ priv = [caps |-> AllCaps, uid |-> 0, gid |-> 0, hard |-> job.hard, denied |-> FALSE]
  /\ ctr = "none" /\ code = 0 /\ reaped = FALSE /\ stopped = FALSE
  /\ relay = "none" /\ polled = {"in", "out"} /\ revents = {} /\ finish = FALSE
  /\ closeStdin = FALSE
  /\ InitPipes

-----------------------------------------------------------------------------
(* The caller                                                              *)

\* Start the subprocess.  RunUsingChroot first raises the limits it will ask
\* for, while it may.
StartSubprocess ==
  /\ caller = "start"
  /\ caller' = IF OCI /\ job.net THEN "sync" ELSE "wait"
  /\ sub' = "config"
  /\ priv' = IF OCI THEN priv ELSE [priv EXCEPT !.hard = IF job.limit >= @ THEN job.limit ELSE @]
  /\ UNCHANGED <<job, rc, result, conf, netVars, spec, protect, ns, exec, ctrVars, relayVars, dataVars>>

\* waitForSync: the subprocess says that the container is there.
CreateMessage ==
  /\ caller = "sync" /\ sync.create = "sent"
  /\ caller' = "network"
  /\ UNCHANGED <<job, sub, rc, result, conf, netVars, mountVars, ctrVars, relayVars, dataVars>>

\* The subprocess is gone, or four minutes are over: close the pipes, and wait
\* for it.
SyncFails ==
  /\ caller = "sync" /\ sync.create = "empty"
  /\ ~Alive \/ "sync" \in MayFail
  /\ sync' = [create |-> "closed", start |-> "closed"]
  /\ caller' = "wait"
  /\ UNCHANGED <<job, sub, rc, result, conf, network, mountVars, ctrVars, relayVars, dataVars>>

ConfigureNetwork ==
  /\ caller = "network"
  /\ network' = "up"
  /\ sync' = [sync EXCEPT !.start = "sent"]
  /\ caller' = "wait"
  /\ UNCHANGED <<job, sub, rc, result, conf, mountVars, ctrVars, relayVars, dataVars>>

\* On an error runUsingRuntimeSubproc returns without waiting; its deferred
\* calls close the pipes and undo what was configured.
NetworkFails ==
  /\ caller = "network" /\ "network" \in MayFail
  /\ network' \in {"none", "down"}
  /\ sync' = [sync EXCEPT !.start = "closed"]
  /\ caller' = "returned" /\ result' = "error"
  /\ UNCHANGED <<job, sub, rc, conf, mountVars, ctrVars, relayVars, dataVars>>

\* cmd.Wait.  RunUsingChroot then waits until its configuration is written,
\* which takes a reader when it is larger than a pipe.
SubprocessEnds ==
  /\ caller = "wait" /\ ~Alive
  /\ OCI \/ conf = "read" \/ ~job.big
  /\ caller' = "returned"
  /\ result' = IF sub = "exited" /\ rc = 0 THEN "ok" ELSE "error"
  /\ network' = IF network = "up" THEN "down" ELSE network
  /\ UNCHANGED <<job, sub, rc, conf, sync, mountVars, ctrVars, relayVars, dataVars>>

-----------------------------------------------------------------------------
(* The subprocess                                                          *)

ReadConfiguration ==
  /\ sub = "config"
  /\ conf' = "read"
  /\ sub' = "stage"
  /\ relay' = IF OCI THEN relay ELSE "poll"   \* the chroot relay starts at once
  /\ UNCHANGED <<job, caller, rc, result, netVars, mountVars, ctrVars,
                 polled, revents, finish, closeStdin, dataVars>>

\* The sorted mounts of the specification, with their sources staged.  The OCI
\* runtime does the mounting, chroot isolation mounts them itself.
Stage ==
  /\ sub = "stage"
  /\ \E sorted \in {SortMounts(spec)} : \E kept \in {WithoutConflicts(sorted)} :
       spec' = SetupIntermediateMountNamespace(kept)
  /\ sub' = IF OCI THEN "create" ELSE "mount"
  /\ \E made \in {IF OCI THEN ns ELSE SystemMounts(ns)} : ns' = made
  /\ UNCHANGED <<job, caller, rc, result, conf, netVars, protect, exec, priv, ctrVars, relayVars, dataVars>>

MountNext ==
  /\ sub = "mount" /\ spec # <<>>
  /\ Skipped(Head(spec)) \/ ~MountFails(Head(spec))
  /\ \E made \in {IF Skipped(Head(spec)) THEN ns ELSE MountInChroot(ns, Head(spec))} : ns' = made
  /\ spec' = Tail(spec)
  /\ UNCHANGED <<job, procVars, netVars, protect, exec, priv, ctrVars, relayVars, dataVars>>

\* Any error before the command runs: the subprocess exits with status 1.
Exit(status) == sub' = "exited" /\ rc' = status

\* A process that ends closes its ends of the pipes.
PipesClosed == in' = [in EXCEPT !.write = FALSE] /\ out' = [out EXCEPT !.read = FALSE]

MountNextFails ==
  /\ sub = "mount" /\ spec # <<>>
  /\ ~Skipped(Head(spec)) /\ MountFails(Head(spec))
  /\ Exit(1)
  /\ UNCHANGED <<job, caller, result, conf, netVars, mountVars, ctrVars, relayVars, dataVars>>

\* Once everything is mounted, the read-only paths and then the masked ones.
ProtectNext ==
  /\ sub = "mount" /\ spec = <<>> /\ protect # <<>>
  /\ \E made \in {IF Head(protect).mask THEN Mask(ns, Head(protect))
                 ELSE MakeReadonly(ns, Head(protect).path)} : ns' = made
  /\ protect' = Tail(protect)
  /\ UNCHANGED <<job, procVars, netVars, spec, exec, priv, ctrVars, relayVars, dataVars>>

StartParent ==
  /\ sub = "mount" /\ spec = <<>> /\ protect = <<>>
  /\ sub' = "exec"
  /\ UNCHANGED <<job, caller, rc, result, conf, netVars, mountVars, ctrVars, relayVars, dataVars>>

\* Variant: setCapabilities keeps nothing for the step after it
PrivilegesUnkept(step) ==
  CASE step = "rlimits" -> [priv EXCEPT !.hard = job.limit]
    [] step = "gid" -> [priv EXCEPT !.gid = job.uid]
    [] step = "capabilities" -> [priv EXCEPT !.caps = job.caps]
    [] step = "uid" -> [priv EXCEPT !.uid = job.uid, !.caps = IF job.uid # 0 THEN {} ELSE @]
    [] OTHER -> priv

\* What a step of runUsingChrootExecMain does to its privileges.  A change of
\* all user IDs away from root clears the capabilities.
Privileges(step) ==
  CASE step = "rlimits" -> [priv EXCEPT !.hard = job.limit]
    [] step = "gid" -> [priv EXCEPT !.gid = job.uid]
    [] step = "capabilities" ->
         [priv EXCEPT !.caps = job.caps \cup (IF job.uid # 0 THEN {"SETUID"} \cap priv.caps ELSE {})]
    [] step = "uid" -> [priv EXCEPT !.uid = job.uid, !.caps = IF job.uid # 0 THEN {} ELSE @]
    [] OTHER -> priv

\* Raising a hard limit takes a privilege of the host, changing to one's own
\* user ID takes none.
Permitted(step, needs) ==
  CASE step = "rlimits" -> job.limit <= priv.hard
    [] step = "uid" -> needs \subseteq priv.caps \/ job.uid = priv.uid
    [] OTHER -> needs \subseteq priv.caps

ExecStep ==
  /\ sub = "exec" /\ Len(exec) > 1
  /\ Permitted(exec[1][1], exec[1][2])
  /\ priv' = Privileges(exec[1][1])
  /\ exec' = Tail(exec)
  /\ UNCHANGED <<job, procVars, netVars, spec, protect, ns, ctrVars, relayVars, dataVars>>

\* The process says what failed and exits with status 1, and so does its parent.
ExecStepDenied ==
  /\ sub = "exec" /\ Len(exec) > 1
  /\ ~Permitted(exec[1][1], exec[1][2]) \/ "exec" \in MayFail
  /\ priv' = [priv EXCEPT !.denied = ~Permitted(exec[1][1], exec[1][2])]
  /\ Exit(1)
  /\ UNCHANGED <<job, caller, result, conf, netVars, spec, protect, ns, exec, ctrVars, relayVars, dataVars>>

StartCommand ==
  /\ sub = "exec" /\ Len(exec) = 1
  /\ exec' = <<>>
  /\ ctr' = "running"
  /\ sub' = "wait"
  /\ UNCHANGED <<job, caller, rc, result, conf, netVars, spec, protect, ns, priv, code, reaped, stopped,
                 relayVars, dataVars>>

\* Variant: a command that was started counts as one that succeeded
ReapedAsStarted ==
  /\ sub = "wait" /\ ctr = "exited"
  /\ Exit(0)
  /\ UNCHANGED <<job, caller, result, conf, netVars, mountVars, ctrVars, relayVars, dataVars>>

\* The command's status goes up through both processes.  Nobody waits for the
\* relay: it ends with the process.
CommandReaped ==
  /\ sub = "wait" /\ ctr = "exited"
  /\ Exit(code)
  /\ UNCHANGED <<job, caller, result, conf, netVars, mountVars, ctrVars, relayVars, dataVars>>

-----------------------------------------------------------------------------
(* The subprocess of an OCI runtime                                        *)

CreateContainer ==
  /\ sub = "create"
  /\ ctr' = "created"
  /\ sub' = IF job.net THEN "created" ELSE "start"
  /\ UNCHANGED <<job, caller, rc, result, conf, netVars, mountVars, code, reaped, stopped,
                 relayVars, dataVars>>

CreateContainerFails ==
  /\ sub = "create" /\ "create" \in MayFail
  /\ Exit(1)
  /\ UNCHANGED <<job, caller, result, conf, netVars, mountVars, ctrVars, relayVars, dataVars>>

\* Variant: the subprocess exits at once when its caller has given up
SendOrExit ==
  /\ sub = "created"
  /\ IF sync.create = "closed"
     THEN Exit(1) /\ UNCHANGED sync
     ELSE sub' = "awaitStart" /\ sync' = [sync EXCEPT !.create = "sent"] /\ UNCHANGED rc
  /\ UNCHANGED <<job, caller, result, conf, network, mountVars, ctrVars, relayVars, dataVars>>

\* Errors after the container was created leave it to the deferred delete.
SendCreateMessage ==
  /\ sub = "created"
  /\ IF sync.create = "closed"
     THEN sub' = "delete" /\ rc' = 1 /\ UNCHANGED sync
     ELSE sub' = "awaitStart" /\ sync' = [sync EXCEPT !.create = "sent"] /\ UNCHANGED rc
  /\ UNCHANGED <<job, caller, result, conf, network, mountVars, ctrVars, relayVars, dataVars>>

\* Variant: the end of the pipe is taken for the message
AwaitAnything ==
  /\ sub = "awaitStart" /\ sync.start # "empty"
  /\ sub' = "start"
  /\ UNCHANGED <<job, caller, rc, result, conf, netVars, mountVars, ctrVars, relayVars, dataVars>>

AwaitStartMessage ==
  /\ sub = "awaitStart" /\ sync.start # "empty"
  /\ IF sync.start = "sent" THEN sub' = "start" /\ UNCHANGED rc ELSE sub' = "delete" /\ rc' = 1
  /\ UNCHANGED <<job, caller, result, conf, netVars, mountVars, ctrVars, relayVars, dataVars>>

StartContainer ==
  /\ sub = "start"
  /\ relay' = "poll"
  /\ \/ ctr' = "running" /\ sub' = "started" /\ UNCHANGED rc
     \/ "start" \in MayFail /\ sub' = "delete" /\ rc' = 1 /\ UNCHANGED ctr
  /\ UNCHANGED <<job, caller, result, conf, netVars, mountVars, code, reaped, stopped,
                 polled, revents, finish, closeStdin, dataVars>>

\* From here on a signal kills the command.
NotifySignals ==
  /\ sub = "started"
  /\ sub' = "watch"
  /\ UNCHANGED <<job, caller, rc, result, conf, netVars, mountVars, ctrVars, relayVars, dataVars>>

\* The reaping goroutine.
Reap ==
  /\ OCI /\ Alive /\ ctr = "exited" /\ ~reaped
  /\ reaped' = TRUE /\ stopped' = TRUE
  /\ UNCHANGED <<job, procVars, netVars, mountVars, ctr, code, relayVars, dataVars>>

\* Variant: the relay is not told to finish
WatchOnly ==
  /\ sub = "watch"
  /\ ctr = "exited" \/ stopped \/ relay \in {"done", "broken"}
  /\ stopped' = TRUE
  /\ sub' = "stdio"
  /\ UNCHANGED <<job, caller, rc, result, conf, netVars, mountVars, ctr, code, reaped, relayVars, dataVars>>

\* One round of the loop that watches the container: the runtime's state, then
\* the flag, then whether stdio is finished.
WatchContainer ==
  /\ sub = "watch"
  /\ ctr = "exited" \/ stopped \/ relay \in {"done", "broken"}
  /\ stopped' = TRUE
  /\ finish' = TRUE
  /\ sub' = "stdio"
  /\ UNCHANGED <<job, caller, rc, result, conf, netVars, mountVars, ctr, code, reaped,
                 relay, polled, revents, closeStdin, dataVars>>

\* The runtime cannot tell the state: kill the container if it may be running.
\* Killing it is asking it to terminate.
StateFails ==
  /\ sub = "watch" /\ "state" \in MayFail /\ ~stopped
  /\ sub' = "delete" /\ rc' = 1
  /\ stopped' = TRUE
  /\ \/ ctr = "running" /\ ctr' = "exited" /\ code' = 143 /\ out' = [out EXCEPT !.write = FALSE]
          /\ in' = [in EXCEPT !.read = FALSE]
     \/ UNCHANGED <<ctr, code, in, out>>
  /\ UNCHANGED <<job, caller, result, conf, netVars, mountVars, reaped, relayVars>>

\* Wait for the relay to flush, then for the exit status.
WaitForStdio ==
  /\ sub = "stdio" /\ relay \in {"done", "broken"}
  /\ sub' = "reap"
  /\ UNCHANGED <<job, caller, rc, result, conf, netVars, mountVars, ctrVars, relayVars, dataVars>>

WaitForStatus ==
  /\ sub = "reap" /\ reaped
  /\ rc' = code
  /\ sub' = "delete"
  /\ UNCHANGED <<job, caller, result, conf, netVars, mountVars, ctrVars, relayVars, dataVars>>

\* The deferred delete; the runtime refuses to delete a running container.
DeleteContainer ==
  /\ sub = "delete"
  /\ ctr' = IF ctr = "running" THEN ctr ELSE "deleted"
  /\ Exit(IF ctr = "running" /\ rc = 0 THEN 1 ELSE rc)
  /\ PipesClosed
  /\ UNCHANGED <<job, caller, result, conf, netVars, mountVars, code, reaped, stopped, relayVars>>

-----------------------------------------------------------------------------
(* The relaying goroutine                                                  *)

Ready ==
  {e \in {"finish", "out", "outHup", "in"} :
     \/ e = "finish" /\ OCI /\ finish
     \/ e = "out" /\ "out" \in polled /\ out.pipe > 0
     \/ e = "outHup" /\ "out" \in polled /\ ~out.write
     \/ e = "in" /\ "in" \in polled /\ (in.left > 0 \/ job.eof)}

\* With something buffered poll() gives up after 100 ms.
Poll ==
  /\ relay = "poll" /\ Alive
  /\ Ready # {} \/ in.buf + out.buf > 0
  /\ revents' = Ready
  /\ relay' = "handle"
  /\ UNCHANGED <<job, procVars, netVars, mountVars, ctrVars, polled, finish, closeStdin, dataVars>>

\* Variant: a descriptor that hung up is not read any more
OutHungUp == LET n == IF "out" \notin revents \/ "outHup" \in revents THEN 0 ELSE 1
             IN [out EXCEPT !.pipe = @ - n, !.buf = @ + n]

\* What reading leaves: all that is left once the other end is closed.
OutRead == LET n == IF "out" \notin revents THEN 0
                    ELSE IF "outHup" \in revents THEN out.pipe ELSE 1
           IN [out EXCEPT !.pipe = @ - n, !.buf = @ + n]
InRead == IF "in" \in revents /\ in.left > 0
          THEN [in EXCEPT !.left = @ - 1, !.buf = @ + 1] ELSE in
InEnds == "in" \in revents /\ in.left = 0

\* What writing leaves.
OutDrained(o) == [o EXCEPT !.shown = @ + o.buf, !.buf = 0]
InDrained(i) == LET n == Least(i.buf, PipeSize - i.pipe)
                IN IF i.read THEN [i EXCEPT !.buf = @ - n, !.pipe = @ + n] ELSE i
BrokenPipe == InRead.buf > 0 /\ ~in.read

\* A relay that returns closes its ends of the pipes.
RelayReturns(how, i, o) ==
  /\ relay' = how
  /\ in' = [i EXCEPT !.write = FALSE]
  /\ out' = [o EXCEPT !.read = FALSE]

\* An error writing to the command's stdin ends all relaying of an OCI run,
\* before or after the output was drained.
HandleBrokenPipe ==
  /\ relay = "handle" /\ Alive /\ OCI /\ BrokenPipe
  /\ \E o \in {OutRead, OutDrained(OutRead)} : RelayReturns("broken", InRead, o)
  /\ UNCHANGED <<job, procVars, netVars, mountVars, ctrVars, polled, revents, finish, closeStdin>>

Handle ==
  /\ relay = "handle" /\ Alive
  /\ OCI => ~BrokenPipe
  /\ LET i == InDrained(InRead)
         ends == closeStdin \/ InEnds
         closed == ends /\ i.buf = 0
         left == polled \ ((IF "outHup" \in revents THEN {"out"} ELSE {})
                           \cup (IF closed \/ (OCI /\ ends) THEN {"in"} ELSE {}))
     IN /\ closeStdin' = ends
        /\ polled' = left
        /\ IF "finish" \in revents \/ left = {}
           THEN RelayReturns("done", i, OutDrained(OutRead))
           ELSE /\ relay' = "poll"
                /\ in' = [i EXCEPT !.write = @ /\ ~closed]
                /\ out' = OutDrained(OutRead)
  /\ revents' = {}
  /\ UNCHANGED <<job, procVars, netVars, mountVars, ctrVars, finish>>

-----------------------------------------------------------------------------
(* The command, and signals                                                *)

Dies(status) ==
  /\ ctr' = "exited" /\ code' = status
  /\ in' = [in EXCEPT !.read = FALSE]
  /\ out' = [out EXCEPT !.write = FALSE]

CommandWrites ==
  /\ ctr = "running" /\ out.write /\ out.wrote < MaxOut
  /\ IF out.read
     THEN /\ out.pipe < PipeSize
          /\ out' = [out EXCEPT !.pipe = @ + 1, !.wrote = @ + 1]
          /\ UNCHANGED <<ctr, code, in>>
     ELSE Dies(141)
  /\ UNCHANGED <<job, procVars, netVars, mountVars, reaped, stopped, relayVars>>

CommandReads ==
  /\ ctr = "running" /\ in.read /\ in.pipe > 0
  /\ in' = [in EXCEPT !.pipe = @ - 1]
  /\ UNCHANGED <<job, procVars, netVars, mountVars, ctrVars, relayVars, out>>

\* A command that does not read all of its input may close it.
CommandClosesStdin ==
  /\ ctr = "running" /\ ~job.reads /\ in.read
  /\ in' = [in EXCEPT !.read = FALSE, !.pipe = 0]
  /\ UNCHANGED <<job, procVars, netVars, mountVars, ctrVars, relayVars, out>>

\* A command that reads its input goes on until it ends.
CommandExits ==
  /\ ctr = "running"
  /\ job.reads => in.pipe = 0 /\ ~in.write
  /\ \E status \in {0, 1} : Dies(status)
  /\ UNCHANGED <<job, procVars, netVars, mountVars, reaped, stopped, relayVars>>

\* The caller forwards a signal to the subprocess.  Where that handles signals
\* it kills the command; elsewhere it dies of it, and with it, under chroot
\* isolation, the processes it started.
Interrupt ==
  /\ MaySignal /\ caller \in {"sync", "network", "wait"} /\ Alive
  /\ \/ sub \in {"watch", "wait"} /\ ctr = "running" /\ Dies(137) /\ UNCHANGED sub
     \/ sub \notin {"watch", "wait"} /\ sub' = "killed" /\ PipesClosed /\ UNCHANGED <<ctr, code>>
  /\ UNCHANGED <<job, caller, rc, result, conf, netVars, mountVars, reaped, stopped, relayVars>>

\* RunUsingChroot holds the reading end of the configuration pipe itself: with
\* the subprocess gone, a configuration larger than a pipe is never read.
ConfStuck == caller = "wait" /\ ~Alive /\ ~OCI /\ job.big /\ conf = "full"

Terminated == ((caller = "returned" /\ ~Alive) \/ ConfStuck) /\ UNCHANGED vars

Command == CommandWrites \/ CommandReads \/ CommandClosesStdin \/ CommandExits
Caller == StartSubprocess \/ CreateMessage \/ SyncFails \/ ConfigureNetwork \/ NetworkFails
          \/ SubprocessEnds
Subprocess ==
  \/ ReadConfiguration \/ Stage \/ MountNext \/ MountNextFails \/ ProtectNext \/ StartParent
  \/ ExecStep \/ ExecStepDenied \/ StartCommand \/ CommandReaped
  \/ CreateContainer \/ CreateContainerFails \/ SendCreateMessage \/ AwaitStartMessage
  \/ StartContainer \/ NotifySignals \/ WatchContainer \/ StateFails \/ WaitForStdio \/ WaitForStatus
  \/ DeleteContainer
Relay == Poll \/ HandleBrokenPipe \/ Handle

Next == Caller \/ Subprocess \/ Reap \/ Relay \/ Command \/ Interrupt \/ Terminated

\* Every process and goroutine runs when it can; the command reads what it
\* waits for, and ends.  The relay may go round forever; of the other steps a
\* run has finitely many, so one condition stands for fairness of each.
Work == Caller \/ Subprocess \/ Reap \/ CommandReads \/ CommandExits
Spec == Init /\ [][Next]_vars /\ WF_vars(Work) /\ WF_vars(Relay)

-----------------------------------------------------------------------------
\* Type invariant; no chunk of output is relayed twice.
TypeOK ==
  /\ caller \in {"start", "sync", "network", "wait", "returned"}
  /\ result \in {"none", "ok", "error"} /\ conf \in {"full", "read"}
  /\ ctr \in {"none", "created", "running", "exited", "deleted"}
  /\ relay \in {"none", "poll", "handle", "done", "broken"} /\ polled \subseteq {"in", "out"}
  /\ in.pipe \in 0 .. PipeSize /\ out.pipe \in 0 .. PipeSize
  /\ out.shown + out.buf + out.pipe <= out.wrote
  /\ network \in {"none", "up", "down"}

\* Run says "ok" only when the command itself exited with status 0: the status
\* crosses the reaper, the subprocess and, under chroot isolation, one process
\* more.
StatusKept == result = "ok" => code = 0 /\ ctr \in {"exited", "deleted"}

\* With an OCI runtime, when the subprocess has waited for a command, all that
\* it wrote has been passed on; unless the relay ended early because the
\* command closed its stdin.
OutputComplete ==
  OCI /\ sub = "reap" /\ relay = "done" => out.shown = out.wrote

\* The container never runs before its network is up, nor, while the subprocess
\* lives, after it was torn down; whatever message is late or lost.
NetworkUp == OCI /\ job.net /\ ctr = "running" /\ Alive => network = "up"

\* A subprocess that ended by itself leaves no container behind, unless it gave
\* up watching one that it had started.
ContainerDeleted ==
  OCI /\ sub = "exited" /\ (finish \/ relay = "none") => ctr \in {"none", "deleted"}

\* All that a command wrote has been passed on when Run returns without error.
\* (The relay's comments: "read as much as there is to read", "Wait for the stdio
\* copy goroutine to flush".)
AllOutputShown == result = "ok" => out.shown = out.wrote

\* The mounts of the specification are what the command sees at their
\* destinations, with the flags that were asked for; none is hidden by another.
MountsVisible ==
  sub = "wait" =>
    \A i \in DOMAIN job.mounts :
      LET m == job.mounts[i] IN
      (/\ ~Skipped(m) /\ (m.present \/ leaveBindMountAlone(m))
       /\ \A j \in 1 .. i - 1 : job.mounts[j].dest # m.dest)
      => /\ Visible(ns, m.dest).kind = "spec" /\ Visible(ns, m.dest).at = m.dest
         /\ RequestFlags(m.opts) \subseteq Visible(ns, m.dest).flags

\* No masked path shows its content to the command, read-only paths cannot be
\* written to.
PathsProtected ==
  sub = "wait" =>
    \A i \in DOMAIN Protected :
      IF Protected[i].mask
      THEN Protected[i].content => Visible(ns, Protected[i].path).kind \in {"empty", "null"}
      ELSE "ro" \in Visible(ns, Protected[i].path).flags

\* The privileges are dropped in an order in which no step is refused, and the
\* command has what was asked for and no more.
PrivilegesDropped ==
  /\ ~priv.denied
  /\ sub = "wait" =>
       /\ priv.uid = job.uid /\ priv.gid = job.uid /\ priv.hard = job.limit
       /\ priv.caps = IF job.uid = 0 THEN job.caps ELSE {}

\* Run tells how the command ended, and has shown what it wrote
\* (runUsingRuntime, runCopyStdio).
ResultArrives == StatusKept /\ OutputComplete

\* A container is there, and runs, no longer than its surroundings: not without
\* its network, and not after its subprocess (runUsingRuntimeSubproc).
ContainerBounded == NetworkUp /\ ContainerDeleted

\* What a command finds under chroot isolation is what was asked for: its
\* mounts, the protection of paths, and its privileges (runUsingChrootExecMain).
CommandEnvironment == MountsVisible /\ PathsProtected /\ PrivilegesDropped

\* Run returns, and so does a subprocess it did not wait for; but for
\* RunUsingChroot when its subprocess dies before it has read a configuration
\* larger than a pipe.
Returns ==
  <>(\/ caller = "returned" /\ ~Alive
     \/ ConfStuck)

=============================================================================
