---------------------------- MODULE IsolationProofs ----------------------------
(***************************************************************************)
(* What Run promises about one command, for every request, amount of data  *)
(* and set of failing steps: the result and the output that arrive, the    *)
(* life of the container, and the privileges the command gets under chroot *)
(* isolation.  The invariant has a part for each of the parties that take  *)
(* steps at the same time: the caller with its two pipes (NetInv), the     *)
(* subprocess and the container (StatusInv), the relaying goroutine        *)
(* (RelayInv), the process that starts the command (PrivInv).              *)
(***************************************************************************)
EXTENDS Isolation, TLAPS

OfChroot == {"mount", "exec", "wait"}
OfRuntime == {"create", "created", "awaitStart", "start", "started", "watch", "stdio", "reap", "delete"}
Over == {"exited", "killed"}
Before == {"none", "config", "stage", "mount", "exec", "create", "created", "awaitStart", "start"}
Started == {"start", "started", "watch", "stdio", "reap"}

Output == [wrote : Nat, pipe : Nat, buf : Nat, shown : Nat, write : BOOLEAN, read : BOOLEAN]

\* The shape of the state
IsoType ==
  /\ job \in Requests
  /\ caller \in {"start", "sync", "network", "wait", "returned"}
  /\ sub \in {"none", "config", "stage"} \cup OfChroot \cup OfRuntime \cup Over
  /\ OCI => sub \notin OfChroot
  /\ ~OCI => sub \notin OfRuntime
  /\ sync \in [create : {"empty", "sent", "closed"}, start : {"empty", "sent", "closed"}]
  /\ ctr \in {"none", "created", "running", "exited", "deleted"}
  /\ relay \in {"none", "poll", "handle", "done", "broken"}
  /\ reaped \in BOOLEAN /\ stopped \in BOOLEAN /\ finish \in BOOLEAN
  /\ out \in Output

\* What the caller has told the subprocess, and the network it keeps for it
NetInv ==
  /\ caller = "start" <=> sub = "none"
  /\ caller \in {"start", "sync", "network"} => sync.start = "empty"
  /\ sync.start = "sent" /\ Alive => network = "up"
  /\ OCI /\ job.net /\ (sub \in Started \/ ctr = "running") => sync.start = "sent"

\* What the subprocess knows of the container and of the command's status
StatusInv ==
  /\ sub \in Before => ctr \in {"none", "created"} /\ ~stopped
  /\ sub \in {"none", "config", "stage", "create"} => ctr = "none"
  /\ ctr = "deleted" => sub = "exited"
  /\ reaped => ctr \in {"exited", "deleted"}
  /\ stopped /\ sub \in {"started", "watch"} => reaped
  /\ finish => sub \in {"stdio", "reap", "delete"} \cup Over
  /\ sub = "delete" /\ (finish \/ rc = 0) => reaped
  /\ sub = "delete" /\ rc = 0 => code = 0
  /\ sub = "exited" /\ rc = 0 => code = 0 /\ ctr \in {"exited", "deleted"}
  /\ result = "ok" => sub = "exited" /\ rc = 0
  /\ OCI /\ ctr = "running" => relay # "none"
  /\ sub \in {"none", "config"} \/ (OCI /\ sub \in Before) => relay = "none"
  /\ ContainerDeleted

\* Where the output is.  When the relay is told to finish, or finds that the
\* command has closed its end, there is nothing left to come.
RelayInv ==
  /\ ctr \in {"exited", "deleted"} /\ sub # "exited" => ~out.write
  /\ reaped => ~out.write
  /\ out.shown + out.buf + out.pipe = out.wrote
  /\ relay # "broken" => out.buf = 0
  /\ "out" \notin polled => out.pipe = 0 /\ ~out.write
  /\ relay = "done" => out.pipe = 0 /\ ~out.read
  /\ finish => ~out.write \/ relay \in {"done", "broken"}
  /\ relay = "handle" =>
       /\ "out" \in revents => out.pipe >= 1
       /\ "outHup" \in revents => ~out.write /\ (out.pipe = 0 \/ "out" \in revents)
       /\ "finish" \in revents /\ "out" \in polled => "outHup" \in revents

\* The steps left when the first k - 1 have been taken, and the privileges then
Left(k) == [i \in 1 .. 11 - k |-> ExecSteps[i + k - 1]]

Kept(k) ==
  /\ priv.caps = IF k < 9 THEN AllCaps
                 ELSE IF job.uid = 0 THEN job.caps
                 ELSE IF k = 9 THEN job.caps \cup {"SETUID"} ELSE {}
  /\ priv.uid = IF k < 10 THEN 0 ELSE job.uid
  /\ priv.gid = IF k < 7 THEN 0 ELSE job.uid
  /\ IF k < 4 THEN ~OCI /\ sub # "none" => job.limit <= priv.hard ELSE priv.hard = job.limit

Privileged == [caps : SUBSET AllCaps, uid : Nat, gid : Nat, hard : Nat, denied : BOOLEAN]

PrivInv ==
  /\ priv \in Privileged /\ ~priv.denied
  /\ \E k \in 1 .. 11 : exec = Left(k) /\ Kept(k) /\ (sub = "wait" => k = 11)

IsoInv == IsoType /\ NetInv /\ StatusInv /\ RelayInv

\* The ends of the pipe may be closed, its content moves on; nothing else changes
LEMMA OutClosed ==
  ASSUME NEW o \in Output
  PROVE  /\ [o EXCEPT !.write = FALSE] \in Output /\ [o EXCEPT !.read = FALSE] \in Output
         /\ LET w == [o EXCEPT !.write = FALSE] IN
              /\ w.wrote = o.wrote /\ w.pipe = o.pipe /\ w.buf = o.buf /\ w.shown = o.shown
              /\ ~w.write /\ w.read = o.read
         /\ LET r == [o EXCEPT !.read = FALSE] IN
              /\ r.wrote = o.wrote /\ r.pipe = o.pipe /\ r.buf = o.buf /\ r.shown = o.shown
              /\ r.write = o.write /\ ~r.read
  BY Zenon DEF Output

LEMMA OutMoves ==
  ASSUME NEW o \in Output, NEW n \in Nat, n <= o.pipe
  PROVE  LET r == [o EXCEPT !.pipe = @ - n, !.buf = @ + n]
         IN /\ r \in Output
            /\ r.wrote = o.wrote /\ r.pipe = o.pipe - n /\ r.buf = o.buf + n
            /\ r.shown = o.shown /\ r.write = o.write /\ r.read = o.read
  <1>1. /\ o.wrote \in Nat /\ o.pipe \in Nat /\ o.buf \in Nat /\ o.shown \in Nat
        /\ o.write \in BOOLEAN /\ o.read \in BOOLEAN
    BY DEF Output
  <1>2. PICK x : x = [o EXCEPT !.pipe = o.pipe - n]
    BY Zenon
  <1>3. /\ x \in Output
        /\ x.wrote = o.wrote /\ x.pipe = o.pipe - n /\ x.buf = o.buf
        /\ x.shown = o.shown /\ x.write = o.write /\ x.read = o.read
    BY <1>1, <1>2 DEF Output
  <1>4. PICK r : r = [x EXCEPT !.buf = o.buf + n]
    BY Zenon
  <1>5. /\ r \in Output
        /\ r.wrote = o.wrote /\ r.pipe = o.pipe - n /\ r.buf = o.buf + n
        /\ r.shown = o.shown /\ r.write = o.write /\ r.read = o.read
    BY SMTT(60), <1>1, <1>3, <1>4 DEF Output
  <1>6. r = [o EXCEPT !.pipe = @ - n, !.buf = @ + n]
    BY ZenonT(60), <1>2, <1>4
  <1> QED
    BY <1>5, <1>6, Zenon

LEMMA OutShows ==
  ASSUME NEW o \in Output
  PROVE  LET r == OutDrained(o)
         IN /\ r \in Output
            /\ r.wrote = o.wrote /\ r.pipe = o.pipe /\ r.buf = 0
            /\ r.shown = o.shown + o.buf /\ r.write = o.write /\ r.read = o.read
  <1>1. /\ o.wrote \in Nat /\ o.pipe \in Nat /\ o.buf \in Nat /\ o.shown \in Nat
        /\ o.write \in BOOLEAN /\ o.read \in BOOLEAN
    BY DEF Output
  <1>2. PICK x : x = [o EXCEPT !.shown = o.shown + o.buf]
    BY Zenon
  <1>3. /\ x \in Output
        /\ x.wrote = o.wrote /\ x.pipe = o.pipe /\ x.buf = o.buf
        /\ x.shown = o.shown + o.buf /\ x.write = o.write /\ x.read = o.read
    BY <1>1, <1>2 DEF Output
  <1>4. PICK r : r = [x EXCEPT !.buf = 0]
    BY Zenon
  <1>5. /\ r \in Output
        /\ r.wrote = o.wrote /\ r.pipe = o.pipe /\ r.buf = 0
        /\ r.shown = o.shown + o.buf /\ r.write = o.write /\ r.read = o.read
    BY ZenonT(60), <1>1, <1>3, <1>4 DEF Output
  <1>6. r = OutDrained(o)
    BY ZenonT(60), <1>2, <1>4 DEF OutDrained
  <1> QED
    BY <1>5, <1>6, Zenon

LEMMA OutGrows ==
  ASSUME NEW o \in Output
  PROVE  LET r == [o EXCEPT !.pipe = @ + 1, !.wrote = @ + 1]
         IN /\ r \in Output
            /\ r.wrote = o.wrote + 1 /\ r.pipe = o.pipe + 1 /\ r.buf = o.buf
            /\ r.shown = o.shown /\ r.write = o.write /\ r.read = o.read
  <1>1. /\ o.wrote \in Nat /\ o.pipe \in Nat /\ o.buf \in Nat /\ o.shown \in Nat
        /\ o.write \in BOOLEAN /\ o.read \in BOOLEAN
    BY DEF Output
  <1>2. PICK x : x = [o EXCEPT !.pipe = o.pipe + 1]
    BY Zenon
  <1>3. /\ x \in Output
        /\ x.wrote = o.wrote /\ x.pipe = o.pipe + 1 /\ x.buf = o.buf
        /\ x.shown = o.shown /\ x.write = o.write /\ x.read = o.read
    BY <1>1, <1>2 DEF Output
  <1>4. PICK r : r = [x EXCEPT !.wrote = o.wrote + 1]
    BY Zenon
  <1>5. /\ r \in Output
        /\ r.wrote = o.wrote + 1 /\ r.pipe = o.pipe + 1 /\ r.buf = o.buf
        /\ r.shown = o.shown /\ r.write = o.write /\ r.read = o.read
    BY <1>1, <1>3, <1>4 DEF Output
  <1>6. r = [o EXCEPT !.pipe = @ + 1, !.wrote = @ + 1]
    BY ZenonT(60), <1>2, <1>4
  <1> QED
    BY <1>5, <1>6, Zenon

\* What the relay reads: a chunk, or all there is once the command has closed its end
LEMMA OutIsRead ==
  ASSUME IsoType, RelayInv, relay = "handle"
  PROVE  /\ OutRead \in Output /\ OutRead.wrote = out.wrote /\ OutRead.shown = out.shown
         /\ OutRead.write = out.write /\ OutRead.read = out.read
         /\ OutRead.pipe + OutRead.buf = out.pipe + out.buf
         /\ out.pipe = 0 \/ "outHup" \in revents => OutRead.pipe = 0
  <1> DEFINE n == IF "out" \notin revents THEN 0
                  ELSE IF "outHup" \in revents THEN out.pipe ELSE 1
  <1>1. out \in Output /\ out.pipe \in Nat /\ out.buf \in Nat
    BY DEF IsoType, Output
  <1>2. /\ "out" \in revents => out.pipe >= 1
        /\ "outHup" \in revents => out.pipe = 0 \/ "out" \in revents
    BY DEF RelayInv
  <1>3. n \in Nat /\ n <= out.pipe /\ (out.pipe = 0 \/ "outHup" \in revents => n = out.pipe)
    BY <1>1, <1>2
  <1>4. OutRead = [out EXCEPT !.pipe = @ - n, !.buf = @ + n]
    BY DEF OutRead
  <1> HIDE DEF n
  <1>5. /\ OutRead \in Output /\ OutRead.wrote = out.wrote /\ OutRead.shown = out.shown
        /\ OutRead.write = out.write /\ OutRead.read = out.read
        /\ OutRead.pipe = out.pipe - n /\ OutRead.buf = out.buf + n
    BY <1>1, <1>3, <1>4, OutMoves, Zenon
  <1> QED
    BY <1>1, <1>3, <1>5

\* The state keeps its shape
LEMMA TypeStep ==
  ASSUME IsoInv, [Next]_vars
  PROVE  IsoType'
  <1>1. CASE StartSubprocess
    BY <1>1 DEF StartSubprocess, procVars, netVars, mountVars, ctrVars, relayVars, dataVars, IsoInv, IsoType, Output, OCI, OfChroot, OfRuntime, Over
  <1>2. CASE CreateMessage
    BY <1>2 DEF CreateMessage, procVars, netVars, mountVars, ctrVars, relayVars, dataVars, IsoInv, IsoType, Output, OCI, OfChroot, OfRuntime, Over
  <1>3. CASE SyncFails
    BY <1>3 DEF SyncFails, procVars, netVars, mountVars, ctrVars, relayVars, dataVars, IsoInv, IsoType, Output, OCI, OfChroot, OfRuntime, Over
  <1>4. CASE ConfigureNetwork
    BY <1>4 DEF ConfigureNetwork, procVars, netVars, mountVars, ctrVars, relayVars, dataVars, IsoInv, IsoType, Output, OCI, OfChroot, OfRuntime, Over
  <1>5. CASE NetworkFails
    BY <1>5 DEF NetworkFails, procVars, netVars, mountVars, ctrVars, relayVars, dataVars, IsoInv, IsoType, Output, OCI, OfChroot, OfRuntime, Over
  <1>6. CASE SubprocessEnds
    BY <1>6 DEF SubprocessEnds, procVars, netVars, mountVars, ctrVars, relayVars, dataVars, IsoInv, IsoType, Output, OCI, OfChroot, OfRuntime, Over
  <1>7. CASE ReadConfiguration
    BY <1>7 DEF ReadConfiguration, procVars, netVars, mountVars, ctrVars, relayVars, dataVars, IsoInv, IsoType, Output, OCI, OfChroot, OfRuntime, Over
  <1>8. CASE Stage
    BY <1>8 DEF Stage, procVars, netVars, mountVars, ctrVars, relayVars, dataVars, IsoInv, IsoType, Output, OCI, OfChroot, OfRuntime, Over
  <1>9. CASE MountNext
    BY <1>9 DEF MountNext, procVars, netVars, mountVars, ctrVars, relayVars, dataVars, IsoInv, IsoType, Output, OCI, OfChroot, OfRuntime, Over
  <1>10. CASE MountNextFails
    BY <1>10 DEF MountNextFails, Exit, procVars, netVars, mountVars, ctrVars, relayVars, dataVars, IsoInv, IsoType, Output, OCI, OfChroot, OfRuntime, Over
  <1>11. CASE ProtectNext
    BY <1>11 DEF ProtectNext, procVars, netVars, mountVars, ctrVars, relayVars, dataVars, IsoInv, IsoType, Output, OCI, OfChroot, OfRuntime, Over
  <1>12. CASE StartParent
    BY <1>12 DEF StartParent, procVars, netVars, mountVars, ctrVars, relayVars, dataVars, IsoInv, IsoType, Output, OCI, OfChroot, OfRuntime, Over
  <1>13. CASE ExecStep
    BY <1>13 DEF ExecStep, procVars, netVars, mountVars, ctrVars, relayVars, dataVars, IsoInv, IsoType, Output, OCI, OfChroot, OfRuntime, Over
  <1>14. CASE ExecStepDenied
    BY SMTT(60), <1>14 DEF ExecStepDenied, Exit, procVars, netVars, mountVars, ctrVars, relayVars, dataVars, IsoInv, IsoType, Output, OCI, OfChroot, OfRuntime, Over
  <1>15. CASE StartCommand
    BY <1>15 DEF StartCommand, procVars, netVars, mountVars, ctrVars, relayVars, dataVars, IsoInv, IsoType, Output, OCI, OfChroot, OfRuntime, Over
  <1>16. CASE CommandReaped
    BY <1>16 DEF CommandReaped, Exit, procVars, netVars, mountVars, ctrVars, relayVars, dataVars, IsoInv, IsoType, Output, OCI, OfChroot, OfRuntime, Over
  <1>17. CASE CreateContainer
    BY <1>17 DEF CreateContainer, procVars, netVars, mountVars, ctrVars, relayVars, dataVars, IsoInv, IsoType, Output, OCI, OfChroot, OfRuntime, Over
  <1>18. CASE CreateContainerFails
    BY <1>18 DEF CreateContainerFails, Exit, procVars, netVars, mountVars, ctrVars, relayVars, dataVars, IsoInv, IsoType, Output, OCI, OfChroot, OfRuntime, Over
  <1>19. CASE SendCreateMessage
    BY <1>19 DEF SendCreateMessage, procVars, netVars, mountVars, ctrVars, relayVars, dataVars, IsoInv, IsoType, Output, OCI, OfChroot, OfRuntime, Over
  <1>20. CASE AwaitStartMessage
    BY <1>20 DEF AwaitStartMessage, procVars, netVars, mountVars, ctrVars, relayVars, dataVars, IsoInv, IsoType, Output, OCI, OfChroot, OfRuntime, Over
  <1>21. CASE StartContainer
    BY SMTT(60), <1>21 DEF StartContainer, procVars, netVars, mountVars, ctrVars, relayVars, dataVars, IsoInv, IsoType, Output, OCI, OfChroot, OfRuntime, Over
  <1>22. CASE NotifySignals
    BY SMTT(60), <1>22 DEF NotifySignals, procVars, netVars, mountVars, ctrVars, relayVars, dataVars, IsoInv, IsoType, Output, OCI, OfChroot, OfRuntime, Over
  <1>23. CASE WatchContainer
    BY SMTT(60), <1>23 DEF WatchContainer, procVars, netVars, mountVars, ctrVars, relayVars, dataVars, IsoInv, IsoType, Output, OCI, OfChroot, OfRuntime, Over
  <1>24. CASE StateFails
    <2>1. out' \in Output
      BY ZenonT(60), <1>24, OutClosed DEF StateFails, IsoInv, IsoType
    <2> QED
      BY SMTT(60), <1>24, <2>1 DEF StateFails, netVars, mountVars, relayVars, IsoInv, IsoType, OCI, OfChroot, OfRuntime, Over
  <1>25. CASE WaitForStdio
    BY <1>25 DEF WaitForStdio, procVars, netVars, mountVars, ctrVars, relayVars, dataVars, IsoInv, IsoType, Output, OCI, OfChroot, OfRuntime, Over
  <1>26. CASE WaitForStatus
    BY <1>26 DEF WaitForStatus, procVars, netVars, mountVars, ctrVars, relayVars, dataVars, IsoInv, IsoType, Output, OCI, OfChroot, OfRuntime, Over
  <1>27. CASE DeleteContainer
    <2>1. out' \in Output
      BY Zenon, <1>27, OutClosed DEF DeleteContainer, PipesClosed, IsoInv, IsoType
    <2> QED
      BY <1>27, <2>1 DEF DeleteContainer, Exit, netVars, mountVars, relayVars, IsoInv, IsoType, OCI, OfChroot, OfRuntime, Over
  <1>28. CASE Poll
    BY <1>28 DEF Poll, procVars, netVars, mountVars, ctrVars, relayVars, dataVars, IsoInv, IsoType, Output, OCI, OfChroot, OfRuntime, Over
  <1>29. CASE HandleBrokenPipe
    <2>1. out' \in Output
      BY Zenon, <1>29, OutIsRead, OutShows, OutClosed DEF HandleBrokenPipe, RelayReturns, IsoInv
    <2> QED
      BY SMTT(60), <1>29, <2>1 DEF HandleBrokenPipe, RelayReturns, procVars, netVars, mountVars, ctrVars, IsoInv, IsoType, OCI
  <1>30. CASE Handle
    <2>1. out' \in Output /\ relay' \in {"poll", "done"}
      BY Zenon, <1>30, OutIsRead, OutShows, OutClosed DEF Handle, RelayReturns, IsoInv
    <2>2. UNCHANGED <<job, caller, sub, sync, ctr, reaped, stopped, finish>>
      BY Zenon, <1>30 DEF Handle, procVars, netVars, mountVars, ctrVars
    <2> QED
      BY SMTT(60), <2>1, <2>2 DEF IsoInv, IsoType, OCI
  <1>31. CASE CommandWrites
    <2>1. out' \in Output
      <3>1. CASE out.read
        <4>1. out' = [out EXCEPT !.pipe = @ + 1, !.wrote = @ + 1] /\ out \in Output
          BY ZenonT(60), <1>31, <3>1 DEF CommandWrites, IsoInv, IsoType
        <4> QED
          BY <4>1, OutGrows, Zenon
      <3>2. CASE ~out.read
        <4>1. out' = [out EXCEPT !.write = FALSE] /\ out \in Output
          BY ZenonT(60), <1>31, <3>2 DEF CommandWrites, Dies, IsoInv, IsoType
        <4> QED
          BY <4>1, OutClosed, Zenon
      <3> QED
        BY ZenonT(60), <3>1, <3>2
    <2> QED
      BY SMTT(60), <1>31, <2>1 DEF CommandWrites, Dies, procVars, netVars, mountVars, relayVars, IsoInv, IsoType, OCI
  <1>32. CASE CommandReads
    BY SMTT(60), <1>32 DEF CommandReads, procVars, netVars, mountVars, ctrVars, relayVars, dataVars, IsoInv, IsoType, Output, OCI, OfChroot, OfRuntime, Over
  <1>33. CASE CommandClosesStdin
    BY <1>33 DEF CommandClosesStdin, procVars, netVars, mountVars, ctrVars, relayVars, dataVars, IsoInv, IsoType, Output, OCI, OfChroot, OfRuntime, Over
  <1>34. CASE CommandExits
    <2>1. out' \in Output
      BY Zenon, <1>34, OutClosed DEF CommandExits, Dies, IsoInv, IsoType
    <2> QED
      BY SMTT(60), <1>34, <2>1 DEF CommandExits, Dies, procVars, netVars, mountVars, relayVars, IsoInv, IsoType, OCI
  <1>35. CASE Reap
    BY <1>35 DEF Reap, procVars, netVars, mountVars, ctrVars, relayVars, dataVars, IsoInv, IsoType, Output, OCI, OfChroot, OfRuntime, Over
  <1>36. CASE Interrupt
    <2>1. out' \in Output
      BY ZenonT(60), <1>36, OutClosed DEF Interrupt, Dies, PipesClosed, IsoInv, IsoType
    <2> QED
      BY <1>36, <2>1 DEF Interrupt, Dies, PipesClosed, netVars, mountVars, relayVars, IsoInv, IsoType, OCI, OfChroot, OfRuntime, Over
  <1>37. CASE Terminated
    BY <1>37 DEF Terminated, procVars, netVars, mountVars, ctrVars, relayVars, dataVars, vars, IsoInv, IsoType, Output, OCI, OfChroot, OfRuntime, Over
  <1>38. CASE UNCHANGED vars
    BY <1>38 DEF vars, procVars, netVars, mountVars, ctrVars, relayVars, dataVars, IsoInv, IsoType, Output, OCI, OfChroot, OfRuntime, Over
  <1> QED
    BY ZenonT(60), <1>1, <1>2, <1>3, <1>4, <1>5, <1>6, <1>7, <1>8, <1>9, <1>10, <1>11, <1>12, <1>13, <1>14, <1>15, <1>16, <1>17, <1>18, <1>19, <1>20, <1>21, <1>22, <1>23, <1>24, <1>25, <1>26, <1>27, <1>28, <1>29, <1>30, <1>31, <1>32, <1>33, <1>34, <1>35, <1>36, <1>37, <1>38 DEF Next, Caller, Subprocess, Relay, Command

\* The caller keeps the network while the container may run
LEMMA NetStep ==
  ASSUME IsoInv, [Next]_vars
  PROVE  NetInv'
  <1>1. CASE StartSubprocess
    BY Zenon, <1>1 DEF StartSubprocess, procVars, netVars, mountVars, ctrVars, relayVars, dataVars, IsoInv, IsoType, NetInv, OCI, Alive, Started, OfChroot, OfRuntime, Over
  <1>2. CASE CreateMessage
    BY ZenonT(60), <1>2 DEF CreateMessage, procVars, netVars, mountVars, ctrVars, relayVars, dataVars, IsoInv, IsoType, NetInv, OCI, Alive, Started, OfChroot, OfRuntime, Over
  <1>3. CASE SyncFails
    BY Zenon, <1>3 DEF SyncFails, procVars, netVars, mountVars, ctrVars, relayVars, dataVars, IsoInv, IsoType, NetInv, OCI, Alive, Started, OfChroot, OfRuntime, Over
  <1>4. CASE ConfigureNetwork
    BY Zenon, <1>4 DEF ConfigureNetwork, procVars, netVars, mountVars, ctrVars, relayVars, dataVars, IsoInv, IsoType, NetInv, OCI, Alive, Started, OfChroot, OfRuntime, Over
  <1>5. CASE NetworkFails
    BY ZenonT(60), <1>5 DEF NetworkFails, procVars, netVars, mountVars, ctrVars, relayVars, dataVars, IsoInv, IsoType, NetInv, OCI, Alive, Started, OfChroot, OfRuntime, Over
  <1>6. CASE SubprocessEnds
    BY Zenon, <1>6 DEF SubprocessEnds, procVars, netVars, mountVars, ctrVars, relayVars, dataVars, IsoInv, IsoType, NetInv, OCI, Alive, Started, OfChroot, OfRuntime, Over
  <1>7. CASE ReadConfiguration
    BY Zenon, <1>7 DEF ReadConfiguration, procVars, netVars, mountVars, ctrVars, relayVars, dataVars, IsoInv, IsoType, NetInv, OCI, Alive, Started, OfChroot, OfRuntime, Over
  <1>8. CASE Stage
    BY Zenon, <1>8 DEF Stage, procVars, netVars, mountVars, ctrVars, relayVars, dataVars, IsoInv, IsoType, NetInv, OCI, Alive, Started, OfChroot, OfRuntime, Over
  <1>9. CASE MountNext
    BY Zenon, <1>9 DEF MountNext, procVars, netVars, mountVars, ctrVars, relayVars, dataVars, IsoInv, IsoType, NetInv, OCI, Alive, Started, OfChroot, OfRuntime, Over
  <1>10. CASE MountNextFails
    BY Zenon, <1>10 DEF MountNextFails, Exit, procVars, netVars, mountVars, ctrVars, relayVars, dataVars, IsoInv, IsoType, NetInv, OCI, Alive, Started, OfChroot, OfRuntime, Over
  <1>11. CASE ProtectNext
    BY Zenon, <1>11 DEF ProtectNext, procVars, netVars, mountVars, ctrVars, relayVars, dataVars, IsoInv, IsoType, NetInv, OCI, Alive, Started, OfChroot, OfRuntime, Over
  <1>12. CASE StartParent
    BY Zenon, <1>12 DEF StartParent, procVars, netVars, mountVars, ctrVars, relayVars, dataVars, IsoInv, IsoType, NetInv, OCI, Alive, Started, OfChroot, OfRuntime, Over
  <1>13. CASE ExecStep
    BY Zenon, <1>13 DEF ExecStep, procVars, netVars, mountVars, ctrVars, relayVars, dataVars, IsoInv, IsoType, NetInv, OCI, Alive, Started, OfChroot, OfRuntime, Over
  <1>14. CASE ExecStepDenied
    BY ZenonT(60), <1>14 DEF ExecStepDenied, Exit, procVars, netVars, mountVars, ctrVars, relayVars, dataVars, IsoInv, IsoType, NetInv, OCI, Alive, Started, OfChroot, OfRuntime, Over
  <1>15. CASE StartCommand
    BY Zenon, <1>15 DEF StartCommand, procVars, netVars, mountVars, ctrVars, relayVars, dataVars, IsoInv, IsoType, NetInv, OCI, Alive, Started, OfChroot, OfRuntime, Over
  <1>16. CASE CommandReaped
    BY ZenonT(60), <1>16 DEF CommandReaped, Exit, procVars, netVars, mountVars, ctrVars, relayVars, dataVars, IsoInv, IsoType, NetInv, OCI, Alive, Started, OfChroot, OfRuntime, Over
  <1>17. CASE CreateContainer
    BY ZenonT(60), <1>17 DEF CreateContainer, procVars, netVars, mountVars, ctrVars, relayVars, dataVars, IsoInv, IsoType, NetInv, OCI, Alive, Started, OfChroot, OfRuntime, Over
  <1>18. CASE CreateContainerFails
    BY ZenonT(60), <1>18 DEF CreateContainerFails, Exit, procVars, netVars, mountVars, ctrVars, relayVars, dataVars, IsoInv, IsoType, NetInv, OCI, Alive, Started, OfChroot, OfRuntime, Over
  <1>19. CASE SendCreateMessage
    BY ZenonT(60), <1>19 DEF SendCreateMessage, procVars, netVars, mountVars, ctrVars, relayVars, dataVars, IsoInv, IsoType, NetInv, OCI, Alive, Started, OfChroot, OfRuntime, Over
  <1>20. CASE AwaitStartMessage
    BY ZenonT(60), <1>20 DEF AwaitStartMessage, procVars, netVars, mountVars, ctrVars, relayVars, dataVars, IsoInv, IsoType, NetInv, OCI, Alive, Started, OfChroot, OfRuntime, Over
  <1>21. CASE StartContainer
    BY Zenon, <1>21 DEF StartContainer, procVars, netVars, mountVars, ctrVars, relayVars, dataVars, IsoInv, IsoType, NetInv, OCI, Alive, Started, OfChroot, OfRuntime, Over
  <1>22. CASE NotifySignals
    BY ZenonT(60), <1>22 DEF NotifySignals, procVars, netVars, mountVars, ctrVars, relayVars, dataVars, IsoInv, IsoType, NetInv, OCI, Alive, Started, OfChroot, OfRuntime, Over
  <1>23. CASE WatchContainer
    BY ZenonT(60), <1>23 DEF WatchContainer, procVars, netVars, mountVars, ctrVars, relayVars, dataVars, IsoInv, IsoType, NetInv, OCI, Alive, Started, OfChroot, OfRuntime, Over
  <1>24. CASE StateFails
    BY Zenon, <1>24 DEF StateFails, procVars, netVars, mountVars, ctrVars, relayVars, dataVars, IsoInv, IsoType, NetInv, OCI, Alive, Started, OfChroot, OfRuntime, Over
  <1>25. CASE WaitForStdio
    BY Zenon, <1>25 DEF WaitForStdio, procVars, netVars, mountVars, ctrVars, relayVars, dataVars, IsoInv, IsoType, NetInv, OCI, Alive, Started, OfChroot, OfRuntime, Over
  <1>26. CASE WaitForStatus
    BY ZenonT(60), <1>26 DEF WaitForStatus, procVars, netVars, mountVars, ctrVars, relayVars, dataVars, IsoInv, IsoType, NetInv, OCI, Alive, Started, OfChroot, OfRuntime, Over
  <1>27. CASE DeleteContainer
    BY ZenonT(60), <1>27 DEF DeleteContainer, Exit, PipesClosed, procVars, netVars, mountVars, ctrVars, relayVars, dataVars, IsoInv, IsoType, NetInv, OCI, Alive, Started, OfChroot, OfRuntime, Over
  <1>28. CASE Poll
    BY ZenonT(60), <1>28 DEF Poll, procVars, netVars, mountVars, ctrVars, relayVars, dataVars, IsoInv, IsoType, NetInv, OCI, Alive, Started, OfChroot, OfRuntime, Over
  <1>29. CASE HandleBrokenPipe
    BY ZenonT(60), <1>29 DEF HandleBrokenPipe, RelayReturns, procVars, netVars, mountVars, ctrVars, relayVars, dataVars, IsoInv, IsoType, NetInv, OCI, Alive, Started, OfChroot, OfRuntime, Over
  <1>30. CASE Handle
    BY ZenonT(60), <1>30 DEF Handle, RelayReturns, procVars, netVars, mountVars, ctrVars, relayVars, dataVars, IsoInv, IsoType, NetInv, OCI, Alive, Started, OfChroot, OfRuntime, Over
  <1>31. CASE CommandWrites
    BY ZenonT(60), <1>31 DEF CommandWrites, Dies, procVars, netVars, mountVars, ctrVars, relayVars, dataVars, IsoInv, IsoType, NetInv, OCI, Alive, Started, OfChroot, OfRuntime, Over
  <1>32. CASE CommandReads
    BY ZenonT(60), <1>32 DEF CommandReads, procVars, netVars, mountVars, ctrVars, relayVars, dataVars, IsoInv, IsoType, NetInv, OCI, Alive, Started, OfChroot, OfRuntime, Over
  <1>33. CASE CommandClosesStdin
    BY ZenonT(60), <1>33 DEF CommandClosesStdin, procVars, netVars, mountVars, ctrVars, relayVars, dataVars, IsoInv, IsoType, NetInv, OCI, Alive, Started, OfChroot, OfRuntime, Over
  <1>34. CASE CommandExits
    BY ZenonT(60), <1>34 DEF CommandExits, Dies, procVars, netVars, mountVars, ctrVars, relayVars, dataVars, IsoInv, IsoType, NetInv, OCI, Alive, Started, OfChroot, OfRuntime, Over
  <1>35. CASE Reap
    BY ZenonT(60), <1>35 DEF Reap, procVars, netVars, mountVars, ctrVars, relayVars, dataVars, IsoInv, IsoType, NetInv, OCI, Alive, Started, OfChroot, OfRuntime, Over
  <1>36. CASE Interrupt
    BY ZenonT(60), <1>36 DEF Interrupt, Dies, PipesClosed, procVars, netVars, mountVars, ctrVars, relayVars, dataVars, IsoInv, IsoType, NetInv, OCI, Alive, Started, OfChroot, OfRuntime, Over
  <1>37. CASE Terminated
    BY ZenonT(60), <1>37 DEF Terminated, procVars, netVars, mountVars, ctrVars, relayVars, dataVars, vars, IsoInv, IsoType, NetInv, OCI, Alive, Started, OfChroot, OfRuntime, Over
  <1>38. CASE UNCHANGED vars
    BY ZenonT(60), <1>38 DEF vars, procVars, netVars, mountVars, ctrVars, relayVars, dataVars, IsoInv, IsoType, NetInv, OCI, Alive, Started, OfChroot, OfRuntime, Over
  <1> QED
    BY <1>1, <1>2, <1>3, <1>4, <1>5, <1>6, <1>7, <1>8, <1>9, <1>10, <1>11, <1>12, <1>13, <1>14, <1>15, <1>16, <1>17, <1>18, <1>19, <1>20, <1>21, <1>22, <1>23, <1>24, <1>25, <1>26, <1>27, <1>28, <1>29, <1>30, <1>31, <1>32, <1>33, <1>34, <1>35, <1>36, <1>37, <1>38 DEF Next, Caller, Subprocess, Relay, Command

\* Every step keeps what the subprocess knows
LEMMA StatusStep ==
  ASSUME IsoInv, [Next]_vars
  PROVE  StatusInv'
  <1>1. CASE StartSubprocess
    <2>1. sub = "none" /\ sub' = "config" /\ UNCHANGED <<job, rc, result, ctrVars, relayVars>>
      BY Zenon, <1>1 DEF StartSubprocess, IsoInv, NetInv
    <2> QED
      BY Zenon, <2>1 DEF ctrVars, relayVars, IsoInv, StatusInv, ContainerDeleted, OCI, Before, Over
  <1>2. CASE CreateMessage
    BY ZenonT(60), <1>2 DEF CreateMessage, procVars, netVars, mountVars, ctrVars, relayVars, dataVars, IsoInv, IsoType, StatusInv, ContainerDeleted, OCI, Alive, Before, OfChroot, OfRuntime, Over
  <1>3. CASE SyncFails
    BY ZenonT(60), <1>3 DEF SyncFails, procVars, netVars, mountVars, ctrVars, relayVars, dataVars, IsoInv, IsoType, StatusInv, ContainerDeleted, OCI, Alive, Before, OfChroot, OfRuntime, Over
  <1>4. CASE ConfigureNetwork
    BY ZenonT(60), <1>4 DEF ConfigureNetwork, procVars, netVars, mountVars, ctrVars, relayVars, dataVars, IsoInv, IsoType, StatusInv, ContainerDeleted, OCI, Alive, Before, OfChroot, OfRuntime, Over
  <1>5. CASE NetworkFails
    BY ZenonT(60), <1>5 DEF NetworkFails, procVars, netVars, mountVars, ctrVars, relayVars, dataVars, IsoInv, IsoType, StatusInv, ContainerDeleted, OCI, Alive, Before, OfChroot, OfRuntime, Over
  <1>6. CASE SubprocessEnds
    BY ZenonT(60), <1>6 DEF SubprocessEnds, procVars, netVars, mountVars, ctrVars, relayVars, dataVars, IsoInv, IsoType, StatusInv, ContainerDeleted, OCI, Alive, Before, OfChroot, OfRuntime, Over
  <1>7. CASE ReadConfiguration
    BY Zenon, <1>7 DEF ReadConfiguration, procVars, netVars, mountVars, ctrVars, relayVars, dataVars, IsoInv, IsoType, StatusInv, ContainerDeleted, OCI, Alive, Before, OfChroot, OfRuntime, Over
  <1>8. CASE Stage
    BY Zenon, <1>8 DEF Stage, procVars, netVars, mountVars, ctrVars, relayVars, dataVars, IsoInv, IsoType, StatusInv, ContainerDeleted, OCI, Alive, Before, OfChroot, OfRuntime, Over
  <1>9. CASE MountNext
    BY ZenonT(60), <1>9 DEF MountNext, procVars, netVars, mountVars, ctrVars, relayVars, dataVars, IsoInv, IsoType, StatusInv, ContainerDeleted, OCI, Alive, Before, OfChroot, OfRuntime, Over
  <1>10. CASE MountNextFails
    BY SMTT(60), <1>10 DEF MountNextFails, Exit, procVars, netVars, mountVars, ctrVars, relayVars, dataVars, IsoInv, IsoType, StatusInv, ContainerDeleted, OCI, Alive, Before, OfChroot, OfRuntime, Over
  <1>11. CASE ProtectNext
    BY Zenon, <1>11 DEF ProtectNext, procVars, netVars, mountVars, ctrVars, relayVars, dataVars, IsoInv, IsoType, StatusInv, ContainerDeleted, OCI, Alive, Before, OfChroot, OfRuntime, Over
  <1>12. CASE StartParent
    BY Zenon, <1>12 DEF StartParent, procVars, netVars, mountVars, ctrVars, relayVars, dataVars, IsoInv, IsoType, StatusInv, ContainerDeleted, OCI, Alive, Before, OfChroot, OfRuntime, Over
  <1>13. CASE ExecStep
    BY <1>13 DEF ExecStep, procVars, netVars, mountVars, ctrVars, relayVars, dataVars, IsoInv, IsoType, StatusInv, ContainerDeleted, OCI, Alive, Before, OfChroot, OfRuntime, Over
  <1>14. CASE ExecStepDenied
    BY SMTT(60), <1>14 DEF ExecStepDenied, Exit, procVars, netVars, mountVars, ctrVars, relayVars, dataVars, IsoInv, IsoType, StatusInv, ContainerDeleted, OCI, Alive, Before, OfChroot, OfRuntime, Over
  <1>15. CASE StartCommand
    BY ZenonT(60), <1>15 DEF StartCommand, procVars, netVars, mountVars, ctrVars, relayVars, dataVars, IsoInv, IsoType, StatusInv, ContainerDeleted, OCI, Alive, Before, OfChroot, OfRuntime, Over
  <1>16. CASE CommandReaped
    BY Zenon, <1>16 DEF CommandReaped, Exit, procVars, netVars, mountVars, ctrVars, relayVars, dataVars, IsoInv, IsoType, StatusInv, ContainerDeleted, OCI, Alive, Before, OfChroot, OfRuntime, Over
  <1>17. CASE CreateContainer
    BY ZenonT(60), <1>17 DEF CreateContainer, procVars, netVars, mountVars, ctrVars, relayVars, dataVars, IsoInv, IsoType, StatusInv, ContainerDeleted, OCI, Alive, Before, OfChroot, OfRuntime, Over
  <1>18. CASE CreateContainerFails
    BY <1>18 DEF CreateContainerFails, Exit, procVars, netVars, mountVars, ctrVars, relayVars, dataVars, IsoInv, IsoType, StatusInv, ContainerDeleted, OCI, Alive, Before, OfChroot, OfRuntime, Over
  <1>19. CASE SendCreateMessage
    BY SMTT(60), <1>19 DEF SendCreateMessage, procVars, netVars, mountVars, ctrVars, relayVars, dataVars, IsoInv, IsoType, StatusInv, ContainerDeleted, OCI, Alive, Before, OfChroot, OfRuntime, Over
  <1>20. CASE AwaitStartMessage
    BY SMTT(60), <1>20 DEF AwaitStartMessage, procVars, netVars, mountVars, ctrVars, relayVars, dataVars, IsoInv, IsoType, StatusInv, ContainerDeleted, OCI, Alive, Before, OfChroot, OfRuntime, Over
  <1>21. CASE StartContainer
    BY SMTT(60), <1>21 DEF StartContainer, procVars, netVars, mountVars, ctrVars, relayVars, dataVars, IsoInv, IsoType, StatusInv, ContainerDeleted, OCI, Alive, Before, OfChroot, OfRuntime, Over
  <1>22. CASE NotifySignals
    BY ZenonT(60), <1>22 DEF NotifySignals, procVars, netVars, mountVars, ctrVars, relayVars, dataVars, IsoInv, IsoType, StatusInv, ContainerDeleted, OCI, Alive, Before, OfChroot, OfRuntime, Over
  <1>23. CASE WatchContainer
    BY ZenonT(60), <1>23 DEF WatchContainer, procVars, netVars, mountVars, ctrVars, relayVars, dataVars, IsoInv, IsoType, StatusInv, ContainerDeleted, OCI, Alive, Before, OfChroot, OfRuntime, Over
  <1>24. CASE StateFails
    BY SMTT(60), <1>24 DEF StateFails, procVars, netVars, mountVars, ctrVars, relayVars, dataVars, IsoInv, IsoType, StatusInv, ContainerDeleted, OCI, Alive, Before, OfChroot, OfRuntime, Over
  <1>25. CASE WaitForStdio
    BY ZenonT(60), <1>25 DEF WaitForStdio, procVars, netVars, mountVars, ctrVars, relayVars, dataVars, IsoInv, IsoType, StatusInv, ContainerDeleted, OCI, Alive, Before, OfChroot, OfRuntime, Over
  <1>26. CASE WaitForStatus
    BY ZenonT(60), <1>26 DEF WaitForStatus, procVars, netVars, mountVars, ctrVars, relayVars, dataVars, IsoInv, IsoType, StatusInv, ContainerDeleted, OCI, Alive, Before, OfChroot, OfRuntime, Over
  <1>27. CASE DeleteContainer
    BY Zenon, <1>27 DEF DeleteContainer, Exit, PipesClosed, procVars, netVars, mountVars, ctrVars, relayVars, dataVars, IsoInv, IsoType, StatusInv, ContainerDeleted, OCI, Alive, Before, OfChroot, OfRuntime, Over
  <1>28. CASE Poll
    BY ZenonT(60), <1>28 DEF Poll, procVars, netVars, mountVars, ctrVars, relayVars, dataVars, IsoInv, IsoType, StatusInv, ContainerDeleted, OCI, Alive, Before, OfChroot, OfRuntime, Over
  <1>29. CASE HandleBrokenPipe
    BY Zenon, <1>29 DEF HandleBrokenPipe, RelayReturns, procVars, netVars, mountVars, ctrVars, relayVars, dataVars, IsoInv, IsoType, StatusInv, ContainerDeleted, OCI, Alive, Before, OfChroot, OfRuntime, Over
  <1>30. CASE Handle
    BY Zenon, <1>30 DEF Handle, RelayReturns, procVars, netVars, mountVars, ctrVars, relayVars, dataVars, IsoInv, IsoType, StatusInv, ContainerDeleted, OCI, Alive, Before, OfChroot, OfRuntime, Over
  <1>31. CASE CommandWrites
    BY Zenon, <1>31 DEF CommandWrites, Dies, procVars, netVars, mountVars, ctrVars, relayVars, dataVars, IsoInv, IsoType, StatusInv, ContainerDeleted, OCI, Alive, Before, OfChroot, OfRuntime, Over
  <1>32. CASE CommandReads
    BY Zenon, <1>32 DEF CommandReads, procVars, netVars, mountVars, ctrVars, relayVars, dataVars, IsoInv, IsoType, StatusInv, ContainerDeleted, OCI, Alive, Before, OfChroot, OfRuntime, Over
  <1>33. CASE CommandClosesStdin
    BY Zenon, <1>33 DEF CommandClosesStdin, procVars, netVars, mountVars, ctrVars, relayVars, dataVars, IsoInv, IsoType, StatusInv, ContainerDeleted, OCI, Alive, Before, OfChroot, OfRuntime, Over
  <1>34. CASE CommandExits
    BY ZenonT(60), <1>34 DEF CommandExits, Dies, procVars, netVars, mountVars, ctrVars, relayVars, dataVars, IsoInv, IsoType, StatusInv, ContainerDeleted, OCI, Alive, Before, OfChroot, OfRuntime, Over
  <1>35. CASE Reap
    BY Zenon, <1>35 DEF Reap, procVars, netVars, mountVars, ctrVars, relayVars, dataVars, IsoInv, IsoType, StatusInv, ContainerDeleted, OCI, Alive, Before, OfChroot, OfRuntime, Over
  <1>36. CASE Interrupt
    BY Zenon, <1>36 DEF Interrupt, Dies, PipesClosed, procVars, netVars, mountVars, ctrVars, relayVars, dataVars, IsoInv, IsoType, StatusInv, ContainerDeleted, OCI, Alive, Before, OfChroot, OfRuntime, Over
  <1>37. CASE Terminated
    BY ZenonT(60), <1>37 DEF Terminated, procVars, netVars, mountVars, ctrVars, relayVars, dataVars, vars, IsoInv, IsoType, StatusInv, ContainerDeleted, OCI, Alive, Before, OfChroot, OfRuntime, Over
  <1>38. CASE UNCHANGED vars
    BY ZenonT(60), <1>38 DEF vars, procVars, netVars, mountVars, ctrVars, relayVars, dataVars, IsoInv, IsoType, StatusInv, ContainerDeleted, OCI, Alive, Before, OfChroot, OfRuntime, Over
  <1> QED
    BY <1>1, <1>2, <1>3, <1>4, <1>5, <1>6, <1>7, <1>8, <1>9, <1>10, <1>11, <1>12, <1>13, <1>14, <1>15, <1>16, <1>17, <1>18, <1>19, <1>20, <1>21, <1>22, <1>23, <1>24, <1>25, <1>26, <1>27, <1>28, <1>29, <1>30, <1>31, <1>32, <1>33, <1>34, <1>35, <1>36, <1>37, <1>38 DEF Next, Caller, Subprocess, Relay, Command

\* No output is lost on its way
LEMMA RelayStep ==
  ASSUME IsoInv, [Next]_vars
  PROVE  RelayInv'
  <1>1. CASE StartSubprocess
    <2>1. sub = "none" /\ sub' = "config" /\ UNCHANGED <<ctrVars, relayVars, dataVars>>
      BY Zenon, <1>1 DEF StartSubprocess, IsoInv, NetInv
    <2> QED
      BY ZenonT(60), <2>1 DEF ctrVars, relayVars, dataVars, IsoInv, RelayInv
  <1>2. CASE CreateMessage
    BY ZenonT(60), <1>2 DEF CreateMessage, procVars, netVars, mountVars, ctrVars, relayVars, dataVars, IsoInv, IsoType, StatusInv, RelayInv, Output, OCI, Alive, Before, OfChroot, OfRuntime, Over
  <1>3. CASE SyncFails
    BY ZenonT(60), <1>3 DEF SyncFails, procVars, netVars, mountVars, ctrVars, relayVars, dataVars, IsoInv, IsoType, StatusInv, RelayInv, Output, OCI, Alive, Before, OfChroot, OfRuntime, Over
  <1>4. CASE ConfigureNetwork
    BY ZenonT(60), <1>4 DEF ConfigureNetwork, procVars, netVars, mountVars, ctrVars, relayVars, dataVars, IsoInv, IsoType, StatusInv, RelayInv, Output, OCI, Alive, Before, OfChroot, OfRuntime, Over
  <1>5. CASE NetworkFails
    BY ZenonT(60), <1>5 DEF NetworkFails, procVars, netVars, mountVars, ctrVars, relayVars, dataVars, IsoInv, IsoType, StatusInv, RelayInv, Output, OCI, Alive, Before, OfChroot, OfRuntime, Over
  <1>6. CASE SubprocessEnds
    BY Zenon, <1>6 DEF SubprocessEnds, procVars, netVars, mountVars, ctrVars, relayVars, dataVars, IsoInv, IsoType, StatusInv, RelayInv, Output, OCI, Alive, Before, OfChroot, OfRuntime, Over
  <1>7. CASE ReadConfiguration
    <2>1. /\ relay = "none" /\ relay' \in {"none", "poll"}
          /\ ctr = "none" /\ finish = FALSE /\ reaped = FALSE
          /\ UNCHANGED <<ctrVars, polled, finish, dataVars>>
      BY Zenon, <1>7 DEF ReadConfiguration, IsoInv, IsoType, StatusInv, Before, OCI, Over
    <2> QED
      BY Zenon, <2>1 DEF ctrVars, dataVars, IsoInv, RelayInv
  <1>8. CASE Stage
    BY Zenon, <1>8 DEF Stage, procVars, netVars, mountVars, ctrVars, relayVars, dataVars, IsoInv, IsoType, StatusInv, RelayInv, Output, OCI, Alive, Before, OfChroot, OfRuntime, Over
  <1>9. CASE MountNext
    BY Zenon, <1>9 DEF MountNext, procVars, netVars, mountVars, ctrVars, relayVars, dataVars, IsoInv, IsoType, StatusInv, RelayInv, Output, OCI, Alive, Before, OfChroot, OfRuntime, Over
  <1>10. CASE MountNextFails
    BY Zenon, <1>10 DEF MountNextFails, Exit, procVars, netVars, mountVars, ctrVars, relayVars, dataVars, IsoInv, IsoType, StatusInv, RelayInv, Output, OCI, Alive, Before, OfChroot, OfRuntime, Over
  <1>11. CASE ProtectNext
    BY ZenonT(60), <1>11 DEF ProtectNext, procVars, netVars, mountVars, ctrVars, relayVars, dataVars, IsoInv, IsoType, StatusInv, RelayInv, Output, OCI, Alive, Before, OfChroot, OfRuntime, Over
  <1>12. CASE StartParent
    BY Zenon, <1>12 DEF StartParent, procVars, netVars, mountVars, ctrVars, relayVars, dataVars, IsoInv, IsoType, StatusInv, RelayInv, Output, OCI, Alive, Before, OfChroot, OfRuntime, Over
  <1>13. CASE ExecStep
    BY Zenon, <1>13 DEF ExecStep, procVars, netVars, mountVars, ctrVars, relayVars, dataVars, IsoInv, IsoType, StatusInv, RelayInv, Output, OCI, Alive, Before, OfChroot, OfRuntime, Over
  <1>14. CASE ExecStepDenied
    BY ZenonT(60), <1>14 DEF ExecStepDenied, Exit, procVars, netVars, mountVars, ctrVars, relayVars, dataVars, IsoInv, IsoType, StatusInv, RelayInv, Output, OCI, Alive, Before, OfChroot, OfRuntime, Over
  <1>15. CASE StartCommand
    BY Zenon, <1>15 DEF StartCommand, procVars, netVars, mountVars, ctrVars, relayVars, dataVars, IsoInv, IsoType, StatusInv, RelayInv, Output, OCI, Alive, Before, OfChroot, OfRuntime, Over
  <1>16. CASE CommandReaped
    BY Zenon, <1>16 DEF CommandReaped, Exit, procVars, netVars, mountVars, ctrVars, relayVars, dataVars, IsoInv, IsoType, StatusInv, RelayInv, Output, OCI, Alive, Before, OfChroot, OfRuntime, Over
  <1>17. CASE CreateContainer
    BY Zenon, <1>17 DEF CreateContainer, procVars, netVars, mountVars, ctrVars, relayVars, dataVars, IsoInv, IsoType, StatusInv, RelayInv, Output, OCI, Alive, Before, OfChroot, OfRuntime, Over
  <1>18. CASE CreateContainerFails
    BY Zenon, <1>18 DEF CreateContainerFails, Exit, procVars, netVars, mountVars, ctrVars, relayVars, dataVars, IsoInv, IsoType, StatusInv, RelayInv, Output, OCI, Alive, Before, OfChroot, OfRuntime, Over
  <1>19. CASE SendCreateMessage
    BY Zenon, <1>19 DEF SendCreateMessage, procVars, netVars, mountVars, ctrVars, relayVars, dataVars, IsoInv, IsoType, StatusInv, RelayInv, Output, OCI, Alive, Before, OfChroot, OfRuntime, Over
  <1>20. CASE AwaitStartMessage
    BY Zenon, <1>20 DEF AwaitStartMessage, procVars, netVars, mountVars, ctrVars, relayVars, dataVars, IsoInv, IsoType, StatusInv, RelayInv, Output, OCI, Alive, Before, OfChroot, OfRuntime, Over
  <1>21. CASE StartContainer
    <2>1. /\ relay = "none" /\ relay' = "poll" /\ finish = FALSE /\ reaped = FALSE
          /\ ctr' \in {"none", "created", "running"}
          /\ UNCHANGED <<reaped, polled, finish, dataVars>>
      BY Zenon, <1>21 DEF StartContainer, IsoInv, IsoType, StatusInv, Before, OfRuntime, OCI, Over
    <2> QED
      BY Zenon, <2>1 DEF dataVars, IsoInv, RelayInv
  <1>22. CASE NotifySignals
    BY Zenon, <1>22 DEF NotifySignals, procVars, netVars, mountVars, ctrVars, relayVars, dataVars, IsoInv, IsoType, StatusInv, RelayInv, Output, OCI, Alive, Before, OfChroot, OfRuntime, Over
  <1>23. CASE WatchContainer
    BY Zenon, <1>23 DEF WatchContainer, procVars, netVars, mountVars, ctrVars, relayVars, dataVars, IsoInv, IsoType, StatusInv, RelayInv, Output, OCI, Alive, Before, OfChroot, OfRuntime, Over
  <1>24. CASE StateFails
    BY ZenonT(60), <1>24 DEF StateFails, procVars, netVars, mountVars, ctrVars, relayVars, dataVars, IsoInv, IsoType, StatusInv, RelayInv, Output, OCI, Alive, Before, OfChroot, OfRuntime, Over
  <1>25. CASE WaitForStdio
    BY Zenon, <1>25 DEF WaitForStdio, procVars, netVars, mountVars, ctrVars, relayVars, dataVars, IsoInv, IsoType, StatusInv, RelayInv, Output, OCI, Alive, Before, OfChroot, OfRuntime, Over
  <1>26. CASE WaitForStatus
    BY Zenon, <1>26 DEF WaitForStatus, procVars, netVars, mountVars, ctrVars, relayVars, dataVars, IsoInv, IsoType, StatusInv, RelayInv, Output, OCI, Alive, Before, OfChroot, OfRuntime, Over
  <1>27. CASE DeleteContainer
    BY Zenon, <1>27 DEF DeleteContainer, Exit, PipesClosed, procVars, netVars, mountVars, ctrVars, relayVars, dataVars, IsoInv, IsoType, StatusInv, RelayInv, Output, OCI, Alive, Before, OfChroot, OfRuntime, Over
  <1>28. CASE Poll
    <2>1. revents' = Ready /\ relay = "poll" /\ UNCHANGED <<procVars, ctrVars, polled, finish, out>>
      BY Zenon, <1>28 DEF Poll, dataVars
    <2>2. /\ "out" \in Ready => out.pipe >= 1
          /\ "outHup" \in Ready => ~out.write /\ "out" \in polled
          /\ "out" \in polled /\ out.pipe >= 1 => "out" \in Ready
          /\ "out" \in polled /\ ~out.write => "outHup" \in Ready
          /\ "finish" \in Ready => finish
      BY DEF Ready, IsoInv, IsoType, Output
    <2>3. out.pipe \in Nat
      BY Zenon DEF IsoInv, IsoType, Output
    <2>4. relay' = "handle"
      BY Zenon, <1>28 DEF Poll
    <2> QED
      BY SMTT(60), <2>1, <2>2, <2>3, <2>4 DEF procVars, ctrVars, IsoInv, RelayInv
  <1>29. CASE HandleBrokenPipe
    <2>1. PICK o \in {OutRead, OutDrained(OutRead)} : relay' = "broken" /\ out' = [o EXCEPT !.read = FALSE]
      BY Zenon, <1>29 DEF HandleBrokenPipe, RelayReturns
    <2>2. relay = "handle" /\ UNCHANGED <<sub, ctr, reaped, polled, finish>>
      BY Zenon, <1>29 DEF HandleBrokenPipe, procVars, ctrVars
    <2>3. /\ OutRead \in Output /\ OutRead.wrote = out.wrote /\ OutRead.shown = out.shown
          /\ OutRead.write = out.write /\ OutRead.read = out.read
          /\ OutRead.pipe + OutRead.buf = out.pipe + out.buf
          /\ out.pipe = 0 \/ "outHup" \in revents => OutRead.pipe = 0
      BY ZenonT(60), <2>2, OutIsRead DEF IsoInv
    <2>4. /\ o \in Output /\ o.wrote = out.wrote /\ o.write = out.write
          /\ o.shown + o.buf + o.pipe = out.shown + out.buf + out.pipe
          /\ out.pipe = 0 => o.pipe = 0
      <3>1. CASE o = OutRead
        BY SMTT(60), <2>3, <3>1 DEF Output, IsoInv, IsoType
      <3>2. CASE o = OutDrained(OutRead)
        <4>1. /\ o \in Output /\ o.wrote = OutRead.wrote /\ o.pipe = OutRead.pipe /\ o.buf = 0
              /\ o.shown = OutRead.shown + OutRead.buf /\ o.write = OutRead.write
          BY <2>3, <3>2, OutShows, Zenon
        <4> QED
          BY SMTT(60), <2>3, <4>1 DEF Output, IsoInv, IsoType
      <3> QED
        BY ZenonT(60), <3>1, <3>2
    <2>5. /\ out'.wrote = o.wrote /\ out'.write = o.write /\ out'.shown = o.shown
          /\ out'.buf = o.buf /\ out'.pipe = o.pipe
      BY <2>1, <2>4, OutClosed, Zenon
    <2> QED
      BY ZenonT(60), <2>1, <2>2, <2>4, <2>5 DEF IsoInv, RelayInv
  <1>30. CASE Handle
    <2> DEFINE d == OutDrained(OutRead)
    <2>1. relay = "handle" /\ UNCHANGED <<sub, ctr, reaped, finish>>
      BY Zenon, <1>30 DEF Handle, procVars, ctrVars
    <2>2. /\ OutRead \in Output /\ OutRead.wrote = out.wrote /\ OutRead.shown = out.shown
          /\ OutRead.write = out.write /\ OutRead.read = out.read
          /\ OutRead.pipe + OutRead.buf = out.pipe + out.buf
          /\ out.pipe = 0 \/ "outHup" \in revents => OutRead.pipe = 0
      BY ZenonT(60), <2>1, OutIsRead DEF IsoInv
    <2>3. /\ d \in Output /\ d.wrote = OutRead.wrote /\ d.pipe = OutRead.pipe /\ d.buf = 0
          /\ d.shown = OutRead.shown + OutRead.buf /\ d.write = OutRead.write
      BY <2>2, OutShows, Zenon
    <2>4. \/ relay' = "poll" /\ out' = d
          \/ relay' = "done" /\ out' = [d EXCEPT !.read = FALSE]
      BY ZenonT(60), <1>30 DEF Handle, RelayReturns
    <2>10. /\ relay' = "done" => "finish" \in revents \/ polled' = {}
           /\ "out" \in polled /\ "outHup" \notin revents => "out" \in polled'
      BY ZenonT(60), <1>30 DEF Handle, RelayReturns
    <2> HIDE DEF d
    <2>5. /\ out'.wrote = d.wrote /\ out'.write = d.write /\ out'.shown = d.shown
          /\ out'.buf = d.buf /\ out'.pipe = d.pipe /\ (relay' = "done" => ~out'.read)
      <3>1. CASE relay' = "poll" /\ out' = d
        BY ZenonT(60), <3>1
      <3>2. CASE out' = [d EXCEPT !.read = FALSE]
        BY <2>3, <3>2, OutClosed, Zenon
      <3> QED
        BY ZenonT(60), <2>4, <3>1, <3>2
    <2>6. /\ out.pipe \in Nat /\ out.buf \in Nat /\ out.shown \in Nat
          /\ OutRead.pipe \in Nat /\ OutRead.buf \in Nat
      BY Zenon, <2>2 DEF IsoInv, IsoType, Output
    <2>7. out'.shown + out'.buf + out'.pipe = out'.wrote
      BY SMTT(60), <2>2, <2>3, <2>5, <2>6 DEF IsoInv, RelayInv
    <2>8. "outHup" \in revents \/ "out" \notin polled => out'.pipe = 0 /\ ~out'.write
      BY ZenonT(60), <2>1, <2>2, <2>3, <2>5 DEF IsoInv, RelayInv
    <2>9. relay' = "done" => "outHup" \in revents \/ "out" \notin polled
      BY ZenonT(60), <2>1, <2>10 DEF IsoInv, RelayInv
    <2> QED
      BY ZenonT(60), <2>1, <2>2, <2>3, <2>4, <2>5, <2>7, <2>8, <2>9, <2>10 DEF IsoInv, RelayInv
  <1>31. CASE CommandWrites
    <2>1. /\ ctr = "running" /\ out.write /\ out \in Output
          /\ UNCHANGED <<sub, reaped, relay, polled, revents, finish>>
      BY Zenon, <1>31 DEF CommandWrites, procVars, relayVars, IsoInv, IsoType
    <2>2. ~reaped /\ "out" \in polled
      BY Zenon, <2>1 DEF IsoInv, StatusInv, RelayInv
    <2>3. CASE out.read
      <3>1. out' = [out EXCEPT !.pipe = @ + 1, !.wrote = @ + 1] /\ ctr' = ctr
        BY Zenon, <1>31, <2>3 DEF CommandWrites
      <3>2. /\ out'.wrote = out.wrote + 1 /\ out'.pipe = out.pipe + 1 /\ out'.buf = out.buf
            /\ out'.shown = out.shown /\ out'.write = out.write
        BY <2>1, <3>1, OutGrows, Zenon
      <3>3. /\ out.wrote \in Nat /\ out.pipe \in Nat /\ out.buf \in Nat /\ out.shown \in Nat
        BY Zenon, <2>1 DEF Output
      <3> QED
        BY SMTT(60), <2>1, <2>2, <2>3, <3>1, <3>2, <3>3 DEF IsoInv, RelayInv
    <2>4. CASE ~out.read
      <3>1. out' = [out EXCEPT !.write = FALSE]
        BY Zenon, <1>31, <2>4 DEF CommandWrites, Dies
      <3>2. /\ out'.wrote = out.wrote /\ out'.pipe = out.pipe /\ out'.buf = out.buf
            /\ out'.shown = out.shown /\ ~out'.write /\ out'.read = out.read
        BY <2>1, <3>1, OutClosed, Zenon
      <3> QED
        BY Zenon, <2>1, <2>2, <3>2 DEF IsoInv, RelayInv
    <2> QED
      BY Zenon, <2>3, <2>4
  <1>32. CASE CommandReads
    BY Zenon, <1>32 DEF CommandReads, procVars, netVars, mountVars, ctrVars, relayVars, dataVars, IsoInv, IsoType, StatusInv, RelayInv, Output, OCI, Alive, Before, OfChroot, OfRuntime, Over
  <1>33. CASE CommandClosesStdin
    BY Zenon, <1>33 DEF CommandClosesStdin, procVars, netVars, mountVars, ctrVars, relayVars, dataVars, IsoInv, IsoType, StatusInv, RelayInv, Output, OCI, Alive, Before, OfChroot, OfRuntime, Over
  <1>34. CASE CommandExits
    BY Zenon, <1>34 DEF CommandExits, Dies, procVars, netVars, mountVars, ctrVars, relayVars, dataVars, IsoInv, IsoType, StatusInv, RelayInv, Output, OCI, Alive, Before, OfChroot, OfRuntime, Over
  <1>35. CASE Reap
    BY Zenon, <1>35 DEF Reap, procVars, netVars, mountVars, ctrVars, relayVars, dataVars, IsoInv, IsoType, StatusInv, RelayInv, Output, OCI, Alive, Before, OfChroot, OfRuntime, Over
  <1>36. CASE Interrupt
    BY ZenonT(60), <1>36 DEF Interrupt, Dies, PipesClosed, procVars, netVars, mountVars, ctrVars, relayVars, dataVars, IsoInv, IsoType, StatusInv, RelayInv, Output, OCI, Alive, Before, OfChroot, OfRuntime, Over
  <1>37. CASE Terminated
    BY Zenon, <1>37 DEF Terminated, procVars, netVars, mountVars, ctrVars, relayVars, dataVars, vars, IsoInv, IsoType, StatusInv, RelayInv, Output, OCI, Alive, Before, OfChroot, OfRuntime, Over
  <1>38. CASE UNCHANGED vars
    BY ZenonT(60), <1>38 DEF vars, procVars, netVars, mountVars, ctrVars, relayVars, dataVars, IsoInv, IsoType, StatusInv, RelayInv, Output, OCI, Alive, Before, OfChroot, OfRuntime, Over
  <1> QED
    BY <1>1, <1>2, <1>3, <1>4, <1>5, <1>6, <1>7, <1>8, <1>9, <1>10, <1>11, <1>12, <1>13, <1>14, <1>15, <1>16, <1>17, <1>18, <1>19, <1>20, <1>21, <1>22, <1>23, <1>24, <1>25, <1>26, <1>27, <1>28, <1>29, <1>30, <1>31, <1>32, <1>33, <1>34, <1>35, <1>36, <1>37, <1>38 DEF Next, Caller, Subprocess, Relay, Command

-----------------------------------------------------------------------------
\* The initial states satisfy the invariant
LEMMA InitIso == Init => IsoInv
  <1> SUFFICES ASSUME Init PROVE IsoInv
    OBVIOUS
  <1>1. IsoType
    BY Zenon DEF Init, InitPipes, IsoType, OCI, OfChroot, OfRuntime, Over, Output
  <1>2. NetInv
    BY Zenon DEF Init, NetInv, Started, Alive
  <1>3. StatusInv
    BY Zenon DEF Init, StatusInv, Before, Over, ContainerDeleted
  <1>4. RelayInv
    BY DEF Init, InitPipes, RelayInv
  <1> QED
    BY ZenonT(60), <1>1, <1>2, <1>3, <1>4 DEF IsoInv

LEMMA IsoAlways == Spec => []IsoInv
  <1>1. IsoInv /\ [Next]_vars => IsoInv'
    BY ZenonT(60), TypeStep, NetStep, StatusStep, RelayStep DEF IsoInv
  <1> QED
    BY SMTT(60), <1>1, InitIso, PTL DEF Spec

\* Run says "ok" only for a command that exited with status 0, and a runtime's
\* subprocess that has waited for its relay has passed on all that the command
\* wrote, whichever of reaper, watcher and relay comes first.
THEOREM ResultsArrive == Spec => []ResultArrives
  <1>1. IsoInv => ResultArrives
    <2> SUFFICES ASSUME IsoInv PROVE ResultArrives
      OBVIOUS
    <2>1. StatusKept
      BY DEF IsoInv, StatusInv, StatusKept
    <2>2. OutputComplete
      <3>1. /\ out.wrote \in Nat /\ out.shown \in Nat /\ out.shown + out.buf + out.pipe = out.wrote
            /\ relay = "done" => out.buf = 0 /\ out.pipe = 0
        BY Zenon DEF IsoInv, IsoType, Output, RelayInv
      <3> QED
        BY SMTT(60), <3>1 DEF OutputComplete
    <2> QED
      BY ZenonT(60), <2>1, <2>2 DEF ResultArrives
  <1> QED
    BY SMTT(60), <1>1, IsoAlways, PTL

\* A container with a network runs only while the network is up, and a subprocess
\* that ended by itself has deleted the container, whatever message is late or lost.
THEOREM ContainersBounded == Spec => []ContainerBounded
  <1>1. IsoInv => ContainerBounded
    BY Zenon DEF IsoInv, NetInv, StatusInv, ContainerBounded, NetworkUp
  <1> QED
    BY <1>1, IsoAlways, PTL

-----------------------------------------------------------------------------
\* The steps that are left, one after the other
LEMMA LeftSteps ==
  ASSUME NEW k \in 1 .. 11
  PROVE  /\ Len(Left(k)) = 11 - k
         /\ k < 11 => Left(k)[1] = ExecSteps[k] /\ Tail(Left(k)) = Left(k + 1)
  <1> DEFINE All == {ExecSteps[i] : i \in 1 .. 10}
             L(n) == [i \in 1 .. 11 - n |-> ExecSteps[i + n - 1]]
  <1>1. \A n \in 1 .. 11 : \A i \in 1 .. 11 - n : i + n - 1 \in 1 .. 10
    OBVIOUS
  <1>2. \A n \in 1 .. 11 : 11 - n \in Nat /\ L(n) \in [1 .. 11 - n -> All]
    BY SMTT(60), <1>1
  <1>3. \A n \in 1 .. 11 : L(n) \in Seq(All) /\ Len(L(n)) = 11 - n
    BY SMTT(60), <1>2
  <1>4. k < 11 => k + 1 \in 1 .. 11
    BY SMTT(60)
  <1>5. ASSUME k < 11 PROVE Tail(L(k)) = L(k + 1) /\ L(k)[1] = ExecSteps[k]
    <2>1. L(k) # <<>> /\ 1 \in 1 .. 11 - k
      BY SMTT(60), <1>3, <1>5
    <2>2. Tail(L(k)) = [i \in 1 .. 10 - k |-> L(k)[i + 1]]
      BY SMTT(60), <1>3, <1>5, <2>1
    <2>3. \A i \in 1 .. 10 - k : i + 1 \in 1 .. 11 - k /\ (i + 1) + k - 1 = i + (k + 1) - 1
      BY SMTT(60), <1>5
    <2> QED
      BY SMTT(60), <2>1, <2>2, <2>3
  <1> QED
    BY ZenonT(60), <1>3, <1>5 DEF Left

\* A change of one of the privileges leaves the others alone
LEMMA SetCaps ==
  ASSUME NEW p \in Privileged, NEW v \in SUBSET AllCaps
  PROVE  LET q == [p EXCEPT !.caps = v]
         IN /\ q \in Privileged
            /\ q.caps = v /\ q.uid = p.uid /\ q.gid = p.gid /\ q.hard = p.hard /\ q.denied = p.denied
  BY DEF Privileged

LEMMA SetUid ==
  ASSUME NEW p \in Privileged, NEW v \in Nat
  PROVE  LET q == [p EXCEPT !.uid = v]
         IN /\ q \in Privileged
            /\ q.caps = p.caps /\ q.uid = v /\ q.gid = p.gid /\ q.hard = p.hard /\ q.denied = p.denied
  BY DEF Privileged

LEMMA SetGid ==
  ASSUME NEW p \in Privileged, NEW v \in Nat
  PROVE  LET q == [p EXCEPT !.gid = v]
         IN /\ q \in Privileged
            /\ q.caps = p.caps /\ q.uid = p.uid /\ q.gid = v /\ q.hard = p.hard /\ q.denied = p.denied
  BY DEF Privileged

LEMMA SetHard ==
  ASSUME NEW p \in Privileged, NEW v \in Nat
  PROVE  LET q == [p EXCEPT !.hard = v]
         IN /\ q \in Privileged
            /\ q.caps = p.caps /\ q.uid = p.uid /\ q.gid = p.gid /\ q.hard = v /\ q.denied = p.denied
  BY DEF Privileged

LEMMA SetDenied ==
  ASSUME NEW p \in Privileged, NEW v \in BOOLEAN
  PROVE  LET q == [p EXCEPT !.denied = v]
         IN /\ q \in Privileged
            /\ q.caps = p.caps /\ q.uid = p.uid /\ q.gid = p.gid /\ q.hard = p.hard /\ q.denied = v
  BY DEF Privileged

\* Every step is permitted, and leaves the privileges the next one needs
LEMMA ExecAllowed ==
  ASSUME IsoInv, PrivInv, sub = "exec", NEW k \in 1 .. 9, Kept(k)
  PROVE  /\ Permitted(ExecSteps[k][1], ExecSteps[k][2])
         /\ LET q == Privileges(ExecSteps[k][1])
            IN /\ q \in Privileged /\ q.denied = priv.denied
               /\ q.caps = IF k < 8 THEN AllCaps
                           ELSE IF job.uid = 0 THEN job.caps
                           ELSE IF k = 8 THEN job.caps \cup {"SETUID"} ELSE {}
               /\ q.uid = IF k < 9 THEN 0 ELSE job.uid
               /\ q.gid = IF k < 6 THEN 0 ELSE job.uid
               /\ IF k < 3 THEN job.limit <= q.hard ELSE q.hard = job.limit
  <1>1. /\ priv \in Privileged /\ job.limit \in Nat /\ job.uid \in Nat /\ job.caps \subseteq AllCaps
        /\ ~OCI
    BY Zenon, RequestAssumption DEF PrivInv, IsoInv, IsoType, OfChroot
  <1>2. CASE k = 1
    <2>1. ExecSteps[k][1] = "chroot" /\ ExecSteps[k][2] = {"SYS_CHROOT"}
      BY ZenonT(60), <1>2 DEF ExecSteps
    <2>2. Permitted(ExecSteps[k][1], ExecSteps[k][2])
      BY SMTT(60), <1>1, <1>2, <2>1 DEF Permitted, Kept, AllCaps
    <2>3. Privileges(ExecSteps[k][1]) = priv
      BY ZenonT(60), <2>1 DEF Privileges
    <2> QED
      BY SMTT(60), <1>1, <1>2, <2>2, <2>3 DEF Kept
  <1>3. CASE k = 2
    <2>1. ExecSteps[k][1] = "confine" /\ ExecSteps[k][2] = {}
      BY ZenonT(60), <1>3 DEF ExecSteps
    <2>2. Permitted(ExecSteps[k][1], ExecSteps[k][2])
      BY ZenonT(60), <1>1, <1>3, <2>1 DEF Permitted, Kept, AllCaps
    <2>3. Privileges(ExecSteps[k][1]) = priv
      BY ZenonT(60), <2>1 DEF Privileges
    <2> QED
      BY SMTT(60), <1>1, <1>3, <2>2, <2>3 DEF Kept
  <1>4. CASE k = 3
    <2>1. ExecSteps[k][1] = "rlimits" /\ ExecSteps[k][2] = {}
      BY ZenonT(60), <1>4 DEF ExecSteps
    <2>2. Permitted(ExecSteps[k][1], ExecSteps[k][2])
      BY SMTT(60), <1>1, <1>4, <2>1 DEF Permitted, Kept, AllCaps
    <2>3. PICK q : q = [priv EXCEPT !.hard = job.limit]
      BY ZenonT(30)
    <2>4. Privileges(ExecSteps[k][1]) = q
      BY ZenonT(60), <2>1, <2>3 DEF Privileges
    <2>5. /\ q \in Privileged
          /\ q.caps = priv.caps /\ q.uid = priv.uid /\ q.gid = priv.gid /\ q.hard = job.limit /\ q.denied = priv.denied
      BY <1>1, <2>3, SetHard, ZenonT(60)
    <2> QED
      BY SMTT(60), <1>4, <2>2, <2>4, <2>5 DEF Kept
  <1>5. CASE k = 4
    <2>1. ExecSteps[k][1] = "chdir" /\ ExecSteps[k][2] = {}
      BY ZenonT(60), <1>5 DEF ExecSteps
    <2>2. Permitted(ExecSteps[k][1], ExecSteps[k][2])
      BY ZenonT(60), <1>1, <1>5, <2>1 DEF Permitted, Kept, AllCaps
    <2>3. Privileges(ExecSteps[k][1]) = priv
      BY Zenon, <2>1 DEF Privileges
    <2> QED
      BY SMTT(60), <1>1, <1>5, <2>2, <2>3 DEF Kept
  <1>6. CASE k = 5
    <2>1. ExecSteps[k][1] = "groups" /\ ExecSteps[k][2] = {"SETGID"}
      BY ZenonT(60), <1>6 DEF ExecSteps
    <2>2. Permitted(ExecSteps[k][1], ExecSteps[k][2])
      BY SMTT(60), <1>1, <1>6, <2>1 DEF Permitted, Kept, AllCaps
    <2>3. Privileges(ExecSteps[k][1]) = priv
      BY ZenonT(60), <2>1 DEF Privileges
    <2> QED
      BY SMTT(60), <1>1, <1>6, <2>2, <2>3 DEF Kept
  <1>7. CASE k = 6
    <2>1. ExecSteps[k][1] = "gid" /\ ExecSteps[k][2] = {"SETGID"}
      BY Zenon, <1>7 DEF ExecSteps
    <2>2. Permitted(ExecSteps[k][1], ExecSteps[k][2])
      BY SMTT(60), <1>1, <1>7, <2>1 DEF Permitted, Kept, AllCaps
    <2>3. PICK q : q = [priv EXCEPT !.gid = job.uid]
      BY Zenon
    <2>4. Privileges(ExecSteps[k][1]) = q
      BY ZenonT(60), <2>1, <2>3 DEF Privileges
    <2>5. /\ q \in Privileged
          /\ q.caps = priv.caps /\ q.uid = priv.uid /\ q.gid = job.uid /\ q.hard = priv.hard /\ q.denied = priv.denied
      BY <1>1, <2>3, SetGid, Zenon
    <2> QED
      BY SMTT(60), <1>7, <2>2, <2>4, <2>5 DEF Kept
  <1>8. CASE k = 7
    <2>1. ExecSteps[k][1] = "seccomp" /\ ExecSteps[k][2] = {"SYS_ADMIN"}
      BY Zenon, <1>8 DEF ExecSteps
    <2>2. Permitted(ExecSteps[k][1], ExecSteps[k][2])
      BY SMTT(60), <1>1, <1>8, <2>1 DEF Permitted, Kept, AllCaps
    <2>3. Privileges(ExecSteps[k][1]) = priv
      BY ZenonT(60), <2>1 DEF Privileges
    <2> QED
      BY SMTT(60), <1>1, <1>8, <2>2, <2>3 DEF Kept
  <1>9. CASE k = 8
    <2>1. ExecSteps[k][1] = "capabilities" /\ ExecSteps[k][2] = {"SETPCAP"}
      BY Zenon, <1>9 DEF ExecSteps
    <2>2. Permitted(ExecSteps[k][1], ExecSteps[k][2])
      BY SMTT(60), <1>1, <1>9, <2>1 DEF Permitted, Kept, AllCaps
    <2>3. PICK c \in SUBSET AllCaps : c = job.caps \cup (IF job.uid # 0 THEN {"SETUID"} \cap priv.caps ELSE {})
      BY Zenon, <1>1 DEF AllCaps
    <2>4. c = IF job.uid = 0 THEN job.caps ELSE job.caps \cup {"SETUID"}
      BY SMTT(60), <1>9, <2>3 DEF Kept, AllCaps
    <2>5. Privileges(ExecSteps[k][1]) = [priv EXCEPT !.caps = c]
      BY ZenonT(60), <2>1, <2>3 DEF Privileges
    <2>6. PICK q : q = [priv EXCEPT !.caps = c]
      BY ZenonT(30)
    <2>7. q \in Privileged /\ q.caps = c /\ q.uid = priv.uid /\ q.gid = priv.gid
          /\ q.hard = priv.hard /\ q.denied = priv.denied
      BY <1>1, <2>6, SetCaps, Zenon
    <2> QED
      BY SMTT(60), <1>9, <2>2, <2>4, <2>5, <2>6, <2>7 DEF Kept
  <1>10. CASE k = 9
    <2>1. ExecSteps[k][1] = "uid" /\ ExecSteps[k][2] = {"SETUID"}
      BY ZenonT(60), <1>10 DEF ExecSteps
    <2>2. Permitted(ExecSteps[k][1], ExecSteps[k][2])
      BY ZenonT(60), <1>1, <1>10, <2>1 DEF Permitted, Kept, AllCaps
    <2>3. PICK c \in SUBSET AllCaps : c = IF job.uid # 0 THEN {} ELSE priv.caps
      BY Zenon, <1>1 DEF Privileged
    <2>4. PICK r : r = [priv EXCEPT !.uid = job.uid]
      BY Zenon
    <2>5. PICK q : q = [r EXCEPT !.caps = c]
      BY ZenonT(30)
    <2>6. Privileges(ExecSteps[k][1]) = q
      BY ZenonT(60), <2>1, <2>3, <2>4, <2>5 DEF Privileges
    <2>7. r \in Privileged /\ r.caps = priv.caps /\ r.uid = job.uid /\ r.gid = priv.gid
          /\ r.hard = priv.hard /\ r.denied = priv.denied
      BY <1>1, <2>4, SetUid, Zenon
    <2>8. q \in Privileged /\ q.caps = c /\ q.uid = r.uid /\ q.gid = r.gid
          /\ q.hard = r.hard /\ q.denied = r.denied
      BY <2>5, <2>7, SetCaps, ZenonT(60)
    <2> QED
      BY SMTT(60), <1>10, <2>2, <2>3, <2>6, <2>7, <2>8 DEF Kept
  <1> QED
    <2>1. k \in {1, 2, 3, 4, 5, 6, 7, 8, 9}
      OBVIOUS
    <2> QED
      BY Zenon, <2>1, <1>2, <1>3, <1>4, <1>5, <1>6, <1>7, <1>8, <1>9, <1>10

\* The privileges and the steps left belong together
LEMMA PrivStep ==
  ASSUME IsoInv, PrivInv, [Next]_vars
  PROVE  PrivInv'
  <1>1. PICK k \in 1 .. 11 : exec = Left(k) /\ Kept(k) /\ (sub = "wait" => k = 11)
    BY DEF PrivInv
  <1>2. ASSUME UNCHANGED <<job, exec, priv>>, sub' = "none" <=> sub = "none", sub' = "wait" => sub = "wait"
        PROVE  PrivInv'
    <2>1. Left(k)' = Left(k) /\ Kept(k)'
      BY ZenonT(60), <1>1, <1>2 DEF Left, Kept, OCI
    <2> QED
      BY <1>1, <1>2, <2>1, ZenonT(60) DEF PrivInv
  <1>a. Len(exec) = 11 - k /\ (k < 11 => exec[1] = ExecSteps[k] /\ Tail(exec) = Left(k + 1))
    BY <1>1, LeftSteps, Zenon
  <1>3. CASE StartSubprocess
    <2>1. /\ sub = "none" /\ sub' = "config" /\ UNCHANGED <<job, exec>>
          /\ priv \in Privileged /\ priv.hard \in Nat /\ ~priv.denied /\ job.limit \in Nat
      BY ZenonT(60), <1>3, RequestAssumption DEF StartSubprocess, IsoInv, IsoType, NetInv, PrivInv, Privileged
    <2>2. PICK h \in Nat : h = IF OCI THEN priv.hard ELSE IF job.limit >= priv.hard THEN job.limit ELSE priv.hard
      BY <2>1
    <2>3. (OCI /\ priv' = priv) \/ (~OCI /\ priv' = [priv EXCEPT !.hard = h])
      <3>1. CASE OCI
        BY ZenonT(60), <1>3, <3>1 DEF StartSubprocess
      <3>2. CASE ~OCI
        <4>1. priv' = [priv EXCEPT !.hard = IF job.limit >= priv.hard THEN job.limit ELSE priv.hard]
          BY ZenonT(60), <1>3, <3>2 DEF StartSubprocess
        <4> QED
          BY ZenonT(60), <2>2, <3>2, <4>1
      <3> QED
        BY ZenonT(60), <3>1, <3>2
    <2>4. /\ priv' \in Privileged
          /\ priv'.caps = priv.caps /\ priv'.uid = priv.uid /\ priv'.gid = priv.gid
          /\ priv'.hard = h /\ priv'.denied = priv.denied
      <3>1. CASE OCI /\ priv' = priv
        BY <2>1, <2>2, <3>1, Zenon
      <3>2. CASE priv' = [priv EXCEPT !.hard = h]
        BY <2>1, <3>2, SetHard, Zenon
      <3> QED
        BY <2>3, <3>1, <3>2, Zenon
    <2>5. Left(k)' = Left(k) /\ Kept(k)'
      BY SMTT(60), <1>1, <2>1, <2>2, <2>4 DEF Left, Kept, OCI
    <2> QED
      BY ZenonT(60), <1>1, <2>1, <2>4, <2>5 DEF PrivInv
  <1>4. CASE ExecStep
    <2>1. sub = "exec" /\ sub' = "exec" /\ Len(exec) > 1 /\ UNCHANGED job
      BY Zenon, <1>4 DEF ExecStep, procVars
    <2>2. k \in 1 .. 9 /\ k + 1 \in 1 .. 11
      BY SMTT(60), <1>a, <2>1
    <2>3. priv' = Privileges(ExecSteps[k][1]) /\ exec' = Left(k + 1)
      BY SMTT(60), <1>4, <1>a, <2>2 DEF ExecStep
    <2>4. /\ priv' \in Privileged /\ priv'.denied = priv.denied
          /\ priv'.caps = IF k < 8 THEN AllCaps
                          ELSE IF job.uid = 0 THEN job.caps
                          ELSE IF k = 8 THEN job.caps \cup {"SETUID"} ELSE {}
          /\ priv'.uid = IF k < 9 THEN 0 ELSE job.uid
          /\ priv'.gid = IF k < 6 THEN 0 ELSE job.uid
          /\ IF k < 3 THEN job.limit <= priv'.hard ELSE priv'.hard = job.limit
      BY <1>1, <2>1, <2>2, <2>3, ExecAllowed, Zenon
    <2>5. Left(k + 1)' = Left(k + 1) /\ Kept(k + 1)'
      BY SMTT(60), <2>1, <2>2, <2>4 DEF Left, Kept
    <2>6. sub' # "wait" /\ ~priv'.denied
      BY ZenonT(60), <2>1, <2>4 DEF PrivInv
    <2> QED
      BY ZenonT(60), <2>2, <2>3, <2>4, <2>5, <2>6 DEF PrivInv
  <1>5. CASE ExecStepDenied
    <2>1. sub = "exec" /\ sub' = "exited" /\ Len(exec) > 1 /\ UNCHANGED <<job, exec>>
      BY Zenon, <1>5 DEF ExecStepDenied, Exit
    <2>2. k \in 1 .. 9 /\ exec[1] = ExecSteps[k]
      BY SMTT(60), <1>a, <2>1
    <2>3. Permitted(exec[1][1], exec[1][2])
      BY <1>1, <2>1, <2>2, ExecAllowed, Zenon
    <2>4. priv' = [priv EXCEPT !.denied = FALSE]
      BY ZenonT(30), <1>5, <2>3 DEF ExecStepDenied
    <2>5. priv' = priv
      BY Zenon, <2>4 DEF PrivInv, Privileged
    <2> QED
      BY ZenonT(60), <1>2, <2>1, <2>5
  <1>6. CASE StartCommand
    <2>1. sub' = "wait" /\ Len(exec) = 1 /\ exec' = <<>> /\ UNCHANGED <<job, priv>>
      BY Zenon, <1>6 DEF StartCommand
    <2>2. k = 10
      <3>1. Len(exec) = 11 - k
        BY Zenon, <1>a
      <3>2. Len(exec) = 1
        BY Zenon, <1>6 DEF StartCommand
      <3> QED
        BY SMTT(60), <3>1, <3>2
    <2>3. Kept(11)'
      BY SMTT(60), <1>1, <2>1, <2>2 DEF Kept
    <2>4. exec' = Left(11)'
      BY SMTT(60), <2>1 DEF Left
    <2> QED
      BY SMTT(60), <2>1, <2>3, <2>4 DEF PrivInv
  <1>7. CASE CreateMessage
    BY Zenon, <1>2, <1>7 DEF CreateMessage, procVars, mountVars, IsoInv, IsoType, NetInv
  <1>8. CASE SyncFails
    BY Zenon, <1>2, <1>8 DEF SyncFails, procVars, mountVars, IsoInv, IsoType, NetInv
  <1>9. CASE ConfigureNetwork
    BY Zenon, <1>2, <1>9 DEF ConfigureNetwork, procVars, mountVars, IsoInv, IsoType, NetInv
  <1>10. CASE NetworkFails
    BY Zenon, <1>2, <1>10 DEF NetworkFails, procVars, mountVars, IsoInv, IsoType, NetInv
  <1>11. CASE SubprocessEnds
    BY Zenon, <1>2, <1>11 DEF SubprocessEnds, procVars, mountVars, IsoInv, IsoType, NetInv
  <1>12. CASE ReadConfiguration
    BY Zenon, <1>2, <1>12 DEF ReadConfiguration, procVars, mountVars, IsoInv, IsoType, NetInv
  <1>13. CASE Stage
    BY Zenon, <1>2, <1>13 DEF Stage, procVars, mountVars, IsoInv, IsoType, NetInv
  <1>14. CASE MountNext
    BY Zenon, <1>2, <1>14 DEF MountNext, procVars, mountVars, IsoInv, IsoType, NetInv
  <1>15. CASE MountNextFails
    BY Zenon, <1>2, <1>15 DEF MountNextFails, Exit, procVars, mountVars, IsoInv, IsoType, NetInv
  <1>16. CASE ProtectNext
    BY Zenon, <1>2, <1>16 DEF ProtectNext, procVars, mountVars, IsoInv, IsoType, NetInv
  <1>17. CASE StartParent
    BY Zenon, <1>2, <1>17 DEF StartParent, procVars, mountVars, IsoInv, IsoType, NetInv
  <1>18. CASE CommandReaped
    BY Zenon, <1>2, <1>18 DEF CommandReaped, Exit, procVars, mountVars, IsoInv, IsoType, NetInv
  <1>19. CASE CreateContainer
    BY ZenonT(60), <1>2, <1>19 DEF CreateContainer, procVars, mountVars, IsoInv, IsoType, NetInv
  <1>20. CASE CreateContainerFails
    BY Zenon, <1>2, <1>20 DEF CreateContainerFails, Exit, procVars, mountVars, IsoInv, IsoType, NetInv
  <1>21. CASE SendCreateMessage
    BY Zenon, <1>2, <1>21 DEF SendCreateMessage, procVars, mountVars, IsoInv, IsoType, NetInv
  <1>22. CASE AwaitStartMessage
    BY Zenon, <1>2, <1>22 DEF AwaitStartMessage, procVars, mountVars, IsoInv, IsoType, NetInv
  <1>23. CASE StartContainer
    BY Zenon, <1>2, <1>23 DEF StartContainer, procVars, mountVars, IsoInv, IsoType, NetInv
  <1>24. CASE NotifySignals
    BY Zenon, <1>2, <1>24 DEF NotifySignals, procVars, mountVars, IsoInv, IsoType, NetInv
  <1>25. CASE WatchContainer
    BY ZenonT(60), <1>2, <1>25 DEF WatchContainer, procVars, mountVars, IsoInv, IsoType, NetInv
  <1>26. CASE StateFails
    BY Zenon, <1>2, <1>26 DEF StateFails, procVars, mountVars, IsoInv, IsoType, NetInv
  <1>27. CASE WaitForStdio
    BY Zenon, <1>2, <1>27 DEF WaitForStdio, procVars, mountVars, IsoInv, IsoType, NetInv
  <1>28. CASE WaitForStatus
    BY Zenon, <1>2, <1>28 DEF WaitForStatus, procVars, mountVars, IsoInv, IsoType, NetInv
  <1>29. CASE DeleteContainer
    BY Zenon, <1>2, <1>29 DEF DeleteContainer, Exit, PipesClosed, procVars, mountVars, IsoInv, IsoType, NetInv
  <1>30. CASE Poll
    BY ZenonT(60), <1>2, <1>30 DEF Poll, procVars, mountVars, IsoInv, IsoType, NetInv
  <1>31. CASE HandleBrokenPipe
    BY Zenon, <1>2, <1>31 DEF HandleBrokenPipe, procVars, mountVars, IsoInv, IsoType, NetInv
  <1>32. CASE Handle
    BY Zenon, <1>2, <1>32 DEF Handle, procVars, mountVars, IsoInv, IsoType, NetInv
  <1>33. CASE CommandWrites
    BY Zenon, <1>2, <1>33 DEF CommandWrites, Dies, procVars, mountVars, IsoInv, IsoType, NetInv
  <1>34. CASE CommandReads
    BY Zenon, <1>2, <1>34 DEF CommandReads, procVars, mountVars, IsoInv, IsoType, NetInv
  <1>35. CASE CommandClosesStdin
    BY Zenon, <1>2, <1>35 DEF CommandClosesStdin, procVars, mountVars, IsoInv, IsoType, NetInv
  <1>36. CASE CommandExits
    BY Zenon, <1>2, <1>36 DEF CommandExits, Dies, procVars, mountVars, IsoInv, IsoType, NetInv
  <1>37. CASE Reap
    BY Zenon, <1>2, <1>37 DEF Reap, procVars, mountVars, IsoInv, IsoType, NetInv
  <1>38. CASE Interrupt
    BY ZenonT(60), <1>2, <1>38 DEF Interrupt, PipesClosed, Dies, Alive, procVars, mountVars, IsoInv, IsoType, NetInv
  <1>39. CASE Terminated
    BY Zenon, <1>2, <1>39 DEF Terminated, vars, procVars, mountVars, IsoInv, IsoType, NetInv
  <1>40. CASE UNCHANGED vars
    BY Zenon, <1>2, <1>40 DEF vars, procVars, mountVars
  <1> QED
    BY ZenonT(60), <1>3, <1>4, <1>5, <1>6, <1>7, <1>8, <1>9, <1>10, <1>11, <1>12, <1>13, <1>14, <1>15, <1>16, <1>17, <1>18, <1>19, <1>20, <1>21, <1>22, <1>23, <1>24, <1>25, <1>26, <1>27, <1>28, <1>29, <1>30, <1>31, <1>32, <1>33, <1>34, <1>35, <1>36, <1>37, <1>38, <1>39, <1>40 DEF Next, Caller, Subprocess, Relay, Command

\* The privileges are given up in an order in which no step is refused, and the
\* command starts with those that were asked for (runUsingChrootExecMain).
THEOREM PrivilegesAlwaysDropped == Spec => []PrivilegesDropped
  <1>1. Init => PrivInv
    <2> SUFFICES ASSUME Init PROVE PrivInv
      OBVIOUS
    <2>1. /\ priv = [caps |-> AllCaps, uid |-> 0, gid |-> 0, hard |-> job.hard, denied |-> FALSE]
          /\ job.hard \in Nat /\ exec = ExecSteps /\ sub = "none"
      BY Zenon, RequestAssumption DEF Init
    <2>2. /\ priv \in Privileged /\ priv.caps = AllCaps /\ priv.uid = 0 /\ priv.gid = 0
          /\ priv.denied = FALSE
      BY Zenon, <2>1 DEF Privileged
    <2>3. ExecSteps = Left(1)
      BY SMTT(60) DEF ExecSteps, Left
    <2>4. Kept(1)
      BY SMTT(60), <2>1, <2>2 DEF Kept
    <2> QED
      BY SMTT(60), <2>1, <2>2, <2>3, <2>4 DEF PrivInv
  <1>2. IsoInv /\ PrivInv /\ [Next]_vars => PrivInv'
    BY Zenon, PrivStep
  <1>3. PrivInv => PrivilegesDropped
    <2> SUFFICES ASSUME PrivInv PROVE PrivilegesDropped
      OBVIOUS
    <2>1. PICK k \in 1 .. 11 : Kept(k) /\ (sub = "wait" => k = 11)
      BY Zenon DEF PrivInv
    <2>2. ~priv.denied
      BY Zenon DEF PrivInv
    <2>3. sub = "wait" => /\ priv.uid = job.uid /\ priv.gid = job.uid /\ priv.hard = job.limit
                          /\ priv.caps = IF job.uid = 0 THEN job.caps ELSE {}
      BY <2>1 DEF Kept
    <2> QED
      BY Zenon, <2>2, <2>3 DEF PrivilegesDropped
  <1> QED
    BY SMTT(60), <1>1, <1>2, <1>3, IsoAlways, PTL DEF Spec

================================================================================
