-------------------------------- MODULE AddCopy --------------------------------
(***************************************************************************)
(* ADD and COPY: the instructions of a stage, and Builder.Add, which moves *)
(* each source item through a pipeline of processes,                       *)
(*                                                                         *)
(*   get child --gout--> get goroutine --pipe--> put goroutine --pin--> put child *)
(*                                                                         *)
(* The children are subprocesses of the copier package, chrooted to the    *)
(* source and to the destination: the parent sends a request, gets a       *)
(* response, sends "quit" and then relays the archive.  A copier that may  *)
(* not chroot runs in the goroutine itself, on the same pipes.  The filter *)
(* that renames and counts entries is part of the get goroutine: it ends   *)
(* the archive when it is closed, whatever came before.                    *)
(***************************************************************************)
EXTENDS VolumeCache

CONSTANTS PipeSize,   \* entries that fit into the pipe of a child process
          Scenarios,  \* instructions, source and destination trees, options
          MayFail,    \* whether a copier process or a download may fail
          MayCrash,   \* whether the parent may be killed
          MayVanish   \* whether a file of the context may go away meanwhile

VARIABLES sc,         \* the scenario
          src,        \* the tree the sources are in
          pos,        \* the instruction that is executed
          add,        \* Add's own state
          par, kid,   \* the get and the put side: goroutine, and copier
          ch,         \* the pipes
          hash,       \* what the content digester was given, item by item
          before      \* the tree when the instruction began

vars == <<tree, declared, volumes, cache, sc, src, pos, add, par, kid, ch, hash, before>>

Sides == {"get", "put"}
Pipes == {"gout", "pipe", "pin"}
EOA == [Node("eoa", 0, 0, 0) EXCEPT !.to = <<>>] @@ [name |-> <<>>, whole |-> TRUE]
Temp == <<"download">>

NoAdd == [pc |-> "idle", i |-> 1, j |-> 1, copied |-> 0, rename |-> NoPath, dir |-> <<>>,
          newdir |-> FALSE, globs |-> <<>>, rc |-> "none"]
IdlePar == [pc |-> "idle", rc |-> "none", err |-> FALSE, cut |-> FALSE]
NoKid == [pc |-> "none", code |-> 0, resp |-> "none", todo |-> <<>>, out |-> <<>>,
          seen |-> <<>>, name |-> <<>>, w |-> Writing(<<>>)]
Closed == [q |-> <<>>, w |-> FALSE, r |-> FALSE]
Open == [q |-> <<>>, w |-> TRUE, r |-> TRUE]

Init ==
  /\ sc \in Scenarios
  /\ tree = sc.tree /\ src = sc.src /\ before = sc.tree
  /\ InitVolumes
  /\ pos = 1 /\ add = NoAdd /\ hash = <<>>
  /\ par = [s \in Sides |-> IdlePar] /\ kid = [s \in Sides |-> NoKid]
  /\ ch = [c \in Pipes |-> Closed]

Instr == sc.prog[pos]
pipeVars == <<par, kid, ch>>
Idle == add.pc = "idle" /\ pos <= Len(sc.prog)
Finish(ok) ==
  /\ add' = [add EXCEPT !.pc = IF ok THEN "idle" ELSE "stop", !.rc = IF ok THEN "ok" ELSE "err"]
  /\ pos' = IF ok THEN pos + 1 ELSE pos

VolumeStep ==
  /\ Idle /\ Instr.op = "VOLUME"
  /\ \E ok \in BOOLEAN : Volume(Instr.path, ok) /\ Finish(ok)
  /\ before' = tree
  /\ UNCHANGED <<sc, src, hash, pipeVars>>

RunStep ==
  /\ Idle /\ Instr.op = "RUN"
  /\ RunInstruction(sc.overlay)
  /\ Finish(TRUE) /\ before' = tree
  /\ UNCHANGED <<sc, src, hash, pipeVars>>

-----------------------------------------------------------------------------
(* Builder.Add, up to its loop over the sources.                           *)

Source(i) == Instr.sources[i]
Locals == {i \in DOMAIN Instr.sources : ~Source(i).remote}
IsPattern(g) == \E k \in DOMAIN g : g[k] = Star
Globbed(i) == Glob(src, Source(i).glob)
Excludes == Instr.excludes

\* Every source has to match something, except that a pattern without a match
\* is passed over when another source has one.
SourcesFound ==
  /\ \A i \in Locals : ~IsPattern(Source(i).glob) => Globbed(i) # <<>>
  /\ Locals # {} => \E i \in Locals : Globbed(i) # <<>>
  /\ \A i \in Locals : \A k \in DOMAIN Globbed(i) : ~StatOf(src, Globbed(i)[k], <<>>).error
FirstItem == StatOf(src, Globbed(1)[1], <<>>)
Sole == Len(Instr.sources) = 1

DestMustBeDirectory ==
  \/ ~Sole \/ Instr.slash
  \/ 1 \in Locals /\ (FirstItem.isDir \/ (FirstItem.isArchive /\ Instr.extract))
DestCanBeFile == Sole /\ (1 \in Locals => FirstItem.isRegular)
DestIsFile == Exists(tree, Instr.dest) /\ StatOf(tree, Located(tree, Instr.dest), <<>>).isRegular
RenameTo ==
  IF \/ ~Exists(tree, Instr.dest) /\ ~DestMustBeDirectory /\ DestCanBeFile
     \/ DestIsFile
  THEN <<Last(Instr.dest)>> ELSE NoPath

\* Owners and modes that items get.
ChownTo == IF Instr.chown # NoOwner THEN Instr.chown ELSE IF Instr.preserve THEN NoOwner ELSE 0
GetOptions == [uidmap |-> Instr.srcmap, chown |-> ChownTo, chmod |-> Instr.chmod]
DirOwner == IF ChownTo = NoOwner THEN 0 ELSE ChownTo

\* copierHandlerPut: with an ID map, the default owner of directories is the
\* mapped owner that ChownDirs gives, which is root.
PutOptions ==
  [uidmap |-> sc.destmap, privileged |-> sc.sub, ignoreDevices |-> sc.userns,
   noDirNonDir |-> FALSE, noNonDirDir |-> FALSE,
   dirOwner |-> IF sc.destmap # <<>> THEN MapID(sc.destmap, 0)
                ELSE IF Source(add.i).remote THEN 0 ELSE DirOwner]
MkdirOptions == [uidmap |-> sc.destmap, privileged |-> sc.sub, dirOwner |-> 0]

\* The destination is looked at, resolved, and made a directory.
Destination ==
  LET refused == [rename |-> NoPath, dir |-> <<>>, made |-> Failed(Writing(tree))]
      made(rename, dir) ==
        IF dir = NoPath THEN refused
        ELSE [rename |-> rename, dir |-> dir, made |-> Mkdir(tree, dir, DirOwner, 755, MkdirOptions)]
  IN IF ~SourcesFound \/ (DestIsFile /\ DestMustBeDirectory) THEN refused
     ELSE With(RenameTo, LAMBDA rename :
            With(resolvePath(tree, IF rename = NoPath THEN Instr.dest ELSE Front(Instr.dest), TRUE, <<>>),
                 LAMBDA dir : made(rename, dir)))

BeginCopy ==
  /\ Idle /\ Instr.op = "COPY"
  /\ cache' = Invalidated(cache, Instr.dest, Instr.slash)
  /\ before' = tree /\ hash' = <<>>
  /\ \E d \in {Destination} :
       /\ tree' = d.made.tree
       /\ \/ ~d.made.ok /\ Finish(FALSE)
          \/ /\ d.made.ok
             /\ add' = [NoAdd EXCEPT !.pc = "item", !.rename = d.rename, !.dir = d.dir,
                                     !.newdir = DestMustBeDirectory /\ ~DestCanBeFile,
                                     !.globs = [i \in DOMAIN Instr.sources |-> Globbed(i)]]
             /\ UNCHANGED pos
  /\ UNCHANGED <<sc, src, declared, volumes, pipeVars>>

-----------------------------------------------------------------------------
(* The loop over the sources and the items each one matched.               *)

includeDirectoryAnyway(p) == \E k \in DOMAIN Excludes : Excludes[k].neg /\ IsStrictPrefix(p, Excludes[k].path)
LeftOut(p) == /\ pathIsExcluded(Excludes, p)
              /\ ~(StatOf(src, p, <<>>).isDir /\ includeDirectoryAnyway(p))
CountedAnyway(p) == p = <<>> \/ (~pathIsExcluded(Excludes, p) /\ add.newdir)

Items == IF Source(add.i).remote THEN <<Source(add.i).glob>> ELSE add.globs[add.i]
Item == Items[add.j]

\* The source is done: a source of which nothing was copied is an error.
NextSource ==
  /\ add.pc = "item" /\ add.i <= Len(Instr.sources) /\ add.j > Len(Items)
  /\ IF ~Source(add.i).remote /\ Items # <<>> /\ add.copied = 0 THEN Finish(FALSE)
     ELSE add' = [add EXCEPT !.i = @ + 1, !.j = 1, !.copied = 0] /\ UNCHANGED pos
  /\ UNCHANGED <<tree, volumeVars, sc, src, hash, before, pipeVars>>

AddReturns ==
  /\ add.pc = "item" /\ add.i > Len(Instr.sources)
  /\ Finish(TRUE)
  /\ UNCHANGED <<tree, volumeVars, sc, src, hash, before, pipeVars>>

SkipItem ==
  /\ add.pc = "item" /\ add.i <= Len(Instr.sources) /\ add.j <= Len(Items)
  /\ ~Source(add.i).remote /\ LeftOut(Item)
  /\ add' = [add EXCEPT !.j = @ + 1]
  /\ UNCHANGED <<tree, volumeVars, sc, src, pos, hash, before, pipeVars>>

\* The two goroutines start, and with them a new digest.
StartItem ==
  /\ add.pc = "item" /\ add.i <= Len(Instr.sources) /\ add.j <= Len(Items)
  /\ Source(add.i).remote \/ ~LeftOut(Item)
  /\ add' = [add EXCEPT !.pc = "wait",
                        !.copied = IF ~Source(add.i).remote /\ CountedAnyway(Item) THEN @ + 1 ELSE @]
  /\ hash' = Append(hash, <<>>)
  /\ par' = [s \in Sides |-> [IdlePar EXCEPT !.pc =
       CASE s = "get" /\ Source(add.i).remote -> "url"
         [] s = "put" /\ Instr.dry -> "drain"
         [] OTHER -> "start"]]
  /\ ch' = [c \in Pipes |-> Open] /\ kid' = [s \in Sides |-> NoKid]
  /\ UNCHANGED <<tree, volumeVars, sc, src, pos, before>>

\* wg.Wait, and the errors of both goroutines.
ItemDone ==
  /\ add.pc = "wait" /\ \A s \in Sides : par[s].pc = "done"
  /\ IF \A s \in Sides : par[s].rc = "ok"
     THEN add' = [add EXCEPT !.pc = "item", !.j = @ + 1] /\ UNCHANGED pos
     ELSE Finish(FALSE)
  /\ UNCHANGED <<tree, volumeVars, sc, src, hash, before, pipeVars>>

-----------------------------------------------------------------------------
(* The parent's half of a copier call (copierWithSubprocess), for both     *)
(* sides, and copierWithoutSubprocess.                                     *)

others == <<volumeVars, sc, src, pos, add, hash, before>>
Bulk(s) == IF s = "get" THEN (IF sc.sub THEN "gout" ELSE "pipe") ELSE (IF sc.sub THEN "pin" ELSE "pipe")
Dead(s) == kid[s].pc = "dead"
Room(c) == Len(ch[c].q) < IF c = "pipe" THEN 1 ELSE PipeSize
To(c, e) == ch[c].r /\ Room(c) /\ ch' = [ch EXCEPT ![c].q = Append(@, e)]
Return(p, ok) == [p EXCEPT !.pc = "close", !.rc = IF ok THEN "ok" ELSE "err"]

SendRequest(s) ==
  /\ par[s].pc = "start"
  /\ par' = [par EXCEPT ![s].pc = "await"]
  /\ kid' = [kid EXCEPT ![s].pc = "handle"]
  /\ UNCHANGED <<tree, ch, others>>

\* The response; a child that died without one is killed and waited for.
ReceiveResponse(s) ==
  /\ par[s].pc = "await" /\ (kid[s].resp # "none" \/ Dead(s))
  /\ par' = [par EXCEPT ![s] =
       IF kid[s].resp = "none" THEN Return(@, FALSE)
       ELSE IF sc.sub THEN [@ EXCEPT !.pc = "quit"]
       ELSE IF kid[s].resp = "err" THEN Return(@, FALSE) ELSE [@ EXCEPT !.pc = "reap"]]
  /\ UNCHANGED <<tree, kid, ch, others>>

\* "quit" cannot be sent to a child that is dead already.
SendQuit(s) ==
  /\ par[s].pc = "quit"
  /\ par' = [par EXCEPT ![s] = IF Dead(s) THEN Return(@, FALSE) ELSE [@ EXCEPT !.pc = "relay"]]
  /\ UNCHANGED <<tree, kid, ch, others>>

\* The get goroutine: entries go through the filter, which renames and counts
\* them; it stops when the other side closed the pipe.
Renamed(e) == IF add.rename # NoPath /\ e.type # "eoa" THEN [e EXCEPT !.name = add.rename] ELSE e
Counted(e) == IF e.type = "eoa" THEN add ELSE [add EXCEPT !.copied = @ + 1]
RelayGet ==
  /\ par["get"].pc = "relay" /\ ch["gout"].q # <<>>
  /\ LET e == Head(ch["gout"].q)
     IN IF e.type = "eoa"
        THEN ch' = [ch EXCEPT !["gout"].q = Tail(@)] /\ UNCHANGED <<par, add>>
        ELSE IF ~ch["pipe"].r
        THEN /\ par' = [par EXCEPT !["get"].pc = "reap", !["get"].err = TRUE]
             /\ ch' = [ch EXCEPT !["gout"].r = FALSE]
             /\ UNCHANGED add
        ELSE /\ ch["pipe"].q = <<>>
             /\ ch' = [ch EXCEPT !["pipe"].q = <<Renamed(e)>>, !["gout"].q = Tail(@)]
             /\ par' = [par EXCEPT !["get"].cut = ~e.whole]
             /\ add' = Counted(e)
  /\ UNCHANGED <<tree, kid, volumeVars, sc, src, pos, hash, before>>

RelayGetEnds ==
  /\ par["get"].pc = "relay" /\ ch["gout"].q = <<>> /\ ~ch["gout"].w
  /\ par' = [par EXCEPT !["get"].pc = "reap"]
  /\ UNCHANGED <<tree, kid, ch, others>>

\* The put goroutine reads the pipe through the digester, and writes to its
\* child.  With DryRun there is only the digester.
Hashed(e) == [hash EXCEPT ![Len(hash)] = Append(@, e)]
RelayPut ==
  /\ par["put"].pc \in {"relay", "drain"} /\ ch["pipe"].q # <<>>
  /\ LET e == Head(ch["pipe"].q)
     IN /\ hash' = Hashed(e)
        /\ IF par["put"].pc = "drain"
           THEN ch' = [ch EXCEPT !["pipe"].q = <<>>] /\ UNCHANGED par
           ELSE IF ~ch["pin"].r
           THEN /\ par' = [par EXCEPT !["put"].pc = "reap", !["put"].err = TRUE]
                /\ ch' = [ch EXCEPT !["pipe"].q = <<>>, !["pin"].w = FALSE]
           ELSE /\ Room("pin")
                /\ ch' = [ch EXCEPT !["pipe"].q = <<>>, !["pin"].q = Append(@, e)]
                /\ UNCHANGED par
  /\ UNCHANGED <<tree, kid, volumeVars, sc, src, pos, add, before>>

\* Variant: the call returns without waiting for the child
RelayPutUnawaited ==
  /\ par["put"].pc \in {"relay", "drain"} /\ ch["pipe"].q = <<>> /\ ~ch["pipe"].w
  /\ par' = [par EXCEPT !["put"] = Return(@, TRUE)]
  /\ ch' = [ch EXCEPT !["pin"].w = FALSE]
  /\ UNCHANGED <<tree, kid, others>>

RelayPutEnds ==
  /\ par["put"].pc \in {"relay", "drain"} /\ ch["pipe"].q = <<>> /\ ~ch["pipe"].w
  /\ par' = [par EXCEPT !["put"] = IF @.pc = "drain" THEN Return(@, TRUE) ELSE [@ EXCEPT !.pc = "reap"]]
  /\ ch' = [ch EXCEPT !["pin"].w = FALSE]
  /\ UNCHANGED <<tree, kid, others>>

\* Variant: the exit status of the put child is ignored
ReapAnyway(s) ==
  /\ par[s].pc = "reap" /\ Dead(s)
  /\ par' = [par EXCEPT ![s] = Return(@, ((sc.sub /\ s = "put") \/ kid[s].code = 0) /\ ~@.err /\ kid[s].resp = "ok")]
  /\ UNCHANGED <<tree, kid, ch, others>>

\* cmd.Wait: the call fails when the child did, when the relay did, or when
\* the response says so.
ReapChild(s) ==
  /\ par[s].pc = "reap" /\ Dead(s)
  /\ par' = [par EXCEPT ![s] = Return(@, kid[s].code = 0 /\ ~@.err /\ kid[s].resp = "ok")]
  /\ UNCHANGED <<tree, kid, ch, others>>

\* Variant: the archive is not ended
CloseUnended ==
  /\ par["get"].pc = "close"
  /\ ch' = [ch EXCEPT !["pipe"].w = FALSE]
  /\ par' = [par EXCEPT !["get"].pc = "done"]
  /\ UNCHANGED <<tree, kid, others>>

\* The goroutines close their ends of the pipe.  Closing the filter ends the
\* archive, unless an entry was cut short.
CloseGet ==
  /\ par["get"].pc = "close"
  /\ \/ par["get"].cut /\ ch' = [ch EXCEPT !["pipe"].w = FALSE]
     \/ ~par["get"].cut /\ ~ch["pipe"].r /\ ch' = [ch EXCEPT !["pipe"].w = FALSE]
     \/ ~par["get"].cut /\ ch["pipe"].r /\ ch["pipe"].q = <<>>
        /\ ch' = [ch EXCEPT !["pipe"] = [@ EXCEPT !.q = <<EOA>>, !.w = FALSE]]
  /\ par' = [par EXCEPT !["get"].pc = "done"]
  /\ UNCHANGED <<tree, kid, others>>

ClosePut ==
  /\ par["put"].pc = "close"
  /\ ch' = [ch EXCEPT !["pipe"] = [@ EXCEPT !.r = FALSE, !.q = <<>>], !["pin"].w = FALSE]
  /\ par' = [par EXCEPT !["put"].pc = "done"]
  /\ UNCHANGED <<tree, kid, others>>

-----------------------------------------------------------------------------
(* getURL, in the get goroutine.  Content of unknown length is first kept  *)
(* in a temporary file in the container.                                   *)

UrlOwner == IF ChownTo = NoOwner THEN 0 ELSE ChownTo
UrlEntry(whole) ==
  Node("file", IF Instr.chmod # NoOwner THEN Instr.chmod ELSE 600, UrlOwner, 7)
    @@ [name |-> IF add.rename # NoPath THEN add.rename ELSE <<Last(Item)>>, whole |-> whole]

UrlResponse ==
  /\ par["get"].pc = "url"
  /\ tree' = IF Source(add.i).chunked THEN Put(tree, Temp, Node("file", 600, 0, 7)) ELSE tree
  /\ par' = [par EXCEPT !["get"].pc = "urlsend"]
  /\ UNCHANGED <<kid, ch, others>>

UrlFails ==
  /\ MayFail /\ par["get"].pc \in {"url", "urlsend"}
  /\ par' = [par EXCEPT !["get"].pc = "urlend", !["get"].err = TRUE]
  /\ UNCHANGED <<tree, kid, ch, others>>

UrlSend(whole) ==
  /\ par["get"].pc = "urlsend"
  /\ IF ch["pipe"].r
     THEN /\ To("pipe", UrlEntry(whole))
          /\ par' = [par EXCEPT !["get"].pc = IF whole THEN "urlfooter" ELSE "urlend",
                                !["get"].err = ~whole]
     ELSE par' = [par EXCEPT !["get"].pc = "urlend", !["get"].err = TRUE] /\ UNCHANGED ch
  /\ UNCHANGED <<tree, kid, others>>

UrlFooter ==
  /\ par["get"].pc = "urlfooter"
  /\ IF ch["pipe"].r THEN To("pipe", EOA) ELSE UNCHANGED ch
  /\ par' = [par EXCEPT !["get"].pc = "urlend"]
  /\ UNCHANGED <<tree, kid, others>>

\* Variant: the temporary file stays
UrlKept ==
  /\ par["get"].pc = "urlend"
  /\ par' = [par EXCEPT !["get"] = [Return(@, ~@.err) EXCEPT !.cut = TRUE]]
  /\ UNCHANGED <<tree, kid, ch, others>>

UrlEnd ==
  /\ par["get"].pc = "urlend"
  /\ tree' = RemoveAll(tree, Temp)
  /\ par' = [par EXCEPT !["get"] = [Return(@, ~@.err) EXCEPT !.cut = TRUE]]
  /\ UNCHANGED <<kid, ch, others>>

-----------------------------------------------------------------------------
(* The copier's half: copierMain and the handlers.                         *)

\* Variant: the parent keeps the child's end of the pipe open, too
ExitedOpen(s) ==
  IF ~sc.sub \/ s = "get" THEN ch ELSE [ch EXCEPT !["pin"] = [@ EXCEPT !.r = FALSE, !.q = <<>>]]

\* A child that exits closes its end of the pipe.
Exited(s) ==
  IF ~sc.sub THEN ch
  ELSE IF s = "get" THEN [ch EXCEPT !["gout"].w = FALSE]
  ELSE [ch EXCEPT !["pin"] = [@ EXCEPT !.r = FALSE, !.q = <<>>]]
Exit(s, code) ==
  /\ kid' = [kid EXCEPT ![s].pc = "dead", ![s].code = code]
  /\ ch' = Exited(s)

\* copierHandlerGet responds once the item has been found again.
HandleGet ==
  /\ kid["get"].pc = "handle"
  /\ kid' = [kid EXCEPT !["get"].resp = IF Item \in DOMAIN src THEN "ok" ELSE "err",
                        !["get"].pc = IF Item \in DOMAIN src THEN "begin"
                                      ELSE IF sc.sub THEN "loop" ELSE "dead"]
  /\ UNCHANGED <<tree, par, ch, others>>

BeginWalk ==
  /\ kid["get"].pc = "begin"
  /\ \E item \in {Chase(src, Item, 0)} :
       LET at == Located(src, item)
           queue == IF IsDir(src, at) THEN WalkDir(src, at, Excludes) ELSE <<at>>
       IN \/ (item = NoPath \/ (~IsDir(src, at) /\ pathIsExcluded(Excludes, item))) /\ Exit("get", 1)
          \/ /\ item # NoPath /\ (IsDir(src, at) \/ ~pathIsExcluded(Excludes, item))
             /\ \E todo \in {queue} :
                  kid' = [kid EXCEPT !["get"].pc = "visit", !["get"].todo = todo, !["get"].name = at]
             /\ UNCHANGED ch
  /\ UNCHANGED <<tree, par, others>>

\* The header is made; a file of which a link is in the archive already
\* becomes a hard link.  A named archive is read instead of copied.
Visit ==
  /\ kid["get"].pc = "visit" /\ kid["get"].todo # <<>>
  /\ LET p == Head(kid["get"].todo)
         named == p = kid["get"].name
         expand == named /\ Instr.extract /\ src[p].type = "archive"
         header == Header(src[p], IF named THEN <<Last(Item)>> ELSE Relative(p, kid["get"].name),
                          GetOptions, kid["get"].seen)
     IN IF p \notin DOMAIN src THEN Exit("get", 1)
        ELSE \E h \in {header} :
          IF ~expand /\ h.owner = NoOwner THEN Exit("get", 1)
          ELSE /\ kid' = [kid EXCEPT !["get"].pc = "open",
                            !["get"].out = IF expand THEN sc.archives[src[p].data] ELSE <<h>>,
                            !["get"].seen = IF h.type = "file" THEN Put(@, h.data, h.name) ELSE @]
               /\ UNCHANGED ch
  /\ UNCHANGED <<tree, par, others>>

\* A file that went away meanwhile is passed over, unless it was named.
OpenItem ==
  /\ kid["get"].pc = "open"
  /\ IF Head(kid["get"].todo) \in DOMAIN src
     THEN /\ kid' = [kid EXCEPT !["get"].todo = Tail(@),
                                !["get"].pc = IF kid["get"].out = <<>> THEN "visit" ELSE "send"]
          /\ UNCHANGED ch
     ELSE IF Head(kid["get"].todo) = kid["get"].name THEN Exit("get", 1)
     ELSE /\ kid' = [kid EXCEPT !["get"].pc = "visit", !["get"].todo = Tail(@), !["get"].out = <<>>]
          /\ UNCHANGED ch
  /\ UNCHANGED <<tree, par, others>>

\* An entry is written to the pipe, whole or, when reading it fails, in part.
Send(whole) ==
  /\ kid["get"].pc = "send"
  /\ LET c == Bulk("get")
         e == [Head(kid["get"].out) EXCEPT !.whole = whole]
     IN /\ ch[c].r /\ Room(c)
        /\ ch' = [IF whole THEN ch ELSE Exited("get")
                  EXCEPT ![c].q = Append(@, IF sc.sub THEN e ELSE Renamed(e))]
        /\ par' = IF sc.sub THEN par ELSE [par EXCEPT !["get"].cut = ~whole]
        /\ add' = IF sc.sub THEN add ELSE Counted(e)
  /\ kid' = [kid EXCEPT !["get"].out = Tail(@), !["get"].code = IF whole THEN 0 ELSE 1,
               !["get"].pc = IF ~whole THEN "dead"
                             ELSE IF Len(kid["get"].out) = 1 THEN "visit" ELSE "send"]
  /\ UNCHANGED <<tree, volumeVars, sc, src, pos, hash, before>>

SendBroken ==
  /\ kid["get"].pc = "send" /\ ~ch[Bulk("get")].r
  /\ Exit("get", 1)
  /\ UNCHANGED <<tree, par, others>>

EndArchive ==
  /\ kid["get"].pc = "visit" /\ kid["get"].todo = <<>>
  /\ IF sc.sub /\ ch["gout"].r THEN To("gout", EOA) ELSE UNCHANGED ch
  /\ kid' = [kid EXCEPT !["get"].pc = "loop"]
  /\ UNCHANGED <<tree, par, others>>

\* copierHandlerPut: the destination has to be a directory to change to.
HandlePut ==
  /\ kid["put"].pc = "handle"
  /\ IF IsDir(tree, add.dir)
     THEN kid' = [kid EXCEPT !["put"].pc = "extract", !["put"].resp = "ok"] /\ UNCHANGED ch
     ELSE Exit("put", 1)
  /\ UNCHANGED <<tree, par, others>>

\* What is written is below the directory the child changed its root to.
Store == [kid["put"].w EXCEPT !.tree = Subtree(tree, add.dir)]
Stored(t) == \E s \in {t} : tree' = Graft(tree, add.dir, s)

Extract ==
  /\ kid["put"].pc = "extract" /\ ch[Bulk("put")].q # <<>> /\ Head(ch[Bulk("put")].q).type # "eoa"
  /\ LET e == Head(ch[Bulk("put")].q)
     IN /\ hash' = IF sc.sub THEN hash ELSE Hashed(e)
        /\ \E w \in {ExtractEntry(Store, <<>>, e, PutOptions)} :
             \/ /\ w.ok /\ Stored(w.tree)
                /\ kid' = [kid EXCEPT !["put"].w = [w EXCEPT !.tree = <<>>]]
                /\ ch' = [ch EXCEPT ![Bulk("put")].q = Tail(@)]
             \/ ~w.ok /\ Stored(SetDirectoryModes(w)) /\ Exit("put", 1)
  /\ UNCHANGED <<par, volumeVars, sc, src, pos, add, before>>

\* The end of the archive, or of the pipe.
EndExtract ==
  /\ kid["put"].pc = "extract"
  /\ LET c == ch[Bulk("put")]
     IN \/ c.q = <<>> /\ ~c.w /\ UNCHANGED hash
        \/ c.q # <<>> /\ Head(c.q).type = "eoa" /\ hash' = IF sc.sub THEN hash ELSE Hashed(Head(c.q))
  /\ Stored(SetDirectoryModes(Store))
  /\ kid' = [kid EXCEPT !["put"].pc = "loop"]
  /\ ch' = [ch EXCEPT ![Bulk("put")].q = <<>>]
  /\ UNCHANGED <<par, volumeVars, sc, src, pos, add, before>>

\* The child waits for "quit"; without its parent it gets an error instead.
ChildQuits(s) ==
  /\ kid[s].pc = "loop"
  /\ \/ (~sc.sub \/ par[s].pc \in {"relay", "reap"}) /\ Exit(s, 0)
     \/ par[s].pc = "gone" /\ Exit(s, 1)
  /\ UNCHANGED <<tree, par, others>>

\* A step of the put handler fails; its deferred calls still happen.
ExtractFails ==
  /\ MayFail /\ kid["put"].pc = "extract"
  /\ Stored(SetDirectoryModes(Store))
  /\ Exit("put", 1)
  /\ UNCHANGED <<par, others>>

-----------------------------------------------------------------------------
\* A child is killed, the parent is killed, a file of the context goes away.
ChildKilled(s) ==
  /\ MayFail /\ sc.sub /\ kid[s].pc \in {"handle", "begin", "visit"}
  /\ Exit(s, 1)
  /\ UNCHANGED <<tree, par, others>>

Crash ==
  /\ MayCrash /\ sc.sub /\ add.pc = "wait"
  /\ add' = [add EXCEPT !.pc = "crash", !.rc = "crash"]
  /\ par' = [s \in Sides |-> [par[s] EXCEPT !.pc = "gone"]]
  /\ ch' = [ch EXCEPT !["gout"].r = FALSE, !["pipe"] = Closed, !["pin"].w = FALSE]
  /\ UNCHANGED <<tree, kid, volumeVars, sc, src, pos, hash, before>>

Vanish ==
  /\ MayVanish /\ add.pc = "wait" /\ src = sc.src
  /\ \E p \in {q \in DOMAIN src : src[q].type = "file"} : src' = RemoveAll(src, p)
  /\ UNCHANGED <<tree, volumeVars, sc, pos, add, par, kid, ch, hash, before>>

Stopped == /\ \A s \in Sides : kid[s].pc \in {"none", "dead"}
           /\ add.pc \in {"stop", "crash"} \/ (add.pc = "idle" /\ pos > Len(sc.prog))
Terminated == Stopped /\ UNCHANGED vars

AddStep == BeginCopy \/ NextSource \/ AddReturns \/ SkipItem \/ StartItem \/ ItemDone
ParStep == \/ \E s \in Sides : SendRequest(s) \/ ReceiveResponse(s) \/ SendQuit(s) \/ ReapChild(s)
           \/ RelayGet \/ RelayGetEnds \/ RelayPut \/ RelayPutEnds \/ CloseGet \/ ClosePut
           \/ UrlResponse \/ UrlSend(TRUE) \/ UrlFooter \/ UrlEnd
KidStep == \/ HandleGet \/ BeginWalk \/ Visit \/ OpenItem \/ Send(TRUE) \/ SendBroken \/ EndArchive
           \/ HandlePut \/ Extract \/ EndExtract \/ \E s \in Sides : ChildQuits(s)
Failures == \/ UrlFails \/ (MayFail /\ (UrlSend(FALSE) \/ Send(FALSE))) \/ ExtractFails
            \/ \E s \in Sides : ChildKilled(s)
            \/ Crash \/ Vanish
Step == VolumeStep \/ RunStep \/ AddStep \/ ParStep \/ KidStep

Next == Step \/ Failures \/ Terminated

Spec == Init /\ [][Next]_vars /\ WF_vars(Step)

-----------------------------------------------------------------------------
(* What a COPY is to do, told without the steps that do it.                *)

\* The instruction that ended last, and whether it left anything running.
Ended == add.pc \in {"stop", "crash"} \/ (add.pc = "idle" /\ pos > 1)
Done == sc.prog[IF add.pc = "idle" THEN pos - 1 ELSE pos]
CopyDone(rcs) == Ended /\ Done.op = "COPY" /\ add.rc \in rcs

\* The items that source i stands for, with the names they get.
FromSource(c, i) ==
  LET one(item) ==
        LET at == Target(sc.src, item)
            n == sc.src[at]
        IN IF IsDir(sc.src, at)
           THEN {[name |-> Relative(q, at), as |-> sc.src[q], raw |-> FALSE] :
                   q \in {p \in Below(sc.src, at) \ {at} : ~pathIsExcluded(c.excludes, p)}}
           ELSE IF at \notin DOMAIN sc.src \/ pathIsExcluded(c.excludes, item) THEN {}
           ELSE IF n.type = "archive" /\ c.extract
           THEN {[name |-> e.name, as |-> e, raw |-> TRUE] : e \in Range(sc.archives[n.data])}
           ELSE {[name |-> <<Last(item)>>, as |-> n, raw |-> FALSE]}
  IN IF c.sources[i].remote
     THEN {[name |-> <<Last(c.sources[i].glob)>>, as |-> Node("file", 600, 0, 7), raw |-> FALSE]}
     ELSE UNION {one(item) : item \in Range(Glob(sc.src, c.sources[i].glob))}

\* The owner and the mode an item gets in the container.
Attributes(c, x) ==
  LET owner == IF x.raw THEN x.as.owner
               ELSE IF c.chown # NoOwner THEN c.chown
               ELSE IF c.preserve THEN MapID(c.srcmap, x.as.owner) ELSE 0
  IN [type |-> IF x.as.type = "hard" THEN "file" ELSE x.as.type, data |-> x.as.data,
      owner |-> MapID(sc.destmap, owner),
      mode |-> IF x.raw \/ c.chmod = NoOwner THEN x.as.mode ELSE c.chmod]
Arrived(t, p, a) ==
  LET q == Located(t, p)
  IN /\ q \in DOMAIN t
     /\ t[q].type = a.type /\ t[q].data = a.data
     /\ a.type = "link" \/ (t[q].owner = a.owner /\ t[q].mode = a.mode)

\* Where the items of source i go.
Place(x) == add.dir \o (IF add.rename # NoPath THEN add.rename ELSE x.name)
Places(c) == UNION {{Place(x) : x \in FromSource(c, i)} : i \in DOMAIN c.sources}
Wanted(c, i) == {x \in FromSource(c, i) : \A k \in i + 1 .. Len(c.sources) :
                   \A y \in FromSource(c, k) : ~IsPrefix(Place(y), Place(x))}
Vanished(x) == src # sc.src /\ x.as.type = "file"
Ignored(x) == x.as.type \in {"dev", "socket"}

\* Type invariant: among others, every item of the container is in a directory.
TypeOK ==
  /\ sc \in Scenarios /\ pos \in 1 .. Len(sc.prog) + 1
  /\ add.pc \in {"idle", "item", "wait", "stop", "crash"} /\ add.rc \in {"none", "ok", "err", "crash"}
  /\ \A s \in Sides : /\ par[s].pc \in {"idle", "start", "url", "urlsend", "urlfooter", "urlend", "drain",
                                        "await", "quit", "relay", "reap", "close", "done", "gone"}
                      /\ kid[s].pc \in {"none", "handle", "begin", "visit", "open", "send", "extract",
                                        "loop", "dead"}
  /\ \A c \in Pipes : Len(ch[c].q) <= IF c = "pipe" THEN 1 ELSE PipeSize
  /\ <<>> \in DOMAIN tree /\ \A p \in DOMAIN tree \ {<<>>} : IsDir(tree, Front(p))

\* A COPY or ADD that returns no error has put every item of its sources that
\* is not excluded into the container, with the content, the type, the owner
\* and the mode that its options ask for: no failure of a process on the way
\* is lost.  Devices are left out in a user namespace, and files that went
\* away while their directory was read are too.
ContentArrives ==
  CopyDone({"ok"}) /\ ~Done.dry =>
    \A i \in DOMAIN Done.sources : \A x \in Wanted(Done, i) :
      Vanished(x) \/ Ignored(x) \/ Arrived(tree, Place(x), Attributes(Done, x))

\* Whether it succeeds or fails, and once the copier processes are gone, a COPY
\* or ADD changes nothing but the items it is to copy: nothing excluded gets
\* into the container, the temporary file of a download is removed, and
\* directories that were there keep their modes and owners.
NothingElse ==
  CopyDone({"ok", "err"}) =>
    LET places == IF Done.dry THEN {} ELSE Places(Done)
        kept == {p \in DOMAIN before : \A q \in places : ~IsPrefix(Located(before, q), p)}
        above == {p \in DOMAIN tree : \E q \in places \cup {add.dir} : IsPrefix(p, q)}
    IN /\ \A p \in kept : p \in DOMAIN tree /\ tree[p] = before[p]
       /\ DOMAIN tree \subseteq DOMAIN before \cup above \cup {Located(tree, q) : q \in places}

\* Once Add has returned, neither of the copier processes is still running.
NoOrphans == add.pc \in {"idle", "item", "stop"} => \A s \in Sides : kid[s].pc \in {"none", "dead"}

\* The digest by which the layer cache identifies what was copied covers
\* whole archives that name every item and end, whether the items were also
\* written or, with DryRun, only looked at.
DigestCovers ==
  CopyDone({"ok"}) =>
    /\ \A k \in DOMAIN hash : hash[k] # <<>> /\ Last(hash[k]) = EOA /\ \A m \in DOMAIN hash[k] : hash[k][m].whole
    /\ \A i \in DOMAIN Done.sources : \A x \in FromSource(Done, i) :
         Vanished(x) \/ x.as.type = "socket" \/ \E k \in DOMAIN hash : \E m \in DOMAIN hash[k] :
           add.dir \o hash[k][m].name = Place(x) /\ hash[k][m].type # "eoa"

\* A COPY or ADD that returns no error has written, and digested, all of what it
\* was asked to copy (Builder.Add).
CopyFaithful == ContentArrives /\ DigestCovers

\* A COPY or ADD leaves nothing behind but what it copied: no file, no changed
\* mode and no process (copierHandlerPut, copierWithSubprocess).
NothingLeft == NothingElse /\ NoOrphans

\* "ensure that only COPY and ADD instructions can modify the contents" of a
\* volume: a RUN leaves everything below it as it was.
RunKeepsVolumes ==
  [][RunStep => \A v \in volumes : Below(tree', v) = Below(tree, v)
                                   /\ \A p \in Below(tree, v) : tree'[p] = tree[p]]_vars

\* Every instruction ends, whichever process fails first; and when the parent
\* is killed, the copier processes end too.
AddEnds == <>Stopped
=============================================================================
