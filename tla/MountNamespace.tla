---------------------------- MODULE MountNamespace ----------------------------
(***************************************************************************)
(* How the mounts of a runtime specification come to be mounted: the       *)
(* sorting of setupMounts, the intermediate bind mounts of bind/mount.go,  *)
(* and the bind mounts chroot isolation makes itself                       *)
(* (chroot/run_linux.go).  A path is the sequence of its components.  The  *)
(* mount namespace is the sequence of mounts made in it; a later mount     *)
(* hides what it covers.                                                   *)
(***************************************************************************)
EXTENDS Integers, Sequences, FiniteSets, Functions

MountFlag == {"ro", "nodev", "noexec", "nosuid"}
Opposite == [ro |-> "rw", nodev |-> "dev", noexec |-> "exec", nosuid |-> "suid"]

\* Variant: the mounts stay in the order in which they were collected
Unsorted(mounts) == mounts

\* Stable: volumes, built-in volumes, RUN mounts, subscriptions and bound files
\* of one destination stay in the preferred order (byDestination, SortMounts).
SortMounts(mounts) ==
  LET before(j, i) == \/ Len(mounts[j].dest) < Len(mounts[i].dest)
                      \/ Len(mounts[j].dest) = Len(mounts[i].dest) /\ j < i
  IN [n \in DOMAIN mounts |->
        mounts[CHOOSE i \in DOMAIN mounts :
                 Cardinality({j \in DOMAIN mounts : before(j, i)}) = n - 1]]

\* haveMount: the first mount of a destination wins.
WithoutConflicts(mounts) ==
  LET first == {i \in DOMAIN mounts : \A j \in 1 .. i - 1 : mounts[j].dest # mounts[i].dest}
  IN [n \in 1 .. Cardinality(first) |->
        mounts[CHOOSE i \in first : Cardinality({j \in first : j < i}) = n - 1]]

leaveBindMountAlone(m) ==
  \/ "nobuildahbind" \in Range(m.opts)
  \/ m.type # "bind" /\ Range(m.opts) \cap {"bind", "rbind"} = {}

\* A bind mount whose source is gone is left out, the others get a source that
\* the container's root user can reach.
SetupIntermediateMountNamespace(mounts) ==
  LET kept == SelectSeq(mounts, LAMBDA m : leaveBindMountAlone(m) \/ m.present)
  IN [i \in DOMAIN kept |->
        [kept[i] EXCEPT !.staged = ~leaveBindMountAlone(kept[i]),
                        !.opts = SelectSeq(@, LAMBDA o : o # "nobuildahbind")]]

\* The flags the options ask for: of an option and its opposite the last counts.
RequestFlags(opts) ==
  {f \in MountFlag : \E i \in DOMAIN opts :
     /\ opts[i] = f
     /\ \A j \in i + 1 .. Len(opts) : opts[j] # Opposite[f]}

-----------------------------------------------------------------------------
\* mount(2), as the code relies on it: a bind mount takes the flags of what it
\* binds, whatever the caller passes; a remount sets the flags it is given.
BindMount(ns, at, kind, flags) == Append(ns, [at |-> at, kind |-> kind, flags |-> flags])
Remount(ns, flags) == [ns EXCEPT ![Len(ns)].flags = flags]

\* The mount one sees at a path: the last one that covers it.
Covers(m, path) == Len(m.at) <= Len(path) /\ m.at = SubSeq(path, 1, Len(m.at))
Visible(ns, path) ==
  ns[CHOOSE i \in DOMAIN ns : /\ Covers(ns[i], path)
                              /\ \A j \in DOMAIN ns : Covers(ns[j], path) => j <= i]

\* Bind /dev, /proc and /sys.  /dev and /sys are then made read-only.
SystemMounts(ns) ==
  LET dev == Remount(BindMount(ns, <<"dev">>, "host", {}), {"ro", "noexec", "nosuid"})
      proc == BindMount(dev, <<"proc">>, "host", {})
  IN Remount(BindMount(proc, <<"sys">>, "host", {}), {"ro", "noexec", "nosuid", "nodev"})

\* What setupChrootBindMounts leaves out.
Skipped(m) ==
  \/ m.dest[1] \in {"dev", "proc", "sys"}
  \/ m.type \notin {"bind", "tmpfs", "overlay"}

\* The source of a bind mount that was not staged may be gone by now.
MountFails(m) == m.type = "bind" /\ ~m.present

\* One mount: a read-only bind mount is remounted with the flags it already has,
\* and any mount once more if it still lacks a flag.
MountInChroot(ns, m) ==
  LET request == RequestFlags(m.opts)
      made == IF m.type = "bind" THEN BindMount(ns, m.dest, "spec", m.srcFlags)
              ELSE BindMount(ns, m.dest, "spec", request)
      readOnly == IF m.type = "bind" /\ "ro" \in request
                  THEN Remount(made, {"ro"} \cup (m.srcFlags \ {"ro"})) ELSE made
  IN IF request \subseteq readOnly[Len(readOnly)].flags THEN readOnly
     ELSE Remount(readOnly, request)

\* Variant: the path is bound onto itself with the flags, and not remounted
BoundReadonly(ns, path) ==
  IF "ro" \in Visible(ns, path).flags THEN ns ELSE BindMount(ns, path, "self", {})

\* A read-only path is bound onto itself and remounted unless it already is
\* read-only.
MakeReadonly(ns, path) ==
  IF "ro" \in Visible(ns, path).flags THEN ns
  ELSE Remount(BindMount(ns, path, "self", {}), MountFlag)

\* A masked directory gets an empty read-only directory on top, unless it is
\* read-only and empty; anything else gets /dev/null, unless it is that.
Mask(ns, m) ==
  IF m.dir
  THEN IF "ro" \notin Visible(ns, m.path).flags \/ m.content
       THEN Remount(BindMount(ns, m.path, "empty", {}), MountFlag) ELSE ns
  ELSE IF m.content THEN BindMount(ns, m.path, "null", {}) ELSE ns

==============================================================================
