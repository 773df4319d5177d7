------------------------------ MODULE MountFlags ------------------------------
(***************************************************************************)
(* What the --mount flag of RUN and of `buildah run` denotes               *)
(* (internal/parse/parse.go, and getSecretMount/getSSHMount of             *)
(* run_common.go).  A flag is a sequence of key=value tokens.  Parsing is  *)
(* not pure: a bind mount may mount an image before a later check fails,   *)
(* and a locked cache waits for its lock before its options are checked,   *)
(* so the result also says what was done on the way.                       *)
(***************************************************************************)
EXTENDS Integers, Sequences, FiniteSets, Functions, TLC

CONSTANTS
  AbsPaths,     \* the token values that are absolute paths
  Numbers,      \* the token values that strconv parses
  SELinux       \* SELinux is not disabled on this host

\* The value of a token written without "=", and of an option never given.
NoArg == "no argument"

TargetKeys == {"target", "dst", "destination"}
SourceKeys == {"src", "source"}
NoFlags == {"nosuid", "nodev", "noexec"}
Propagation == {"shared", "rshared", "private", "rprivate", "slave", "rslave"}

HasKey(t, keys) == \E i \in DOMAIN t : t[i].k \in keys

\* The value of the last token with one of these keys: a later one overwrites.
LastValue(t, keys) ==
  IF HasKey(t, keys)
  THEN t[CHOOSE i \in DOMAIN t : /\ t[i].k \in keys
                                 /\ \A j \in DOMAIN t : t[j].k \in keys => j <= i].v
  ELSE NoArg

\* A destination: a path, or the default one of a secret or of an agent socket.
Path(p) == <<"path", p>>
SecretPath(id) == <<"secret", id>>
SocketPath(count) == <<"ssh", count>>

\* newMount.Options as a set of numbered options; NoOption is no option at all.
NoOption == ""
Options(t, OptionOf(_)) ==
  {<<i, OptionOf(t[i])>> : i \in {j \in DOMAIN t : OptionOf(t[j]) # NoOption}}
Default(n, option) == {<<-n, option>>}
Holds(options, option) == \E o \in options : o[2] = option

\* ValidateVolumeOpts knows these options and takes one of each class.
OptionClass ==
  [o \in Propagation \cup {"unbindable", "runbindable"} |-> "propagation"]
  @@ [o \in {"noexec", "exec"} |-> "exec"] @@ [o \in {"nodev", "dev"} |-> "dev"]
  @@ [o \in {"nosuid", "suid"} |-> "suid"] @@ [o \in {"rw", "ro"} |-> "access"]
  @@ [o \in {"z", "Z", "O"} |-> "label"] @@ [o \in {"U"} |-> "chown"]
  @@ [o \in {"bind", "rbind"} |-> "bind"] @@ [o \in {"copy", "nocopy"} |-> "copy"]

ValidateVolumeOpts(options) ==
  LET kept == {o \in options : o[2] \notin {"cached", "delegated"}}
  IN /\ \A o \in kept : o[2] \in DOMAIN OptionClass
     /\ \A o, p \in kept : o # p => OptionClass[o[2]] # OptionClass[p[2]]

\* What a mount function did.  "stray" is an image it mounted without telling
\* its caller; "waits" the lock it had to obtain, "lock" the one it returns.
Nothing == [res |-> "none", dest |-> Path(""), opts |-> {}, image |-> "",
            stray |-> "", waits |-> "", lock |-> "", tmp |-> FALSE, agent |-> FALSE]
Failure == [Nothing EXCEPT !.res = "error"]
Panic == [Nothing EXCEPT !.res = "panic"]

-----------------------------------------------------------------------------
BindTokenOK(tok) ==
  \/ tok.k \in {"type", "bind-nonrecursive", "ro", "rw", "readwrite", "readonly",
                "Z", "z", "U", "consistency"} \cup NoFlags \cup Propagation
  \/ tok.k \in {"from", "bind-propagation"} \cup SourceKeys /\ tok.v # NoArg
  \/ tok.k \in TargetKeys /\ tok.v \in AbsPaths

BindOptionOf(tok) ==
  CASE tok.k = "bind-nonrecursive" -> "bind"
    [] tok.k \in {"rw", "readwrite"} -> "rw"
    [] tok.k \in {"ro", "readonly"} -> "ro"
    [] tok.k \in NoFlags \cup Propagation \cup {"Z", "z", "U"} -> tok.k
    [] tok.k = "bind-propagation" -> tok.v
    [] OTHER -> NoOption

\* nosuid, nodev and noexec count as a choice of readability too.
BindOptions(t) ==
  Options(t, BindOptionOf)
    \cup (IF HasKey(t, {"ro", "rw", "readwrite", "readonly"} \cup NoFlags)
          THEN {} ELSE Default(1, "ro"))
    \cup (IF HasKey(t, {"bind-nonrecursive"}) THEN {} ELSE Default(2, "rbind"))

\* An image named by from= that is not a stage is mounted before the
\* destination, the source and the options are checked.
GetBindMount(t, contextDir, stages, images) ==
  LET from == LastValue(t, {"from"})
      isImage == from # NoArg /\ from \notin stages
      sourceOK == contextDir \/ from # NoArg \/ LastValue(t, SourceKeys) # NoArg
  IN IF \/ \E i \in DOMAIN t : ~BindTokenOK(t[i])
        \/ isImage /\ from \notin images
     THEN Failure
     ELSE IF HasKey(t, TargetKeys) /\ sourceOK /\ ValidateVolumeOpts(BindOptions(t))
     THEN [Nothing EXCEPT !.res = "mount", !.dest = Path(LastValue(t, TargetKeys)),
                          !.opts = BindOptions(t),
                          !.image = IF isImage THEN from ELSE ""]
     ELSE [Failure EXCEPT !.stray = IF isImage THEN from ELSE ""]

-----------------------------------------------------------------------------
CacheTokenOK(tok) ==
  \/ tok.k \in {"type", "rw", "readwrite", "readonly", "ro", "Z", "z", "U"}
                 \cup NoFlags \cup Propagation
  \/ tok.k \in {"sharing", "bind-propagation", "id", "from"} \cup SourceKeys
     /\ tok.v # NoArg
  \/ tok.k \in TargetKeys /\ tok.v \in AbsPaths
  \/ tok.k \in {"mode", "uid", "gid"} /\ tok.v \in Numbers

CacheOptionOf(tok) ==
  CASE tok.k \in {"rw", "readwrite"} -> "rw"
    [] tok.k \in {"ro", "readonly"} -> "ro"
    [] tok.k \in NoFlags \cup Propagation \cup {"Z", "z", "U"} -> tok.k
    [] tok.k = "bind-propagation" -> tok.v
    [] OTHER -> NoOption

CacheOptions(t) ==
  Options(t, CacheOptionOf)
    \cup (IF SELinux /\ ~HasKey(t, {"Z", "z", "from"}) THEN Default(1, "z") ELSE {})
    \cup (IF HasKey(t, Propagation \cup {"U"}) THEN {} ELSE Default(2, "shared"))
    \cup (IF HasKey(t, {"ro", "readonly"}) THEN {} ELSE Default(3, "rw"))
    \cup Default(4, "bind")

\* The directory a cache mount shows: one per id, or per destination.
CacheDir(t) ==
  IF HasKey(t, {"id"}) THEN LastValue(t, {"id"}) ELSE LastValue(t, TargetKeys)

\* The lock file is kept under the cache's name; a cache taken from a stage has
\* no directory for it and locks one file in the working directory instead.
CacheLock(t) == IF HasKey(t, {"from"}) THEN "cwd" ELSE CacheDir(t)

\* Variant: the lock is named after the destination, also for a cache with an id
LockedTarget(t, sharing) ==
  IF sharing = "locked" THEN LastValue(t, TargetKeys) ELSE ""

TargetLock(t, sharing) == IF sharing = "locked" THEN CacheLock(t) ELSE ""

GetCacheMount(t, stages) ==
  LET sharing == IF HasKey(t, {"sharing"}) THEN LastValue(t, {"sharing"}) ELSE "shared"
      lock == TargetLock(t, sharing)
  IN IF \E i \in DOMAIN t : t[i].k = "sharing" /\ t[i].v = NoArg THEN Panic
     ELSE IF \/ \E i \in DOMAIN t : ~CacheTokenOK(t[i])
             \/ ~HasKey(t, TargetKeys)
             \/ HasKey(t, {"from"}) /\ LastValue(t, {"from"}) \notin stages
             \/ sharing \notin {"locked", "shared"}
     THEN Failure
     ELSE IF ~ValidateVolumeOpts(CacheOptions(t))
     THEN [Failure EXCEPT !.waits = lock]
     ELSE [Nothing EXCEPT !.res = "mount", !.dest = Path(LastValue(t, TargetKeys)),
                          !.opts = CacheOptions(t), !.waits = lock, !.lock = lock]

-----------------------------------------------------------------------------
TmpfsTokenOK(tok) ==
  \/ tok.k \in {"type", "ro", "readonly", "tmpcopyup"} \cup NoFlags
  \/ tok.k \in {"tmpfs-mode", "tmpfs-size"} /\ tok.v # NoArg
  \/ tok.k \in TargetKeys /\ tok.v \in AbsPaths

GetTmpfsMount(t) ==
  IF (\A i \in DOMAIN t : TmpfsTokenOK(t[i])) /\ HasKey(t, TargetKeys)
  THEN [Nothing EXCEPT !.res = "mount", !.dest = Path(LastValue(t, TargetKeys))]
  ELSE Failure

\* The tokens of secret and ssh mounts.
IdTokenOK(tok) ==
  \/ tok.k \in {"type", "id"} \cup TargetKeys
  \/ tok.k = "required" /\ tok.v \in {"true", "false"}
  \/ tok.k \in {"mode", "uid", "gid"} /\ tok.v \in Numbers

Required(t) == LastValue(t, {"required"}) = "true"

\* A secret from the environment is written to a temporary file, one from a
\* file to the container's directory.
getSecretMount(t, secrets) ==
  LET id == LastValue(t, {"id"})
      target == LastValue(t, TargetKeys)
  IN IF \E i \in DOMAIN t : t[i].k # "type" /\ IdTokenOK(t[i]) /\ t[i].v = NoArg THEN Panic
     ELSE IF (\E i \in DOMAIN t : ~IdTokenOK(t[i])) \/ id = NoArg THEN Failure
     ELSE IF id \notin DOMAIN secrets THEN IF Required(t) THEN Failure ELSE Nothing
     ELSE [Nothing EXCEPT !.res = "mount",
                          !.dest = IF target = NoArg THEN SecretPath(id) ELSE Path(target),
                          !.tmp = secrets[id] = "env"]

\* count is the number of agents this RUN already has.
getSSHMount(t, count, sshsources) ==
  LET id == IF HasKey(t, {"id"}) THEN LastValue(t, {"id"}) ELSE "default"
      target == LastValue(t, TargetKeys)
  IN IF \E i \in DOMAIN t : ~IdTokenOK(t[i]) \/ t[i].v = NoArg THEN Failure
     ELSE IF id \notin sshsources THEN IF Required(t) THEN Failure ELSE Nothing
     ELSE [Nothing EXCEPT !.res = "mount",
                          !.dest = IF target = NoArg THEN SocketPath(count) ELSE Path(target),
                          !.agent = TRUE]

\* The type of a flag: the one it names, else the one of the flag before it.
MountType(t, previous) ==
  IF LastValue(t, {"type"}) = NoArg THEN previous ELSE LastValue(t, {"type"})

==============================================================================
