----------------------------- MODULE MCIsolation -----------------------------
EXTENDS Isolation

Mount(dest, type, opts, srcFlags, present) ==
  [dest |-> dest, type |-> type, opts |-> opts, srcFlags |-> srcFlags, present |-> present,
   staged |-> FALSE]

\* Lists of mounts as runSetupVolumeMounts and its siblings make them: in no
\* order, with conflicts, with sources that are gone.
MountLists ==
  { << Mount(<<"a", "b">>, "bind", <<"rw", "ro">>, {"nosuid"}, TRUE),
       Mount(<<"a">>, "bind", <<"nodev", "noexec", "exec">>, {}, TRUE),
       Mount(<<"a", "b">>, "tmpfs", <<"noexec">>, {}, TRUE) >>,
    << Mount(<<"a", "b">>, "overlay", <<"ro">>, {}, TRUE),
       Mount(<<"a">>, "bind", <<"ro", "nodev">>, {"noexec"}, TRUE),
       Mount(<<"dev", "shm">>, "tmpfs", <<>>, {}, TRUE),
       Mount(<<"proc">>, "proc", <<>>, {}, TRUE) >>,
    << Mount(<<"c">>, "bind", <<"rw">>, {}, FALSE),
       Mount(<<"a">>, "bind", <<"ro", "nobuildahbind">>, {"ro"}, TRUE) >>,
    << Mount(<<"c">>, "bind", <<"nobuildahbind">>, {}, FALSE) >> }

Request(iso, net, mounts, uid, caps, limit, input, eof, reads) ==
  [iso |-> iso, net |-> net, mounts |-> mounts, uid |-> uid, caps |-> caps, limit |-> limit,
   hard |-> 1, in |-> input, eof |-> eof, reads |-> reads, big |-> iso = "chroot"]

\* Requests that differ in what they mount and in the privileges they ask for,
\* and requests that differ in their input.
MCRequests ==
  {Request("chroot", FALSE, m, u, c, l, 0, TRUE, FALSE) :
     m \in MountLists, u \in {0, 1}, c \in {{}, {"CHOWN", "SETUID"}}, l \in 0 .. 2}
  \cup {Request(iso, net, <<>>, 0, {}, 1, n, e \/ r, r) :
     iso \in {"oci", "chroot"}, net \in BOOLEAN, n \in {0, 2}, e \in BOOLEAN, r \in BOOLEAN}

MCProtected ==
  << [path |-> <<"proc", "bus">>, mask |-> FALSE],
     [path |-> <<"sys">>, mask |-> FALSE],
     [path |-> <<"proc", "acpi">>, mask |-> TRUE, dir |-> TRUE, content |-> TRUE],
     [path |-> <<"sys", "fw">>, mask |-> TRUE, dir |-> TRUE, content |-> FALSE],
     [path |-> <<"proc", "keys">>, mask |-> TRUE, dir |-> FALSE, content |-> TRUE] >>
==============================================================================
