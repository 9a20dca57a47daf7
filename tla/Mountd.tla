------------------------------- MODULE Mountd -------------------------------
(***************************************************************************)
(* The MOUNT protocol procedures of src/mountd/mountd.c (MNT, DUMP, UMNT, *)
(* UMNTALL, PATHCONF) over the activity log of the Rmtab module.           *)
(*                                                                         *)
(* A client sends a directory path (dirpath), drawn from Args.  MNT       *)
(* resolves it with realpath() before it checks access and records the   *)
(* resolved path; UMNT hands the path as sent to rmtab_del_client.  Paths *)
(* are Rmtab's numbers; Real gives realpath() of each argument (NoPath    *)
(* when it fails), Kind the file type stat() finds, Granted the paths     *)
(* auth_clnt and auth_path let each host mount without noaccess (the     *)
(* export table code is not under src/), NfsMounted the paths nfsmounted *)
(* reports.  The host is the name rmtab_gethost gives the caller.         *)
(*                                                                         *)
(* mounted is the clients' side: the (host, path-as-sent) pairs whose MNT *)
(* was answered OK and which have not been unmounted since.               *)
(***************************************************************************)
EXTENDS Naturals, Sequences, SequencesExt, FiniteSets

CONSTANTS
    Procs, Hosts, Paths, MaxTime, MaxCrash, CrashPoints, Faults, Overlap,
    InitContents,   \* as in Rmtab
    Args,           \* the dirpaths clients send
    NoPath,         \* realpath() failed
    Real,           \* [Args -> Paths \cup {NoPath}]: realpath() of an argument
    Kind,           \* [Paths -> {"dir", "reg", "other", "missing"}]: what stat() finds
    Granted,        \* [Hosts -> SUBSET Paths]: auth_clnt, auth_path and not noaccess
    NfsMounted,     \* the paths on an NFS-mounted file system
    ReExport,       \* re_export (-r)
    FhFail          \* whether fh_create may fail

ASSUME /\ Args \subseteq Paths /\ NoPath \notin Paths
       /\ Real \in [Args -> Paths \cup {NoPath}]
       /\ Kind \in [Paths -> {"dir", "reg", "other", "missing"}]
       /\ Granted \in [Hosts -> SUBSET Paths]
       /\ ReExport \in BOOLEAN /\ FhFail \in BOOLEAN

VARIABLES
    exists, file, mtime, now, list, old, pc, crashes, pend, truths,  \* Rmtab
    mounted   \* the (host, dirpath) pairs the clients hold mounted

rmvars == <<exists, file, mtime, now, list, old, pc, crashes, pend, truths>>
vars == <<rmvars, mounted>>

R == INSTANCE Rmtab

\* argbuf after the realpath(): the resolved path, or the argument when
\* resolution failed (saved_errno is set then)
Resolved(a) == IF Real[a] = NoPath THEN a ELSE Real[a]

Init ==
    /\ R!Init
    /\ mounted = {<<e[1], e[2]>> : e \in ToSet(file)}

(***************************************************************************)
(* mountproc_mnt_1.  MntStatus is the fhs_status of the reply; a mount    *)
(* that passes every check is recorded with rmtab_add_client whatever     *)
(* fh_create returned.  The reply itself leaves no state in mountd.       *)
(***************************************************************************)
MntStatus(h, a) ==
    LET path == Resolved(a) IN
    CASE path \notin Granted[h]                          -> {"ACCES"}
      [] Real[a] = NoPath \/ Kind[path] = "missing"      -> {"ERRNO"}
      [] Kind[path] \notin {"dir", "reg"}                -> {"NOTDIR"}
      [] ~ReExport /\ path \in NfsMounted                -> {"ACCES"}
      [] OTHER -> {"OK"} \cup (IF FhFail THEN {"FHFAIL"} ELSE {})

\* A variant that calls rmtab_add_client once stat() succeeded, also for
\* the NOTDIR and NFS-mounted answers
mountproc_mnt_1_record_after_stat(p, h, a) ==
    \E s \in MntStatus(h, a) :
        /\ IF Resolved(a) \in Granted[h] /\ s # "ERRNO"
             THEN /\ R!Call(p, [kind |-> "add", host |-> h, path |-> Resolved(a)])
                  /\ mounted' = IF s = "OK" THEN mounted \cup {<<h, a>>} ELSE mounted
             ELSE UNCHANGED <<rmvars, mounted>>

mountproc_mnt_1(p, h, a) ==
    \E s \in MntStatus(h, a) :
        /\ IF s \in {"OK", "FHFAIL"}
             THEN /\ R!Call(p, [kind |-> "add", host |-> h, path |-> Resolved(a)])
                  /\ mounted' = IF s = "OK" THEN mounted \cup {<<h, a>>} ELSE mounted
             ELSE UNCHANGED <<rmvars, mounted>>

(***************************************************************************)
(* mountproc_pathconf_2.  The reply is zeroed first; the server's limits  *)
(* are filled in only when realpath() and stat() succeed and the caller   *)
(* passes the access gate and the nfsmounted test.  The reply leaves no   *)
(* state in mountd, so the procedure is the reply it gives, not a step.   *)
(***************************************************************************)
\* A variant without the nfsmounted test
mountproc_pathconf_2_any_fs(h, a) ==
    CASE Real[a] = NoPath                     -> "zeroed"
      [] Kind[Real[a]] = "missing"            -> "zeroed"
      [] Real[a] \notin Granted[h]            -> "zeroed"
      [] OTHER                                -> "limits"

mountproc_pathconf_2(h, a) ==
    CASE Real[a] = NoPath                     -> "zeroed"
      [] Kind[Real[a]] = "missing"            -> "zeroed"
      [] Real[a] \notin Granted[h]            -> "zeroed"
      [] ~ReExport /\ Real[a] \in NfsMounted  -> "zeroed"
      [] OTHER                                -> "limits"

\* mountproc_umnt_1: rmtab_del_client(*argp), the path as sent
mountproc_umnt_1(p, h, a) ==
    /\ R!Call(p, [kind |-> "del", host |-> h, path |-> a])
    /\ mounted' = mounted \ {<<h, a>>}

\* mountproc_umntall_1: rmtab_mdel_client
mountproc_umntall_1(p, h) ==
    /\ R!Call(p, [kind |-> "mdel", host |-> h])
    /\ mounted' = {m \in mounted : m[1] # h}

\* mountproc_dump_1: rmtab_lst_client, which rereads the file
mountproc_dump_1(p, h) ==
    /\ R!Call(p, [kind |-> "dump", host |-> h])
    /\ UNCHANGED mounted

\* the steps of rmtab_write_file, a crash of mountd and the clock
Log(p) ==
    /\ R!WriteOpen(p) \/ R!WriteClose(p) \/ R!WriteStat(p) \/ R!Crash(p)
    /\ UNCHANGED mounted

Next ==
    \/ \E p \in Procs, h \in Hosts, a \in Args :
          mountproc_mnt_1(p, h, a) \/ mountproc_umnt_1(p, h, a)
    \/ \E p \in Procs, h \in Hosts : mountproc_umntall_1(p, h) \/ mountproc_dump_1(p, h)
    \/ \E p \in Procs : Log(p)
    \/ R!Tick /\ UNCHANGED mounted

Spec == Init /\ [][Next]_vars

-----------------------------------------------------------------------------
\* Rmtab's types, and rmtablist a list of distinct entries: rmtab_insert
\* never links an entry that is already in the list
TypeOK ==
    /\ R!TypeOK
    /\ mounted \subseteq Hosts \X Args
    /\ \A p \in Procs : IsInjective(list[p])

(***************************************************************************)
(* When no call is in progress, every mount DUMP would list is held by    *)
(* its client: some MNT of that host for an argument resolving to that    *)
(* path was answered OK and not followed by a UMNT or UMNTALL.  MNT      *)
(* records the realpath() of its argument, UMNT deletes the argument as  *)
(* sent, and MNT records even when fh_create fails.                      *)
(***************************************************************************)
RecordsAccounted ==
    (\A q \in Procs : pc[q] = "idle") => \A p \in Procs :
        \A r \in R!rmtab_read_file(p) : \A e \in ToSet(r.list) :
            \E a \in Args : <<e[1], a>> \in mounted /\ Resolved(a) = e[2]

\* The comment of mountproc_pathconf_2: unlike Sun's, this server does not
\* "let anyone snoop" with PATHCONF.  The server's limits go only to a
\* host that MNT would not refuse with ACCES for the same dirpath, and only
\* for a path that realpath() and stat() find; and a host that holds a
\* dirpath mounted does get them.  The two handlers resolve, stat and
\* authenticate in different orders.
PathconfGated ==
    \A h \in Hosts, a \in Args :
        /\ mountproc_pathconf_2(h, a) = "limits"
              => "ACCES" \notin MntStatus(h, a) /\ "ERRNO" \notin MntStatus(h, a)
        /\ <<h, a>> \in mounted => mountproc_pathconf_2(h, a) = "limits"

=============================================================================
