------------------------------- MODULE Rmtab -------------------------------
(***************************************************************************)
(* The mount activity log of src/mountd/rmtab.c, shared through the file  *)
(* /etc/rmtab by every mountd process.                                     *)
(*                                                                         *)
(* Each process keeps the log in memory (rmtablist, a linked list sorted  *)
(* by host, then path) and the mtime of the file when it last read or     *)
(* wrote it (old_rmtab_mtime).  Every operation first calls               *)
(* rmtab_read_file, which rereads the file only when its mtime differs    *)
(* from the recorded one, then changes the list and, if it changed,       *)
(* rewrites the whole file: fopen("w") truncates it, fclose writes the    *)
(* lines, and a stat records the new mtime.  Those three steps are        *)
(* separate actions, as other processes and a crash may come between them.*)
(*                                                                         *)
(* Hosts and paths are numbers, ordered as strcmp orders their names.     *)
(* The file holds the entries as written; its line format (host:path) is  *)
(* not modelled.  mtimes have the file system's one-second resolution:    *)
(* `now` is the current second.                                            *)
(***************************************************************************)
EXTENDS Naturals, Sequences, SequencesExt, FiniteSets

CONSTANTS
    Procs,        \* the mountd processes sharing the file
    Hosts,        \* client host names, as numbers ordered like strcmp
    Paths,        \* mounted directories, as numbers ordered like strcmp
    MaxTime,      \* the last second the model reaches
    MaxCrash,     \* bound on the number of crashes of a process
    CrashPoints,  \* the steps of write_file at which a process may die
    Faults,       \* the calls that may fail: subset of {"creat", "read", "write"}
    Overlap,      \* whether a call may start while another is in progress
    InitContents  \* the contents /etc/rmtab may have at start, when it exists

Entry == Hosts \X Paths

\* strcmp(cur, e) > 0 on (host, path)
Greater(a, e) == a[1] > e[1] \/ (a[1] = e[1] /\ a[2] > e[2])

Less(a, e) == Greater(e, a)

\* the operations of mountd that use the log: MNT, UMNT, UMNTALL and DUMP
Ops == [kind: {"add", "del"}, host: Hosts, path: Paths]
       \cup [kind: {"mdel", "dump"}, host: Hosts]

ASSUME /\ Faults \subseteq {"creat", "read", "write"}
       /\ CrashPoints \subseteq {"open", "close", "stat"}
       /\ Overlap \in BOOLEAN
       /\ InitContents \subseteq Seq(Entry)

VARIABLES
    exists,   \* /etc/rmtab exists
    file,     \* its contents, the entries in the order written
    mtime,    \* its mtime
    now,      \* the current second
    list,     \* [Procs -> rmtablist]
    old,      \* [Procs -> old_rmtab_mtime]
    pc,       \* [Procs -> "idle" | "open" | "close" | "stat"], the step of write_file
    crashes,  \* [Procs -> number of crashes]
    pend,     \* [Procs -> the operation whose write is in progress]
    truths    \* the sets of mounts the answered operations may have recorded

vars == <<exists, file, mtime, now, list, old, pc, crashes, pend, truths>>

(***************************************************************************)
(* The list operations.  Each returns the new list and whether it changed.*)
(***************************************************************************)

\* A variant that inserts before the first greater entry without looking
\* for an equal one
rmtab_insert_unchecked(l, e) ==
    LET k == SelectInSeq(l, LAMBDA x : Greater(x, e))
    IN  [changed |-> TRUE, list |-> IF k = 0 THEN Append(l, e) ELSE InsertAt(l, k, e)]

\* rmtab_insert: walk to the first entry greater than e, stopping if an
\* equal one comes first
rmtab_insert(l, e) ==
    LET k == SelectInSeq(l, LAMBDA x : Greater(x, e) \/ x = e)
    IN  IF k # 0 /\ l[k] = e THEN [changed |-> FALSE, list |-> l]
        ELSE [changed |-> TRUE, list |-> IF k = 0 THEN Append(l, e) ELSE InsertAt(l, k, e)]

\* rmtab_del_client: unlink the first equal entry
rmtab_del(l, e) ==
    LET k == SelectInSeq(l, LAMBDA x : x = e)
    IN  [changed |-> k # 0, list |-> IF k = 0 THEN l ELSE RemoveAt(l, k)]

\* rmtab_mdel_client: unlink the entries of host h, stopping at the first
\* entry of a greater host
rmtab_mdel(l, h) ==
    LET stop == SelectInSeq(l, LAMBDA x : x[1] > h)
        pre  == IF stop = 0 THEN l ELSE SubSeq(l, 1, stop - 1)
        post == IF stop = 0 THEN <<>> ELSE SubSeq(l, stop, Len(l))
        res  == SelectSeq(pre, LAMBDA x : x[1] # h) \o post
    IN  [changed |-> res # l, list |-> res]

Apply(op, l) ==
    CASE op.kind = "add"  -> rmtab_insert(l, <<op.host, op.path>>)
      [] op.kind = "del"  -> rmtab_del(l, <<op.host, op.path>>)
      [] op.kind = "mdel" -> rmtab_mdel(l, op.host)
      [] op.kind = "dump" -> [changed |-> FALSE, list |-> l]

\* A variant of the read loop that loses the last line
Parse_drop_last(f) ==
    FoldLeft(LAMBDA acc, e : rmtab_insert(acc, e).list, <<>>, SubSeq(f, 1, Len(f) - 1))

\* the list the read loop of rmtab_read_file builds from the file
Parse(f) == FoldLeft(LAMBDA acc, e : rmtab_insert(acc, e).list, <<>>, f)

(***************************************************************************)
(* rmtab_read_file of process p: the states of the file and of p it may  *)
(* leave.                                                                  *)
(***************************************************************************)
Keep(p) == [exists |-> exists, file |-> file, mtime |-> mtime, list |-> list[p], old |-> old[p]]

rmtab_read_file(p) ==
    IF ~exists
    THEN {Keep(p) : x \in Faults \cap {"creat"}}
         \cup {[Keep(p) EXCEPT !.exists = TRUE, !.file = <<>>, !.mtime = now, !.old = now]}
    ELSE IF mtime = old[p] THEN {Keep(p)}
    ELSE {Keep(p) : x \in Faults \cap {"read"}}
         \cup {[Keep(p) EXCEPT !.list = Parse(file), !.old = mtime]}

\* the mounts an operation records, as a set
Ideal(op, S) ==
    CASE op.kind = "add"  -> S \cup {<<op.host, op.path>>}
      [] op.kind = "del"  -> S \ {<<op.host, op.path>>}
      [] op.kind = "mdel" -> {x \in S : x[1] # op.host}
      [] op.kind = "dump" -> S

\* truths once op has been answered: the reply goes out after the write
Done(op) == {Ideal(op, S) : S \in truths}

NoOp == [kind |-> "dump", host |-> CHOOSE h \in Hosts : TRUE]

Init ==
    /\ exists \in BOOLEAN
    /\ file \in IF exists THEN InitContents ELSE {<<>>}
    /\ mtime = 1
    /\ now = 1
    /\ list = [p \in Procs |-> <<>>]
    /\ old = [p \in Procs |-> 0]
    /\ pc = [p \in Procs |-> "idle"]
    /\ crashes = [p \in Procs |-> 0]
    /\ pend = [p \in Procs |-> NoOp]
    /\ truths = {ToSet(file)}

\* rmtab_add_client, rmtab_del_client, rmtab_mdel_client, rmtab_lst_client:
\* read the file, change the list, and go on to write it if it changed
Call(p, op) ==
    /\ pc[p] = "idle"
    /\ Overlap \/ \A q \in Procs : pc[q] = "idle"
    /\ \E r \in rmtab_read_file(p) :
          LET a == Apply(op, r.list)
          IN  /\ exists' = r.exists /\ file' = r.file /\ mtime' = r.mtime
              /\ list' = [list EXCEPT ![p] = a.list]
              /\ old' = [old EXCEPT ![p] = r.old]
              /\ pc' = [pc EXCEPT ![p] = IF a.changed THEN "open" ELSE "idle"]
              /\ pend' = [pend EXCEPT ![p] = op]
              /\ truths' = IF a.changed THEN truths ELSE Done(op)
    /\ UNCHANGED <<now, crashes>>

\* rmtab_write_file: fopen(_PATH_RMTAB, "w") creates or truncates the file
WriteOpen(p) ==
    /\ pc[p] = "open"
    /\ \/ /\ "write" \in Faults
          /\ pc' = [pc EXCEPT ![p] = "idle"]
          /\ truths' = Done(pend[p])
          /\ UNCHANGED <<exists, file, mtime>>
       \/ /\ exists' = TRUE /\ file' = <<>> /\ mtime' = now
          /\ pc' = [pc EXCEPT ![p] = "close"]
          /\ UNCHANGED truths
    /\ UNCHANGED <<now, list, old, crashes, pend>>

\* the fprintf loop and fclose: the lines reach the file
WriteClose(p) ==
    /\ pc[p] = "close"
    /\ file' = list[p] /\ mtime' = now
    /\ pc' = [pc EXCEPT ![p] = "stat"]
    /\ UNCHANGED <<exists, now, list, old, crashes, pend, truths>>

\* stat(_PATH_RMTAB) and old_rmtab_mtime = newstat.st_mtime
WriteStat(p) ==
    /\ pc[p] = "stat"
    /\ old' = [old EXCEPT ![p] = mtime]
    /\ pc' = [pc EXCEPT ![p] = "idle"]
    /\ truths' = Done(pend[p])
    /\ UNCHANGED <<exists, file, mtime, now, list, crashes, pend>>

\* mountd dies during a write and is started again with an empty list; the
\* client got no answer, so the operation may or may not have happened
Crash(p) ==
    /\ pc[p] \in CrashPoints
    /\ crashes[p] < MaxCrash
    /\ crashes' = [crashes EXCEPT ![p] = @ + 1]
    /\ list' = [list EXCEPT ![p] = <<>>]
    /\ old' = [old EXCEPT ![p] = 0]
    /\ pc' = [pc EXCEPT ![p] = "idle"]
    /\ truths' = truths \cup Done(pend[p])
    /\ UNCHANGED <<exists, file, mtime, now, pend>>

Tick == now < MaxTime /\ now' = now + 1 /\ UNCHANGED <<exists, file, mtime, list, old, pc, crashes, pend, truths>>

Next ==
    \/ \E p \in Procs, op \in Ops : Call(p, op)
    \/ \E p \in Procs : WriteOpen(p) \/ WriteClose(p) \/ WriteStat(p) \/ Crash(p)
    \/ Tick

Spec == Init /\ [][Next]_vars

(***************************************************************************)
(* Properties                                                              *)
(***************************************************************************)
TypeOK ==
    /\ exists \in BOOLEAN /\ mtime \in 1..MaxTime /\ now \in 1..MaxTime
    /\ \A p \in Procs :
          /\ list[p] \in Seq(Entry) /\ Len(list[p]) <= Cardinality(Entry)
          /\ old[p] \in 0..MaxTime
          /\ pc[p] \in {"idle", "open", "close", "stat"}
    /\ file \in Seq(Entry) /\ Len(file) <= Cardinality(Entry)
    /\ pend \in [Procs -> Ops] /\ truths \subseteq SUBSET Entry

\* When no call is in progress, what DUMP (rmtab_lst_client) would return
\* from any process is the set of mounts the answered MNT, UMNT and
\* UMNTALL calls record (with or without a call a crash left unanswered),
\* each once and in order: the mtime check of rmtab_read_file rereads the
\* file whenever another writer changed it, and never throws away an
\* update of the process's own that did not reach the file.
DumpIsTruth ==
    (\A q \in Procs : pc[q] = "idle") => \A p \in Procs :
        \A r \in rmtab_read_file(p) : \E S \in truths : r.list = SetToSortSeq(S, Less)

=============================================================================
