------------------------------- MODULE Reload -------------------------------
(***************************************************************************)
(* The nfsd main loop (nfs_dispatch, dispatch.c) and its SIGHUP handler   *)
(* (nfsd_reinitialize, nfsd.c).  An administrator edits the exports file  *)
(* and sends SIGHUP; the handler runs asynchronously, interrupting the    *)
(* main thread between any two of its steps.  It rereads the exports at   *)
(* once when no call is in progress, and otherwise sets need_reinit so    *)
(* that the main loop rereads them after the reply (dispatch.c:218).      *)
(*                                                                         *)
(* The exports file and the export table in use are abstracted to        *)
(* generation numbers: cfg counts the edits, table is the generation      *)
(* auth_init last read.  The main thread's own call of nfsd_reinitialize  *)
(* is split at the points where the handler can interrupt it: the load    *)
(* and the store of "inprogress++", the reread, and the two resets.       *)
(* fh_flush(1), called before auth_init, is in fh.c, outside the source   *)
(* tree, and is not modelled.                                             *)
(***************************************************************************)
EXTENDS Naturals

CONSTANTS
    MaxGen      \* number of edit-and-SIGHUP events in a behaviour

VARIABLES
    cfg,        \* generation of the exports file on disk
    table,      \* generation of the export table auth_init loaded
    dirty,      \* _rpcsvcdirty
    need,       \* need_reinit (nfsd.c:108)
    inprog,     \* the static volatile inprogress of nfsd_reinitialize
    tmp,        \* the value of inprogress the main thread loaded for ++
    pc          \* the main thread's position

vars == <<cfg, table, dirty, need, inprog, tmp, pc>>

Gens == 0..MaxGen

\* "wait": in svc_run's select; "call": inside nfs_dispatch with
\* _rpcsvcdirty set; "done": at the label done; "inc_load" .. "clear_need": the
\* main thread inside nfsd_reinitialize(0).
PCs == {"wait", "call", "done",
        "inc_load", "inc_store", "auth_init", "clear", "clear_need"}

Init ==
    /\ cfg = 0
    /\ table = 0
    /\ dirty = FALSE
    /\ need = FALSE
    /\ inprog = 0
    /\ tmp = 0
    /\ pc = "wait"

(***************************************************************************)
(* The signal handler, as one atomic step: SIGHUP is blocked while its    *)
(* handler runs, and the main thread is suspended.  The edit of the       *)
(* exports file that precedes the signal is part of the step.             *)
(***************************************************************************)
nfsd_reinitialize_undeferred ==
    /\ cfg < MaxGen
    /\ cfg' = cfg + 1
    /\ IF inprog # 0
         THEN /\ inprog' = inprog + 1
              /\ UNCHANGED <<table, need>>
         ELSE /\ table' = cfg'
              /\ inprog' = 0
              /\ need' = FALSE
    /\ UNCHANGED <<dirty, tmp, pc>>

nfsd_reinitialize ==
    /\ cfg < MaxGen
    /\ cfg' = cfg + 1
    /\ CASE dirty ->
              /\ need' = TRUE
              /\ UNCHANGED <<table, inprog>>
         [] inprog # 0 ->
              /\ inprog' = inprog + 1
              /\ UNCHANGED <<table, need>>
         [] OTHER ->
              /\ table' = cfg'
              /\ inprog' = 0
              /\ need' = FALSE
    /\ UNCHANGED <<dirty, tmp, pc>>

(***************************************************************************)
(* nfs_dispatch up to the handler call: _rpcsvcdirty = 1, then the        *)
(* procedure-range check and the argument decoding.                       *)
(***************************************************************************)
Receive ==
    /\ pc = "wait"
    /\ dirty' = TRUE
    /\ pc' = "call"
    /\ UNCHANGED <<cfg, table, need, inprog, tmp>>

\* The handler runs against the export table, the reply is sent and the
\* arguments freed; a failed range check or decode jumps to done the same.
Reply ==
    /\ pc = "call"
    /\ pc' = "done"
    /\ UNCHANGED <<cfg, table, dirty, need, inprog, tmp>>

\* done: _rpcsvcdirty = 0, and the deferred reload if nfsd_need_reinit().
nfsd_need_reinit == need

Done_unchecked ==
    /\ pc = "done"
    /\ dirty' = FALSE
    /\ pc' = "wait"
    /\ UNCHANGED <<cfg, table, need, inprog, tmp>>

Done ==
    /\ pc = "done"
    /\ dirty' = FALSE
    /\ pc' = IF nfsd_need_reinit THEN "inc_load" ELSE "wait"
    /\ UNCHANGED <<cfg, table, need, inprog, tmp>>

(***************************************************************************)
(* The main thread's nfsd_reinitialize(0).  _rpcsvcdirty is 0 here, so    *)
(* the first test falls through.  "if (inprogress++)" is a load and a     *)
(* store the handler may run between.                                     *)
(***************************************************************************)
IncLoad ==
    /\ pc = "inc_load"
    /\ tmp' = inprog
    /\ pc' = "inc_store"
    /\ UNCHANGED <<cfg, table, dirty, need, inprog>>

IncStore ==
    /\ pc = "inc_store"
    /\ inprog' = tmp + 1
    /\ pc' = IF tmp # 0 THEN "wait" ELSE "auth_init"
    /\ UNCHANGED <<cfg, table, dirty, need, tmp>>

\* auth_override_uid(0); fh_flush(1); auth_init(NULL): reread the exports.
Load ==
    /\ pc = "auth_init"
    /\ table' = cfg
    /\ pc' = "clear"
    /\ UNCHANGED <<cfg, dirty, need, inprog, tmp>>

\* inprogress = 0; then need_reinit = 0.
Clear_noreset ==
    /\ pc = "clear"
    /\ pc' = "clear_need"
    /\ UNCHANGED <<cfg, table, dirty, need, inprog, tmp>>

Clear ==
    /\ pc = "clear"
    /\ inprog' = 0
    /\ pc' = "clear_need"
    /\ UNCHANGED <<cfg, table, dirty, need, tmp>>

ClearNeed ==
    /\ pc = "clear_need"
    /\ need' = FALSE
    /\ pc' = "wait"
    /\ UNCHANGED <<cfg, table, dirty, inprog, tmp>>

Main == Reply \/ Done \/ IncLoad \/ IncStore \/ Load \/ Clear \/ ClearNeed

Next == nfsd_reinitialize \/ Receive \/ Main

\* The main thread always finishes the call it started: it is fair; new
\* requests and signals are not.
Spec == Init /\ [][Next]_vars /\ WF_vars(Main)

-----------------------------------------------------------------------------
TypeOK ==
    /\ cfg \in Gens /\ table \in Gens
    /\ dirty \in BOOLEAN /\ need \in BOOLEAN
    /\ inprog \in 0..MaxGen /\ tmp \in 0..MaxGen
    /\ pc \in PCs

(***************************************************************************)
(* A call runs against one export table: no step, of the main thread or   *)
(* of the SIGHUP handler, replaces the table between nfs_dispatch setting *)
(* _rpcsvcdirty and the reply (the spec's "never mutated in place while a *)
(* call might be reading it").                                            *)
(***************************************************************************)
TableStableInCall == [][pc = "call" => table' = table]_vars

(***************************************************************************)
(* A reload deferred by the handler (need_reinit set during a call) is    *)
(* eventually performed by the main loop at the done label.               *)
(***************************************************************************)
NeedServed == need ~> ~need

(***************************************************************************)
(* Whenever the server waits for the next request, the export table it   *)
(* will use is the one on disk at the last SIGHUP: no SIGHUP is lost.     *)
(***************************************************************************)
ReloadApplied == pc = "wait" => table = cfg

=============================================================================
