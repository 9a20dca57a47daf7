------------------------------ MODULE Failsafe ------------------------------
(***************************************************************************)
(* The fail-safe supervisor of src/libnfs/failsafe.c.  nfsd (-F) and      *)
(* mountd call failsafe() before they install their signal handlers; the  *)
(* call returns only in the forked servers, while the parent loops for     *)
(* ever: it forks servers until `running` reaches `ncopies`, then waits   *)
(* for one to terminate.  A server killed by a signal other than SIGTERM  *)
(* is restarted; one that exited, or was killed by SIGTERM, is not, and   *)
(* ncopies shrinks by one after the pid table is compacted.               *)
(*                                                                         *)
(* Time is abstracted to whether time(NULL) still equals last_restart     *)
(* (`fresh`): the clock may move on at any moment, and sleep(backoff)     *)
(* always moves it on.  Pids are handed out in fork order.                *)
(***************************************************************************)
EXTENDS Naturals, FiniteSets

CONSTANTS
    NCopies,    \* ncopies as passed to failsafe()
    MaxDeaths,  \* bound on the number of server terminations
    Kinds       \* how a server may end: "signal", "sigterm" (WIFSIGNALED) or "exit" (WIFEXITED)

ASSUME /\ NCopies \in Nat \ {0}
       /\ MaxDeaths \in Nat
       /\ Kinds \subseteq {"signal", "sigterm", "exit"}

Slots == 0..NCopies - 1
MaxPid == NCopies + MaxDeaths
MaxBackoff == 60 * 64

VARIABLES
    servers,   \* the pid table: [Slots -> pid, 0 for a free slot]
    running,   \* the number of servers the parent counts
    ncopies,   \* the number of servers it keeps
    fresh,     \* time(NULL) = last_restart
    restarts,  \* forks within the second of last_restart
    backoff,   \* the next sleep, in seconds
    pc,        \* "loop" (the while (1) body) or "exited"
    alive,     \* the servers running
    zombies,   \* the terminated servers not yet reaped, as <<pid, kind>>
    nextpid,   \* the pid the next fork returns
    deaths,    \* terminations so far
    stopped    \* servers ended by SIGTERM, as an administrator stops one

vars == <<servers, running, ncopies, fresh, restarts, backoff, pc, alive,
          zombies, nextpid, deaths, stopped>>

Init ==
    /\ servers = [i \in Slots |-> 0]
    /\ running = 0
    /\ ncopies = NCopies
    /\ fresh = FALSE
    /\ restarts = 0
    /\ backoff = 60
    /\ pc = "loop"
    /\ alive = {}
    /\ zombies = {}
    /\ nextpid = 1
    /\ deaths = 0
    /\ stopped = 0

(***************************************************************************)
(* One round of the inner loop: the restart throttle, the search for a   *)
(* free slot, and fork().  More than 2*ncopies forks in one second make   *)
(* the parent sleep, doubling backoff below an hour; a fork in a later    *)
(* second resets the count and the backoff.                                *)
(***************************************************************************)
\* A variant whose fork in a new second keeps the count of the last one
Start_unreset ==
    /\ pc = "loop"
    /\ running < ncopies
    /\ {i \in Slots : i < ncopies /\ servers[i] = 0} # {}
    /\ IF fresh
         THEN /\ restarts' = restarts + 1
              /\ IF restarts + 1 > 2 * ncopies
                   THEN /\ backoff' = IF backoff < 60 * 60 THEN 2 * backoff ELSE backoff
                        /\ fresh' = FALSE
                   ELSE UNCHANGED <<backoff, fresh>>
         ELSE /\ fresh' = TRUE
              /\ UNCHANGED restarts
              /\ backoff' = 60
    /\ LET free == {i \in Slots : i < ncopies /\ servers[i] = 0}
           child == CHOOSE i \in free : \A j \in free : i <= j
       IN  servers' = [servers EXCEPT ![child] = nextpid]
    /\ running' = running + 1
    /\ alive' = alive \cup {nextpid}
    /\ nextpid' = nextpid + 1
    /\ UNCHANGED <<ncopies, pc, zombies, deaths, stopped>>

FreeSlot == {i \in Slots : i < ncopies /\ servers[i] = 0}

Start ==
    /\ pc = "loop"
    /\ running < ncopies
    /\ FreeSlot # {}
    /\ IF fresh
         THEN /\ restarts' = restarts + 1
              /\ IF restarts + 1 > 2 * ncopies
                   THEN /\ backoff' = IF backoff < 60 * 60 THEN 2 * backoff ELSE backoff
                        /\ fresh' = FALSE
                   ELSE UNCHANGED <<backoff, fresh>>
         ELSE /\ fresh' = TRUE
              /\ restarts' = 0
              /\ backoff' = 60
    /\ LET child == CHOOSE i \in FreeSlot : \A j \in FreeSlot : i <= j
       IN  servers' = [servers EXCEPT ![child] = nextpid]
    /\ running' = running + 1
    /\ alive' = alive \cup {nextpid}
    /\ nextpid' = nextpid + 1
    /\ UNCHANGED <<ncopies, pc, zombies, deaths, stopped>>

(***************************************************************************)
(* wait() returns a terminated server.  Its slot is freed; unless it was  *)
(* killed by a signal other than SIGTERM, the slots above it move down,   *)
(* ncopies shrinks, and the parent exits once none is running.            *)
(***************************************************************************)
\* A variant that moves down only the slots above the one after the freed one
Compact_skip(s, c, n) == [i \in Slots |-> IF c < i /\ i < n - 1 THEN s[i + 1] ELSE s[i]]

Compact(s, c, n) == [i \in Slots |-> IF c <= i /\ i < n - 1 THEN s[i + 1] ELSE s[i]]

\* A variant that restarts no server: the signal case does not reset child
Reap_norestart(z) ==
    /\ pc = "loop"
    /\ running >= ncopies
    /\ z \in zombies
    /\ zombies' = zombies \ {z}
    /\ LET child == CHOOSE i \in Slots : i < ncopies /\ servers[i] = z[1]
           freed == [servers EXCEPT ![child] = 0]
       IN  /\ running' = running - 1
           /\ IF running - 1 = 0
                THEN /\ pc' = "exited"
                     /\ UNCHANGED <<servers, ncopies>>
                ELSE /\ servers' = Compact(freed, child, ncopies)
                     /\ ncopies' = ncopies - 1
                     /\ UNCHANGED pc
    /\ UNCHANGED <<fresh, restarts, backoff, alive, nextpid, deaths, stopped>>

Reap(z) ==
    /\ pc = "loop"
    /\ running >= ncopies
    /\ z \in zombies
    /\ zombies' = zombies \ {z}
    /\ LET child == CHOOSE i \in Slots : i < ncopies /\ servers[i] = z[1]
           freed == [servers EXCEPT ![child] = 0]
       IN  /\ running' = running - 1
           /\ CASE z[2] = "signal" ->
                     /\ servers' = freed
                     /\ UNCHANGED <<ncopies, pc>>
                [] running - 1 = 0 ->
                     /\ servers' = freed
                     /\ pc' = "exited"
                     /\ UNCHANGED ncopies
                [] OTHER ->
                     /\ servers' = Compact(freed, child, ncopies)
                     /\ ncopies' = ncopies - 1
                     /\ UNCHANGED pc
    /\ UNCHANGED <<fresh, restarts, backoff, alive, nextpid, deaths, stopped>>

\* A server terminates: a fatal error calls exit(), SIGTERM runs the
\* handler sigterm() (which calls exit(1)) once installed, or a signal kills it
Die(c, k) ==
    /\ c \in alive
    /\ deaths < MaxDeaths
    /\ alive' = alive \ {c}
    /\ zombies' = zombies \cup {<<c, k>>}
    /\ deaths' = deaths + 1
    /\ stopped' = IF k = "sigterm" THEN stopped + 1 ELSE stopped
    /\ UNCHANGED <<servers, running, ncopies, fresh, restarts, backoff, pc, nextpid>>

\* time(NULL) moves on to a later second
Tick ==
    /\ fresh' = FALSE
    /\ UNCHANGED <<servers, running, ncopies, restarts, backoff, pc, alive,
                   zombies, nextpid, deaths, stopped>>

Parent == Start \/ \E z \in zombies : Reap(z)

Next ==
    \/ Parent
    \/ \E c \in alive, k \in Kinds : Die(c, k)
    \/ Tick

\* The parent is never descheduled for good: fork() and wait() return.
\* Terminations and the clock are not fair.
Spec == Init /\ [][Next]_vars /\ WF_vars(Parent)

-----------------------------------------------------------------------------
TypeOK ==
    /\ servers \in [Slots -> 0..MaxPid]
    /\ running \in 0..NCopies /\ ncopies \in 0..NCopies
    /\ fresh \in BOOLEAN /\ restarts \in 0..2 * NCopies + 1
    /\ backoff \in {60 * 2^e : e \in 0..6}
    /\ pc \in {"loop", "exited"}
    /\ alive \subseteq 1..MaxPid /\ zombies \subseteq (1..MaxPid) \X Kinds
    /\ nextpid \in 1..MaxPid + 1 /\ deaths \in 0..MaxDeaths /\ stopped \in 0..MaxDeaths

(***************************************************************************)
(* The pid table is exact: while the parent runs, the used slots below   *)
(* ncopies hold each server not yet reaped exactly once, and running     *)
(* counts them.  So the inner loop always finds a free slot ("no pid     *)
(* slot?!" never happens) and every pid wait() returns is in the table.   *)
(***************************************************************************)
SlotsTrackChildren ==
    pc = "loop" =>
        LET used == {i \in Slots : i < ncopies /\ servers[i] # 0}
            live == alive \cup {z[1] : z \in zombies}
        IN  /\ {servers[i] : i \in used} = live
            /\ Cardinality(used) = Cardinality(live)
            /\ running = Cardinality(live)

(***************************************************************************)
(* Once servers stop dying, the supervisor ends with as many servers     *)
(* running as were asked for, less those an administrator stopped with   *)
(* SIGTERM (or it exits when it stopped them all).                       *)
(***************************************************************************)
Restored ==
    <>[](pc = "exited" \/ Cardinality(alive) = NCopies - stopped)

=============================================================================
