------------------------------- MODULE Ugidd --------------------------------
(***************************************************************************)
(* rpc.ugidd (src/ugidd/ugidd.c), the uid/name lookup daemon nfsd's       *)
(* map_daemon mode asks.  main() creates a UDP and a TCP transport, forks *)
(* unless -d was given, closes descriptors 0, 1 and 2 in the child and    *)
(* enters svc_run().  ugidprog_1 serves one call at a time: AUTHENTICATE *)
(* sends a datagram from a reserved port to the port the caller names    *)
(* (proving that ugidd runs as root), NAME_UID and GROUP_GID map a name  *)
(* to an id, UID_NAME and GID_GROUP an id to a name.                     *)
(*                                                                         *)
(* The descriptor table is modelled: svc_run watches the descriptors of  *)
(* its transports, accept() and socket() return the lowest free one.     *)
(* xprt is the RPC library's view, the descriptors it has registered and *)
(* the transport it thinks each one is.  Integers have IntBits bits (32  *)
(* in the build); reserved ports are those below Reserved (IPPORT_RESERVED *)
(* = 1024 in the build), scaled down with it.                             *)
(***************************************************************************)
EXTENDS Integers, FiniteSets, TLC

CONSTANTS
    MaxFd,        \* size of the descriptor table
    Foreground,   \* -d given: descriptors 0, 1 and 2 stay open
    Root,         \* ugidd runs as root: bind() to a reserved port is allowed
    SvcPoll,      \* svc_run polls (a closed descriptor is unregistered) rather than selects
    Reserved,     \* IPPORT_RESERVED
    IntBits,      \* width of int, uid_t and gid_t
    Passwd,       \* [names -> uids]: the passwd database
    Group,        \* [group names -> gids]: the group database
    NOBODY,       \* the id NAME_UID and GROUP_GID answer for an unknown name
    IdArgs,       \* ids clients send to UID_NAME and GID_GROUP
    NameArgs,     \* names clients send to NAME_UID and GROUP_GID
    PortArgs      \* ports clients send to AUTHENTICATE

Fds == 0..MaxFd - 1
Kinds == {"stdio", "udp", "listen", "conn"}
\* the ports the bind loop tries, from Reserved - 1 down
SearchPorts == (Reserved \div 2 + 1)..(Reserved - 1)
\* the source port of a datagram sent from an unbound socket: the kernel
\* picks one at or above Reserved
Ephemeral == Reserved

\* errno values (Linux numbering)
ENOENT == 2
EBADF == 9
EACCES == 13
EINVAL == 22
EADDRINUSE == 98
ENETUNREACH == 101

VARIABLES
    fd,       \* [Fds -> Kinds \cup {"none"}]: what each descriptor refers to
    xprt,     \* the descriptors svc_run watches, and the transport of each
    errno,    \* the process's errno
    busy,     \* the searched ports other processes have bound
    reply,    \* the last answer ugidprog_1 produced
    running   \* svc_run has not returned

vars == <<fd, xprt, errno, busy, reply, running>>

Free == {f \in Fds : fd[f] = "none"}
Lowest(S) == CHOOSE f \in S : \A g \in S : f <= g

(***************************************************************************)
(* main(): the two transports are created while 0, 1 and 2 are open, so   *)
(* they get 3 and 4; the daemon then closes 0, 1 and 2.                   *)
(***************************************************************************)
Init ==
    /\ fd = [f \in Fds |-> CASE f \in 0..2 -> IF Foreground THEN "stdio" ELSE "none"
                             [] f = 3      -> "udp"
                             [] f = 4      -> "listen"
                             [] OTHER      -> "none"]
    /\ xprt = (3 :> "udp") @@ (4 :> "listen")
    /\ errno = 0
    /\ busy = {}
    /\ reply = [proc |-> "none", arg |-> 0, res |-> 0, src |-> 0]
    /\ running = TRUE

\* (int) of an unsigned value of IntBits bits
ToInt(v) == IF v >= 2^(IntBits - 1) THEN v - 2^IntBits ELSE v

\* (*argp < 0) || (*argp > (int) ((gid_t) -1))
OutOfRange(x) == x < 0 \/ x > ToInt(2^IntBits - 1)

(***************************************************************************)
(* The bind loop of authenticate_1_svc: the port bound, or Ephemeral when *)
(* it gives up, and the errno of the last bind; a failure other than     *)
(* EADDRINUSE leaves the loop for "bad" (err # 0, port 0).               *)
(***************************************************************************)
RECURSIVE BindFrom(_, _)
BindFrom(lport, inuse) ==
    CASE ~Root                             -> [port |-> 0, err |-> EACCES, bad |-> TRUE]
      [] lport \notin inuse                -> [port |-> lport, err |-> 0, bad |-> FALSE]
      [] lport - 1 <= Reserved \div 2      -> [port |-> Ephemeral, err |-> EADDRINUSE, bad |-> FALSE]
      [] OTHER                             -> BindFrom(lport - 1, inuse)

\* res = errno == 0 ? -1 : errno
BadRes(e) == IF e = 0 THEN -1 ELSE e

(***************************************************************************)
(* authenticate_1_svc(port).  s starts at 0: an out-of-range port goes to *)
(* "bad" and closes descriptor 0.  setsockopt(SO_LINGER, 0, 0) fails      *)
(* with EINVAL, its result unchecked.  The datagram goes from the bound   *)
(* port, or from an ephemeral one when the loop gave up.                  *)
(***************************************************************************)
authenticate_1_svc(port) ==
    CASE port < 0 \/ port > 65535 ->
           LET e == IF fd[0] = "none" THEN EBADF ELSE errno IN
           /\ fd' = [fd EXCEPT ![0] = "none"]
           /\ errno' = e
           /\ reply' = [proc |-> "AUTHENTICATE", arg |-> port, res |-> BadRes(e), src |-> 0]
      [] Free = {} ->
           \* socket() fails with EMFILE, then close(-1)
           /\ UNCHANGED fd
           /\ errno' = EBADF
           /\ reply' = [proc |-> "AUTHENTICATE", arg |-> port, res |-> EBADF, src |-> 0]
      [] OTHER ->
           LET b == BindFrom(Reserved - 1, busy)
               \* errno after the loop: setsockopt's, or the last failed bind's
               e == CASE b.bad                  -> b.err
                      [] b.port = Reserved - 1  -> EINVAL
                      [] OTHER                  -> EADDRINUSE
           IN  /\ UNCHANGED fd
               /\ IF b.bad
                    THEN /\ errno' = e
                         /\ reply' = [proc |-> "AUTHENTICATE", arg |-> port, res |-> e, src |-> 0]
                    ELSE \E sent \in BOOLEAN :
                            /\ errno' = IF sent THEN e ELSE ENETUNREACH
                            /\ reply' = [proc |-> "AUTHENTICATE", arg |-> port,
                                         res |-> IF sent THEN 0 ELSE ENETUNREACH,
                                         src |-> IF sent THEN b.port ELSE 0]

\* name_uid_1_svc and group_gid_1_svc: getpwnam/getgrnam, NOBODY if unknown
name_uid_1_svc(db, n) == IF n \in DOMAIN db THEN db[n] ELSE NOBODY

\* uid_name_1_svc and gid_group_1_svc: the range test, then getpwuid/getgrgid
id_name_1_svc(db, x) ==
    IF OutOfRange(x) \/ \A n \in DOMAIN db : db[n] # x
      THEN ""
      ELSE CHOOSE n \in DOMAIN db : db[n] = x

Lookup(proc, a) ==
    CASE proc = "NAME_UID"  -> name_uid_1_svc(Passwd, a)
      [] proc = "GROUP_GID" -> name_uid_1_svc(Group, a)
      [] proc = "UID_NAME"  -> id_name_1_svc(Passwd, a)
      [] proc = "GID_GROUP" -> id_name_1_svc(Group, a)

(***************************************************************************)
(* ugidprog_1, called by svc_run for a request on transport c.  A caller  *)
(* client_checkaccess refuses, a NULL call, an unknown procedure and an  *)
(* undecodable argument change nothing in ugidd and are left out.  The   *)
(* reply goes out on c;                                                   *)
(* when the handler closed c, the write fails and the library destroys    *)
(* the transport.  The lookups may leave errno set (ENOENT).              *)
(***************************************************************************)
ugidprog_1(c, proc, a) ==
    /\ running
    /\ c \in DOMAIN xprt /\ xprt[c] \in {"udp", "conn"} /\ fd[c] = xprt[c]
    /\ CASE proc = "AUTHENTICATE" -> authenticate_1_svc(a)
         [] OTHER ->
              /\ UNCHANGED fd
              /\ errno' \in {errno, ENOENT}
              /\ reply' = [proc |-> proc, arg |-> a, res |-> Lookup(proc, a), src |-> 0]
    /\ xprt' = IF fd'[c] = xprt[c] THEN xprt
               ELSE [f \in DOMAIN xprt \ {c} |-> xprt[f]]
    /\ UNCHANGED <<busy, running>>

Call ==
    \/ \E c \in DOMAIN xprt, a \in PortArgs : ugidprog_1(c, "AUTHENTICATE", a)
    \/ \E c \in DOMAIN xprt, p \in {"NAME_UID", "GROUP_GID"}, a \in NameArgs :
          ugidprog_1(c, p, a)
    \/ \E c \in DOMAIN xprt, p \in {"UID_NAME", "GID_GROUP"}, a \in IdArgs :
          ugidprog_1(c, p, a)

(***************************************************************************)
(* The RPC library: a TCP client connects (accept() on the listening      *)
(* transport registers the lowest free descriptor), a TCP client hangs up *)
(* (the library closes and unregisters its descriptor), and svc_run       *)
(* meets a registered descriptor that is closed or reused: poll() reports *)
(* POLLNVAL and the transport is unregistered, select() fails with EBADF  *)
(* and svc_run returns, after which main() exits.                        *)
(***************************************************************************)
Accept ==
    /\ running /\ Free # {}
    /\ LET f == Lowest(Free) IN
         /\ fd' = [fd EXCEPT ![f] = "conn"]
         /\ xprt' = (f :> "conn") @@ xprt
    /\ UNCHANGED <<errno, busy, reply, running>>

Hangup(f) ==
    /\ running
    /\ f \in DOMAIN xprt /\ xprt[f] = "conn" /\ fd[f] = "conn"
    /\ fd' = [fd EXCEPT ![f] = "none"]
    /\ xprt' = [g \in DOMAIN xprt \ {f} |-> xprt[g]]
    /\ UNCHANGED <<errno, busy, reply, running>>

svc_run(f) ==
    /\ running
    /\ f \in DOMAIN xprt /\ fd[f] # xprt[f]
    /\ IF SvcPoll
         THEN /\ xprt' = [g \in DOMAIN xprt \ {f} |-> xprt[g]]
              /\ UNCHANGED running
         ELSE /\ running' = FALSE
              /\ UNCHANGED xprt
    /\ UNCHANGED <<fd, errno, busy, reply>>

\* other processes bind and release reserved ports
Ports(b) ==
    /\ busy' = b
    /\ UNCHANGED <<fd, xprt, errno, reply, running>>

Next ==
    \/ Call
    \/ Accept
    \/ \E f \in Fds : Hangup(f) \/ svc_run(f)
    \/ \E b \in SUBSET SearchPorts : Ports(b)

Spec == Init /\ [][Next]_vars

-----------------------------------------------------------------------------
TypeOK ==
    /\ fd \in [Fds -> Kinds \cup {"none"}]
    /\ DOMAIN xprt \subseteq Fds /\ \A f \in DOMAIN xprt : xprt[f] \in Kinds
    /\ busy \subseteq SearchPorts
    /\ running \in BOOLEAN

(***************************************************************************)
(* Every descriptor svc_run watches is open and is the transport it      *)
(* registered there: no procedure closes a descriptor it did not open.   *)
(* authenticate_1_svc initialises s to 0 and its range test jumps to the  *)
(* close(s) at "bad".                                                     *)
(***************************************************************************)
SvcFdsOpen == \A f \in DOMAIN xprt : fd[f] = xprt[f]

(***************************************************************************)
(* UID_NAME and GID_GROUP answer the name of every id the databases hold, *)
(* as the identity lookup collaborator of the spec (section 6) promises.  *)
(***************************************************************************)
IdsResolve ==
    reply.proc \in {"UID_NAME", "GID_GROUP"} =>
        LET db == IF reply.proc = "UID_NAME" THEN Passwd ELSE Group IN
        \A n \in DOMAIN db : db[n] = reply.arg => reply.res # ""

(***************************************************************************)
(* An AUTHENTICATE answered 0 sent its datagram from a reserved port, the *)
(* proof the caller checks.                                               *)
(***************************************************************************)
AuthFromReserved ==
    reply.proc = "AUTHENTICATE" /\ reply.res = 0 => reply.src < Reserved

=============================================================================
