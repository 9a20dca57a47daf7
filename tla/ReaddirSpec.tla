---------------------------- MODULE ReaddirSpec ----------------------------
(***************************************************************************)
(* What directory enumeration promises a client (spec 4.5 and the        *)
(* resumability property of section 8): the entries it receives, call    *)
(* after call, are the directory listing in order, each exactly once and *)
(* with the inode identity a single unbounded enumeration gives; the end *)
(* of the stream is reported only once all of them have been received.   *)
(* A client may start a new enumeration once one has ended; clients      *)
(* enumerate independently of each other.                                *)
(***************************************************************************)
EXTENDS Naturals, Sequences

CONSTANTS
    Listing,   \* [Clients -> the entries of the directory it may see]
    Clients

VARIABLES
    seen,   \* [Clients -> the entries received so far in this enumeration]
    done    \* [Clients -> the end of the stream has been reported]

Init == seen = [c \in Clients |-> <<>>] /\ done = [c \in Clients |-> FALSE]

\* one reply to client c: the next k entries of the listing
Deliver(c) ==
    /\ ~done[c]
    /\ \E k \in 0..(Len(Listing[c]) - Len(seen[c])) :
          seen' = [seen EXCEPT ![c] = @ \o SubSeq(Listing[c], Len(@) + 1, Len(@) + k)]
    /\ \E d \in IF seen'[c] = Listing[c] THEN BOOLEAN ELSE {FALSE} :
          done' = [done EXCEPT ![c] = d]

Restart(c) ==
    /\ done[c]
    /\ seen' = [seen EXCEPT ![c] = <<>>]
    /\ done' = [done EXCEPT ![c] = FALSE]

Spec == Init /\ [][\E c \in Clients : Deliver(c) \/ Restart(c)]_<<seen, done>>

=============================================================================
