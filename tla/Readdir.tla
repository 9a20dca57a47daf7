------------------------------ MODULE Readdir ------------------------------
(***************************************************************************)
(* The cookie protocol of nfsd_nfsproc_readdir_2 (src/nfsd/nfsd.c) and a  *)
(* client that enumerates one directory with it: each call seeks to the  *)
(* client's cookie, reads entries until the reply budget is spent, gives *)
(* each entry the cookie telldir() returns after it, and reports the end *)
(* of the stream when readdir() returns NULL.  The client resumes from   *)
(* the cookie of the last entry it received.  Several clients enumerate  *)
(* at once, their calls interleaved; the server keeps no state for them *)
(* between calls (oldres is freed at the start of the next call).        *)
(*                                                                         *)
(* The directory stream is a constant: Dir lists the entries in the      *)
(* order readdir() returns them ("." and ".." first, which the code      *)
(* relies on), Tell[i] is what telldir() returns after the i-th, and      *)
(* seekdir(x) resumes at the first entry whose starting offset is at     *)
(* least x, as offsets in hash-ordered directories behave.                *)
(***************************************************************************)
EXTENDS Naturals, Sequences, SequencesExt

CONSTANTS
    Dir,          \* <<[name, ino], ...>>, the stream readdir() returns
    Tell,         \* [0..Len(Dir) -> Nat], telldir() after each entry
    CookieBits,   \* width of the nfscookie the offset is stored in
    Clients,      \* clients enumerating the directory
    Counts,       \* [Clients -> the readdirargs.count values it sends]
    NameLen,      \* [names -> Nat], NLENGTH(dp)
    HideDot,      \* clients for which the directory is the root of an
                  \* export with no parent export (hidedot)
    DotsOnly      \* clients whose export of it is noaccess (dotsonly)

ASSUME Tell[0] = 0 /\ \A i \in 1..Len(Dir) : Tell[i - 1] < Tell[i]

VARIABLES
    cookie,   \* [Clients -> the cookie the client sends next]
    got,      \* [Clients -> the entries it has received, <<[name, ino], ...>>]
    eof       \* [Clients -> the last reply it got said eof]

vars == <<cookie, got, eof>>

\* sizeof(entry) on an LP64 build, and DP_SLOP
EntrySize == 32
DP_SLOP == 16

dpsize(e) == EntrySize + NameLen[e.name] + DP_SLOP

\* A variant that takes telldir() before reading the entry
ReaddirCookie_before(i) == Tell[i - 1] % (2 ^ CookieBits)

\* dloc = htonl(telldir(dirp)) into a __u32 cookie: the offset modulo 2^32
ReaddirCookie(i) == Tell[i] % (2 ^ CookieBits)

\* seekdir(dirp, ntohl(dloc)) when dloc # 0: the index readdir() returns next
StartOf(dloc) ==
    IF dloc = 0 THEN 1
    ELSE Min({i \in 1..(Len(Dir) + 1) : i = Len(Dir) + 1 \/ Tell[i - 1] >= dloc})

\* The inode reported for an entry: ".." of a hidden export root takes the
\* inode "." had, kept in dotinum, a variable local to the call.
EntryIno_unguarded(e, dotinum, hidedot) == IF e.name = ".." THEN dotinum ELSE e.ino

EntryIno(e, dotinum, hidedot) == IF e.name = ".." /\ hidedot THEN dotinum ELSE e.ino

NextDotinum(e, dotinum, hidedot) == IF e.name = "." /\ hidedot THEN e.ino ELSE dotinum

(***************************************************************************)
(* The loop of nfsd_nfsproc_readdir_2 from the entry at index i, with     *)
(* res_size, first and dotinum as the code keeps them; it returns the     *)
(* entries of the reply and its eof flag.                                 *)
(***************************************************************************)
RECURSIVE Page_without_first(_, _, _, _, _, _, _, _)
Page_without_first(dotsonly, hidedot, count, i, res_size, first, dotinum, acc) ==
    IF i > Len(Dir) THEN [entries |-> acc, eof |-> TRUE]
    ELSE LET e == Dir[i]
             size == res_size + dpsize(e)
         IN  CASE size >= count -> [entries |-> acc, eof |-> FALSE]
               [] e.name \notin {".", ".."} /\ dotsonly -> [entries |-> acc, eof |-> TRUE]
               [] OTHER -> Page_without_first(dotsonly, hidedot, count, i + 1, size, FALSE,
                              NextDotinum(e, dotinum, hidedot),
                              Append(acc, [name |-> e.name, ino |-> EntryIno(e, dotinum, hidedot),
                                           cookie |-> ReaddirCookie(i)]))

RECURSIVE Page(_, _, _, _, _, _, _, _)
Page(dotsonly, hidedot, count, i, res_size, first, dotinum, acc) ==
    IF i > Len(Dir) THEN [entries |-> acc, eof |-> TRUE]
    ELSE LET e == Dir[i]
             size == res_size + dpsize(e)
         IN  CASE size >= count /\ ~first -> [entries |-> acc, eof |-> FALSE]
               [] e.name \notin {".", ".."} /\ dotsonly -> [entries |-> acc, eof |-> TRUE]
               [] OTHER -> Page(dotsonly, hidedot, count, i + 1, size, FALSE,
                              NextDotinum(e, dotinum, hidedot),
                              Append(acc, [name |-> e.name, ino |-> EntryIno(e, dotinum, hidedot),
                                           cookie |-> ReaddirCookie(i)]))

\* one call: seek to the cookie, read a page; dotinum starts at 0
NFSPROC_READDIR(c, dloc, count) ==
    Page(c \in DotsOnly, c \in HideDot, count, StartOf(dloc), 0, TRUE, 0, <<>>)

(***************************************************************************)
(* The client                                                              *)
(***************************************************************************)
Init ==
    /\ cookie = [c \in Clients |-> 0]
    /\ got = [c \in Clients |-> <<>>]
    /\ eof = [c \in Clients |-> FALSE]

\* a call with some budget, and the client taking in the reply
Call(c) ==
    /\ ~eof[c]
    /\ \E count \in Counts[c] :
          LET r == NFSPROC_READDIR(c, cookie[c], count)
          IN  /\ got' = [got EXCEPT ![c] = @ \o [j \in 1..Len(r.entries) |->
                                  [name |-> r.entries[j].name, ino |-> r.entries[j].ino]]]
              /\ cookie' = [cookie EXCEPT ![c] = IF r.entries = <<>> THEN @
                                                ELSE Last(r.entries).cookie]
              /\ eof' = [eof EXCEPT ![c] = r.eof]

\* a new enumeration of the directory
Restart(c) ==
    /\ eof[c]
    /\ cookie' = [cookie EXCEPT ![c] = 0]
    /\ got' = [got EXCEPT ![c] = <<>>]
    /\ eof' = [eof EXCEPT ![c] = FALSE]

Next == \E c \in Clients : Call(c) \/ Restart(c)

\* A client keeps calling until it sees eof; the server answers every
\* call (one call at a time, always a reply: dispatch.c).
Spec == Init /\ [][Next]_vars /\ \A c \in Clients : WF_vars(Call(c))

(***************************************************************************)
(* Properties                                                              *)
(***************************************************************************)
Inos == {Dir[i].ino : i \in 1..Len(Dir)}

TypeOK ==
    /\ cookie \in [Clients -> 0..(2 ^ CookieBits - 1)]
    /\ \A c \in Clients : got[c] \in Seq([name: DOMAIN NameLen, ino: Inos])
    /\ eof \in [Clients -> BOOLEAN]

\* The listing a single unbounded enumeration gives (spec 4.5): only the
\* dots when dotsonly, and ".." with the inode of "." at a hidden root.
Listing ==
    [c \in Clients |->
        LET shown == IF c \in DotsOnly THEN SubSeq(Dir, 1, 2) ELSE Dir
        IN  [i \in 1..Len(shown) |->
               [name |-> shown[i].name,
                ino  |-> IF shown[i].name = ".." /\ c \in HideDot THEN Dir[1].ino
                                                               ELSE shown[i].ino]]]

\* Resumability (spec section 8): the entries a client collects call after
\* call are the listing, in order, with no duplicate and no omission, and
\* eof is reported only once all have been received; for every client,
\* whatever the calls of the others in between.
Enumeration == INSTANCE ReaddirSpec WITH seen <- got, done <- eof

Resumable == Enumeration!Spec

\* Every enumeration ends: each call makes progress, because the first
\* entry of a page is taken whatever the budget.
EventuallyEof == \A c \in Clients : ~eof[c] ~> eof[c]

=============================================================================
