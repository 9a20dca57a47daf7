----------------------------- MODULE MCReaddir -----------------------------
(***************************************************************************)
(* Readdir for TLC: a directory with ".", ".." and two entries whose      *)
(* names have different lengths.  The cookie width is scaled down from   *)
(* 32 to CookieBits; what matters is whether telldir() offsets fit in it. *)
(***************************************************************************)
EXTENDS Readdir, TLC

CONSTANTS c1, c2, c3

MCDir == <<[name |-> ".", ino |-> 2], [name |-> "..", ino |-> 1],
           [name |-> "a", ino |-> 3], [name |-> "bb", ino |-> 4],
           [name |-> "ccc", ino |-> 5]>>

MCNameLen == (".." :> 2) @@ ("bb" :> 2) @@ ("ccc" :> 3) @@ [n \in {".", "a"} |-> 1]

\* offsets that fit in the cookie
SmallTell == [i \in 0..5 |-> 3 * i]

\* offsets past 2^CookieBits after the first entry, as the 64-bit hash
\* offsets of ext4 directories are
WideTell == [i \in 0..5 |-> 17 * i]

\* a client with a budget below one entry, one with a large budget and one
\* that varies it from call to call
MCCounts == (c1 :> {1}) @@ (c2 :> {100, 160}) @@ (c3 :> {1, 100, 160})

TwoCounts == (c1 :> {1, 100, 160}) @@ (c2 :> {100, 160})
=============================================================================
