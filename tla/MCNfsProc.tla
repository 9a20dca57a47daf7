----------------------------- MODULE MCNfsProc -----------------------------
(***************************************************************************)
(* Model of NfsProc for TLC: one client reaching the server from peer p1,  *)
(* an unknown peer p2, and a tree with one export of each kind side by    *)
(* side: /e and /f read-write with root squash, /r read-only, /h noaccess.*)
(* SYMLINK may name a target in /e, in /r or in /h (WideLinkTargets).     *)
(***************************************************************************)
EXTENDS NfsProc, TLC

CONSTANTS p1, p2, c1

N(ino, type) == [ino |-> ino, type |-> type, rdev |-> 0, target |-> NoPath]

\* /  /e /e/a  /r /r/a (char device 1)  /h /h/a
SmallFs ==
    (<<>> :> N(1, "dir")) @@
    (<<"e">> :> N(2, "dir")) @@ (<<"e", "a">> :> N(3, "reg")) @@
    (<<"r">> :> N(4, "dir")) @@
    (<<"r", "a">> :> [ino |-> 5, type |-> "chr", rdev |-> 1, target |-> NoPath]) @@
    (<<"h">> :> N(6, "dir")) @@ (<<"h", "a">> :> N(7, "reg"))

\* /  /e /e/a  /f  /r /r/a (char device 1) /r/b  /h /h/a
MCInitFs ==
    (<<>> :> N(1, "dir")) @@
    (<<"e">> :> N(2, "dir")) @@ (<<"e", "a">> :> N(3, "reg")) @@
    (<<"f">> :> N(4, "dir")) @@
    (<<"r">> :> N(5, "dir")) @@
    (<<"r", "a">> :> [ino |-> 6, type |-> "chr", rdev |-> 1, target |-> NoPath]) @@
    (<<"r", "b">> :> N(7, "reg")) @@
    (<<"h">> :> N(8, "dir")) @@ (<<"h", "a">> :> N(9, "reg"))

Opt(p, ro, noaccess, squash) ==
    [path |-> p, ro |-> ro, noaccess |-> noaccess, squash |-> squash, rel |-> FALSE]

MCClientOf == (p1 :> c1) @@ (p2 :> NoClient)
OneClientOf == p1 :> c1

\* sibling exports; /e has link_relative
SiblingExports ==
    c1 :> {[Opt(<<"e">>, FALSE, FALSE, "root") EXCEPT !.rel = TRUE],
           Opt(<<"f">>, FALSE, FALSE, "root"), Opt(<<"r">>, TRUE, FALSE, "root"), Opt(<<"h">>, FALSE, TRUE, "root")}

MCLinkTargets == {<<"e", "a">>}

\* a target short enough for the rewrite below /e and one too long for it
RelLinkTargets == {<<"e">>, <<"e", "a">>}

WideLinkTargets == {<<"e">>, <<"e", "a">>, <<"r", "b">>, <<"h", "a">>}

\* /  /e /e/a  /e/h /e/h/a: an export with a noaccess export inside it
NestedFs ==
    (<<>> :> N(1, "dir")) @@
    (<<"e">> :> N(2, "dir")) @@ (<<"e", "a">> :> N(3, "reg")) @@
    (<<"e", "h">> :> N(4, "dir")) @@ (<<"e", "h", "a">> :> N(5, "reg"))

NestedExports ==
    c1 :> {Opt(<<"e">>, FALSE, FALSE, "root"), Opt(<<"e", "h">>, FALSE, TRUE, "root")}

\* /  /e /e/a  /f: two read-write exports, root squashed on /e only
CrossFs ==
    (<<>> :> N(1, "dir")) @@
    (<<"e">> :> N(2, "dir")) @@ (<<"e", "a">> :> N(3, "reg")) @@
    (<<"f">> :> N(4, "dir"))

CrossExports ==
    c1 :> {Opt(<<"e">>, FALSE, FALSE, "root"), Opt(<<"f">>, FALSE, FALSE, "none")}
=============================================================================
