----------------------------- MODULE MCSetattr -----------------------------
(***************************************************************************)
(* Setattr for TLC: a regular file f and a directory d of the export, and *)
(* a symbolic link l in it whose target t is root's file.  The export     *)
(* squashes root.  Modes are 0644 and 0600 (0100644 carries S_IFREG).     *)
(***************************************************************************)
EXTENDS Setattr, TLC

CONSTANTS f, d, l, t

A(type, size, mode, uid) == [type |-> type, size |-> size, mode |-> mode,
                             atime |-> 0, mtime |-> 0, uid |-> uid]

MCInitAttrs == (f :> A("reg", 1, 420, 1)) @@ (d :> A("dir", 0, 493, 1))
               @@ (l :> A("lnk", 0, 511, 1)) @@ (t :> A("reg", 1, 420, 0))

\* the objects of MCInitAttrs a run uses
InitOf(objs) == [o \in objs |-> MCInitAttrs[o]]

MCTarget == l :> t

PassInit == InitOf({f, l, t})

FileInit == InitOf({f})

LinkInit == InitOf({l, t})

RootSquash == [path |-> <<>>, ro |-> FALSE, noaccess |-> FALSE, squash |-> "root", rel |-> FALSE]

NoPeers == [p \in {} |-> NoClient]
NoExports == [c \in {} |-> {}]
=============================================================================
