------------------------------ MODULE NfsAuth ------------------------------
(***************************************************************************)
(* The export table and the three lookups every request goes through:     *)
(* auth_clnt (peer -> client), auth_path / auth_match_mount (client, path  *)
(* -> mount) and luid (remote uid -> local fs uid).  Their code, auth.c   *)
(* and ugid_map.c, is not part of the source tree: these operators follow *)
(* the spec, sections 4.1 to 4.3.                                          *)
(*                                                                         *)
(* A path is a sequence of names, <<>> being "/".  A prefix of a sequence  *)
(* is a prefix at a component boundary, which is what the spec requires   *)
(* of mount matching.                                                      *)
(***************************************************************************)
EXTENDS Naturals, Sequences, SequencesExt, FiniteSets

CONSTANTS
    Names,      \* path components
    MaxDepth,   \* longest path the model builds (stands for NFS_MAXPATHLEN)
    Peers,      \* network addresses requests come from
    Clients,    \* nfs_client records of the export table
    ClientOf,   \* [Peers -> Clients \cup {NoClient}]: the result of auth_clnt
    Exports,    \* [Clients -> SUBSET MountRec]: each client's nfs_mount list
    ReadOnly,   \* the global read_only flag (set when ncopies > 1)
    Nobody,     \* nobody_uid of the mounts
    RootUid,    \* root_uid, the credentials a call starts with
    NoClient, NoMount, NoPath

Path == BoundedSeq(Names, MaxDepth)

Squash == {"none", "root", "all"}

\* nfs_mount: path and the options of nfs_options the procedures consult
\* (rel is link_relative)
MountRec == [path: Path, ro: BOOLEAN, noaccess: BOOLEAN, squash: Squash, rel: BOOLEAN]

ASSUME /\ ClientOf \in [Peers -> Clients \cup {NoClient}]
       /\ DOMAIN Exports = Clients /\ \A c \in Clients : Exports[c] \subseteq MountRec
       /\ ReadOnly \in BOOLEAN

\* auth_clnt: the client record a peer address selects (spec 4.1); the
\* precedence between exact, netmask, netgroup and default clients is
\* already resolved in the constant ClientOf.
auth_clnt(peer) == ClientOf[peer]

\* auth_match_mount: the mounts are kept sorted by decreasing path length
\* and the first whose path is a prefix of the request path wins (4.2).
auth_path(c, p) ==
    LET ms == {m \in Exports[c] : IsPrefix(m.path, p)}
    IN  IF c = NoClient \/ p = NoPath \/ ms = {} THEN NoMount
        ELSE CHOOSE m \in ms : \A o \in ms : Len(o.path) <= Len(m.path)

\* luid: the local uid a remote uid runs as on a mount (4.3); the uid map
\* is the identity, squashing maps to nobody_uid.
luid(uid, m) ==
    IF m.squash = "all" \/ (m.squash = "root" /\ uid = 0) THEN Nobody ELSE uid

=============================================================================
