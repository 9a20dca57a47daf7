------------------------------ MODULE NfsProc ------------------------------
(***************************************************************************)
(* The NFS version 2 procedure handlers of src/nfsd/nfsd.c together with  *)
(* the authorization they apply: auth_fh, build_path and the procedures   *)
(* that call them.  The server runs one call to completion before taking  *)
(* the next (dispatch.c), so one call is one step of this module.         *)
(*                                                                         *)
(* The local file system is a function from the paths that exist to their *)
(* nodes.  A file handle names an inode: the handle cache (fh.c, not in   *)
(* the source tree) maps it back to a path that currently holds that      *)
(* inode, or reports it stale.  Clients may present any handle.           *)
(*                                                                         *)
(* The static buffer pathbuf is state: build_path writes it only when     *)
(* auth_fh succeeds, and nfsd_nfsproc_create_2 reads it even when          *)
(* build_path failed with NFSERR_ROFS.                                     *)
(***************************************************************************)
EXTENDS NfsAuth, Functions

CONSTANTS
    Inodes,      \* inode numbers of the exported file systems
    InitFs,      \* the tree the server starts on
    Uids,        \* remote uids clients claim
    ReqNames,    \* names clients send in diropargs
    Devs,        \* sattr.size values a CREATE may carry (device numbers)
    FifoDev,     \* 0xFFFF, the char device number that means "FIFO"
    CreateModes, \* file types a CREATE may carry; "none" for no S_IFMT bits
    LinkTargets, \* the (absolute) targets clients give SYMLINK
    PublicFh,    \* the public file handle of WebNFS lookups
    PublicRoot,  \* public_root as an inode, or NoInode
    NoInode

Types == {"dir", "reg", "lnk", "chr", "fifo"}
Node == [ino: Inodes, type: Types, rdev: Devs \cup {0}, target: LinkTargets \cup {NoPath}]

VARIABLES
    fs,        \* [paths that exist -> Node]
    pathbuf    \* static char pathbuf[NFS_MAXPATHLEN + NFS_MAXNAMLEN + 1]

vars == <<fs, pathbuf>>

(***************************************************************************)
(* The kernel calls the handlers make, over fs.  Each returns the errno   *)
(* (as the nfsstat nfs_errno maps it to) and the file system after it.     *)
(***************************************************************************)
Parent(p) == Front(p)
Exists(p) == p \in DOMAIN fs
IsDir(p) == Exists(p) /\ fs[p].type = "dir"
Below(p) == {q \in DOMAIN fs : IsPrefix(p, q)}
FreeInodes == Inodes \ {fs[q].ino : q \in DOMAIN fs}

Sys(err, f) == [err |-> err, fs |-> f]

\* ENOENT or ENOTDIR for a path whose parent is not a directory
ParentErr(p) == IF Exists(Parent(p)) THEN "NOTDIR" ELSE "NOENT"

\* mknod, mkdir, symlink and open(O_CREAT) of a new node
MakeNode(p, type, dev, t) ==
    CASE Exists(p)          -> Sys("EXIST", fs)
      [] ~IsDir(Parent(p))  -> Sys(ParentErr(p), fs)
      [] FreeInodes = {}    -> Sys("NOSPC", fs)
      [] OTHER -> Sys("OK", fs @@ (p :> [ino  |-> CHOOSE i \in FreeInodes : TRUE,
                                         type |-> type, rdev |-> dev, target |-> t]))

unlink(p) ==
    CASE ~Exists(p) -> Sys("NOENT", fs)
      [] IsDir(p)   -> Sys("ISDIR", fs)
      [] OTHER      -> Sys("OK", Restrict(fs, DOMAIN fs \ {p}))

rmdir(p) ==
    CASE ~Exists(p)       -> Sys("NOENT", fs)
      [] ~IsDir(p)        -> Sys("NOTDIR", fs)
      [] Below(p) # {p}   -> Sys("NOTEMPTY", fs)
      [] OTHER            -> Sys("OK", Restrict(fs, DOMAIN fs \ {p}))

link(s, d) ==
    CASE ~Exists(s)         -> Sys("NOENT", fs)
      [] IsDir(s)           -> Sys("PERM", fs)
      [] Exists(d)          -> Sys("EXIST", fs)
      [] ~IsDir(Parent(d))  -> Sys(ParentErr(d), fs)
      [] OTHER              -> Sys("OK", fs @@ (d :> fs[s]))

\* rename(2) moves the subtree at s to d, replacing d if d is a file or an
\* empty directory of the same kind.
Moved(s, d) == [q \in (DOMAIN fs \ (Below(s) \cup Below(d)))
                        \cup {d \o SubSeq(r, Len(s) + 1, Len(r)) : r \in Below(s)}
                  |-> IF IsPrefix(d, q) THEN fs[s \o SubSeq(q, Len(d) + 1, Len(q))]
                                        ELSE fs[q]]

rename(s, d) ==
    CASE ~Exists(s)                              -> Sys("NOENT", fs)
      [] Exists(d) /\ fs[d].ino = fs[s].ino       -> Sys("OK", fs)
      [] IsPrefix(s, d)                          -> Sys("INVAL", fs)
      [] ~IsDir(Parent(d))                       -> Sys(ParentErr(d), fs)
      [] Exists(d) /\ IsDir(s) /\ ~IsDir(d)      -> Sys("NOTDIR", fs)
      [] Exists(d) /\ ~IsDir(s) /\ IsDir(d)      -> Sys("ISDIR", fs)
      [] Below(d) \ {d} # {}                     -> Sys("NOTEMPTY", fs)
      [] OTHER                                   -> Sys("OK", Moved(s, d))

\* open(2) and the calls that follow a symbolic link: the path they act on
Deref(p) == IF Exists(p) /\ fs[p].type = "lnk" THEN fs[p].target ELSE p

(***************************************************************************)
(* Paths as the strings the kernel and the replies carry.  Every name is  *)
(* one character, so a path of k names is 2k bytes long; NFS_MAXPATHLEN   *)
(* is the length at which build_path's test strlen(dir) + strlen(name) +  *)
(* 1 >= NFS_MAXPATHLEN is Len(dir) >= MaxDepth, the test the model uses.  *)
(***************************************************************************)
NFS_MAXPATHLEN == 2 * MaxDepth + 2

Str(p) == IF p = <<>> THEN <<"/">> ELSE FlattenSeq([i \in 1..Len(p) |-> <<"/", p[i]>>])

\* One component of a lookup: "" and "." stay, ".." goes up but not above
\* "/", a name goes down.
ResolveStep(dir, comp) ==
    CASE comp \in {<<>>, <<".">>} -> dir
      [] comp = <<".", ".">>      -> IF dir = <<>> THEN dir ELSE Front(dir)
      [] OTHER                    -> Append(dir, comp[1])

\* The kernel's lookup of the string s from the directory dir, comp being
\* the component read so far.  Symbolic links on the way are not followed.
RECURSIVE ResolveFrom(_, _, _)
ResolveFrom(dir, comp, s) ==
    CASE s = <<>>       -> ResolveStep(dir, comp)
      [] Head(s) = "/"  -> ResolveFrom(ResolveStep(dir, comp), <<>>, Tail(s))
      [] OTHER          -> ResolveFrom(dir, Append(comp, Head(s)), Tail(s))

\* The path a string names from the directory base ("/" if it is absolute)
Resolve(base, s) == ResolveFrom(IF s # <<>> /\ s[1] = "/" THEN <<>> ELSE base, <<>>, s)

(***************************************************************************)
(* fhc_getattr: the fattr of the node lstat(2) finds at the handle's path  *)
(* (auth_fh found it there).  Kept: the type through _ftype_map, the size  *)
(* of a symbolic link, MIN(st_size, NFS_MAXPATHLEN) with st_size the       *)
(* length of its target, the rdev and the fileid.  The mode bits, the     *)
(* owners (ruid/rgid), the sizes of other files and the times are left     *)
(* out ("-"): no node of the model carries them.                           *)
(***************************************************************************)
ftype_map(type) ==
    [dir |-> "NFDIR", reg |-> "NFREG", lnk |-> "NFLNK", chr |-> "NFCHR", fifo |-> "NFFIFO"][type]

NoAttr == [type |-> "NFNON", size |-> "-", rdev |-> 0, fileid |-> NoInode]

fhc_getattr(node) ==
    [type   |-> ftype_map(node.type),
     size   |-> IF node.type = "lnk"
                THEN IF Len(Str(node.target)) < NFS_MAXPATHLEN
                     THEN Len(Str(node.target)) ELSE NFS_MAXPATHLEN
                ELSE "-",
     rdev   |-> node.rdev,
     fileid |-> node.ino]

\* The handles a request carries: one of each inode in use, and NoInode
\* standing for every handle whose inode is gone (they all fail alike);
\* the public handle is sent to LOOKUP only.  The directory handles of
\* RENAME and LINK targets are the directories' (any other fails ENOTDIR
\* in the kernel).
Handles == {fs[p].ino : p \in DOMAIN fs} \cup {NoInode}

DirHandles == {fs[p].ino : p \in {q \in DOMAIN fs : IsDir(q)}}

\* The model's bound on path length: a rename that would build a path
\* longer than MaxDepth is not taken.
WithinDepth(s, d) == \A r \in Below(s) : Len(d) + Len(r) - Len(s) <= MaxDepth

(***************************************************************************)
(* The handle cache (fh.c): fh_find and fh_compose, after spec section 6. *)
(***************************************************************************)
fh_find(h) ==
    IF \E q \in DOMAIN fs : fs[q].ino = h
    THEN CHOOSE q \in DOMAIN fs : fs[q].ino = h
    ELSE NoPath

\* fh_compose builds the handle of dir/name; it fails if that does not exist
fh_compose(p) == IF Exists(p) THEN "OK" ELSE "NOENT"

(***************************************************************************)
(* auth_fh: the authorization gate of a call on a handle.  It returns the *)
(* status, the path and mount, and the fs uid the process holds after it  *)
(* (auth_user sets it; on failure it is still root_uid, from dispatch).    *)
(***************************************************************************)
Auth(st, p, m, cred) == [st |-> st, path |-> p, mount |-> m, cred |-> cred]

\* The tests of auth_fh on the handle's path p, the client c and the mount m
auth_fh_checks(uid, flags, p, c, m) ==
    CASE p = NoPath          -> Auth("STALE", p, NoMount, RootUid)
      [] c = NoClient        -> Auth("ACCES", p, NoMount, RootUid)
      [] m = NoMount         -> Auth("ACCES", p, NoMount, RootUid)
      [] m.noaccess /\ ("NOACCESS" \in flags \/ m.path # p)
                             -> Auth("ACCES", p, m, RootUid)
      [] "WRITE" \in flags /\ (m.ro \/ ReadOnly)
                             -> Auth("ROFS", p, m, RootUid)
      [] OTHER               -> Auth("OK", p, m, luid(uid, m))

\* fh_find, auth_clnt and auth_path, then the tests
auth_fh(peer, uid, h, flags) ==
    auth_fh_checks(uid, flags, fh_find(h), auth_clnt(peer),
                   auth_path(auth_clnt(peer), fh_find(h)))

(***************************************************************************)
(* build_path: auth_fh on the directory, then dir + "/" + name into buf,  *)
(* then auth_path and auth_user on the built path.  The built path's       *)
(* mount is matched, but neither its ro nor its noaccess option is looked *)
(* at.  A failure of auth_fh leaves buf as the previous call left it.      *)
(***************************************************************************)
BP(a, st, p, m, cred) == [st |-> st, path |-> p, mount |-> m, cred |-> cred,
                          dir |-> a.path]

\* The tests of build_path after auth_fh gave a, on the built path p and
\* its mount m: a variant whose length test is one too lenient
build_path_checks_len_off_by_one(uid, buf, a, p, m) ==
    CASE a.st # "OK"            -> BP(a, a.st, buf, a.mount, a.cred)
      [] Len(a.path) > MaxDepth -> BP(a, "NAMETOOLONG", buf, a.mount, a.cred)
      [] m = NoMount            -> BP(a, "ACCES", p, NoMount, a.cred)
      [] OTHER                  -> BP(a, "OK", p, m, luid(uid, m))

build_path_checks(uid, buf, a, p, m) ==
    CASE a.st # "OK"             -> BP(a, a.st, buf, a.mount, a.cred)
      [] Len(a.path) >= MaxDepth -> BP(a, "NAMETOOLONG", buf, a.mount, a.cred)
      [] m = NoMount             -> BP(a, "ACCES", p, NoMount, a.cred)
      [] OTHER                   -> BP(a, "OK", p, m, luid(uid, m))

build_path_from(peer, uid, name, buf, a) ==
    build_path_checks(uid, buf, a, Append(a.path, name),
                      auth_path(auth_clnt(peer), Append(a.path, name)))

build_path(peer, uid, h, name, flags, buf) ==
    build_path_from(peer, uid, name, buf, auth_fh(peer, uid, h, flags))

(***************************************************************************)
(* The outcome of a call: the reply status, the file system and pathbuf   *)
(* after it, the paths whose node or contents it changed or opened for    *)
(* writing (wrote), the paths whose handle, attributes or entries it      *)
(* returned (shown), the fs uid its file system calls ran as, for CREATE  *)
(* the requested path and file type, for READLINK the link's path and the *)
(* string replied, for GETATTR the path and its attributes.  A handler is *)
(* the set of its possible outcomes: setattr() may fail at any of its     *)
(* system calls.                                                          *)
(***************************************************************************)
Out(proc, peer, uid, st, f, buf, W, D, cred) ==
    [proc |-> proc, peer |-> peer, uid |-> uid, st |-> st, fs |-> f, buf |-> buf,
     wrote |-> W, shown |-> D, cred |-> cred, target |-> NoPath, mode |-> "-",
     data |-> <<>>, attr |-> NoAttr]

\* an early return: nothing changed
Early(proc, peer, uid, st, buf, cred) == Out(proc, peer, uid, st, fs, buf, {}, {}, cred)

\* the last kernel call r decides the reply
Done(proc, peer, uid, r, buf, W, D, cred) ==
    Out(proc, peer, uid, r.err, r.fs, buf, IF r.err = "OK" THEN W ELSE {},
        IF r.err = "OK" THEN D ELSE {}, cred)

\* auth_fh's reply for the calls that only read
Shown(a) == IF a.st = "OK" THEN {a.path} ELSE {}

WR == {"WRITE", "NOACCESS"}

NFSPROC_GETATTR(peer, uid, h) ==
    LET a == auth_fh(peer, uid, h, {})
    IN  IF a.st # "OK" THEN {Out("GETATTR", peer, uid, a.st, fs, pathbuf, {}, Shown(a), a.cred)}
        ELSE {[Out("GETATTR", peer, uid, a.st, fs, pathbuf, {}, Shown(a), a.cred)
                  EXCEPT !.target = a.path, !.attr = fhc_getattr(fs[a.path])]}

NFSPROC_SETATTR(peer, uid, h) ==
    LET a == auth_fh(peer, uid, h, WR)
    IN  IF a.st # "OK" THEN {Early("SETATTR", peer, uid, a.st, pathbuf, a.cred)}
        ELSE {Out("SETATTR", peer, uid, st, fs, pathbuf, {a.path},
                  IF st = "OK" THEN {a.path} ELSE {}, a.cred) : st \in {"OK", "PERM"}}

NFSPROC_LOOKUP(peer, uid, h, name) ==
    LET a == auth_fh(peer, uid, IF h = PublicFh THEN PublicRoot ELSE h, {})
        child == Append(a.path, name)
        r == CASE h = PublicFh /\ PublicRoot = NoInode -> Auth("ACCES", NoPath, NoMount, RootUid)
               [] a.st # "OK"             -> a
               [] Len(a.path) >= MaxDepth -> [a EXCEPT !.st = "NAMETOOLONG"]
               [] ~Exists(child)          -> [a EXCEPT !.st = IF IsDir(a.path) THEN "NOENT"
                                                                            ELSE "NOTDIR"]
               [] OTHER                   -> auth_fh(peer, uid, fs[child].ino, {})
    IN  {Out("LOOKUP", peer, uid, r.st, fs, pathbuf, {}, Shown(r), r.cred)}

(***************************************************************************)
(* nfsd_nfsproc_readlink_2.  readlink(path, pathbuf, NFS_MAXPATHLEN) puts *)
(* at most NFS_MAXPATHLEN bytes of the target into pathbuf.  On a         *)
(* link_relative export an absolute target is rewritten in place into one *)
(* relative to the link's directory: the bytes move up by q - p, and      *)
(* "../" is written once per '/' of the link's path after the first (".", *)
(* if there is none), the last '/' replacing the target's leading one.    *)
(***************************************************************************)
readlink(t) ==
    SubSeq(Str(t), 1, IF Len(Str(t)) < NFS_MAXPATHLEN THEN Len(Str(t)) ELSE NFS_MAXPATHLEN)

\* slash_cnt: the '/' of the link's path after its first byte
SlashCnt(path) == Cardinality({i \in 2..Len(path) : path[i] = "/"})

\* q - p: the bytes the target moves up by
RelShift(s) == IF s = 0 THEN 1 ELSE 3 * s - 1

RelPrefix(s) == IF s = 0 THEN <<".">> ELSE FlattenSeq([i \in 1..s |-> <<".", ".", "/">>])

\* the copy loop moves the cc bytes up by k; the k bytes below are written
\* next ("?")
Shift(buf, k) == [i \in 1..Len(buf) + k |-> IF i <= k THEN "?" ELSE buf[i - k]]

Overlay(buf, pre) == [i \in DOMAIN buf |-> IF i <= Len(pre) THEN pre[i] ELSE buf[i]]

\* A variant that counts the '/' of the target instead of the link's path
link_relative_counting_target(path, buf) ==
    IF Len(buf) + RelShift(SlashCnt(buf)) >= NFS_MAXPATHLEN
    THEN [st |-> "NAMETOOLONG", data |-> buf]
    ELSE [st |-> "OK", data |-> Overlay(Shift(buf, RelShift(SlashCnt(buf))), RelPrefix(SlashCnt(buf)))]

\* The rewrite of the cc bytes buf read from the link at path (a string):
\* refused when the rewritten string would reach NFS_MAXPATHLEN bytes
link_relative(path, buf) ==
    IF Len(buf) + RelShift(SlashCnt(path)) >= NFS_MAXPATHLEN
    THEN [st |-> "NAMETOOLONG", data |-> buf]
    ELSE [st |-> "OK", data |-> Overlay(Shift(buf, RelShift(SlashCnt(path))), RelPrefix(SlashCnt(path)))]

\* The status and data of READLINK on the link at p with target t, on an
\* export with link_relative rel
readlink_reply(p, t, rel) ==
    IF rel /\ readlink(t)[1] = "/" THEN link_relative(Str(p), readlink(t))
    ELSE [st |-> "OK", data |-> readlink(t)]

\* pathbuf keeps the string, which a later lstat(pathbuf) resolves from the
\* server's working directory "/"
ReadlinkOut(peer, uid, a, r) ==
    [Out("READLINK", peer, uid, r.st, fs, Resolve(<<>>, r.data), {},
         IF r.st = "OK" THEN {a.path} ELSE {}, a.cred)
        EXCEPT !.target = a.path, !.data = r.data]

NFSPROC_READLINK(peer, uid, h) ==
    LET a == auth_fh(peer, uid, h, {"NOACCESS"})
    IN  IF a.st # "OK" \/ fs[a.path].type # "lnk"
        THEN {Early("READLINK", peer, uid, IF a.st # "OK" THEN a.st ELSE "INVAL", pathbuf, a.cred)}
        ELSE {ReadlinkOut(peer, uid, a, readlink_reply(a.path, fs[a.path].target, a.mount.rel))}

\* fh_fd opens the handle's path, following a symbolic link
NFSPROC_READ(peer, uid, h) ==
    LET a == auth_fh(peer, uid, h, {"NOACCESS"})
        f == Deref(a.path)
        st == CASE a.st # "OK" -> a.st
                [] ~Exists(f)   -> "NOENT"
                [] IsDir(f)     -> "ISDIR"
                [] OTHER        -> "OK"
    IN  {Out("READ", peer, uid, st, fs, pathbuf, {}, IF st = "OK" THEN {a.path, f} ELSE {}, a.cred)}

NFSPROC_WRITE(peer, uid, h, len) ==
    LET a == auth_fh(peer, uid, h, WR)
        f == Deref(a.path)
        st == CASE a.st # "OK"         -> a.st
                [] len = "over_maxdata" -> "IO"
                [] ~Exists(f)           -> "NOENT"
                [] IsDir(f)             -> "ISDIR"
                [] OTHER                -> "OK"
    IN  {Out("WRITE", peer, uid, st, fs, pathbuf, IF st = "OK" THEN {f} ELSE {},
             IF st = "OK" THEN {a.path} ELSE {}, a.cred)}

NFSPROC_REMOVE(peer, uid, h, name) ==
    LET b == build_path(peer, uid, h, name, WR, pathbuf)
    IN  {IF b.st # "OK" THEN Early("REMOVE", peer, uid, b.st, b.path, b.cred)
         ELSE Done("REMOVE", peer, uid, unlink(b.path), b.path, {b.path}, {}, b.cred)}

NFSPROC_RMDIR(peer, uid, h, name) ==
    LET b == build_path(peer, uid, h, name, WR, pathbuf)
    IN  {IF b.st # "OK" THEN Early("RMDIR", peer, uid, b.st, b.path, b.cred)
         ELSE Done("RMDIR", peer, uid, rmdir(b.path), b.path, {b.path}, {}, b.cred)}

\* the destination is built in pathbuf_1, which no other call reads; a
\* rename that would build a path deeper than MaxDepth is left out
NFSPROC_RENAME(peer, uid, h, name, h2, name2) ==
    LET b == build_path(peer, uid, h, name, WR, pathbuf)
        b2 == build_path(peer, uid, h2, name2, WR, NoPath)
    IN  CASE b.st # "OK"  -> {Early("RENAME", peer, uid, b.st, b.path, b.cred)}
          [] b2.st # "OK" -> {Early("RENAME", peer, uid, b2.st, b.path, b2.cred)}
          [] ~WithinDepth(b.path, b2.path) -> {}
          [] OTHER -> {Done("RENAME", peer, uid, rename(b.path, b2.path), b.path,
                            {b.path, b2.path}, {}, b2.cred)}

\* nfsmount after build_path is the mount of the new name
NFSPROC_LINK(peer, uid, h, h2, name2) ==
    LET a == auth_fh(peer, uid, h, WR)
        b == build_path(peer, uid, h2, name2, WR, NoPath)
    IN  {CASE a.st # "OK"       -> Early("LINK", peer, uid, a.st, pathbuf, a.cred)
           [] b.st # "OK"       -> Early("LINK", peer, uid, b.st, pathbuf, b.cred)
           [] b.mount # a.mount -> Early("LINK", peer, uid, "ACCES", pathbuf, b.cred)
           [] OTHER -> Done("LINK", peer, uid, link(a.path, b.path), pathbuf, {b.path}, {}, b.cred)}

\* symlink(2), then setattr(SATTR_CHOWN | SATTR_UTIMES), which may fail
\* and leaves the link in place when it does
NFSPROC_SYMLINK(peer, uid, h, name, t) ==
    LET b == build_path(peer, uid, h, name, WR, pathbuf)
        r == MakeNode(b.path, "lnk", 0, t)
    IN  IF b.st # "OK" \/ r.err # "OK"
        THEN {Early("SYMLINK", peer, uid, IF b.st # "OK" THEN b.st ELSE r.err, b.path, b.cred)}
        ELSE {Out("SYMLINK", peer, uid, st, r.fs, b.path, {b.path}, {}, b.cred) : st \in {"OK", "PERM"}}

\* mkdir(2), fh_compose, setattr(SATTR_CHOWN | SATTR_CHMOD | SATTR_UTIMES)
\* (the directory stays if it fails), fh_getattr
NFSPROC_MKDIR(peer, uid, h, name) ==
    LET b == build_path(peer, uid, h, name, WR, pathbuf)
        r == MakeNode(b.path, "dir", 0, NoPath)
    IN  IF b.st # "OK" \/ r.err # "OK"
        THEN {Early("MKDIR", peer, uid, IF b.st # "OK" THEN b.st ELSE r.err, b.path, b.cred)}
        ELSE {Out("MKDIR", peer, uid, st, r.fs, b.path, {b.path},
                  IF st = "OK" THEN {b.path} ELSE {}, b.cred) : st \in {"OK", "PERM"}}

\* Entries of a directory; a noaccess mount shows only "." and ".."
\* (dotsonly).  The paging by cookie is the subject of module Readdir.
Children(p) == {q \in DOMAIN fs : Len(q) = Len(p) + 1 /\ IsPrefix(p, q)}

NFSPROC_READDIR(peer, uid, h) ==
    LET a == auth_fh(peer, uid, h, {})
        st == CASE a.st # "OK"    -> a.st
                [] ~IsDir(a.path) -> "NOTDIR"
                [] OTHER          -> "OK"
        dotsonly == a.mount.noaccess
    IN  {Out("READDIR", peer, uid, st, fs, pathbuf, {},
             IF st # "OK" THEN {} ELSE IF dotsonly THEN {a.path}
                                       ELSE {a.path} \cup Children(a.path), a.cred)}

NFSPROC_STATFS(peer, uid, h) ==
    LET a == auth_fh(peer, uid, h, {"NOACCESS"})
    IN  {Out("STATFS", peer, uid, a.st, fs, pathbuf, {}, {}, a.cred)}

(***************************************************************************)
(* nfsd_nfsproc_create_2.  build_path's NFSERR_ROFS is tolerated so that  *)
(* an existing special file can be "created" on a read-only export; the   *)
(* existence test then runs on pathbuf, which build_path did not write.   *)
(* The handle returned is composed from the request's directory and name. *)
(***************************************************************************)
\* lstat of the path: the node there, or a record of type "none"
NodeAt(p) ==
    IF Exists(p) THEN fs[p] ELSE [ino |-> NoInode, type |-> "none", rdev |-> 0, target |-> NoPath]

\* The type and device CREATE makes: with no S_IFMT bits the type of the
\* existing node, else regular, an existing special file passing its own
\* rdev; char device 0xFFFF (FifoDev) is a FIFO.
create_kind(mode, size, node) ==
    LET special == mode = "none" /\ node.type \notin {"none", "reg"}
        type0 == CASE mode # "none"      -> mode
                   [] node.type = "none" -> "reg"
                   [] OTHER              -> node.type
        size0 == IF special THEN node.rdev ELSE size
        type == IF type0 = "chr" /\ size0 = FifoDev THEN "fifo" ELSE type0
    IN  [special |-> special, type |-> type, dev |-> IF type = "chr" THEN size0 ELSE 0]

\* mknod of a special file that is not there, the kind check of one that
\* is, or fh_path_open of a regular file, with O_CREAT when absent; open
\* follows a symbolic link
create_node(p, node, k) ==
    CASE k.type # "reg" /\ node.type = "none" -> MakeNode(p, k.type, k.dev, NoPath)
      [] k.type # "reg" -> Sys(IF node.type # k.type \/ (k.type = "chr" /\ k.dev # node.rdev)
                               THEN "EXIST" ELSE "OK", fs)
      [] node.type = "none"      -> MakeNode(p, "reg", 0, NoPath)
      [] ~Exists(Deref(p))       -> Sys("NOENT", fs)
      [] IsDir(Deref(p))         -> Sys("ISDIR", fs)
      [] OTHER                   -> Sys("OK", fs)

\* The reply, after setattr (which fails, or not) and fh_compose of where.
\* b is build_path's result; ROFS is let through to the lstat of pathbuf.
CreateReply(peer, uid, name, mode, size, b, node, k) ==
    LET where == IF b.dir = NoPath THEN NoPath ELSE Append(b.dir, name)
        p == b.path
        exists == node.type # "none"
        st0 == IF k.special THEN "OK" ELSE b.st
        r == create_node(p, node, k)
        \* a special file that exists is only passed to setattr(SATTR_SIZE),
        \* which truncates regular files only
        W == IF k.type = "reg" THEN {Deref(p)} ELSE IF exists THEN {} ELSE {p}
        \* the type the client asked for, 0xFFFF char devices being FIFOs
        asked == IF mode = "chr" /\ size = FifoDev THEN "fifo" ELSE mode
        C(st, f, W2, D) == [Out("CREATE", peer, uid, st, f, p, W2, D, b.cred)
                              EXCEPT !.target = where, !.mode = asked]
        Final(ok) == IF ~ok THEN "PERM" ELSE IF where \in DOMAIN r.fs THEN "OK" ELSE "NOENT"
    IN  CASE b.st \notin {"OK", "ROFS"} -> {C(b.st, fs, {}, {})}
          [] st0 # "OK"                 -> {C(st0, fs, {}, {})}
          [] r.err # "OK"               -> {C(r.err, fs, {}, {})}
          [] OTHER -> {C(Final(ok), r.fs, W, IF Final(ok) = "OK" THEN {where} ELSE {}) :
                         ok \in IF k.type # "reg" /\ exists THEN {TRUE} ELSE BOOLEAN}

NFSPROC_CREATE(peer, uid, h, name, mode, size) ==
    LET b == build_path(peer, uid, h, name, WR, pathbuf)
    IN  CreateReply(peer, uid, name, mode, size, b, NodeAt(b.path),
                    create_kind(mode, size, NodeAt(b.path)))

(***************************************************************************)
(* The server: one call after another, from any peer, as any uid, on any  *)
(* handle and name.  Calls is every outcome of every call the server may  *)
(* take in the current state; a step applies one of them.                 *)
(***************************************************************************)
Calls ==
    UNION {  NFSPROC_GETATTR(peer, uid, h) \cup NFSPROC_SETATTR(peer, uid, h)
           \cup NFSPROC_READLINK(peer, uid, h)
           \cup NFSPROC_READ(peer, uid, h)
           \cup UNION {NFSPROC_WRITE(peer, uid, h, len) : len \in {"within_maxdata", "over_maxdata"}}
           \cup UNION {NFSPROC_CREATE(peer, uid, h, n, mode, size) :
                          mode \in CreateModes, size \in Devs \cup {0}}
           \cup NFSPROC_REMOVE(peer, uid, h, n)
           \cup UNION {NFSPROC_RENAME(peer, uid, h, n, h2, n2) : h2 \in DirHandles, n2 \in ReqNames}
           \cup UNION {NFSPROC_LINK(peer, uid, h, h2, n) : h2 \in DirHandles}
           \cup UNION {NFSPROC_SYMLINK(peer, uid, h, n, t) : t \in LinkTargets}
           \cup NFSPROC_MKDIR(peer, uid, h, n) \cup NFSPROC_RMDIR(peer, uid, h, n)
           \cup NFSPROC_READDIR(peer, uid, h) \cup NFSPROC_STATFS(peer, uid, h)
          : peer \in Peers, uid \in Uids, h \in Handles, n \in ReqNames }
    \cup UNION {NFSPROC_LOOKUP(peer, uid, h, n) :
                   peer \in Peers, uid \in Uids, h \in Handles \cup {PublicFh}, n \in ReqNames}

\* a step takes one outcome of a call
Do(outcomes) == \E o \in outcomes : fs' = o.fs /\ pathbuf' = o.buf

Init ==
    /\ fs = InitFs
    /\ pathbuf = NoPath

Next ==
    \E peer \in Peers, uid \in Uids, h \in Handles, n \in ReqNames :
        \/ Do(NFSPROC_GETATTR(peer, uid, h))
        \/ Do(NFSPROC_SETATTR(peer, uid, h))
        \/ \E lh \in {h, PublicFh} : Do(NFSPROC_LOOKUP(peer, uid, lh, n))
        \/ Do(NFSPROC_READLINK(peer, uid, h))
        \/ Do(NFSPROC_READ(peer, uid, h))
        \/ \E len \in {"within_maxdata", "over_maxdata"} : Do(NFSPROC_WRITE(peer, uid, h, len))
        \/ \E mode \in CreateModes, size \in Devs \cup {0} :
              Do(NFSPROC_CREATE(peer, uid, h, n, mode, size))
        \/ Do(NFSPROC_REMOVE(peer, uid, h, n))
        \/ \E h2 \in DirHandles, n2 \in ReqNames : Do(NFSPROC_RENAME(peer, uid, h, n, h2, n2))
        \/ \E h2 \in DirHandles : Do(NFSPROC_LINK(peer, uid, h, h2, n))
        \/ \E t \in LinkTargets : Do(NFSPROC_SYMLINK(peer, uid, h, n, t))
        \/ Do(NFSPROC_MKDIR(peer, uid, h, n))
        \/ Do(NFSPROC_RMDIR(peer, uid, h, n))
        \/ Do(NFSPROC_READDIR(peer, uid, h))
        \/ Do(NFSPROC_STATFS(peer, uid, h))

Spec == Init /\ [][Next]_vars

(***************************************************************************)
(* Properties.  Each quantifies over every call the server may take next, *)
(* so it holds of every call of every reachable state.                     *)
(***************************************************************************)

\* The state has its type, and fs is a tree: every path but "/" has a
\* directory as parent.
TypeOK ==
    /\ DOMAIN fs \subseteq Path
    /\ fs \in [DOMAIN fs -> Node]
    /\ \A p \in DOMAIN fs \ {<<>>} : IsDir(Parent(p))
    /\ pathbuf \in Path \cup LinkTargets \cup {NoPath}

\* The mount the caller's client reaches a path through.
MountOf(o, p) == auth_path(auth_clnt(o.peer), p)

\* A call changes (or opens for writing) only paths that lie in an export
\* of the caller's client that is neither read-only nor noaccess, with
\* the server not in global read-only mode: what the CHK_WRITE and
\* CHK_NOACCESS checks of auth_fh and build_path are there to guarantee
\* to every handler that writes.
WriteAuthorized ==
    \A o \in Calls : \A p \in o.wrote :
        LET m == MountOf(o, p)
        IN  m # NoMount /\ ~m.ro /\ ~m.noaccess /\ ~ReadOnly

\* Every write runs as the local uid the export of the written path maps
\* the caller's uid to (auth_user after auth_fh and build_path, spec 4.4
\* step 5): never as the root_uid dispatch starts a call with, never as
\* another export's mapping.
WriteIdentity ==
    \A o \in Calls : \A p \in o.wrote : o.cred = luid(o.uid, MountOf(o, p))

\* No reply shows a path outside the caller's exports, or below the root
\* of a noaccess export (auth_fh's noaccess test, readdir's dotsonly, the
\* second auth_fh of lookup).
Confidential ==
    \A o \in Calls : \A p \in o.shown :
        LET m == MountOf(o, p)
        IN  m # NoMount /\ (m.noaccess => p = m.path)

\* A READLINK reply, rewritten or not by link_relative, names the link's
\* target when the client looks it up from the link's directory, and
\* leaves room in pathbuf for the '\0': the slash_cnt counting, the q - p
\* shift, the NAMETOOLONG test and the "../" overwrite of
\* nfsd_nfsproc_readlink_2 together.
ReadlinkNamesTarget ==
    \A o \in Calls :
        (o.proc = "READLINK" /\ o.st = "OK")
            => /\ Len(o.data) < NFS_MAXPATHLEN
               /\ Resolve(Parent(o.target), o.data) = o.fs[o.target].target


\* The comment of fhc_getattr: "Some applications need the exact symlink
\* size".  The size GETATTR gives a symbolic link is the length of the
\* string a READLINK of the same link replies with, on every export.
LinkSizeExact ==
    \A o \in Calls :
        (o.proc = "GETATTR" /\ o.st = "OK" /\ o.attr.type = "NFLNK")
            => LET r == readlink_reply(o.target, o.fs[o.target].target, MountOf(o, o.target).rel)
               IN  r.st = "OK" => o.attr.size = Len(r.data)

\* The comment of nfsd_nfsproc_create_2: on a read-only export a CREATE
\* succeeds only to let "echo >/dev/null" work, that is only when the
\* named file exists and is not a regular file.
CreateOnReadOnly ==
    \A o \in Calls :
        (o.proc = "CREATE" /\ o.st = "OK" /\ (MountOf(o, o.target).ro \/ ReadOnly))
            => o.target \in DOMAIN o.fs /\ o.fs[o.target].type # "reg"

=============================================================================
