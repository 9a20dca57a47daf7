------------------------------ MODULE Setattr ------------------------------
(***************************************************************************)
(* setattr() of src/nfsd/setattr.c and its caller nfsd_nfsproc_setattr_2. *)
(*                                                                         *)
(* setattr applies the sub-operations of a sattr in a fixed order:        *)
(*   truncate, utimes, chmod, lchown                                       *)
(* each only when its flag is given, its field is not the "ignore" value  *)
(* and it differs from the stat buffer s.  It updates s as it goes, and    *)
(* the first system call that fails ends it with that error, the earlier  *)
(* ones staying applied.                                                   *)
(*                                                                         *)
(* The file system is a set of objects with attributes.  A symbolic link  *)
(* names the object it points to (Target); truncate is only attempted on  *)
(* what lstat() says is regular, chmod and utimes follow a link, lchown    *)
(* does not.  The kernel clock `now` stamps the mtime truncate() sets.    *)
(* The auth_fh of the call is modelled in NfsProc and assumed passed here. *)
(***************************************************************************)
EXTENDS NfsAuth

CONSTANTS
    Objs,        \* the objects a handle can name
    Target,      \* [links -> the object a symbolic link resolves to]
    InitAttrs,   \* [Objs -> Attr]
    Sizes,       \* file sizes
    ReqSizes,    \* sattr.size values clients send
    MaxNow,      \* bound of the clock; times are 0..MaxNow
    ReqTimes,    \* sattr.atime and sattr.mtime values clients send
    ReqModes,    \* sattr.mode values clients send (may carry S_IFMT bits)
    ReqUids,     \* sattr.uid values clients send
    Mount,       \* the nfs_mount the objects are exported through
    Ignore       \* the value -1 of an unsigned sattr field: leave unchanged

\* sattr.mode 0xFFFF, which the ultrix client sends for "no change"
UltrixMode == 65535

Times == 0..MaxNow

\* permission bits; the model stores mode & 07777 only
Perm(mode) == mode % 4096

Attr == [type: {"reg", "dir", "lnk"}, size: Sizes, mode: 0..4095,
         atime: Times, mtime: Times, uid: ReqUids \cup {Nobody}]

Req == [size: ReqSizes \cup {Ignore}, atime: ReqTimes \cup {Ignore}, mtime: ReqTimes \cup {Ignore},
        mode: ReqModes \cup {Ignore, UltrixMode}, uid: ReqUids \cup {Ignore}]

ASSUME /\ ReqSizes \subseteq Sizes /\ ReqTimes \subseteq Times
       /\ Ignore \notin Sizes \cup Times \cup ReqModes \cup ReqUids
       /\ Mount \in MountRec

VARIABLES
    attrs,   \* [Objs -> Attr], the inodes as the kernel has them
    now      \* the kernel's clock

vars == <<attrs, now>>

\* the object a path-based call that follows symbolic links acts on
Follow(o) == IF attrs[o].type = "lnk" THEN Target[o] ELSE o

(***************************************************************************)
(* The sub-operations.  Each takes the state r = [err, f, s] the previous  *)
(* one left (error so far, attributes of the file system, stat buffer) and *)
(* returns the states it may leave: its system call succeeds or fails.     *)
(***************************************************************************)
Fail(r) == [r EXCEPT !.err = "PERM"]

\* A variant without the test of the "ignore" size: truncate(path, -1)
truncate_step_ignore_unchecked(o, req, flags, r) ==
    IF r.err # "OK" \/ "SIZE" \notin flags \/ r.s.type # "reg"
    THEN {r}
    ELSE {Fail(r), [r EXCEPT !.f[o].size = req.size, !.f[o].mtime = now, !.s.size = req.size]}

\* A variant that decides on the type of what the path resolves to
truncate_step_followed(o, req, flags, r) ==
    IF r.err # "OK" \/ "SIZE" \notin flags \/ r.f[Follow(o)].type # "reg" \/ req.size = Ignore
    THEN {r}
    ELSE {Fail(r), [r EXCEPT !.f[Follow(o)].size = req.size, !.f[Follow(o)].mtime = now,
                             !.s.size = req.size]}

\* truncate(path, size), when lstat said regular; it sets the mtime
truncate_step(o, req, flags, r) ==
    IF r.err # "OK" \/ "SIZE" \notin flags \/ r.s.type # "reg" \/ req.size = Ignore
    THEN {r}
    ELSE {Fail(r), [r EXCEPT !.f[o].size = req.size, !.f[o].mtime = now, !.s.size = req.size]}

\* utimes(path, tvp): a time left at IGNORE_TIME is taken from s
utimes_step(o, req, flags, r) ==
    LET a == IF req.atime = Ignore THEN r.s.atime ELSE req.atime
        m == IF req.mtime = Ignore THEN r.s.mtime ELSE req.mtime
        differs == \/ req.atime # Ignore /\ req.atime # r.s.atime
                   \/ req.mtime # Ignore /\ req.mtime # r.s.mtime
    IN  IF r.err # "OK" \/ "UTIMES" \notin flags \/ ~differs THEN {r}
        ELSE {Fail(r), [r EXCEPT !.f[Follow(o)].atime = a, !.f[Follow(o)].mtime = m,
                                 !.s.atime = a, !.s.mtime = m]}

\* chmod(path, mode), unless -1, 0xFFFF or the permission bits already set
chmod_step(o, req, flags, r) ==
    IF \/ r.err # "OK" \/ "CHMOD" \notin flags
       \/ req.mode \in {Ignore, UltrixMode} \/ Perm(req.mode) = r.s.mode
    THEN {r}
    ELSE {Fail(r), [r EXCEPT !.f[Follow(o)].mode = Perm(req.mode), !.s.mode = Perm(req.mode)]}

\* lchown(path, luid(uid), gid), unless -1 or already the owner
lchown_step(o, req, flags, r) ==
    LET uid == IF req.uid = Ignore THEN Ignore ELSE luid(req.uid, Mount)
    IN  IF r.err # "OK" \/ "CHOWN" \notin flags \/ uid = Ignore \/ uid = r.s.uid
        THEN {r}
        ELSE {Fail(r), [r EXCEPT !.f[o].uid = uid, !.s.uid = uid]}

\* setattr(path, attr, s, flags), s being a valid stat buffer of path
setattr(o, req, s, flags) ==
    LET r0 == [err |-> "OK", f |-> attrs, s |-> s]
    IN  UNION {UNION {UNION {lchown_step(o, req, flags, r3) :
                               r3 \in chmod_step(o, req, flags, r2)} :
                        r2 \in utimes_step(o, req, flags, r1)} :
                 r1 \in truncate_step(o, req, flags, r0)}

SATTR_ALL == {"SIZE", "UTIMES", "CHMOD", "CHOWN"}

(***************************************************************************)
(* nfsd_nfsproc_setattr_2: lstat the path, setattr with SATTR_ALL, then   *)
(* reply with the attributes: the updated stat buffer when the request    *)
(* carried an mtime, else a fresh stat (fhc_getattr with NULL).            *)
(***************************************************************************)
NFSPROC_SETATTR(o, req) ==
    {[o |-> o, req |-> req, err |-> r.err, f |-> r.f,
      reply |-> IF req.mtime = Ignore THEN r.f[o] ELSE r.s] :
       r \in setattr(o, req, attrs[o], SATTR_ALL)}

Init == attrs = InitAttrs /\ now = 0

\* one SETATTR call
Setattr ==
    \E o \in Objs, req \in Req :
        \E c \in NFSPROC_SETATTR(o, req) : attrs' = c.f /\ UNCHANGED now

\* time passes
Tick == now < MaxNow /\ now' = now + 1 /\ UNCHANGED attrs

Next == Setattr \/ Tick

Spec == Init /\ [][Next]_vars

(***************************************************************************)
(* Properties.  They quantify over every call a client can make in the   *)
(* current state and each of its outcomes c, and so are checked for each  *)
(* call before it is made.                                                 *)
(***************************************************************************)
TypeOK == attrs \in [Objs -> Attr] /\ now \in Times

\* The size of an object changes only for a regular file named by the
\* call: truncate is never applied through a symbolic link nor to a
\* directory.
TruncateNoFollow ==
    \A o \in Objs, req \in Req : \A c \in NFSPROC_SETATTR(o, req), x \in Objs :
        c.f[x].size # attrs[x].size => x = c.o /\ attrs[x].type = "reg"

\* Spec 4.7: a successful setattr leaves the times it was given on the
\* file, and a time it was not given at its current value: the mtime a
\* truncate just set is not taken back from the stale stat buffer.
TimesApplied ==
    \A o \in Objs, req \in Req : \A c \in NFSPROC_SETATTR(o, req) :
        c.err = "OK" /\ attrs[c.o].type # "lnk" =>
            /\ c.req.atime # Ignore => c.f[c.o].atime = c.req.atime
            /\ c.req.mtime # Ignore => c.f[c.o].mtime = c.req.mtime
            /\ c.req.mtime = Ignore =>
                  c.f[c.o].mtime = IF c.req.size # Ignore /\ attrs[c.o].type = "reg"
                                   THEN now ELSE attrs[c.o].mtime

\* setattr(path, ...) changes the attributes of the object at path and of
\* no other.
SetattrConfined ==
    \A o \in Objs, req \in Req : \A c \in NFSPROC_SETATTR(o, req), x \in Objs : x # c.o => c.f[x] = attrs[x]

=============================================================================
