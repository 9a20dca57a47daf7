# TLA+ models of the user-space NFSv2 server

This directory holds TLA+ models of the NFS server in `src/`. It also holds the
TLC configurations that check them. `PROJECT.json` lists the components, the
runs, the mutants, the map from each definition to the source lines it
translates, the findings and the hazards.

## The system

The server has the following parts.

* **nfsd** is a single-threaded RPC server. `dispatch.c` decodes each
  request, runs the handler of its procedure, sends one reply and then
  checks whether a reload of the export table is pending. The handlers are
  in `nfsd.c`. Each one:
  * resolves the file handle through `auth_fh`;
  * builds the path of a name in a directory through `build_path`;
  * performs the file system calls;
  * applies attributes through `setattr.c`.
  `auth_fh` finds the client by peer address, the mount by the longest
  export-path prefix, and the local uid. It then refuses the call
  (`noaccess`, read-only) or switches the fs uid.
  `build_path` writes into the static buffer `pathbuf`. That buffer is the
  only state a handler leaves behind besides the file system and the
  handle cache.
* **mountd** answers MNT, UMNT, UMNTALL, DUMP and EXPORT. It records mounts
  in the activity log `rmtab.c`, which is shared with other mountd
  copies through a file.
* **failsafe** (`libnfs/failsafe.c`) restarts a daemon that died.
* **ugidd** answers uid and gid name lookups for nfsd's `map_daemon`
  mode. It also answers AUTHENTICATE: it sends a datagram from a reserved
  port, which proves to the caller that it runs as root. It is a
  single-threaded RPC server on one UDP and one TCP transport.

Four pieces of code are not under `src/`:
* the export table code (`auth.c`);
* the uid map (`ugid_map.c`);
* the file handle cache (`fh.c`);
* `nfs_errno`.
The operators standing for them (`auth_clnt`, `auth_path`, `luid`,
`fh_find`, `fh_compose`) follow the spec, §4.1–4.3. `PROJECT.json`
marks them `spec_modelled`.

## Modules

| module | models | state |
|---|---|---|
| `NfsAuth` | export table, client and mount matching, squashing (spec §4.1–4.3) | constants only |
| `NfsProc` | `auth_fh`, `build_path` and the handlers of the 15 procedures that touch the file system | `fs` (path → node), `pathbuf` |
| `Readdir` | the loop of `nfsd_nfsproc_readdir_2` and clients paging through one directory with it | per client `cookie`, `got`, `eof` |
| `ReaddirSpec` | what paged enumeration promises (spec §4.5 and §8) | per client `seen`, `done` |
| `Setattr` | `setattr()` of `setattr.c` and the SETATTR handler | `attrs` (object → type, size, mode, times, owner), `now` |
| `Mountd` | MNT, UMNT, UMNTALL and DUMP of `mountd.c` over `Rmtab` | `Rmtab`'s variables and `mounted`, the clients' view |
| `Failsafe` | the parent loop of `failsafe()` that forks, reaps and restarts servers | the pid table `servers`, `running`, `ncopies`, the throttle (`fresh`, `restarts`, `backoff`), the servers alive and unreaped |
| `Rmtab` | the mount activity log of `rmtab.c`, shared by mountd processes through `/etc/rmtab` | the file (contents, mtime), per process the list, `old_rmtab_mtime` and write step |
| `Reload` | the nfsd main loop (`nfs_dispatch`) and `nfsd_reinitialize`, run both as the SIGHUP handler and from the loop | `cfg` and `table` (generations of the exports file and of the loaded table), `_rpcsvcdirty`, `need_reinit`, `inprogress`, the main thread's step |
| `Ugidd` | `ugidd.c`: `main`'s transports and daemon setup, `svc_run`'s transports, `ugidprog_1` and its five procedures | the descriptor table `fd`, the RPC library's registered transports `xprt`, `errno`, the reserved ports other processes hold, the last answer |
| `MCNfsProc`, `MCReaddir`, `MCSetattr`, `MCRmtab`, `MCReload`, `MCMountd`, `MCFailsafe`, `MCUgidd` | the constants TLC instantiates | |

### NfsProc

Each handler is an operator that returns the set of its possible outcomes
for one request. A request is a peer, a uid, a handle path, names, a mode
and a budget. An outcome is a record holding:
* the status;
* the new file system and the new `pathbuf`;
* the paths it wrote;
* the names it showed;
* the credentials it ran under;
* the target (the requested path for CREATE, the handle's path for
  READLINK and GETATTR);
* for READLINK, the string replied;
* for GETATTR, the attributes.

`Next` has one disjunct per procedure. Each disjunct takes some request
and makes the file system and `pathbuf` those of one outcome.

The invariants quantify over `Calls`, the outcomes of every request in the
current state. A violation is therefore reported in the state in which the
offending call can be made.

The kernel is abstracted to a tree of paths with inode, type, device and
link target. It does not model permissions, because the properties are
about what the server asks of the kernel, not what the kernel refuses.

`auth_fh` is the CASE chain of the code, in the code's order:
1. stale handle;
2. unknown client;
3. no mount;
4. noaccess;
5. read-only;
6. `auth_user`.
`build_path` keeps the control of the code:
* an auth failure leaves `pathbuf` unchanged;
* a name that makes the path too long (`NAMETOOLONG`) also leaves it unchanged;
* otherwise the path is written first and the mount lookup comes second;
* the credential is that of the mount of the *built* path.

`CREATE` models the whole procedure:
* tolerance of a read-only export when no type bits are given;
* type inference from the *stale* `pathbuf`;
* the special-file, FIFO and device logic;
* open with or without `O_CREAT`;
* `setattr`, which may fail.

`READLINK` keeps the byte-level control of nfsd.c:376-466. Paths become
strings (`Str`) of one-character names, and `NFS_MAXPATHLEN` is scaled to
`2 * MaxDepth + 2`. That is the length at which `build_path`'s
`strlen(dir) + strlen(name) + 1 >= NFS_MAXPATHLEN` test refuses exactly
the paths deeper than `MaxDepth`, the test the other handlers use.
`readlink` cuts the target to `NFS_MAXPATHLEN` bytes. On a
`link_relative` export, an absolute target is rewritten by
`link_relative`:
* `SlashCnt` counts the '/' of the link's path after its first byte;
* `RelShift` is the `q - p` shift;
* the `q >= pathbuf + NFS_MAXPATHLEN` test gives `NAMETOOLONG`;
* `Shift` is the copy loop;
* `Overlay` with `RelPrefix` is the "../" overwrite.
`Resolve` is the kernel's lookup of a string from a directory. It gives
the path a client reaches from the reply, and the path a later `lstat`
of `pathbuf` sees.

`GETATTR` replies `fhc_getattr` of the node (getattr.c:80-158). The model
keeps the type through `_ftype_map`, the symbolic-link size
`MIN(st_size, NFS_MAXPATHLEN)`, rdev and fileid.

### Readdir

The directory stream is a constant `Dir` with telldir offsets `Tell`.
`seekdir(x)` resumes at the first entry whose starting offset is at least
`x`. `Page` is the `while` loop as a recursive operator over
`res_size`, `first` and `dotinum`. It translates, as the code does:
* the budget check and its first-entry exception;
* the dotsonly cut, which ends the stream;
* the hidedot inode substitution;
* the cookie `telldir() mod 2^CookieBits`.

A client calls with a budget from its own set `Counts[c]`. It appends the
entries, keeps the last cookie and stops at eof. It may then start again.

`Readdir` is shown to implement `ReaddirSpec` through
`INSTANCE ReaddirSpec WITH seen <- got, done <- eof`.

### Setattr

`setattr` is four stage operators in the code's order: `truncate_step`,
`utimes_step`, `chmod_step` and `lchown_step`. Each takes the state
`[err, f, s]` the previous one left and returns the states it may leave:
* the state unchanged, when an error came first, the flag is absent, the
  field is the "ignore" value or it equals the stat buffer `s`;
* the system call failing (`Fail`), which ends the chain with the earlier
  stages applied;
* the system call succeeding, which updates the file system `f` and `s`
  as the code does.

The kernel's side is kept small:
* truncate sets the mtime to the clock `now`;
* chmod and utimes act on what a symbolic link points to (`Follow`);
* truncate is guarded by `lstat` and lchown does not follow.
`NFSPROC_SETATTR` lstats the object and runs `setattr` with `SATTR_ALL`.
Its reply is the updated stat buffer when the request carried an mtime,
and the file's attributes otherwise. `Tick` advances the clock.

### Rmtab

Each mountd process keeps the log as a list sorted by host, then path.
`rmtab_insert`, `rmtab_del` and `rmtab_mdel` translate the list walks of
the code, including the early stops that rely on the order. Host names
and paths are numbers, ordered as `strcmp` orders the names.

`Call` is one of MNT, UMNT, UMNTALL or DUMP. It first runs
`rmtab_read_file`:
* a missing file is created;
* an unchanged mtime keeps the list;
* otherwise the list is rebuilt from the file.
It then changes the list. If the list changed, the process goes on to
rewrite the file in three separate actions:
* `WriteOpen` (`fopen("w")` truncates);
* `WriteClose` (the lines reach the file);
* `WriteStat` (records the new mtime).
A process may die at one of the steps named by `CrashPoints`. It then
restarts with an empty list and `old_rmtab_mtime = 0`. The failures of
`creat`, `fopen("r")` and `fopen("w")` are enabled by `Faults`.

The ghost `truths` holds the sets of mounts the answered calls may have
recorded. A call is answered when its write ends. A call a crash
interrupted was never answered, so it may or may not have happened.

`Rmtab` has no run of its own. `Mountd` drives it through its handlers.

### Reload

`Receive`, `Reply` and `Done` are the three parts of `nfs_dispatch`:
* `Receive`: `_rpcsvcdirty = 1`, the range check and decoding;
* `Reply`: the procedure, `svc_sendreply` and `svc_freeargs`;
* `Done`: the `done` label, which clears `_rpcsvcdirty` and tests
  `nfsd_need_reinit()`.
A failed range check or decode jumps to `done`. That path is the same
sequence of state changes.

`nfsd_reinitialize` is the SIGHUP handler. It is one atomic step that may
come between any two steps of the main thread. The edit of the exports
file that precedes the signal is part of that step. When the main thread
calls the same function from `done`, it is split where a signal can
interrupt it:
* `IncLoad` and `IncStore`: the two halves of `inprogress++`;
* `Load`: `auth_init` (the `fh_flush(1)` before it is in `fh.c`);
* `Clear` and `ClearNeed`: the two resets.
The exports file and the export table are generation numbers: `cfg`
counts edits, and `table` is the generation `auth_init` read last.

The handle cache is not modelled. `auth_fh` stores the client and mount
in a cache entry (`last_clnt`, `last_mount`, nfsd.c:148-157) and the next
call on that handle reuses them. Both rereads call `fh_flush(1)` before
`auth_init`, and only the main thread runs calls. Whether a stale mount
survives therefore depends only on `fh_flush`, which is in `fh.c`,
outside `src/`.

### Mountd

`Mountd` instantiates `Rmtab` with its own variables and adds the
handlers of `mountd.c`:
* `mountproc_mnt_1`: `Resolved` is `argbuf` after `realpath()`.
  `MntStatus` is the chain of checks in code order:
  * the access gate (`auth_clnt`, `auth_path`, `noaccess`), which is a
    per-host set `Granted` because `auth.c` is not under `src/`;
  * the saved `realpath` error or a failed `stat`;
  * not a directory or regular file;
  * NFS-mounted without `-r`;
  * `fh_create`.
  A call that passes the checks goes on to `rmtab_add_client`.
* `mountproc_umnt_1`: `rmtab_del_client` with the path as sent.
* `mountproc_umntall_1`: `rmtab_mdel_client`.
* `mountproc_dump_1`: `rmtab_lst_client`.
* `mountproc_pathconf_2`: the reply, zeroed or holding the server's
  limits. It is not a step, because the reply leaves no state in mountd.
  The checks come in the code's order, which differs from MNT's:
  `realpath`, then `stat`, then the access gate, then the NFS-mount test.
`Log` is the rewrite steps and the crash of `Rmtab`.

The ghost `mounted` is the clients' side. It holds the (host, path as
sent) pairs whose MNT was answered OK, less those unmounted since.

### Failsafe

`Start` is one round of the inner `while (running < ncopies)` loop:
* the throttle: `fresh` says that `time(NULL)` still equals
  `last_restart`;
* the search for a free slot (`FreeSlot`);
* `fork()`.
`Reap` is `wait()` and the bookkeeping after it. A server killed by a
signal other than SIGTERM has its slot freed for a restart. Any other
termination compacts the table (`Compact`) and lowers `ncopies`. The
parent exits when none is running. `Die` is a server ending, by
`exit()`, by SIGTERM or by another signal. `Tick` moves the clock on.
`sleep(backoff)` always moves it on too.

### Ugidd

`Init` is `main` after the transports are created. The UDP transport is
descriptor 3 and the TCP one is 4. Without `-d` (`Foreground`), the
forked daemon has closed 0, 1 and 2. The model keeps the whole
descriptor table. `accept()` and `socket()` return the lowest free
descriptor, as POSIX requires. `xprt` is what the RPC library has
registered.

`ugidprog_1` serves one call on a transport:
* `authenticate_1_svc` takes the range test's jump to `bad`, which
  closes `s`, still 0. It then runs `socket()`, the unchecked
  `setsockopt`, and the bind loop `BindFrom` from `Reserved - 1` down.
  After the loop comes `sendto()`, possibly from an unbound socket, then
  `close`, and the answer, computed from `errno` when the call fails;
* `name_uid_1_svc` and `id_name_1_svc` are the lookups, with the range
  test `OutOfRange` computed in `IntBits`-bit arithmetic.
The library's own steps are environment:
* `Accept`: a TCP client connects;
* `Hangup`: a TCP client goes away;
* `svc_run`: a registered descriptor turns out closed. With `poll()`
  the library unregisters it. With `select()` the call fails, `svc_run`
  returns and `main` exits;
* `Ports`: other processes take and release reserved ports.
A call that `client_checkaccess` refuses changes no state, and neither
does a NULL call, an unknown procedure or an undecodable argument. None
of them is modelled.

## Runs

The runs are listed in `PROJECT.json`.

### `proc_sibling` (pass)

The exports are:
* a read-write export with root squash;
* a read-only export;
* a noaccess export;
all on a 9-inode tree of depth 2, with uids 0 and 1, devices 1 and 3, and
one peer. The read-write export /e has `link_relative`. Clients can
create links to /e (short enough for the rewrite), to /e/a (too long
for it under the scaled `NFS_MAXPATHLEN`), to /r/b and to /h/a. The run
checks two invariants:
* `TypeOK`;
* `ReadlinkNamesTarget`: every READLINK reply that is not `NAMETOOLONG`
  leaves room for the '\0' in `pathbuf`. It also names the link's target
  when it is looked up from the link's directory. This covers the slash
  count, the shift, the boundary test and the "../" overwrite together.
  Its mutant counts the slashes of the target instead of the link's path.

`WriteAuthorized`, `WriteIdentity` and `Confidential` are defined in
`NfsProc` but not checked here. With links into /r and /h, TLC violates
the first and the third in two steps (see `proc_link_escape`). In this
model every write in /e and /f runs as the same squashed identity, so
`WriteIdentity` can only fail across exports (`MCNfsProc_cross.cfg`).

### `proc_link_escape` (violation, `Confidential`)

The client makes the symbolic link /e/b -> /h/a in the read-write export
/e and sends READ on the link's handle. `auth_fh` checks the link's own
path, which is in /e. Then `fh_fd` opens the path, and `open()` follows
the link into the noaccess export /h (nfsd.c:485). WRITE through a link
to /r/b writes into the read-only export in the same way. SETATTR has
the same defect: `chmod` and `utimes` follow the link
(`MCSetattr_link.cfg`).

### `proc_nested_noaccess` (violation, `WriteAuthorized`)

A noaccess export is nested in a read-write one. `RENAME` through the
parent moves the root of the noaccess export. `build_path` never looks at
the options of the mount of the path it builds.

### `readdir_resume` (pass)

Three clients page through a five-entry directory with interleaved calls:
* c1 uses a budget smaller than any entry;
* c2 reads through a noaccess export (dotsonly);
* c3 varies its budget.
The run checks `TypeOK`. It also checks `Resumable`: the refinement of
`ReaddirSpec`, meaning each client gets exactly its listing, in order,
with eof only at the end. Finally it checks `EventuallyEof`.
No export in this run hides its dots. With `HideDot`, `Resumable` fails
when a page ends after `.`: `dotinum` is local to one call, so the next
call reports `..` with inode 0. `PROJECT.json` lists this as a hazard.

### `readdir_wide_offsets` (violation, `Resumable`)

Telldir offsets wider than the cookie are truncated, and the client is
sent entries twice. The width is scaled from 32 bits to `CookieBits = 4`,
with offsets growing by 17 per entry. That is the situation of 64-bit
hash offsets in a 32-bit cookie.

### `setattr_apply` (pass)

A regular file, a symbolic link and the root-owned file it points to sit
under a root-squashed mount. Every request is tried in every state, with
each field ignored or given and with every sub-operation failing or
succeeding. The run checks two invariants:
* `TypeOK`;
* `TruncateNoFollow`: a size only changes on the regular file the handle
  names.

### `mountd_faults` (pass)

One mountd and two hosts. Clients send five canonical paths:
* a directory, exported to both hosts;
* a regular file, exported to both hosts;
* a device node;
* a directory on an NFS-mounted file system;
* a missing path.
Host 2 is granted only the first two. The initial `/etc/rmtab` is
missing, empty, or holds the first directory for both hosts. `creat` and
`fopen("w")` may fail. The process may die once after a complete
rewrite. A crash before the rewrite completes is not enabled: after a
failed write, the mount the crash loses was answered and lived only in
memory. The run checks:
* `TypeOK`: the types, and `rmtablist` without duplicates;
* `RecordsAccounted`: every mount DUMP would list is held by its client,
  through an OK MNT that no UMNT or UMNTALL followed.
* `PathconfGated`: PATHCONF gives the server's limits for a dirpath only
  when MNT of the same dirpath by the same host would not be refused with
  ACCES or an errno. This is the "We don't [let anyone snoop]" of its
  comment. Conversely, a host that holds a dirpath mounted gets the
  limits for it. Its mutant drops the NFS-mount test, and then the directory on
  the NFS-mounted file system leaks its limits.

### `mountd_symlink_umnt` (violation, `RecordsAccounted`)

Path 2 is a symbolic link to the exported directory 1. Host 1 mounts 2,
and mountd records `1:1`. Host 1 unmounts 2, and `rmtab_del_client`
looks for `1:2`, finds nothing and writes nothing. DUMP goes on listing
`1:1`, although the client holds no mount. An empty path (recorded as
`/`) and any non-canonical path behave the same way.

### `failsafe_restart` (pass)

Two servers, which die up to six times by a signal or by SIGTERM, at any
point of the parent's loop. Six deaths let more than `2*ncopies` forks
fall in one second, so the backoff branch runs. The run checks:
* `TypeOK`, with the throttle count bounded by `2*ncopies+1`;
* `SlotsTrackChildren`: the used slots below `ncopies` hold each
  unreaped server once, and `running` counts them. So the inner loop
  always finds a free slot.
* `Restored`: once deaths stop, the servers not stopped by SIGTERM are
  all running again, or the parent has exited.

### `reload_deferred` (pass)

Up to four edits of the exports file, each followed by SIGHUP, arrive
between any two steps of the main loop. The run checks:
* `TypeOK`;
* `TableStableInCall` (action property): no step, of the handler or of
  the loop, replaces the export table while a call is between
  `_rpcsvcdirty = 1` and the reply;
* `NeedServed`: a `need_reinit` set by the handler during a call is
  eventually cleared by the reload at the `done` label.

### `reload_lost` (violation, `ReloadApplied`)

A SIGHUP during a call defers the reload. The loop then runs
`nfsd_reinitialize(0)`, and `auth_init` reads the exports. A second
SIGHUP arrives before `inprogress = 0`. The handler sees `inprogress`
non-zero and returns without setting `need_reinit`. The loop resets both
flags and waits for requests with the table of the first edit.

### `ugidd_fd_close` (violation, `SvcFdsOpen`)

This is the daemon without `-d`. A TCP client connects, and `accept()`
gives it descriptor 0, which the daemon closed after the fork. Any
caller then sends AUTHENTICATE with port -1. The range test jumps to
`bad`, and `close(s)` with `s` still 0 closes that client's connection.
The library still watches descriptor 0. Under `poll()` it drops the
connection. Under `select()`, `svc_run` returns and ugidd exits. With
`-d` the same happens in four steps: the first bad call closes stdin,
and the next connection then takes descriptor 0.

Twelve divergences found while modelling have no run of their own. They
are recorded as hazards in `PROJECT.json`, and their configurations
reproduce them:
* `MCSetattr_times.cfg` violates `TimesApplied`. Truncate sets the mtime,
  but `s->st_mtime` keeps the value from before the truncate. A request
  with size 0 and the old mtime therefore skips utimes and replies OK,
  while the file has the truncate time.
* `MCSetattr_link.cfg` violates `SetattrConfined`. SETATTR on a link
  handle changes the times and mode of the link's target, because
  `chmod` and `utimes` follow links. It is the defect of
  `proc_link_escape` in another handler.
* `MCMountd_readfail.cfg` violates `RecordsAccounted`. After a failed
  `fopen("r")` of rmtab, UMNT works on the stale list, finds nothing to
  delete and rewrites nothing, so DUMP keeps listing the released mount.
* `DumpIsTruth` (`Rmtab`) says that when no call is in progress every
  process would answer DUMP with the mounts recorded. One mountd process
  runs (failsafe with one copy), and with one process and the faults of
  `mountd_faults` it restates `RecordsAccounted`, so it is checked only
  where it can fail:
* `MCRmtab_torn.cfg` violates `DumpIsTruth`. mountd dies between
  `fopen("w")` and `fclose`, the file is left empty, and the restarted
  mountd reports no mounts.
* `MCRmtab_same_second.cfg` violates `DumpIsTruth` with two mountd
  processes. p1 answers a DUMP at second 1 and records mtime 1. p2 then
  records a mount in the same second, so the mtime stays 1. p1 never
  rereads the file. Its DUMP misses the mount, and its next rewrite would
  remove it from the file. Spec §5 accepts this lost update.
* `MCNfsProc_cross.cfg` violates `WriteIdentity`. A `RENAME` from a
  root-squashed export into an unsquashed one unlinks the source as the
  destination's identity. The spec forbids cross-export LINK but says
  nothing of RENAME.
* `MCFailsafe_exit.cfg` violates `Restored`. A server that calls `exit()`
  is never restarted, and `ncopies` shrinks. Spec §7 says a fatal error
  makes the worker exit so that a supervisor can restart it. nfsd's own
  SIGTERM handler, `xmalloc_failed` and the return of `svc_run` all exit.
* `MCMountd_fh.cfg` violates `RecordsAccounted` when `fh_create` fails.
  The MNT is answered with an error but recorded.
* `MCNfsProc_rofs.cfg` violates `CreateOnReadOnly`. On a read-only
  export, `CREATE` without type bits decides whether the file exists from
  the `pathbuf` the previous request left (nfsd.c:606). As a result it
  replies OK for a regular file.
* `MCNfsProc_linksize.cfg` violates `LinkSizeExact`. The comment of
  `fhc_getattr` says "Some applications need the exact symlink size".
  But the size comes from `st_size`, the length of the target on disk,
  while on a `link_relative` export READLINK replies the rewritten
  string. A link /e/b -> /e reports size 2, and its READLINK replies
  "../e", which is 4 bytes.
* `MCUgidd_idname.cfg` violates `IdsResolve`. The range test of
  `UID_NAME` and `GID_GROUP` compares with `(int)((gid_t)-1)`. With an
  `int` as wide as `gid_t` that is -1, so every id is out of range and
  the answer is always the empty name.
* `MCUgidd_giveup.cfg` violates `AuthFromReserved`. With every reserved
  port from 1023 down to 513 taken, the bind loop gives up but still
  sends. The datagram leaves from an ephemeral port, and AUTHENTICATE
  answers 0.

Every property of a passing run has a mutant in `PROJECT.json`. The
mutant is a plausible bug in the mapped code, such as a dropped guard, an
off-by-one or a reordered read, and TLC finds it.

## Bounds

* Paths have depth at most 2, or 3 for the nested-export run.
  `NFS_MAXPATHLEN` is 6 with depth 2. A rewritten link /e/x -> /e fits it,
  and /e/x -> /e/a reaches the boundary exactly. Both sides of the
  `NAMETOOLONG` test therefore occur. That is
  enough for an export root, its children, and one level of a sibling or
  nested export.
* Inodes are bounded by `Inodes`. This leaves room for one or two
  creations, which is enough for every create, link, rename and mkdir case
  to occur.
* Uids 0 and 1 separate root squashing from the identity mapping.
* Devices 1 and 3 separate a matching device from a different one. 3 is
  the FIFO device number.
* Readdir uses 5 entries with name lengths 1 to 3, and budgets 1, 100 and
  160. Each entry costs 49 to 51 bytes, so budgets of 100 and 160 end a
  page after 1, 2 or 3 entries. Every split point between `.`, `..` and
  the names therefore occurs.

* Setattr uses sizes 0 and 1, times 0 and 1 with requests naming 0,
  uids 0 and 1 under root squash, and the modes `0600` and `0100644`.
  The latter has the permission bits of the initial `0644` plus type bits. Together with the ignore
  value, `0xFFFF` and the failure of each stage, every branch of every
  sub-operation is taken.

* Rmtab uses two hosts and two paths, which is enough for an insert
  before, between and after entries and for UMNTALL to stop early. It
  uses two seconds of clock, so that writes can fall in the same second
  or in different seconds. It uses at most one crash and two processes.
  Mountd's five paths take each branch of MNT once for host 1. Host 2
  adds the refusal of the access gate.

* Reload allows up to four SIGHUPs in the pass run. The deferral takes
  one, and the handler arriving inside the loop's own reload takes a
  second. Four also lets a SIGHUP fall between the load and the store of
  `inprogress++`. The violation needs two.

* Failsafe runs two servers, enough for a compaction to move a slot
  down. It also has the other kill counts. The violation needs one exit.
  The backoff reaches 120 seconds and never more, as the hazard at
  failsafe.c:38 explains.

* Ugidd has six descriptors: 0 to 2, the two transports, and one more,
  so a second TCP connection can take a descriptor. Reserved ports are
  scaled to `Reserved = 8`, so the bind loop tries ports 7, 6 and 5 and
  gives up at 4, the way 1023 down to 513 work in the build. `int` and
  `gid_t` are 16 bits wide here instead of 32. The range test depends
  only on the two widths being equal, and TLC's integers cannot hold
  2^32. The whole state space has under 14,000 states. The violation
  needs three steps.

## Fairness

nfsd answers every request it reads (dispatch.c), one at a time. A client
that has not seen eof calls again. That justifies weak fairness of each
client's `Call` in `Readdir`. `NfsProc` checks safety only.

In `Reload`, the main thread's steps after a request is read are weakly
fair: `nfs_dispatch` runs to the end and returns to `svc_run`. New
requests (`Receive`) and signals are not fair. A server may stay idle,
and an administrator may stop editing.

In `Failsafe`, the parent is weakly fair: `fork()` and `wait()` return,
and `sleep()` ends. Server deaths and the clock are the environment and
are not fair.

`Ugidd` checks safety only. Its one question is whether a reachable
sequence of calls breaks the library's descriptor set.

## Not modelled yet

Left out of the modules so far:
* `fh_need_flush` and `fh_flush_cache`, called at the end of
  `nfs_dispatch`. They live in `fh.c`, which is not under `src/`, so
  `Reload` leaves them out, with `fh_flush` and the handle cache.
* a duplicate-request cache. The code has none, and the spec asks for
  none, so a retransmitted call is simply a second call.
* mountd's EXPORT, EXPORTALL and NULL, which return fixed data without
  any test and without changing state.
* mountd's own `reinitialize` (mountd.c:270). Its dispatch loop is rpcgen
  output that is not under `src/`, so nothing shows whether
  `need_reinit` is ever read.

The following are left out:
* the rest of `getattr.c`. The owners come through `ruid`/`rgid`, which
  live in `ugid_map.c`/`auth.c`; those are not under `src/`, and
  `include/auth.h` gives only their prototypes. A model of them would be
  written from the spec alone. The mode bits, sizes of other files,
  blocks and times are `u_int` copies of `struct stat` fields that no
  node of the model carries. The attributes that other handlers (LOOKUP,
  CREATE, MKDIR, WRITE, SETATTR) return through the same function are
  not recorded. The `memset(&sbuf, 0, sizeof(&sbuf))` at getattr.c:87
  clears only a pointer's width, but `lstat` fills `sbuf` before any use,
  so the bug has no effect;
* ugidd's `client_checkaccess` (`haccess`, not under `src/`), and the
  syslog connection `log_open` may hold. If `log_open` held a descriptor,
  that descriptor would be descriptor 0 in the daemon, and the bad
  AUTHENTICATE would close it instead;
* the memory helpers, which are pure I/O.
