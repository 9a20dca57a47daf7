------------------------------ MODULE MCMountd ------------------------------
EXTENDS Mountd

CONSTANTS p1, p2

\* /etc/rmtab left empty, or holding the mounts of directory 1 by both hosts
MCInitContents == {<<>>, << <<1, 1>>, <<2, 1>> >>}

\* 1 a directory, 2 a regular file, 3 a device node, 4 a directory on an
\* NFS-mounted file system, 5 a path that does not exist
PassReal == [a \in 1..5 |-> IF a = 5 THEN 0 ELSE a]
PassKind == (1 :> "dir" @@ 2 :> "reg" @@ 3 :> "other" @@ 4 :> "dir" @@ 5 :> "missing")
PassGranted == (1 :> 1..5 @@ 2 :> {1, 2})

\* 2 is a symbolic link to the exported directory 1
LinkReal == (1 :> 1 @@ 2 :> 1)
LinkKind == (1 :> "dir" @@ 2 :> "dir")
LinkGranted == (1 :> {1, 2} @@ 2 :> {1, 2})

\* 1 and 2 two exported directories, reached by their real paths
DirsReal == (1 :> 1 @@ 2 :> 2)

=============================================================================
