------------------------------ MODULE MCRmtab ------------------------------
EXTENDS Rmtab

CONSTANTS p1, p2

\* /etc/rmtab left empty, or holding two mounts of different hosts
MCInitContents == {<<>>, << <<1, 1>>, <<2, 1>> >>}

=============================================================================
