CONSTANTS
    MaxFd = 6
    Foreground = FALSE
    Root = TRUE
    SvcPoll = TRUE
    Reserved = 8
    IntBits = 16
    Passwd <- MCPasswd
    Group <- MCGroup
    NOBODY <- MCNobody
    IdArgs <- MCIdArgs
    NameArgs = {"root", "nobody"}
    PortArgs <- MCPortArgs
SPECIFICATION Spec
CHECK_DEADLOCK FALSE
INVARIANT AuthFromReserved
