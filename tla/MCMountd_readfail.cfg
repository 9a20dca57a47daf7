CONSTANTS
    p1 = p1
    p2 = p2
    Procs = {p1}
    Hosts = {1, 2}
    Paths = {1, 2, 3, 4, 5}
    MaxTime = 2
    MaxCrash = 1
    CrashPoints = {"stat"}
    Faults = {"read"}
    Overlap = TRUE
    InitContents <- MCInitContents
    Args = {1, 2, 3, 4, 5}
    NoPath = 0
    Real <- PassReal
    Kind <- PassKind
    Granted <- PassGranted
    NfsMounted = {4}
    ReExport = FALSE
    FhFail = FALSE
SPECIFICATION Spec
INVARIANT RecordsAccounted
