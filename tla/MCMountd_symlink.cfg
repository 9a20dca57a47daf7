CONSTANTS
    p1 = p1
    p2 = p2
    Procs = {p1}
    Hosts = {1, 2}
    Paths = {1, 2}
    MaxTime = 2
    MaxCrash = 0
    CrashPoints = {"stat"}
    Faults = {}
    Overlap = TRUE
    InitContents <- MCInitContents
    Args = {1, 2}
    NoPath = 0
    Real <- LinkReal
    Kind <- LinkKind
    Granted <- LinkGranted
    NfsMounted = {}
    ReExport = FALSE
    FhFail = FALSE
SPECIFICATION Spec
INVARIANT RecordsAccounted
