CONSTANTS
    p1 = p1
    p2 = p2
    Procs = {p1}
    Hosts = {1, 2}
    Paths = {1, 2}
    MaxTime = 2
    MaxCrash = 1
    CrashPoints = {"close"}
    Faults = {}
    Overlap = TRUE
    InitContents <- MCInitContents
SPECIFICATION Spec
INVARIANT DumpIsTruth
