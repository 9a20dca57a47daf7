CONSTANTS
    p1 = p1
    p2 = p2
    Procs = {p1, p2}
    Hosts = {1, 2}
    Paths = {1, 2}
    MaxTime = 2
    MaxCrash = 0
    CrashPoints = {"open", "stat"}
    Faults = {}
    Overlap = FALSE
    InitContents <- MCInitContents
SPECIFICATION Spec
INVARIANT DumpIsTruth
