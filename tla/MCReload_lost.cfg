CONSTANTS
    MaxGen = 2
SPECIFICATION Spec
INVARIANT ReloadApplied
