CONSTANTS
    MaxGen = 4
SPECIFICATION Spec
INVARIANTS TypeOK
PROPERTIES TableStableInCall NeedServed
