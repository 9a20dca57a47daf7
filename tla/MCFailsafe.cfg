CONSTANTS
    NCopies = 2
    MaxDeaths = 6
    Kinds = {"signal", "sigterm"}
SPECIFICATION Spec
INVARIANTS TypeOK SlotsTrackChildren
PROPERTY Restored
