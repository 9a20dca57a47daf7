CONSTANTS
    NCopies = 2
    MaxDeaths = 2
    Kinds = {"signal", "exit"}
SPECIFICATION Spec
PROPERTY Restored
