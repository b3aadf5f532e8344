\* The management state Removed.
SPECIFICATION Spec
CONSTANTS
    Specs = {"a"}
    DefaultSpec = "a"
    BadSpecs = {}
    MgmtStates = {"", "Removed"}
    Touchable = {}
    Fallible = {}
    MaxDNS = 1
    MaxEdits = 1
    MaxFails = 0
    Restarts = FALSE
INVARIANTS
    RemovedTearsDown
