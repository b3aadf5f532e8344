\* What must eventually happen once the others stop.
SPECIFICATION FairSpec
CONSTANTS
    Specs = {"a", "bad"}
    DefaultSpec = "a"
    BadSpecs = {"bad"}
    MgmtStates = {"", "Unmanaged"}
    Touchable = {"daemonset"}
    Fallible = {"denyAll", "release", "status"}
    MaxDNS = 2
    MaxEdits = 1
    MaxFails = 1
    Restarts = FALSE
PROPERTIES
    Convergence
    DeletionCompletes
