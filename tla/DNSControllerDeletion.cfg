\* A DNS that is edited, deleted and recreated under a running pass.
SPECIFICATION Spec
CONSTANTS
    Specs = {"a"}
    DefaultSpec = "a"
    BadSpecs = {}
    MgmtStates = {"", "Unmanaged"}
    Touchable = {}
    Fallible <- FinalizerSteps
    MaxDNS = 2
    MaxEdits = 2
    MaxFails = 1
    Restarts = TRUE
INVARIANTS
    FinalizerProtects
    DaemonSetNeverGarbage
    QuietMeansSettled
PROPERTIES
    TeardownBeforeRelease
    AdminEditsSurvive
    ImplementsLifecycle
