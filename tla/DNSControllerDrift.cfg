\* Managed objects changed and deleted under a running pass.
SPECIFICATION Spec
CONSTANTS
    Specs = {"a", "bad"}
    DefaultSpec = "a"
    BadSpecs = {"bad"}
    MgmtStates = {"", "Unmanaged"}
    Touchable = {"namespace", "daemonset", "service"}
    Fallible <- AllSteps
    MaxDNS = 1
    MaxEdits = 2
    MaxFails = 1
    Restarts = TRUE
INVARIANTS
    TypeOK
    QuietMeansSettled
