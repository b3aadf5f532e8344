\* The conditions against every kind of cluster, and what is reported in the end.
SPECIFICATION FairSpec
CONSTANTS
    Worlds <- OneOff
    Toleration = 1
    MaxBack = 1
    MaxFails = 1
INVARIANTS
    TypeOK
    QuietMeansReported
PROPERTIES
    NoFlapping
    TransitionTimes
    ProgressingIsReported
    RecoveryIsReported
