\* The status controller through upgrades, rollbacks and failures.
SPECIFICATION FairSpec
CONSTANTS
    Releases = {"r1", "r2"}
    Version <- TwoReleases
    Pods <- FewPods
    Conditions <- FewConditions
    MaxWrites = 1
INVARIANTS
    TypeOK
    AtRestConditionsCurrent
    ReportedPaired
PROPERTIES
    ImplementsUpgrade
    UpgradeIsReported
    UnavailableIsReported
