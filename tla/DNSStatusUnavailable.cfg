\* Whether a lost Available is published.
SPECIFICATION FairSpec
CONSTANTS
    Worlds <- NoPods
    Toleration = 1
    MaxBack = 0
    MaxFails = 0
PROPERTIES
    UnavailableIsReported
