SPECIFICATION FairSpec
CONSTANTS
    TTLRange = 1024
    Wraps = TRUE
    Bundles = {"b1", "b2"}
    Data = {"ca1", "ca2"}
    Specs <- FewSpecs
    Unreadable <- FewUnreadable
    MaxEdits = 2
    MaxFails = 1
INVARIANTS
    TypeOK
    AtRestMounted
    AtRestCopies
    AtRestForwards
    AtRestCaches
PROPERTIES
    FilesMountedWhenWritten
    ReferredKept
    BundleIsServed
    UnreferredIsRemoved
