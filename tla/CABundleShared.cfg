SPECIFICATION FairSpec
CONSTANTS
    TTLRange = 1024
    Wraps = TRUE
    Bundles = {"b1", "b2"}
    Data = {"ca1"}
    Specs <- FewSpecs
    Unreadable = {{}}
    MaxEdits = 1
    MaxFails = 0
PROPERTY
    SharedBundleIsServed
