\* How the cache times are rounded.
SPECIFICATION Spec
CONSTANTS
    TTLRange = 1024
    Wraps = FALSE
    Bundles = {"b1", "b2"}
    Data = {"ca1"}
    Specs <- FewSpecs
    Unreadable = {{}}
    MaxEdits = 1
    MaxFails = 0
INVARIANTS
    AtRestRoundedDown
