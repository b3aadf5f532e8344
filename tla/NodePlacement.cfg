SPECIFICATION FairSpec
CONSTANTS
    Nodes = {"n1", "n2"}
    NodeStates <- FewStates
    Placements <- FewPlacements
    Releases = 2
    MaxEdits = 2
    MaxFails = 1
INVARIANTS
    TypeOK
    AtRestHints
PROPERTIES
    NeverStranded
    PlacementIsApplied
    ImageIsApplied
    HintsFollowNodes
