SPECIFICATION LaneSpec
CONSTANTS
    LaneMax = 3
    Lanes = 4
    BlockLanes = 2
    MaxBlocks = 3
    MaxTail = 1
    MaxUnits = 7
INVARIANTS
    LanesExact
    Accounted
