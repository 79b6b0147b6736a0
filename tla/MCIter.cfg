SPECIFICATION FairSpec
CONSTANTS
    Bits = 3
    None = None
    MaxLen = 5
    Haystacks <- MCHaystacks
    Indices <- MCIndices
    Steps <- MCSteps
INVARIANTS
    TypeOK
    WindowInBounds
    HeldBatch
    BeyondLast
    NthAccounting
PROPERTIES
    AdvanceNeverRewinds
    CursorSpec
    NthReturns
