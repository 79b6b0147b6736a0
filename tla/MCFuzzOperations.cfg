SPECIFICATION FairSpec
CONSTANTS
    Bits = 16
    None = None
    BlockBytes = 2
    NativeWidths <- MCNativeWidths
    Haystacks <- MCHaystacks
    Indices <- MCIndices
    Steps <- MCSteps
    Lengths <- MCLengths
    Places <- MCPlaces
    Gaps <- MCGaps
INVARIANTS
    AsExpected
PROPERTIES
    IterSpec
    CallsReturn
    Drained
