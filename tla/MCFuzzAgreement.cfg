SPECIFICATION AgreementSpec
CONSTANTS
    Bits = 32
    None = None
    BlockBytes = 4
    NativeWidths <- MCNativeWidths
    Haystacks <- MCHaystacks
    Indices = {}
    Steps = {}
    Lengths <- MCLengths
    Gaps <- MCGaps
    Strides <- MCStrides
INVARIANTS
    PlanKeepsContract
    Agreed
PROPERTIES
    Ends
