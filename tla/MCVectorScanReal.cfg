SPECIFICATION Spec
CONSTANTS
    Bits = 128
    None = None
    BlockBytes = 16
    NativeWidths <- MCNativeWidths
    Haystacks <- MCHaystacks
    Lengths <- RealLengths
    Gaps <- RealGaps
INVARIANTS
    MeetsContract
