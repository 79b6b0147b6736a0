SPECIFICATION Spec
CONSTANTS
    Bits = 32
    None = None
    BlockBytes = 4
    NativeWidths <- MCNativeWidths
    Haystacks <- MCHaystacks
    Lengths <- ScaledLengths
    Gaps <- ScaledGaps
INVARIANTS
    PassedIsClear
    MeetsContract
