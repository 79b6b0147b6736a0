SPECIFICATION Spec
CONSTANTS
    Bits = 128
    None = None
    Haystacks <- MCHaystacks
    NativeWidths = {8}
    Lengths <- MCLengths
    Gaps <- MCGaps
INVARIANTS
    PassedIsClear
    MeetsContract
