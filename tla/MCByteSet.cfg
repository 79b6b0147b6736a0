SPECIFICATION UseSpec
CONSTANTS
    ByteBits = 2
    WordBytes = 2
    Words = 3
    None = None
    BufferLen = 4
    Others <- MCOthers
    Slices <- MCSlices
INVARIANTS
    Agrees
    Classified
    Listed
    Ascending
    Exact
