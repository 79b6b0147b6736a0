SPECIFICATION KernelsSpec
CONSTANTS
    ByteBits = 8
    WordBytes = 8
    Words = 4
    Nibbles = 16
    MaxGroups = 8
    MembersMax = 16
    NeedlesMax = 3
    None = None
    Sets <- RealSets
    Machines <- MCMachines
    Vectors <- MCVectors
INVARIANTS
    KernelExact
    LanesMarked
    EndsExact
    Runnable
