SPECIFICATION ChoiceSpec
CONSTANTS
    ByteBits = 2
    WordBytes = 2
    Words = 4
    Nibbles = 4
    MaxGroups = 2
    MembersMax = 5
    NeedlesMax = 1
    None = None
    Sets <- MCSets
INVARIANTS
    KernelExact
    LastResort
