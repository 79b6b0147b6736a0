SPECIFICATION GroupSpec
CONSTANTS
    Nibbles = 4
    MaxGroups = 2
INVARIANTS
    TypeOK
    PlacedExactly
    LookupsExact
    RefusedOnlyIfFull
