\* Bytes of three bits, three to a word: every kernel with every word.
SPECIFICATION Spec

CONSTANTS
    ByteBits = 3
    WordBytes = 3
    NeedlesMax = 3

INVARIANTS
    MarksExact
    ProbeExact
    UseExact
