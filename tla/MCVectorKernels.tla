--------------------------- MODULE MCVectorKernels ---------------------------
(***************************************************************************)
(* VectorKernels at the real sizes, for chosen byte sets.                  *)
(***************************************************************************)
EXTENDS VectorKernels

TableOf(values) ==
    [k \in 0 .. TableBytes - 1 |-> {b \in Byte : k * ByteBits + b \in values}]

\* Values around the ends of the domain and of a byte, a nibble and a word.
Ends == {0, 1, 15, 16, 17, 63, 64, 127, 128, 239, 240, 254, 255}

\* Sets of each kind the code tells apart, in and out of its limits: needles, all
\* but one, ranges, columns and rows with gaps, diagonals of eight to ten nibbles,
\* the former with a row and a column twice, columns with eight masks whose rows have
\* nine and the other way round, and scattered ones.
RealSets ==
    {TableOf(s) : s \in
        {{}, {7, 200}, {0, 128, 255}, {1, 2, 4}, {17 * h : h \in 0 .. 7} \cup {8, 135}} \cup
        {{v} : v \in Ends} \cup
        {Value \ {v} : v \in Ends} \cup
        {a .. b : a \in Ends, b \in Ends} \cup
        {(a .. b) \ {a + 1} : a \in Ends, b \in Ends} \cup
        {{16 * h + l : h \in hs} : l \in {0, 1, 15}, hs \in {{0, 2, 5, 10}, {1, 2, 3, 15}, {0, 1, 2, 3}}} \cup
        {{16 * h + l : l \in ls} : h \in {0, 1, 15}, ls \in {{0, 2, 5, 10}, {1, 3, 6, 15}}} \cup
        {{16 * (h + i) + h : h \in 0 .. n} : i \in {0, 6}, n \in {7, 8, 9}} \cup
        {UNION {{17 * l, 17 * l + 16} : l \in 0 .. n} : n \in {6, 7, 8}} \cup
        {UNION {{17 * h, 17 * h + 1} : h \in 0 .. n} : n \in {6, 7, 8}} \cup
        {{v \in Value : v % n = 0} : n \in {2, 3, 5, 7, 11, 16, 17, 37}}}

\* Every level the crate can detect, the word engine asked for, and explicit levels
\* below what the CPU has: the build's baseline, and one between.
MCMachines ==
    {[cpu |-> c, backend |-> "Auto"] : c \in Levels} \cup
    {[cpu |-> "Avx2", backend |-> "Swar"],
     [cpu |-> "Fallback", backend |-> "Fallback"],
     [cpu |-> "Avx512", backend |-> "Sse2"],
     [cpu |-> "Avx512", backend |-> "Avx2"]}

\* At each width vectors that together hold every byte value: neighbouring lanes lie
\* far apart, as 37 is odd each lane has another value modulo the width.
MCVectors ==
    UNION {{[i \in 0 .. w - 1 |-> (w * c + 37 * i) % 256] : c \in 0 .. 256 \div w - 1} :
             w \in {16, 32, 64}}
=============================================================================
