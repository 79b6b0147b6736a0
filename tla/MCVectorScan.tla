---------------------------- MODULE MCVectorScan ----------------------------
(***************************************************************************)
(* Instances of VectorScan for TLC, with the sparse haystacks of module    *)
(* MCSwarScan: no match, one, two at a distance in Gaps, nothing else.     *)
(***************************************************************************)
EXTENDS VectorScan

CONSTANTS Lengths, Gaps

Sparse(l) ==
    {{}, 0 .. l - 1}
        \cup {{a, a + g} \cap 0 .. l - 1 : a \in 0 .. l - 1, g \in Gaps}

MCHaystacks ==
    UNION {{[len |-> l, matches |-> s] : s \in Sparse(l)} : l \in Lengths}

\* Those of SSE and NEON, AVX2 and AVX-512.
MCNativeWidths == {BlockBytes, 2 * BlockBytes, ChunkBytes}

\* Scaled down to blocks of four bytes: every length up to a pair of chunks, a
\* block and a byte, and some that leave every rest after a chunk and a pair, and two pairs.
ScaledLengths == 0 .. 37 \cup {48, 53, 55, 65}

ScaledGaps == {0, 4, 17}

\* As in the code: blocks of sixteen bytes.
RealLengths == 0 .. 17 \cup {31, 32, 33, 47, 63, 64, 65, 95, 127, 129, 150, 193}

RealGaps == {0, 15}
=============================================================================
