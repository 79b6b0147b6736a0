--------------------------- MODULE MCFuzzAgreement ---------------------------
(***************************************************************************)
(* Instances of FuzzAgreement for TLC, with blocks of four bytes.  A       *)
(* haystack has no match, one, two at a distance in Gaps, matches at every *)
(* multiple of a number in Strides, or nothing but matches.                *)
(***************************************************************************)
EXTENDS FuzzAgreement

CONSTANTS Lengths, Gaps, Strides

Sparse(l) ==
    {{}} \cup {{a, a + g} \cap 0 .. l - 1 : a \in 0 .. l - 1, g \in Gaps}
         \cup {{m \in 0 .. l - 1 : m % s = 0} : s \in Strides}

MCHaystacks ==
    UNION {{[len |-> l, matches |-> s] : s \in Sparse(l)} : l \in Lengths}

\* Around the multiples of a block, a word, a chunk and a pair.
MCLengths == 0 .. 9 \cup {12, 15, 16, 17, 23, 27, 33, 38}

MCGaps == {0, 3, 17}

MCStrides == {1, 5, 8}

MCNativeWidths == {BlockBytes, 2 * BlockBytes, 4 * BlockBytes}
=============================================================================
