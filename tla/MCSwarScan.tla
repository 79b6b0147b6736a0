----------------------------- MODULE MCSwarScan -----------------------------
(***************************************************************************)
(* Instances of SwarScan for TLC.  The words are as wide as in the code.   *)
(* A haystack has no match, one, two at a distance in Gaps, or nothing but *)
(* matches: which lane of which word, which side of a boundary, and which  *)
(* of two matches is reported first is all that a scan can get wrong.      *)
(***************************************************************************)
EXTENDS SwarScan

CONSTANTS Lengths, Gaps

Sparse(l) ==
    {{}, 0 .. l - 1}
        \cup {{a, a + g} \cap 0 .. l - 1 : a \in 0 .. l - 1, g \in Gaps}

MCHaystacks ==
    UNION {{[len |-> l, matches |-> s] : s \in Sparse(l)} : l \in Lengths}

\* Every tail, with and without a word to read again, after no pair, one and two.
MCLengths == 0 .. 41

\* The same byte, a neighbour, and about a word further on.
MCGaps == {0, 1, 7, 8, 9}
=============================================================================
