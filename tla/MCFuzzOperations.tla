-------------------------- MODULE MCFuzzOperations --------------------------
(***************************************************************************)
(* Instances of FuzzOperations for TLC.  Blocks of two bytes make a pair   *)
(* of chunks as long as a pair of words, sixteen bytes, so that the same   *)
(* haystacks take both engines through all of their loops.                 *)
(***************************************************************************)
EXTENDS FuzzOperations

CONSTANTS Lengths, Places, Gaps

Sparse(l) ==
    {{}, 0 .. l - 1}
        \cup {{a, a + g} \cap 0 .. l - 1 : a \in Places, g \in Gaps}

MCHaystacks ==
    UNION {{[len |-> l, matches |-> s] : s \in Sparse(l)} : l \in Lengths}

MCLengths == {0, 5, 19, 27}

\* The first and the last lane of a unit, and the next one's first.
MCPlaces == {0, 7, 8, 16, 24}

MCGaps == {3, 17}

MCIndices == {0, 5, 17, 20}

MCSteps == {1, 4}

MCNativeWidths == {BlockBytes}
=============================================================================
