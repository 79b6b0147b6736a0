------------------------------- MODULE MCIter -------------------------------
(***************************************************************************)
(* Instances of Iter for TLC: every haystack of at most MaxLen bytes.      *)
(***************************************************************************)
EXTENDS Iter

CONSTANT MaxLen

MCHaystacks ==
    UNION {{[len |-> l, matches |-> s] : s \in SUBSET (0 .. l - 1)} : l \in 0 .. MaxLen}

\* One index past the end included.
MCIndices == 0 .. MaxLen + 1

MCSteps == 0 .. MaxLen
=============================================================================
