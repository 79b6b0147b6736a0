---------------------------- MODULE MatchCursor ----------------------------
(***************************************************************************)
(* What an Iter promises its caller: a cursor over the matching offsets of *)
(* one haystack, in increasing order.  `ahead` is the set of the matches   *)
(* not yet yielded, skipped or advanced past; the batches an Iter really   *)
(* holds are invisible.  `ret` is the last completed call with its result. *)
(*                                                                         *)
(* The promises are those of the documentation of Iter::advance_to, of the *)
(* Iterator methods Iter overrides, and of FusedIterator.                  *)
(***************************************************************************)
EXTENDS Integers, FiniteSets

CONSTANTS Haystacks, Indices, Steps, None

VARIABLES haystack, ahead, ret

vars == <<haystack, ahead, ret>>

Init ==
    /\ haystack \in Haystacks
    /\ ahead = haystack.matches
    /\ ret = [op |-> "iter"]

Below(m) == {a \in ahead : a < m}

Beyond(m) == {a \in ahead : a > m}

\* next: the lowest match ahead, or None, now and for ever, when there is none.
CursorNext ==
    /\ \/ /\ ahead = {}
          /\ ret' = [op |-> "next", val |-> None]
          /\ UNCHANGED ahead
       \/ \E m \in ahead :
              /\ Below(m) = {}
              /\ ret' = [op |-> "next", val |-> m]
              /\ ahead' = Beyond(m)
    /\ UNCHANGED haystack

\* nth(k): skips k matches and yields the one after them, or exhausts the cursor.
CursorNth(k) ==
    /\ \/ /\ Cardinality(ahead) <= k
          /\ ret' = [op |-> "nth", arg |-> k, val |-> None]
          /\ ahead' = {}
       \/ \E m \in ahead :
              /\ Cardinality(Below(m)) = k
              /\ ret' = [op |-> "nth", arg |-> k, val |-> m]
              /\ ahead' = Beyond(m)
    /\ UNCHANGED haystack

\* advance_to(idx): drops the matches before idx and no other.
CursorAdvanceTo(idx) ==
    /\ ahead' = {a \in ahead : a >= idx}
    /\ ret' = [op |-> "advance_to", idx |-> idx]
    /\ UNCHANGED haystack

\* count, on a clone: the exact number of matches ahead.
CursorCount ==
    /\ ret' = [op |-> "count", total |-> Cardinality(ahead)]
    /\ UNCHANGED <<haystack, ahead>>

\* size_hint: any bounds with the number of matches ahead between them.
CursorSizeHint ==
    /\ \E lo \in 0 .. Cardinality(ahead), hi \in Cardinality(ahead) .. haystack.len :
           ret' = [op |-> "size_hint", lo |-> lo, hi |-> hi]
    /\ UNCHANGED <<haystack, ahead>>

Next ==
    \/ CursorNext
    \/ \E k \in Steps : CursorNth(k)
    \/ \E idx \in Indices : CursorAdvanceTo(idx)
    \/ CursorCount
    \/ CursorSizeHint

Spec == Init /\ [][Next]_vars
=============================================================================
