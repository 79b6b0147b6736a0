------------------------------ MODULE NeverScan ------------------------------
(***************************************************************************)
(* The scan routines of a plan for the empty set, in search.rs: none looks *)
(* at the haystack, and each is one step.                                  *)
(***************************************************************************)
EXTENDS ScanCall

\* Fault: the batch is left where it was.
NeverBatchStays ==
    /\ Running("next_match_batch")
    /\ UNCHANGED batch
    /\ ReturnBits({})

\* next_match_batch exhausts the haystack.
NeverBatch ==
    /\ Running("next_match_batch")
    /\ scan_offset' = haystack.len
    /\ match_base' = scan_offset'
    /\ ReturnBits({})

\* never_match, which is both first_match and last_match.
NeverMatch ==
    /\ Running("first_match") \/ Running("last_match")
    /\ ReturnIndex(None)

CountZero == Running("count_all") /\ ReturnTotal(0)

Next == NeverBatch \/ NeverMatch \/ CountZero
=============================================================================
