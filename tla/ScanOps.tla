------------------------------ MODULE ScanOps ------------------------------
(***************************************************************************)
(* The contract between a search and the scan routines it dispatches to:   *)
(* the doc of struct ScanOps in search.rs, which unsafe code relies on,    *)
(* with the debug_asserts of SearchPlan::next_match_batch.                 *)
(*                                                                         *)
(* A haystack matters only through its length and the set of the offsets   *)
(* whose byte is in the byte set being searched.                           *)
(***************************************************************************)
EXTENDS Integers, FiniteSets

CONSTANTS
    Bits,   \* MatchedBitset::BITS, the width of a batch
    None    \* Option::None

ASSUME BitsAssumption == Bits \in Nat \ {0}

ASSUME NoneAssumption == None \notin Nat

IsHaystack(h) ==
    /\ h \in [len : Nat, matches : SUBSET Nat]
    /\ h.matches \subseteq 0 .. h.len - 1

\* The matching offsets in lo .. hi - 1.
MatchesIn(h, lo, hi) == {m \in h.matches : lo <= m /\ m < hi}

\* The same as bits relative to lo.
BatchOf(h, lo, hi) == {m - lo : m \in MatchesIn(h, lo, hi)}

\* Fault: a batch one byte wider than a MatchedBitset.
BatchContractWide(h, old, base, scan, bits) ==
    /\ old <= base /\ base <= scan /\ scan <= h.len
    /\ scan - base <= Bits + 1
    /\ MatchesIn(h, old, base) = {}
    /\ bits = BatchOf(h, base, scan)
    /\ bits = {} => scan = h.len

(***************************************************************************)
(* next_match_batch called with scan_offset = old leaves match_base = base *)
(* and scan_offset = scan, and returns bits.                               *)
(***************************************************************************)
BatchContract(h, old, base, scan, bits) ==
    /\ old <= base /\ base <= scan /\ scan <= h.len
    /\ scan - base <= Bits
    /\ old < h.len => old < scan
    /\ MatchesIn(h, old, base) = {}
    /\ bits = BatchOf(h, base, scan)
    /\ bits = {} => scan = h.len

\* count_all over the bytes from `from` on.
CountContract(h, from, res) == res = Cardinality(MatchesIn(h, from, h.len))

FirstContract(h, res) ==
    IF h.matches = {} THEN res = None
    ELSE res \in h.matches /\ \A m \in h.matches : res <= m

LastContract(h, res) ==
    IF h.matches = {} THEN res = None
    ELSE res \in h.matches /\ \A m \in h.matches : m <= res
=============================================================================
