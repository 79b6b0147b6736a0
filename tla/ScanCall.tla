------------------------------ MODULE ScanCall ------------------------------
(***************************************************************************)
(* One call of a scan routine on one haystack: its inputs, the locals of   *)
(* its loop, what it leaves in IterState and what it returns; how both     *)
(* engines test a tail shorter than their unit; and the contract a         *)
(* returned result has to meet.  SwarScan and VectorScan supply the loops. *)
(*                                                                         *)
(* What a kernel's `matches` and the mask extraction after it yield is     *)
(* taken to be the set of the matching lanes; how kernels compute it is    *)
(* not modelled here.  A short tail is copied into a zeroed buffer, so it  *)
(* matters whether the byte zero is in the byte set.                       *)
(***************************************************************************)
EXTENDS ScanOps, BitSets

CONSTANTS
    Haystacks,
    NativeWidths    \* the vector widths of the SIMD levels; the word engine has its word

ASSUME HaystacksAssumption == \A h \in Haystacks : IsHaystack(h)

Ops == {"next_match_batch", "first_match", "last_match", "count_all"}

VARIABLES
    haystack,
    zero,           \* whether the byte zero matches
    op,             \* the routine called
    native_width,   \* S::u8s::LEN, which the level of the CPU decides
    start,          \* IterState.scan_offset when next_match_batch is called
    offset,         \* the loops' `offset`, or last_match's `end`
    total,          \* count_all's local
    match_base,     \* IterState.match_base
    scan_offset,    \* IterState.scan_offset
    result          \* Pending, or what was returned

inputs == <<haystack, zero, op, native_width, start>>

batch == <<match_base, scan_offset>>

vars == <<inputs, offset, total, batch, result>>

Pending == [done |-> FALSE]

Init ==
    /\ haystack \in Haystacks
    /\ zero \in BOOLEAN
    /\ op \in Ops
    /\ native_width \in NativeWidths
    /\ start \in IF op = "next_match_batch" THEN 0 .. haystack.len ELSE {0}
    /\ offset = IF op = "last_match" THEN haystack.len ELSE start
    /\ total = 0
    /\ match_base = 0
    /\ scan_offset = start
    /\ result = Pending

Running(f) == op = f /\ result = Pending

\* What the loop has not reached yet.
Unscanned == haystack.len - offset
-----------------------------------------------------------------------------
(***************************************************************************)
(* How a step ends.                                                        *)
(***************************************************************************)
Return(r) == result' = r /\ UNCHANGED <<inputs, offset, total>>

ReturnBits(bits) == Return([done |-> TRUE, bits |-> bits])

ReturnIndex(i) == Return([done |-> TRUE, index |-> i]) /\ UNCHANGED batch

ReturnTotal(t) == Return([done |-> TRUE, total |-> t]) /\ UNCHANGED batch

\* The loop goes round with its offset moved to o.
MoveTo(o) == offset' = o /\ UNCHANGED <<inputs, batch, result>>

\* Fault: the offset is not moved.
ContinueInPlace(o) == MoveTo(offset) /\ UNCHANGED total

Continue(o) == MoveTo(o) /\ UNCHANGED total

\* next_match_batch returns the nonempty bits of the width bytes at offset.
ReturnBatch(width, bits) ==
    /\ match_base' = offset
    /\ scan_offset' = offset + width
    /\ ReturnBits(bits)

\* next_match_batch returns the bits of the tail, which may be empty.
ReturnTail(bits) ==
    /\ match_base' = haystack.len - Unscanned
    /\ scan_offset' = haystack.len
    /\ ReturnBits(bits)

\* The caller has its result.
Returned == result.done /\ UNCHANGED vars
-----------------------------------------------------------------------------
(***************************************************************************)
(* What the routines read.                                                 *)
(***************************************************************************)

\* The matching lanes of the width bytes at o.
Lanes(o, width) == {i \in 0 .. width - 1 : o + i \in haystack.matches}

\* The lanes of two adjacent units, as one bitset.
PairLanes(o, width) == Lanes(o, width) \cup Shl(Lanes(o + width, width), width, Bits)

\* How many bytes are copied from either end of a short slice of len bytes.
StagedLen(len) ==
    CASE len >= 8 -> 8
      [] len >= 4 /\ len < 8 -> 4
      [] len >= 2 /\ len < 4 -> 2
      [] OTHER -> 1

\* The first and the last n of the len bytes at o, which may overlap, side by side
\* in a zeroed buffer of width bytes; the lanes of the zeroes match if zero does.
Staged(o, len, n, width) ==
    {i \in 0 .. n - 1 : o + i \in haystack.matches}
        \cup {i \in n .. 2 * n - 1 : o + len - 2 * n + i \in haystack.matches}
        \cup (IF zero THEN 2 * n .. width - 1 ELSE {})

\* Fault: what the padding matched is slid along with the last n.
SlideEndsUnmasked(bits, n, len) ==
    (bits \cap LowMask(n)) \cup Shl(Shr(bits, n), len - n, 64)

\* The bits of the last n go back to where their bytes came from.
SlideEnds(bits, n, len) ==
    (bits \cap LowMask(n)) \cup Shl(Shr(bits, n) \cap LowMask(n), len - n, 64)

\* short_tail_bits of the len bytes at o.
ShortTailBits(o, len, width) ==
    LET n == StagedLen(len) IN SlideEnds(Staged(o, len, n, width), n, len)

\* Fault: the bits of the bytes before the tail are not shifted out.
TailBitsUnshifted(len, width) ==
    IF haystack.len >= width
    THEN Lanes(haystack.len - width, width)
    ELSE ShortTailBits(haystack.len - len, len, width)

\* tail_bits of the haystack's last len bytes: the last whole unit is read again
\* where there is one, and the bits of bytes before the tail are shifted out.
TailBits(len, width) ==
    IF haystack.len >= width
    THEN Shr(Lanes(haystack.len - width, width), width - len)
    ELSE ShortTailBits(haystack.len - len, len, width)

\* What the code's `if tail.is_empty()` guards, for the part not yet reached.
UnscannedBits(width) == IF Unscanned = 0 THEN {} ELSE TailBits(Unscanned, width)

FirstOf(bits) == Min(bits)

LastOf(bits) == Max(bits)
-----------------------------------------------------------------------------
(***************************************************************************)
(* Properties.                                                             *)
(***************************************************************************)

\* The loops' invariant: what a loop has passed was looked at and holds no match
\* (or, in count_all, is counted), whichever mix of units it was read in.  The reads
\* that overlap what was passed, at the tail and in last_match at the front, rely on it.
PassedIsClear ==
    result = Pending =>
      /\ offset <= haystack.len
      /\ op \in {"next_match_batch", "first_match"} =>
           start <= offset /\ MatchesIn(haystack, start, offset) = {}
      /\ op = "last_match" => MatchesIn(haystack, offset, haystack.len) = {}
      /\ op = "count_all" => total = Cardinality(MatchesIn(haystack, 0, offset))

\* The doc of struct ScanOps, on which the callers' unsafe code relies: each
\* routine returns what the contract says, for a haystack of any length and, for
\* next_match_batch, from any offset, aligned or not.
MeetsContract ==
    result.done =>
      CASE op = "next_match_batch" ->
             BatchContract(haystack, start, match_base, scan_offset, result.bits)
        [] op = "first_match" -> FirstContract(haystack, result.index)
        [] op = "last_match" -> LastContract(haystack, result.index)
        [] op = "count_all" -> CountContract(haystack, 0, result.total)
=============================================================================
