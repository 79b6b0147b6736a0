------------------------------ MODULE Searcher ------------------------------
(***************************************************************************)
(* A MemchrN at work: Iter, find and rfind over the loops of an engine.    *)
(* Where module Iter lets a scan return anything within its contract, here *)
(* a call runs through SearchPlan into the loops of SwarScan, VectorScan   *)
(* or NeverScan, a step at a time, on the haystack or a slice of it.       *)
(*                                                                         *)
(* A scan writes match_base and scan_offset when it returns; Iter picks up *)
(* the bits in a step of its own.  Calls that need no scan are the actions *)
(* of Iter.                                                                *)
(***************************************************************************)
EXTENDS ScanOps, BitSets

CONSTANTS
    Haystacks, Indices, Steps,  \* as in Iter
    BlockBytes, NativeWidths    \* as in VectorScan

ASSUME HaystacksAssumption == \A h \in Haystacks : IsHaystack(h)

ASSUME ArgumentsAssumption == Indices \subseteq Nat /\ Steps \subseteq Nat

\* A MatchedBitset has room for two words and for two chunks.
ASSUME WidthAssumption ==
    /\ BlockBytes \in 2 .. 16
    /\ NativeWidths \subseteq {BlockBytes, 2 * BlockBytes, 4 * BlockBytes}
    /\ Bits >= 8 * BlockBytes
    /\ Bits >= 16

VARIABLES
    haystack, scan_offset, match_base, match_bits,      \* those of Iter
    pc, n, remaining, ret, entry, last,
    engine, native_width,   \* the searcher's plan
    zero,                   \* whether the byte zero is in its set
    caller,                 \* the function waiting for a scan, or "none"
    slice,                  \* the haystack, or part of one, that it handed over
    op, start, offset, total, result,                   \* those of ScanCall
    before                  \* history: Iter's state when the scan was called

plan == <<engine, native_width, zero>>

iterVars == <<haystack, scan_offset, match_base, match_bits, pc, n, remaining, ret, entry, last>>

scanVars == <<caller, slice, op, start, offset, total, result, before>>

vars == <<plan, iterVars, scanVars>>

\* The bytes from .. to - 1 of the haystack.
Slice(from, to) == [len |-> to - from, matches |-> BatchOf(haystack, from, to)]

Lazy == INSTANCE Iter

Swar == INSTANCE SwarScan WITH haystack <- slice

Vector == INSTANCE VectorScan WITH haystack <- slice

Never == INSTANCE NeverScan WITH haystack <- slice

Scanning == caller # "none"

\* No call is running.
Idle == ~ Scanning /\ pc = "idle"

NoScan ==
    /\ caller = "none"
    /\ slice = Slice(0, 0)
    /\ op = "none"
    /\ start = 0
    /\ offset = 0
    /\ total = 0
    /\ result = Swar!Pending
    /\ before = None

\* Only the empty set has the plan that never matches.
Init ==
    /\ Lazy!Init
    /\ engine \in {"swar", "vector", "never"}
    /\ engine = "never" => haystack.matches = {}
    /\ native_width \in IF engine = "vector" THEN NativeWidths ELSE {BlockBytes}
    /\ zero \in IF engine = "never" THEN {FALSE} ELSE BOOLEAN
    /\ NoScan
-----------------------------------------------------------------------------
(***************************************************************************)
(* A call through SearchPlan.                                              *)
(***************************************************************************)

\* The routine f is called for c, on the bytes from .. to - 1, from byte s of them.
Scan(c, f, from, to, s) ==
    /\ ~ Scanning
    /\ caller' = c
    /\ slice' = Slice(from, to)
    /\ op' = f
    /\ start' = s
    /\ offset' = IF f = "last_match" THEN to - from ELSE s
    /\ total' = 0
    /\ result' = Swar!Pending
    /\ before' = [scan_offset |-> scan_offset, match_base |-> match_base,
                  match_bits |-> match_bits, remaining |-> remaining]
    /\ UNCHANGED <<plan, haystack, scan_offset, match_base>>

\* Fault: the batch is scanned for from its old base.
ScanBatchFromBase(c) == Scan(c, "next_match_batch", 0, haystack.len, match_base)

\* next_match_batch is handed the IterState: the whole haystack and its scan_offset.
ScanBatch(c) == Scan(c, "next_match_batch", 0, haystack.len, scan_offset)

\* A step of the engine's loop.
ScanStep ==
    /\ Scanning
    /\ UNCHANGED <<haystack, match_bits, pc, n, remaining, ret, entry, last>>
    /\ UNCHANGED <<engine, caller, before>>
    /\ \/ engine = "swar" /\ Swar!Next
       \/ engine = "vector" /\ Vector!Next
       \/ engine = "never" /\ Never!Next

\* The caller c picks up the result.
Scanned(c) ==
    /\ caller = c
    /\ result.done
    /\ caller' = "none"
    /\ slice' = Slice(0, 0)
    /\ op' = "none"
    /\ start' = 0
    /\ offset' = 0
    /\ total' = 0
    /\ result' = Swar!Pending
    /\ before' = None
    /\ UNCHANGED <<plan, haystack, scan_offset, match_base>>

\* A call that needs no scan.
WithoutScan == ~ Scanning /\ UNCHANGED <<plan, scanVars>>
-----------------------------------------------------------------------------
(***************************************************************************)
(* Iter.                                                                   *)
(***************************************************************************)
NextScan ==
    /\ pc = "idle"
    /\ match_bits = {}
    /\ ~ Lazy!Exhausted
    /\ ScanBatch("next")
    /\ UNCHANGED <<match_bits, pc, n, remaining, ret, entry, last>>

NextScanned ==
    /\ Scanned("next")
    /\ LET bits == result.bits IN
         \/ /\ bits = {}
            /\ match_bits' = {}
            /\ ret' = [op |-> "next", val |-> None]
            /\ UNCHANGED last
         \/ /\ bits # {}
            /\ match_bits' = Lazy!Rest(bits)
            /\ ret' = [op |-> "next", val |-> Lazy!Lowest(match_base, bits)]
            /\ Lazy!Yield(Lazy!Lowest(match_base, bits))
    /\ UNCHANGED <<pc, n, remaining, entry>>

CallNext == NextScan \/ (WithoutScan /\ (Lazy!NextHeld \/ Lazy!NextExhausted))

CallNth(k) == WithoutScan /\ Lazy!NthCall(k)

\* The loop of nth drops what is held before it scans.
NthScan ==
    /\ pc = "nth"
    /\ Lazy!SkipsAll
    /\ ~ Lazy!Exhausted
    /\ ScanBatch("nth")
    /\ remaining' = Lazy!StillToSkip
    /\ match_bits' = {}
    /\ UNCHANGED <<pc, n, ret, entry, last>>

NthScanned ==
    /\ Scanned("nth")
    /\ match_bits' = result.bits
    /\ \/ result.bits = {} /\ Lazy!NthReturn(None)
       \/ result.bits # {} /\ UNCHANGED <<pc, n, remaining, entry, ret>>
    /\ UNCHANGED last

NthStep ==
    \/ NthScan
    \/ NthScanned
    \/ WithoutScan /\ (Lazy!NthExhausted \/ Lazy!NthTake)

CallAdvanceTo(idx) == WithoutScan /\ Lazy!AdvanceTo(idx)

\* Fault: the slice that is counted starts at the held batch.
UnscannedFromBase == match_base

\* Where haystack.get_unchecked(scan_offset..) starts.
UnscannedFrom == scan_offset

\* count does not scan an empty slice.
CountHeld ==
    /\ Idle
    /\ UnscannedFrom = haystack.len
    /\ ret' = [op |-> "count", total |-> Cardinality(match_bits)]
    /\ UNCHANGED <<plan, haystack, scan_offset, match_base, match_bits, scanVars>>
    /\ UNCHANGED <<pc, n, remaining, entry, last>>

CountScan ==
    /\ pc = "idle"
    /\ UnscannedFrom < haystack.len
    /\ Scan("count", "count_all", UnscannedFrom, haystack.len, 0)
    /\ UNCHANGED <<match_bits, pc, n, remaining, ret, entry, last>>

CountScanned ==
    /\ Scanned("count")
    /\ ret' = [op |-> "count", total |-> Cardinality(match_bits) + result.total]
    /\ UNCHANGED <<match_bits, pc, n, remaining, entry, last>>

CallCount == CountHeld \/ CountScan

CallSizeHint == WithoutScan /\ Lazy!SizeHint
-----------------------------------------------------------------------------
(***************************************************************************)
(* find and rfind on a slice; an offset is relative to it.                 *)
(***************************************************************************)
CallFind(from, to) ==
    /\ pc = "idle"
    /\ Scan("find", "first_match", from, to, 0)
    /\ UNCHANGED <<match_bits, pc, n, remaining, ret, entry, last>>

CallRfind(from, to) ==
    /\ pc = "idle"
    /\ Scan("rfind", "last_match", from, to, 0)
    /\ UNCHANGED <<match_bits, pc, n, remaining, ret, entry, last>>

Found(c) ==
    /\ Scanned(c)
    /\ ret' = [op |-> c, val |-> result.index]
    /\ UNCHANGED <<match_bits, pc, n, remaining, entry, last>>

\* What runs on by itself once a function has been called.
Running ==
    \/ ScanStep
    \/ NextScanned \/ NthStep \/ CountScanned
    \/ Found("find") \/ Found("rfind")
-----------------------------------------------------------------------------
(***************************************************************************)
(* Properties.                                                             *)
(***************************************************************************)

\* SearchPlan's assert_uncheckeds and debug_asserts, and what they stand for: on
\* every slice a caller makes, and from every offset it left in the IterState, each
\* engine keeps the contract of ScanOps.
PlanKeepsContract == Scanning => Swar!MeetsContract

\* The composition is an Iter: with the loops in place of the contract every call
\* is still one that module Iter allows.  A scan is one step of it, taken when its
\* result is picked up; until then Iter is as it was when the scan was called.
Composed ==
    INSTANCE Iter WITH
        scan_offset <- IF Scanning THEN before.scan_offset ELSE scan_offset,
        match_base <- IF Scanning THEN before.match_base ELSE match_base,
        match_bits <- IF Scanning THEN before.match_bits ELSE match_bits,
        remaining <- IF Scanning THEN before.remaining ELSE remaining

IterSpec == Composed!Spec

\* Every call returns: a loop of the engine and the loop of nth around it end.
CallsReturn == ~ Idle ~> Idle
=============================================================================
