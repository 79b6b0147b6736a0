-------------------------------- MODULE Iter --------------------------------
(***************************************************************************)
(* Iter and IterState of lib.rs: the lazy iterator over the matches of a   *)
(* haystack.  It holds one batch of matches as a bitset relative to        *)
(* match_base, covering match_base .. scan_offset - 1, and asks the scan   *)
(* routine for the next batch when the bitset is empty.  The scan routine  *)
(* is any one that keeps the contract of module ScanOps: which bytes a     *)
(* batch covers is its choice.                                             *)
(*                                                                         *)
(* next, advance_to, count and size_hint are one action each: they make at *)
(* most one scan.  nth loops over batches, one iteration per step.         *)
(***************************************************************************)
EXTENDS ScanOps, BitSets

CONSTANTS
    Haystacks,  \* the haystacks an iterator may be made for
    Indices,    \* the arguments of advance_to
    Steps       \* the arguments of nth

ASSUME HaystacksAssumption == \A h \in Haystacks : IsHaystack(h)

ASSUME ArgumentsAssumption == Indices \subseteq Nat /\ Steps \subseteq Nat

VARIABLES
    haystack,       \* IterState.haystack: never changes
    scan_offset,    \* IterState.scan_offset
    match_base,     \* IterState.match_base
    match_bits,     \* Iter.match_bits
    pc,             \* "idle" between calls, "nth" inside nth's loop
    n, remaining,   \* nth's parameter and its local counter
    ret,            \* the last completed call and its result
    entry,          \* history: the matches ahead when nth was called
    last            \* history: the highest offset yielded so far, or -1

window == <<scan_offset, match_base, match_bits>>

nthVars == <<pc, n, remaining, entry>>

vars == <<haystack, window, nthVars, ret, last>>

\* The matches not yet yielded: those held, and those not yet scanned.
Ahead ==
    {match_base + b : b \in match_bits}
        \cup MatchesIn(haystack, scan_offset, haystack.len)

Init ==
    /\ haystack \in Haystacks
    /\ scan_offset = 0
    /\ match_base = 0
    /\ match_bits = {}
    /\ pc = "idle"
    /\ n = 0
    /\ remaining = 0
    /\ ret = [op |-> "iter"]
    /\ entry = {}
    /\ last = -1
-----------------------------------------------------------------------------
(***************************************************************************)
(* refill and take_lowest, the private helpers of next and nth.            *)
(***************************************************************************)

\* refill returns None without scanning.
Exhausted == scan_offset = haystack.len

\* Fault: refill leaves match_base where it was.
RefillStaleBase(base, scan, bits) ==
    /\ ~ Exhausted
    /\ scan_offset' = scan
    /\ match_base' = match_base
    /\ BatchContract(haystack, scan_offset, base, scan, bits)

\* refill scans and comes back with a batch over base .. scan - 1.
Refill(base, scan, bits) ==
    /\ ~ Exhausted
    /\ scan_offset' = scan
    /\ match_base' = base
    /\ BatchContract(haystack, scan_offset, base, scan, bits)

\* Fault: take_lowest does not clear the bit it returns.
RestUncleared(bits) == bits

\* take_lowest from a nonzero bits: what is left, and the offset it returns.
Rest(bits) == bits \ {Min(bits)}

Lowest(base, bits) == base + Min(bits)

Yield(v) == last' = IF v > last THEN v ELSE last
-----------------------------------------------------------------------------
\* next with a match in hand.
NextHeld ==
    /\ pc = "idle"
    /\ match_bits # {}
    /\ match_bits' = Rest(match_bits)
    /\ ret' = [op |-> "next", val |-> Lowest(match_base, match_bits)]
    /\ Yield(Lowest(match_base, match_bits))
    /\ UNCHANGED <<haystack, scan_offset, match_base, nthVars>>

\* next after the end has been scanned.
NextExhausted ==
    /\ pc = "idle"
    /\ match_bits = {}
    /\ Exhausted
    /\ ret' = [op |-> "next", val |-> None]
    /\ UNCHANGED <<haystack, window, nthVars, last>>

\* next that has to scan.
NextRefill ==
    /\ pc = "idle"
    /\ match_bits = {}
    /\ \E base, scan \in scan_offset .. haystack.len :
         LET bits == BatchOf(haystack, base, scan) IN
           /\ Refill(base, scan, bits)
           /\ \/ /\ bits = {}
                 /\ match_bits' = {}
                 /\ ret' = [op |-> "next", val |-> None]
                 /\ UNCHANGED last
              \/ /\ bits # {}
                 /\ match_bits' = Rest(bits)
                 /\ ret' = [op |-> "next", val |-> Lowest(base, bits)]
                 /\ Yield(Lowest(base, bits))
    /\ UNCHANGED <<haystack, nthVars>>

IterNext == NextHeld \/ NextExhausted \/ NextRefill
-----------------------------------------------------------------------------
\* nth is entered.
NthCall(k) ==
    /\ pc = "idle"
    /\ pc' = "nth"
    /\ n' = k
    /\ remaining' = k
    /\ entry' = Ahead
    /\ UNCHANGED <<haystack, window, ret, last>>

NthReturn(v) ==
    /\ pc' = "idle"
    /\ ret' = [op |-> "nth", arg |-> n, val |-> v]
    /\ n' = 0
    /\ remaining' = 0
    /\ entry' = {}

\* The loop's count_ones.
held == Cardinality(match_bits)

\* The loop's exit test fails: what is held is skipped whole.
SkipsAll == held <= remaining

\* Fault: the counter is not decremented.
StillToSkipStale == remaining

\* remaining -= held
StillToSkip == remaining - held

\* Fault: the loop ignores the None of refill and goes round again.
NthExhaustedSpins ==
    /\ pc = "nth"
    /\ SkipsAll
    /\ Exhausted
    /\ match_bits' = {}
    /\ UNCHANGED <<haystack, scan_offset, match_base, nthVars, ret, last>>

\* The skipped batch was the last.
NthExhausted ==
    /\ pc = "nth"
    /\ SkipsAll
    /\ Exhausted
    /\ match_bits' = {}
    /\ NthReturn(None)
    /\ UNCHANGED <<haystack, scan_offset, match_base, last>>

\* The held batch is skipped and the next one scanned.
NthSkip ==
    /\ pc = "nth"
    /\ SkipsAll
    /\ \E base, scan \in scan_offset .. haystack.len :
         LET bits == BatchOf(haystack, base, scan) IN
           /\ Refill(base, scan, bits)
           /\ match_bits' = bits
           /\ \/ /\ bits = {}
                 /\ NthReturn(None)
              \/ /\ bits # {}
                 /\ remaining' = StillToSkip
                 /\ UNCHANGED <<pc, n, entry, ret>>
    /\ UNCHANGED <<haystack, last>>

\* The match to return is in hand.
NthTake ==
    /\ pc = "nth"
    /\ ~ SkipsAll
    /\ LET bits == DropLowest(match_bits, remaining) IN
         /\ match_bits' = Rest(bits)
         /\ NthReturn(Lowest(match_base, bits))
         /\ Yield(Lowest(match_base, bits))
    /\ UNCHANGED <<haystack, scan_offset, match_base>>

NthStep == NthExhausted \/ NthSkip \/ NthTake
-----------------------------------------------------------------------------
\* Fault: an index inside the batch is taken for one beyond it.
BeyondBatchLoose(idx) == idx >= match_base

\* The index lies at or beyond the end of what has been scanned.
BeyondBatch(idx) == idx >= scan_offset

\* Fault: the index is not clamped to the haystack.
ClampedRaw(idx) == idx

\* idx.min(haystack.len())
Clamped(idx) == Min({idx, haystack.len})

\* Fault: the match at idx itself is dropped.
KeptFromPast(idx) == HighMask(idx - match_base + 1, Bits)

\* MatchedBitset::MAX << (idx - match_base)
KeptFrom(idx) == HighMask(idx - match_base, Bits)

\* advance_to beyond the batch drops it and moves the scan; inside it, masks it.
AdvanceTo(idx) ==
    /\ pc = "idle"
    /\ \/ /\ BeyondBatch(idx)
          /\ match_bits' = {}
          /\ scan_offset' = Clamped(idx)
          /\ match_base' = scan_offset'
       \/ /\ ~ BeyondBatch(idx)
          /\ idx > match_base
          /\ match_bits' = match_bits \cap KeptFrom(idx)
          /\ UNCHANGED <<scan_offset, match_base>>
       \/ /\ ~ BeyondBatch(idx)
          /\ idx <= match_base
          /\ UNCHANGED window
    /\ ret' = [op |-> "advance_to", idx |-> idx]
    /\ UNCHANGED <<haystack, nthVars, last>>

\* count consumes a clone: the bits held and a count_all of what is unscanned.
Count ==
    /\ pc = "idle"
    /\ \E unscanned \in 0 .. haystack.len :
         /\ CountContract(haystack, scan_offset, unscanned)
         /\ ret' = [op |-> "count", total |-> Cardinality(match_bits) + unscanned]
    /\ UNCHANGED <<haystack, window, nthVars, last>>

SizeHint ==
    /\ pc = "idle"
    /\ LET min == Cardinality(match_bits) IN
         ret' = [op |-> "size_hint", lo |-> min, hi |-> min + (haystack.len - scan_offset)]
    /\ UNCHANGED <<haystack, window, nthVars, last>>

Next ==
    \/ IterNext
    \/ \E k \in Steps : NthCall(k)
    \/ NthStep
    \/ \E idx \in Indices : AdvanceTo(idx)
    \/ Count
    \/ SizeHint

Spec == Init /\ [][Next]_vars

\* A call of nth runs on, as a call does on a thread that is scheduled.
FairSpec == Spec /\ WF_vars(NthStep)
-----------------------------------------------------------------------------
(***************************************************************************)
(* Properties.                                                             *)
(***************************************************************************)

\* Type correctness, including that a held bit is a bit of a MatchedBitset.
TypeOK ==
    /\ haystack \in Haystacks
    /\ scan_offset \in Nat
    /\ match_base \in Nat
    /\ match_bits \subseteq 0 .. Bits - 1
    /\ pc \in {"idle", "nth"}
    /\ n \in Nat
    /\ remaining \in Nat
    /\ entry \subseteq haystack.matches
    /\ last \in Int

\* What the unsafe code takes for granted: get_unchecked(scan_offset..) in count
\* and in every scan, and the doc of IterState that any offset of the batch is
\* reachable as a shift of the bitset (the shift in advance_to is below Bits).
WindowInBounds ==
    /\ match_base <= scan_offset
    /\ scan_offset <= haystack.len
    /\ scan_offset - match_base <= Bits

\* The held bits are the batch's matches from some point on: no bit is invented,
\* so take_lowest's assert_unchecked(res < len) is sound, and no match between
\* two held ones, or after them in the batch, is lost to masking or clearing.
HeldBatch == UpperPart(match_bits, BatchOf(haystack, match_base, scan_offset))

\* No offset is yielded twice and offsets are yielded in increasing order:
\* whatever is held or still to be scanned lies beyond the last offset yielded,
\* whichever calls of next, nth and advance_to came in between.
BeyondLast ==
    /\ last < scan_offset
    /\ \A b \in match_bits : last < match_base + b

\* nth's loop invariant: the matches it has discarded since it was entered are
\* the lowest ones, and with those it has yet to skip they number n.
NthAccounting ==
    pc = "nth" =>
      /\ UpperPart(Ahead, entry)
      /\ Cardinality(entry \ Ahead) + remaining = n

\* advance_to's doc: "An index at or before the last yielded offset has no
\* effect, and advancing never rewinds the iterator."
AdvanceNeverRewinds ==
    [][\A idx \in Indices :
          AdvanceTo(idx) => /\ idx <= last => UNCHANGED window
                            /\ scan_offset <= scan_offset'
                            /\ Ahead' \subseteq Ahead]_vars

\* The iterator is a cursor over the matches: every call does to Ahead, and
\* returns, what MatchCursor says, for next, nth, advance_to, count and size_hint.
Cursor == INSTANCE MatchCursor WITH ahead <- IF pc = "nth" THEN entry ELSE Ahead

CursorSpec == Cursor!Spec

\* A call of nth returns: each iteration of its loop that scans makes progress.
NthReturns == pc = "nth" ~> pc = "idle"
=============================================================================
