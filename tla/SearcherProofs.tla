--------------------------- MODULE SearcherProofs ---------------------------
(***************************************************************************)
(* Proofs about module Searcher, and about the two fuzz targets that drive *)
(* it.                                                                     *)
(*                                                                         *)
(* A routine that was called on a slice keeps the loops' invariant there,  *)
(* so that it returns what its contract says; with that, the step in which *)
(* Iter picks the result up is one of module Iter, whose own invariant the *)
(* iterator therefore keeps.  What a call answers is then settled when it  *)
(* is made: it depends only on what is ahead of the iterator, or on the    *)
(* slice, and the targets' references have the same there.                 *)
(***************************************************************************)
EXTENDS FuzzOperations, FuzzAgreement, BitSetLemmas

\* An engine with no native vectors is given the width of a block.
Widths == NativeWidths \cup {BlockBytes}

\* The proofs about the engines, on the slice handed over, and about the iterator.
Words == INSTANCE SwarScanProofs WITH haystack <- slice, NativeWidths <- Widths

Vectors == INSTANCE VectorScanProofs WITH haystack <- slice, NativeWidths <- Widths

Iterator ==
    INSTANCE IterProofs WITH
        scan_offset <- IF Scanning THEN before.scan_offset ELSE scan_offset,
        match_base <- IF Scanning THEN before.match_base ELSE match_base,
        match_bits <- IF Scanning THEN before.match_bits ELSE match_bits,
        remaining <- IF Scanning THEN before.remaining ELSE remaining

(***************************************************************************)
(* A call of a scan routine is what its caller made it.                    *)
(***************************************************************************)

\* The iterator is as it was when the routine was called.
LeftAlone ==
    /\ before.scan_offset = scan_offset
    /\ before.match_base = match_base
    /\ before.match_bits = match_bits
    /\ before.remaining = remaining

BatchCalled ==
    /\ op = "next_match_batch"
    /\ slice = haystack
    /\ start = before.scan_offset
    /\ start # haystack.len

NextCalled ==
    /\ BatchCalled
    /\ pc = "idle"
    /\ before.match_bits = {}
    /\ before.remaining = remaining

NthCalled ==
    /\ BatchCalled
    /\ pc = "nth"
    /\ Cardinality(before.match_bits) <= before.remaining
    /\ remaining = before.remaining - Cardinality(before.match_bits)

CountCalled ==
    /\ op = "count_all"
    /\ slice = Slice(scan_offset, haystack.len)
    /\ pc = "idle"
    /\ LeftAlone

FindCalled ==
    /\ op = IF caller = "find" THEN "first_match" ELSE "last_match"
    /\ pc = "idle"
    /\ LeftAlone

CallInv ==
    /\ caller \in {"none", "next", "nth", "count", "find", "rfind"}
    /\ match_base \in Nat /\ scan_offset \in Nat
    /\ Scanning => Vectors!ScanInv
    /\ caller = "next" => NextCalled
    /\ caller = "nth" => NthCalled
    /\ caller = "count" => CountCalled
    /\ caller \in {"find", "rfind"} => FindCalled

PlanInv ==
    /\ native_width \in Widths
    /\ engine = "never" => haystack.matches = {} /\ (Scanning => slice.matches = {})

SearcherInv ==
    /\ PlanInv
    /\ CallInv
    /\ Iterator!IInv
    /\ Iterator!NthArgument
-----------------------------------------------------------------------------
(***************************************************************************)
(* The loops' invariant was proved of an engine on its own.  On a slice it *)
(* is the same one, and a step of an engine here is a step of it there.    *)
(***************************************************************************)

\* What modules SwarScan, VectorScan and Iter assume of their constants.
LEMMA Premises ==
    /\ Bits \in Nat \ {0} /\ None \notin Nat
    /\ \A h \in Haystacks : Words!IsHaystack(h) /\ Vectors!IsHaystack(h) /\ Iterator!IsHaystack(h)
    /\ Indices \subseteq Nat /\ Steps \subseteq Nat
    /\ Bits >= 2 * Words!WordBytes
    /\ BlockBytes \in 2 .. 16
    /\ Widths \subseteq {BlockBytes, 2 * BlockBytes, Vectors!ChunkBytes}
    /\ Bits >= 2 * Vectors!ChunkBytes
<1>1. \A h \in Haystacks : Words!IsHaystack(h) /\ Vectors!IsHaystack(h) /\ Iterator!IsHaystack(h)
  BY HaystacksAssumption DEF IsHaystack, Words!IsHaystack, Vectors!IsHaystack, Iterator!IsHaystack
<1>2. Bits \in Nat /\ BlockBytes \in Nat
  BY BitsAssumption, WidthAssumption
<1>3. Bits >= 2 * Words!WordBytes
  BY WidthAssumption DEF Words!WordBytes
<1>4. Vectors!ChunkBytes = 4 * BlockBytes
  BY DEF Vectors!ChunkBytes
<1>5. Bits >= 2 * Vectors!ChunkBytes
  BY <1>2, <1>4, WidthAssumption
<1>6. Widths \subseteq {BlockBytes, 2 * BlockBytes, Vectors!ChunkBytes}
  BY <1>4, WidthAssumption DEF Widths
<1> QED BY <1>1, <1>3, <1>5, <1>6, BitsAssumption, NoneAssumption, ArgumentsAssumption,
           WidthAssumption

\* The two engines have one invariant.
LEMMA SameScanInv == Words!ScanInv <=> Vectors!ScanInv
BY DEF Words!ScanInv, Vectors!ScanInv, Words!CallTypeOK, Vectors!CallTypeOK, Words!PassedIsClear,
       Vectors!PassedIsClear, Words!MeetsContract, Vectors!MeetsContract, Words!IsHaystack,
       Vectors!IsHaystack, Words!Ops, Vectors!Ops, Words!Pending, Vectors!Pending, Words!MatchesIn,
       Vectors!MatchesIn, Words!BatchOf, Vectors!BatchOf, Words!BatchContract,
       Vectors!BatchContract, Words!CountContract, Vectors!CountContract, Words!FirstContract,
       Vectors!FirstContract, Words!LastContract, Vectors!LastContract, Words!Cardinality,
       Vectors!Cardinality

LEMMA SameScanInvNext == (Words!ScanInv)' <=> (Vectors!ScanInv)'
BY SameScanInv, PTL

\* A step of the word engine.
LEMMA SwarIsWords == Swar!Next => Words!Next
<1> SUFFICES ASSUME Swar!Next PROVE Words!Next
  OBVIOUS
<1> USE DEF Swar!WordBytes, Words!WordBytes, Swar!Word, Words!Word, Swar!Pair, Words!Pair,
          Swar!Running, Words!Running, Swar!Unscanned, Words!Unscanned, Swar!Return, Words!Return,
          Swar!ReturnBits, Words!ReturnBits, Swar!ReturnIndex, Words!ReturnIndex, Swar!ReturnTotal,
          Words!ReturnTotal, Swar!MoveTo, Words!MoveTo, Swar!Continue, Words!Continue,
          Swar!ReturnBatch, Words!ReturnBatch, Swar!ReturnTail, Words!ReturnTail, Swar!Lanes,
          Words!Lanes, Swar!PairLanes, Words!PairLanes, Swar!StagedLen, Words!StagedLen,
          Swar!Staged, Words!Staged, Swar!SlideEnds, Words!SlideEnds, Swar!ShortTailBits,
          Words!ShortTailBits, Swar!TailBits, Words!TailBits, Swar!UnscannedBits,
          Words!UnscannedBits, Swar!FirstOf, Words!FirstOf, Swar!LastOf, Words!LastOf, Swar!Pending,
          Words!Pending, Swar!inputs, Words!inputs, Swar!batch, Words!batch, Swar!Shl, Words!Shl,
          Swar!Shr, Words!Shr, Swar!LowMask, Words!LowMask, Swar!Min, Words!Min, Swar!Max,
          Words!Max, Swar!Cardinality, Words!Cardinality
<1>1. CASE Swar!BatchPair
  BY <1>1 DEF Swar!BatchPair, Words!BatchPair, Words!Next
<1>2. CASE Swar!BatchWord
  BY <1>2 DEF Swar!BatchWord, Words!BatchWord, Words!Next
<1>3. CASE Swar!BatchTail
  BY <1>3 DEF Swar!BatchTail, Words!BatchTail, Words!Next
<1>4. CASE Swar!FirstShort
  BY <1>4 DEF Swar!FirstShort, Words!FirstShort, Words!Next
<1>5. CASE Swar!FirstPair
  BY <1>5 DEF Swar!FirstPair, Words!FirstPair, Words!Next
<1>6. CASE Swar!FirstWord
  BY <1>6 DEF Swar!FirstWord, Words!FirstWord, Words!Next
<1>7. CASE Swar!FirstTail
  BY <1>7 DEF Swar!FirstTail, Words!FirstTail, Words!Next
<1>8. CASE Swar!LastShort
  BY <1>8 DEF Swar!LastShort, Words!LastShort, Words!Next
<1>9. CASE Swar!LastPair
  BY <1>9 DEF Swar!LastPair, Words!LastPair, Words!Next
<1>10. CASE Swar!LastWord
  BY <1>10 DEF Swar!LastWord, Words!LastWord, Words!Next
<1>11. CASE Swar!LastPrefix
  BY <1>11 DEF Swar!LastPrefix, Words!LastPrefix, Words!Next
<1>12. CASE Swar!CountWord
  BY <1>12 DEF Swar!CountWord, Words!CountWord, Words!Next
<1>13. CASE Swar!CountTail
  BY <1>13 DEF Swar!CountTail, Words!CountTail, Words!Next
<1>14. CASE Swar!Returned
  BY <1>14 DEF Swar!Returned, Words!Returned, Swar!vars, Words!vars, Words!Next
<1> QED BY <1>1, <1>2, <1>3, <1>4, <1>5, <1>6, <1>7, <1>8, <1>9, <1>10, <1>11, <1>12, <1>13,
           <1>14 DEF Swar!Next

\* It keeps the invariant.
LEMMA SwarKeeps == Vectors!ScanInv /\ Swar!Next => Vectors!ScanInv'
<1>1. Words!ScanInv /\ [Words!Next]_(Words!vars) => Words!ScanInv'
  BY Premises, Words!NextScanInv
<1> QED BY <1>1, SameScanInv, SameScanInvNext, SwarIsWords

\* A step of the vector engine.
LEMMA VectorIsVectors == Vector!Next => Vectors!Next
<1> SUFFICES ASSUME Vector!Next PROVE Vectors!Next
  OBVIOUS
<1> USE DEF Vector!ChunkBytes, Vectors!ChunkBytes, Vector!ProbeBytes, Vectors!ProbeBytes,
          Vector!Chunk, Vectors!Chunk, Vector!Block, Vectors!Block, Vector!Native, Vectors!Native,
          Vector!Pair, Vectors!Pair, Vector!FirstIn, Vectors!FirstIn, Vector!FinalLanes,
          Vectors!FinalLanes, Vector!FirstOfEnds, Vectors!FirstOfEnds, Vector!LastIn,
          Vectors!LastIn, Vector!LastOfEnds, Vectors!LastOfEnds, Vector!CountUnits,
          Vectors!CountUnits, Vector!Running, Vectors!Running, Vector!Unscanned, Vectors!Unscanned,
          Vector!Return, Vectors!Return, Vector!ReturnBits, Vectors!ReturnBits, Vector!ReturnIndex,
          Vectors!ReturnIndex, Vector!ReturnTotal, Vectors!ReturnTotal, Vector!MoveTo,
          Vectors!MoveTo, Vector!Continue, Vectors!Continue, Vector!ReturnBatch,
          Vectors!ReturnBatch, Vector!ReturnTail, Vectors!ReturnTail, Vector!Lanes, Vectors!Lanes,
          Vector!PairLanes, Vectors!PairLanes, Vector!StagedLen, Vectors!StagedLen, Vector!Staged,
          Vectors!Staged, Vector!SlideEnds, Vectors!SlideEnds, Vector!ShortTailBits,
          Vectors!ShortTailBits, Vector!TailBits, Vectors!TailBits, Vector!UnscannedBits,
          Vectors!UnscannedBits, Vector!FirstOf, Vectors!FirstOf, Vector!LastOf, Vectors!LastOf,
          Vector!Pending, Vectors!Pending, Vector!inputs, Vectors!inputs, Vector!batch,
          Vectors!batch, Vector!Shl, Vectors!Shl, Vector!Shr, Vectors!Shr, Vector!LowMask,
          Vectors!LowMask, Vector!Min, Vectors!Min, Vector!Max, Vectors!Max, Vector!Cardinality,
          Vectors!Cardinality
<1>1. CASE Vector!BatchPair
  BY <1>1 DEF Vector!BatchPair, Vectors!BatchPair, Vectors!Next
<1>2. CASE Vector!BatchChunk
  BY <1>2 DEF Vector!BatchChunk, Vectors!BatchChunk, Vectors!Next
<1>3. CASE Vector!BatchBlock
  BY <1>3 DEF Vector!BatchBlock, Vectors!BatchBlock, Vectors!Next
<1>4. CASE Vector!BatchTail
  BY <1>4 DEF Vector!BatchTail, Vectors!BatchTail, Vectors!Next
<1>5. CASE Vector!FirstChunk
  BY <1>5 DEF Vector!FirstChunk, Vectors!FirstChunk, Vectors!Next
<1>6. CASE Vector!FirstPair
  BY <1>6 DEF Vector!FirstPair, Vectors!FirstPair, Vectors!Next
<1>7. CASE Vector!FirstLastChunk
  BY <1>7 DEF Vector!FirstLastChunk, Vectors!FirstLastChunk, Vectors!Next
<1>8. CASE Vector!FirstNative
  BY <1>8 DEF Vector!FirstNative, Vectors!FirstNative, Vectors!Next
<1>9. CASE Vector!FirstFinal
  BY <1>9 DEF Vector!FirstFinal, Vectors!FirstFinal, Vectors!Next
<1>10. CASE Vector!FirstShortVectors
  BY <1>10 DEF Vector!FirstShortVectors, Vectors!FirstShortVectors, Vectors!Next
<1>11. CASE Vector!FirstShortStaged
  BY <1>11 DEF Vector!FirstShortStaged, Vectors!FirstShortStaged, Vectors!Next
<1>12. CASE Vector!LastChunk
  BY <1>12 DEF Vector!LastChunk, Vectors!LastChunk, Vectors!Next
<1>13. CASE Vector!LastPair
  BY <1>13 DEF Vector!LastPair, Vectors!LastPair, Vectors!Next
<1>14. CASE Vector!LastFirstChunk
  BY <1>14 DEF Vector!LastFirstChunk, Vectors!LastFirstChunk, Vectors!Next
<1>15. CASE Vector!LastNative
  BY <1>15 DEF Vector!LastNative, Vectors!LastNative, Vectors!Next
<1>16. CASE Vector!LastFinal
  BY <1>16 DEF Vector!LastFinal, Vectors!LastFinal, Vectors!Next
<1>17. CASE Vector!LastShortVectors
  BY <1>17 DEF Vector!LastShortVectors, Vectors!LastShortVectors, Vectors!Next
<1>18. CASE Vector!LastShortStaged
  BY <1>18 DEF Vector!LastShortStaged, Vectors!LastShortStaged, Vectors!Next
<1>19. CASE Vector!CountChunk
  BY <1>19 DEF Vector!CountChunk, Vectors!CountChunk, Vectors!Next
<1>20. CASE Vector!CountBlock
  BY <1>20 DEF Vector!CountBlock, Vectors!CountBlock, Vectors!Next
<1>21. CASE Vector!CountTail
  BY <1>21 DEF Vector!CountTail, Vectors!CountTail, Vectors!Next
<1>22. CASE Vector!Returned
  BY <1>22 DEF Vector!Returned, Vectors!Returned, Vector!vars, Vectors!vars, Vectors!Next
<1> QED BY <1>1, <1>2, <1>3, <1>4, <1>5, <1>6, <1>7, <1>8, <1>9, <1>10, <1>11, <1>12, <1>13,
           <1>14, <1>15, <1>16, <1>17, <1>18, <1>19, <1>20, <1>21, <1>22 DEF Vector!Next

\* It keeps the invariant.
LEMMA VectorKeeps == Vectors!ScanInv /\ Vector!Next => Vectors!ScanInv'
<1>1. Vectors!ScanInv /\ [Vectors!Next]_(Vectors!vars) => Vectors!ScanInv'
  BY Premises, Vectors!NextScanInv
<1> QED BY <1>1, VectorIsVectors

\* A routine of the plan that never matches is right of a slice without a match.
LEMMA NeverKeeps ==
    ASSUME Vectors!ScanInv, slice.matches = {}, Never!Next PROVE Vectors!ScanInv'
<1>1. /\ Vectors!CallTypeOK
      /\ slice.len \in Nat /\ start \in Nat /\ start <= slice.len
  BY DEF Vectors!ScanInv, Vectors!CallTypeOK, Vectors!IsHaystack
<1>2. /\ UNCHANGED <<slice, zero, op, native_width, start, offset, total>>
      /\ result'.done = TRUE
  BY DEF Never!Next, Never!NeverBatch, Never!NeverMatch, Never!CountZero, Never!Running,
     Never!Return,
       Never!ReturnBits, Never!ReturnIndex, Never!ReturnTotal, Never!inputs, Never!batch
<1>3. Vectors!CallTypeOK'
  BY <1>1, <1>2 DEF Vectors!CallTypeOK
<1>4. Vectors!PassedIsClear'
  BY <1>2 DEF Vectors!PassedIsClear, Vectors!Pending
<1>5. \A lo, hi : Vectors!MatchesIn(slice, lo, hi) = {} /\ Vectors!BatchOf(slice, lo, hi) = {}
  BY DEF Vectors!MatchesIn, Vectors!BatchOf
<1>6. Vectors!Cardinality({}) = 0
  BY FS_EmptySet DEF Vectors!Cardinality, Cardinality
<1>7. CASE Never!NeverBatch
  <2>1. /\ op = "next_match_batch" /\ result'.bits = {}
        /\ scan_offset' = slice.len /\ match_base' = slice.len
    BY <1>7 DEF Never!NeverBatch, Never!Running, Never!ReturnBits, Never!Return
  <2>2. Vectors!BatchContract(slice, start, slice.len, slice.len, {})
    BY <1>1, <1>5, BitsAssumption DEF Vectors!BatchContract
  <2>3. Vectors!MeetsContract'
    BY <1>2, <2>1, <2>2 DEF Vectors!MeetsContract
  <2> QED BY <1>3, <1>4, <2>3 DEF Vectors!ScanInv
<1>8. CASE Never!NeverMatch
  <2>1. op \in {"first_match", "last_match"} /\ result'.index = None
    BY <1>8 DEF Never!NeverMatch, Never!Running, Never!ReturnIndex, Never!Return
  <2>2. Vectors!MeetsContract'
    BY <1>2, <2>1 DEF Vectors!MeetsContract, Vectors!FirstContract, Vectors!LastContract
  <2> QED BY <1>3, <1>4, <2>2 DEF Vectors!ScanInv
<1>9. CASE Never!CountZero
  <2>1. op = "count_all" /\ result'.total = 0
    BY <1>9 DEF Never!CountZero, Never!Running, Never!ReturnTotal, Never!Return
  <2>2. Vectors!MeetsContract'
    BY <1>2, <1>5, <1>6, <2>1 DEF Vectors!MeetsContract, Vectors!CountContract
  <2> QED BY <1>3, <1>4, <2>2 DEF Vectors!ScanInv
<1> QED BY <1>7, <1>8, <1>9 DEF Never!Next

\* An engine does not touch what it was called with, and the IterState only for a batch.
LEMMA EngineLeaves ==
    ASSUME Swar!Next \/ Vector!Next \/ Never!Next
    PROVE  /\ UNCHANGED <<slice, zero, op, native_width, start>>
           /\ op # "next_match_batch" => UNCHANGED <<match_base, scan_offset>>
<1>1. CASE Swar!Next
  BY <1>1 DEF Swar!Next, Swar!BatchPair, Swar!BatchWord, Swar!BatchTail, Swar!FirstShort,
     Swar!FirstPair,
       Swar!FirstWord, Swar!FirstTail, Swar!LastShort, Swar!LastPair, Swar!LastWord,
       Swar!LastPrefix, Swar!CountWord, Swar!CountTail, Swar!Running, Swar!Return, Swar!ReturnBits,
       Swar!ReturnIndex, Swar!ReturnTotal, Swar!MoveTo, Swar!Continue, Swar!ReturnBatch,
       Swar!ReturnTail, Swar!Returned, Swar!inputs, Swar!batch, Swar!vars
<1>2. CASE Vector!Next
  BY <1>2 DEF Vector!Next, Vector!BatchPair, Vector!BatchChunk, Vector!BatchBlock, Vector!BatchTail,
       Vector!FirstChunk, Vector!FirstPair, Vector!FirstLastChunk, Vector!FirstNative,
       Vector!FirstFinal, Vector!FirstShortVectors, Vector!FirstShortStaged, Vector!LastChunk,
       Vector!LastPair, Vector!LastFirstChunk, Vector!LastNative, Vector!LastFinal,
       Vector!LastShortVectors, Vector!LastShortStaged, Vector!CountChunk, Vector!CountBlock,
       Vector!CountTail, Vector!FirstIn, Vector!LastIn, Vector!CountUnits, Vector!Running,
       Vector!Return, Vector!ReturnBits, Vector!ReturnIndex, Vector!ReturnTotal, Vector!MoveTo,
       Vector!Continue, Vector!ReturnBatch, Vector!ReturnTail, Vector!Returned, Vector!inputs,
       Vector!batch, Vector!vars
<1>3. CASE Never!Next
  BY <1>3 DEF Never!Next, Never!NeverBatch, Never!NeverMatch, Never!CountZero, Never!Running,
     Never!Return,
       Never!ReturnBits, Never!ReturnIndex, Never!ReturnTotal, Never!inputs, Never!batch
<1> QED BY <1>1, <1>2, <1>3

\* What an engine leaves in the IterState are offsets.
LEMMA EngineOffsets ==
    ASSUME Vectors!ScanInv, Swar!Next \/ Vector!Next \/ Never!Next,
           match_base \in Nat, scan_offset \in Nat
    PROVE  match_base' \in Nat /\ scan_offset' \in Nat
<1>1. slice.len \in Nat /\ offset \in Nat
  BY DEF Vectors!ScanInv, Vectors!CallTypeOK, Vectors!IsHaystack
<1>2. BlockBytes \in Nat
  BY WidthAssumption
<1>3. CASE Swar!Next
  BY <1>1, <1>3 DEF Swar!Next, Swar!BatchPair, Swar!BatchWord, Swar!BatchTail, Swar!FirstShort,
     Swar!FirstPair,
       Swar!FirstWord, Swar!FirstTail, Swar!LastShort, Swar!LastPair, Swar!LastWord,
       Swar!LastPrefix, Swar!CountWord, Swar!CountTail, Swar!WordBytes, Swar!Running, Swar!Return,
       Swar!ReturnBits, Swar!ReturnIndex, Swar!ReturnTotal, Swar!MoveTo, Swar!Continue,
       Swar!ReturnBatch, Swar!ReturnTail, Swar!Returned, Swar!inputs, Swar!batch, Swar!vars,
       Swar!Unscanned
<1>4. CASE Vector!Next
  BY <1>1, <1>2, <1>4 DEF Vector!Next, Vector!BatchPair, Vector!BatchChunk, Vector!BatchBlock,
     Vector!BatchTail,
       Vector!FirstChunk, Vector!FirstPair, Vector!FirstLastChunk, Vector!FirstNative,
       Vector!FirstFinal, Vector!FirstShortVectors, Vector!FirstShortStaged, Vector!LastChunk,
       Vector!LastPair, Vector!LastFirstChunk, Vector!LastNative, Vector!LastFinal,
       Vector!LastShortVectors, Vector!LastShortStaged, Vector!CountChunk, Vector!CountBlock,
       Vector!CountTail, Vector!FirstIn, Vector!LastIn, Vector!CountUnits, Vector!ChunkBytes,
       Vector!Running, Vector!Return, Vector!ReturnBits, Vector!ReturnIndex, Vector!ReturnTotal,
       Vector!MoveTo, Vector!Continue, Vector!ReturnBatch, Vector!ReturnTail, Vector!Returned,
       Vector!inputs, Vector!batch, Vector!vars, Vector!Unscanned
<1>5. CASE Never!Next
  BY <1>1, <1>5 DEF Never!Next, Never!NeverBatch, Never!NeverMatch, Never!CountZero,
     Never!Running, Never!Return,
       Never!ReturnBits, Never!ReturnIndex, Never!ReturnTotal, Never!inputs, Never!batch
<1> QED BY <1>3, <1>4, <1>5
-----------------------------------------------------------------------------
(***************************************************************************)
(* Calling a routine.                                                      *)
(***************************************************************************)

\* A part of a haystack is a haystack, with the matches of that part.
LEMMA SliceFacts ==
    ASSUME IsHaystack(haystack), NEW from \in Nat, NEW to \in Nat,
           from <= to, to <= haystack.len
    PROVE  /\ Slice(from, to).len = to - from
           /\ Slice(from, to).matches = BatchOf(haystack, from, to)
           /\ IsHaystack(Slice(from, to))
           /\ haystack.matches = {} => Slice(from, to).matches = {}
<1>1. haystack.len \in Nat /\ haystack.matches \in SUBSET Nat
  BY DEF IsHaystack
<1>2. Slice(from, to) = [len |-> to - from, matches |-> BatchOf(haystack, from, to)]
  BY DEF Slice
<1>3. \A b \in BatchOf(haystack, from, to) : b \in Nat /\ b \in 0 .. (to - from) - 1
  <2>1. ASSUME NEW m \in MatchesIn(haystack, from, to)
        PROVE  m - from \in Nat /\ m - from \in 0 .. (to - from) - 1
    <3>1. m \in Nat /\ from <= m /\ m < to
      BY <1>1 DEF MatchesIn
    <3> QED BY <3>1
  <2> QED BY <2>1 DEF BatchOf
<1>4. haystack.matches = {} => BatchOf(haystack, from, to) = {}
  BY DEF BatchOf, MatchesIn
<1>5. IsHaystack(Slice(from, to))
  BY <1>2, <1>3 DEF IsHaystack
<1> QED BY <1>2, <1>4, <1>5

\* The whole of a haystack is itself.
LEMMA WholeSlice == ASSUME IsHaystack(haystack) PROVE Slice(0, haystack.len) = haystack
<1>1. /\ haystack \in [len : Nat, matches : SUBSET Nat]
      /\ haystack.matches \in SUBSET (0 .. haystack.len - 1)
  BY DEF IsHaystack
<1>2. haystack.len \in Nat /\ haystack.matches \in SUBSET Nat
  BY <1>1
<1>3. \A m \in haystack.matches : 0 <= m /\ m < haystack.len /\ m - 0 = m
  BY <1>1, <1>2
<1>4. MatchesIn(haystack, 0, haystack.len) = haystack.matches
  BY <1>3 DEF MatchesIn
<1>5. BatchOf(haystack, 0, haystack.len) = haystack.matches
  BY <1>3, <1>4 DEF BatchOf
<1>6. haystack.len - 0 = haystack.len
  BY <1>2
<1> QED BY <1>1, <1>5, <1>6 DEF Slice

\* What has been handed to a routine is what its loop starts from.
Handed ==
    /\ Vectors!CallTypeOK
    /\ total = 0
    /\ result = Vectors!Pending
    /\ offset = IF op = "last_match" THEN slice.len ELSE start

\* It is right to begin with.
LEMMA HandedScanInv == Handed => Vectors!ScanInv
BY Premises, Vectors!CalledScanInv DEF Handed

LEMMA HandedScanInvNext == Handed' => (Vectors!ScanInv)'
BY HandedScanInv, PTL

\* A routine is called as its contract and the loops' invariant ask.
LEMMA ScanCalled ==
    ASSUME PlanInv, IsHaystack(haystack),
           NEW c, c # "none", NEW f \in Vectors!Ops,
           NEW from \in Nat, NEW to \in Nat, from <= to, to <= haystack.len,
           NEW s \in 0 .. to - from, f # "next_match_batch" => s = 0,
           Scan(c, f, from, to, s)
    PROVE  /\ PlanInv' /\ (Vectors!ScanInv)'
           /\ ~ Scanning /\ Scanning' /\ caller' = c /\ op' = f /\ start' = s
           /\ slice' = Slice(from, to)
           /\ before' = [scan_offset |-> scan_offset, match_base |-> match_base,
                         match_bits |-> match_bits, remaining |-> remaining]
           /\ UNCHANGED <<haystack, scan_offset, match_base>>
<1>1. /\ ~ Scanning /\ caller' = c /\ op' = f /\ start' = s /\ total' = 0
      /\ slice' = Slice(from, to)
      /\ offset' = (IF f = "last_match" THEN to - from ELSE s)
      /\ result' = Vectors!Pending
      /\ before' = [scan_offset |-> scan_offset, match_base |-> match_base,
                    match_bits |-> match_bits, remaining |-> remaining]
      /\ UNCHANGED <<engine, native_width, zero, haystack, scan_offset, match_base>>
  BY DEF Scan, plan, Swar!Pending, Vectors!Pending
<1>2. /\ slice'.len = to - from
      /\ IsHaystack(slice')
      /\ haystack.matches = {} => slice'.matches = {}
  BY <1>1, SliceFacts
<1>3. to - from \in Nat /\ s \in Nat /\ s <= to - from
  BY SMT
<1>4. (Vectors!CallTypeOK)'
  BY <1>1, <1>2, <1>3 DEF Vectors!CallTypeOK, Vectors!IsHaystack, IsHaystack, PlanInv
<1>5. offset' = IF op' = "last_match" THEN slice'.len ELSE start'
  BY <1>1, <1>2
<1>6. Handed'
  BY <1>1, <1>4, <1>5 DEF Handed, Vectors!Pending
<1>7. (Vectors!ScanInv)'
  BY <1>6, HandedScanInvNext
<1>8. PlanInv' /\ Scanning'
  BY <1>1, <1>2 DEF PlanInv, Scanning
<1> QED BY <1>1, <1>7, <1>8
-----------------------------------------------------------------------------
(***************************************************************************)
(* What a step of the searcher is to its iterator.                         *)
(***************************************************************************)

\* While no routine runs, the iterator is the one module Iter is about.
LEMMA LazyIsIterator ==
    ASSUME ~ Scanning, UNCHANGED caller
    PROVE  /\ Lazy!NextHeld => Iterator!NextHeld
           /\ Lazy!NextExhausted => Iterator!NextExhausted
           /\ \A k : Lazy!NthCall(k) => Iterator!NthCall(k)
           /\ Lazy!NthExhausted => Iterator!NthExhausted
           /\ Lazy!NthTake => Iterator!NthTake
           /\ \A idx : Lazy!AdvanceTo(idx) => Iterator!AdvanceTo(idx)
           /\ Lazy!SizeHint => Iterator!SizeHint
<1>1. ~ Scanning'
  BY DEF Scanning
<1> USE <1>1 DEF Lazy!Ahead, Iterator!Ahead, Lazy!Exhausted, Iterator!Exhausted, Lazy!Refill,
                Iterator!Refill, Lazy!Rest, Iterator!Rest, Lazy!Lowest, Iterator!Lowest, Lazy!Yield,
                Iterator!Yield, Lazy!NthReturn, Iterator!NthReturn, Lazy!held, Iterator!held,
                Lazy!SkipsAll, Iterator!SkipsAll, Lazy!StillToSkip, Iterator!StillToSkip,
                Lazy!BeyondBatch, Iterator!BeyondBatch, Lazy!Clamped, Iterator!Clamped,
                Lazy!KeptFrom, Iterator!KeptFrom, Lazy!window, Iterator!window, Lazy!nthVars,
                Iterator!nthVars, Lazy!vars, Iterator!vars, Lazy!MatchesIn, Iterator!MatchesIn,
                Lazy!BatchOf, Iterator!BatchOf, Lazy!BatchContract, Iterator!BatchContract,
                Lazy!Cardinality, Iterator!Cardinality, Lazy!DropLowest, Iterator!DropLowest,
                Lazy!HighMask, Iterator!HighMask, Lazy!Min, Iterator!Min
<1>2. Lazy!NextHeld => Iterator!NextHeld
  BY DEF Lazy!NextHeld, Iterator!NextHeld
<1>3. Lazy!NextExhausted => Iterator!NextExhausted
  BY DEF Lazy!NextExhausted, Iterator!NextExhausted
<1>4. \A k : Lazy!NthCall(k) => Iterator!NthCall(k)
  BY DEF Lazy!NthCall, Iterator!NthCall
<1>5. Lazy!NthExhausted => Iterator!NthExhausted
  BY DEF Lazy!NthExhausted, Iterator!NthExhausted
<1>6. Lazy!NthTake => Iterator!NthTake
  BY DEF Lazy!NthTake, Iterator!NthTake
<1>7. \A idx : Lazy!AdvanceTo(idx) => Iterator!AdvanceTo(idx)
  BY DEF Lazy!AdvanceTo, Iterator!AdvanceTo
<1>8. Lazy!SizeHint => Iterator!SizeHint
  BY DEF Lazy!SizeHint, Iterator!SizeHint
<1> QED BY <1>2, <1>3, <1>4, <1>5, <1>6, <1>7, <1>8

\* The iterator is what Composed says it is.
LEMMA IteratorIsComposed == [Iterator!Next]_(Iterator!vars) => [Composed!Next]_(Composed!vars)
<1> SUFFICES ASSUME [Iterator!Next]_(Iterator!vars) PROVE [Composed!Next]_(Composed!vars)
  OBVIOUS
<1> USE DEF Iterator!Ahead, Composed!Ahead, Iterator!Exhausted, Composed!Exhausted, Iterator!Refill,
           Composed!Refill, Iterator!Rest, Composed!Rest, Iterator!Lowest, Composed!Lowest,
           Iterator!Yield, Composed!Yield, Iterator!NthReturn, Composed!NthReturn, Iterator!held,
           Composed!held, Iterator!SkipsAll, Composed!SkipsAll, Iterator!StillToSkip,
           Composed!StillToSkip, Iterator!BeyondBatch, Composed!BeyondBatch, Iterator!Clamped,
           Composed!Clamped, Iterator!KeptFrom, Composed!KeptFrom, Iterator!window, Composed!window,
           Iterator!nthVars, Composed!nthVars, Iterator!vars, Composed!vars, Iterator!MatchesIn,
           Composed!MatchesIn, Iterator!BatchOf, Composed!BatchOf, Iterator!BatchContract,
           Composed!BatchContract, Iterator!Cardinality, Composed!Cardinality, Iterator!DropLowest,
           Composed!DropLowest, Iterator!HighMask, Composed!HighMask, Iterator!Min, Composed!Min
<1>1. CASE Iterator!IterNext
  BY <1>1 DEF Composed!Next, Iterator!IterNext, Composed!IterNext, Iterator!NextHeld,
     Composed!NextHeld,
              Iterator!NextExhausted, Composed!NextExhausted, Iterator!NextRefill,
              Composed!NextRefill
<1>2. ASSUME NEW k \in Steps, Iterator!NthCall(k) PROVE Composed!Next
  BY <1>2 DEF Composed!Next, Iterator!NthCall, Composed!NthCall
<1>3. CASE Iterator!NthStep
  BY <1>3 DEF Composed!Next, Iterator!NthStep, Composed!NthStep, Iterator!NthExhausted,
              Composed!NthExhausted, Iterator!NthSkip, Composed!NthSkip, Iterator!NthTake,
              Composed!NthTake
<1>4. ASSUME NEW idx \in Indices, Iterator!AdvanceTo(idx) PROVE Composed!Next
  BY <1>4 DEF Composed!Next, Iterator!AdvanceTo, Composed!AdvanceTo
<1>5. CASE Iterator!Count
  BY <1>5 DEF Composed!Next, Iterator!Count, Composed!Count, Iterator!CountContract,
     Composed!CountContract
<1>6. CASE Iterator!SizeHint
  BY <1>6 DEF Composed!Next, Iterator!SizeHint, Composed!SizeHint
<1>7. CASE UNCHANGED Iterator!vars
  BY <1>7
<1> QED BY <1>1, <1>2, <1>3, <1>4, <1>5, <1>6, <1>7 DEF Iterator!Next
-----------------------------------------------------------------------------
(***************************************************************************)
(* The steps of the searcher, one by one.                                  *)
(***************************************************************************)

\* What the invariant says of the iterator's offsets.
LEMMA SearcherFacts ==
    ASSUME SearcherInv
    PROVE  /\ IsHaystack(haystack) /\ haystack.len \in Nat
           /\ match_base \in Nat /\ scan_offset \in Nat
           /\ Scanning => /\ before.scan_offset \in Nat /\ before.scan_offset <= haystack.len
                          /\ before.remaining \in Nat
           /\ ~ Scanning => scan_offset <= haystack.len /\ remaining \in Nat
<1>1. haystack \in Haystacks
  BY DEF SearcherInv, Iterator!IInv, Iterator!TypeOK
<1>2. IsHaystack(haystack) /\ haystack.len \in Nat
  BY <1>1, HaystacksAssumption DEF IsHaystack
<1>3. match_base \in Nat /\ scan_offset \in Nat
  BY DEF SearcherInv, CallInv
<1>4. CASE Scanning
  BY <1>2, <1>3, <1>4 DEF SearcherInv, Iterator!IInv, Iterator!TypeOK, Iterator!WindowInBounds
<1>5. CASE ~ Scanning
  BY <1>2, <1>3, <1>5 DEF SearcherInv, Iterator!IInv, Iterator!TypeOK, Iterator!WindowInBounds
<1> QED BY <1>2, <1>3, <1>4, <1>5

\* A step of the iterator keeps its part of the invariant.
LEMMA ViewKeeps ==
    ASSUME SearcherInv, [Iterator!Next]_(Iterator!vars)
    PROVE  Iterator!IInv' /\ Iterator!NthArgument'
<1>1. Iterator!IInv /\ Iterator!NthArgument
  BY DEF SearcherInv
<1> QED BY <1>1, Premises, Iterator!NextIInv, Iterator!NextNthArgument

\* A step that calls no routine, while none runs.
LEMMA WithoutScanKeeps ==
    ASSUME SearcherInv, WithoutScan, UNCHANGED haystack, Iterator!Next
    PROVE  SearcherInv'
<1>1. ~ Scanning /\ ~ Scanning' /\ caller' = "none"
  BY DEF WithoutScan, scanVars, Scanning
<1>2. Iterator!IInv' /\ Iterator!NthArgument'
  BY ViewKeeps
<1>3. match_base' \in Nat /\ scan_offset' \in Nat
  BY <1>1, <1>2 DEF Iterator!IInv, Iterator!TypeOK
<1>4. PlanInv'
  BY <1>1 DEF SearcherInv, PlanInv, WithoutScan, plan
<1>5. CallInv'
  BY <1>1, <1>3 DEF CallInv
<1> QED BY <1>2, <1>4, <1>5 DEF SearcherInv

\* A step that calls a routine leaves the iterator as it was.
LEMMA ScanLeaves ==
    ASSUME ~ Scanning, Scanning', UNCHANGED <<haystack, pc, n, ret, entry, last>>,
           before' = [scan_offset |-> scan_offset, match_base |-> match_base,
                      match_bits |-> match_bits, remaining |-> remaining]
    PROVE  UNCHANGED Iterator!vars
BY DEF Iterator!vars, Iterator!window, Iterator!nthVars

\* Such a step has the invariant of the call to establish, and no more.
LEMMA ScanCallKeeps ==
    ASSUME SearcherInv, UNCHANGED Iterator!vars, PlanInv', CallInv'
    PROVE  SearcherInv'
BY ViewKeeps DEF SearcherInv

\* next and nth call for the next batch.
LEMMA ScanBatchCalls ==
    ASSUME SearcherInv, NEW c, c # "none", ScanBatch(c)
    PROVE  /\ PlanInv' /\ (Vectors!ScanInv)'
           /\ ~ Scanning /\ Scanning' /\ caller' = c
           /\ op' = "next_match_batch" /\ start' = scan_offset /\ slice' = haystack
           /\ before' = [scan_offset |-> scan_offset, match_base |-> match_base,
                         match_bits |-> match_bits, remaining |-> remaining]
           /\ match_base' \in Nat /\ scan_offset' \in Nat /\ UNCHANGED haystack
<1>1. Scan(c, "next_match_batch", 0, haystack.len, scan_offset)
  BY DEF ScanBatch
<1>2. ~ Scanning
  BY <1>1 DEF Scan
<1>3. /\ IsHaystack(haystack) /\ haystack.len \in Nat /\ PlanInv
      /\ match_base \in Nat /\ scan_offset \in Nat /\ scan_offset <= haystack.len
  BY <1>2, SearcherFacts DEF SearcherInv
<1>4. /\ scan_offset \in 0 .. haystack.len - 0 /\ 0 <= haystack.len
      /\ "next_match_batch" \in Vectors!Ops
  BY <1>3 DEF Vectors!Ops
<1>5. /\ PlanInv' /\ (Vectors!ScanInv)'
      /\ Scanning' /\ caller' = c /\ op' = "next_match_batch" /\ start' = scan_offset
      /\ slice' = Slice(0, haystack.len)
      /\ before' = [scan_offset |-> scan_offset, match_base |-> match_base,
                    match_bits |-> match_bits, remaining |-> remaining]
      /\ UNCHANGED <<haystack, scan_offset, match_base>>
  BY <1>1, <1>3, <1>4, ScanCalled
<1>6. slice' = haystack
  BY <1>3, <1>5, WholeSlice
<1> QED BY <1>2, <1>3, <1>5, <1>6

\* next calls for a batch when it holds no match.
LEMMA NextScanKeeps == SearcherInv /\ NextScan => SearcherInv' /\ UNCHANGED Iterator!vars
<1> SUFFICES ASSUME SearcherInv, NextScan PROVE SearcherInv' /\ UNCHANGED Iterator!vars
  OBVIOUS
<1>1. /\ ScanBatch("next")
      /\ pc = "idle" /\ match_bits = {} /\ scan_offset # haystack.len
      /\ UNCHANGED <<match_bits, pc, n, remaining, ret, entry, last>>
  BY DEF NextScan, Lazy!Exhausted
<1>2. /\ PlanInv' /\ (Vectors!ScanInv)'
      /\ ~ Scanning /\ Scanning' /\ caller' = "next"
      /\ op' = "next_match_batch" /\ start' = scan_offset /\ slice' = haystack
      /\ before' = [scan_offset |-> scan_offset, match_base |-> match_base,
                    match_bits |-> match_bits, remaining |-> remaining]
      /\ match_base' \in Nat /\ scan_offset' \in Nat /\ UNCHANGED haystack
  BY <1>1, ScanBatchCalls
<1>3. CallInv'
  BY <1>1, <1>2 DEF CallInv, NextCalled, BatchCalled
<1>4. UNCHANGED Iterator!vars
  BY <1>1, <1>2, ScanLeaves
<1> QED BY <1>2, <1>3, <1>4, ScanCallKeeps

\* nth calls for one when it skips all it holds.
LEMMA NthScanKeeps == SearcherInv /\ NthScan => SearcherInv' /\ UNCHANGED Iterator!vars
<1> SUFFICES ASSUME SearcherInv, NthScan PROVE SearcherInv' /\ UNCHANGED Iterator!vars
  OBVIOUS
<1>1. /\ ScanBatch("nth")
      /\ pc = "nth" /\ scan_offset # haystack.len
      /\ Cardinality(match_bits) <= remaining
      /\ remaining' = remaining - Cardinality(match_bits)
      /\ UNCHANGED <<pc, n, ret, entry, last>>
  BY DEF NthScan, Lazy!Exhausted, Lazy!SkipsAll, Lazy!StillToSkip, Lazy!held,
         Lazy!Cardinality, Cardinality
<1>2. /\ PlanInv' /\ (Vectors!ScanInv)'
      /\ ~ Scanning /\ Scanning' /\ caller' = "nth"
      /\ op' = "next_match_batch" /\ start' = scan_offset /\ slice' = haystack
      /\ before' = [scan_offset |-> scan_offset, match_base |-> match_base,
                    match_bits |-> match_bits, remaining |-> remaining]
      /\ match_base' \in Nat /\ scan_offset' \in Nat /\ UNCHANGED haystack
  BY <1>1, ScanBatchCalls
<1>3. CallInv'
  BY <1>1, <1>2 DEF CallInv, NthCalled, BatchCalled
<1>4. UNCHANGED Iterator!vars
  BY <1>1, <1>2, ScanLeaves
<1> QED BY <1>2, <1>3, <1>4, ScanCallKeeps

\* count calls for what it has not scanned.
LEMMA CountScanKeeps == SearcherInv /\ CountScan => SearcherInv' /\ UNCHANGED Iterator!vars
<1> SUFFICES ASSUME SearcherInv, CountScan PROVE SearcherInv' /\ UNCHANGED Iterator!vars
  OBVIOUS
<1>1. /\ Scan("count", "count_all", scan_offset, haystack.len, 0)
      /\ pc = "idle"
      /\ UNCHANGED <<match_bits, pc, n, remaining, ret, entry, last>>
  BY DEF CountScan, UnscannedFrom
<1>2. ~ Scanning
  BY <1>1 DEF Scan
<1>3. /\ IsHaystack(haystack) /\ haystack.len \in Nat /\ PlanInv
      /\ match_base \in Nat /\ scan_offset \in Nat /\ scan_offset <= haystack.len
  BY <1>2, SearcherFacts DEF SearcherInv
<1>4. 0 \in 0 .. haystack.len - scan_offset /\ "count_all" \in Vectors!Ops
  BY <1>3 DEF Vectors!Ops
<1>5. /\ PlanInv' /\ (Vectors!ScanInv)'
      /\ Scanning' /\ caller' = "count" /\ op' = "count_all"
      /\ slice' = Slice(scan_offset, haystack.len)
      /\ before' = [scan_offset |-> scan_offset, match_base |-> match_base,
                    match_bits |-> match_bits, remaining |-> remaining]
      /\ UNCHANGED <<haystack, scan_offset, match_base>>
  BY <1>1, <1>3, <1>4, ScanCalled
<1>6. slice' = Slice(scan_offset, haystack.len)'
  BY <1>5 DEF Slice, BatchOf, MatchesIn
<1>7. CallInv'
  BY <1>1, <1>3, <1>5, <1>6 DEF CallInv, CountCalled, LeftAlone
<1>8. UNCHANGED Iterator!vars
  BY <1>1, <1>2, <1>5, ScanLeaves
<1> QED BY <1>5, <1>7, <1>8, ScanCallKeeps

\* find and rfind are called on any part of the haystack.
LEMMA FindKeeps ==
    ASSUME SearcherInv, NEW from \in Nat, NEW to \in Nat, from <= to, to <= haystack.len,
           CallFind(from, to) \/ CallRfind(from, to)
    PROVE  /\ SearcherInv' /\ UNCHANGED Iterator!vars
           /\ slice' = Slice(from, to)
<1>1. PICK c \in {"find", "rfind"} :
        /\ Scan(c, IF c = "find" THEN "first_match" ELSE "last_match", from, to, 0)
        /\ pc = "idle"
        /\ UNCHANGED <<match_bits, pc, n, remaining, ret, entry, last>>
  BY DEF CallFind, CallRfind
<1> DEFINE f == IF c = "find" THEN "first_match" ELSE "last_match"
<1>2. ~ Scanning
  BY <1>1 DEF Scan
<1>3. /\ IsHaystack(haystack) /\ haystack.len \in Nat /\ PlanInv
      /\ match_base \in Nat /\ scan_offset \in Nat
  BY <1>2, SearcherFacts DEF SearcherInv
<1>4. 0 \in 0 .. to - from /\ f \in Vectors!Ops /\ f # "next_match_batch" /\ c # "none"
  BY <1>3 DEF Vectors!Ops
<1>5. /\ PlanInv' /\ (Vectors!ScanInv)'
      /\ Scanning' /\ caller' = c /\ op' = f
      /\ slice' = Slice(from, to)
      /\ before' = [scan_offset |-> scan_offset, match_base |-> match_base,
                    match_bits |-> match_bits, remaining |-> remaining]
      /\ UNCHANGED <<haystack, scan_offset, match_base>>
  BY <1>1, <1>3, <1>4, ScanCalled
<1>6. CallInv'
  BY <1>1, <1>3, <1>5 DEF CallInv, FindCalled, LeftAlone
<1>7. UNCHANGED Iterator!vars
  BY <1>1, <1>2, <1>5, ScanLeaves
<1> QED BY <1>5, <1>6, <1>7, ScanCallKeeps

\* A step of an engine: the loops' invariant is all that has to be kept.
LEMMA ScanStepKeeps == SearcherInv /\ ScanStep => SearcherInv' /\ UNCHANGED Iterator!vars
<1> SUFFICES ASSUME SearcherInv, ScanStep PROVE SearcherInv' /\ UNCHANGED Iterator!vars
  OBVIOUS
<1>1. /\ Scanning
      /\ UNCHANGED <<haystack, match_bits, pc, n, remaining, ret, entry, last>>
      /\ UNCHANGED <<engine, caller, before>>
      /\ Swar!Next \/ Vector!Next \/ (engine = "never" /\ Never!Next)
  BY DEF ScanStep
<1>2. /\ UNCHANGED <<slice, zero, op, native_width, start>>
      /\ op # "next_match_batch" => UNCHANGED <<match_base, scan_offset>>
  BY <1>1, EngineLeaves
<1>3. /\ Vectors!ScanInv /\ match_base \in Nat /\ scan_offset \in Nat
      /\ engine = "never" => slice.matches = {}
  BY <1>1 DEF SearcherInv, CallInv, PlanInv
<1>4. (Vectors!ScanInv)'
  BY <1>1, <1>3, SwarKeeps, VectorKeeps, NeverKeeps
<1>5. match_base' \in Nat /\ scan_offset' \in Nat
  BY <1>1, <1>3, EngineOffsets
<1>6. PlanInv'
  BY <1>1, <1>2 DEF SearcherInv, PlanInv, Scanning
<1>7. CallInv'
  <2>1. /\ caller' \in {"none", "next", "nth", "count", "find", "rfind"}
        /\ caller' = "next" => NextCalled'
        /\ caller' = "nth" => NthCalled'
    BY <1>1, <1>2 DEF SearcherInv, CallInv, NextCalled, NthCalled, BatchCalled
  <2>2. caller' = "count" => CountCalled'
    BY <1>1, <1>2 DEF SearcherInv, CallInv, CountCalled, LeftAlone, Slice, BatchOf, MatchesIn
  <2>3. caller' \in {"find", "rfind"} => FindCalled'
    BY <1>1, <1>2 DEF SearcherInv, CallInv, FindCalled, LeftAlone
  <2> QED BY <1>4, <1>5, <2>1, <2>2, <2>3 DEF CallInv
<1>8. UNCHANGED Iterator!vars
  BY <1>1 DEF Scanning, Iterator!vars, Iterator!window, Iterator!nthVars
<1> QED BY <1>6, <1>7, <1>8, ScanCallKeeps
-----------------------------------------------------------------------------
(***************************************************************************)
(* Picking up what a routine returned: its contract makes the step one of  *)
(* the iterator.                                                           *)
(***************************************************************************)
LEMMA ScannedKeeps ==
    ASSUME SearcherInv, NEW c, Scanned(c), Iterator!IInv', Iterator!NthArgument'
    PROVE  SearcherInv'
<1>1. /\ caller' = "none" /\ ~ Scanning'
      /\ UNCHANGED <<engine, native_width, haystack, scan_offset, match_base>>
  BY DEF Scanned, plan, Scanning
<1>2. PlanInv' /\ CallInv'
  BY <1>1 DEF SearcherInv, PlanInv, CallInv
<1> QED BY <1>2 DEF SearcherInv

\* What next_match_batch has left, when next or nth picks up its bits.
LEMMA BatchScanned ==
    ASSUME SearcherInv, result.done, Scanning, BatchCalled
    PROVE  /\ Iterator!BatchContract(haystack, before.scan_offset, match_base, scan_offset,
                                     result.bits)
           /\ result.bits = Iterator!BatchOf(haystack, match_base, scan_offset)
           /\ match_base \in before.scan_offset .. haystack.len
           /\ scan_offset \in before.scan_offset .. haystack.len
           /\ before.scan_offset # haystack.len
<1>1. /\ op = "next_match_batch" /\ slice = haystack
      /\ start = before.scan_offset /\ start # haystack.len
  BY DEF BatchCalled
<1>2. Vectors!BatchContract(haystack, before.scan_offset, match_base, scan_offset, result.bits)
  BY <1>1 DEF SearcherInv, CallInv, Vectors!ScanInv, Vectors!MeetsContract
<1>3. Iterator!BatchContract(haystack, before.scan_offset, match_base, scan_offset, result.bits)
  BY <1>2 DEF Vectors!BatchContract, Vectors!MatchesIn, Vectors!BatchOf,
              Iterator!BatchContract, Iterator!MatchesIn, Iterator!BatchOf
<1>4. /\ haystack.len \in Nat /\ match_base \in Nat /\ scan_offset \in Nat
      /\ before.scan_offset \in Nat
  BY SearcherFacts
<1>5. /\ before.scan_offset <= match_base /\ match_base <= scan_offset
      /\ scan_offset <= haystack.len
      /\ result.bits = Iterator!BatchOf(haystack, match_base, scan_offset)
  BY <1>3 DEF Iterator!BatchContract
<1>6. /\ match_base \in before.scan_offset .. haystack.len
      /\ scan_offset \in before.scan_offset .. haystack.len
  BY <1>4, <1>5
<1> QED BY <1>1, <1>3, <1>5, <1>6

\* next's refill is Iter's.
LEMMA NextScannedView == SearcherInv /\ NextScanned => Iterator!NextRefill
<1> SUFFICES ASSUME SearcherInv, NextScanned PROVE Iterator!NextRefill
  OBVIOUS
<1> DEFINE bits == result.bits
<1>1. /\ caller = "next" /\ Scanning /\ ~ Scanning' /\ result.done
      /\ UNCHANGED <<haystack, scan_offset, match_base, pc, n, remaining, entry>>
      /\ \/ /\ bits = {}
            /\ match_bits' = {}
            /\ ret' = [op |-> "next", val |-> None]
            /\ UNCHANGED last
         \/ /\ bits # {}
            /\ match_bits' = Iterator!Rest(bits)
            /\ ret' = [op |-> "next", val |-> Iterator!Lowest(match_base, bits)]
            /\ Iterator!Yield(Iterator!Lowest(match_base, bits))
  BY DEF NextScanned, Scanned, Scanning, Lazy!Rest, Lazy!Lowest, Lazy!Yield,
         Iterator!Rest, Iterator!Lowest, Iterator!Yield, Lazy!Min, Iterator!Min
<1>2. NextCalled
  BY <1>1 DEF SearcherInv, CallInv
<1>3. /\ Iterator!BatchContract(haystack, before.scan_offset, match_base, scan_offset, bits)
      /\ bits = Iterator!BatchOf(haystack, match_base, scan_offset)
      /\ match_base \in before.scan_offset .. haystack.len
      /\ scan_offset \in before.scan_offset .. haystack.len
      /\ before.scan_offset # haystack.len
  BY <1>1, <1>2, BatchScanned DEF NextCalled
<1>4. Iterator!Refill(match_base, scan_offset, bits)
  BY <1>1, <1>3 DEF Iterator!Refill, Iterator!Exhausted
<1> HIDE DEF bits
<1>5. pc = "idle" /\ before.match_bits = {} /\ before.remaining = remaining
  BY <1>2 DEF NextCalled
<1> QED BY <1>1, <1>3, <1>4, <1>5 DEF Iterator!NextRefill, Iterator!nthVars

\* An iteration of nth's loop is Iter's.
LEMMA NthScannedView == SearcherInv /\ NthScanned => Iterator!NthSkip
<1> SUFFICES ASSUME SearcherInv, NthScanned PROVE Iterator!NthSkip
  OBVIOUS
<1> DEFINE bits == result.bits
<1>1. /\ caller = "nth" /\ Scanning /\ ~ Scanning' /\ result.done
      /\ UNCHANGED <<haystack, scan_offset, match_base, last>>
      /\ match_bits' = bits
      /\ \/ bits = {} /\ Iterator!NthReturn(None)
         \/ bits # {} /\ UNCHANGED <<pc, n, remaining, entry, ret>>
  BY DEF NthScanned, Scanned, Scanning, Lazy!NthReturn, Iterator!NthReturn
<1>2. NthCalled
  BY <1>1 DEF SearcherInv, CallInv
<1>3. /\ Iterator!BatchContract(haystack, before.scan_offset, match_base, scan_offset, bits)
      /\ bits = Iterator!BatchOf(haystack, match_base, scan_offset)
      /\ match_base \in before.scan_offset .. haystack.len
      /\ scan_offset \in before.scan_offset .. haystack.len
      /\ before.scan_offset # haystack.len
  BY <1>1, <1>2, BatchScanned DEF NthCalled
<1>4. Iterator!Refill(match_base, scan_offset, bits)
  BY <1>1, <1>3 DEF Iterator!Refill, Iterator!Exhausted
<1> HIDE DEF bits
<1>5. /\ pc = "nth" /\ Iterator!SkipsAll
      /\ remaining = Iterator!StillToSkip
  BY <1>1, <1>2 DEF NthCalled, Iterator!SkipsAll, Iterator!StillToSkip, Iterator!held,
                    Iterator!Cardinality, Cardinality
<1>6. bits # {} => (IF Scanning' THEN before'.remaining ELSE remaining') = Iterator!StillToSkip
  BY <1>1, <1>5 DEF Iterator!NthReturn
<1> QED BY <1>1, <1>3, <1>4, <1>5, <1>6 DEF Iterator!NthSkip

\* The matches of the bytes from an offset on, counted where they lie or in their slice.
LEMMA SliceCounted ==
    ASSUME SearcherInv, NEW from \in Nat, from <= haystack.len
    PROVE  LET part == Slice(from, haystack.len) IN
             Vectors!Cardinality(Vectors!MatchesIn(part, 0, part.len))
               = Cardinality(MatchesIn(haystack, from, haystack.len))
<1> DEFINE part == Slice(from, haystack.len)
           all == MatchesIn(haystack, from, haystack.len)
<1>1. IsHaystack(haystack) /\ haystack.len \in Nat
  BY SearcherFacts
<1>2. /\ part.len = haystack.len - from
      /\ part.matches = BatchOf(haystack, from, haystack.len)
      /\ IsHaystack(part)
  BY <1>1, SliceFacts
<1>3. haystack.matches \in SUBSET Nat
  BY <1>1 DEF IsHaystack
<1> HIDE DEF part
<1>4. /\ part.len \in Nat /\ part.matches \in SUBSET Nat
      /\ part.matches \in SUBSET (0 .. part.len - 1)
      /\ part.matches \in SUBSET (0 .. part.len)
  <2>1. /\ part.len \in Nat /\ part.matches \in SUBSET Nat
        /\ part.matches \in SUBSET (0 .. part.len - 1)
    BY <1>2 DEF IsHaystack
  <2> QED BY <2>1
<1>5. IsFiniteSet(part.matches)
  BY <1>4, BitsFinite
<1>6. Vectors!MatchesIn(part, 0, part.len) = part.matches
  <2>1. \A m \in part.matches : 0 <= m /\ m < part.len
    BY <1>4
  <2> QED BY <2>1 DEF Vectors!MatchesIn
<1>7. {from + b : b \in part.matches} = all
  <2>1. \A m \in haystack.matches : from + (m - from) = m
    BY <1>3
  <2> QED BY <1>2, <2>1 DEF BatchOf, MatchesIn
<1>8. Cardinality(all) = Cardinality(part.matches)
  BY <1>4, <1>5, <1>7, ShiftCardinality
<1> QED BY <1>6, <1>8 DEF Vectors!Cardinality, Cardinality, part

\* A count with the number of the matches it has not scanned is one of the iterator.
LEMMA CountView ==
    ASSUME SearcherInv, pc = "idle", Scanning => LeftAlone, ~ Scanning',
           UNCHANGED <<haystack, scan_offset, match_base, match_bits, pc, n, remaining, entry,
           last>>,
           ret' = [op |-> "count",
                   total |-> Cardinality(match_bits)
                               + Cardinality(MatchesIn(haystack, scan_offset, haystack.len))]
    PROVE  Iterator!Count
<1> DEFINE unscanned == Cardinality(MatchesIn(haystack, scan_offset, haystack.len))
<1>1. /\ (IF Scanning THEN before.scan_offset ELSE scan_offset) = scan_offset
      /\ (IF Scanning THEN before.match_base ELSE match_base) = match_base
      /\ (IF Scanning THEN before.match_bits ELSE match_bits) = match_bits
      /\ (IF Scanning THEN before.remaining ELSE remaining) = remaining
  BY DEF LeftAlone
<1>2. Iterator!UnscannedMatches = MatchesIn(haystack, scan_offset, haystack.len)
  BY <1>1 DEF Iterator!UnscannedMatches, Iterator!MatchesIn, MatchesIn
<1>3. \A S : Iterator!Cardinality(S) = Cardinality(S)
  BY DEF Iterator!Cardinality, Cardinality
<1>4. unscanned \in 0 .. haystack.len - scan_offset
  BY <1>1, <1>2, <1>3, Premises, Iterator!AheadFacts DEF SearcherInv
<1>5. haystack.len \in Nat /\ scan_offset \in Nat
  BY SearcherFacts
<1>6. unscanned \in 0 .. haystack.len
  BY <1>4, <1>5
<1>7. Iterator!CountContract(haystack, scan_offset, unscanned)
  BY <1>3 DEF Iterator!CountContract, Iterator!MatchesIn, MatchesIn
<1>8. ret' = [op |-> "count", total |-> Iterator!Cardinality(match_bits) + unscanned]
  BY <1>3
<1> HIDE DEF unscanned
<1> QED BY <1>1, <1>6, <1>7, <1>8 DEF Iterator!Count, Iterator!window, Iterator!nthVars

\* count with nothing left to scan.
LEMMA CountHeldView == SearcherInv /\ CountHeld => Iterator!Count
<1> SUFFICES ASSUME SearcherInv, CountHeld PROVE Iterator!Count
  OBVIOUS
<1>1. /\ ~ Scanning /\ ~ Scanning' /\ pc = "idle" /\ scan_offset = haystack.len
      /\ ret' = [op |-> "count", total |-> Cardinality(match_bits)]
      /\ UNCHANGED <<haystack, scan_offset, match_base, match_bits, pc, n, remaining, entry, last>>
  BY DEF CountHeld, Idle, UnscannedFrom, scanVars, Scanning
<1>2. IsHaystack(haystack) /\ haystack.len \in Nat
  BY SearcherFacts
<1>3. MatchesIn(haystack, scan_offset, haystack.len) = {}
  <2>1. \A m \in haystack.matches : m \in Nat
    BY <1>2 DEF IsHaystack
  <2> QED BY <1>1, <1>2, <2>1 DEF MatchesIn
<1>4. Cardinality(MatchesIn(haystack, scan_offset, haystack.len)) = 0
  BY <1>3, FS_EmptySet
<1>5. Iterator!Cardinality(match_bits) \in Nat
  BY <1>1, Premises, Iterator!StateFacts DEF SearcherInv
<1>6. Cardinality(match_bits) \in Nat
  BY <1>5 DEF Iterator!Cardinality, Cardinality
<1>7. Cardinality(match_bits) + Cardinality(MatchesIn(haystack, scan_offset, haystack.len))
        = Cardinality(match_bits)
  BY <1>4, <1>6
<1> QED BY <1>1, <1>7, CountView

\* count with what count_all returned.
LEMMA CountScannedView == SearcherInv /\ CountScanned => Iterator!Count
<1> SUFFICES ASSUME SearcherInv, CountScanned PROVE Iterator!Count
  OBVIOUS
<1>1. /\ caller = "count" /\ Scanning /\ ~ Scanning' /\ result.done
      /\ ret' = [op |-> "count", total |-> Cardinality(match_bits) + result.total]
      /\ UNCHANGED <<haystack, scan_offset, match_base, match_bits, pc, n, remaining, entry, last>>
  BY DEF CountScanned, Scanned, Scanning
<1>2. /\ Vectors!ScanInv /\ op = "count_all" /\ slice = Slice(scan_offset, haystack.len)
      /\ pc = "idle" /\ LeftAlone
  BY <1>1 DEF SearcherInv, CallInv, CountCalled
<1>3. result.total = Vectors!Cardinality(Vectors!MatchesIn(slice, 0, slice.len))
  BY <1>1, <1>2 DEF Vectors!ScanInv, Vectors!MeetsContract, Vectors!CountContract
<1>4. scan_offset \in Nat /\ scan_offset <= haystack.len
  BY <1>1, <1>2, SearcherFacts DEF LeftAlone
<1>5. result.total = Cardinality(MatchesIn(haystack, scan_offset, haystack.len))
  BY <1>2, <1>3, <1>4, SliceCounted
<1> QED BY <1>1, <1>2, <1>5, CountView
-----------------------------------------------------------------------------
(***************************************************************************)
(* The operations of the searcher: each keeps the invariant, and calls a   *)
(* routine, which leaves the iterator alone, or is a step of the iterator. *)
(***************************************************************************)
LEMMA InitSearcherInv == Init => SearcherInv /\ Iterator!Init /\ Idle
<1> SUFFICES ASSUME Init PROVE SearcherInv /\ Iterator!Init /\ Idle
  OBVIOUS
<1>1. /\ caller = "none" /\ ~ Scanning
      /\ native_width \in IF engine = "vector" THEN NativeWidths ELSE {BlockBytes}
      /\ engine = "never" => haystack.matches = {}
      /\ Lazy!Init
  BY DEF Init, NoScan, Scanning
<1>2. Iterator!Init /\ Idle
  BY <1>1 DEF Lazy!Init, Iterator!Init, Idle
<1>3. Iterator!IInv
  BY <1>2, Premises, Iterator!InitIInv
<1>4. Iterator!NthArgument
  BY <1>2 DEF Iterator!Init, Iterator!NthArgument
<1>5. PlanInv
  BY <1>1 DEF PlanInv, Widths
<1>6. CallInv
  BY <1>1 DEF CallInv, Lazy!Init
<1> QED BY <1>2, <1>3, <1>4, <1>5, <1>6 DEF SearcherInv

\* next.
LEMMA CallNextKeeps ==
    ASSUME SearcherInv, CallNext
    PROVE  /\ SearcherInv' /\ Idle /\ UNCHANGED haystack
           /\ \/ caller' = "next" /\ pc' = pc /\ UNCHANGED Iterator!vars
              \/ Idle' /\ Iterator!IterNext
<1>1. CASE NextScan
  <2>1. Idle /\ caller' = "next" /\ pc' = pc /\ UNCHANGED haystack
    BY <1>1 DEF NextScan, ScanBatch, Scan, Idle
  <2> QED BY <1>1, <2>1, NextScanKeeps
<1>2. CASE WithoutScan /\ (Lazy!NextHeld \/ Lazy!NextExhausted)
  <2>1. Idle /\ Idle' /\ UNCHANGED caller /\ ~ Scanning /\ UNCHANGED haystack
    BY <1>2 DEF WithoutScan, scanVars, Scanning, Idle, Lazy!NextHeld, Lazy!NextExhausted,
       Lazy!nthVars
  <2>2. Iterator!IterNext
    BY <1>2, <2>1, LazyIsIterator DEF Iterator!IterNext
  <2>3. SearcherInv'
    BY <1>2, <2>1, <2>2, WithoutScanKeeps DEF Iterator!Next
  <2> QED BY <2>1, <2>2, <2>3
<1> QED BY <1>1, <1>2 DEF CallNext

\* nth is entered.
LEMMA CallNthKeeps ==
    ASSUME SearcherInv, NEW k \in Steps, CallNth(k)
    PROVE  /\ SearcherInv' /\ Idle /\ UNCHANGED haystack
           /\ pc' = "nth" /\ ~ Scanning' /\ Iterator!NthCall(k)
<1>1. WithoutScan /\ Lazy!NthCall(k)
  BY DEF CallNth
<1>2. Idle /\ UNCHANGED caller /\ ~ Scanning /\ ~ Scanning' /\ pc' = "nth" /\ UNCHANGED haystack
  BY <1>1 DEF WithoutScan, scanVars, Scanning, Idle, Lazy!NthCall
<1>3. Iterator!NthCall(k)
  BY <1>1, <1>2, LazyIsIterator
<1>4. SearcherInv'
  BY <1>1, <1>2, <1>3, WithoutScanKeeps DEF Iterator!Next
<1> QED BY <1>2, <1>3, <1>4

\* A step of nth's loop.
LEMMA NthStepKeeps ==
    ASSUME SearcherInv, NthStep
    PROVE  /\ SearcherInv' /\ pc = "nth" /\ UNCHANGED haystack
           /\ \/ caller' = "nth" /\ pc' = pc /\ UNCHANGED Iterator!vars
              \/ ~ Scanning' /\ Iterator!NthStep
<1>1. CASE NthScan
  <2>1. pc = "nth" /\ caller' = "nth" /\ pc' = pc /\ UNCHANGED haystack
    BY <1>1 DEF NthScan, ScanBatch, Scan
  <2> QED BY <1>1, <2>1, NthScanKeeps
<1>2. CASE NthScanned
  <2>1. Iterator!NthSkip
    BY <1>2, NthScannedView
  <2>2. pc = "nth" /\ Iterator!NthStep /\ UNCHANGED haystack
    BY <2>1 DEF Iterator!NthStep, Iterator!NthSkip
  <2>3. Scanned("nth") /\ ~ Scanning'
    BY <1>2 DEF NthScanned, Scanned, Scanning
  <2>4. SearcherInv'
    BY <2>2, <2>3, ViewKeeps, ScannedKeeps DEF Iterator!Next
  <2> QED BY <2>2, <2>3, <2>4
<1>3. CASE WithoutScan /\ (Lazy!NthExhausted \/ Lazy!NthTake)
  <2>1. UNCHANGED caller /\ ~ Scanning /\ ~ Scanning' /\ pc = "nth" /\ UNCHANGED haystack
    BY <1>3 DEF WithoutScan, scanVars, Scanning, Lazy!NthExhausted, Lazy!NthTake
  <2>2. Iterator!NthStep
    BY <1>3, <2>1, LazyIsIterator DEF Iterator!NthStep
  <2>3. SearcherInv'
    BY <1>3, <2>1, <2>2, WithoutScanKeeps DEF Iterator!Next
  <2> QED BY <2>1, <2>2, <2>3
<1> QED BY <1>1, <1>2, <1>3 DEF NthStep

\* advance_to.
LEMMA CallAdvanceToKeeps ==
    ASSUME SearcherInv, NEW idx \in Indices, CallAdvanceTo(idx)
    PROVE  /\ SearcherInv' /\ Idle /\ Idle' /\ UNCHANGED haystack
           /\ Iterator!AdvanceTo(idx)
<1>1. WithoutScan /\ Lazy!AdvanceTo(idx)
  BY DEF CallAdvanceTo
<1>2. Idle /\ Idle' /\ UNCHANGED caller /\ ~ Scanning /\ UNCHANGED haystack
  BY <1>1 DEF WithoutScan, scanVars, Scanning, Idle, Lazy!AdvanceTo, Lazy!nthVars
<1>3. Iterator!AdvanceTo(idx)
  BY <1>1, <1>2, LazyIsIterator
<1>4. SearcherInv'
  BY <1>1, <1>2, <1>3, WithoutScanKeeps DEF Iterator!Next
<1> QED BY <1>2, <1>3, <1>4

\* size_hint.
LEMMA CallSizeHintKeeps ==
    ASSUME SearcherInv, CallSizeHint
    PROVE  /\ SearcherInv' /\ Idle /\ Idle' /\ UNCHANGED haystack
           /\ Iterator!SizeHint
<1>1. WithoutScan /\ Lazy!SizeHint
  BY DEF CallSizeHint
<1>2. Idle /\ Idle' /\ UNCHANGED caller /\ ~ Scanning /\ UNCHANGED haystack
  BY <1>1 DEF WithoutScan, scanVars, Scanning, Idle, Lazy!SizeHint, Lazy!nthVars
<1>3. Iterator!SizeHint
  BY <1>1, <1>2, LazyIsIterator
<1>4. SearcherInv'
  BY <1>1, <1>2, <1>3, WithoutScanKeeps DEF Iterator!Next
<1> QED BY <1>2, <1>3, <1>4

\* count.
LEMMA CallCountKeeps ==
    ASSUME SearcherInv, CallCount
    PROVE  /\ SearcherInv' /\ Idle /\ UNCHANGED haystack
           /\ \/ caller' = "count" /\ pc' = pc /\ UNCHANGED Iterator!vars
              \/ Idle' /\ Iterator!Count
<1>1. CASE CountScan
  <2>1. Idle /\ caller' = "count" /\ pc' = pc /\ UNCHANGED haystack
    BY <1>1 DEF CountScan, Scan, Idle
  <2> QED BY <1>1, <2>1, CountScanKeeps
<1>2. CASE CountHeld
  <2>1. Idle /\ Idle' /\ WithoutScan /\ UNCHANGED haystack
    BY <1>2 DEF CountHeld, WithoutScan, scanVars, Scanning, Idle
  <2>2. Iterator!Count
    BY <1>2, CountHeldView
  <2>3. SearcherInv'
    BY <2>1, <2>2, WithoutScanKeeps DEF Iterator!Next
  <2> QED BY <2>1, <2>2, <2>3
<1> QED BY <1>1, <1>2 DEF CallCount

\* next picks up the batch.
LEMMA NextScannedKeeps ==
    ASSUME SearcherInv, NextScanned
    PROVE  /\ SearcherInv' /\ caller = "next" /\ Idle' /\ UNCHANGED haystack
           /\ Iterator!IterNext
<1>1. Iterator!NextRefill
  BY NextScannedView
<1>2. /\ Scanned("next") /\ caller = "next" /\ caller' = "none" /\ UNCHANGED <<haystack, pc>>
  BY DEF NextScanned, Scanned
<1>3. pc = "idle"
  BY <1>1 DEF Iterator!NextRefill
<1>4. SearcherInv'
  BY <1>1, <1>2, ViewKeeps, ScannedKeeps DEF Iterator!Next, Iterator!IterNext
<1> QED BY <1>1, <1>2, <1>3, <1>4 DEF Idle, Scanning, Iterator!IterNext

\* count picks up the total.
LEMMA CountScannedKeeps ==
    ASSUME SearcherInv, CountScanned
    PROVE  /\ SearcherInv' /\ caller = "count" /\ Idle' /\ UNCHANGED haystack
           /\ Iterator!Count
<1>1. Iterator!Count
  BY CountScannedView
<1>2. /\ Scanned("count") /\ caller = "count" /\ caller' = "none" /\ UNCHANGED <<haystack, pc>>
  BY DEF CountScanned, Scanned
<1>3. pc = "idle"
  BY <1>1 DEF Iterator!Count
<1>4. SearcherInv'
  BY <1>1, <1>2, ViewKeeps, ScannedKeeps DEF Iterator!Next
<1> QED BY <1>1, <1>2, <1>3, <1>4 DEF Idle, Scanning

\* find or rfind picks up the offset, and the iterator stays as it is.
LEMMA FoundKeeps ==
    ASSUME SearcherInv, NEW c \in {"find", "rfind"}, Found(c)
    PROVE  /\ SearcherInv' /\ caller = c /\ Idle'
           /\ ret' = [op |-> c, val |-> result.index]
           /\ UNCHANGED <<haystack, Iterator!Ahead>>
           /\ c = "find" => Vectors!FirstContract(slice, result.index)
           /\ c = "rfind" => Vectors!LastContract(slice, result.index)
<1>1. /\ Scanned(c) /\ caller = c /\ caller' = "none" /\ result.done /\ Scanning /\ ~ Scanning'
      /\ ret' = [op |-> c, val |-> result.index]
      /\ UNCHANGED <<haystack, scan_offset, match_base, match_bits, pc, n, remaining, entry, last>>
  BY DEF Found, Scanned, Scanning
<1>2. /\ op = IF c = "find" THEN "first_match" ELSE "last_match"
      /\ pc = "idle" /\ LeftAlone /\ Vectors!MeetsContract
  BY <1>1 DEF SearcherInv, CallInv, FindCalled, Vectors!ScanInv
<1>3. UNCHANGED <<haystack, Iterator!window, Iterator!nthVars, last>>
  BY <1>1, <1>2 DEF LeftAlone, Iterator!window, Iterator!nthVars
<1>4. Iterator!IInv'
  BY <1>3, Premises, Iterator!UnchangedIInv DEF SearcherInv
<1>5. Iterator!NthArgument'
  BY <1>1, <1>2 DEF Iterator!NthArgument
<1>6. SearcherInv'
  BY <1>1, <1>4, <1>5, ScannedKeeps
<1>7. UNCHANGED Iterator!Ahead
  BY <1>3 DEF Iterator!Ahead, Iterator!window, Iterator!MatchesIn
<1>8. /\ c = "find" => Vectors!FirstContract(slice, result.index)
      /\ c = "rfind" => Vectors!LastContract(slice, result.index)
  BY <1>1, <1>2 DEF Vectors!MeetsContract
<1> QED BY <1>1, <1>2, <1>6, <1>7, <1>8 DEF Idle

\* Nothing happens.
LEMMA SearcherUnchanged ==
    ASSUME SearcherInv, UNCHANGED vars
    PROVE  SearcherInv' /\ UNCHANGED Iterator!vars
<1>1. /\ UNCHANGED <<engine, native_width, zero, haystack, scan_offset, match_base, match_bits>>
      /\ UNCHANGED <<pc, n, remaining, ret, entry, last>>
      /\ UNCHANGED <<caller, slice, op, start, offset, total, result, before>>
  BY DEF vars, plan, iterVars, scanVars
<1>2. UNCHANGED Iterator!vars
  BY <1>1 DEF Scanning, Iterator!vars, Iterator!window, Iterator!nthVars
<1>3. UNCHANGED Vectors!ScanInv
  BY <1>1 DEF Vectors!ScanInv, Vectors!CallTypeOK, Vectors!PassedIsClear, Vectors!MeetsContract
<1>4. PlanInv'
  BY <1>1 DEF SearcherInv, PlanInv, Scanning
<1>5. CallInv'
  BY <1>1, <1>3 DEF SearcherInv, CallInv, Scanning, NextCalled, NthCalled, BatchCalled, CountCalled,
                    FindCalled, LeftAlone, Slice, BatchOf, MatchesIn
<1> QED BY <1>2, <1>4, <1>5, ScanCallKeeps
-----------------------------------------------------------------------------
(***************************************************************************)
(* The target memchr_n: the iterator and the scalar reference.             *)
(***************************************************************************)

\* What next, nth and count answer is settled when they are called.
ScalarInv ==
    /\ cursor \in Nat
    /\ caller \in {"none", "next", "nth", "count"}
    /\ Idle \/ caller = "count" => Iterator!Ahead = NotPassed
    /\ caller = "next" => Iterator!Answers(Iterator!Ahead, 0, expected, NotPassed)
    /\ pc = "nth" => Iterator!Answers(entry, n, expected, NotPassed)
    /\ AsExpected

\* The reference has passed every match when it says None.
DrainInv == phase = "rewind" \/ (phase = "drain" /\ expected = None) => NotPassed = {}

OperationsInv == SearcherInv /\ ScalarInv /\ DrainInv

\* The reference answers as Answers says, from the matches it has not passed.
LEMMA ExpectNthAnswers ==
    ASSUME SearcherInv, cursor \in Nat, NEW k, ExpectNth(k), UNCHANGED haystack
    PROVE  /\ cursor' \in Nat
           /\ Iterator!Answers(NotPassed, k, expected', NotPassed')
           /\ expected' = None => NotPassed' = {}
<1>1. IsHaystack(haystack) /\ haystack.len \in Nat
  BY SearcherFacts
<1>2. haystack.matches \in SUBSET Nat /\ \A m \in haystack.matches : m < haystack.len
  <2>1. haystack.matches \in SUBSET Nat /\ haystack.matches \in SUBSET (0 .. haystack.len - 1)
    BY <1>1 DEF IsHaystack
  <2> QED BY <1>1, <2>1
<1>3. \A S : Iterator!Cardinality(S) = Cardinality(S)
  BY DEF Iterator!Cardinality, Cardinality
<1>4. CASE Cardinality(NotPassed) <= k /\ Expect(None)
  <2>1. expected' = None /\ cursor' = haystack.len
    BY <1>4 DEF Expect
  <2>2. NotPassed' = {}
    BY <1>1, <1>2, <2>1 DEF NotPassed, MatchesIn
  <2> QED BY <1>1, <1>3, <1>4, <2>1, <2>2 DEF Iterator!Answers
<1>5. ASSUME NEW m \in NotPassed, Cardinality({a \in NotPassed : a < m}) = k, Expect(m)
      PROVE  /\ cursor' \in Nat
             /\ Iterator!Answers(NotPassed, k, expected', NotPassed')
             /\ expected' # None
  <2>1. m \in haystack.matches /\ cursor <= m /\ m \in Nat
    BY <1>2 DEF NotPassed, MatchesIn
  <2>2. m # None /\ expected' = m /\ cursor' = m + 1
    BY <1>5, <2>1, NoneAssumption DEF Expect
  <2>3. \A a \in haystack.matches : m + 1 <= a <=> cursor <= a /\ a > m
    BY <1>2, <2>1
  <2>4. NotPassed' = Iterator!Above(NotPassed, m)
    BY <2>2, <2>3 DEF NotPassed, MatchesIn, Iterator!Above
  <2>5. Iterator!Cardinality(Iterator!Under(NotPassed, m)) = k
    BY <1>3, <1>5 DEF Iterator!Under
  <2> QED BY <2>1, <2>2, <2>4, <2>5 DEF Iterator!Answers
<1> QED BY <1>4, <1>5 DEF ExpectNth

\* The iterator answers a call as it was expected to, when both had the same ahead.
LEMMA AnsweredAsExpected ==
    ASSUME SearcherInv, NEW A, A = Iterator!Ahead \/ A = entry, NEW k, NEW v, NEW w, NEW r, NEW t,
           Iterator!Answers(A, k, v, r), Iterator!Answers(A, k, w, t)
    PROVE  v = w /\ r = t
<1>1. A \in SUBSET Nat /\ Iterator!IsFiniteSet(A)
  BY Premises, Iterator!AheadFinite DEF SearcherInv
<1> QED BY <1>1, Premises, Iterator!AnswersUnique

\* What a step that is none of the iterator leaves alone.
LEMMA AheadUnchanged ==
    UNCHANGED Iterator!vars => UNCHANGED <<Iterator!Ahead, haystack, n, entry, ret, pc>>
BY DEF Iterator!vars, Iterator!Ahead, Iterator!window, Iterator!nthVars, Iterator!MatchesIn

\* next is called, and the reference steps, or says None when it has passed every match.
LEMMA NextExpected ==
    ASSUME SearcherInv, ScalarInv, CallNext, cursor' \in Nat,
           Iterator!Answers(NotPassed, 0, expected', NotPassed')
    PROVE  SearcherInv' /\ ScalarInv'
<1>1. /\ SearcherInv' /\ Idle
      /\ \/ caller' = "next" /\ pc' = pc /\ UNCHANGED Iterator!vars
         \/ Idle' /\ Iterator!IterNext
  BY CallNextKeeps
<1>2. Iterator!Answers(Iterator!Ahead, 0, expected', NotPassed')
  BY <1>1 DEF ScalarInv
<1>3. CASE caller' = "next" /\ pc' = pc /\ UNCHANGED Iterator!vars
  <2>1. UNCHANGED Iterator!Ahead /\ ~ Idle' /\ pc' = "idle"
    BY <1>1, <1>3, AheadUnchanged DEF Idle, Scanning
  <2> QED BY <1>1, <1>2, <1>3, <2>1 DEF ScalarInv, AsExpected
<1>4. CASE Idle' /\ Iterator!IterNext
  <2>1. ret'.op = "next" /\ Iterator!Answers(Iterator!Ahead, 0, ret'.val, Iterator!Ahead')
    BY <1>4, Premises, Iterator!NextAnswers DEF SearcherInv
  <2>2. ret'.val = expected' /\ Iterator!Ahead' = NotPassed'
    BY <1>2, <2>1, AnsweredAsExpected
  <2>3. caller' = "none" /\ pc' = "idle"
    BY <1>4 DEF Idle, Scanning
  <2> QED BY <1>1, <1>4, <2>1, <2>2, <2>3 DEF ScalarInv, AsExpected
<1> QED BY <1>1, <1>3, <1>4

\* nth is entered, and the reference steps as often.
LEMMA NthExpected ==
    ASSUME SearcherInv, ScalarInv, NEW k \in Steps, CallNth(k), ExpectNth(k)
    PROVE  SearcherInv' /\ ScalarInv' /\ (expected' = None => NotPassed' = {})
<1>1. /\ SearcherInv' /\ Idle /\ UNCHANGED haystack
      /\ pc' = "nth" /\ ~ Scanning' /\ Iterator!NthCall(k)
  BY CallNthKeeps
<1>2. /\ cursor' \in Nat
      /\ Iterator!Answers(NotPassed, k, expected', NotPassed')
      /\ expected' = None => NotPassed' = {}
  BY <1>1, ExpectNthAnswers DEF ScalarInv
<1>3. Iterator!Ahead = NotPassed
  BY <1>1 DEF ScalarInv
<1>4. entry' = NotPassed /\ n' = k
  BY <1>1, <1>3 DEF Iterator!NthCall
<1>5. caller' = "none" /\ ~ Idle'
  BY <1>1 DEF Idle, Scanning
<1> QED BY <1>1, <1>2, <1>4, <1>5 DEF ScalarInv, AsExpected

\* advance_to moves the reference's cursor, never back.
LEMMA AdvanceToExpected ==
    ASSUME SearcherInv, ScalarInv, NEW idx \in Indices, CallAdvanceTo(idx),
           cursor' = (IF idx > cursor THEN idx ELSE cursor), UNCHANGED expected
    PROVE  SearcherInv' /\ ScalarInv'
<1>1. /\ SearcherInv' /\ Idle /\ Idle' /\ UNCHANGED haystack
      /\ Iterator!AdvanceTo(idx)
  BY CallAdvanceToKeeps
<1>2. ret'.op = "advance_to" /\ Iterator!Ahead' = {a \in Iterator!Ahead : a >= idx}
  BY <1>1, Premises, Iterator!AdvanceToLeaves DEF SearcherInv
<1>3. IsHaystack(haystack) /\ cursor \in Nat /\ idx \in Nat
  BY SearcherFacts, ArgumentsAssumption DEF ScalarInv
<1>4. \A m \in haystack.matches : m \in Nat
  BY <1>3 DEF IsHaystack
<1>5. {a \in NotPassed : a >= idx} = NotPassed'
  <2>1. \A m \in haystack.matches : cursor' <= m <=> cursor <= m /\ m >= idx
    BY <1>3, <1>4
  <2> QED BY <1>1, <2>1 DEF NotPassed, MatchesIn
<1>6. Iterator!Ahead' = NotPassed'
  BY <1>1, <1>2, <1>5 DEF ScalarInv
<1>7. cursor' \in Nat /\ caller' = "none" /\ pc' = "idle"
  BY <1>1, <1>3 DEF Idle, Scanning
<1> QED BY <1>1, <1>2, <1>6, <1>7 DEF ScalarInv, AsExpected

\* count and size_hint leave the iterator where it is.
LEMMA GlanceExpected ==
    ASSUME SearcherInv, ScalarInv, CallCount \/ CallSizeHint, UNCHANGED scalar
    PROVE  SearcherInv' /\ ScalarInv' /\ UNCHANGED haystack
<1>1. UNCHANGED <<cursor, expected, phase>>
  BY DEF scalar
<1>2. ASSUME Idle, Idle', UNCHANGED <<haystack, Iterator!Ahead>>,
             \/ ret'.op = "size_hint"
             \/ ret'.op = "count" /\ ret'.total = Cardinality(Iterator!Ahead)
      PROVE  ScalarInv'
  <2>1. Iterator!Ahead = NotPassed /\ NotPassed' = NotPassed
    BY <1>1, <1>2 DEF ScalarInv, NotPassed
  <2>2. caller' = "none" /\ pc' = "idle"
    BY <1>2 DEF Idle, Scanning
  <2> QED BY <1>1, <1>2, <2>1, <2>2 DEF ScalarInv, AsExpected
<1>3. CASE CallCount
  <2>1. /\ SearcherInv' /\ Idle /\ UNCHANGED haystack
        /\ \/ caller' = "count" /\ pc' = pc /\ UNCHANGED Iterator!vars
           \/ Idle' /\ Iterator!Count
    BY <1>3, CallCountKeeps
  <2>2. CASE caller' = "count" /\ pc' = pc /\ UNCHANGED Iterator!vars
    <3>1. UNCHANGED Iterator!Ahead /\ ~ Idle' /\ pc' = "idle"
      BY <2>1, <2>2, AheadUnchanged DEF Idle, Scanning
    <3>2. Iterator!Ahead = NotPassed /\ NotPassed' = NotPassed
      BY <1>1, <2>1 DEF ScalarInv, NotPassed
    <3>3. ScalarInv'
      BY <1>1, <2>2, <3>1, <3>2 DEF ScalarInv, AsExpected
    <3> QED BY <2>1, <3>3
  <2>3. CASE Idle' /\ Iterator!Count
    <3>1. /\ ret' = [op |-> "count", total |-> Iterator!Cardinality(Iterator!Ahead)]
          /\ Iterator!Ahead' = Iterator!Ahead
      BY <2>3, Premises, Iterator!CountAnswers DEF SearcherInv
    <3>2. Iterator!Cardinality(Iterator!Ahead) = Cardinality(Iterator!Ahead)
      BY DEF Iterator!Cardinality, Cardinality
    <3> QED BY <1>2, <2>1, <2>3, <3>1, <3>2
  <2> QED BY <2>1, <2>2, <2>3
<1>4. CASE CallSizeHint
  <2>1. SearcherInv' /\ Idle /\ Idle' /\ UNCHANGED haystack /\ Iterator!SizeHint
    BY <1>4, CallSizeHintKeeps
  <2>2. ret'.op = "size_hint" /\ Iterator!Ahead' = Iterator!Ahead
    BY <2>1 DEF Iterator!SizeHint, Iterator!window, Iterator!Ahead, Iterator!MatchesIn
  <2> QED BY <1>2, <2>1, <2>2
<1> QED BY <1>3, <1>4

\* A call that has been made runs on, and answers as it was expected to.
LEMMA RunningExpected ==
    ASSUME SearcherInv, ScalarInv, Running, UNCHANGED scalar
    PROVE  SearcherInv' /\ ScalarInv' /\ UNCHANGED haystack
<1>1. UNCHANGED <<cursor, expected, phase>>
  BY DEF scalar
<1>2. caller \notin {"find", "rfind"}
  BY DEF ScalarInv
<1>3. CASE ScanStep
  <2>1. SearcherInv' /\ UNCHANGED Iterator!vars
    BY <1>3, ScanStepKeeps
  <2>2. ~ Idle /\ ~ Idle' /\ UNCHANGED <<caller, pc, n, entry, ret, haystack>>
    BY <1>3 DEF ScanStep, Idle, Scanning
  <2>3. UNCHANGED <<Iterator!Ahead, NotPassed>>
    BY <1>1, <2>1, <2>2, AheadUnchanged DEF NotPassed
  <2>4. ScalarInv'
    BY <1>1, <2>2, <2>3 DEF ScalarInv, AsExpected
  <2> QED BY <2>1, <2>2, <2>4
<1>4. CASE NextScanned
  <2>1. SearcherInv' /\ caller = "next" /\ Idle' /\ UNCHANGED haystack /\ Iterator!IterNext
    BY <1>4, NextScannedKeeps
  <2>2. ret'.op = "next" /\ Iterator!Answers(Iterator!Ahead, 0, ret'.val, Iterator!Ahead')
    BY <2>1, Premises, Iterator!NextAnswers DEF SearcherInv
  <2>3. Iterator!Answers(Iterator!Ahead, 0, expected, NotPassed)
    BY <2>1 DEF ScalarInv
  <2>4. ret'.val = expected /\ Iterator!Ahead' = NotPassed
    BY <2>2, <2>3, AnsweredAsExpected
  <2>5. caller' = "none" /\ pc' = "idle" /\ NotPassed' = NotPassed
    BY <1>1, <2>1 DEF Idle, Scanning, NotPassed
  <2>6. ScalarInv'
    BY <1>1, <2>1, <2>2, <2>4, <2>5 DEF ScalarInv, AsExpected
  <2> QED BY <2>1, <2>6
<1>5. CASE NthStep
  <2>1. /\ SearcherInv' /\ pc = "nth" /\ UNCHANGED haystack
        /\ \/ caller' = "nth" /\ pc' = pc /\ UNCHANGED Iterator!vars
           \/ ~ Scanning' /\ Iterator!NthStep
    BY <1>5, NthStepKeeps
  <2>2. Iterator!Answers(entry, n, expected, NotPassed) /\ NotPassed' = NotPassed
    BY <1>1, <2>1 DEF ScalarInv, NotPassed
  <2>3. ASSUME pc' = "nth", caller' \in {"none", "nth"}, UNCHANGED <<n, entry>>
        PROVE  ScalarInv'
    BY <1>1, <2>2, <2>3 DEF ScalarInv, AsExpected, Idle
  <2>4. CASE caller' = "nth" /\ pc' = pc /\ UNCHANGED Iterator!vars
    <3>1. ScalarInv'
      BY <2>1, <2>3, <2>4, AheadUnchanged
    <3> QED BY <2>1, <3>1
  <2>5. CASE ~ Scanning' /\ Iterator!NthStep
    <3>1. \/ pc' = "nth" /\ UNCHANGED <<n, entry, ret>>
          \/ pc' = "idle" /\ ret'.op = "nth"
               /\ Iterator!Answers(entry, n, ret'.val, Iterator!Ahead')
      BY <2>5, Premises, Iterator!NthAnswers DEF SearcherInv
    <3>2. caller' = "none"
      BY <2>5 DEF Scanning
    <3>3. CASE pc' = "nth" /\ UNCHANGED <<n, entry, ret>>
      BY <2>1, <2>3, <3>2, <3>3
    <3>4. CASE pc' = "idle" /\ ret'.op = "nth"
                 /\ Iterator!Answers(entry, n, ret'.val, Iterator!Ahead')
      <4>1. ret'.val = expected /\ Iterator!Ahead' = NotPassed
        BY <2>2, <3>4, AnsweredAsExpected
      <4>2. ScalarInv'
        BY <1>1, <2>2, <3>2, <3>4, <4>1 DEF ScalarInv, AsExpected
      <4> QED BY <2>1, <4>2
    <3> QED BY <3>1, <3>3, <3>4
  <2> QED BY <2>1, <2>4, <2>5
<1>6. CASE CountScanned
  <2>1. SearcherInv' /\ caller = "count" /\ Idle' /\ UNCHANGED haystack /\ Iterator!Count
    BY <1>6, CountScannedKeeps
  <2>2. /\ ret' = [op |-> "count", total |-> Iterator!Cardinality(Iterator!Ahead)]
        /\ Iterator!Ahead' = Iterator!Ahead
    BY <2>1, Premises, Iterator!CountAnswers DEF SearcherInv
  <2>3. Iterator!Cardinality(Iterator!Ahead) = Cardinality(Iterator!Ahead)
    BY DEF Iterator!Cardinality, Cardinality
  <2>4. Iterator!Ahead = NotPassed /\ NotPassed' = NotPassed
    BY <1>1, <2>1 DEF ScalarInv, NotPassed
  <2>5. caller' = "none" /\ pc' = "idle"
    BY <2>1 DEF Idle, Scanning
  <2>6. ScalarInv'
    BY <1>1, <2>2, <2>3, <2>4, <2>5 DEF ScalarInv, AsExpected
  <2> QED BY <2>1, <2>6
<1>7. ASSUME NEW c \in {"find", "rfind"}, Found(c) PROVE FALSE
  BY <1>2, <1>7 DEF Found, Scanned
<1> QED BY <1>3, <1>4, <1>5, <1>6, <1>7 DEF Running

\* Nothing happens.
LEMMA OperationsUnchanged ==
    ASSUME OperationsInv, UNCHANGED operationsVars PROVE OperationsInv'
<1>1. SearcherInv /\ UNCHANGED vars /\ UNCHANGED <<cursor, expected, phase>>
  BY DEF OperationsInv, operationsVars, scalar
<1>2. SearcherInv' /\ UNCHANGED Iterator!vars
  BY <1>1, SearcherUnchanged
<1>3. UNCHANGED <<Iterator!Ahead, haystack, caller, pc, n, entry, ret>>
  BY <1>1, <1>2, AheadUnchanged DEF vars, scanVars
<1>4. UNCHANGED <<NotPassed, Idle>>
  BY <1>1, <1>3 DEF NotPassed, Idle, Scanning
<1> QED BY <1>1, <1>2, <1>3, <1>4 DEF OperationsInv, ScalarInv, DrainInv, AsExpected

\* The reference's max.
LEMMA MaxOfTwo == ASSUME NEW a \in Nat, NEW b \in Nat PROVE Max({a, b}) = IF b > a THEN b ELSE a
<1>1. PICK w \in Nat : a <= w /\ b <= w
  <2>1. a <= a + b /\ b <= a + b /\ a + b \in Nat
    OBVIOUS
  <2> QED BY <2>1
<1>2. {a, b} \in SUBSET (0 .. w)
  BY <1>1
<1>3. Max({a, b}) \in {a, b} /\ \A c \in {a, b} : c <= Max({a, b})
  BY <1>1, <1>2, MaxNat
<1> QED BY <1>3

\* A rewind moves neither: an index of zero is never beyond the reference's cursor.
LEMMA RewindExpected ==
    ASSUME SearcherInv, ScalarInv, 0 \in Indices, CallAdvanceTo(0), UNCHANGED <<cursor, expected>>
    PROVE  SearcherInv' /\ ScalarInv'
<1>1. cursor \in Nat
  BY DEF ScalarInv
<1>2. cursor' = (IF 0 > cursor THEN 0 ELSE cursor)
  BY <1>1
<1> QED BY <1>2, AdvanceToExpected

\* Every step keeps what the iterator and the reference have in common.
LEMMA OperationsStep ==
    ASSUME 0 \in Indices, OperationsInv, OperationsNext
    PROVE  OperationsInv'
<1>1. SearcherInv /\ ScalarInv /\ DrainInv /\ cursor \in Nat
  BY DEF OperationsInv, ScalarInv
<1>2. ASSUME CallNext, scalar_next
      PROVE  SearcherInv' /\ ScalarInv' /\ (expected' = None => NotPassed' = {})
  <2>1. ExpectNth(0) /\ UNCHANGED haystack
    BY <1>1, <1>2, CallNextKeeps DEF scalar_next
  <2>2. /\ cursor' \in Nat
        /\ Iterator!Answers(NotPassed, 0, expected', NotPassed')
        /\ expected' = None => NotPassed' = {}
    BY <1>1, <2>1, ExpectNthAnswers
  <2> QED BY <1>1, <1>2, <2>2, NextExpected
<1>3. CASE OperationNext
  <2>1. SearcherInv' /\ ScalarInv' /\ phase' = "operations"
    BY <1>2, <1>3 DEF OperationNext
  <2> QED BY <2>1 DEF OperationsInv, DrainInv
<1>4. ASSUME NEW k \in Steps, OperationNth(k) PROVE OperationsInv'
  <2>1. SearcherInv' /\ ScalarInv' /\ phase' = "operations"
    BY <1>1, <1>4, NthExpected DEF OperationNth
  <2> QED BY <2>1 DEF OperationsInv, DrainInv
<1>5. ASSUME NEW idx \in Indices, OperationAdvanceTo(idx) PROVE OperationsInv'
  <2>1. /\ CallAdvanceTo(idx) /\ cursor' = Max({cursor, idx})
        /\ UNCHANGED expected /\ phase' = "operations"
    BY <1>5 DEF OperationAdvanceTo
  <2>2. idx \in Nat
    BY ArgumentsAssumption
  <2>3. Max({cursor, idx}) = IF idx > cursor THEN idx ELSE cursor
    BY <1>1, <2>2, MaxOfTwo
  <2>4. SearcherInv' /\ ScalarInv'
    BY <1>1, <2>1, <2>3, AdvanceToExpected
  <2> QED BY <2>1, <2>4 DEF OperationsInv, DrainInv
<1>6. CASE Glance
  <2>1. SearcherInv' /\ ScalarInv' /\ phase' = "operations"
    BY <1>1, <1>6, GlanceExpected DEF Glance, scalar
  <2> QED BY <2>1 DEF OperationsInv, DrainInv
<1>7. CASE DrainNext
  <2>1. SearcherInv' /\ ScalarInv' /\ phase' = "drain" /\ (expected' = None => NotPassed' = {})
    BY <1>2, <1>7 DEF DrainNext
  <2> QED BY <2>1 DEF OperationsInv, DrainInv
<1>8. CASE Rewind
  <2>1. /\ CallAdvanceTo(0) /\ UNCHANGED <<cursor, expected>> /\ phase' = "rewind"
        /\ NotPassed = {}
    BY <1>1, <1>8 DEF Rewind, DrainInv
  <2>2. SearcherInv' /\ ScalarInv'
    BY <1>1, <2>1, RewindExpected
  <2>3. UNCHANGED haystack
    BY <1>1, <2>1, CallAdvanceToKeeps
  <2>4. NotPassed' = {}
    BY <2>1, <2>3 DEF NotPassed
  <2> QED BY <2>2, <2>4 DEF OperationsInv, DrainInv
<1>9. CASE LastNext
  <2>1. /\ CallNext /\ expected' = None /\ phase' = "done" /\ cursor' = cursor
        /\ NotPassed = {}
    BY <1>1, <1>9 DEF LastNext, DrainInv
  <2>2. UNCHANGED haystack
    BY <1>1, <2>1, CallNextKeeps
  <2>3. NotPassed' = {}
    BY <2>1, <2>2 DEF NotPassed
  <2>4. Iterator!Cardinality({}) <= 0
    <3>1. Cardinality({}) = 0
      BY FS_EmptySet
    <3> QED BY <3>1 DEF Iterator!Cardinality, Cardinality
  <2>5. Iterator!Answers(NotPassed, 0, expected', NotPassed')
    BY <2>1, <2>3, <2>4 DEF Iterator!Answers
  <2>6. SearcherInv' /\ ScalarInv'
    BY <1>1, <2>1, <2>5, NextExpected
  <2> QED BY <2>1, <2>6 DEF OperationsInv, DrainInv
<1>10. CASE RunOn
  <2>1. SearcherInv' /\ ScalarInv' /\ UNCHANGED haystack /\ UNCHANGED <<cursor, expected, phase>>
    BY <1>1, <1>10, RunningExpected DEF RunOn, scalar
  <2>2. UNCHANGED NotPassed
    BY <2>1 DEF NotPassed
  <2> QED BY <1>1, <2>1, <2>2 DEF OperationsInv, DrainInv
<1>11. CASE Finished
  BY <1>11, OperationsUnchanged DEF Finished
<1> QED BY <1>3, <1>4, <1>5, <1>6, <1>7, <1>8, <1>9, <1>10, <1>11 DEF OperationsNext

\* Both start at the first byte.
LEMMA InitOperationsInv == OperationsInit => OperationsInv
<1> SUFFICES ASSUME OperationsInit PROVE OperationsInv
  OBVIOUS
<1>1. /\ Init /\ cursor = 0 /\ phase = "operations"
      /\ SearcherInv /\ Iterator!Init /\ Idle
  BY InitSearcherInv DEF OperationsInit
<1>2. /\ caller = "none" /\ pc = "idle" /\ ret.op = "iter"
      /\ match_bits = {} /\ scan_offset = 0
  BY <1>1 DEF Idle, Scanning, Iterator!Init, Init, Lazy!Init
<1>3. Iterator!Ahead = NotPassed
  BY <1>1, <1>2 DEF Iterator!Ahead, Iterator!MatchesIn, Scanning, NotPassed, MatchesIn
<1> QED BY <1>1, <1>2, <1>3 DEF OperationsInv, ScalarInv, DrainInv, AsExpected

\* A step of the searcher is one of its iterator, or none.
LEMMA StepOfIterator ==
    ASSUME SearcherInv,
           \/ CallNext \/ CallCount \/ CallSizeHint
           \/ \E k \in Steps : CallNth(k)
           \/ \E idx \in Indices : CallAdvanceTo(idx)
           \/ ScanStep \/ NextScanned \/ NthStep \/ CountScanned
    PROVE  [Iterator!Next]_(Iterator!vars)
<1> USE DEF Iterator!Next
<1>1. CASE CallNext
  BY <1>1, CallNextKeeps
<1>2. CASE CallCount
  BY <1>2, CallCountKeeps
<1>3. CASE CallSizeHint
  BY <1>3, CallSizeHintKeeps
<1>4. ASSUME NEW k \in Steps, CallNth(k) PROVE Iterator!Next
  BY <1>4, CallNthKeeps
<1>5. ASSUME NEW idx \in Indices, CallAdvanceTo(idx) PROVE Iterator!Next
  BY <1>5, CallAdvanceToKeeps
<1>6. CASE ScanStep
  BY <1>6, ScanStepKeeps
<1>7. CASE NextScanned
  BY <1>7, NextScannedKeeps
<1>8. CASE NthStep
  BY <1>8, NthStepKeeps
<1>9. CASE CountScanned
  BY <1>9, CountScannedKeeps
<1> QED BY <1>1, <1>2, <1>3, <1>4, <1>5, <1>6, <1>7, <1>8, <1>9

\* The target's steps are the iterator's, for it calls neither find nor rfind.
LEMMA OperationsStepOfIterator ==
    ASSUME 0 \in Indices, OperationsInv, [OperationsNext]_operationsVars
    PROVE  [Iterator!Next]_(Iterator!vars)
<1>1. SearcherInv /\ caller \notin {"find", "rfind"}
  BY DEF OperationsInv, ScalarInv
<1>2. CASE UNCHANGED operationsVars
  BY <1>1, <1>2, SearcherUnchanged DEF operationsVars
<1>3. CASE RunOn
  <2>1. ASSUME NEW c \in {"find", "rfind"}, Found(c) PROVE FALSE
    BY <1>1, <2>1 DEF Found, Scanned
  <2> QED BY <1>1, <1>3, <2>1, StepOfIterator DEF RunOn, Running
<1>4. CASE \/ OperationNext \/ Glance \/ DrainNext \/ Rewind \/ LastNext
           \/ \E k \in Steps : OperationNth(k)
           \/ \E idx \in Indices : OperationAdvanceTo(idx)
  BY <1>1, <1>4, StepOfIterator
     DEF OperationNext, OperationNth, OperationAdvanceTo, Glance, DrainNext, Rewind, LastNext
<1>5. CASE Finished
  BY <1>2, <1>5 DEF Finished
<1> QED BY <1>2, <1>3, <1>4, <1>5 DEF OperationsNext

\* What the plan's callers rely on is part of the loops' invariant.
LEMMA SearcherContract == SearcherInv => PlanKeepsContract
BY DEF SearcherInv, CallInv, PlanKeepsContract, Vectors!ScanInv, Vectors!MeetsContract,
       Swar!MeetsContract, Vectors!BatchContract, Swar!BatchContract, Vectors!CountContract,
       Swar!CountContract, Vectors!FirstContract, Swar!FirstContract, Vectors!LastContract,
       Swar!LastContract, Vectors!MatchesIn, Swar!MatchesIn, Vectors!BatchOf, Swar!BatchOf,
       Vectors!Cardinality, Swar!Cardinality

\* SearchPlan's assert_uncheckeds and debug_asserts hold in the target memchr_n:
\* every engine keeps the contract of ScanOps on what next, nth and count hand it.
THEOREM OperationsKeepContract ==
    ASSUME 0 \in Indices PROVE OperationsSpec => []PlanKeepsContract
<1>1. OperationsInv /\ [OperationsNext]_operationsVars => OperationsInv'
  BY OperationsStep, OperationsUnchanged
<1>2. OperationsInv => PlanKeepsContract
  BY SearcherContract DEF OperationsInv
<1> QED BY <1>1, <1>2, InitOperationsInv, PTL DEF OperationsSpec

\* The assert_eq!s of the target memchr_n: next and nth answer what the scalar
\* reference answers, and count counts what it has not passed.
THEOREM OperationsAnswerAsExpected ==
    ASSUME 0 \in Indices PROVE OperationsSpec => []AsExpected
<1>1. OperationsInv /\ [OperationsNext]_operationsVars => OperationsInv'
  BY OperationsStep, OperationsUnchanged
<1>2. OperationsInv => AsExpected
  BY DEF OperationsInv, ScalarInv
<1> QED BY <1>1, <1>2, InitOperationsInv, PTL DEF OperationsSpec

\* A new iterator is one of module Iter.
LEMMA InitComposed == Init => Composed!Init
BY DEF Init, NoScan, Scanning, Lazy!Init, Composed!Init

\* An iterator over the loops of an engine is one over the contract of ScanOps: the
\* target's every run is, through SearchPlan, a run of module Iter.
THEOREM OperationsImplementIter ==
    ASSUME 0 \in Indices PROVE OperationsSpec => IterSpec
<1>1. OperationsInv /\ [OperationsNext]_operationsVars => OperationsInv'
  BY OperationsStep, OperationsUnchanged
<1>2. OperationsInv /\ [OperationsNext]_operationsVars => [Composed!Next]_(Composed!vars)
  BY OperationsStepOfIterator, IteratorIsComposed
<1>3. OperationsInit => Composed!Init
  BY InitComposed DEF OperationsInit
<1> QED BY <1>1, <1>2, <1>3, InitOperationsInv, PTL DEF OperationsSpec, IterSpec, Composed!Spec
-----------------------------------------------------------------------------
(***************************************************************************)
(* The target fuzzer: one searcher, asked in four ways.                    *)
(***************************************************************************)

\* The iterator being collected, or counted, has what the target expects ahead of it.
IteratedInv ==
    /\ stage = "collect" /\ Idle => Iterator!Ahead = left
    /\ stage = "count" => Idle /\ Iterator!Ahead = haystack.matches
    /\ caller = "next" =>
         /\ stage \in {"collect", "iter"}
         /\ Iterator!Answers(Iterator!Ahead, 0, answer, IF stage = "collect" THEN left ELSE {})
    /\ caller = "count" =>
         /\ stage = "last"
         /\ Iterator!Ahead = haystack.matches
         /\ answer = Cardinality(haystack.matches)

\* The slice that is searched has the offsets still to be met.
SlicedInv ==
    /\ stage = "last" => left = haystack.matches
    /\ stage = "rfind" => left = MatchesIn(haystack, 0, edge)
    /\ stage = "find" => left = MatchesIn(haystack, edge, haystack.len)
    /\ caller = "rfind" => stage \in {"rfind", "find"} /\ LastContract(slice, answer)
    /\ caller = "find" => stage \in {"find", "done"} /\ FirstContract(slice, answer)

\* What next, count, find and rfind answer is settled when they are called.
AgreementInv ==
    /\ SearcherInv
    /\ pc = "idle"
    /\ left \in SUBSET haystack.matches
    /\ edge \in Nat /\ edge <= haystack.len
    /\ IteratedInv
    /\ SlicedInv
    /\ Agreed

\* The list of offsets the target expects.
LEMMA MatchesFacts ==
    ASSUME SearcherInv
    PROVE  /\ haystack.len \in Nat /\ haystack.matches \in SUBSET Nat
           /\ \A m \in haystack.matches : m < haystack.len
           /\ haystack.matches \in SUBSET (0 .. haystack.len)
<1>1. haystack.len \in Nat /\ haystack.matches \in SUBSET Nat
      /\ haystack.matches \in SUBSET (0 .. haystack.len - 1)
  BY SearcherFacts DEF IsHaystack
<1> QED BY <1>1

\* next is to answer with the first offset of the list, and leave the others.
LEMMA FirstOfList ==
    ASSUME NEW S \in SUBSET Nat
    PROVE  /\ S = {} => Iterator!Answers(S, 0, None, {})
           /\ S # {} => Iterator!Answers(S, 0, Min(S), S \ {Min(S)})
<1>1. Iterator!Cardinality({}) = 0
  <2>1. Cardinality({}) = 0
    BY FS_EmptySet
  <2> QED BY <2>1 DEF Iterator!Cardinality, Cardinality
<1>2. CASE S = {}
  BY <1>1, <1>2 DEF Iterator!Answers
<1>3. CASE S # {}
  <2>1. Min(S) \in S /\ Min(S) \in Nat /\ \A x \in S : x \in Nat /\ Min(S) <= x
    BY <1>3, MinNat
  <2>2. \A x \in S : ~ (x < Min(S)) /\ (x > Min(S) <=> x # Min(S))
    <3> HIDE <1>3
    <3> DEFINE m == Min(S)
    <3>1. m \in Nat /\ \A x \in S : x \in Nat /\ m <= x
      BY <2>1
    <3> HIDE DEF m
    <3>2. \A x \in S : ~ (x < m) /\ (x > m <=> x # m)
      BY <3>1
    <3> QED BY <3>2 DEF m
  <2>3. Iterator!Under(S, Min(S)) = {} /\ Iterator!Above(S, Min(S)) = S \ {Min(S)}
    BY <2>2, Zenon DEF Iterator!Under, Iterator!Above
  <2> QED BY <1>1, <1>3, <2>1, <2>3 DEF Iterator!Answers
<1> QED BY <1>2, <1>3

\* The first iterator is collected.
LEMMA CollectAgrees ==
    ASSUME AgreementInv, Collect PROVE AgreementInv'
<1> DEFINE rest == IF stage' = "collect" THEN left' ELSE {}
<1>1. /\ SearcherInv /\ stage = "collect" /\ CallNext /\ left \in SUBSET haystack.matches
      /\ edge \in Nat /\ edge <= haystack.len
  BY DEF AgreementInv, Collect
<1>2. /\ SearcherInv' /\ Idle /\ UNCHANGED haystack
      /\ \/ caller' = "next" /\ pc' = pc /\ UNCHANGED Iterator!vars
         \/ Idle' /\ Iterator!IterNext
  BY <1>1, CallNextKeeps
<1>3. haystack.len \in Nat /\ haystack.matches \in SUBSET Nat /\ left \in SUBSET Nat
  BY <1>1, MatchesFacts
<1>4. /\ Iterator!Answers(left, 0, answer', rest)
      /\ stage' \in {"collect", "iter"} /\ left' \in SUBSET haystack.matches
      /\ edge' \in Nat /\ edge' <= haystack.len
  <2>1. CASE left = {} /\ answer' = None /\ Begin("iter", 0)
    <3>1. Iterator!Answers(left, 0, None, {})
      BY <1>3, <2>1, FirstOfList
    <3> QED BY <1>3, <2>1, <3>1 DEF Begin
  <2>2. CASE left # {} /\ answer' = Min(left) /\ GoOn(Min(left), edge)
    <3>1. Iterator!Answers(left, 0, Min(left), left \ {Min(left)})
      BY <1>3, <2>2, FirstOfList
    <3> QED BY <1>1, <2>2, <3>1 DEF GoOn
  <2> QED BY <2>1, <2>2 DEF Collect
<1>5. Iterator!Ahead = left
  BY <1>1, <1>2 DEF AgreementInv, IteratedInv
<1> HIDE DEF rest
<1>6. CASE caller' = "next" /\ pc' = pc /\ UNCHANGED Iterator!vars
  <2>1. UNCHANGED Iterator!Ahead /\ ~ Idle' /\ pc' = "idle"
    BY <1>2, <1>6, AheadUnchanged DEF Idle, Scanning
  <2>2. IteratedInv' /\ SlicedInv' /\ Agreed'
    BY <1>4, <1>5, <1>6, <2>1 DEF IteratedInv, SlicedInv, Agreed, rest
  <2> QED BY <1>2, <1>4, <2>1, <2>2 DEF AgreementInv
<1>7. CASE Idle' /\ Iterator!IterNext
  <2>1. ret'.op = "next" /\ Iterator!Answers(left, 0, ret'.val, Iterator!Ahead')
    BY <1>1, <1>5, <1>7, Premises, Iterator!NextAnswers DEF SearcherInv
  <2>2. ret'.val = answer' /\ Iterator!Ahead' = rest
    BY <1>1, <1>4, <1>5, <2>1, AnsweredAsExpected
  <2>3. caller' = "none" /\ pc' = "idle"
    BY <1>7 DEF Idle, Scanning
  <2>4. IteratedInv' /\ SlicedInv' /\ Agreed'
    BY <1>4, <1>7, <2>1, <2>2, <2>3 DEF IteratedInv, SlicedInv, Agreed, rest
  <2> QED BY <1>2, <1>4, <2>3, <2>4 DEF AgreementInv
<1> QED BY <1>2, <1>6, <1>7

\* The second one has every match ahead.
LEMMA NewIterAgrees ==
    ASSUME AgreementInv, NewIter PROVE AgreementInv'
<1>1. /\ SearcherInv /\ pc = "idle" /\ caller = "none" /\ ~ Scanning /\ ~ Scanning'
      /\ scan_offset' = 0 /\ match_base' = 0 /\ match_bits' = {} /\ last' = -1
      /\ ret'.op = "iter" /\ stage' = "count"
      /\ UNCHANGED <<engine, native_width, zero, caller, slice, haystack, pc, n, remaining, entry>>
      /\ UNCHANGED <<left, edge>>
  BY DEF AgreementInv, NewIter, Idle, Scanning, plan, scanVars
<1>2. Iterator!IInv' /\ Iterator!Ahead' = haystack.matches
  BY <1>1, Premises, Iterator!NewIterIInv DEF SearcherInv
<1>3. SearcherInv'
  BY <1>1, <1>2 DEF SearcherInv, PlanInv, CallInv, Iterator!NthArgument
<1>4. IteratedInv' /\ SlicedInv' /\ Agreed'
  BY <1>1, <1>2 DEF IteratedInv, SlicedInv, Agreed, Idle
<1> QED BY <1>1, <1>3, <1>4 DEF AgreementInv

\* It is counted.
LEMMA CountAllAgrees ==
    ASSUME AgreementInv, CountAll PROVE AgreementInv'
<1>1. /\ SearcherInv /\ CallCount /\ Iterator!Ahead = haystack.matches
      /\ answer' = Cardinality(haystack.matches)
      /\ stage' = "last" /\ left' = haystack.matches /\ edge' = 0
  BY DEF AgreementInv, IteratedInv, CountAll, Begin
<1>2. /\ SearcherInv' /\ Idle /\ UNCHANGED haystack
      /\ \/ caller' = "count" /\ pc' = pc /\ UNCHANGED Iterator!vars
         \/ Idle' /\ Iterator!Count
  BY <1>1, CallCountKeeps
<1>3. 0 \in Nat /\ 0 <= haystack.len
  BY <1>1, MatchesFacts
<1>4. CASE caller' = "count" /\ pc' = pc /\ UNCHANGED Iterator!vars
  <2>1. UNCHANGED Iterator!Ahead /\ ~ Idle' /\ pc' = "idle"
    BY <1>2, <1>4, AheadUnchanged DEF Idle, Scanning
  <2>2. IteratedInv' /\ SlicedInv' /\ Agreed'
    BY <1>1, <1>2, <1>4, <2>1 DEF IteratedInv, SlicedInv, Agreed
  <2> QED BY <1>1, <1>2, <1>3, <2>1, <2>2 DEF AgreementInv
<1>5. CASE Idle' /\ Iterator!Count
  <2>1. ret' = [op |-> "count", total |-> Iterator!Cardinality(Iterator!Ahead)]
    BY <1>1, <1>5, Premises, Iterator!CountAnswers DEF SearcherInv
  <2>2. Iterator!Cardinality(Iterator!Ahead) = answer'
    BY <1>1 DEF Iterator!Cardinality, Cardinality
  <2>3. caller' = "none" /\ pc' = "idle"
    BY <1>5 DEF Idle, Scanning
  <2>4. IteratedInv' /\ SlicedInv' /\ Agreed'
    BY <1>1, <1>2, <2>1, <2>2, <2>3 DEF IteratedInv, SlicedInv, Agreed
  <2> QED BY <1>1, <1>2, <1>3, <2>3, <2>4 DEF AgreementInv
<1> QED BY <1>2, <1>4, <1>5
-----------------------------------------------------------------------------
\* find or rfind is called on a part of the haystack, and is to answer as its slice says.
LEMMA FindAgrees ==
    ASSUME AgreementInv, NEW from \in Nat, NEW to \in Nat, from <= to, to <= haystack.len,
           \/ CallRfind(from, to) /\ stage' \in {"rfind", "find"}
                /\ LastContract(Slice(from, to), answer')
           \/ CallFind(from, to) /\ stage' \in {"find", "done"}
                /\ FirstContract(Slice(from, to), answer'),
           left' \in SUBSET haystack.matches, edge' \in Nat, edge' <= haystack.len,
           stage' = "rfind" => left' = MatchesIn(haystack, 0, edge'),
           stage' = "find" => left' = MatchesIn(haystack, edge', haystack.len)
    PROVE  AgreementInv'
<1>1. SearcherInv /\ (CallFind(from, to) \/ CallRfind(from, to))
  BY DEF AgreementInv
<1>2. SearcherInv' /\ slice' = Slice(from, to)
  BY <1>1, FindKeeps
<1>3. /\ pc' = "idle" /\ UNCHANGED haystack
      /\ \/ caller' = "rfind" /\ stage' \in {"rfind", "find"} /\ LastContract(slice', answer')
         \/ caller' = "find" /\ stage' \in {"find", "done"} /\ FirstContract(slice', answer')
  BY <1>2 DEF CallFind, CallRfind, Scan
<1>4. ~ Idle'
  BY <1>3 DEF Idle, Scanning
<1>5. IteratedInv' /\ Agreed'
  BY <1>3, <1>4 DEF IteratedInv, Agreed
<1>6. SlicedInv'
  BY <1>3 DEF SlicedInv, LastContract, FirstContract
<1> QED BY <1>2, <1>3, <1>5, <1>6 DEF AgreementInv

\* rfind on the haystack.
LEMMA FindLastAgrees ==
    ASSUME AgreementInv, FindLast PROVE AgreementInv'
<1>1. /\ SearcherInv /\ left = haystack.matches
      /\ CallRfind(0, haystack.len)
      /\ answer' = IF left = {} THEN None ELSE Max(left)
      /\ stage' = "rfind" /\ left' = haystack.matches /\ edge' = haystack.len
  BY DEF AgreementInv, SlicedInv, FindLast, Begin
<1>2. /\ haystack.len \in Nat /\ haystack.matches \in SUBSET Nat
      /\ \A m \in haystack.matches : m < haystack.len
      /\ haystack.matches \in SUBSET (0 .. haystack.len)
  BY <1>1, MatchesFacts
<1>3. Slice(0, haystack.len) = haystack
  BY <1>1, SearcherFacts, WholeSlice
<1>4. LastContract(haystack, answer')
  BY <1>1, <1>2, MaxNat DEF LastContract
<1>5. left' = MatchesIn(haystack, 0, edge')
  <2>1. \A m \in haystack.matches : 0 <= m /\ m < haystack.len
    BY <1>2
  <2> QED BY <1>1, <2>1 DEF MatchesIn
<1>6. /\ 0 \in Nat /\ 0 <= haystack.len /\ haystack.len <= haystack.len
      /\ edge' \in Nat /\ edge' <= haystack.len
  BY <1>1, <1>2
<1> QED BY <1>1, <1>2, <1>3, <1>4, <1>5, <1>6, FindAgrees

\* rfind on the prefix before the last offset found: its matches are those left.
LEMMA FindBeforeAgrees ==
    ASSUME AgreementInv, FindBefore PROVE AgreementInv'
<1>1. /\ SearcherInv /\ left = MatchesIn(haystack, 0, edge) /\ left \in SUBSET haystack.matches
      /\ edge \in Nat /\ edge <= haystack.len /\ CallRfind(0, edge)
      /\ \/ left = {} /\ answer' = None /\ stage' = "find" /\ left' = haystack.matches /\ edge' = 0
         \/ /\ left # {} /\ answer' = Max(left) /\ stage' = "rfind"
            /\ left' = left \ {Max(left)} /\ edge' = Max(left)
  BY DEF AgreementInv, SlicedInv, FindBefore, Begin, GoOn
<1>2. /\ haystack.len \in Nat /\ haystack.matches \in SUBSET Nat
      /\ \A m \in haystack.matches : m < haystack.len
      /\ haystack.matches \in SUBSET (0 .. haystack.len)
  BY <1>1, MatchesFacts
<1>3. left # {} => /\ Max(left) \in left /\ Max(left) \in Nat /\ Max(left) < edge
                   /\ \A m \in left : m <= Max(left)
  <2>1. left \in SUBSET (0 .. haystack.len)
    BY <1>1, <1>2
  <2>2. left # {} => Max(left) \in left /\ \A m \in left : m <= Max(left)
    BY <1>2, <2>1, MaxNat
  <2> QED BY <1>1, <1>2, <2>2 DEF MatchesIn
<1>4. Slice(0, edge).matches = left
  <2>1. \A m \in left : m - 0 = m
    BY <1>1, <1>2
  <2> QED BY <1>1, <2>1 DEF Slice, BatchOf
<1>5. LastContract(Slice(0, edge), answer')
  BY <1>1, <1>3, <1>4 DEF LastContract
<1>6. stage' = "find" => left' = MatchesIn(haystack, edge', haystack.len)
  <2>1. \A m \in haystack.matches : 0 <= m /\ m < haystack.len
    BY <1>2
  <2> QED BY <1>1, <2>1 DEF MatchesIn
<1>7. stage' = "rfind" => left' = MatchesIn(haystack, 0, edge')
  <2>1. ASSUME left # {}
        PROVE  \A m \in haystack.matches :
                 (0 <= m /\ m < Max(left)) <=> (0 <= m /\ m < edge /\ m # Max(left))
    <3>1. \A m \in haystack.matches : 0 <= m /\ m < edge => m <= Max(left)
      BY <1>1, <1>3, <2>1 DEF MatchesIn
    <3> QED BY <1>1, <1>2, <1>3, <2>1, <3>1
  <2> QED BY <1>1, <2>1 DEF MatchesIn
<1>8. /\ 0 \in Nat /\ 0 <= edge /\ 0 <= haystack.len
      /\ edge' \in Nat /\ edge' <= haystack.len /\ left' \in SUBSET haystack.matches
  BY <1>1, <1>2, <1>3
<1>9. stage' \in {"rfind", "find"}
  BY <1>1
<1> QED BY <1>1, <1>5, <1>6, <1>7, <1>8, <1>9, FindAgrees

\* find on the suffix after the last offset found: its matches are those left.
LEMMA FindAfterAgrees ==
    ASSUME AgreementInv, FindAfter PROVE AgreementInv'
<1>1. /\ SearcherInv /\ left = MatchesIn(haystack, edge, haystack.len)
      /\ left \in SUBSET haystack.matches
      /\ edge \in Nat /\ edge <= haystack.len /\ CallFind(edge, haystack.len)
      /\ \/ left = {} /\ answer' = None /\ stage' = "done" /\ left' = haystack.matches /\ edge' = 0
         \/ /\ left # {} /\ answer' = Min(left) - edge /\ stage' = "find"
            /\ left' = left \ {Min(left)} /\ edge' = Min(left) + 1
  BY DEF AgreementInv, SlicedInv, FindAfter, Begin, GoOn
<1>2. /\ haystack.len \in Nat /\ haystack.matches \in SUBSET Nat
      /\ \A m \in haystack.matches : m < haystack.len
  BY <1>1, MatchesFacts
<1>3. left # {} => /\ Min(left) \in left /\ Min(left) \in Nat
                   /\ edge <= Min(left) /\ Min(left) < haystack.len
                   /\ \A m \in left : m \in Nat /\ Min(left) <= m
  <2>1. left \in SUBSET Nat
    BY <1>1, <1>2
  <2>2. left # {} => Min(left) \in left /\ \A m \in left : m \in Nat /\ Min(left) <= m
    BY <2>1, MinNat
  <2> QED BY <1>1, <1>2, <2>2 DEF MatchesIn
<1>4. Slice(edge, haystack.len).matches = {m - edge : m \in left}
  BY <1>1 DEF Slice, BatchOf
<1>5. FirstContract(Slice(edge, haystack.len), answer')
  <2>1. CASE left = {}
    BY <1>1, <1>4, <2>1 DEF FirstContract
  <2>2. CASE left # {}
    <3>1. \A m \in left : Min(left) - edge <= m - edge
      BY <1>1, <1>3, <2>2
    <3> QED BY <1>1, <1>3, <1>4, <2>2, <3>1 DEF FirstContract
  <2> QED BY <2>1, <2>2
<1>6. stage' = "find" => left' = MatchesIn(haystack, edge', haystack.len)
  <2>1. ASSUME left # {}
        PROVE  \A m \in haystack.matches :
                 Min(left) + 1 <= m <=> edge <= m /\ m # Min(left)
    <3>1. \A m \in haystack.matches : edge <= m => Min(left) <= m
      BY <1>1, <1>2, <1>3, <2>1 DEF MatchesIn
    <3> QED BY <1>1, <1>2, <1>3, <2>1, <3>1
  <2> QED BY <1>1, <2>1 DEF MatchesIn
<1>7. /\ haystack.len <= haystack.len
      /\ edge' \in Nat /\ edge' <= haystack.len /\ left' \in SUBSET haystack.matches
  BY <1>1, <1>2, <1>3
<1>8. stage' \in {"find", "done"}
  BY <1>1
<1> QED BY <1>1, <1>2, <1>5, <1>6, <1>7, <1>8, FindAgrees
-----------------------------------------------------------------------------
\* A call that has been made runs on, and answers as the others did.
LEMMA AskedRunsOnAgrees ==
    ASSUME AgreementInv, AskedRunsOn PROVE AgreementInv'
<1>1. SearcherInv /\ pc = "idle" /\ UNCHANGED <<stage, left, edge, answer>>
  BY DEF AgreementInv, AskedRunsOn, asked
<1>2. CASE ScanStep
  <2>1. SearcherInv' /\ UNCHANGED Iterator!vars
    BY <1>1, <1>2, ScanStepKeeps
  <2>2. ~ Idle /\ ~ Idle' /\ UNCHANGED <<caller, pc, haystack>>
    BY <1>2 DEF ScanStep, Idle, Scanning
  <2>3. UNCHANGED slice
    BY <1>2, EngineLeaves DEF ScanStep
  <2>4. UNCHANGED Iterator!Ahead
    BY <2>1, AheadUnchanged
  <2>5. IteratedInv'
    BY <1>1, <2>2, <2>4 DEF AgreementInv, IteratedInv
  <2>6. SlicedInv' /\ Agreed'
    BY <1>1, <2>2, <2>3 DEF AgreementInv, SlicedInv, Agreed
  <2> QED BY <1>1, <2>1, <2>2, <2>5, <2>6 DEF AgreementInv
<1>3. CASE NextScanned
  <2>1. SearcherInv' /\ caller = "next" /\ Idle' /\ UNCHANGED haystack /\ Iterator!IterNext
    BY <1>1, <1>3, NextScannedKeeps
  <2>2. ret'.op = "next" /\ Iterator!Answers(Iterator!Ahead, 0, ret'.val, Iterator!Ahead')
    BY <1>1, <2>1, Premises, Iterator!NextAnswers DEF SearcherInv
  <2>3. /\ stage \in {"collect", "iter"}
        /\ Iterator!Answers(Iterator!Ahead, 0, answer, IF stage = "collect" THEN left ELSE {})
    BY <2>1 DEF AgreementInv, IteratedInv
  <2>4. ret'.val = answer /\ Iterator!Ahead' = IF stage = "collect" THEN left ELSE {}
    BY <1>1, <2>2, <2>3, AnsweredAsExpected
  <2>5. caller' = "none" /\ pc' = "idle"
    BY <2>1 DEF Idle, Scanning
  <2>6. IteratedInv' /\ SlicedInv' /\ Agreed'
    BY <1>1, <2>2, <2>3, <2>4, <2>5 DEF IteratedInv, SlicedInv, Agreed
  <2> QED BY <1>1, <2>1, <2>5, <2>6 DEF AgreementInv
<1>4. CASE NthStep
  BY <1>1, <1>4, NthStepKeeps
<1>5. CASE CountScanned
  <2>1. SearcherInv' /\ caller = "count" /\ Idle' /\ UNCHANGED haystack /\ Iterator!Count
    BY <1>1, <1>5, CountScannedKeeps
  <2>2. ret' = [op |-> "count", total |-> Iterator!Cardinality(Iterator!Ahead)]
    BY <1>1, <2>1, Premises, Iterator!CountAnswers DEF SearcherInv
  <2>3. stage = "last" /\ Iterator!Cardinality(Iterator!Ahead) = answer
    BY <2>1 DEF AgreementInv, IteratedInv, Iterator!Cardinality, Cardinality
  <2>4. caller' = "none" /\ pc' = "idle"
    BY <2>1 DEF Idle, Scanning
  <2>5. IteratedInv' /\ SlicedInv' /\ Agreed'
    BY <1>1, <2>1, <2>2, <2>3, <2>4 DEF AgreementInv, IteratedInv, SlicedInv, Agreed
  <2> QED BY <1>1, <2>1, <2>4, <2>5 DEF AgreementInv
<1>6. ASSUME NEW c \in {"find", "rfind"}, Found(c) PROVE AgreementInv'
  <2>1. /\ SearcherInv' /\ caller = c /\ Idle'
        /\ ret' = [op |-> c, val |-> result.index]
        /\ UNCHANGED haystack
        /\ c = "find" => Vectors!FirstContract(slice, result.index)
        /\ c = "rfind" => Vectors!LastContract(slice, result.index)
    BY <1>1, <1>6, FoundKeeps
  <2>2. /\ c = "find" => FirstContract(slice, answer) /\ FirstContract(slice, result.index)
        /\ c = "rfind" => LastContract(slice, answer) /\ LastContract(slice, result.index)
    BY <2>1 DEF AgreementInv, SlicedInv, Vectors!FirstContract, Vectors!LastContract,
                FirstContract, LastContract
  <2>3. \A m \in slice.matches : m \in Nat
    <3>1. Vectors!ScanInv
      BY <1>1, <1>6, <2>1 DEF SearcherInv, CallInv, Scanning
    <3> QED BY <3>1 DEF Vectors!ScanInv, Vectors!CallTypeOK, Vectors!IsHaystack
  <2>4. result.index = answer
    BY <2>2, <2>3 DEF FirstContract, LastContract
  <2>5. stage \in {"rfind", "find", "done"} /\ caller' = "none" /\ pc' = "idle"
    BY <2>1 DEF AgreementInv, SlicedInv, Idle, Scanning
  <2>6. IteratedInv' /\ SlicedInv' /\ Agreed'
    BY <1>1, <2>1, <2>4, <2>5 DEF AgreementInv, IteratedInv, SlicedInv, Agreed
  <2> QED BY <1>1, <2>1, <2>5, <2>6 DEF AgreementInv
<1> QED BY <1>2, <1>3, <1>4, <1>5, <1>6 DEF AskedRunsOn, Running

\* Nothing happens.
LEMMA AgreementUnchanged ==
    ASSUME AgreementInv, UNCHANGED agreementVars PROVE AgreementInv'
<1>1. SearcherInv /\ UNCHANGED vars /\ UNCHANGED <<stage, left, edge, answer>>
  BY DEF AgreementInv, agreementVars, asked
<1>2. SearcherInv' /\ UNCHANGED Iterator!vars
  BY <1>1, SearcherUnchanged
<1>3. UNCHANGED <<Iterator!Ahead, haystack, caller, slice, pc, ret>>
  BY <1>1, <1>2, AheadUnchanged DEF vars, scanVars
<1>4. UNCHANGED Idle
  BY <1>3 DEF Idle, Scanning
<1>5. IteratedInv' /\ SlicedInv' /\ Agreed'
  BY <1>1, <1>3, <1>4 DEF AgreementInv, IteratedInv, SlicedInv, Agreed
<1> QED BY <1>1, <1>2, <1>3, <1>5 DEF AgreementInv

\* Every step of the target keeps the invariant.
LEMMA AgreementStep == AgreementInv /\ [AgreementNext]_agreementVars => AgreementInv'
BY CollectAgrees, NewIterAgrees, CountAllAgrees, FindLastAgrees, FindBeforeAgrees,
   FindAfterAgrees, AskedRunsOnAgrees, AgreementUnchanged DEF AgreementNext, AllAsked

\* The target starts with every match ahead, and all of them expected.
LEMMA InitAgreementInv == AgreementInit => AgreementInv
<1> SUFFICES ASSUME AgreementInit PROVE AgreementInv
  OBVIOUS
<1>1. /\ Init /\ stage = "collect" /\ left = haystack.matches /\ edge = 0
      /\ SearcherInv /\ Iterator!Init /\ Idle
  BY InitSearcherInv DEF AgreementInit
<1>2. /\ caller = "none" /\ pc = "idle" /\ ret.op = "iter"
      /\ match_bits = {} /\ scan_offset = 0
  BY <1>1 DEF Idle, Scanning, Init, Lazy!Init
<1>3. /\ haystack.len \in Nat /\ haystack.matches \in SUBSET Nat
      /\ \A m \in haystack.matches : m < haystack.len
  BY <1>1, MatchesFacts
<1>4. \A m \in haystack.matches : 0 <= m /\ m < haystack.len
  BY <1>3
<1>5. Iterator!Ahead = left
  BY <1>1, <1>2, <1>4 DEF Iterator!Ahead, Iterator!MatchesIn, Scanning
<1>6. IteratedInv /\ SlicedInv /\ Agreed
  BY <1>1, <1>2, <1>5 DEF IteratedInv, SlicedInv, Agreed
<1> QED BY <1>1, <1>2, <1>3, <1>6 DEF AgreementInv

\* SearchPlan's assert_uncheckeds and debug_asserts hold in the target fuzzer too,
\* find and rfind on the slices of the haystack included.
THEOREM AgreementKeepsContract == AgreementSpec => []PlanKeepsContract
<1>1. AgreementInv => PlanKeepsContract
  BY SearcherContract DEF AgreementInv
<1> QED BY <1>1, InitAgreementInv, AgreementStep, PTL DEF AgreementSpec

\* The assert_eq!s of the target fuzzer: next, count, rfind and find agree with the
\* list of the matching offsets, on the haystack and on each of its slices.
THEOREM AgreementAgrees == AgreementSpec => []Agreed
<1>1. AgreementInv => Agreed
  BY DEF AgreementInv
<1> QED BY <1>1, InitAgreementInv, AgreementStep, PTL DEF AgreementSpec

-----------------------------------------------------------------------------
(***************************************************************************)
(* A call that runs on comes nearer to its return: it scans further, or,   *)
(* within one scan, has less to test.  Both are numbers, so that a call    *)
(* takes a bounded number of steps.                                        *)
(***************************************************************************)

\* The bytes the iterator has not scanned.
Unread == haystack.len - (IF Scanning THEN before.scan_offset ELSE scan_offset)

\* What is left of a scan: nothing once it has returned, and more before it is called
\* than after.
ToScan ==
    IF ~ Scanning THEN haystack.len + 2
    ELSE IF result.done THEN 0
    ELSE 1 + Vectors!Untested

Nearer ==
    \/ Idle'
    \/ Unread' \in Nat /\ Unread' < Unread
    \/ Unread' = Unread /\ ToScan' \in Nat /\ ToScan' < ToScan

\* An iteration of an engine's loop.
LEMMA ScanStepNearer ==
    ASSUME SearcherInv, ScanStep PROVE Nearer \/ UNCHANGED vars
<1>1. /\ Scanning /\ Scanning' /\ Vectors!ScanInv
      /\ UNCHANGED <<haystack, match_bits, pc, n, remaining, ret, entry, last>>
      /\ UNCHANGED <<engine, caller, before>>
      /\ Swar!Next \/ Vector!Next \/ Never!Next
  BY DEF ScanStep, SearcherInv, CallInv, Scanning
<1>2. Unread' = Unread
  BY <1>1 DEF Unread
<1>3. \/ Vectors!Advances
      \/ UNCHANGED <<slice, zero, op, native_width, start, offset, total, match_base, scan_offset,
                     result>>
  <2>1. CASE Swar!Next
    <3>1. Words!Advances \/ UNCHANGED Words!vars
      BY <1>1, <2>1, SwarIsWords, SameScanInv, Premises, Words!NextAdvances
    <3>2. Words!Advances => Vectors!Advances
      BY DEF Words!Advances, Vectors!Advances, Words!Untested, Vectors!Untested,
             Words!Unscanned, Vectors!Unscanned, Words!Pending, Vectors!Pending
    <3> QED BY <3>1, <3>2 DEF Words!vars, Words!inputs, Words!batch
  <2>2. CASE Vector!Next
    <3>1. Vectors!Advances \/ UNCHANGED Vectors!vars
      BY <1>1, <2>2, VectorIsVectors, Premises, Vectors!NextAdvances
    <3> QED BY <3>1 DEF Vectors!vars, Vectors!inputs, Vectors!batch
  <2>3. CASE Never!Next
    BY <2>3 DEF Never!Next, Never!NeverBatch, Never!NeverMatch, Never!CountZero, Never!Return,
                Never!ReturnBits, Never!ReturnIndex, Never!ReturnTotal, Never!Running,
                Never!Pending, Vectors!Pending, Vectors!Advances
  <2> QED BY <1>1, <2>1, <2>2, <2>3
<1>4. CASE UNCHANGED <<slice, zero, op, native_width, start, offset, total, match_base,
                       scan_offset, result>>
  BY <1>1, <1>4 DEF vars, plan, iterVars, scanVars
<1>5. CASE Vectors!Advances
  <2>1. result = Vectors!Pending /\ ~ result.done
    BY <1>5 DEF Vectors!Advances, Vectors!Pending
  <2>2. Vectors!Untested \in Nat
    <3>1. Vectors!Running(op)
      BY <2>1 DEF Vectors!Running
    <3> QED BY <1>1, <3>1, Premises, Vectors!UntestedFacts
  <2>3. ToScan = 1 + Vectors!Untested
    BY <1>1, <2>1 DEF ToScan
  <2>4. CASE result'.done
    <3>1. ToScan' = 0
      BY <1>1, <2>4 DEF ToScan
    <3> QED BY <1>2, <2>2, <2>3, <3>1 DEF Nearer
  <2>5. CASE /\ result' = Vectors!Pending
             /\ Vectors!Untested' \in Nat /\ Vectors!Untested' < Vectors!Untested
    <3>1. ToScan' = 1 + Vectors!Untested'
      BY <1>1, <2>5 DEF ToScan, Vectors!Pending
    <3> DEFINE u == Vectors!Untested
               v == Vectors!Untested'
    <3>2. u \in Nat /\ v \in Nat /\ v < u
      BY <2>2, <2>5
    <3> HIDE DEF u, v
    <3>3. 1 + v \in Nat /\ 1 + v < 1 + u
      BY <3>2
    <3>4. ToScan' \in Nat /\ ToScan' < ToScan
      BY <2>3, <3>1, <3>3 DEF u, v
    <3> QED BY <1>2, <3>4 DEF Nearer
  <2> QED BY <1>5, <2>4, <2>5 DEF Vectors!Advances
<1> QED BY <1>3, <1>4, <1>5

\* A call of nth, and the end of any call.
LEMMA RunningNearer ==
    ASSUME SearcherInv, Running PROVE Nearer \/ UNCHANGED vars
<1>1. CASE ScanStep
  BY <1>1, ScanStepNearer
<1>2. CASE NextScanned
  BY <1>2, NextScannedKeeps DEF Nearer
<1>3. CASE CountScanned
  BY <1>3, CountScannedKeeps DEF Nearer
<1>4. ASSUME NEW c \in {"find", "rfind"}, Found(c) PROVE Nearer
  BY <1>4, FoundKeeps DEF Nearer
<1>5. CASE NthScan
  <2>1. /\ ScanBatch("nth") /\ ~ Scanning
        /\ result' = Vectors!Pending /\ offset' = scan_offset
    BY <1>5 DEF NthScan, ScanBatch, Scan, Swar!Pending, Vectors!Pending
  <2>2. /\ Scanning' /\ op' = "next_match_batch" /\ slice' = haystack /\ UNCHANGED haystack
        /\ before'.scan_offset = scan_offset
    BY <2>1, ScanBatchCalls
  <2>3. haystack.len \in Nat /\ scan_offset \in Nat /\ scan_offset <= haystack.len
    BY <2>1, SearcherFacts
  <2>4. Unread' = Unread /\ ToScan = haystack.len + 2
    BY <2>1, <2>2 DEF Unread, ToScan
  <2>5. ToScan' = 1 + (haystack.len - scan_offset)
    BY <2>1, <2>2 DEF ToScan, Vectors!Untested, Vectors!Unscanned, Vectors!Pending
  <2>6. ToScan' \in Nat /\ ToScan' < ToScan
    BY <2>3, <2>4, <2>5
  <2> QED BY <2>4, <2>6 DEF Nearer
<1>6. CASE NthStep /\ ~ Scanning' /\ Iterator!NthStep
  <2>1. pc = "nth" /\ UNCHANGED haystack /\ haystack.len \in Nat
    BY <1>6, NthStepKeeps, SearcherFacts
  <2>2. Iterator!NthAdvances
    BY <1>6, Premises, Iterator!NextNthAdvances DEF SearcherInv, Iterator!Next
  <2>3. CASE pc' = "idle"
    BY <1>6, <2>3 DEF Nearer, Idle
  <2>4. CASE pc' # "idle"
    <3> DEFINE was == IF Scanning THEN before.scan_offset ELSE scan_offset
    <3>1. was \in Nat /\ was <= haystack.len
      BY SearcherFacts
    <3>2. /\ was < scan_offset' /\ scan_offset' <= haystack.len
      BY <1>6, <2>1, <2>2, <2>4 DEF Iterator!NthAdvances
    <3>3. scan_offset' \in Nat
      BY <1>6, NthStepKeeps DEF SearcherInv, CallInv
    <3>4. Unread = haystack.len - was /\ Unread' = haystack.len - scan_offset'
      BY <1>6, <2>1 DEF Unread
    <3> HIDE DEF was
    <3>5. Unread' \in Nat /\ Unread' < Unread
      BY <2>1, <3>1, <3>2, <3>3, <3>4
    <3> QED BY <3>5 DEF Nearer
  <2> QED BY <2>3, <2>4
<1>7. CASE NthScanned \/ (WithoutScan /\ (Lazy!NthExhausted \/ Lazy!NthTake))
  <2>1. NthStep /\ ~ (caller' = "nth")
    BY <1>7 DEF NthStep, NthScanned, Scanned, WithoutScan, scanVars, Scanning
  <2> QED BY <1>6, <2>1, NthStepKeeps
<1> QED BY <1>1, <1>2, <1>3, <1>4, <1>5, <1>7 DEF Running, NthStep

\* Whatever the target memchr_n has called comes nearer to its return.
THEOREM OperationsRunOn ==
    ASSUME 0 \in Indices PROVE OperationsSpec => [][Running => Nearer]_vars
<1>1. OperationsInv /\ [OperationsNext]_operationsVars => OperationsInv'
  BY OperationsStep, OperationsUnchanged
<1>2. OperationsInv => [Running => Nearer]_vars
  BY RunningNearer DEF OperationsInv
<1> QED BY <1>1, <1>2, InitOperationsInv, PTL DEF OperationsSpec

\* Whatever the target fuzzer has called comes nearer to its return, find and rfind too.
THEOREM AgreementRunsOn == AgreementSpec => [][Running => Nearer]_vars
<1>1. AgreementInv => [Running => Nearer]_vars
  BY RunningNearer DEF AgreementInv
<1> QED BY <1>1, InitAgreementInv, AgreementStep, PTL DEF AgreementSpec
=============================================================================
