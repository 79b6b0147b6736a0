-------------------------- MODULE SwarScanProofs --------------------------
(***************************************************************************)
(* Proofs that the word engine keeps the contract of ScanOps: for every    *)
(* haystack and from every offset, with the words as wide as in the code.  *)
(***************************************************************************)
EXTENDS SwarScan, ScanCallProofs

\* The two masks of a pair of words, joined, are the lanes of both.
LEMMA PairExact == ASSUME NEW o \in Nat PROVE Pair(o) = Lanes(o, 2 * WordBytes)
<1>1. Bits \in Nat /\ 2 * 8 <= Bits
  BY BitsAssumption, WidthAssumption DEF WordBytes
<1>2. PairLanes(o, 8) = Lanes(o, 2 * 8)
  BY <1>1, PairLanesExact
<1> QED BY <1>2 DEF Pair, WordBytes

(***************************************************************************)
(* next_match_batch.                                                       *)
(***************************************************************************)
LEMMA BatchSteps ==
    ASSUME ScanInv, BatchPair \/ BatchWord \/ BatchTail PROVE ScanInv'
<1>1. Running("next_match_batch")
  BY DEF BatchPair, BatchWord, BatchTail
<1>2. offset \in Nat /\ Unscanned \in Nat /\ Bits \in Nat /\ Bits >= 16
  BY <1>1, RunningFacts, BitsAssumption, WidthAssumption DEF WordBytes
<1>3. CASE BatchPair
  <2>1. Unscanned >= 16 /\ Pair(offset) = Lanes(offset, 16)
    BY <1>2, <1>3, PairExact DEF BatchPair, WordBytes
  <2>2. \/ Lanes(offset, 16) # {} /\ ReturnBatch(16, Lanes(offset, 16))
        \/ Lanes(offset, 16) = {} /\ Continue(offset + 16)
    BY <1>3, <2>1 DEF BatchPair, WordBytes
  <2> QED BY <1>1, <1>2, <2>1, <2>2, BatchReturned, BatchContinues
<1>4. CASE BatchWord
  <2>1. Unscanned >= 8
    BY <1>4 DEF BatchWord, WordBytes
  <2>2. \/ Lanes(offset, 8) # {} /\ ReturnBatch(8, Lanes(offset, 8))
        \/ Lanes(offset, 8) = {} /\ Continue(offset + 8)
    BY <1>4 DEF BatchWord, Word, WordBytes
  <2> QED BY <1>1, <1>2, <2>1, <2>2, BatchReturned, BatchContinues
<1>5. CASE BatchTail
  <2>1. Unscanned < 8 /\ ReturnTail(UnscannedBits(8))
    BY <1>5 DEF BatchTail, WordBytes
  <2> QED BY <1>1, <1>2, <2>1, TailReturned
<1> QED BY <1>3, <1>4, <1>5

(***************************************************************************)
(* first_match.                                                            *)
(***************************************************************************)
LEMMA FirstSteps ==
    ASSUME ScanInv, FirstShort \/ FirstPair \/ FirstWord \/ FirstTail PROVE ScanInv'
<1>1. Running("first_match")
  BY DEF FirstShort, FirstPair, FirstWord, FirstTail
<1>2. /\ IsHaystack(haystack) /\ haystack.len \in Nat
      /\ offset \in Nat /\ offset <= haystack.len
      /\ Unscanned \in Nat /\ offset + Unscanned = haystack.len
      /\ Clear(0, offset)
  BY <1>1, RunningFacts
<1>3. CASE FirstShort
  <2>1. ReturnIndex(IF haystack.matches = {} THEN None ELSE Min(haystack.matches))
    BY <1>3 DEF FirstShort
  <2>2. haystack.matches # {} =>
          /\ Min(haystack.matches) \in haystack.matches
          /\ \A m \in haystack.matches : Min(haystack.matches) <= m
    <3>1. haystack.matches \in SUBSET Nat
      BY <1>2, HaystackFacts
    <3> QED BY <3>1, MinNat
  <2>3. FirstContract(haystack, IF haystack.matches = {} THEN None ELSE Min(haystack.matches))
    BY <2>2 DEF FirstContract
  <2> QED BY <1>1, <2>1, <2>3, IndexReturned
<1>4. CASE FirstPair
  <2>1. /\ Unscanned >= 16
        /\ \/ Lanes(offset, 8) # {} /\ ReturnIndex(offset + FirstOf(Lanes(offset, 8)))
           \/ /\ Lanes(offset, 8) = {} /\ Lanes(offset + 8, 8) # {}
              /\ ReturnIndex(offset + 8 + FirstOf(Lanes(offset + 8, 8)))
           \/ /\ Lanes(offset, 8) = {} /\ Lanes(offset + 8, 8) = {}
              /\ Continue(offset + 16)
    BY <1>4 DEF FirstPair, Word, WordBytes
  <2>2. CASE Lanes(offset, 8) # {} /\ ReturnIndex(offset + FirstOf(Lanes(offset, 8)))
    BY <1>1, <1>2, <2>2, FirstInUnit, IndexReturned
  <2>3. CASE Lanes(offset, 8) = {}
    <3> DEFINE o == offset + 8
    <3>1. Clear(offset, o)
      BY <1>2, <2>3, UnitClear
    <3>2. o \in Nat /\ o + 8 = offset + 16
      BY <1>2
    <3> HIDE DEF o
    <3>3. Clear(0, o)
      BY <1>2, <3>1, <3>2, ClearJoin
    <3>4. CASE Lanes(o, 8) # {} /\ ReturnIndex(o + FirstOf(Lanes(o, 8)))
      BY <1>1, <1>2, <3>2, <3>3, <3>4, FirstInUnit, IndexReturned
    <3>5. CASE Lanes(o, 8) = {} /\ Continue(offset + 16)
      <4>1. Lanes(offset, 16) = {}
        <5>1. Clear(o, o + 8)
          BY <1>2, <3>2, <3>5, UnitClear
        <5>2. Clear(offset, o + 8)
          BY <1>2, <3>1, <3>2, <5>1, ClearJoin
        <5> QED BY <1>2, <3>2, <5>2, UnitClear
      <4> QED BY <1>1, <1>2, <2>1, <3>5, <4>1, FirstContinues
    <3> QED BY <2>1, <2>3, <3>4, <3>5 DEF o
  <2> QED BY <2>1, <2>2, <2>3
<1>5. CASE FirstWord
  <2>1. /\ Unscanned >= 8
        /\ \/ Lanes(offset, 8) # {} /\ ReturnIndex(offset + FirstOf(Lanes(offset, 8)))
           \/ Lanes(offset, 8) = {} /\ Continue(offset + 8)
    BY <1>5 DEF FirstWord, Word, WordBytes
  <2>2. CASE Lanes(offset, 8) # {} /\ ReturnIndex(offset + FirstOf(Lanes(offset, 8)))
    BY <1>1, <1>2, <2>2, FirstInUnit, IndexReturned
  <2>3. CASE Lanes(offset, 8) = {} /\ Continue(offset + 8)
    BY <1>1, <1>2, <2>1, <2>3, FirstContinues
  <2> QED BY <2>1, <2>2, <2>3
<1>6. CASE FirstTail
  <2> DEFINE bits == UnscannedBits(8)
             i == IF bits = {} THEN None ELSE haystack.len - Unscanned + FirstOf(bits)
  <2>1. Unscanned < 8 /\ ReturnIndex(i)
    BY <1>6 DEF FirstTail, WordBytes
  <2>2. haystack.len - Unscanned = offset /\ bits = Lanes(offset, Unscanned)
    BY <1>2, <2>1, UnscannedBitsExact
  <2>3. FirstContract(haystack, i)
    <3>1. CASE bits # {}
      BY <1>2, <2>2, <3>1, FirstInUnit
    <3>2. CASE bits = {}
      <4>1. Clear(offset, haystack.len)
        BY <1>2, <2>2, <3>2, UnitClear
      <4>2. Clear(0, haystack.len)
        BY <1>2, <4>1, ClearJoin
      <4> QED BY <1>2, <3>2, <4>2, NoneInHaystack
    <3> QED BY <3>1, <3>2
  <2> HIDE DEF i
  <2> QED BY <1>1, <2>1, <2>3, IndexReturned
<1> QED BY <1>3, <1>4, <1>5, <1>6

(***************************************************************************)
(* last_match.                                                             *)
(***************************************************************************)
LEMMA LastSteps ==
    ASSUME ScanInv, LastShort \/ LastPair \/ LastWord \/ LastPrefix PROVE ScanInv'
<1>1. Running("last_match")
  BY DEF LastShort, LastPair, LastWord, LastPrefix
<1>2. /\ IsHaystack(haystack) /\ haystack.len \in Nat
      /\ offset \in Nat /\ offset <= haystack.len
      /\ Clear(offset, haystack.len)
  BY <1>1, RunningFacts
<1>3. CASE LastShort
  <2>1. ReturnIndex(IF haystack.matches = {} THEN None ELSE Max(haystack.matches))
    BY <1>3 DEF LastShort
  <2>2. haystack.matches # {} =>
          /\ Max(haystack.matches) \in haystack.matches
          /\ \A m \in haystack.matches : m <= Max(haystack.matches)
    <3>1. haystack.matches \in SUBSET (0 .. haystack.len)
      <4>1. ASSUME NEW m \in haystack.matches PROVE m \in 0 .. haystack.len
        BY <1>2, HaystackFacts
      <4> QED BY <4>1
    <3> QED BY <1>2, <3>1, MaxNat
  <2>3. LastContract(haystack, IF haystack.matches = {} THEN None ELSE Max(haystack.matches))
    BY <2>2 DEF LastContract
  <2> QED BY <1>1, <2>1, <2>3, IndexReturned
<1>4. CASE LastPair
  <2> DEFINE end == offset - 16
             mid == end + 8
  <2>1. /\ offset >= 16
        /\ \/ Lanes(mid, 8) # {} /\ ReturnIndex(mid + LastOf(Lanes(mid, 8)))
           \/ /\ Lanes(mid, 8) = {} /\ Lanes(end, 8) # {}
              /\ ReturnIndex(end + LastOf(Lanes(end, 8)))
           \/ Lanes(mid, 8) = {} /\ Lanes(end, 8) = {} /\ Continue(end)
    BY <1>4 DEF LastPair, Word, WordBytes
  <2>2. end \in Nat /\ mid \in Nat /\ end + 8 = mid /\ mid + 8 = offset /\ end + 16 = offset
    BY <1>2, <2>1
  <2> HIDE DEF end, mid
  <2>3. CASE Lanes(mid, 8) # {} /\ ReturnIndex(mid + LastOf(Lanes(mid, 8)))
    BY <1>1, <1>2, <2>2, <2>3, LastInUnit, IndexReturned
  <2>4. CASE Lanes(mid, 8) = {}
    <3>1. Clear(mid, offset)
      BY <1>2, <2>2, <2>4, UnitClear
    <3>2. Clear(mid, haystack.len)
      BY <1>2, <2>2, <3>1, ClearJoin
    <3>3. CASE Lanes(end, 8) # {} /\ ReturnIndex(end + LastOf(Lanes(end, 8)))
      BY <1>1, <1>2, <2>2, <3>2, <3>3, LastInUnit, IndexReturned
    <3>4. CASE Lanes(end, 8) = {} /\ Continue(end)
      <4>1. Clear(end, mid)
        BY <1>2, <2>2, <3>4, UnitClear
      <4>2. Clear(end, offset)
        BY <1>2, <2>2, <3>1, <4>1, ClearJoin
      <4>3. Lanes(end, 16) = {}
        BY <1>2, <2>2, <4>2, UnitClear
      <4> QED BY <1>1, <2>2, <3>4, <4>3, LastContinues
    <3> QED BY <2>1, <2>4, <3>3, <3>4
  <2> QED BY <2>1, <2>3, <2>4
<1>5. CASE LastWord
  <2> DEFINE end == offset - 8
  <2>1. /\ offset >= 8
        /\ \/ Lanes(end, 8) # {} /\ ReturnIndex(end + LastOf(Lanes(end, 8)))
           \/ Lanes(end, 8) = {} /\ Continue(end)
    BY <1>5 DEF LastWord, Word, WordBytes
  <2>2. end \in Nat /\ end + 8 = offset
    BY <1>2, <2>1
  <2> HIDE DEF end
  <2>3. CASE Lanes(end, 8) # {} /\ ReturnIndex(end + LastOf(Lanes(end, 8)))
    BY <1>1, <1>2, <2>2, <2>3, LastInUnit, IndexReturned
  <2>4. CASE Lanes(end, 8) = {} /\ Continue(end)
    BY <1>1, <2>2, <2>4, LastContinues
  <2> QED BY <2>1, <2>3, <2>4
<1>6. CASE LastPrefix
  <2> DEFINE marks == IF offset = 0 THEN {} ELSE Word(0) \cap LowMask(offset)
             i == IF marks = {} THEN None ELSE LastOf(marks)
  <2>1. offset < 8 /\ ReturnIndex(i)
    BY <1>6 DEF LastPrefix, WordBytes
  <2>2. marks = Lanes(0, offset)
    <3>1. ASSUME NEW b PROVE b \in marks <=> b \in Lanes(0, offset)
      BY <1>2, <2>1 DEF Word, WordBytes, Lanes, LowMask
    <3> HIDE DEF marks
    <3> QED BY <3>1
  <2>3. LastContract(haystack, i)
    <3>1. CASE marks # {}
      <4>1. LastContract(haystack, 0 + LastOf(Lanes(0, offset)))
        <5>1. Clear(0 + offset, haystack.len)
          BY <1>2
        <5> QED BY <1>2, <2>2, <3>1, <5>1, LastInUnit
      <4>2. LastOf(Lanes(0, offset)) \in Nat
        <5>1. Lanes(0, offset) \in SUBSET (0 .. offset - 1)
          BY <1>2, LanesFacts
        <5>2. offset - 1 \in Nat
          <6>1. PICK b \in Lanes(0, offset) : b \in 0 .. offset - 1
            BY <2>2, <3>1, <5>1
          <6> QED BY <1>2, <6>1
        <5>3. Max(Lanes(0, offset)) \in Lanes(0, offset)
          BY <2>2, <3>1, <5>1, <5>2, MaxNat
        <5> QED BY <5>1, <5>3 DEF LastOf
      <4> QED BY <2>2, <3>1, <4>1, <4>2
    <3>2. CASE marks = {}
      <4>1. Clear(0, 0 + offset)
        BY <1>2, <2>2, <3>2, UnitClear
      <4>2. Clear(0, haystack.len)
        BY <1>2, <4>1, ClearJoin
      <4> QED BY <1>2, <3>2, <4>2, NoneInHaystack
    <3> QED BY <3>1, <3>2
  <2> HIDE DEF i
  <2> QED BY <1>1, <2>1, <2>3, IndexReturned
<1> QED BY <1>3, <1>4, <1>5, <1>6

(***************************************************************************)
(* count_all.                                                              *)
(***************************************************************************)
LEMMA CountSteps ==
    ASSUME ScanInv, CountWord \/ CountTail PROVE ScanInv'
<1>1. Running("count_all")
  BY DEF CountWord, CountTail
<1>2. offset \in Nat /\ Unscanned \in Nat
  BY <1>1, RunningFacts
<1>3. CASE CountWord
  <2>1. /\ Unscanned >= 8 /\ total' = total + Cardinality(Lanes(offset, 8))
        /\ MoveTo(offset + 8)
    BY <1>3 DEF CountWord, Word, WordBytes
  <2> QED BY <1>1, <1>2, <2>1, CountContinues
<1>4. CASE CountTail
  <2> DEFINE bits == IF Unscanned = 0 THEN {} ELSE ShortTailBits(offset, Unscanned, 8)
  <2>1. Unscanned < 8 /\ ReturnTotal(total + Cardinality(bits))
    BY <1>4 DEF CountTail, WordBytes
  <2>2. bits = Lanes(offset, Unscanned)
    <3>1. Lanes(offset, 0) = {}
      BY DEF Lanes
    <3>2. Unscanned # 0 => Unscanned \in 1 .. 15
      BY <1>2, <2>1
    <3>3. Unscanned # 0 => ShortTailBits(offset, Unscanned, 8) = Lanes(offset, Unscanned)
      BY <1>2, <3>2, ShortTailBitsExact
    <3> QED BY <3>1, <3>3
  <2> HIDE DEF bits
  <2> QED BY <1>1, <2>1, <2>2, TotalReturned
<1> QED BY <1>3, <1>4

\* Every step of the word engine keeps the loops' invariant.
LEMMA NextScanInv == ScanInv /\ [Next]_vars => ScanInv'
BY BatchSteps, FirstSteps, LastSteps, CountSteps, ReturnedScanInv DEF Next

\* The loops' invariant holds of every call of the word engine.
THEOREM Invariance == Spec => []ScanInv
<1> QED BY InitScanInv, NextScanInv, PTL DEF Spec

(***************************************************************************)
(* Every byte the loops of the word engine have passed was looked at.      *)
(***************************************************************************)
THEOREM LoopsSound == Spec => []PassedIsClear
<1>1. ScanInv => PassedIsClear
  BY DEF ScanInv
<1> QED BY <1>1, Invariance, PTL

(***************************************************************************)
(* The word engine keeps the contract of struct ScanOps, for a haystack of *)
(* any length with any matches and from any offset.                        *)
(***************************************************************************)
THEOREM WordContract == Spec => []MeetsContract
<1>1. ScanInv => MeetsContract
  BY DEF ScanInv
<1> QED BY <1>1, Invariance, PTL

(***************************************************************************)
(* Every iteration of the word engine's loops returns or leaves fewer      *)
(* bytes to test: no loop is endless, whatever the haystack.               *)
(***************************************************************************)
LEMMA NextAdvances ==
    ASSUME ScanInv, Next PROVE Advances \/ UNCHANGED vars
<1> USE DEF ReturnBatch, ReturnTail, ReturnBits, ReturnIndex, ReturnTotal, Return
<1>1. ASSUME NEW f, Running(f), NEW width \in {WordBytes, 2 * WordBytes},
             \/ f # "last_match" /\ width <= Unscanned /\ MoveTo(offset + width)
             \/ f = "last_match" /\ width <= offset /\ MoveTo(offset - width)
      PROVE  Advances
  <2>1. width \in Nat /\ 0 < width
    BY DEF WordBytes
  <2> QED BY <1>1, <2>1, UnitAdvances
<1>2. ASSUME NEW f, Running(f) PROVE haystack.len \in Nat /\ offset \in Nat /\ Unscanned \in Nat
  BY <1>2, RunningFacts
<1>3. WordBytes \in Nat /\ 2 * WordBytes \in Nat
  BY DEF WordBytes
<1>4. CASE BatchPair \/ BatchWord \/ FirstPair \/ FirstWord
  BY <1>1, <1>2, <1>3, <1>4 DEF BatchPair, BatchWord, FirstPair, FirstWord, Continue, Running, Advances
<1>5. CASE LastPair \/ LastWord
  BY <1>1, <1>2, <1>3, <1>5 DEF LastPair, LastWord, Continue, Running, Advances
<1>6. CASE CountWord
  BY <1>1, <1>2, <1>3, <1>6 DEF CountWord
<1>7. CASE BatchTail \/ FirstShort \/ FirstTail \/ LastShort \/ LastPrefix \/ CountTail
  BY <1>7 DEF BatchTail, FirstShort, FirstTail, LastShort, LastPrefix, CountTail, Running, Advances
<1>8. CASE Returned
  BY <1>8 DEF Returned
<1> QED BY <1>4, <1>5, <1>6, <1>7, <1>8 DEF Next

\* No loop of the word engine is endless: every iteration has less left to test.
THEOREM LoopsAdvance == Spec => [][Advances]_vars
<1>1. ScanInv /\ [Next]_vars => [Advances]_vars
  BY NextAdvances
<1> QED BY <1>1, Invariance, PTL DEF Spec
=============================================================================
