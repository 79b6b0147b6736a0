------------------------- MODULE VectorScanProofs -------------------------
(***************************************************************************)
(* Proofs that the vector engine keeps the contract of ScanOps: for every  *)
(* haystack and from every offset, for blocks of up to sixteen bytes and   *)
(* vectors of one, two or four blocks.                                     *)
(***************************************************************************)
EXTENDS VectorScan, ScanCallProofs

\* The three units.
LEMMA UnitFacts ==
    /\ BlockBytes \in 2 .. 16 /\ BlockBytes \in Nat
    /\ 2 * BlockBytes \in Nat
    /\ ChunkBytes \in Nat /\ ChunkBytes = 4 * BlockBytes
    /\ 2 * ChunkBytes \in Nat /\ 2 * ChunkBytes <= Bits
    /\ Bits \in Nat /\ BlockBytes <= Bits /\ ChunkBytes <= Bits
    /\ \A w \in NativeWidths : w \in Nat /\ 0 < w /\ w <= ChunkBytes
<1>1. BlockBytes \in 2 .. 16 /\ Bits >= 2 * ChunkBytes /\ ChunkBytes = 4 * BlockBytes
  BY WidthAssumption DEF ChunkBytes
<1>2. Bits \in Nat
  BY BitsAssumption
<1>3. \A w \in NativeWidths : w \in {BlockBytes, 2 * BlockBytes, ChunkBytes}
  BY WidthAssumption
<1> QED BY <1>1, <1>2, <1>3

\* A native vector is no wider than a chunk.
LEMMA NativeFacts ==
    ASSUME ScanInv
    PROVE  native_width \in Nat /\ 0 < native_width /\ native_width <= ChunkBytes
BY UnitFacts DEF ScanInv, CallTypeOK

\* The two masks of a pair of chunks, joined, are the lanes of both.
LEMMA PairExact == ASSUME NEW o \in Nat PROVE Pair(o) = Lanes(o, 2 * ChunkBytes)
<1>1. ChunkBytes \in Nat /\ 2 * ChunkBytes <= Bits
  BY UnitFacts
<1> QED BY <1>1, PairLanesExact DEF Pair

(***************************************************************************)
(* next_match_batch.                                                       *)
(***************************************************************************)
LEMMA BatchSteps ==
    ASSUME ScanInv, BatchPair \/ BatchChunk \/ BatchBlock \/ BatchTail PROVE ScanInv'
<1>1. Running("next_match_batch")
  BY DEF BatchPair, BatchChunk, BatchBlock, BatchTail
<1>2. offset \in Nat /\ Unscanned \in Nat
  BY <1>1, RunningFacts
\* A unit that is tested either ends the call or is passed.
<1>3. ASSUME NEW width \in Nat, width <= Unscanned, width <= Bits,
             \/ Lanes(offset, width) # {} /\ ReturnBatch(width, Lanes(offset, width))
             \/ Lanes(offset, width) = {} /\ Continue(offset + width)
      PROVE  ScanInv'
  BY <1>1, <1>3, BatchReturned, BatchContinues
<1>4. CASE BatchPair
  <2> DEFINE w == 2 * ChunkBytes
  <2>1. w \in Nat /\ w <= Bits
    BY UnitFacts
  <2>2. Pair(offset) = Lanes(offset, w)
    BY <1>2, PairExact
  <2>3. /\ w <= Unscanned
        /\ \/ Lanes(offset, w) # {} /\ ReturnBatch(w, Lanes(offset, w))
           \/ Lanes(offset, w) = {} /\ Continue(offset + w)
    BY <1>2, <1>4, <2>1, <2>2 DEF BatchPair
  <2> HIDE DEF w
  <2> QED BY <1>3, <2>1, <2>3
<1>5. CASE BatchChunk
  <2>1. ChunkBytes \in Nat /\ ChunkBytes <= Bits
    BY UnitFacts
  <2>2. ChunkBytes <= Unscanned
    BY <1>2, <1>5, <2>1 DEF BatchChunk
  <2> QED BY <1>3, <1>5, <2>1, <2>2 DEF BatchChunk, Chunk
<1>6. CASE BatchBlock
  <2>1. BlockBytes \in Nat /\ BlockBytes <= Bits
    BY UnitFacts
  <2>2. BlockBytes <= Unscanned
    BY <1>2, <1>6, <2>1 DEF BatchBlock
  <2> QED BY <1>3, <1>6, <2>1, <2>2 DEF BatchBlock, Block
<1>7. CASE BatchTail
  <2>1. BlockBytes \in 1 .. 16 /\ BlockBytes <= Bits
    BY UnitFacts
  <2> QED BY <1>1, <1>7, <2>1, TailReturned DEF BatchTail
<1> QED BY <1>4, <1>5, <1>6, <1>7

(***************************************************************************)
(* first_match of a chunk or more.  The last native vector may overlap     *)
(* what was passed: it holds no match before it.                           *)
(***************************************************************************)
LEMMA FirstInStep ==
    ASSUME ScanInv, Running("first_match"), NEW width \in Nat, width <= Unscanned,
           FirstIn(offset, Lanes(offset, width), width)
    PROVE  ScanInv'
<1>1. IsHaystack(haystack) /\ offset \in Nat /\ Clear(0, offset)
  BY RunningFacts
<1>2. CASE /\ Lanes(offset, width) # {}
           /\ ReturnIndex(offset + FirstOf(Lanes(offset, width)))
  BY <1>1, <1>2, FirstInUnit, IndexReturned
<1>3. CASE Lanes(offset, width) = {} /\ Continue(offset + width)
  BY <1>3, FirstContinues
<1> QED BY <1>2, <1>3 DEF FirstIn

\* A pair of chunks: the match is in the first chunk, in the second, or in neither.
LEMMA FirstPairStep == ScanInv /\ FirstPair => ScanInv'
<1> SUFFICES ASSUME ScanInv, FirstPair PROVE ScanInv'
  OBVIOUS
<1> DEFINE c == ChunkBytes
           mid == offset + c
           end == mid + c
<1>1. Running("first_match")
  BY DEF FirstPair
<1>2. /\ IsHaystack(haystack) /\ haystack.len \in Nat
      /\ offset \in Nat /\ Unscanned \in Nat /\ Clear(0, offset)
  BY <1>1, RunningFacts
<1>3. c \in Nat
  BY UnitFacts
<1>4. /\ Unscanned >= 2 * c
      /\ \/ Lanes(offset, c) # {} /\ ReturnIndex(offset + FirstOf(Lanes(offset, c)))
         \/ /\ Lanes(offset, c) = {} /\ Lanes(mid, c) # {}
            /\ ReturnIndex(mid + FirstOf(Lanes(mid, c)))
         \/ /\ Lanes(offset, c) = {} /\ Lanes(mid, c) = {}
            /\ Continue(offset + 2 * c)
  BY DEF FirstPair, Chunk
<1> HIDE DEF c
<1>5. mid \in Nat /\ mid = offset + c /\ end \in Nat /\ end = mid + c /\ end = offset + 2 * c
  BY <1>2, <1>3
<1> HIDE DEF mid, end
<1>6. CASE Lanes(offset, c) # {} /\ ReturnIndex(offset + FirstOf(Lanes(offset, c)))
  BY <1>1, <1>2, <1>3, <1>6, FirstInUnit, IndexReturned
<1>7. CASE Lanes(offset, c) = {}
  <2>1. Clear(offset, mid)
    BY <1>2, <1>3, <1>5, <1>7, UnitClear
  <2>2. Clear(0, mid)
    BY <1>2, <1>5, <2>1, ClearJoin
  <2>3. CASE Lanes(mid, c) # {} /\ ReturnIndex(mid + FirstOf(Lanes(mid, c)))
    BY <1>1, <1>2, <1>3, <1>5, <2>2, <2>3, FirstInUnit, IndexReturned
  <2>4. CASE Lanes(mid, c) = {} /\ Continue(offset + 2 * c)
    <3>1. Clear(mid, end)
      BY <1>2, <1>3, <1>5, <2>4, UnitClear
    <3>2. Clear(offset, end)
      BY <1>2, <1>5, <2>1, <3>1, ClearJoin
    <3> DEFINE w == 2 * c
    <3>3. w \in Nat /\ w <= Unscanned /\ end = offset + w
      BY <1>2, <1>3, <1>4, <1>5
    <3>4. Continue(offset + w)
      BY <2>4
    <3> HIDE DEF w
    <3>5. Lanes(offset, w) = {}
      BY <1>2, <3>2, <3>3, UnitClear
    <3> QED BY <1>1, <3>3, <3>4, <3>5, FirstContinues
  <2> QED BY <1>4, <1>7, <2>3, <2>4
<1> QED BY <1>4, <1>6, <1>7

\* The last native vector of first_match reads again bytes known to be clear.
LEMMA FirstFinalStep == ScanInv /\ FirstFinal => ScanInv'
<1> SUFFICES ASSUME ScanInv, FirstFinal PROVE ScanInv'
  OBVIOUS
<1> DEFINE o == haystack.len - native_width
           i == IF FinalLanes = {} THEN None ELSE o + FirstOf(FinalLanes)
<1>1. Running("first_match") /\ offset >= ChunkBytes /\ Unscanned < native_width /\ ReturnIndex(i)
  BY DEF FirstFinal
<1>2. /\ IsHaystack(haystack) /\ haystack.len \in Nat
      /\ offset \in Nat /\ offset <= haystack.len
      /\ Unscanned \in Nat /\ offset + Unscanned = haystack.len /\ Clear(0, offset)
  BY <1>1, RunningFacts
<1>3. /\ native_width \in Nat /\ o \in Nat
      /\ o <= offset /\ o + native_width = haystack.len
  BY <1>1, <1>2, NativeFacts, UnitFacts
<1> HIDE DEF o
<1>4. FirstContract(haystack, i)
  <2>1. CASE Unscanned = 0
    <3>1. FinalLanes = {}
      BY <2>1 DEF FinalLanes
    <3>2. Clear(0, haystack.len)
      BY <1>2, <2>1
    <3> QED BY <1>2, <3>1, <3>2, NoneInHaystack
  <2>2. CASE Unscanned # 0
    <3>1. FinalLanes = Lanes(o, native_width)
      BY <2>2 DEF FinalLanes, Native, o
    <3>2. Clear(0, o)
      BY <1>2, <1>3, ClearPart
    <3>3. CASE FinalLanes # {}
      BY <1>2, <1>3, <3>1, <3>2, <3>3, FirstInUnit
    <3>4. CASE FinalLanes = {}
      <4>1. Clear(o, haystack.len)
        BY <1>2, <1>3, <3>1, <3>4, UnitClear
      <4>2. Clear(0, haystack.len)
        BY <1>2, <1>3, <3>2, <4>1, ClearJoin
      <4> QED BY <1>2, <3>4, <4>2, NoneInHaystack
    <3> QED BY <3>3, <3>4
  <2> QED BY <2>1, <2>2
<1> HIDE DEF i
<1> QED BY <1>1, <1>4, IndexReturned

(***************************************************************************)
(* first_match_short: the two vectors cover the haystack.                  *)
(***************************************************************************)
LEMMA EndsCover ==
    ASSUME IsHaystack(haystack), NEW width \in Nat,
           width <= haystack.len, haystack.len <= 2 * width
    PROVE  /\ FirstContract(haystack, FirstOfEnds(width))
           /\ LastContract(haystack, LastOfEnds(width))
<1> DEFINE o == haystack.len - width
           front == Lanes(0, width)
           back == Lanes(o, width)
<1>1. /\ haystack.len \in Nat /\ o \in Nat /\ o <= width /\ o + width = haystack.len
      /\ 0 + width = width
  BY HaystackFacts
<1>2. /\ front \in SUBSET Nat
      /\ front \in SUBSET (0 .. width - 1)
      /\ front # {} => FirstOf(front) \in Nat /\ LastOf(front) \in Nat
  <2>1. front \in SUBSET (0 .. width - 1) /\ front \in SUBSET Nat
    BY LanesFacts
  <2> HIDE DEF front
  <2>2. ASSUME front # {} PROVE Min(front) \in Nat /\ Max(front) \in Nat
    <3>1. PICK b \in front : b \in 0 .. width - 1
      BY <2>1, <2>2
    <3>2. width - 1 \in Nat
      BY <3>1
    <3>3. Min(front) \in front /\ Max(front) \in front
      BY <2>1, <2>2, <3>2, MinNat, MaxNat
    <3> QED BY <2>1, <3>3
  <2> QED BY <2>1, <2>2 DEF FirstOf, LastOf
<1> HIDE DEF o
<1>3. FirstOfEnds(width) =
        IF front # {} THEN FirstOf(front)
        ELSE IF haystack.len = width \/ back = {} THEN None
        ELSE o + FirstOf(back)
  BY DEF FirstOfEnds, o
<1>4. LastOfEnds(width) =
        IF back # {} THEN o + LastOf(back)
        ELSE IF haystack.len = width \/ front = {} THEN None
        ELSE LastOf(front)
  BY DEF LastOfEnds, o
<1>5. front = {} <=> Clear(0, width)
  BY UnitClear
<1>6. back = {} <=> Clear(o, haystack.len)
  BY <1>1, UnitClear
<1>7. Clear(0, 0) /\ Clear(haystack.len, haystack.len)
  BY <1>1, ClearAll
<1>8. o = 0 <=> haystack.len = width
  BY <1>1
<1> HIDE DEF front, back
\* Where neither end has a match, nothing has.
<1>9. front = {} /\ back = {} => Clear(0, haystack.len)
  <2> SUFFICES ASSUME Clear(0, width), Clear(o, haystack.len) PROVE Clear(0, haystack.len)
    BY <1>5, <1>6
  <2>1. Clear(0, o)
    BY <1>1, ClearPart
  <2> QED BY <1>1, <2>1, ClearJoin
<1>10. haystack.len = width => front = back
  BY <1>8 DEF front, back
<1>11. FirstContract(haystack, FirstOfEnds(width))
  <2>1. CASE front # {}
    <3>1. FirstContract(haystack, 0 + FirstOf(Lanes(0, width)))
      BY <1>7, <2>1, FirstInUnit DEF front
    <3>2. 0 + FirstOf(front) = FirstOf(front)
      BY <1>2, <2>1
    <3> QED BY <1>3, <2>1, <3>1, <3>2 DEF front
  <2>2. CASE front = {} /\ back = {}
    BY <1>3, <1>9, <2>2, NoneInHaystack
  <2>3. CASE front = {} /\ back # {}
    <3>1. Clear(0, o)
      BY <1>1, <1>5, <2>3, ClearPart
    <3>2. FirstContract(haystack, o + FirstOf(back))
      BY <1>1, <2>3, <3>1, FirstInUnit DEF back
    <3> QED BY <1>3, <1>10, <2>3, <3>2
  <2> QED BY <2>1, <2>2, <2>3
<1>12. LastContract(haystack, LastOfEnds(width))
  <2>1. CASE back # {}
    <3>1. LastContract(haystack, o + LastOf(back))
      <4>1. Clear(o + width, haystack.len)
        BY <1>1, <1>7
      <4> QED BY <1>1, <2>1, <4>1, LastInUnit DEF back
    <3> QED BY <1>4, <2>1, <3>1
  <2>2. CASE front = {} /\ back = {}
    BY <1>4, <1>9, <2>2, NoneInHaystack
  <2>3. CASE front # {} /\ back = {}
    <3>1. Clear(width, haystack.len)
      BY <1>1, <1>6, <2>3, ClearPart
    <3>2. LastContract(haystack, 0 + LastOf(Lanes(0, width)))
      <4>1. Clear(0 + width, haystack.len)
        BY <1>1, <3>1
      <4> QED BY <2>3, <4>1, LastInUnit DEF front
    <3>3. 0 + LastOf(front) = LastOf(front)
      BY <1>2, <2>3
    <3> QED BY <1>4, <1>10, <2>3, <3>2, <3>3 DEF front
  <2> QED BY <2>1, <2>2, <2>3
<1> QED BY <1>11, <1>12

\* Which vectors first_match_short and last_match_short read.
LEMMA EndsWidth ==
    ASSUME haystack.len \in Nat, haystack.len >= BlockBytes, haystack.len < ChunkBytes
    PROVE  LET width == IF haystack.len >= 2 * BlockBytes THEN 2 * BlockBytes ELSE BlockBytes IN
             width \in Nat /\ width <= haystack.len /\ haystack.len <= 2 * width
BY UnitFacts

\* first_match of a block or more, short of a chunk.
LEMMA FirstShortVectorsStep == ScanInv /\ FirstShortVectors => ScanInv'
<1> SUFFICES ASSUME ScanInv, FirstShortVectors PROVE ScanInv'
  OBVIOUS
<1> DEFINE width == IF haystack.len >= 2 * BlockBytes THEN 2 * BlockBytes ELSE BlockBytes
<1>1. Running("first_match") /\ haystack.len >= BlockBytes /\ haystack.len < ChunkBytes
        /\ ReturnIndex(FirstOfEnds(width))
  BY DEF FirstShortVectors
<1>2. IsHaystack(haystack) /\ haystack.len \in Nat
  BY <1>1, RunningFacts
<1>3. width \in Nat /\ width <= haystack.len /\ haystack.len <= 2 * width
  BY <1>1, <1>2, EndsWidth
<1> HIDE DEF width
<1>4. FirstContract(haystack, FirstOfEnds(width))
  BY <1>2, <1>3, EndsCover
<1> QED BY <1>1, <1>4, IndexReturned

(***************************************************************************)
(* Of fewer bytes than a block the first is probed and the ends of the     *)
(* others staged: the first lane of the front, or else of the back, is the *)
(* first match of those, for the two overlap or meet.                      *)
(***************************************************************************)
LEMMA FirstShortStagedStep == ScanInv /\ FirstShortStaged => ScanInv'
<1> SUFFICES ASSUME ScanInv, FirstShortStaged PROVE ScanInv'
  OBVIOUS
<1> DEFINE len == haystack.len - 1
           n == StagedLen(len)
           bits == Staged(1, len, n, BlockBytes)
           front == bits \cap LowMask(n)
           back == Shr(bits, n) \cap LowMask(n)
           o == haystack.len - n
           i == IF front # {} THEN 1 + FirstOf(front)
                ELSE IF back # {} THEN o + FirstOf(back)
                ELSE None
<1>1. /\ Running("first_match")
      /\ haystack.len < BlockBytes
      /\ \/ 0 \in haystack.matches /\ ReturnIndex(0)
         \/ 0 \notin haystack.matches /\ len <= 0 /\ ReturnIndex(None)
         \/ /\ 0 \notin haystack.matches
            /\ len > 0
            /\ ReturnIndex(i)
  BY DEF FirstShortStaged, ProbeBytes
<1>2. IsHaystack(haystack) /\ haystack.len \in Nat
        /\ haystack.matches \in SUBSET Nat /\ \A m \in haystack.matches : m < haystack.len
  BY <1>1, RunningFacts, HaystackFacts
<1>3. CASE 0 \in haystack.matches /\ ReturnIndex(0)
  <2>1. \A m \in haystack.matches : 0 <= m
    BY <1>2
  <2>2. FirstContract(haystack, 0)
    BY <1>3, <2>1 DEF FirstContract
  <2> QED BY <1>1, <1>3, <2>2, IndexReturned
<1>4. ASSUME 0 \notin haystack.matches PROVE Clear(0, 1)
  <2>1. \A m \in haystack.matches : ~ (0 <= m /\ m < 1)
    BY <1>2, <1>4
  <2> QED BY <2>1, ClearFacts
<1>5. CASE 0 \notin haystack.matches /\ len <= 0 /\ ReturnIndex(None)
  <2>1. Clear(0, haystack.len)
    BY <1>2, <1>4, <1>5, ClearPart
  <2>2. FirstContract(haystack, None)
    BY <1>2, <2>1, NoneInHaystack
  <2> QED BY <1>1, <1>5, <2>2, IndexReturned
<1>6. CASE 0 \notin haystack.matches /\ len > 0
  <2>1. len \in 1 .. 15 /\ len \in Nat /\ BlockBytes \in Nat
    BY <1>1, <1>2, <1>6, UnitFacts
  <2>2. n \in 1 .. len /\ len <= 2 * n
    BY <2>1, StagedLenFacts
  <2> HIDE DEF n
  <2>3. n \in 0 .. len /\ n \in Nat
    BY <2>1, <2>2
  <2>4. /\ o \in Nat /\ 1 + len - n = o /\ o + n = haystack.len
        /\ 1 <= o /\ o <= 1 + n /\ 1 + n \in Nat
    BY <1>2, <2>1, <2>2
  <2> HIDE DEF len, o
  <2>5. front = Lanes(1, n)
    BY <2>1, <2>3, StagedEnds
  <2>6. back = Lanes(o, n)
    <3>1. \A last : last = 1 + len - n
              => Shr(Staged(1, len, n, BlockBytes), n) \cap LowMask(n) = Lanes(last, n)
      BY <2>1, <2>3, StagedEnds
    <3>2. Shr(Staged(1, len, n, BlockBytes), n) \cap LowMask(n) = Lanes(o, n)
      BY <2>4, <3>1
    <3> QED BY <3>2
  <2> HIDE DEF bits, front, back
  <2>7. ASSUME front # {} PROVE FirstContract(haystack, i)
    <3>1. FirstContract(haystack, 1 + FirstOf(front))
      BY <1>2, <1>4, <1>6, <2>3, <2>5, <2>7, FirstInUnit
    <3> QED BY <2>7, <3>1
  <2>8. ASSUME front = {} PROVE FirstContract(haystack, i)
    <3>1. Clear(1, 1 + n)
      BY <1>2, <2>3, <2>4, <2>5, <2>8, UnitClear
    <3>2. Clear(1, o)
      BY <1>2, <2>4, <3>1, ClearPart
    <3>3. Clear(0, o)
      BY <1>2, <1>4, <1>6, <2>4, <3>2, ClearJoin
    <3>4. CASE back # {}
      <4>1. FirstContract(haystack, o + FirstOf(back))
        BY <1>2, <2>3, <2>4, <2>6, <3>3, <3>4, FirstInUnit
      <4> QED BY <2>8, <3>4, <4>1
    <3>5. CASE back = {}
      <4>1. Clear(o, haystack.len)
        BY <1>2, <2>3, <2>4, <2>6, <3>5, UnitClear
      <4>2. Clear(0, haystack.len)
        BY <1>2, <2>4, <3>3, <4>1, ClearJoin
      <4> QED BY <1>2, <2>8, <3>5, <4>2, NoneInHaystack
    <3> QED BY <3>4, <3>5
  <2>9. FirstContract(haystack, i)
    BY <2>7, <2>8
  <2>10. ReturnIndex(i)
    BY <1>1, <1>6, <2>1
  <2> HIDE DEF i
  <2> QED BY <1>1, <2>9, <2>10, IndexReturned
<1> QED BY <1>1, <1>3, <1>5, <1>6

\* Every step of first_match.
LEMMA FirstSteps ==
    ASSUME ScanInv,
           \/ FirstChunk \/ FirstPair \/ FirstLastChunk \/ FirstNative \/ FirstFinal
           \/ FirstShortVectors \/ FirstShortStaged
    PROVE  ScanInv'
<1>1. CASE FirstChunk
  <2>1. /\ Running("first_match") /\ offset = 0 /\ Unscanned >= ChunkBytes
        /\ FirstIn(offset, Lanes(offset, ChunkBytes), ChunkBytes)
    BY <1>1 DEF FirstChunk, Chunk
  <2>2. Unscanned \in Nat /\ ChunkBytes \in Nat
    BY <2>1, RunningFacts, UnitFacts
  <2>3. ChunkBytes <= Unscanned
    BY <2>1, <2>2
  <2> QED BY <2>1, <2>2, <2>3, FirstInStep
<1>2. CASE FirstLastChunk
  <2>1. /\ Running("first_match") /\ Unscanned >= ChunkBytes
        /\ FirstIn(offset, Lanes(offset, ChunkBytes), ChunkBytes)
    BY <1>2 DEF FirstLastChunk, Chunk
  <2>2. Unscanned \in Nat /\ ChunkBytes \in Nat
    BY <2>1, RunningFacts, UnitFacts
  <2>3. ChunkBytes <= Unscanned
    BY <2>1, <2>2
  <2> QED BY <2>1, <2>2, <2>3, FirstInStep
<1>3. CASE FirstNative
  <2>1. /\ Running("first_match") /\ Unscanned >= native_width
        /\ FirstIn(offset, Lanes(offset, native_width), native_width)
    BY <1>3 DEF FirstNative, Native
  <2>2. Unscanned \in Nat /\ native_width \in Nat
    BY <2>1, RunningFacts, NativeFacts
  <2>3. native_width <= Unscanned
    BY <2>1, <2>2
  <2> QED BY <2>1, <2>2, <2>3, FirstInStep
<1> QED BY <1>1, <1>2, <1>3, FirstPairStep, FirstFinalStep, FirstShortVectorsStep,
           FirstShortStagedStep

(***************************************************************************)
(* last_match of a chunk or more, the other way round.                     *)
(***************************************************************************)
LEMMA LastInStep ==
    ASSUME ScanInv, Running("last_match"), NEW width \in Nat, width <= offset,
           LastIn(offset - width, width)
    PROVE  ScanInv'
<1> DEFINE end == offset - width
<1>1. IsHaystack(haystack) /\ haystack.len \in Nat /\ offset \in Nat /\ Clear(offset, haystack.len)
  BY RunningFacts
<1>2. end \in Nat /\ end + width = offset
  BY <1>1
<1>3. \/ /\ Lanes(end, width) # {}
         /\ ReturnIndex(end + LastOf(Lanes(end, width)))
      \/ Lanes(end, width) = {} /\ Continue(end)
  BY DEF LastIn
<1> HIDE DEF end
<1>4. CASE /\ Lanes(end, width) # {}
           /\ ReturnIndex(end + LastOf(Lanes(end, width)))
  BY <1>1, <1>2, <1>4, LastInUnit, IndexReturned
<1>5. CASE Lanes(end, width) = {} /\ Continue(end)
  BY <1>2, <1>5, LastContinues
<1> QED BY <1>3, <1>4, <1>5

\* A pair of chunks from the end: the match is in the second chunk, the first, or neither.
LEMMA LastPairStep == ScanInv /\ LastPair => ScanInv'
<1> SUFFICES ASSUME ScanInv, LastPair PROVE ScanInv'
  OBVIOUS
<1> DEFINE c == ChunkBytes
           end == offset - 2 * c
           mid == end + c
<1>1. Running("last_match")
  BY DEF LastPair
<1>2. /\ IsHaystack(haystack) /\ haystack.len \in Nat
      /\ offset \in Nat /\ Clear(offset, haystack.len)
  BY <1>1, RunningFacts
<1>3. c \in Nat
  BY UnitFacts
<1>4. /\ offset >= 2 * c
      /\ \/ Lanes(mid, c) # {} /\ ReturnIndex(mid + LastOf(Lanes(mid, c)))
         \/ /\ Lanes(mid, c) = {} /\ Lanes(end, c) # {}
            /\ ReturnIndex(end + LastOf(Lanes(end, c)))
         \/ Lanes(mid, c) = {} /\ Lanes(end, c) = {} /\ Continue(end)
  BY DEF LastPair, Chunk
<1> HIDE DEF c
<1> DEFINE w == 2 * c
<1>5. /\ end \in Nat /\ mid \in Nat /\ mid = end + c /\ mid + c = offset
      /\ w \in Nat /\ end + w = offset
  BY <1>2, <1>3, <1>4
<1> HIDE DEF mid, end, w
<1>6. CASE Lanes(mid, c) # {} /\ ReturnIndex(mid + LastOf(Lanes(mid, c)))
  BY <1>1, <1>2, <1>3, <1>5, <1>6, LastInUnit, IndexReturned
<1>7. CASE Lanes(mid, c) = {}
  <2>1. Clear(mid, offset)
    BY <1>2, <1>3, <1>5, <1>7, UnitClear
  <2>2. Clear(mid, haystack.len)
    BY <1>2, <1>5, <2>1, ClearJoin
  <2>3. CASE Lanes(end, c) # {} /\ ReturnIndex(end + LastOf(Lanes(end, c)))
    <3>1. Clear(end + c, haystack.len)
      BY <1>5, <2>2
    <3> QED BY <1>1, <1>2, <1>3, <1>5, <2>3, <3>1, LastInUnit, IndexReturned
  <2>4. CASE Lanes(end, c) = {} /\ Continue(end)
    <3>1. Clear(end, mid)
      BY <1>2, <1>3, <1>5, <2>4, UnitClear
    <3>2. Clear(end, offset)
      BY <1>2, <1>5, <2>1, <3>1, ClearJoin
    <3>3. Lanes(end, w) = {}
      BY <1>2, <1>5, <3>2, UnitClear
    <3> QED BY <1>1, <1>5, <2>4, <3>3, LastContinues
  <2> QED BY <1>4, <1>7, <2>3, <2>4
<1> QED BY <1>4, <1>6, <1>7

\* The highest lane of the bytes from the start of the haystack is an offset.
LEMMA LastFromStart ==
    ASSUME IsHaystack(haystack), NEW width \in Nat, Clear(width, haystack.len)
    PROVE  LastContract(haystack, IF Lanes(0, width) = {} THEN None ELSE LastOf(Lanes(0, width)))
<1> DEFINE lanes == Lanes(0, width)
<1>1. haystack.len \in Nat
  BY HaystackFacts
<1>2. CASE lanes = {}
  <2>1. Clear(0, width)
    BY <1>2, UnitClear
  <2>2. Clear(0, haystack.len)
    BY <1>1, <2>1, ClearJoin
  <2> QED BY <1>2, <2>2, NoneInHaystack
<1>3. CASE lanes # {}
  <2>1. LastContract(haystack, 0 + LastOf(Lanes(0, width)))
    <3>1. Clear(0 + width, haystack.len)
      OBVIOUS
    <3> QED BY <1>3, <3>1, LastInUnit
  <2>2. lanes \in SUBSET (0 .. width - 1)
    BY LanesFacts
  <2> HIDE DEF lanes
  <2>3. PICK b \in lanes : b \in 0 .. width - 1
    BY <1>3, <2>2
  <2>4. width - 1 \in Nat
    BY <2>3
  <2>5. Max(lanes) \in lanes
    BY <1>3, <2>2, <2>4, MaxNat
  <2>6. Max(lanes) \in 0 .. width - 1
    BY <2>2, <2>5
  <2>7. 0 + LastOf(lanes) = LastOf(lanes)
    BY <2>6 DEF LastOf
  <2> QED BY <1>3, <2>1, <2>7 DEF lanes
<1> QED BY <1>2, <1>3

\* The native vector at the start of the haystack, the last that last_match reads.
LEMMA LastFinalStep == ScanInv /\ LastFinal => ScanInv'
<1> SUFFICES ASSUME ScanInv, LastFinal PROVE ScanInv'
  OBVIOUS
<1> DEFINE lanes == IF offset = 0 THEN {} ELSE Lanes(0, native_width)
           i == IF lanes = {} THEN None ELSE LastOf(lanes)
<1>1. Running("last_match") /\ offset < native_width /\ ReturnIndex(i)
  BY DEF LastFinal, Native
<1>2. /\ IsHaystack(haystack) /\ haystack.len \in Nat
      /\ offset \in Nat /\ offset <= haystack.len /\ Clear(offset, haystack.len)
      /\ native_width \in Nat
  BY <1>1, RunningFacts, NativeFacts
<1>3. LastContract(haystack, i)
  <2>1. CASE offset = 0
    <3>1. Clear(0, haystack.len)
      BY <1>2, <2>1
    <3> QED BY <1>2, <2>1, <3>1, NoneInHaystack
  <2>2. CASE offset # 0
    <3>1. Clear(native_width, haystack.len)
      BY <1>1, <1>2, ClearPart
    <3> QED BY <1>2, <2>2, <3>1, LastFromStart
  <2> QED BY <2>1, <2>2
<1> HIDE DEF i
<1> QED BY <1>1, <1>3, IndexReturned

\* last_match of a block or more, short of a chunk.
LEMMA LastShortVectorsStep == ScanInv /\ LastShortVectors => ScanInv'
<1> SUFFICES ASSUME ScanInv, LastShortVectors PROVE ScanInv'
  OBVIOUS
<1> DEFINE width == IF haystack.len >= 2 * BlockBytes THEN 2 * BlockBytes ELSE BlockBytes
<1>1. Running("last_match") /\ haystack.len >= BlockBytes /\ haystack.len < ChunkBytes
        /\ ReturnIndex(LastOfEnds(width))
  BY DEF LastShortVectors
<1>2. IsHaystack(haystack) /\ haystack.len \in Nat
  BY <1>1, RunningFacts
<1>3. width \in Nat /\ width <= haystack.len /\ haystack.len <= 2 * width
  BY <1>1, <1>2, EndsWidth
<1> HIDE DEF width
<1>4. LastContract(haystack, LastOfEnds(width))
  BY <1>2, <1>3, EndsCover
<1> QED BY <1>1, <1>4, IndexReturned

\* last_match short of a block: the last byte by itself, then a staged load of the rest.
LEMMA LastShortStagedStep == ScanInv /\ LastShortStaged => ScanInv'
<1> SUFFICES ASSUME ScanInv, LastShortStaged PROVE ScanInv'
  OBVIOUS
<1> DEFINE len == haystack.len - 1
           bits == ShortTailBits(0, len, BlockBytes)
<1>1. /\ Running("last_match")
      /\ haystack.len < BlockBytes
      /\ \/ len \in haystack.matches /\ ReturnIndex(len)
         \/ len \notin haystack.matches /\ len <= 0 /\ ReturnIndex(None)
         \/ /\ len \notin haystack.matches
            /\ len > 0
            /\ ReturnIndex(IF bits = {} THEN None ELSE LastOf(bits))
  BY DEF LastShortStaged, ProbeBytes
<1>2. /\ IsHaystack(haystack) /\ haystack.len \in Nat
      /\ haystack.matches \in SUBSET Nat
      /\ \A m \in haystack.matches : m < haystack.len
  BY <1>1, RunningFacts, HaystackFacts
<1>3. CASE len \in haystack.matches /\ ReturnIndex(len)
  <2>1. \A m \in haystack.matches : m <= len
    BY <1>2
  <2>2. LastContract(haystack, len)
    BY <1>3, <2>1 DEF LastContract
  <2> QED BY <1>1, <1>3, <2>2, IndexReturned
<1>4. ASSUME len \notin haystack.matches, len \in Nat PROVE Clear(len, haystack.len)
  <2>1. \A m \in haystack.matches : ~ (len <= m /\ m < haystack.len)
    BY <1>2, <1>4
  <2> QED BY <2>1, ClearFacts
<1>5. CASE len \notin haystack.matches /\ len <= 0 /\ ReturnIndex(None)
  <2>1. Clear(0, haystack.len)
    <3>1. CASE haystack.len = 0
      BY <1>2, <3>1, ClearAll
    <3>2. CASE haystack.len # 0
      <4>1. len = 0
        BY <1>2, <1>5, <3>2
      <4> QED BY <1>4, <1>5, <4>1
    <3> QED BY <3>1, <3>2
  <2>2. LastContract(haystack, None)
    BY <1>2, <2>1, NoneInHaystack
  <2> QED BY <1>1, <1>5, <2>2, IndexReturned
<1>6. CASE /\ len \notin haystack.matches /\ len > 0
           /\ ReturnIndex(IF bits = {} THEN None ELSE LastOf(bits))
  <2>1. len \in 1 .. 15 /\ len \in Nat /\ BlockBytes \in Nat
    BY <1>1, <1>2, <1>6, UnitFacts
  <2>2. bits = Lanes(0, len)
    BY <2>1, ShortTailBitsExact
  <2>3. Clear(len, haystack.len)
    BY <1>4, <1>6, <2>1
  <2> HIDE DEF len
  <2>4. LastContract(haystack, IF bits = {} THEN None ELSE LastOf(bits))
    BY <1>2, <2>1, <2>2, <2>3, LastFromStart
  <2> HIDE DEF bits
  <2> QED BY <1>1, <1>6, <2>4, IndexReturned
<1> QED BY <1>1, <1>3, <1>5, <1>6

\* Every step of last_match.
LEMMA LastSteps ==
    ASSUME ScanInv,
           \/ LastChunk \/ LastPair \/ LastFirstChunk \/ LastNative \/ LastFinal
           \/ LastShortVectors \/ LastShortStaged
    PROVE  ScanInv'
<1>1. CASE LastChunk \/ LastFirstChunk
  <2>1. /\ Running("last_match") /\ offset >= ChunkBytes
        /\ LastIn(offset - ChunkBytes, ChunkBytes)
    BY <1>1 DEF LastChunk, LastFirstChunk
  <2>2. offset \in Nat /\ ChunkBytes \in Nat
    BY <2>1, RunningFacts, UnitFacts
  <2>3. ChunkBytes <= offset
    BY <2>1, <2>2
  <2> QED BY <2>1, <2>2, <2>3, LastInStep
<1>2. CASE LastNative
  <2>1. /\ Running("last_match") /\ offset >= native_width
        /\ LastIn(offset - native_width, native_width)
    BY <1>2 DEF LastNative
  <2>2. offset \in Nat /\ native_width \in Nat
    BY <2>1, RunningFacts, NativeFacts
  <2>3. native_width <= offset
    BY <2>1, <2>2
  <2> QED BY <2>1, <2>2, <2>3, LastInStep
<1> QED BY <1>1, <1>2, LastPairStep, LastFinalStep, LastShortVectorsStep, LastShortStagedStep

(***************************************************************************)
(* count_all.                                                              *)
(***************************************************************************)
LEMMA CountSteps ==
    ASSUME ScanInv, CountChunk \/ CountBlock \/ CountTail PROVE ScanInv'
<1>1. Running("count_all")
  BY DEF CountChunk, CountBlock, CountTail
<1>2. /\ IsHaystack(haystack) /\ offset \in Nat /\ offset <= haystack.len
      /\ Unscanned \in Nat
      /\ BlockBytes \in Nat /\ ChunkBytes \in Nat /\ BlockBytes \in 1 .. 16
  BY <1>1, RunningFacts, UnitFacts
<1>3. CASE CountChunk
  <2>1. /\ ChunkBytes <= Unscanned
        /\ total' = total + Cardinality(Lanes(offset, ChunkBytes))
        /\ MoveTo(offset + ChunkBytes)
    BY <1>2, <1>3 DEF CountChunk, CountUnits
  <2> QED BY <1>1, <1>2, <2>1, CountContinues
<1>4. CASE CountBlock
  <2>1. /\ BlockBytes <= Unscanned
        /\ total' = total + Cardinality(Lanes(offset, BlockBytes))
        /\ MoveTo(offset + BlockBytes)
    BY <1>2, <1>4 DEF CountBlock, CountUnits
  <2> QED BY <1>1, <1>2, <2>1, CountContinues
<1>5. CASE CountTail
  <2>1. Unscanned < BlockBytes /\ ReturnTotal(total + Cardinality(UnscannedBits(BlockBytes)))
    BY <1>5 DEF CountTail
  <2>2. UnscannedBits(BlockBytes) = Lanes(offset, Unscanned)
    BY <1>2, <2>1, UnscannedBitsExact
  <2> QED BY <1>1, <2>1, <2>2, TotalReturned
<1> QED BY <1>3, <1>4, <1>5

\* Every step of the vector engine keeps the loops' invariant.
LEMMA NextScanInv == ScanInv /\ [Next]_vars => ScanInv'
<1> SUFFICES ASSUME ScanInv, [Next]_vars PROVE ScanInv'
  OBVIOUS
<1> QED BY BatchSteps, FirstSteps, LastSteps, CountSteps, ReturnedScanInv DEF Next

\* The loops' invariant holds of every call of the vector engine.
THEOREM Invariance == Spec => []ScanInv
<1> QED BY InitScanInv, NextScanInv, PTL DEF Spec

(***************************************************************************)
(* Every byte the loops of the vector engine have passed was looked at, in *)
(* whichever mix of chunks, blocks and native vectors.                     *)
(***************************************************************************)
THEOREM LoopsSound == Spec => []PassedIsClear
<1>1. ScanInv => PassedIsClear
  BY DEF ScanInv
<1> QED BY <1>1, Invariance, PTL

(***************************************************************************)
(* The vector engine keeps the contract of struct ScanOps, for a haystack  *)
(* of any length with any matches, from any offset and at any SIMD level.  *)
(***************************************************************************)
THEOREM VectorContract == Spec => []MeetsContract
<1>1. ScanInv => MeetsContract
  BY DEF ScanInv
<1> QED BY <1>1, Invariance, PTL

(***************************************************************************)
(* Every iteration of the vector engine's loops returns or leaves fewer    *)
(* bytes to test: no loop is endless, whatever the haystack and the level. *)
(***************************************************************************)
LEMMA NextAdvances ==
    ASSUME ScanInv, Next PROVE Advances \/ UNCHANGED vars
<1> USE DEF ReturnBatch, ReturnTail, ReturnBits, ReturnIndex, ReturnTotal, Return
<1>1. ASSUME NEW f, Running(f),
             NEW width \in {BlockBytes, native_width, ChunkBytes, 2 * ChunkBytes},
             \/ f # "last_match" /\ width <= Unscanned /\ MoveTo(offset + width)
             \/ f = "last_match" /\ width <= offset /\ MoveTo(offset - width)
      PROVE  Advances
  <2>1. width \in Nat /\ 0 < width
    BY UnitFacts, NativeFacts
  <2> QED BY <1>1, <2>1, UnitAdvances
<1>2. ASSUME NEW f, Running(f) PROVE haystack.len \in Nat /\ offset \in Nat /\ Unscanned \in Nat
  BY <1>2, RunningFacts
<1>3. /\ BlockBytes \in Nat /\ ChunkBytes \in Nat /\ 2 * ChunkBytes \in Nat
      /\ native_width \in Nat
  BY UnitFacts, NativeFacts
<1>4. CASE BatchPair \/ BatchChunk \/ BatchBlock
  BY <1>1, <1>2, <1>3, <1>4 DEF BatchPair, BatchChunk, BatchBlock, Continue, Running, Advances
<1>5. CASE FirstChunk \/ FirstPair \/ FirstLastChunk \/ FirstNative
  <2>1. FirstChunk => offset = 0 + 0
    BY DEF FirstChunk
  <2> QED BY <1>1, <1>2, <1>3, <1>5, <2>1
          DEF FirstChunk, FirstPair, FirstLastChunk, FirstNative, FirstIn, Continue, Running, Advances
<1>6. CASE LastChunk \/ LastPair \/ LastFirstChunk \/ LastNative
  BY <1>1, <1>2, <1>3, <1>6
     DEF LastChunk, LastPair, LastFirstChunk, LastNative, LastIn, Continue, Running, Advances
<1>7. CASE CountChunk \/ CountBlock
  BY <1>1, <1>2, <1>3, <1>7 DEF CountChunk, CountBlock, CountUnits
<1>8. CASE \/ BatchTail \/ FirstFinal \/ FirstShortVectors \/ FirstShortStaged
           \/ LastFinal \/ LastShortVectors \/ LastShortStaged \/ CountTail
  BY <1>8 DEF BatchTail, FirstFinal, FirstShortVectors, FirstShortStaged, LastFinal,
              LastShortVectors, LastShortStaged, CountTail, Running, Advances
<1>9. CASE Returned
  BY <1>9 DEF Returned
<1> QED BY <1>4, <1>5, <1>6, <1>7, <1>8, <1>9 DEF Next

\* No loop of the vector engine is endless: every iteration has less left to test.
THEOREM LoopsAdvance == Spec => [][Advances]_vars
<1>1. ScanInv /\ [Next]_vars => [Advances]_vars
  BY NextAdvances
<1> QED BY <1>1, Invariance, PTL DEF Spec
=============================================================================
