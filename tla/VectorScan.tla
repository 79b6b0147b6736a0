----------------------------- MODULE VectorScan -----------------------------
(***************************************************************************)
(* The scan routines of vector/mod.rs, a loop iteration per step.  Three   *)
(* units are in play: chunks of four blocks, blocks, and the vectors of    *)
(* the SIMD level, as wide as one, two or four blocks, with which          *)
(* first_match and last_match finish.                                      *)
(***************************************************************************)
EXTENDS ScanCall

CONSTANT BlockBytes     \* BLOCK_BYTES

ChunkBytes == 4 * BlockBytes

ProbeBytes == 1

\* const _: () = assert!(MatchedBitset::BITS as usize >= CHUNK_BYTES * 2);
ASSUME WidthAssumption ==
    /\ BlockBytes \in 2 .. 16
    /\ NativeWidths \subseteq {BlockBytes, 2 * BlockBytes, ChunkBytes}
    /\ Bits >= 2 * ChunkBytes

Chunk(o) == Lanes(o, ChunkBytes)

Block(o) == Lanes(o, BlockBytes)

Native(o) == Lanes(o, native_width)

\* Fault: the lanes of the second chunk are not moved up.
PairUnshifted(o) == Chunk(o) \cup Chunk(o + ChunkBytes)

\* Fault: the second chunk of a pair is not looked at.
PairFirstOnly(o) == Chunk(o)

\* The bitmasks of two chunks, the second shifted by CHUNK_BYTES.
Pair(o) == PairLanes(o, ChunkBytes)
-----------------------------------------------------------------------------
(***************************************************************************)
(* next_match_batch: pairs of chunks, a chunk, blocks, the tail.           *)
(***************************************************************************)
BatchPair ==
    /\ Running("next_match_batch")
    /\ Unscanned >= 2 * ChunkBytes
    /\ \/ Pair(offset) # {} /\ ReturnBatch(2 * ChunkBytes, Pair(offset))
       \/ Pair(offset) = {} /\ Continue(offset + 2 * ChunkBytes)

BatchChunk ==
    /\ Running("next_match_batch")
    /\ Unscanned >= ChunkBytes
    /\ Unscanned < 2 * ChunkBytes
    /\ \/ Chunk(offset) # {} /\ ReturnBatch(ChunkBytes, Chunk(offset))
       \/ Chunk(offset) = {} /\ Continue(offset + ChunkBytes)

BatchBlock ==
    /\ Running("next_match_batch")
    /\ Unscanned >= BlockBytes
    /\ Unscanned < ChunkBytes
    /\ \/ Block(offset) # {} /\ ReturnBatch(BlockBytes, Block(offset))
       \/ Block(offset) = {} /\ Continue(offset + BlockBytes)

BatchTail ==
    /\ Running("next_match_batch")
    /\ Unscanned < BlockBytes
    /\ ReturnTail(UnscannedBits(BlockBytes))
-----------------------------------------------------------------------------
(***************************************************************************)
(* first_match of a chunk or more: a chunk, pairs of chunks, a chunk,      *)
(* native vectors, and the haystack's last native vector, which overlaps   *)
(* what was scanned.                                                       *)
(***************************************************************************)

\* first_matching_lane of the lanes at o, if any, else the loop goes on past them.
FirstIn(o, lanes, width) ==
    \/ lanes # {} /\ ReturnIndex(o + FirstOf(lanes))
    \/ lanes = {} /\ Continue(o + width)

FirstChunk ==
    /\ Running("first_match")
    /\ offset = 0
    /\ Unscanned >= ChunkBytes
    /\ FirstIn(0, Chunk(0), ChunkBytes)

FirstPair ==
    /\ Running("first_match")
    /\ offset >= ChunkBytes
    /\ Unscanned >= 2 * ChunkBytes
    /\ LET first == Chunk(offset)
           second == Chunk(offset + ChunkBytes) IN
         \/ first # {} /\ ReturnIndex(offset + FirstOf(first))
         \/ first = {} /\ second # {} /\ ReturnIndex(offset + ChunkBytes + FirstOf(second))
         \/ first = {} /\ second = {} /\ Continue(offset + 2 * ChunkBytes)

FirstLastChunk ==
    /\ Running("first_match")
    /\ offset >= ChunkBytes
    /\ Unscanned >= ChunkBytes
    /\ Unscanned < 2 * ChunkBytes
    /\ FirstIn(offset, Chunk(offset), ChunkBytes)

FirstNative ==
    /\ Running("first_match")
    /\ offset >= ChunkBytes
    /\ native_width < ChunkBytes
    /\ Unscanned >= native_width
    /\ Unscanned < ChunkBytes
    /\ FirstIn(offset, Native(offset), native_width)

\* The lanes of the last native vector, or none when nothing is left.
FinalLanes == IF Unscanned = 0 THEN {} ELSE Native(haystack.len - native_width)

FirstFinal ==
    /\ Running("first_match")
    /\ offset >= ChunkBytes
    /\ Unscanned < native_width
    /\ ReturnIndex(IF FinalLanes = {} THEN None
                   ELSE haystack.len - native_width + FirstOf(FinalLanes))
-----------------------------------------------------------------------------
(***************************************************************************)
(* first_match_short: two overlapping vectors, or a probe and staged ends. *)
(***************************************************************************)

\* The front width bytes, then, unless they were all, the back width bytes.
FirstOfEnds(width) ==
    LET front == Lanes(0, width)
        back == Lanes(haystack.len - width, width) IN
      IF front # {} THEN FirstOf(front)
      ELSE IF haystack.len = width \/ back = {} THEN None
      ELSE haystack.len - width + FirstOf(back)

FirstShortVectors ==
    /\ Running("first_match")
    /\ haystack.len >= BlockBytes
    /\ haystack.len < ChunkBytes
    /\ ReturnIndex(FirstOfEnds(IF haystack.len >= 2 * BlockBytes
                               THEN 2 * BlockBytes ELSE BlockBytes))

\* The first byte alone; then both ends of the others, staged, the halves kept
\* apart so that each keeps the offset its bytes were read from.
FirstShortStaged ==
    /\ Running("first_match")
    /\ haystack.len < BlockBytes
    /\ LET len == haystack.len - ProbeBytes
           n == StagedLen(len)
           bits == Staged(ProbeBytes, len, n, BlockBytes)
           front == bits \cap LowMask(n)
           back == Shr(bits, n) \cap LowMask(n) IN
         \/ 0 \in haystack.matches /\ ReturnIndex(0)
         \/ 0 \notin haystack.matches /\ len <= 0 /\ ReturnIndex(None)
         \/ /\ 0 \notin haystack.matches
            /\ len > 0
            /\ ReturnIndex(IF front # {} THEN ProbeBytes + FirstOf(front)
                           ELSE IF back # {} THEN haystack.len - n + FirstOf(back)
                           ELSE None)
-----------------------------------------------------------------------------
(***************************************************************************)
(* last_match of a chunk or more, from the other end: `offset` is `end`.   *)
(***************************************************************************)

\* last_matching_lane of the width bytes before end, if any, else the loop goes on.
LastIn(end, width) ==
    \/ Lanes(end, width) # {} /\ ReturnIndex(end + LastOf(Lanes(end, width)))
    \/ Lanes(end, width) = {} /\ Continue(end)

LastChunk ==
    /\ Running("last_match")
    /\ offset = haystack.len
    /\ offset >= ChunkBytes
    /\ LastIn(offset - ChunkBytes, ChunkBytes)

LastPair ==
    /\ Running("last_match")
    /\ offset < haystack.len
    /\ offset >= 2 * ChunkBytes
    /\ LET end == offset - 2 * ChunkBytes
           left == Chunk(end)
           right == Chunk(end + ChunkBytes) IN
         \/ right # {} /\ ReturnIndex(end + ChunkBytes + LastOf(right))
         \/ right = {} /\ left # {} /\ ReturnIndex(end + LastOf(left))
         \/ right = {} /\ left = {} /\ Continue(end)

LastFirstChunk ==
    /\ Running("last_match")
    /\ offset < haystack.len
    /\ offset >= ChunkBytes
    /\ offset < 2 * ChunkBytes
    /\ LastIn(offset - ChunkBytes, ChunkBytes)

LastNative ==
    /\ Running("last_match")
    /\ haystack.len >= ChunkBytes
    /\ native_width < ChunkBytes
    /\ offset >= native_width
    /\ offset < ChunkBytes
    /\ LastIn(offset - native_width, native_width)

\* "The overlapping suffix was already checked and contains no matches."
LastFinal ==
    /\ Running("last_match")
    /\ haystack.len >= ChunkBytes
    /\ offset < native_width
    /\ LET lanes == IF offset = 0 THEN {} ELSE Native(0) IN
         ReturnIndex(IF lanes = {} THEN None ELSE LastOf(lanes))
-----------------------------------------------------------------------------
(***************************************************************************)
(* last_match_short.                                                       *)
(***************************************************************************)
LastOfEnds(width) ==
    LET front == Lanes(0, width)
        back == Lanes(haystack.len - width, width) IN
      IF back # {} THEN haystack.len - width + LastOf(back)
      ELSE IF haystack.len = width \/ front = {} THEN None
      ELSE LastOf(front)

LastShortVectors ==
    /\ Running("last_match")
    /\ haystack.len >= BlockBytes
    /\ haystack.len < ChunkBytes
    /\ ReturnIndex(LastOfEnds(IF haystack.len >= 2 * BlockBytes
                              THEN 2 * BlockBytes ELSE BlockBytes))

LastShortStaged ==
    /\ Running("last_match")
    /\ haystack.len < BlockBytes
    /\ LET len == haystack.len - ProbeBytes
           bits == ShortTailBits(0, len, BlockBytes) IN
         \/ len \in haystack.matches /\ ReturnIndex(len)
         \/ len \notin haystack.matches /\ len <= 0 /\ ReturnIndex(None)
         \/ /\ len \notin haystack.matches
            /\ len > 0
            /\ ReturnIndex(IF bits = {} THEN None ELSE LastOf(bits))
-----------------------------------------------------------------------------
(***************************************************************************)
(* count_all: chunks, blocks, the tail.  How the lanes of the chunks and   *)
(* blocks are accumulated is the subject of module LaneCount.              *)
(***************************************************************************)
CountUnits(width) ==
    /\ total' = total + Cardinality(Lanes(offset, width))
    /\ MoveTo(offset + width)

CountChunk ==
    /\ Running("count_all")
    /\ Unscanned >= ChunkBytes
    /\ CountUnits(ChunkBytes)

CountBlock ==
    /\ Running("count_all")
    /\ Unscanned >= BlockBytes
    /\ Unscanned < ChunkBytes
    /\ CountUnits(BlockBytes)

CountTail ==
    /\ Running("count_all")
    /\ Unscanned < BlockBytes
    /\ ReturnTotal(total + Cardinality(UnscannedBits(BlockBytes)))
-----------------------------------------------------------------------------
Next ==
    \/ BatchPair \/ BatchChunk \/ BatchBlock \/ BatchTail
    \/ FirstChunk \/ FirstPair \/ FirstLastChunk \/ FirstNative \/ FirstFinal
    \/ FirstShortVectors \/ FirstShortStaged
    \/ LastChunk \/ LastPair \/ LastFirstChunk \/ LastNative \/ LastFinal
    \/ LastShortVectors \/ LastShortStaged
    \/ CountChunk \/ CountBlock \/ CountTail
    \/ Returned

Spec == Init /\ [][Next]_vars
=============================================================================
