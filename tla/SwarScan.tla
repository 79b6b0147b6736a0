------------------------------ MODULE SwarScan ------------------------------
(***************************************************************************)
(* The scan routines of swar/mod.rs, a loop iteration per step.  The unit  *)
(* is a word of eight bytes; movemask gathers the marks of its lanes.      *)
(***************************************************************************)
EXTENDS ScanCall

WordBytes == 8

\* A MatchedBitset has room for the marks of two words.
ASSUME WidthAssumption == Bits >= 2 * WordBytes

\* movemask(kernel.matches(word at o))
Word(o) == Lanes(o, WordBytes)

\* Fault: the second word of a pair is not looked at.
PairFirstOnly(o) == Word(o)

\* movemask(first) | movemask(second) << WORD_BYTES
Pair(o) == PairLanes(o, WordBytes)
-----------------------------------------------------------------------------
(***************************************************************************)
(* next_match_batch: pairs of words, a word, the tail.                     *)
(***************************************************************************)
BatchPair ==
    /\ Running("next_match_batch")
    /\ Unscanned >= 2 * WordBytes
    /\ \/ Pair(offset) # {} /\ ReturnBatch(2 * WordBytes, Pair(offset))
       \/ Pair(offset) = {} /\ Continue(offset + 2 * WordBytes)

BatchWord ==
    /\ Running("next_match_batch")
    /\ Unscanned >= WordBytes
    /\ Unscanned < 2 * WordBytes
    /\ \/ Word(offset) # {} /\ ReturnBatch(WordBytes, Word(offset))
       \/ Word(offset) = {} /\ Continue(offset + WordBytes)

BatchTail ==
    /\ Running("next_match_batch")
    /\ Unscanned < WordBytes
    /\ ReturnTail(UnscannedBits(WordBytes))
-----------------------------------------------------------------------------
(***************************************************************************)
(* first_match: byte by byte below a word, else pairs, a word, the tail.   *)
(***************************************************************************)
FirstShort ==
    /\ Running("first_match")
    /\ haystack.len < WordBytes
    /\ ReturnIndex(IF haystack.matches = {} THEN None ELSE Min(haystack.matches))

FirstPair ==
    /\ Running("first_match")
    /\ Unscanned >= 2 * WordBytes
    /\ LET first == Word(offset)
           second == Word(offset + WordBytes) IN
         \/ first # {} /\ ReturnIndex(offset + FirstOf(first))
         \/ first = {} /\ second # {} /\ ReturnIndex(offset + WordBytes + FirstOf(second))
         \/ first = {} /\ second = {} /\ Continue(offset + 2 * WordBytes)

FirstWord ==
    /\ Running("first_match")
    /\ Unscanned >= WordBytes
    /\ Unscanned < 2 * WordBytes
    /\ \/ Word(offset) # {} /\ ReturnIndex(offset + FirstOf(Word(offset)))
       \/ Word(offset) = {} /\ Continue(offset + WordBytes)

FirstTail ==
    /\ Running("first_match")
    /\ haystack.len >= WordBytes
    /\ Unscanned < WordBytes
    /\ LET bits == UnscannedBits(WordBytes) IN
         ReturnIndex(IF bits = {} THEN None ELSE haystack.len - Unscanned + FirstOf(bits))
-----------------------------------------------------------------------------
(***************************************************************************)
(* last_match: the same from the other end, with `end` for the offset; the *)
(* rest is a prefix, tested as part of the first word.                     *)
(***************************************************************************)
LastShort ==
    /\ Running("last_match")
    /\ haystack.len < WordBytes
    /\ ReturnIndex(IF haystack.matches = {} THEN None ELSE Max(haystack.matches))

LastPair ==
    /\ Running("last_match")
    /\ offset >= 2 * WordBytes
    /\ LET end == offset - 2 * WordBytes
           left == Word(end)
           right == Word(end + WordBytes) IN
         \/ right # {} /\ ReturnIndex(end + WordBytes + LastOf(right))
         \/ right = {} /\ left # {} /\ ReturnIndex(end + LastOf(left))
         \/ right = {} /\ left = {} /\ Continue(end)

LastWord ==
    /\ Running("last_match")
    /\ offset >= WordBytes
    /\ offset < 2 * WordBytes
    /\ LET end == offset - WordBytes IN
         \/ Word(end) # {} /\ ReturnIndex(end + LastOf(Word(end)))
         \/ Word(end) = {} /\ Continue(end)

\* marks & (u64::MAX >> ((WORD_BYTES - prefix.len()) * 8)): the lanes of the prefix.
LastPrefix ==
    /\ Running("last_match")
    /\ haystack.len >= WordBytes
    /\ offset < WordBytes
    /\ LET marks == IF offset = 0 THEN {} ELSE Word(0) \cap LowMask(offset) IN
         ReturnIndex(IF marks = {} THEN None ELSE LastOf(marks))
-----------------------------------------------------------------------------
(***************************************************************************)
(* count_all: the words, then the tail, which is always staged.  How the   *)
(* words' marks are accumulated is the subject of module LaneCount.        *)
(***************************************************************************)
CountWord ==
    /\ Running("count_all")
    /\ Unscanned >= WordBytes
    /\ total' = total + Cardinality(Word(offset))
    /\ MoveTo(offset + WordBytes)

CountTail ==
    /\ Running("count_all")
    /\ Unscanned < WordBytes
    /\ LET bits == IF Unscanned = 0 THEN {} ELSE ShortTailBits(offset, Unscanned, WordBytes) IN
         ReturnTotal(total + Cardinality(bits))
-----------------------------------------------------------------------------
Next ==
    \/ BatchPair \/ BatchWord \/ BatchTail
    \/ FirstShort \/ FirstPair \/ FirstWord \/ FirstTail
    \/ LastShort \/ LastPair \/ LastWord \/ LastPrefix
    \/ CountWord \/ CountTail
    \/ Returned

Spec == Init /\ [][Next]_vars
=============================================================================
