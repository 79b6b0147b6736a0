-------------------------- MODULE ScanCallProofs --------------------------
(***************************************************************************)
(* What the proofs about both engines rest on: what a bitset read from the *)
(* haystack says of its matches, however its bytes were read, and how the  *)
(* steps of module ScanCall preserve the loops' invariant.                 *)
(***************************************************************************)
EXTENDS ScanCall, BitSetLemmas

(***************************************************************************)
(* What is known of a haystack, in the form the other proofs use it.       *)
(***************************************************************************)
LEMMA HaystackFacts ==
    ASSUME IsHaystack(haystack)
    PROVE  /\ haystack.len \in Nat
           /\ haystack.matches \in SUBSET Nat
           /\ \A m \in haystack.matches : m < haystack.len
<1>1. haystack.len \in Nat /\ haystack.matches \in SUBSET Nat
  BY DEF IsHaystack
<1>2. haystack.matches \in SUBSET (0 .. haystack.len - 1)
  BY DEF IsHaystack
<1>3. ASSUME NEW m \in haystack.matches PROVE m < haystack.len
  <2>1. m \in 0 .. haystack.len - 1
    BY <1>2
  <2> QED BY <2>1, <1>1
<1> QED BY <1>1, <1>3

\* No match lies in from .. to - 1.
Clear(from, to) == MatchesIn(haystack, from, to) = {}

\* What Clear says, match by match.
LEMMA ClearFacts ==
    ASSUME NEW from, NEW to
    PROVE  Clear(from, to) <=> \A m \in haystack.matches : ~ (from <= m /\ m < to)
BY DEF Clear, MatchesIn

(***************************************************************************)
(* The lanes of the bytes from an offset on: their bits, relative to it.   *)
(***************************************************************************)
LEMMA LanesFacts ==
    ASSUME IsHaystack(haystack), NEW o \in Nat, NEW width \in Nat
    PROVE  /\ Lanes(o, width) \in SUBSET (0 .. width - 1)
           /\ Lanes(o, width) \in SUBSET Nat
           /\ \A i \in Lanes(o, width) : i < width /\ o + i \in haystack.matches
           /\ \A m \in haystack.matches : o <= m /\ m < o + width => m - o \in Lanes(o, width)
           /\ Lanes(o, width) = BatchOf(haystack, o, o + width)
           /\ Lanes(o, width) = {} <=> Clear(o, o + width)
<1>1. haystack.matches \in SUBSET Nat
  BY HaystackFacts
<1>2. \A i \in Lanes(o, width) : i \in 0 .. width - 1 /\ o + i \in haystack.matches
  BY DEF Lanes
<1>3. ASSUME NEW i \in Lanes(o, width) PROVE i \in Nat /\ i < width /\ o + i \in haystack.matches
  <2>1. i \in 0 .. width - 1 /\ o + i \in haystack.matches
    BY <1>2
  <2> QED BY <2>1
<1>4. ASSUME NEW m \in haystack.matches, o <= m, m < o + width
      PROVE  m - o \in Lanes(o, width) /\ o + (m - o) = m
  <2>1. m \in Nat
    BY <1>1
  <2>2. m - o \in 0 .. width - 1 /\ o + (m - o) = m
    BY <1>4, <2>1
  <2> QED BY <2>2 DEF Lanes
<1>5. Lanes(o, width) = BatchOf(haystack, o, o + width)
  <2>1. ASSUME NEW i \in Lanes(o, width) PROVE i \in BatchOf(haystack, o, o + width)
    <3>1. i \in Nat /\ i < width /\ o + i \in haystack.matches
      BY <1>3
    <3>2. o + i \in MatchesIn(haystack, o, o + width) /\ i = (o + i) - o
      BY <3>1 DEF MatchesIn
    <3> QED BY <3>2 DEF BatchOf
  <2>2. ASSUME NEW i \in BatchOf(haystack, o, o + width) PROVE i \in Lanes(o, width)
    <3>1. PICK m \in MatchesIn(haystack, o, o + width) : i = m - o
      BY DEF BatchOf
    <3> QED BY <3>1, <1>4 DEF MatchesIn
  <2> QED BY <2>1, <2>2
<1>6. Lanes(o, width) = {} <=> Clear(o, o + width)
  <2>1. ASSUME Lanes(o, width) = {} PROVE Clear(o, o + width)
    BY <1>4, <2>1, ClearFacts
  <2>2. ASSUME Clear(o, o + width), NEW i \in Lanes(o, width) PROVE FALSE
    <3>1. i \in Nat /\ i < width /\ o + i \in haystack.matches
      BY <1>3
    <3>2. o <= o + i /\ o + i < o + width
      BY <3>1
    <3> QED BY <2>2, <3>1, <3>2, ClearFacts
  <2> QED BY <2>1, <2>2
<1> QED BY <1>2, <1>3, <1>4, <1>5, <1>6

\* A unit has no lanes if no match lies between its ends.
LEMMA UnitClear ==
    ASSUME IsHaystack(haystack), NEW o \in Nat, NEW width \in Nat, NEW end, end = o + width
    PROVE  Lanes(o, width) = {} <=> Clear(o, end)
BY LanesFacts

(***************************************************************************)
(* Two adjacent units tested as one bitset: those of a unit twice as wide, *)
(* if a bitset has room for it.                                            *)
(***************************************************************************)
LEMMA PairLanesExact ==
    ASSUME NEW o \in Nat, NEW width \in Nat, 2 * width <= Bits
    PROVE  PairLanes(o, width) = Lanes(o, 2 * width)
<1>1. Bits \in Nat
  BY BitsAssumption
<1>2. ASSUME NEW i PROVE i \in PairLanes(o, width) <=> i \in Lanes(o, 2 * width)
  <2>1. i \in PairLanes(o, width)
          <=> \/ i \in 0 .. width - 1 /\ o + i \in haystack.matches
              \/ /\ i \in 0 .. Bits - 1 /\ i - width \in 0 .. width - 1
                 /\ (o + width) + (i - width) \in haystack.matches
    BY DEF PairLanes, Lanes, Shl
  <2>2. i \in Lanes(o, 2 * width) <=> i \in 0 .. 2 * width - 1 /\ o + i \in haystack.matches
    BY DEF Lanes
  <2>3. i \in 0 .. Bits - 1 => (o + width) + (i - width) = o + i
    OBVIOUS
  <2>4. i \in 0 .. 2 * width - 1
          <=> i \in 0 .. width - 1 \/ (i \in 0 .. Bits - 1 /\ i - width \in 0 .. width - 1)
    BY <1>1
  <2> QED BY <2>1, <2>2, <2>3, <2>4
<1> QED BY <1>2

(***************************************************************************)
(* The ends of a short slice: those staged cover it, whether they overlap  *)
(* or not, and sliding the last of them back puts every lane at the offset *)
(* of its byte; what the padding matched is masked out.                    *)
(***************************************************************************)
LEMMA StagedLenFacts ==
    ASSUME NEW len \in 1 .. 15
    PROVE  StagedLen(len) \in 1 .. len /\ len <= 2 * StagedLen(len)
BY DEF StagedLen

\* Both reads of a staged load: its first n bytes, and from bit n on its last n bytes.
LEMMA StagedEnds ==
    ASSUME NEW o \in Nat, NEW len \in Nat, NEW width \in Nat, NEW n \in 0 .. len,
           NEW last, last = o + len - n
    PROVE  /\ Staged(o, len, n, width) \cap LowMask(n) = Lanes(o, n)
           /\ Shr(Staged(o, len, n, width), n) \cap LowMask(n) = Lanes(last, n)
<1> DEFINE bits == Staged(o, len, n, width)
<1>1. ASSUME NEW i PROVE i \in bits \cap LowMask(n) <=> i \in Lanes(o, n)
  <2>1. i \in 0 .. n - 1 => i \notin n .. 2 * n - 1 /\ i \notin 2 * n .. width - 1
    OBVIOUS
  <2> QED BY <2>1 DEF Staged, LowMask, Lanes
<1>2. ASSUME NEW i \in 0 .. n - 1
      PROVE  i + n \in bits <=> last + i \in haystack.matches
  <2>1. i + n \notin 0 .. n - 1 /\ i + n \in n .. 2 * n - 1 /\ i + n \notin 2 * n .. width - 1
    OBVIOUS
  <2>2. o + len - 2 * n + (i + n) = last + i
    OBVIOUS
  <2> QED BY <2>1, <2>2 DEF Staged
<1>3. ASSUME NEW i PROVE i \in Shr(bits, n) \cap LowMask(n) <=> i \in Lanes(last, n)
  <2>1. i \in 0 .. n - 1 => (i \in Shr(bits, n) <=> i + n \in bits)
    <3> SUFFICES ASSUME i \in 0 .. n - 1 PROVE i \in Shr(bits, n) <=> i + n \in bits
      OBVIOUS
    <3>1. ASSUME i \in Shr(bits, n) PROVE i + n \in bits
      <4>1. PICK b \in bits : b >= n /\ i = b - n
        BY <3>1 DEF Shr
      <4>2. b \in Int
        BY DEF Staged
      <4> HIDE DEF bits
      <4>3. b = i + n
        BY <4>1, <4>2
      <4> QED BY <4>3
    <3>2. ASSUME i + n \in bits PROVE i \in Shr(bits, n)
      <4> HIDE DEF bits
      <4>1. i = (i + n) - n /\ i + n >= n
        OBVIOUS
      <4> QED BY <3>2, <4>1 DEF Shr
    <3> QED BY <3>1, <3>2
  <2> HIDE DEF bits
  <2> QED BY <1>2, <2>1 DEF LowMask, Lanes
<1> QED BY <1>1, <1>3

\* The two reads, slid into place, are the bits of the whole load.
LEMMA SlideEndsExact ==
    ASSUME NEW o \in Nat, NEW len \in 1 .. 15, NEW width \in Nat, NEW n \in 0 .. len,
           len <= 2 * n
    PROVE  SlideEnds(Staged(o, len, n, width), n, len) = Lanes(o, len)
<1>1. Staged(o, len, n, width) \cap LowMask(n) = Lanes(o, n)
  BY StagedEnds
<1>2. Shr(Staged(o, len, n, width), n) \cap LowMask(n) = Lanes(o + len - n, n)
  BY StagedEnds
<1> DEFINE slid == SlideEnds(Staged(o, len, n, width), n, len)
<1>3. slid = Lanes(o, n) \cup Shl(Lanes(o + len - n, n), len - n, 64)
  BY <1>1, <1>2 DEF SlideEnds
<1>4. ASSUME NEW i PROVE i \in slid <=> i \in Lanes(o, len)
  <2>1. i \in slid
          <=> \/ i \in 0 .. n - 1 /\ o + i \in haystack.matches
              \/ /\ i \in 0 .. 64 - 1 /\ i - (len - n) \in 0 .. n - 1
                 /\ (o + len - n) + (i - (len - n)) \in haystack.matches
    BY <1>3 DEF Lanes, Shl
  <2>2. i \in 0 .. 64 - 1 => (o + len - n) + (i - (len - n)) = o + i
    OBVIOUS
  <2>3. i \in 0 .. len - 1
          <=> i \in 0 .. n - 1 \/ (i \in 0 .. 64 - 1 /\ i - (len - n) \in 0 .. n - 1)
    OBVIOUS
  <2> QED BY <2>1, <2>2, <2>3 DEF Lanes
<1> QED BY <1>4

\* staged_load16 covers a tail too short to be read in one go.
LEMMA ShortTailBitsExact ==
    ASSUME NEW o \in Nat, NEW len \in 1 .. 15, NEW width \in Nat
    PROVE  ShortTailBits(o, len, width) = Lanes(o, len)
BY StagedLenFacts, SlideEndsExact DEF ShortTailBits

(***************************************************************************)
(* The tail's bits are its lanes, whether the last whole unit is read      *)
(* again or the tail is staged.                                            *)
(***************************************************************************)
LEMMA TailBitsExact ==
    ASSUME IsHaystack(haystack), NEW width \in 1 .. 16, NEW len \in 1 .. width - 1,
           len <= haystack.len
    PROVE  TailBits(len, width) = Lanes(haystack.len - len, len)
<1>1. haystack.len \in Nat
  BY HaystackFacts
<1>2. CASE haystack.len >= width
  <2> DEFINE o == haystack.len - width
             k == width - len
             bits == Lanes(o, width)
  <2>1. o \in Nat /\ k \in Nat /\ haystack.len - len = o + k
    BY <1>1, <1>2
  <2>2. TailBits(len, width) = Shr(bits, k)
    BY <1>2 DEF TailBits
  <2> HIDE DEF o
  <2>3. \A b \in bits : b \in Int
    BY DEF Lanes
  <2>4. ASSUME NEW i PROVE i \in Shr(bits, k) <=> i \in Lanes(o + k, len)
    <3>1. ASSUME i \in Shr(bits, k) PROVE i \in Lanes(o + k, len)
      <4>1. PICK b \in bits : b >= k /\ i = b - k
        BY <3>1 DEF Shr
      <4>2. b \in 0 .. width - 1 /\ o + b \in haystack.matches
        BY DEF Lanes
      <4>3. i \in 0 .. len - 1 /\ (o + k) + i = o + b
        BY <2>1, <4>1, <4>2
      <4> QED BY <4>2, <4>3 DEF Lanes
    <3>2. ASSUME i \in Lanes(o + k, len) PROVE i \in Shr(bits, k)
      <4>1. i \in 0 .. len - 1 /\ (o + k) + i \in haystack.matches
        BY <3>2 DEF Lanes
      <4>2. i + k \in 0 .. width - 1 /\ i + k >= k /\ i = (i + k) - k /\ o + (i + k) = (o + k) + i
        BY <2>1, <4>1
      <4>3. i + k \in bits
        BY <4>1, <4>2 DEF Lanes
      <4> HIDE DEF bits
      <4> QED BY <4>2, <4>3 DEF Shr
    <3> QED BY <3>1, <3>2
  <2> HIDE DEF bits, k
  <2>5. Shr(bits, k) = Lanes(o + k, len)
    BY <2>4
  <2> QED BY <2>1, <2>2, <2>5
<1>3. CASE haystack.len < width
  <2>1. haystack.len - len \in Nat /\ len \in 1 .. 15
    BY <1>1
  <2>2. ShortTailBits(haystack.len - len, len, width) = Lanes(haystack.len - len, len)
    BY <2>1, ShortTailBitsExact
  <2> QED BY <1>1, <1>3, <2>2 DEF TailBits
<1> QED BY <1>1, <1>2, <1>3

\* What is read of the bytes left, fewer than a unit, is their lanes.
LEMMA UnscannedBitsExact ==
    ASSUME IsHaystack(haystack), NEW width \in 1 .. 16,
           offset \in Nat, offset <= haystack.len, Unscanned < width
    PROVE  /\ Unscanned \in Nat
           /\ offset + Unscanned = haystack.len
           /\ haystack.len - Unscanned = offset
           /\ UnscannedBits(width) = Lanes(offset, Unscanned)
<1>1. haystack.len \in Nat
  BY HaystackFacts
<1>2. Unscanned \in 0 .. width - 1 /\ offset + Unscanned = haystack.len
        /\ haystack.len - Unscanned = offset
  BY <1>1 DEF Unscanned
<1> DEFINE len == Unscanned
<1> HIDE DEF len
<1>3. CASE len = 0
  <2>1. Lanes(offset, 0) = {}
    BY DEF Lanes
  <2> QED BY <1>2, <1>3, <2>1 DEF UnscannedBits, len
<1>4. CASE len # 0
  <2>1. len \in 1 .. width - 1 /\ len <= haystack.len
    BY <1>1, <1>2, <1>4 DEF len
  <2>2. TailBits(len, width) = Lanes(haystack.len - len, len)
    BY <2>1, TailBitsExact
  <2> QED BY <1>2, <1>4, <2>2 DEF UnscannedBits, len
<1> QED BY <1>3, <1>4
-----------------------------------------------------------------------------
(***************************************************************************)
(* What is passed when a unit without a match is, from either end.         *)
(***************************************************************************)
LEMMA ClearPart ==
    ASSUME IsHaystack(haystack), NEW from \in Nat, NEW to \in Nat, Clear(from, to),
           NEW a \in Nat, NEW b \in Nat, from <= a, b <= to
    PROVE  Clear(a, b)
<1>1. haystack.matches \in SUBSET Nat
  BY HaystackFacts
<1>2. \A m \in haystack.matches : m \in Nat /\ ~ (from <= m /\ m < to)
  BY <1>1, ClearFacts
<1>3. \A m \in haystack.matches : ~ (a <= m /\ m < b)
  BY <1>2
<1> QED BY <1>3, ClearFacts

\* Two adjacent clear stretches are one.
LEMMA ClearJoin ==
    ASSUME IsHaystack(haystack), NEW a \in Nat, NEW b \in Nat, NEW c \in Nat,
           Clear(a, b), Clear(b, c)
    PROVE  Clear(a, c)
<1>1. haystack.matches \in SUBSET Nat
  BY HaystackFacts
<1>2. \A m \in haystack.matches : m \in Nat /\ ~ (a <= m /\ m < b) /\ ~ (b <= m /\ m < c)
  BY <1>1, ClearFacts
<1>3. \A m \in haystack.matches : ~ (a <= m /\ m < c)
  BY <1>2
<1> QED BY <1>3, ClearFacts

\* Nothing of the haystack is clear but all of it, or none of it is left to be.
LEMMA ClearAll ==
    ASSUME IsHaystack(haystack)
    PROVE  /\ Clear(0, haystack.len) <=> haystack.matches = {}
           /\ \A o \in Nat : Clear(o, o)
<1>1. haystack.len \in Nat /\ haystack.matches \in SUBSET Nat
        /\ \A m \in haystack.matches : m < haystack.len
  BY HaystackFacts
<1>2. \A m \in haystack.matches : 0 <= m /\ m < haystack.len
  BY <1>1
<1>3. Clear(0, haystack.len) <=> haystack.matches = {}
  BY <1>2, ClearFacts
<1>4. ASSUME NEW o \in Nat PROVE Clear(o, o)
  <2>1. \A m \in haystack.matches : ~ (o <= m /\ m < o)
    BY <1>1
  <2> QED BY <2>1, ClearFacts
<1> QED BY <1>3, <1>4

(***************************************************************************)
(* The matches before an offset, and those of the unit at it.              *)
(***************************************************************************)
LEMMA CountedFacts ==
    ASSUME IsHaystack(haystack), NEW o \in Nat, NEW width \in Nat, o + width <= haystack.len
    PROVE  /\ Cardinality(MatchesIn(haystack, 0, o)) \in Nat
           /\ Cardinality(Lanes(o, width)) \in Nat
           /\ Cardinality(MatchesIn(haystack, 0, o + width))
                = Cardinality(MatchesIn(haystack, 0, o)) + Cardinality(Lanes(o, width))
<1> DEFINE passed == MatchesIn(haystack, 0, o)
           unit == MatchesIn(haystack, o, o + width)
           both == MatchesIn(haystack, 0, o + width)
           lanes == Lanes(o, width)
<1>1. haystack.len \in Nat /\ haystack.matches \in SUBSET Nat
        /\ \A m \in haystack.matches : m < haystack.len
  BY HaystackFacts
<1>2. IsFiniteSet(haystack.matches)
  <2>1. \A m \in haystack.matches : m <= haystack.len
    BY <1>1
  <2> QED BY <1>1, <2>1, FS_BoundedSetOfNaturals
<1>3. IsFiniteSet(passed) /\ IsFiniteSet(unit)
  <2>1. passed \in SUBSET haystack.matches /\ unit \in SUBSET haystack.matches
    BY DEF MatchesIn
  <2> QED BY <1>2, <2>1, FS_Subset
<1>4. \A m \in haystack.matches : m \in both <=> m \in passed \/ m \in unit
  BY <1>1 DEF MatchesIn
<1>5. both = passed \cup unit
  BY <1>4 DEF MatchesIn
<1>6. passed \cap unit = {}
  <2>1. \A m \in haystack.matches : ~ (m < o /\ o <= m)
    BY <1>1
  <2> QED BY <2>1 DEF MatchesIn
<1>7. IsFiniteSet(lanes) /\ Cardinality(lanes) \in Nat /\ Cardinality(unit) = Cardinality(lanes)
  <2>1. lanes \in SUBSET Nat /\ \A i \in lanes : i \in Nat /\ i < width /\ o + i \in haystack.matches
    BY LanesFacts
  <2>2. \A i \in lanes : i <= width
    BY <2>1
  <2> HIDE DEF lanes
  <2>3. IsFiniteSet(lanes)
    BY <2>1, <2>2, FS_BoundedSetOfNaturals
  <2>4. IsFiniteSet(Offsets(o, lanes)) /\ Cardinality(Offsets(o, lanes)) = Cardinality(lanes)
    BY <2>1, <2>3, ShiftCardinality DEF Offsets
  <2>5. ASSUME NEW m PROVE m \in Offsets(o, lanes) <=> m \in unit
    <3>1. ASSUME m \in Offsets(o, lanes) PROVE m \in unit
      <4>1. PICK i \in lanes : m = o + i
        BY <3>1 DEF Offsets
      <4>2. m \in haystack.matches /\ o <= m /\ m < o + width
        BY <2>1, <4>1
      <4> QED BY <4>2 DEF MatchesIn
    <3>2. ASSUME m \in unit PROVE m \in Offsets(o, lanes)
      <4>1. m \in haystack.matches /\ o <= m /\ m < o + width /\ m \in Nat
        BY <1>1, <3>2 DEF MatchesIn
      <4>2. m - o \in lanes
        BY <4>1, LanesFacts DEF lanes
      <4>3. m = o + (m - o)
        BY <4>1
      <4> QED BY <4>2, <4>3 DEF Offsets
    <3> QED BY <3>1, <3>2
  <2> HIDE DEF unit
  <2>6. Offsets(o, lanes) = unit
    BY <2>5
  <2> QED BY <2>3, <2>4, <2>6, FS_CardinalityType
<1>8. Cardinality(passed) \in Nat
  BY <1>3, FS_CardinalityType
<1> HIDE DEF passed, unit, both, lanes
<1>9. Cardinality(both) = Cardinality(passed) + Cardinality(unit)
  <2>1. Cardinality(passed \cup unit)
          = Cardinality(passed) + Cardinality(unit) - Cardinality(passed \cap unit)
    BY <1>3, FS_Union
  <2>2. Cardinality(passed \cap unit) = 0
    BY <1>6, FS_EmptySet
  <2> QED BY <1>5, <1>7, <1>8, <2>1, <2>2
<1> QED BY <1>7, <1>8, <1>9 DEF passed, both, lanes

(***************************************************************************)
(* The lowest lane of the first unit that has one is the first match, and  *)
(* the highest lane of the last that has one the last match.               *)
(***************************************************************************)
LEMMA FirstInUnit ==
    ASSUME IsHaystack(haystack), NEW o \in Nat, NEW width \in Nat,
           Clear(0, o), Lanes(o, width) # {}
    PROVE  FirstContract(haystack, o + FirstOf(Lanes(o, width)))
<1> DEFINE lanes == Lanes(o, width)
           low == Min(lanes)
<1>1. haystack.matches \in SUBSET Nat
  BY HaystackFacts
<1>2. /\ lanes \in SUBSET Nat
      /\ \A i \in lanes : i < width /\ o + i \in haystack.matches
      /\ \A m \in haystack.matches : o <= m /\ m < o + width => m - o \in lanes
  BY LanesFacts
<1> HIDE DEF lanes
<1>3. low \in lanes /\ \A i \in lanes : low <= i
  BY <1>2, MinNat DEF lanes
<1> HIDE DEF low
<1>4. low \in Nat /\ low < width /\ o + low \in haystack.matches
  BY <1>2, <1>3
<1>5. ASSUME NEW m \in haystack.matches PROVE o + low <= m
  <2>1. m \in Nat /\ ~ (0 <= m /\ m < o)
    BY <1>1, ClearFacts
  <2>2. CASE m < o + width
    <3>1. m - o \in lanes
      BY <1>2, <2>1, <2>2
    <3>2. low <= m - o
      BY <1>3, <3>1
    <3> QED BY <1>4, <2>1, <3>2
  <2>3. CASE ~ (m < o + width)
    BY <1>4, <2>1, <2>3
  <2> QED BY <2>2, <2>3
<1> QED BY <1>4, <1>5 DEF FirstContract, FirstOf, low, lanes

\* Likewise the highest bit of the last unit with a match, for last_match.
LEMMA LastInUnit ==
    ASSUME IsHaystack(haystack), NEW o \in Nat, NEW width \in Nat,
           Clear(o + width, haystack.len), Lanes(o, width) # {}
    PROVE  LastContract(haystack, o + LastOf(Lanes(o, width)))
<1> DEFINE lanes == Lanes(o, width)
           high == Max(lanes)
<1>1. haystack.matches \in SUBSET Nat /\ \A m \in haystack.matches : m < haystack.len
  BY HaystackFacts
<1>2. /\ lanes \in SUBSET (0 .. width - 1)
      /\ lanes \in SUBSET Nat
      /\ \A i \in lanes : i < width /\ o + i \in haystack.matches
      /\ \A m \in haystack.matches : o <= m /\ m < o + width => m - o \in lanes
  BY LanesFacts
<1> HIDE DEF lanes
<1>3. lanes # {} /\ width - 1 \in Nat
  <2>1. lanes # {}
    BY DEF lanes
  <2>2. PICK i \in lanes : i \in Nat /\ i < width
    BY <1>2, <2>1
  <2> QED BY <2>1, <2>2
<1>4. high \in lanes /\ \A i \in lanes : i <= high
  BY <1>2, <1>3, MaxNat
<1> HIDE DEF high
<1>5. high \in Nat /\ o + high \in haystack.matches
  BY <1>2, <1>4
<1>6. ASSUME NEW m \in haystack.matches PROVE m <= o + high
  <2>1. m \in Nat /\ m < haystack.len /\ ~ (o + width <= m /\ m < haystack.len)
    BY <1>1, ClearFacts
  <2>2. m < o + width
    BY <2>1
  <2>3. CASE o <= m
    <3>1. m - o \in lanes
      BY <1>2, <2>2, <2>3
    <3>2. m - o <= high
      BY <1>4, <3>1
    <3> QED BY <1>5, <2>1, <3>2
  <2>4. CASE ~ (o <= m)
    BY <1>5, <2>1, <2>4
  <2> QED BY <2>3, <2>4
<1> QED BY <1>5, <1>6 DEF LastContract, LastOf, high, lanes

\* A haystack clear throughout has neither a first match nor a last one.
LEMMA NoneInHaystack ==
    ASSUME IsHaystack(haystack), Clear(0, haystack.len)
    PROVE  FirstContract(haystack, None) /\ LastContract(haystack, None)
BY ClearAll DEF FirstContract, LastContract

(***************************************************************************)
(* A unit's lanes make a batch: those of the first unit with a match, or   *)
(* of what is left of the haystack, with or without one.                   *)
(***************************************************************************)
LEMMA UnitBatch ==
    ASSUME IsHaystack(haystack), start \in Nat, NEW o \in Nat, NEW width \in Nat,
           start <= o, Clear(start, o), o + width <= haystack.len, width <= Bits,
           \/ Lanes(o, width) # {}
           \/ o + width = haystack.len
    PROVE  BatchContract(haystack, start, o, o + width, Lanes(o, width))
<1>1. haystack.len \in Nat /\ Bits \in Nat
  BY HaystackFacts, BitsAssumption
<1>2. Lanes(o, width) = BatchOf(haystack, o, o + width)
  BY LanesFacts
<1>3. Lanes(o, width) # {} => width > 0
  BY DEF Lanes
<1>4. start < haystack.len => start < o + width
  BY <1>1, <1>3
<1> QED BY <1>1, <1>2, <1>4 DEF BatchContract, Clear
-----------------------------------------------------------------------------
(***************************************************************************)
(* The inductive invariant of both engines: the two properties of module   *)
(* ScanCall, and that the offsets are offsets of a haystack.  The loops'   *)
(* invariant is what makes a result right, of the reads that overlap what  *)
(* was passed above all; of what was returned the contract says enough.    *)
(***************************************************************************)
CallTypeOK ==
    /\ IsHaystack(haystack)
    /\ op \in Ops
    /\ native_width \in NativeWidths
    /\ start \in Nat
    /\ start <= haystack.len
    /\ op # "next_match_batch" => start = 0
    /\ offset \in Nat
    /\ total \in Nat

ScanInv == CallTypeOK /\ PassedIsClear /\ MeetsContract

\* A call starts with no byte passed and nothing returned.
LEMMA CalledScanInv ==
    ASSUME CallTypeOK, total = 0, result = Pending,
           offset = IF op = "last_match" THEN haystack.len ELSE start
    PROVE  ScanInv
<1>1. IsHaystack(haystack) /\ haystack.len \in Nat /\ start \in Nat /\ start <= haystack.len
  BY HaystackFacts DEF CallTypeOK
<1>2. Clear(start, start) /\ Clear(haystack.len, haystack.len) /\ Clear(0, 0)
  BY <1>1, ClearAll
<1>3. op = "count_all" => start = 0
  BY DEF CallTypeOK
<1>4. Cardinality({}) = 0
  BY FS_EmptySet
<1>5. PassedIsClear
  BY <1>1, <1>2, <1>3, <1>4 DEF PassedIsClear, Clear
<1>6. MeetsContract
  BY DEF MeetsContract, Pending
<1> QED BY <1>5, <1>6 DEF ScanInv

LEMMA InitScanInv == Init => ScanInv
<1> SUFFICES ASSUME Init PROVE ScanInv
  OBVIOUS
<1>1. IsHaystack(haystack) /\ haystack.len \in Nat
  BY HaystacksAssumption, HaystackFacts DEF Init
<1>2. CallTypeOK
  BY <1>1 DEF Init, CallTypeOK
<1> QED BY <1>2, CalledScanInv DEF Init

(***************************************************************************)
(* What the invariant says of a routine that has not returned.             *)
(***************************************************************************)
LEMMA RunningFacts ==
    ASSUME ScanInv, NEW f, Running(f)
    PROVE  /\ op = f /\ result = Pending
           /\ IsHaystack(haystack) /\ haystack.len \in Nat
           /\ start \in Nat /\ offset \in Nat /\ offset <= haystack.len
           /\ Unscanned \in Nat /\ offset + Unscanned = haystack.len
           /\ f = "next_match_batch" => start <= offset /\ Clear(start, offset)
           /\ f = "first_match" => start = 0 /\ Clear(0, offset)
           /\ f = "last_match" => Clear(offset, haystack.len)
           /\ f = "count_all" => total = Cardinality(MatchesIn(haystack, 0, offset))
<1>1. op = f /\ result = Pending
  BY DEF Running
<1>2. CallTypeOK /\ PassedIsClear
  BY DEF ScanInv
<1>3. /\ IsHaystack(haystack) /\ haystack.len \in Nat
      /\ start \in Nat /\ offset \in Nat /\ offset <= haystack.len
  BY <1>1, <1>2, HaystackFacts DEF CallTypeOK, PassedIsClear
<1>4. Unscanned \in Nat /\ offset + Unscanned = haystack.len
  BY <1>3 DEF Unscanned
<1> QED BY <1>1, <1>2, <1>3, <1>4 DEF CallTypeOK, PassedIsClear, Clear

(***************************************************************************)
(* A loop that goes on has passed a unit without a match.                  *)
(***************************************************************************)
LEMMA BatchContinues ==
    ASSUME ScanInv, Running("next_match_batch"), NEW width \in Nat,
           width <= Unscanned, Lanes(offset, width) = {}, Continue(offset + width)
    PROVE  ScanInv'
<1> DEFINE o == offset + width
<1>1. /\ op = "next_match_batch" /\ result = Pending
      /\ IsHaystack(haystack) /\ haystack.len \in Nat
      /\ start \in Nat /\ offset \in Nat
      /\ Unscanned \in Nat /\ offset + Unscanned = haystack.len
      /\ start <= offset /\ Clear(start, offset)
  BY RunningFacts
<1>2. /\ offset' = o
      /\ UNCHANGED <<haystack, zero, op, native_width, start, match_base, scan_offset, result, total>>
  BY DEF Continue, MoveTo, inputs, batch
<1>3. o \in Nat /\ o <= haystack.len /\ start <= o
  BY <1>1
<1>4. Clear(offset, o)
  BY <1>1, LanesFacts
<1> HIDE DEF o
<1>5. Clear(start, o)
  BY <1>1, <1>3, <1>4, ClearJoin
<1>6. CallTypeOK'
  BY <1>2, <1>3 DEF ScanInv, CallTypeOK
<1>7. PassedIsClear'
  BY <1>1, <1>2, <1>3, <1>5 DEF PassedIsClear, Clear
<1>8. MeetsContract'
  BY <1>1, <1>2 DEF MeetsContract, Pending
<1> QED BY <1>6, <1>7, <1>8 DEF ScanInv

\* Likewise first_match.
LEMMA FirstContinues ==
    ASSUME ScanInv, Running("first_match"), NEW width \in Nat,
           width <= Unscanned, Lanes(offset, width) = {}, Continue(offset + width)
    PROVE  ScanInv'
<1> DEFINE o == offset + width
<1>1. /\ op = "first_match" /\ result = Pending
      /\ IsHaystack(haystack) /\ haystack.len \in Nat
      /\ start = 0 /\ offset \in Nat
      /\ Unscanned \in Nat /\ offset + Unscanned = haystack.len
      /\ Clear(0, offset)
  BY RunningFacts
<1>2. /\ offset' = o
      /\ UNCHANGED <<haystack, zero, op, native_width, start, match_base, scan_offset, result, total>>
  BY DEF Continue, MoveTo, inputs, batch
<1>3. o \in Nat /\ o <= haystack.len
  BY <1>1
<1>4. Clear(offset, o)
  BY <1>1, LanesFacts
<1> HIDE DEF o
<1>5. Clear(0, o)
  BY <1>1, <1>3, <1>4, ClearJoin
<1>6. CallTypeOK'
  BY <1>2, <1>3 DEF ScanInv, CallTypeOK
<1>7. PassedIsClear'
  BY <1>1, <1>2, <1>3, <1>5 DEF PassedIsClear, Clear
<1>8. MeetsContract'
  BY <1>1, <1>2 DEF MeetsContract, Pending
<1> QED BY <1>6, <1>7, <1>8 DEF ScanInv

\* Likewise last_match, from the end of the haystack.
LEMMA LastContinues ==
    ASSUME ScanInv, Running("last_match"), NEW end \in Nat, NEW width \in Nat,
           end + width = offset, Lanes(end, width) = {}, Continue(end)
    PROVE  ScanInv'
<1>1. /\ op = "last_match" /\ result = Pending
      /\ IsHaystack(haystack) /\ haystack.len \in Nat
      /\ offset \in Nat /\ offset <= haystack.len
      /\ Clear(offset, haystack.len)
  BY RunningFacts
<1>2. /\ offset' = end
      /\ UNCHANGED <<haystack, zero, op, native_width, start, match_base, scan_offset, result, total>>
  BY DEF Continue, MoveTo, inputs, batch
<1>3. end <= haystack.len
  BY <1>1
<1>4. Clear(end, offset)
  BY <1>1, LanesFacts
<1>5. Clear(end, haystack.len)
  BY <1>1, <1>4, ClearJoin
<1>6. CallTypeOK'
  BY <1>2 DEF ScanInv, CallTypeOK
<1>7. PassedIsClear'
  BY <1>1, <1>2, <1>3, <1>5 DEF PassedIsClear, Clear
<1>8. MeetsContract'
  BY <1>1, <1>2 DEF MeetsContract, Pending
<1> QED BY <1>6, <1>7, <1>8 DEF ScanInv

\* Likewise count_all, that has added the matches of the unit to its total.
LEMMA CountContinues ==
    ASSUME ScanInv, Running("count_all"), NEW width \in Nat, width <= Unscanned,
           total' = total + Cardinality(Lanes(offset, width)), MoveTo(offset + width)
    PROVE  ScanInv'
<1> DEFINE o == offset + width
<1>1. /\ op = "count_all" /\ result = Pending
      /\ IsHaystack(haystack) /\ haystack.len \in Nat
      /\ offset \in Nat
      /\ Unscanned \in Nat /\ offset + Unscanned = haystack.len
      /\ total = Cardinality(MatchesIn(haystack, 0, offset))
  BY RunningFacts
<1>2. /\ offset' = o
      /\ UNCHANGED <<haystack, zero, op, native_width, start, match_base, scan_offset, result>>
  BY DEF MoveTo, inputs, batch
<1>3. o \in Nat /\ o <= haystack.len
  BY <1>1
<1>4. /\ Cardinality(MatchesIn(haystack, 0, offset)) \in Nat
      /\ Cardinality(Lanes(offset, width)) \in Nat
      /\ Cardinality(MatchesIn(haystack, 0, o))
           = Cardinality(MatchesIn(haystack, 0, offset)) + Cardinality(Lanes(offset, width))
  BY <1>1, <1>3, CountedFacts
<1> HIDE DEF o
<1>5. total' \in Nat /\ total' = Cardinality(MatchesIn(haystack, 0, o))
  BY <1>1, <1>4
<1>6. CallTypeOK'
  BY <1>2, <1>3, <1>5 DEF ScanInv, CallTypeOK
<1>7. PassedIsClear'
  BY <1>1, <1>2, <1>3, <1>5 DEF PassedIsClear
<1>8. MeetsContract'
  BY <1>1, <1>2 DEF MeetsContract, Pending
<1> QED BY <1>6, <1>7, <1>8 DEF ScanInv

(***************************************************************************)
(* A routine that returns has met its contract if what it returns does.    *)
(***************************************************************************)
LEMMA ReturnKeeps ==
    ASSUME CallTypeOK, NEW r, Return(r), r.done, MeetsContract'
    PROVE  ScanInv'
<1>1. /\ result' = r
      /\ UNCHANGED <<haystack, zero, op, native_width, start, offset, total>>
  BY DEF Return, inputs
<1>2. CallTypeOK'
  BY <1>1 DEF CallTypeOK
<1>3. PassedIsClear'
  BY <1>1 DEF PassedIsClear, Pending
<1> QED BY <1>2, <1>3 DEF ScanInv

\* first_match and last_match return an index of their contract.
LEMMA IndexReturned ==
    ASSUME ScanInv, NEW i, ReturnIndex(i),
           \/ Running("first_match") /\ FirstContract(haystack, i)
           \/ Running("last_match") /\ LastContract(haystack, i)
    PROVE  ScanInv'
<1> DEFINE r == [done |-> TRUE, index |-> i]
<1>1. Return(r) /\ r.done /\ r.index = i /\ CallTypeOK
  BY DEF ReturnIndex, ScanInv
<1> HIDE DEF r
<1>2. result' = r /\ UNCHANGED <<haystack, op>>
  BY <1>1 DEF Return, inputs
<1>3. MeetsContract'
  BY <1>1, <1>2 DEF MeetsContract, Running
<1> QED BY <1>1, <1>3, ReturnKeeps

\* count_all returns its total and the matches of the bytes left.
LEMMA TotalReturned ==
    ASSUME ScanInv, Running("count_all"),
           ReturnTotal(total + Cardinality(Lanes(offset, Unscanned)))
    PROVE  ScanInv'
<1> DEFINE t == total + Cardinality(Lanes(offset, Unscanned))
           r == [done |-> TRUE, total |-> t]
<1>1. Return(r) /\ r.done /\ r.total = t /\ CallTypeOK
  BY DEF ReturnTotal, ScanInv
<1>2. /\ op = "count_all" /\ IsHaystack(haystack) /\ haystack.len \in Nat
      /\ offset \in Nat /\ Unscanned \in Nat /\ offset + Unscanned = haystack.len
      /\ total = Cardinality(MatchesIn(haystack, 0, offset))
  BY RunningFacts
<1>3. t = Cardinality(MatchesIn(haystack, 0, haystack.len))
  <2>1. Cardinality(MatchesIn(haystack, 0, offset + Unscanned)) = t
    BY <1>2, CountedFacts
  <2> QED BY <1>2, <2>1
<1> HIDE DEF r, t
<1>4. result' = r /\ UNCHANGED <<haystack, op>>
  BY <1>1 DEF Return, inputs
<1>5. MeetsContract'
  BY <1>1, <1>2, <1>3, <1>4 DEF MeetsContract, CountContract
<1> QED BY <1>1, <1>5, ReturnKeeps

\* next_match_batch returns the bits of the first unit with a match.
LEMMA BatchReturned ==
    ASSUME ScanInv, Running("next_match_batch"), NEW width \in Nat,
           width <= Unscanned, width <= Bits, Lanes(offset, width) # {},
           ReturnBatch(width, Lanes(offset, width))
    PROVE  ScanInv'
<1> DEFINE bits == Lanes(offset, width)
           r == [done |-> TRUE, bits |-> bits]
<1>1. /\ Return(r) /\ r.done /\ r.bits = bits /\ CallTypeOK
      /\ match_base' = offset /\ scan_offset' = offset + width
  BY DEF ReturnBatch, ReturnBits, ScanInv
<1>2. /\ op = "next_match_batch" /\ IsHaystack(haystack) /\ haystack.len \in Nat
      /\ start \in Nat /\ offset \in Nat /\ start <= offset /\ Clear(start, offset)
      /\ Unscanned \in Nat /\ offset + Unscanned = haystack.len
  BY RunningFacts
<1>3. BatchContract(haystack, start, offset, offset + width, bits)
  BY <1>2, UnitBatch
<1> HIDE DEF r, bits
<1>4. result' = r /\ UNCHANGED <<haystack, op, start>>
  BY <1>1 DEF Return, inputs
<1>5. MeetsContract'
  BY <1>1, <1>2, <1>3, <1>4 DEF MeetsContract
<1> QED BY <1>1, <1>5, ReturnKeeps

\* next_match_batch returns the bits of the bytes left, a match among them or not.
LEMMA TailReturned ==
    ASSUME ScanInv, Running("next_match_batch"), NEW width \in 1 .. 16, width <= Bits,
           Unscanned < width, ReturnTail(UnscannedBits(width))
    PROVE  ScanInv'
<1> DEFINE bits == Lanes(offset, Unscanned)
           r == [done |-> TRUE, bits |-> bits]
<1>1. /\ op = "next_match_batch" /\ IsHaystack(haystack) /\ haystack.len \in Nat
      /\ start \in Nat /\ offset \in Nat /\ offset <= haystack.len
      /\ start <= offset /\ Clear(start, offset)
  BY RunningFacts
<1>2. /\ Unscanned \in Nat
      /\ offset + Unscanned = haystack.len
      /\ haystack.len - Unscanned = offset
      /\ UnscannedBits(width) = bits
  BY <1>1, UnscannedBitsExact
<1>3. /\ Return(r) /\ r.done /\ r.bits = bits /\ CallTypeOK
      /\ match_base' = offset /\ scan_offset' = haystack.len
  BY <1>2 DEF ReturnTail, ReturnBits, ScanInv
<1>4. Unscanned <= Bits
  BY <1>2, BitsAssumption
<1>5. BatchContract(haystack, start, offset, haystack.len, bits)
  <2>1. BatchContract(haystack, start, offset, offset + Unscanned, bits)
    BY <1>1, <1>2, <1>4, UnitBatch
  <2> QED BY <1>2, <2>1
<1> HIDE DEF r, bits
<1>6. result' = r /\ UNCHANGED <<haystack, op, start>>
  BY <1>3 DEF Return, inputs
<1>7. MeetsContract'
  BY <1>1, <1>3, <1>5, <1>6 DEF MeetsContract
<1> QED BY <1>3, <1>7, ReturnKeeps

\* Nothing happens once a routine has returned.
LEMMA ReturnedScanInv == ScanInv /\ (Returned \/ UNCHANGED vars) => ScanInv'
<1> SUFFICES ASSUME ScanInv, UNCHANGED vars PROVE ScanInv'
  BY DEF Returned
<1> QED BY DEF vars, inputs, batch, ScanInv, CallTypeOK, PassedIsClear, MeetsContract
-----------------------------------------------------------------------------
(***************************************************************************)
(* No loop goes round in place.                                            *)
(***************************************************************************)

\* How many bytes the loop has before it.
Untested == IF op = "last_match" THEN offset ELSE Unscanned

\* A step of a routine that has not returned: it returns, or leaves fewer bytes to test.
Advances ==
    /\ result = Pending
    /\ \/ result'.done
       \/ result' = Pending /\ Untested' \in Nat /\ Untested' < Untested

\* A routine that has not returned has a number of bytes before it.
LEMMA UntestedFacts ==
    ASSUME ScanInv, NEW f, Running(f) PROVE result = Pending /\ Untested \in Nat
BY RunningFacts DEF Untested

\* A loop that goes on has passed a unit.
LEMMA UnitAdvances ==
    ASSUME ScanInv, NEW f, Running(f), NEW width \in Nat, 0 < width,
           \/ f # "last_match" /\ width <= Unscanned /\ MoveTo(offset + width)
           \/ f = "last_match" /\ width <= offset /\ MoveTo(offset - width)
    PROVE  Advances
<1>1. /\ op = f /\ result = Pending /\ haystack.len \in Nat
      /\ offset \in Nat /\ Unscanned \in Nat /\ Unscanned = haystack.len - offset
  BY RunningFacts DEF Unscanned
<1>2. UNCHANGED <<haystack, op, result>>
  BY DEF MoveTo, inputs
<1>3. CASE f # "last_match" /\ width <= Unscanned /\ MoveTo(offset + width)
  <2>1. offset' = offset + width /\ Unscanned' = haystack.len - (offset + width)
    BY <1>2, <1>3 DEF MoveTo, Unscanned
  <2>2. Unscanned' \in Nat /\ Unscanned' < Unscanned
    BY <1>1, <1>3, <2>1
  <2> QED BY <1>1, <1>2, <1>3, <2>2 DEF Advances, Untested
<1>4. CASE f = "last_match" /\ width <= offset /\ MoveTo(offset - width)
  <2>1. offset' \in Nat /\ offset' < offset
    BY <1>1, <1>4 DEF MoveTo
  <2> QED BY <1>1, <1>2, <1>4, <2>1 DEF Advances, Untested
<1> QED BY <1>3, <1>4
=============================================================================
