----------------------------- MODULE IterProofs -----------------------------
(***************************************************************************)
(* Proofs about module Iter: its invariants hold for every haystack, every *)
(* batch width, all arguments and every scan routine within the contract;  *)
(* it implements MatchCursor, and advance_to never rewinds it.             *)
(***************************************************************************)
EXTENDS Iter, BitSetLemmas

(***************************************************************************)
(* The inductive invariant.  The parts need each other: that a held bit is *)
(* in bounds follows from HeldBatch, which advance_to's mask keeps only in *)
(* a window no wider than a bitset, and the offset take_lowest returns     *)
(* raises `last` only because BeyondLast puts every held bit above it.     *)
(***************************************************************************)
IInv == TypeOK /\ WindowInBounds /\ HeldBatch /\ BeyondLast /\ NthAccounting
-----------------------------------------------------------------------------
(***************************************************************************)
(* What is known of a haystack, in the form the other proofs use it.       *)
(***************************************************************************)
LEMMA HaystackFacts ==
    ASSUME NEW h, IsHaystack(h)
    PROVE  /\ h.len \in Nat
           /\ h.matches \in SUBSET Nat
           /\ \A m \in h.matches : m < h.len
<1>1. h.len \in Nat /\ h.matches \in SUBSET Nat
  BY DEF IsHaystack
<1>2. h.matches \in SUBSET (0 .. h.len - 1)
  BY DEF IsHaystack
<1>3. ASSUME NEW m \in h.matches PROVE m < h.len
  <2>1. m \in 0 .. h.len - 1
    BY <1>2
  <2> QED BY <2>1, <1>1
<1> QED BY <1>1, <1>3

(***************************************************************************)
(* The matches of a window, as bits relative to its base: a window no      *)
(* wider than a bitset fits one, and shifting back gives the matches.      *)
(***************************************************************************)
LEMMA BatchBits ==
    ASSUME NEW h, IsHaystack(h), NEW lo \in Nat, NEW hi \in Nat
    PROVE  /\ BatchOf(h, lo, hi) \in SUBSET Nat
           /\ \A b \in BatchOf(h, lo, hi) : lo + b \in h.matches /\ lo + b < hi
           /\ hi - lo <= Bits => BatchOf(h, lo, hi) \in SUBSET (0 .. Bits - 1)
           /\ {lo + b : b \in BatchOf(h, lo, hi)} = MatchesIn(h, lo, hi)
<1>1. h.matches \in SUBSET Nat
  BY HaystackFacts
<1>2. ASSUME NEW b \in BatchOf(h, lo, hi)
      PROVE  b \in Nat /\ lo + b \in h.matches /\ lo + b < hi /\ lo + b \in MatchesIn(h, lo, hi)
  <2>1. PICK m \in MatchesIn(h, lo, hi) : b = m - lo
    BY DEF BatchOf
  <2>2. m \in h.matches /\ lo <= m /\ m < hi
    BY DEF MatchesIn
  <2>3. m \in Nat /\ lo + b = m
    BY <1>1, <2>1, <2>2
  <2> QED BY <2>1, <2>2, <2>3
<1>3. ASSUME NEW m \in MatchesIn(h, lo, hi)
      PROVE  m - lo \in BatchOf(h, lo, hi) /\ m = lo + (m - lo)
  <2>1. m \in Nat
    BY <1>1 DEF MatchesIn
  <2>2. m - lo \in BatchOf(h, lo, hi)
    BY DEF BatchOf
  <2> QED BY <2>1, <2>2
<1>4. hi - lo <= Bits => BatchOf(h, lo, hi) \in SUBSET (0 .. Bits - 1)
  <2> SUFFICES ASSUME hi - lo <= Bits, NEW b \in BatchOf(h, lo, hi)
               PROVE  b \in 0 .. Bits - 1
    OBVIOUS
  <2>1. b \in Nat /\ lo + b < hi
    BY <1>2
  <2> QED BY <2>1, BitsAssumption
<1>5. {lo + b : b \in BatchOf(h, lo, hi)} = MatchesIn(h, lo, hi)
  <2>1. \A m \in MatchesIn(h, lo, hi) : m \in {lo + b : b \in BatchOf(h, lo, hi)}
    BY <1>3
  <2>2. \A m \in {lo + b : b \in BatchOf(h, lo, hi)} : m \in MatchesIn(h, lo, hi)
    BY <1>2
  <2> QED BY <2>1, <2>2
<1> QED BY <1>2, <1>4, <1>5

(***************************************************************************)
(* A batch within the contract: the matches from the old scan offset on    *)
(* are those of the batch and those from the new one on.                   *)
(***************************************************************************)
LEMMA BatchSplits ==
    ASSUME NEW h, IsHaystack(h), NEW old \in Nat, NEW base \in Nat, NEW scan \in Nat,
           BatchContract(h, old, base, scan, BatchOf(h, base, scan))
    PROVE  MatchesIn(h, old, h.len)
               = {base + b : b \in BatchOf(h, base, scan)} \cup MatchesIn(h, scan, h.len)
<1>1. h.len \in Nat /\ h.matches \in SUBSET Nat
  BY HaystackFacts
<1>2. /\ old <= base /\ base <= scan /\ scan <= h.len
      /\ MatchesIn(h, old, base) = {}
  BY DEF BatchContract
<1>3. ASSUME NEW m \in h.matches
      PROVE  m \in MatchesIn(h, old, h.len)
                <=> m \in MatchesIn(h, base, scan) \/ m \in MatchesIn(h, scan, h.len)
  <2>1. ~ (old <= m /\ m < base)
    BY <1>2 DEF MatchesIn
  <2>2. m \in Nat
    BY <1>1
  <2> QED BY <1>1, <1>2, <2>1, <2>2 DEF MatchesIn
<1>4. MatchesIn(h, old, h.len) = MatchesIn(h, base, scan) \cup MatchesIn(h, scan, h.len)
  BY <1>3 DEF MatchesIn
<1> QED BY <1>4, BatchBits
-----------------------------------------------------------------------------
(***************************************************************************)
(* What the invariant says of a state, in the form the steps use it.       *)
(***************************************************************************)
LEMMA StateFacts ==
    ASSUME IInv
    PROVE  /\ IsHaystack(haystack)
           /\ haystack.len \in Nat
           /\ haystack.matches \in SUBSET Nat
           /\ \A m \in haystack.matches : m < haystack.len
           /\ BatchOf(haystack, match_base, scan_offset) \in SUBSET (0 .. Bits - 1)
           /\ match_bits \in SUBSET (0 .. Bits - 1)
           /\ match_bits \in SUBSET Nat
           /\ IsFiniteSet(match_bits)
           /\ Cardinality(match_bits) \in Nat
           /\ \A b \in match_bits : /\ match_base + b \in haystack.matches
                                   /\ match_base + b < scan_offset
           /\ Ahead \in SUBSET haystack.matches
<1>1. haystack \in Haystacks /\ scan_offset \in Nat /\ match_base \in Nat
  BY DEF IInv, TypeOK
<1>2. IsHaystack(haystack)
  BY <1>1, HaystacksAssumption
<1>3. haystack.len \in Nat /\ haystack.matches \in SUBSET Nat
        /\ \A m \in haystack.matches : m < haystack.len
  BY <1>2, HaystackFacts
<1>4. scan_offset - match_base <= Bits
  BY DEF IInv, WindowInBounds
<1> DEFINE batch == BatchOf(haystack, match_base, scan_offset)
<1>5. /\ batch \in SUBSET (0 .. Bits - 1)
      /\ \A b \in batch : match_base + b \in haystack.matches /\ match_base + b < scan_offset
  BY <1>1, <1>2, <1>4, BatchBits
<1>6. match_bits \subseteq batch
  BY DEF IInv, HeldBatch, UpperPart
<1> HIDE DEF batch
<1>7. match_bits \in SUBSET (0 .. Bits - 1)
  BY <1>5, <1>6
<1>8. match_bits \in SUBSET Nat
  BY <1>7
<1>9. IsFiniteSet(match_bits) /\ Cardinality(match_bits) \in Nat
  <2>1. Bits - 1 \in Nat
    BY BitsAssumption
  <2> QED BY <2>1, <1>7, BitsFinite
<1>10. \A b \in match_bits : match_base + b \in haystack.matches /\ match_base + b < scan_offset
  BY <1>5, <1>6
<1>11. Ahead \in SUBSET haystack.matches
  BY <1>10 DEF Ahead, MatchesIn
<1> QED BY <1>2, <1>3, <1>5, <1>7, <1>8, <1>9, <1>10, <1>11 DEF batch

(***************************************************************************)
(* What take_lowest does, given bits that are the end of a batch all of    *)
(* which lies beyond `last`: the offset it returns is a match in bounds    *)
(* and above `last`, and what it leaves is beyond that offset.             *)
(***************************************************************************)
LEMMA TakeLowest ==
    ASSUME NEW h, IsHaystack(h), NEW base \in Nat, NEW scan \in Nat,
           NEW bits, bits # {}, UpperPart(bits, BatchOf(h, base, scan))
    PROVE  /\ Lowest(base, bits) \in h.matches
           /\ Lowest(base, bits) \in Nat
           /\ Lowest(base, bits) < scan
           /\ Min(bits) \in bits
           /\ \A b \in Rest(bits) : Lowest(base, bits) < base + b
           /\ UpperPart(Rest(bits), BatchOf(h, base, scan))
           /\ Rest(bits) \subseteq bits
<1> DEFINE batch == BatchOf(h, base, scan)
<1>1. /\ batch \in SUBSET Nat
      /\ \A b \in batch : base + b \in h.matches /\ base + b < scan
  BY BatchBits
<1> HIDE DEF batch
<1>2. UpperPart(bits, batch)
  BY DEF batch
<1>3. /\ Min(bits) \in bits
      /\ \A b \in Rest(bits) : Min(bits) < b
      /\ UpperPart(Rest(bits), batch)
  BY <1>1, <1>2, UpperPartRest DEF Rest
<1>4. bits \in SUBSET batch /\ bits \in SUBSET Nat
  BY <1>1, <1>2 DEF UpperPart
<1>5. base + Min(bits) \in h.matches /\ base + Min(bits) < scan
  BY <1>1, <1>3, <1>4
<1>6. Min(bits) \in Nat
  BY <1>3, <1>4
<1>7. Rest(bits) \in SUBSET bits
  BY DEF Rest
<1>8. ASSUME NEW b \in Rest(bits) PROVE base + Min(bits) < base + b
  <2>1. b \in Nat /\ Min(bits) < b
    BY <1>3, <1>4, <1>7
  <2> QED BY <2>1, <1>6
<1> QED BY <1>3, <1>5, <1>6, <1>7, <1>8 DEF batch, Lowest

(***************************************************************************)
(* Init => IInv.                                                           *)
(***************************************************************************)
LEMMA InitIInv == Init => IInv
<1> SUFFICES ASSUME Init PROVE IInv
  OBVIOUS
<1>1. haystack \in Haystacks /\ haystack.len \in Nat
  BY HaystacksAssumption, HaystackFacts DEF Init
<1>2. TypeOK
  BY <1>1 DEF Init, TypeOK
<1>3. WindowInBounds
  BY <1>1, BitsAssumption DEF Init, WindowInBounds
<1>4. HeldBatch
  BY DEF Init, HeldBatch, UpperPart
<1>5. BeyondLast
  BY DEF Init, BeyondLast
<1>6. NthAccounting
  BY DEF Init, NthAccounting
<1> QED BY <1>2, <1>3, <1>4, <1>5, <1>6 DEF IInv

(***************************************************************************)
(* What refill leaves behind when it scans.                                *)
(***************************************************************************)
LEMMA RefillFacts ==
    ASSUME IInv,
           NEW base \in scan_offset .. haystack.len, NEW scan \in scan_offset .. haystack.len,
           Refill(base, scan, BatchOf(haystack, base, scan))
    PROVE  /\ base \in Nat /\ scan \in Nat
           /\ scan_offset' = scan /\ match_base' = base
           /\ scan_offset <= base /\ base <= scan /\ scan <= haystack.len
           /\ scan_offset < scan
           /\ scan - base <= Bits
           /\ BatchOf(haystack, base, scan) \in SUBSET (0 .. Bits - 1)
           /\ BatchOf(haystack, base, scan) \in SUBSET Nat
           /\ UpperPart(BatchOf(haystack, base, scan), BatchOf(haystack, base, scan))
           /\ MatchesIn(haystack, scan_offset, haystack.len)
                 = {base + b : b \in BatchOf(haystack, base, scan)}
                     \cup MatchesIn(haystack, scan, haystack.len)
<1>1. IsHaystack(haystack) /\ haystack.len \in Nat /\ scan_offset \in Nat
  BY StateFacts DEF IInv, TypeOK
<1>2. base \in Nat /\ scan \in Nat
  BY <1>1
<1>3. BatchContract(haystack, scan_offset, base, scan, BatchOf(haystack, base, scan))
  BY DEF Refill
<1>4. scan_offset # haystack.len /\ scan_offset' = scan /\ match_base' = base
  BY DEF Refill, Exhausted
<1>5. scan_offset <= haystack.len
  BY DEF IInv, WindowInBounds
<1>6. /\ scan_offset <= base /\ base <= scan /\ scan <= haystack.len
      /\ scan_offset < haystack.len => scan_offset < scan
      /\ scan - base <= Bits
  BY <1>3 DEF BatchContract
<1>7. scan_offset < scan
  BY <1>1, <1>4, <1>5, <1>6
<1>8. /\ BatchOf(haystack, base, scan) \in SUBSET (0 .. Bits - 1)
      /\ BatchOf(haystack, base, scan) \in SUBSET Nat
  BY <1>1, <1>2, <1>6, BatchBits
<1>9. UpperPart(BatchOf(haystack, base, scan), BatchOf(haystack, base, scan))
  BY DEF UpperPart
<1>10. MatchesIn(haystack, scan_offset, haystack.len)
         = {base + b : b \in BatchOf(haystack, base, scan)}
             \cup MatchesIn(haystack, scan, haystack.len)
  BY <1>1, <1>2, <1>3, BatchSplits
<1> QED BY <1>2, <1>4, <1>6, <1>7, <1>8, <1>9, <1>10

(***************************************************************************)
(* next preserves the invariant.                                           *)
(***************************************************************************)
LEMMA NextHeldIInv == IInv /\ NextHeld => IInv'
<1> SUFFICES ASSUME IInv, NextHeld PROVE IInv'
  OBVIOUS
<1>1. /\ pc = "idle" /\ match_bits # {}
      /\ match_bits' = Rest(match_bits)
      /\ last' = IF Lowest(match_base, match_bits) > last
                 THEN Lowest(match_base, match_bits) ELSE last
      /\ UNCHANGED <<haystack, scan_offset, match_base, pc, n, remaining, entry>>
  BY DEF NextHeld, Yield, nthVars
<1>2. TypeOK /\ WindowInBounds /\ HeldBatch /\ BeyondLast
  BY DEF IInv
<1>3. /\ Lowest(match_base, match_bits) \in Nat
      /\ Lowest(match_base, match_bits) < scan_offset
      /\ Min(match_bits) \in match_bits
      /\ \A b \in Rest(match_bits) : Lowest(match_base, match_bits) < match_base + b
      /\ UpperPart(Rest(match_bits), BatchOf(haystack, match_base, scan_offset))
      /\ Rest(match_bits) \subseteq match_bits
  BY <1>1, <1>2, StateFacts, TakeLowest DEF TypeOK, HeldBatch
<1>4. last' = Lowest(match_base, match_bits)
  <2>1. last < match_base + Min(match_bits)
    BY <1>2, <1>3 DEF BeyondLast
  <2>2. last \in Int /\ last < Lowest(match_base, match_bits)
    BY <1>2, <2>1 DEF TypeOK, Lowest
  <2> QED BY <1>1, <1>3, <2>2
<1>5. TypeOK'
  <2>1. match_bits' \subseteq 0 .. Bits - 1
    <3>1. match_bits \in SUBSET (0 .. Bits - 1)
      BY <1>2 DEF TypeOK
    <3> QED BY <1>1, <1>3, <3>1
  <2> QED BY <1>1, <1>2, <1>3, <1>4, <2>1 DEF TypeOK
<1>6. WindowInBounds'
  BY <1>1, <1>2 DEF WindowInBounds
<1>7. HeldBatch'
  BY <1>1, <1>3 DEF HeldBatch
<1>8. BeyondLast'
  BY <1>1, <1>3, <1>4 DEF BeyondLast
<1>9. NthAccounting'
  BY <1>1 DEF NthAccounting
<1> QED BY <1>5, <1>6, <1>7, <1>8, <1>9 DEF IInv

\* next with nothing held: refill and, when the new batch has a match, its lowest.
LEMMA NextRefillIInv == IInv /\ NextRefill => IInv'
<1> SUFFICES ASSUME IInv, NextRefill PROVE IInv'
  OBVIOUS
<1>1. PICK base \in scan_offset .. haystack.len, scan \in scan_offset .. haystack.len :
        /\ Refill(base, scan, BatchOf(haystack, base, scan))
        /\ \/ /\ BatchOf(haystack, base, scan) = {}
              /\ match_bits' = {}
              /\ last' = last
           \/ /\ BatchOf(haystack, base, scan) # {}
              /\ match_bits' = Rest(BatchOf(haystack, base, scan))
              /\ Yield(Lowest(base, BatchOf(haystack, base, scan)))
  BY DEF NextRefill
<1> DEFINE bits == BatchOf(haystack, base, scan)
<1>2. /\ base \in Nat /\ scan \in Nat
      /\ scan_offset' = scan /\ match_base' = base
      /\ scan_offset <= base /\ base <= scan /\ scan <= haystack.len
      /\ scan_offset < scan
      /\ scan - base <= Bits
      /\ bits \in SUBSET (0 .. Bits - 1)
      /\ bits \in SUBSET Nat
      /\ UpperPart(bits, bits)
  BY <1>1, RefillFacts
<1>3. pc = "idle" /\ UNCHANGED <<haystack, pc, n, remaining, entry>>
  BY DEF NextRefill, nthVars
<1>4. TypeOK /\ BeyondLast
  BY DEF IInv
<1>5. last < scan_offset /\ last \in Int /\ scan_offset \in Nat
  BY <1>4 DEF BeyondLast, TypeOK
<1>6. WindowInBounds'
  BY <1>2, <1>3 DEF WindowInBounds
<1>7. NthAccounting'
  BY <1>3 DEF NthAccounting
<1>8. CASE bits = {}
  <2>1. match_bits' = {} /\ last' = last
    BY <1>1, <1>8
  <2>2. TypeOK'
    BY <1>2, <1>3, <1>4, <2>1 DEF TypeOK
  <2>3. HeldBatch'
    BY <2>1 DEF HeldBatch, UpperPart
  <2>4. BeyondLast'
    BY <1>2, <1>5, <2>1 DEF BeyondLast
  <2> QED BY <1>6, <1>7, <2>2, <2>3, <2>4 DEF IInv
<1>9. CASE bits # {}
  <2>1. match_bits' = Rest(bits) /\ Yield(Lowest(base, bits))
    BY <1>1, <1>9
  <2>2. /\ Lowest(base, bits) \in Nat
        /\ Lowest(base, bits) < scan
        /\ Min(bits) \in bits
        /\ \A b \in Rest(bits) : Lowest(base, bits) < base + b
        /\ UpperPart(Rest(bits), bits)
        /\ Rest(bits) \subseteq bits
    BY <1>2, <1>9, StateFacts, TakeLowest
  <2> HIDE DEF bits
  <2>3. last < Lowest(base, bits)
    <3>1. base <= Lowest(base, bits)
      <4>1. Min(bits) \in Nat
        BY <1>2, <2>2
      <4> QED BY <1>2, <4>1 DEF Lowest
    <3> QED BY <1>2, <1>5, <2>2, <3>1
  <2>4. last' = Lowest(base, bits)
    BY <1>5, <2>1, <2>2, <2>3 DEF Yield
  <2>5. TypeOK'
    <3>1. match_bits' \subseteq 0 .. Bits - 1
      BY <1>2, <2>1, <2>2
    <3> QED BY <1>2, <1>3, <1>4, <2>2, <2>4, <3>1 DEF TypeOK
  <2>6. HeldBatch'
    BY <1>2, <1>3, <2>1, <2>2 DEF HeldBatch, bits
  <2>7. BeyondLast'
    BY <1>2, <2>1, <2>2, <2>4 DEF BeyondLast
  <2> QED BY <1>6, <1>7, <2>5, <2>6, <2>7 DEF IInv
<1> QED BY <1>8, <1>9

(***************************************************************************)
(* nth is entered with every match ahead still to account for.             *)
(***************************************************************************)
LEMMA NthCallIInv ==
    ASSUME IInv, NEW k \in Steps, NthCall(k) PROVE IInv'
<1>1. k \in Nat
  BY ArgumentsAssumption
<1>2. /\ n' = k /\ remaining' = k /\ entry' = Ahead /\ pc' = "nth"
      /\ UNCHANGED <<haystack, scan_offset, match_base, match_bits, last>>
  BY DEF NthCall, window
<1>3. TypeOK /\ WindowInBounds /\ HeldBatch /\ BeyondLast
  BY DEF IInv
<1>4. Ahead \in SUBSET haystack.matches
  BY StateFacts
<1>5. Ahead' = Ahead
  BY <1>2 DEF Ahead
<1>6. TypeOK'
  BY <1>1, <1>2, <1>3, <1>4 DEF TypeOK
<1>7. WindowInBounds' /\ HeldBatch' /\ BeyondLast'
  BY <1>2, <1>3 DEF WindowInBounds, HeldBatch, BeyondLast
<1>8. NthAccounting'
  <2>1. UpperPart(Ahead, Ahead)
    BY DEF UpperPart
  <2>2. Cardinality(Ahead \ Ahead) = 0
    <3>1. Ahead \ Ahead = {}
      OBVIOUS
    <3> QED BY <3>1, FS_EmptySet
  <2> QED BY <1>1, <1>2, <1>5, <2>1, <2>2 DEF NthAccounting
<1> QED BY <1>6, <1>7, <1>8 DEF IInv

(***************************************************************************)
(* nth returns None with nothing left.                                     *)
(***************************************************************************)
LEMMA NthExhaustedIInv == IInv /\ NthExhausted => IInv'
<1> SUFFICES ASSUME IInv, NthExhausted PROVE IInv'
  OBVIOUS
<1>1. /\ match_bits' = {} /\ pc' = "idle" /\ n' = 0 /\ remaining' = 0 /\ entry' = {}
      /\ UNCHANGED <<haystack, scan_offset, match_base, last>>
  BY DEF NthExhausted, NthReturn
<1>2. TypeOK /\ WindowInBounds /\ BeyondLast
  BY DEF IInv
<1>3. TypeOK'
  BY <1>1, <1>2 DEF TypeOK
<1>4. WindowInBounds' /\ BeyondLast' /\ NthAccounting'
  BY <1>1, <1>2 DEF WindowInBounds, BeyondLast, NthAccounting
<1>5. HeldBatch'
  BY <1>1 DEF HeldBatch, UpperPart
<1> QED BY <1>3, <1>4, <1>5 DEF IInv

(***************************************************************************)
(* nth takes its match from the batch in hand.                             *)
(***************************************************************************)
LEMMA NthTakeIInv == IInv /\ NthTake => IInv'
<1> SUFFICES ASSUME IInv, NthTake PROVE IInv'
  OBVIOUS
<1> DEFINE bits == DropLowest(match_bits, remaining)
           batch == BatchOf(haystack, match_base, scan_offset)
<1>1. /\ match_bits' = Rest(bits)
      /\ Yield(Lowest(match_base, bits))
      /\ pc' = "idle" /\ n' = 0 /\ remaining' = 0 /\ entry' = {}
      /\ UNCHANGED <<haystack, scan_offset, match_base>>
      /\ ~ (Cardinality(match_bits) <= remaining)
  BY DEF NthTake, NthReturn, SkipsAll, held
<1>2. TypeOK /\ WindowInBounds /\ HeldBatch /\ BeyondLast
  BY DEF IInv
<1>3. /\ haystack \in Haystacks /\ scan_offset \in Nat /\ match_base \in Nat
      /\ remaining \in Nat /\ last \in Int /\ Bits - 1 \in Nat
  BY <1>2, BitsAssumption DEF TypeOK
<1>4. IsHaystack(haystack) /\ Cardinality(match_bits) \in Nat /\ batch \in SUBSET (0 .. Bits - 1)
  BY StateFacts
<1>5. bits # {} /\ UpperPart(bits, batch)
  <2>1. Cardinality(match_bits) > remaining
    BY <1>1, <1>3, <1>4
  <2>2. UpperPart(match_bits, batch)
    BY <1>2 DEF HeldBatch
  <2> HIDE DEF batch
  <2> QED BY <1>3, <1>4, <2>1, <2>2, UpperPartDrop
<1>6. bits \in SUBSET match_bits
  BY DEF DropLowest
<1> HIDE DEF bits
<1>7. /\ Lowest(match_base, bits) \in Nat
      /\ Lowest(match_base, bits) < scan_offset
      /\ Min(bits) \in bits
      /\ \A b \in Rest(bits) : Lowest(match_base, bits) < match_base + b
      /\ UpperPart(Rest(bits), batch)
      /\ Rest(bits) \subseteq bits
  BY <1>3, <1>4, <1>5, TakeLowest
<1>8. last < Lowest(match_base, bits)
  BY <1>2, <1>6, <1>7 DEF BeyondLast, Lowest
<1>9. last' = Lowest(match_base, bits)
  BY <1>1, <1>3, <1>7, <1>8 DEF Yield
<1>10. TypeOK'
  <2>1. match_bits' \subseteq 0 .. Bits - 1
    <3>1. match_bits \in SUBSET (0 .. Bits - 1)
      BY <1>2 DEF TypeOK
    <3> QED BY <1>1, <1>6, <1>7, <3>1
  <2> QED BY <1>1, <1>2, <1>7, <1>9, <2>1 DEF TypeOK
<1>11. WindowInBounds' /\ NthAccounting'
  BY <1>1, <1>2 DEF WindowInBounds, NthAccounting
<1>12. HeldBatch'
  BY <1>1, <1>7 DEF HeldBatch
<1>13. BeyondLast'
  BY <1>1, <1>7, <1>9 DEF BeyondLast
<1> QED BY <1>10, <1>11, <1>12, <1>13 DEF IInv

(***************************************************************************)
(* nth skips the batch in hand: exactly its matches leave Ahead, and the   *)
(* counter falls by as many.                                               *)
(***************************************************************************)
LEMMA NthSkipIInv == IInv /\ NthSkip => IInv'
<1> SUFFICES ASSUME IInv, NthSkip PROVE IInv'
  OBVIOUS
<1>1. PICK base \in scan_offset .. haystack.len, scan \in scan_offset .. haystack.len :
        /\ Refill(base, scan, BatchOf(haystack, base, scan))
        /\ match_bits' = BatchOf(haystack, base, scan)
        /\ \/ BatchOf(haystack, base, scan) = {} /\ NthReturn(None)
           \/ /\ remaining' = StillToSkip
              /\ UNCHANGED <<pc, n, entry>>
  BY DEF NthSkip
<1> DEFINE bits == BatchOf(haystack, base, scan)
           tail == MatchesIn(haystack, scan_offset, haystack.len)
<1>2. /\ base \in Nat /\ scan \in Nat
      /\ scan_offset' = scan /\ match_base' = base
      /\ scan_offset <= base /\ base <= scan /\ scan <= haystack.len
      /\ scan_offset < scan
      /\ scan - base <= Bits
      /\ bits \in SUBSET (0 .. Bits - 1)
      /\ bits \in SUBSET Nat
      /\ UpperPart(bits, bits)
      /\ tail = {base + b : b \in bits} \cup MatchesIn(haystack, scan, haystack.len)
  BY <1>1, RefillFacts
<1>3. /\ pc = "nth" /\ Cardinality(match_bits) <= remaining
      /\ UNCHANGED <<haystack, last>>
  BY DEF NthSkip, SkipsAll, held
<1>4. TypeOK /\ BeyondLast /\ NthAccounting
  BY DEF IInv
<1>5. last < scan_offset /\ last \in Int /\ scan_offset \in Nat
  BY <1>4 DEF BeyondLast, TypeOK
<1>6. WindowInBounds'
  BY <1>2, <1>3 DEF WindowInBounds
<1>7. HeldBatch'
  BY <1>1, <1>2, <1>3 DEF HeldBatch
<1>8. BeyondLast'
  <2> HIDE DEF bits
  <2>1. ASSUME NEW b \in bits PROVE last < base + b
    <3>1. b \in Nat
      BY <1>2
    <3> QED BY <1>2, <1>5, <3>1
  <2> QED BY <1>1, <1>2, <1>3, <1>5, <2>1 DEF BeyondLast, bits
<1>9. CASE bits = {} /\ NthReturn(None)
  <2>1. pc' = "idle" /\ n' = 0 /\ remaining' = 0 /\ entry' = {} /\ match_bits' = {}
    BY <1>1, <1>9 DEF NthReturn
  <2>2. TypeOK'
    BY <1>2, <1>3, <1>4, <2>1 DEF TypeOK
  <2>3. NthAccounting'
    BY <2>1 DEF NthAccounting
  <2> QED BY <1>6, <1>7, <1>8, <2>2, <2>3 DEF IInv
<1>10. CASE remaining' = StillToSkip /\ UNCHANGED <<pc, n, entry>>
  <2>1. /\ Cardinality(match_bits) \in Nat /\ match_bits \in SUBSET Nat
        /\ IsFiniteSet(match_bits)
        /\ haystack.len \in Nat
        /\ haystack.matches \in SUBSET Nat /\ \A m \in haystack.matches : m < haystack.len
        /\ \A b \in match_bits : match_base + b \in haystack.matches /\ match_base + b < scan_offset
    BY StateFacts
  <2>2. remaining \in Nat /\ n \in Nat /\ match_base \in Nat /\ entry \in SUBSET haystack.matches
    BY <1>4 DEF TypeOK
  <2>3. remaining' = remaining - Cardinality(match_bits) /\ remaining' \in Nat
    BY <1>3, <1>10, <2>1, <2>2 DEF StillToSkip, held
  <2>4. TypeOK'
    BY <1>1, <1>2, <1>3, <1>4, <1>10, <2>3 DEF TypeOK
  <2> DEFINE heldSet == {match_base + b : b \in match_bits}
  <2>5. Ahead = heldSet \cup tail
    BY DEF Ahead
  <2>6. Ahead' = tail
    BY <1>1, <1>2, <1>3 DEF Ahead
  <2>7. IsFiniteSet(heldSet) /\ Cardinality(heldSet) = Cardinality(match_bits)
    BY <2>1, <2>2, ShiftCardinality
  <2>8. /\ heldSet \in SUBSET haystack.matches
        /\ \A m \in heldSet : m < scan_offset
    BY <2>1
  <2>9. /\ tail \in SUBSET haystack.matches
        /\ \A m \in haystack.matches : m \in tail <=> scan_offset <= m
    BY <2>1 DEF MatchesIn
  <2>10. /\ UpperPart(heldSet \cup tail, entry)
         /\ Cardinality(entry \ (heldSet \cup tail)) + remaining = n
    BY <1>3, <1>4, <2>5 DEF NthAccounting
  <2> HIDE DEF heldSet, tail
  <2>11. UpperPart(tail, entry)
    <3>1. tail \subseteq entry
      BY <2>10 DEF UpperPart
    <3>2. ASSUME NEW b \in tail, NEW c \in entry, b <= c PROVE c \in tail
      <4>1. b \in Nat /\ c \in Nat /\ scan_offset <= b /\ c \in haystack.matches
        BY <2>1, <2>2, <2>9
      <4>2. scan_offset <= c
        BY <1>5, <3>2, <4>1
      <4> QED BY <2>9, <4>1, <4>2
    <3> QED BY <3>1, <3>2 DEF UpperPart
  <2> DEFINE gone == entry \ (heldSet \cup tail)
  <2>12. entry \ tail = gone \cup heldSet
    <3>1. heldSet \subseteq entry
      BY <2>10 DEF UpperPart
    <3>2. \A m \in heldSet : m \notin tail
      <4> TAKE m \in heldSet
      <4>1. m \in Nat /\ m \in haystack.matches /\ m < scan_offset
        BY <2>1, <2>8
      <4> QED BY <1>5, <2>9, <4>1
    <3> QED BY <3>1, <3>2
  <2>13. gone \cap heldSet = {}
    OBVIOUS
  <2>14. IsFiniteSet(gone)
    <3>1. \A m \in gone : m <= haystack.len
      BY <2>1, <2>2
    <3>2. gone \in SUBSET Nat
      BY <2>1, <2>2
    <3> QED BY <2>1, <3>1, <3>2, FS_BoundedSetOfNaturals
  <2> HIDE DEF gone
  <2>15. Cardinality(gone \cup heldSet) = Cardinality(gone) + Cardinality(heldSet)
    <3>1. Cardinality(gone \cap heldSet) = 0
      BY <2>13, FS_EmptySet
    <3>2. Cardinality(gone) \in Nat /\ Cardinality(heldSet) \in Nat
      BY <2>7, <2>14, FS_CardinalityType
    <3>3. Cardinality(gone \cup heldSet)
            = Cardinality(gone) + Cardinality(heldSet) - Cardinality(gone \cap heldSet)
      BY <2>7, <2>14, FS_Union
    <3> QED BY <3>1, <3>2, <3>3
  <2>16. Cardinality(gone) \in Nat
    BY <2>14, FS_CardinalityType
  <2>17. Cardinality(entry \ tail) + remaining' = n
    <3>1. Cardinality(gone) + remaining = n
      BY <2>10 DEF gone
    <3>2. Cardinality(entry \ tail) = Cardinality(gone) + Cardinality(match_bits)
      BY <2>7, <2>12, <2>15
    <3> QED BY <2>1, <2>2, <2>3, <2>16, <3>1, <3>2
  <2>18. NthAccounting'
    BY <1>10, <2>6, <2>11, <2>17 DEF NthAccounting
  <2> QED BY <1>6, <1>7, <1>8, <2>4, <2>18 DEF IInv
<1> QED BY <1>1, <1>9, <1>10

(***************************************************************************)
(* advance_to preserves the invariant: the index is clamped, and its mask  *)
(* keeps the batch's matches from the index on.                            *)
(***************************************************************************)
LEMMA AdvanceToIInv ==
    ASSUME IInv, NEW idx \in Indices, AdvanceTo(idx) PROVE IInv'
<1>1. TypeOK /\ WindowInBounds /\ HeldBatch /\ BeyondLast
  BY DEF IInv
<1>2. /\ haystack.len \in Nat /\ scan_offset \in Nat /\ match_base \in Nat /\ last \in Int
      /\ idx \in Nat
      /\ match_bits \in SUBSET (0 .. Bits - 1)
  BY <1>1, StateFacts, ArgumentsAssumption DEF TypeOK
<1>3. pc = "idle" /\ UNCHANGED <<haystack, pc, n, remaining, entry, last>>
  BY DEF AdvanceTo, nthVars
<1>4. NthAccounting'
  BY <1>3 DEF NthAccounting
<1>5. CASE /\ BeyondBatch(idx)
           /\ match_bits' = {}
           /\ scan_offset' = Clamped(idx)
           /\ match_base' = scan_offset'
  <2>1. Clamped(idx) \in {idx, haystack.len} /\ \A x \in {idx, haystack.len} : Clamped(idx) <= x
    <3>1. {idx, haystack.len} \in SUBSET Nat /\ {idx, haystack.len} # {}
      BY <1>2
    <3> QED BY <3>1, MinNat DEF Clamped
  <2>2. Clamped(idx) \in Nat /\ Clamped(idx) <= haystack.len /\ scan_offset <= Clamped(idx)
    BY <1>1, <1>2, <1>5, <2>1 DEF BeyondBatch, WindowInBounds
  <2>3. TypeOK'
    BY <1>1, <1>3, <1>5, <2>2 DEF TypeOK
  <2>4. WindowInBounds'
    BY <1>2, <1>3, <1>5, <2>2, BitsAssumption DEF WindowInBounds
  <2>5. HeldBatch'
    BY <1>5 DEF HeldBatch, UpperPart
  <2>6. BeyondLast'
    <3>1. last < scan_offset
      BY <1>1 DEF BeyondLast
    <3>2. last < Clamped(idx)
      BY <1>2, <2>2, <3>1
    <3> QED BY <1>3, <1>5, <3>2 DEF BeyondLast
  <2> QED BY <1>4, <2>3, <2>4, <2>5, <2>6 DEF IInv
<1>6. CASE /\ idx > match_base
           /\ match_bits' = match_bits \cap KeptFrom(idx)
           /\ UNCHANGED <<scan_offset, match_base>>
  <2>1. TypeOK'
    BY <1>1, <1>3, <1>6 DEF TypeOK
  <2>2. WindowInBounds'
    BY <1>1, <1>3, <1>6 DEF WindowInBounds
  <2>3. HeldBatch'
    <3> DEFINE batch == BatchOf(haystack, match_base, scan_offset)
               k == idx - match_base
    <3>1. k \in Nat /\ Bits \in Nat
      BY <1>2, <1>6, BitsAssumption
    <3>2. batch \in SUBSET (0 .. Bits - 1)
      BY StateFacts
    <3>3. UpperPart(match_bits, batch)
      BY <1>1 DEF HeldBatch
    <3>4. match_bits' = match_bits \cap HighMask(k, Bits)
      BY <1>6 DEF KeptFrom
    <3> HIDE DEF batch, k
    <3>5. UpperPart(match_bits', batch)
      BY <3>1, <3>2, <3>3, <3>4, UpperPartMask
    <3> QED BY <1>3, <1>6, <3>5 DEF HeldBatch, batch
  <2>4. BeyondLast'
    BY <1>1, <1>3, <1>6 DEF BeyondLast
  <2> QED BY <1>4, <2>1, <2>2, <2>3, <2>4 DEF IInv
<1>7. CASE UNCHANGED window
  BY <1>1, <1>3, <1>4, <1>7
     DEF IInv, TypeOK, WindowInBounds, HeldBatch, BeyondLast, window
<1> QED BY <1>5, <1>6, <1>7 DEF AdvanceTo

(***************************************************************************)
(* The calls that change nothing but ret, and stuttering.                  *)
(***************************************************************************)
LEMMA UnchangedIInv ==
    ASSUME IInv, UNCHANGED <<haystack, window, nthVars, last>> PROVE IInv'
<1>1. UNCHANGED <<haystack, scan_offset, match_base, match_bits, pc, n, remaining, entry, last>>
  BY DEF window, nthVars
<1>2. Ahead' = Ahead
  BY <1>1 DEF Ahead
<1> QED BY <1>1, <1>2 DEF IInv, TypeOK, WindowInBounds, HeldBatch, BeyondLast, NthAccounting

(***************************************************************************)
(* IInv /\ [Next]_vars => IInv'.                                           *)
(***************************************************************************)
LEMMA NextIInv == IInv /\ [Next]_vars => IInv'
<1> SUFFICES ASSUME IInv, [Next]_vars PROVE IInv'
  OBVIOUS
<1>1. CASE NextHeld
  BY <1>1, NextHeldIInv
<1>2. CASE NextExhausted
  BY <1>2, UnchangedIInv DEF NextExhausted
<1>3. CASE NextRefill
  BY <1>3, NextRefillIInv
<1>4. ASSUME NEW k \in Steps, NthCall(k) PROVE IInv'
  BY <1>4, NthCallIInv
<1>5. CASE NthExhausted
  BY <1>5, NthExhaustedIInv
<1>6. CASE NthSkip
  BY <1>6, NthSkipIInv
<1>7. CASE NthTake
  BY <1>7, NthTakeIInv
<1>8. ASSUME NEW idx \in Indices, AdvanceTo(idx) PROVE IInv'
  BY <1>8, AdvanceToIInv
<1>9. CASE Count
  BY <1>9, UnchangedIInv DEF Count
<1>10. CASE SizeHint
  BY <1>10, UnchangedIInv DEF SizeHint
<1>11. CASE UNCHANGED vars
  BY <1>11, UnchangedIInv DEF vars
<1> QED BY <1>1, <1>2, <1>3, <1>4, <1>5, <1>6, <1>7, <1>8, <1>9, <1>10, <1>11
        DEF Next, IterNext, NthStep
-----------------------------------------------------------------------------
(***************************************************************************)
(* The inductive invariant is an invariant of the iterator.                *)
(***************************************************************************)
THEOREM Invariance == Spec => []IInv
<1> QED BY InitIInv, NextIInv, PTL DEF Spec

(***************************************************************************)
(* Iter's fields keep their types; a held bit is a bit of a MatchedBitset. *)
(***************************************************************************)
THEOREM TypeCorrect == Spec => []TypeOK
<1>1. IInv => TypeOK
  BY DEF IInv
<1> QED BY <1>1, Invariance, PTL

(***************************************************************************)
(* The premises of the unsafe blocks of Iter: the scan offset is within    *)
(* the haystack, and the window fits a MatchedBitset.                      *)
(***************************************************************************)
THEOREM WindowSafe == Spec => []WindowInBounds
<1>1. IInv => WindowInBounds
  BY DEF IInv
<1> QED BY <1>1, Invariance, PTL

(***************************************************************************)
(* take_lowest's assert_unchecked is sound and no match of the held batch  *)
(* is invented or lost.                                                    *)
(***************************************************************************)
THEOREM BatchExact == Spec => []HeldBatch
<1>1. IInv => HeldBatch
  BY DEF IInv
<1> QED BY <1>1, Invariance, PTL

(***************************************************************************)
(* Offsets are yielded once each and in increasing order.                  *)
(***************************************************************************)
THEOREM NeverTwice == Spec => []BeyondLast
<1>1. IInv => BeyondLast
  BY DEF IInv
<1> QED BY <1>1, Invariance, PTL

(***************************************************************************)
(* nth's counter and the matches it has discarded always add up to n.      *)
(***************************************************************************)
THEOREM NthCounts == Spec => []NthAccounting
<1>1. IInv => NthAccounting
  BY DEF IInv
<1> QED BY <1>1, Invariance, PTL
-----------------------------------------------------------------------------
(***************************************************************************)
(* Proofs that an Iter implements MatchCursor, and that advance_to never   *)
(* rewinds it.                                                             *)
(***************************************************************************)

(***************************************************************************)
(* MatchCursor promises an answer to an nth that was called: the argument  *)
(* nth works with is one it was given.                                     *)
(***************************************************************************)
NthArgument == pc = "nth" => n \in Steps

\* nth skips as many matches as it was asked to: its argument is held until it returns.
LEMMA NextNthArgument == NthArgument /\ [Next]_vars => NthArgument'
BY DEF NthArgument, Next, IterNext, NthStep, NextHeld, NextExhausted, NextRefill, NthCall,
       NthExhausted, NthSkip, NthTake, NthReturn, AdvanceTo, Count, SizeHint, vars, nthVars

LEMMA NthArgumentInvariant == Spec => []NthArgument
<1>1. Init => NthArgument
  BY DEF Init, NthArgument
<1> QED BY <1>1, NextNthArgument, PTL DEF Spec

\* The cursor's `ahead`: an nth that has not returned has not happened yet.
AheadBar == IF pc = "nth" THEN entry ELSE Ahead
-----------------------------------------------------------------------------
(***************************************************************************)
(* What is ahead: the matches held, all below the scan offset, and those   *)
(* from there on.                                                          *)
(***************************************************************************)
HeldMatches == Offsets(match_base, match_bits)

UnscannedMatches == MatchesIn(haystack, scan_offset, haystack.len)

\* The same for any base, bits and scan offset.
AheadOf(h, base, bits, scan) == Offsets(base, bits) \cup MatchesIn(h, scan, h.len)

\* The matches ahead are those held, then those of the bytes not scanned yet.
LEMMA AheadFacts ==
    ASSUME IInv
    PROVE  /\ Ahead = HeldMatches \cup UnscannedMatches
           /\ Ahead \in SUBSET Nat
           /\ HeldMatches \in SUBSET (0 .. scan_offset - 1)
           /\ UnscannedMatches \in SUBSET (scan_offset .. haystack.len - 1)
           /\ IsFiniteSet(HeldMatches) /\ Cardinality(HeldMatches) = Cardinality(match_bits)
           /\ IsFiniteSet(UnscannedMatches)
           /\ Cardinality(Ahead) = Cardinality(match_bits) + Cardinality(UnscannedMatches)
           /\ Cardinality(UnscannedMatches) \in 0 .. haystack.len - scan_offset
           /\ Cardinality(match_bits) \in 0 .. scan_offset
<1>1. /\ haystack.len \in Nat /\ scan_offset \in Nat /\ match_base \in Nat
      /\ scan_offset <= haystack.len /\ match_base <= scan_offset
      /\ haystack.matches \in SUBSET Nat
      /\ \A m \in haystack.matches : m < haystack.len
      /\ match_bits \in SUBSET Nat /\ IsFiniteSet(match_bits)
      /\ Cardinality(match_bits) \in Nat
      /\ \A b \in match_bits : match_base + b < scan_offset
  BY StateFacts DEF IInv, TypeOK, WindowInBounds
<1>2. Ahead = HeldMatches \cup UnscannedMatches
  BY DEF Ahead, HeldMatches, UnscannedMatches, Offsets
<1>3. HeldMatches \in SUBSET (0 .. scan_offset - 1)
  <2> SUFFICES ASSUME NEW b \in match_bits PROVE match_base + b \in 0 .. scan_offset - 1
    BY DEF HeldMatches, Offsets
  <2>1. b \in Nat /\ match_base + b < scan_offset
    BY <1>1
  <2> QED BY <1>1, <2>1
<1>4. UnscannedMatches \in SUBSET (scan_offset .. haystack.len - 1)
  <2> SUFFICES ASSUME NEW m \in UnscannedMatches PROVE m \in scan_offset .. haystack.len - 1
    OBVIOUS
  <2>1. m \in Nat /\ scan_offset <= m /\ m < haystack.len
    BY <1>1 DEF UnscannedMatches, MatchesIn
  <2> QED BY <1>1, <2>1
<1>5. IsFiniteSet(HeldMatches) /\ Cardinality(HeldMatches) = Cardinality(match_bits)
  BY <1>1, ShiftCardinality DEF HeldMatches, Offsets
<1>6. IsFiniteSet(UnscannedMatches) /\ Cardinality(UnscannedMatches) \in 0 .. haystack.len - scan_offset
  <2> DEFINE all == scan_offset .. haystack.len - 1
  <2>1. IsFiniteSet(all) /\ Cardinality(all) = haystack.len - scan_offset
    BY <1>1, IntervalCardinality
  <2> HIDE DEF all
  <2>2. IsFiniteSet(UnscannedMatches) /\ Cardinality(UnscannedMatches) <= Cardinality(all)
    BY <1>4, <2>1, FS_Subset DEF all
  <2>3. Cardinality(UnscannedMatches) \in Nat
    BY <2>2, FS_CardinalityType
  <2> QED BY <1>1, <2>1, <2>2, <2>3
<1>7. Cardinality(Ahead) = Cardinality(match_bits) + Cardinality(UnscannedMatches)
  <2>1. HeldMatches \cap UnscannedMatches = {}
    <3> SUFFICES ASSUME NEW m \in HeldMatches, m \in UnscannedMatches PROVE FALSE
      OBVIOUS
    <3>1. m \in 0 .. scan_offset - 1 /\ m \in scan_offset .. haystack.len - 1
      BY <1>3, <1>4
    <3> QED BY <1>1, <3>1
  <2>2. Cardinality(HeldMatches \cup UnscannedMatches)
          = Cardinality(HeldMatches) + Cardinality(UnscannedMatches) - Cardinality(HeldMatches \cap UnscannedMatches)
    BY <1>5, <1>6, FS_Union
  <2>3. Cardinality(HeldMatches \cap UnscannedMatches) = 0
    BY <2>1, FS_EmptySet
  <2> QED BY <1>1, <1>2, <1>5, <1>6, <2>2, <2>3
<1>8. Cardinality(match_bits) \in 0 .. scan_offset
  <2>1. IsFiniteSet(0 .. scan_offset - 1) /\ Cardinality(0 .. scan_offset - 1) = scan_offset
    BY <1>1, IntervalCardinality
  <2>2. Cardinality(HeldMatches) <= Cardinality(0 .. scan_offset - 1)
    BY <1>3, <2>1, FS_Subset
  <2> QED BY <1>1, <1>5, <2>1, <2>2
<1>9. Ahead \in SUBSET Nat
  <2>1. \A m \in HeldMatches : m \in Nat
    BY <1>3
  <2>2. \A m \in UnscannedMatches : m \in Nat
    BY <1>1 DEF UnscannedMatches, MatchesIn
  <2> QED BY <1>2, <2>1, <2>2
<1> QED BY <1>2, <1>3, <1>4, <1>5, <1>6, <1>7, <1>8, <1>9

(***************************************************************************)
(* Taking the lowest of some held bits takes its match from those ahead:   *)
(* the matches below it are those of the bits passed over, the ones beyond *)
(* it those of the bits that are left and all that is not scanned.         *)
(***************************************************************************)
LEMMA TakeFromAhead ==
    ASSUME NEW h, IsHaystack(h), NEW base \in Nat, NEW scan \in Nat,
           NEW whole \in SUBSET Nat, \A b \in whole : base + b < scan,
           NEW bits, bits # {}, UpperPart(bits, whole)
    PROVE  /\ Lowest(base, bits) \in AheadOf(h, base, whole, scan)
           /\ Under(AheadOf(h, base, whole, scan), Lowest(base, bits))
                = Offsets(base, Under(whole, Min(bits)))
           /\ Above(AheadOf(h, base, whole, scan), Lowest(base, bits))
                = AheadOf(h, base, Rest(bits), scan)
<1> DEFINE low == Min(bits)
           tail == MatchesIn(h, scan, h.len)
           heldSet == {base + b : b \in whole}
           under == {base + b : b \in Under(whole, low)}
           rest == {base + b : b \in Rest(bits)}
           all == heldSet \cup tail
<1>1. bits \in SUBSET whole /\ bits \in SUBSET Nat
  BY DEF UpperPart
<1>2. low \in bits /\ \A b \in bits : low <= b
  BY <1>1, MinNat
<1>3. Rest(bits) = bits \ {low}
  BY DEF Rest
<1>4. \A m \in tail : m \in Nat /\ scan <= m
  BY HaystackFacts DEF MatchesIn
<1> HIDE DEF low, tail
<1>5. low \in Nat /\ low \in whole /\ base + low < scan
  BY <1>1, <1>2
<1>6. \A b \in whole : low <= b => b \in bits
  BY <1>2 DEF UpperPart
<1>7. \A m \in tail : m > base + low
  BY <1>4, <1>5
<1>8. \A a \in under : a < base + low /\ a \in heldSet
  <2>1. \A b \in Under(whole, low) : b \in Nat /\ b < low /\ b \in whole
    BY DEF Under
  <2> QED BY <1>5, <2>1
<1>9. \A a \in rest : a > base + low /\ a \in heldSet
  <2>1. ASSUME NEW b \in Rest(bits) PROVE b \in Nat /\ b > low /\ b \in whole
    <3>1. b \in bits /\ b # low
      BY <1>3
    <3>2. b \in Nat /\ b \in whole /\ low <= b
      BY <1>1, <1>2, <3>1
    <3> QED BY <1>5, <3>1, <3>2
  <2> QED BY <1>5, <2>1
<1>10. ASSUME NEW a \in all
       PROVE  /\ a < base + low <=> a \in under
              /\ a > base + low <=> a \in rest \cup tail
  <2>1. CASE a \in tail
    <3>1. ~ (a < base + low) /\ a > base + low
      BY <1>4, <1>5, <1>7, <2>1
    <3> QED BY <1>8, <2>1, <3>1
  <2>2. CASE a \in heldSet /\ a \notin tail
    <3>1. PICK b \in whole : a = base + b
      BY <2>2
    <3>2. b < low => a \in under
      BY <3>1 DEF Under
    <3>3. b > low => a \in rest
      BY <1>5, <1>6, <1>3, <3>1
    <3> QED BY <1>5, <1>8, <1>9, <2>2, <3>1, <3>2, <3>3
  <2> QED BY <2>1, <2>2
<1>11. Under(all, base + low) = under
  BY <1>8, <1>10 DEF Under
<1>12. Above(all, base + low) = rest \cup tail
  BY <1>9, <1>10 DEF Above
<1>13. base + low \in all
  BY <1>5
<1> QED BY <1>11, <1>12, <1>13 DEF Lowest, low, tail, AheadOf, Offsets
-----------------------------------------------------------------------------
(***************************************************************************)
(* Every step of Iter is a step of the cursor or leaves it as it was.      *)
(***************************************************************************)
LEMMA NextHeldCursor ==
    ASSUME IInv, NextHeld PROVE Cursor!CursorNext
<1> DEFINE m == Lowest(match_base, match_bits)
<1>1. /\ pc = "idle" /\ match_bits # {}
      /\ match_bits' = Rest(match_bits)
      /\ ret' = [op |-> "next", val |-> m]
      /\ UNCHANGED <<haystack, scan_offset, match_base, pc>>
  BY DEF NextHeld, nthVars
<1>2. /\ IsHaystack(haystack)
      /\ match_base \in Nat /\ scan_offset \in Nat /\ match_bits \in SUBSET Nat
      /\ \A b \in match_bits : match_base + b < scan_offset
  BY StateFacts DEF IInv, TypeOK
<1>3. Ahead = AheadOf(haystack, match_base, match_bits, scan_offset)
  BY DEF Ahead, AheadOf, Offsets
<1>4. UpperPart(match_bits, match_bits)
  BY DEF UpperPart
<1>5. /\ m \in Ahead
      /\ Under(Ahead, m) = Offsets(match_base, Under(match_bits, Min(match_bits)))
      /\ Above(Ahead, m) = AheadOf(haystack, match_base, Rest(match_bits), scan_offset)
  BY <1>1, <1>2, <1>3, <1>4, TakeFromAhead
<1> HIDE DEF m
<1>6. Under(Ahead, m) = {}
  BY <1>1, <1>2, <1>5, UnderMin DEF Offsets
<1>7. Ahead' = Above(Ahead, m)
  BY <1>1, <1>5 DEF Ahead, AheadOf, Offsets
<1> QED BY <1>1, <1>5, <1>6, <1>7 DEF Cursor!CursorNext, Cursor!Below, Cursor!Beyond, Under, Above

\* next on an exhausted iterator is the cursor finding nothing ahead.
LEMMA NextExhaustedCursor ==
    ASSUME IInv, NextExhausted PROVE Cursor!CursorNext
<1>1. /\ pc = "idle" /\ match_bits = {} /\ scan_offset = haystack.len
      /\ ret' = [op |-> "next", val |-> None]
      /\ UNCHANGED <<haystack, scan_offset, match_base, match_bits, pc>>
  BY DEF NextExhausted, Exhausted, window, nthVars
<1>2. haystack.len \in Nat /\ haystack.matches \in SUBSET Nat
        /\ \A m \in haystack.matches : m < haystack.len
  BY StateFacts
<1>3. Ahead = {}
  BY <1>1, <1>2 DEF Ahead, MatchesIn
<1>4. Ahead' = Ahead
  BY <1>1 DEF Ahead
<1> QED BY <1>1, <1>3, <1>4 DEF Cursor!CursorNext

(***************************************************************************)
(* What is not scanned before refill is what the new batch holds and what  *)
(* is not scanned after it; an empty batch is the last.                    *)
(***************************************************************************)
LEMMA RefilledAhead ==
    ASSUME IInv,
           NEW base \in scan_offset .. haystack.len, NEW scan \in scan_offset .. haystack.len,
           Refill(base, scan, BatchOf(haystack, base, scan))
    PROVE  /\ base \in Nat /\ scan \in Nat
           /\ BatchOf(haystack, base, scan) \in SUBSET Nat
           /\ \A b \in BatchOf(haystack, base, scan) : base + b < scan
           /\ UnscannedMatches = AheadOf(haystack, base, BatchOf(haystack, base, scan), scan)
           /\ BatchOf(haystack, base, scan) = {} =>
                UnscannedMatches = {} /\ MatchesIn(haystack, scan, haystack.len) = {}
<1> DEFINE bits == BatchOf(haystack, base, scan)
           tail == MatchesIn(haystack, scan, haystack.len)
<1>1. /\ base \in Nat /\ scan \in Nat /\ bits \in SUBSET Nat
      /\ UnscannedMatches = {base + b : b \in bits} \cup tail
  BY RefillFacts DEF UnscannedMatches
<1>2. /\ IsHaystack(haystack) /\ haystack.len \in Nat /\ haystack.matches \in SUBSET Nat
      /\ \A m \in haystack.matches : m < haystack.len
  BY StateFacts
<1>3. \A b \in bits : base + b < scan
  BY <1>1, <1>2, BatchBits
<1>4. bits = {} => scan = haystack.len
  BY DEF Refill, BatchContract
<1>5. bits = {} => tail = {}
  BY <1>2, <1>4 DEF MatchesIn
<1> HIDE DEF tail, bits
<1>6. bits = {} => UnscannedMatches = {}
  BY <1>1, <1>5
<1> QED BY <1>1, <1>3, <1>5, <1>6 DEF bits, tail, AheadOf, Offsets

\* A next that refills takes the first match ahead, from the batch the scan returned.
LEMMA NextRefillCursor ==
    ASSUME IInv, NextRefill PROVE Cursor!CursorNext
<1>1. PICK base \in scan_offset .. haystack.len, scan \in scan_offset .. haystack.len :
        /\ Refill(base, scan, BatchOf(haystack, base, scan))
        /\ \/ /\ BatchOf(haystack, base, scan) = {}
              /\ match_bits' = {}
              /\ ret' = [op |-> "next", val |-> None]
           \/ /\ BatchOf(haystack, base, scan) # {}
              /\ match_bits' = Rest(BatchOf(haystack, base, scan))
              /\ ret' = [op |-> "next", val |-> Lowest(base, BatchOf(haystack, base, scan))]
  BY DEF NextRefill
<1> DEFINE bits == BatchOf(haystack, base, scan)
           m == Lowest(base, bits)
<1>2. /\ pc = "idle" /\ match_bits = {} /\ UNCHANGED <<haystack, pc>>
      /\ match_base' = base /\ scan_offset' = scan
  BY <1>1 DEF NextRefill, nthVars, Refill
<1>3. /\ base \in Nat /\ scan \in Nat /\ IsHaystack(haystack)
      /\ bits \in SUBSET Nat
      /\ \A b \in bits : base + b < scan
      /\ UnscannedMatches = AheadOf(haystack, base, bits, scan)
      /\ bits = {} => UnscannedMatches = {} /\ MatchesIn(haystack, scan, haystack.len) = {}
  BY <1>1, RefilledAhead, StateFacts
<1>4. Ahead = UnscannedMatches
  BY <1>2 DEF Ahead, UnscannedMatches
<1>5. Ahead' = AheadOf(haystack, base, match_bits', scan)
  BY <1>2 DEF Ahead, AheadOf, Offsets
<1>6. CASE bits = {}
  <2>1. Ahead = {}
    BY <1>3, <1>4, <1>6
  <2>2. Ahead' = {}
    BY <1>1, <1>3, <1>5, <1>6 DEF AheadOf, Offsets
  <2> QED BY <1>1, <1>2, <1>6, <2>1, <2>2 DEF Cursor!CursorNext
<1>7. CASE bits # {}
  <2>1. match_bits' = Rest(bits) /\ ret' = [op |-> "next", val |-> m]
    BY <1>1, <1>7
  <2> HIDE DEF bits
  <2>2. UpperPart(bits, bits)
    BY DEF UpperPart
  <2>3. /\ m \in Ahead
        /\ Under(Ahead, m) = Offsets(base, Under(bits, Min(bits)))
        /\ Above(Ahead, m) = AheadOf(haystack, base, Rest(bits), scan)
    BY <1>3, <1>4, <1>7, <2>2, TakeFromAhead
  <2> HIDE DEF m
  <2>4. Under(Ahead, m) = {}
    BY <1>3, <1>7, <2>3, UnderMin DEF Offsets
  <2>5. Ahead' = Above(Ahead, m)
    BY <1>5, <2>1, <2>3
  <2> QED BY <1>2, <2>1, <2>3, <2>4, <2>5
          DEF Cursor!CursorNext, Cursor!Below, Cursor!Beyond, Under, Above
<1> QED BY <1>6, <1>7

(***************************************************************************)
(* The matches nth has discarded and those still ahead are all there were  *)
(* when it was entered; the discarded ones are the lowest.                 *)
(***************************************************************************)
LEMMA EntrySplits ==
    ASSUME IInv, pc = "nth"
    PROVE  /\ Ahead \in SUBSET entry
           /\ entry \in SUBSET Nat
           /\ IsFiniteSet(entry) /\ IsFiniteSet(entry \ Ahead)
           /\ Cardinality(entry \ Ahead) \in Nat
           /\ Cardinality(entry \ Ahead) + remaining = n
           /\ n \in Nat /\ remaining \in Nat
           /\ \A a \in Ahead, c \in entry : a <= c => c \in Ahead
           /\ Cardinality(entry) = Cardinality(entry \ Ahead) + Cardinality(Ahead)
<1>1. UpperPart(Ahead, entry) /\ Cardinality(entry \ Ahead) + remaining = n
  BY DEF IInv, NthAccounting
<1>2. n \in Nat /\ remaining \in Nat /\ entry \in SUBSET haystack.matches
  BY DEF IInv, TypeOK
<1>3. haystack.matches \in SUBSET Nat /\ haystack.len \in Nat
      /\ \A m \in haystack.matches : m < haystack.len
  BY StateFacts
<1>4. IsFiniteSet(entry)
  <2>1. entry \in SUBSET Nat /\ \A m \in entry : m <= haystack.len
    BY <1>2, <1>3
  <2> QED BY <1>3, <2>1, FS_BoundedSetOfNaturals
<1>5. Ahead \in SUBSET entry
  BY <1>1 DEF UpperPart
<1>6. IsFiniteSet(entry \ Ahead) /\ IsFiniteSet(Ahead)
  BY <1>4, <1>5, FS_Subset
<1>7. Cardinality(entry \ Ahead) \in Nat /\ Cardinality(Ahead) \in Nat
  BY <1>6, FS_CardinalityType
<1>8. Cardinality(entry) = Cardinality(entry \ Ahead) + Cardinality(Ahead)
  <2>1. entry = (entry \ Ahead) \cup Ahead /\ (entry \ Ahead) \cap Ahead = {}
    BY <1>5
  <2>2. Cardinality((entry \ Ahead) \cap Ahead) = 0
    BY <2>1, FS_EmptySet
  <2>3. Cardinality((entry \ Ahead) \cup Ahead)
          = Cardinality(entry \ Ahead) + Cardinality(Ahead)
              - Cardinality((entry \ Ahead) \cap Ahead)
    BY <1>6, FS_Union
  <2> QED BY <1>7, <2>1, <2>2, <2>3
<1>9. entry \in SUBSET Nat
  BY <1>2, <1>3
<1> QED BY <1>1, <1>2, <1>4, <1>5, <1>6, <1>7, <1>8, <1>9 DEF UpperPart

(***************************************************************************)
(* nth that has discarded everything yields None rightly: there were no    *)
(* more than n matches when it was entered.                                *)
(***************************************************************************)
LEMMA NthExhausts ==
    ASSUME IInv, pc = "nth", Cardinality(match_bits) <= remaining, UnscannedMatches = {}
    PROVE  Cardinality(entry) <= n
<1>1. /\ Cardinality(Ahead) = Cardinality(match_bits) + Cardinality(UnscannedMatches)
      /\ Cardinality(match_bits) \in 0 .. scan_offset
  BY AheadFacts
<1>2. Cardinality(UnscannedMatches) = 0
  BY FS_EmptySet
<1>3. /\ Cardinality(entry) = Cardinality(entry \ Ahead) + Cardinality(Ahead)
      /\ Cardinality(entry \ Ahead) + remaining = n
      /\ Cardinality(entry \ Ahead) \in Nat /\ n \in Nat /\ remaining \in Nat
  BY EntrySplits
<1>4. scan_offset \in Nat
  BY DEF IInv, TypeOK
<1> QED BY <1>1, <1>2, <1>3, <1>4

\* MatchCursor's Cardinality, an operator of its own to the provers, is Cardinality.
LEMMA CursorCardinality ==
    ASSUME NEW S PROVE Cursor!Cardinality(S) = Cardinality(S)
BY DEF Cursor!Cardinality, Cardinality

\* The two ways the cursor's nth returns, in Iter's terms.
LEMMA CursorNthNone ==
    ASSUME pc = "nth", pc' = "idle", UNCHANGED haystack, n \in Steps,
           Cardinality(entry) <= n, Ahead' = {},
           ret' = [op |-> "nth", arg |-> n, val |-> None]
    PROVE  \E k \in Steps : Cursor!CursorNth(k)
<1>1. Cursor!Cardinality(entry) <= n
  BY CursorCardinality
<1>2. Cursor!CursorNth(n)
  BY <1>1 DEF Cursor!CursorNth
<1> QED BY <1>2

\* The cursor's nth that finds a match: n matches ahead of it are passed.
LEMMA CursorNthSome ==
    ASSUME pc = "nth", pc' = "idle", UNCHANGED haystack, n \in Steps,
           NEW m \in entry, Cardinality(Under(entry, m)) = n, Ahead' = Above(entry, m),
           ret' = [op |-> "nth", arg |-> n, val |-> m]
    PROVE  \E k \in Steps : Cursor!CursorNth(k)
<1>1. Cursor!Below(m) = Under(entry, m) /\ Cursor!Beyond(m) = Above(entry, m)
  BY DEF Cursor!Below, Cursor!Beyond, Under, Above
<1>2. Cursor!Cardinality(Cursor!Below(m)) = n
  BY <1>1, CursorCardinality
<1>3. Cursor!CursorNth(n)
  BY <1>1, <1>2 DEF Cursor!CursorNth
<1> QED BY <1>3

\* An nth that finds the iterator exhausted has passed every match it was given.
LEMMA NthExhaustedCursor ==
    ASSUME IInv, NthArgument, NthExhausted PROVE \E k \in Steps : Cursor!CursorNth(k)
<1>1. /\ pc = "nth" /\ Cardinality(match_bits) <= remaining /\ scan_offset = haystack.len
      /\ pc' = "idle" /\ match_bits' = {}
      /\ ret' = [op |-> "nth", arg |-> n, val |-> None]
      /\ UNCHANGED <<haystack, scan_offset, match_base>>
  BY DEF NthExhausted, NthReturn, SkipsAll, held, Exhausted
<1>2. haystack.matches \in SUBSET Nat /\ haystack.len \in Nat
      /\ \A m \in haystack.matches : m < haystack.len
  BY StateFacts
<1>3. UnscannedMatches = {}
  BY <1>1, <1>2 DEF UnscannedMatches, MatchesIn
<1>4. Cardinality(entry) <= n
  BY <1>1, <1>3, NthExhausts
<1>5. Ahead' = {}
  BY <1>1, <1>3 DEF Ahead, UnscannedMatches
<1>6. n \in Steps
  BY <1>1 DEF NthArgument
<1> QED BY <1>1, <1>4, <1>5, <1>6, CursorNthNone

\* An nth that skips to the end returns when it has passed every match it was given.
LEMMA NthSkipReturns ==
    ASSUME IInv, NthSkip, NthReturn(None)
    PROVE  Cardinality(entry) <= n /\ Ahead' = {}
<1>1. PICK base \in scan_offset .. haystack.len, scan \in scan_offset .. haystack.len :
        /\ Refill(base, scan, BatchOf(haystack, base, scan))
        /\ match_bits' = BatchOf(haystack, base, scan)
        /\ BatchOf(haystack, base, scan) = {} \/ UNCHANGED pc
  BY DEF NthSkip
<1>2. /\ pc = "nth" /\ pc' = "idle" /\ Cardinality(match_bits) <= remaining
      /\ haystack' = haystack /\ scan_offset' = scan
  BY <1>1 DEF NthSkip, NthReturn, SkipsAll, held, Refill
<1>3. BatchOf(haystack, base, scan) = {}
  BY <1>1, <1>2
<1>4. UnscannedMatches = {} /\ MatchesIn(haystack, scan, haystack.len) = {}
  BY <1>1, <1>3, RefilledAhead
<1>5. Cardinality(entry) <= n
  BY <1>2, <1>4, NthExhausts
<1>6. Ahead' = {}
  BY <1>1, <1>2, <1>3, <1>4 DEF Ahead
<1> QED BY <1>5, <1>6

\* An nth that drops what is held has not returned, unless the haystack is spent.
LEMMA NthSkipCursor ==
    ASSUME IInv, NthArgument, NthSkip
    PROVE  (\E k \in Steps : Cursor!CursorNth(k)) \/ UNCHANGED Cursor!vars
<1>1. pc = "nth" /\ haystack' = haystack /\ (NthReturn(None) \/ UNCHANGED <<pc, entry, ret>>)
  BY DEF NthSkip
<1>2. CASE NthReturn(None)
  <2>1. Cardinality(entry) <= n /\ Ahead' = {}
    BY <1>2, NthSkipReturns
  <2>2. n \in Steps
    BY <1>1 DEF NthArgument
  <2> QED BY <1>1, <1>2, <2>1, <2>2, CursorNthNone DEF NthReturn
<1>3. CASE UNCHANGED <<pc, entry, ret>>
  BY <1>1, <1>3 DEF Cursor!vars
<1> QED BY <1>1, <1>2, <1>3

\* An nth that takes from what it holds returns the match the cursor names.
LEMMA NthTakeCursor ==
    ASSUME IInv, NthArgument, NthTake PROVE \E k \in Steps : Cursor!CursorNth(k)
<1> DEFINE bits == DropLowest(match_bits, remaining)
           m == Lowest(match_base, bits)
           gone == entry \ Ahead
<1>1. /\ pc = "nth" /\ ~ (Cardinality(match_bits) <= remaining)
      /\ match_bits' = Rest(bits)
      /\ pc' = "idle"
      /\ ret' = [op |-> "nth", arg |-> n, val |-> m]
      /\ UNCHANGED <<haystack, scan_offset, match_base>>
  BY DEF NthTake, NthReturn, SkipsAll, held
<1>2. /\ IsHaystack(haystack) /\ Bits - 1 \in Nat
      /\ match_base \in Nat /\ scan_offset \in Nat /\ remaining \in Nat
      /\ match_bits \in SUBSET (0 .. Bits - 1)
      /\ match_bits \in SUBSET Nat /\ IsFiniteSet(match_bits)
      /\ Cardinality(match_bits) \in Nat
      /\ \A b \in match_bits : match_base + b < scan_offset
  BY StateFacts, BitsAssumption DEF IInv, TypeOK
<1>3. /\ bits # {} /\ UpperPart(bits, match_bits)
      /\ Cardinality(Under(match_bits, Min(bits))) = remaining
  <2>1. Cardinality(match_bits) > remaining
    BY <1>1, <1>2
  <2>2. /\ bits # {}
        /\ bits \subseteq match_bits
        /\ \A b \in bits, c \in match_bits : b <= c => c \in bits
        /\ Cardinality(Under(match_bits, Min(bits))) = remaining
    BY <1>2, <2>1, DropLowestRank
  <2> QED BY <2>2 DEF UpperPart
<1> HIDE DEF bits
<1>4. Ahead = AheadOf(haystack, match_base, match_bits, scan_offset)
  BY DEF Ahead, AheadOf, Offsets
<1>5. /\ m \in Ahead
      /\ Under(Ahead, m) = Offsets(match_base, Under(match_bits, Min(bits)))
      /\ Above(Ahead, m) = AheadOf(haystack, match_base, Rest(bits), scan_offset)
  BY <1>2, <1>3, <1>4, TakeFromAhead
<1> HIDE DEF m
<1>6. Ahead' = Above(Ahead, m)
  BY <1>1, <1>5 DEF Ahead, AheadOf, Offsets
<1>7. IsFiniteSet(Under(Ahead, m)) /\ Cardinality(Under(Ahead, m)) = remaining
  <2>1. Under(match_bits, Min(bits)) \in SUBSET match_bits
    BY DEF Under
  <2>2. Under(match_bits, Min(bits)) \in SUBSET Nat /\ IsFiniteSet(Under(match_bits, Min(bits)))
    BY <1>2, <2>1, FS_Subset
  <2> QED BY <1>2, <1>3, <1>5, <2>2, ShiftCardinality DEF Offsets
<1>8. /\ Ahead \in SUBSET entry /\ entry \in SUBSET Nat
      /\ IsFiniteSet(gone) /\ Cardinality(gone) \in Nat
      /\ Cardinality(gone) + remaining = n
      /\ n \in Nat
      /\ \A a \in Ahead, c \in entry : a <= c => c \in Ahead
  BY <1>1, EntrySplits
<1>9. m \in Nat /\ m \in entry
  BY <1>5, <1>8
<1>10. \A c \in gone : c \in Nat /\ c < m
  <2> TAKE c \in gone
  <2>1. c \in Nat /\ ~ (m <= c)
    BY <1>5, <1>8
  <2> QED BY <1>9, <2>1
<1>11. Under(entry, m) = gone \cup Under(Ahead, m)
  BY <1>8, <1>10, Zenon DEF Under
<1>12. Above(entry, m) = Above(Ahead, m)
  <2>1. \A c \in entry : c > m => c \in Ahead
    BY <1>9, <1>10, <1>8
  <2> QED BY <1>8, <2>1, Zenon DEF Above
<1>13. Cardinality(Under(entry, m)) = n
  <2>1. gone \cap Under(Ahead, m) = {}
    BY DEF Under
  <2> HIDE DEF gone
  <2>2. Cardinality(gone \cap Under(Ahead, m)) = 0
    BY <2>1, FS_EmptySet
  <2>3. Cardinality(gone \cup Under(Ahead, m))
          = Cardinality(gone) + Cardinality(Under(Ahead, m)) - Cardinality(gone \cap Under(Ahead, m))
    BY <1>7, <1>8, FS_Union
  <2> QED BY <1>2, <1>7, <1>8, <1>11, <2>2, <2>3
<1>14. n \in Steps
  BY <1>1 DEF NthArgument
<1>15. Ahead' = Above(entry, m)
  BY <1>6, <1>12
<1> QED BY <1>1, <1>9, <1>13, <1>14, <1>15, CursorNthSome

\* nth that is entered has not happened yet.
LEMMA NthCallCursor ==
    ASSUME NEW k \in Steps, NthCall(k) PROVE UNCHANGED Cursor!vars
BY DEF NthCall, Cursor!vars, window

(***************************************************************************)
(* advance_to drops the matches before the index and no other, whether it  *)
(* moves the scan or masks the batch.                                      *)
(***************************************************************************)
LEMMA AdvanceToCursor ==
    ASSUME IInv, NEW idx \in Indices, AdvanceTo(idx) PROVE Cursor!CursorAdvanceTo(idx)
<1> DEFINE kept == {a \in Ahead : a >= idx}
<1>1. /\ pc = "idle" /\ UNCHANGED <<haystack, pc>>
      /\ ret' = [op |-> "advance_to", idx |-> idx]
  BY DEF AdvanceTo, nthVars
<1> SUFFICES Ahead' = kept
  BY <1>1 DEF Cursor!CursorAdvanceTo
<1>2. /\ haystack.len \in Nat /\ scan_offset \in Nat /\ match_base \in Nat /\ idx \in Nat
      /\ scan_offset <= haystack.len /\ Bits \in Nat
      /\ haystack.matches \in SUBSET Nat /\ \A m \in haystack.matches : m < haystack.len
      /\ match_bits \in SUBSET (0 .. Bits - 1)
      /\ match_bits \in SUBSET Nat
      /\ \A b \in match_bits : match_base + b < scan_offset
  BY StateFacts, ArgumentsAssumption, BitsAssumption DEF IInv, TypeOK, WindowInBounds
<1>3. /\ Ahead = HeldMatches \cup UnscannedMatches
      /\ \A a \in HeldMatches : a \in Nat /\ a < scan_offset
      /\ \A a \in UnscannedMatches : a \in Nat /\ scan_offset <= a
  <2>1. /\ Ahead = HeldMatches \cup UnscannedMatches
        /\ HeldMatches \in SUBSET (0 .. scan_offset - 1)
        /\ UnscannedMatches \in SUBSET (scan_offset .. haystack.len - 1)
    BY AheadFacts
  <2>2. ASSUME NEW a \in HeldMatches PROVE a \in Nat /\ a < scan_offset
    <3>1. a \in 0 .. scan_offset - 1
      BY <2>1
    <3> QED BY <1>2, <3>1
  <2>3. ASSUME NEW a \in UnscannedMatches PROVE a \in Nat /\ scan_offset <= a
    <3>1. a \in scan_offset .. haystack.len - 1
      BY <2>1
    <3> QED BY <1>2, <3>1
  <2> QED BY <2>1, <2>2, <2>3
<1>4. CASE /\ BeyondBatch(idx)
           /\ match_bits' = {}
           /\ scan_offset' = Clamped(idx)
  <2>1. Clamped(idx) \in {idx, haystack.len} /\ \A x \in {idx, haystack.len} : Clamped(idx) <= x
    <3>1. {idx, haystack.len} \in SUBSET Nat /\ {idx, haystack.len} # {}
      BY <1>2
    <3> QED BY <3>1, MinNat DEF Clamped
  <2>2. Ahead' = MatchesIn(haystack, Clamped(idx), haystack.len)
    BY <1>1, <1>4 DEF Ahead
  <2>3. \A m \in haystack.matches : m >= idx <=> Clamped(idx) <= m /\ m < haystack.len
    BY <1>2, <2>1
  <2>4. \A m \in UnscannedMatches : m \in haystack.matches
    BY DEF UnscannedMatches, MatchesIn
  <2>5. \A m \in haystack.matches : m >= idx => m \in UnscannedMatches
    BY <1>2, <1>4 DEF UnscannedMatches, MatchesIn, BeyondBatch
  <2>6. \A a \in HeldMatches : ~ (a >= idx)
    BY <1>2, <1>3, <1>4 DEF BeyondBatch
  <2>7. \A a : a \in kept <=> a \in haystack.matches /\ a >= idx
    BY <1>3, <2>4, <2>5, <2>6
  <2> QED BY <1>1, <2>2, <2>3, <2>7, Zenon DEF MatchesIn
<1>5. CASE /\ ~ BeyondBatch(idx)
           /\ idx > match_base
           /\ match_bits' = match_bits \cap KeptFrom(idx)
           /\ UNCHANGED <<scan_offset, match_base>>
  <2>1. \A b \in match_bits : b \in KeptFrom(idx) <=> match_base + b >= idx
    BY <1>2, <1>5 DEF KeptFrom, HighMask
  <2>2. Ahead' = Offsets(match_base, match_bits \cap KeptFrom(idx)) \cup UnscannedMatches
    BY <1>1, <1>5 DEF Ahead, UnscannedMatches, Offsets
  <2>3. \A a : a \in Offsets(match_base, match_bits \cap KeptFrom(idx))
                 <=> a \in HeldMatches /\ a >= idx
    BY <2>1 DEF Offsets, HeldMatches
  <2>4. \A a \in UnscannedMatches : a >= idx
    BY <1>2, <1>3, <1>5 DEF BeyondBatch
  <2>5. \A a : a \in kept <=> a \in Ahead'
    BY <1>3, <2>2, <2>3, <2>4
  <2> HIDE DEF kept
  <2> QED BY <2>5
<1>6. CASE /\ ~ BeyondBatch(idx)
           /\ idx <= match_base
           /\ UNCHANGED window
  <2>1. Ahead' = Ahead
    BY <1>1, <1>6 DEF Ahead, window
  <2>2. \A a \in HeldMatches : a >= idx
    BY <1>2, <1>6 DEF HeldMatches, Offsets
  <2>3. \A a \in UnscannedMatches : a >= idx
    BY <1>2, <1>3, <1>6 DEF BeyondBatch
  <2> QED BY <1>3, <2>1, <2>2, <2>3
<1> QED BY <1>4, <1>5, <1>6 DEF AdvanceTo

\* count adds what is held to what the scan counts: all that is ahead.
LEMMA CountCursor == IInv /\ Count => Cursor!CursorCount
<1> SUFFICES ASSUME IInv, Count PROVE Cursor!CursorCount
  OBVIOUS
<1>1. PICK unscanned \in 0 .. haystack.len :
        /\ CountContract(haystack, scan_offset, unscanned)
        /\ ret' = [op |-> "count", total |-> Cardinality(match_bits) + unscanned]
  BY DEF Count
<1>2. pc = "idle" /\ UNCHANGED <<haystack, pc>> /\ Ahead' = Ahead
  BY DEF Count, window, nthVars, Ahead
<1>3. unscanned = Cardinality(UnscannedMatches)
  BY <1>1 DEF CountContract, UnscannedMatches
<1>4. ret' = [op |-> "count", total |-> Cursor!Cardinality(Ahead)]
  BY <1>1, <1>3, AheadFacts, CursorCardinality
<1> QED BY <1>2, <1>4 DEF Cursor!CursorCount

\* size_hint's bounds: what is held, and that with every unscanned byte a match.
LEMMA SizeHintCursor == IInv /\ SizeHint => Cursor!CursorSizeHint
<1> SUFFICES ASSUME IInv, SizeHint PROVE Cursor!CursorSizeHint
  OBVIOUS
<1> DEFINE lo == Cardinality(match_bits)
           hi == lo + (haystack.len - scan_offset)
           tail == Cardinality(UnscannedMatches)
<1>1. pc = "idle" /\ UNCHANGED <<haystack, pc>> /\ Ahead' = Ahead
  BY DEF SizeHint, window, nthVars, Ahead
<1>2. ret' = [op |-> "size_hint", lo |-> lo, hi |-> hi]
  BY DEF SizeHint
<1>3. haystack.len \in Nat /\ scan_offset \in Nat /\ scan_offset <= haystack.len
  BY StateFacts DEF IInv, TypeOK, WindowInBounds
<1>4. /\ Cardinality(Ahead) = lo + tail
      /\ tail \in 0 .. haystack.len - scan_offset
      /\ lo \in 0 .. scan_offset
  BY AheadFacts
<1> HIDE DEF lo, tail
<1>5. lo \in 0 .. Cardinality(Ahead) /\ hi \in Cardinality(Ahead) .. haystack.len
  BY <1>3, <1>4
<1> HIDE DEF hi
<1>6. lo \in 0 .. Cursor!Cardinality(Ahead) /\ hi \in Cursor!Cardinality(Ahead) .. haystack.len
  BY <1>5, CursorCardinality
<1> QED BY <1>1, <1>2, <1>6 DEF Cursor!CursorSizeHint

\* A new iterator is a new cursor.
LEMMA InitCursor == Init => Cursor!Init
<1> SUFFICES ASSUME Init PROVE Cursor!Init
  OBVIOUS
<1>1. haystack \in Haystacks /\ scan_offset = 0 /\ match_bits = {} /\ pc = "idle"
  BY DEF Init
<1>2. haystack.matches \in SUBSET Nat /\ haystack.len \in Nat
      /\ \A m \in haystack.matches : m < haystack.len
  BY <1>1, HaystacksAssumption, HaystackFacts
<1>3. Ahead = haystack.matches
  BY <1>1, <1>2 DEF Ahead, MatchesIn
<1> QED BY <1>1, <1>3 DEF Cursor!Init, Init

(***************************************************************************)
(* Every step of an iterator is a step of the cursor or leaves it alone.   *)
(***************************************************************************)
LEMMA NextCursor ==
    IInv /\ NthArgument /\ [Next]_vars => [Cursor!Next]_(Cursor!vars)
<1> SUFFICES ASSUME IInv, NthArgument, [Next]_vars PROVE [Cursor!Next]_(Cursor!vars)
  OBVIOUS
<1> USE DEF Cursor!Next
<1>1. CASE IterNext
  BY <1>1, NextHeldCursor, NextExhaustedCursor, NextRefillCursor DEF IterNext
<1>2. ASSUME NEW k \in Steps, NthCall(k) PROVE [Cursor!Next]_(Cursor!vars)
  BY <1>2, NthCallCursor
<1>3. CASE NthStep
  BY <1>3, NthExhaustedCursor, NthSkipCursor, NthTakeCursor DEF NthStep
<1>4. ASSUME NEW idx \in Indices, AdvanceTo(idx) PROVE [Cursor!Next]_(Cursor!vars)
  BY <1>4, AdvanceToCursor
<1>5. CASE Count
  BY <1>5, CountCursor
<1>6. CASE SizeHint
  BY <1>6, SizeHintCursor
<1>7. CASE UNCHANGED vars
  <2>1. Ahead' = Ahead /\ UNCHANGED <<haystack, pc, entry, ret>>
    BY <1>7 DEF vars, window, nthVars, Ahead
  <2> QED BY <2>1 DEF Cursor!vars
<1> QED BY <1>1, <1>2, <1>3, <1>4, <1>5, <1>6, <1>7 DEF Next

(***************************************************************************)
(* An Iter implements a cursor over the matches of its haystack: whatever  *)
(* batches its scans come back with, and whichever calls are made in which *)
(* order, every call does and returns what MatchCursor says.               *)
(***************************************************************************)
THEOREM Refinement == Spec => CursorSpec
<1> QED BY InitCursor, NextCursor, Invariance, NthArgumentInvariant, PTL
        DEF Spec, CursorSpec, Cursor!Spec
-----------------------------------------------------------------------------
(***************************************************************************)
(* advance_to's doc: "An index at or before the last yielded offset has no *)
(* effect, and advancing never rewinds the iterator."                      *)
(***************************************************************************)
LEMMA AdvanceToForward ==
    ASSUME IInv, NEW idx \in Indices, AdvanceTo(idx)
    PROVE  /\ idx <= last => UNCHANGED window
           /\ scan_offset <= scan_offset'
           /\ Ahead' \subseteq Ahead
<1>1. /\ haystack.len \in Nat /\ scan_offset \in Nat /\ match_base \in Nat
      /\ last \in Int /\ idx \in Nat /\ Bits \in Nat
      /\ scan_offset <= haystack.len
      /\ match_bits \in SUBSET (0 .. Bits - 1)
      /\ last < scan_offset /\ \A b \in match_bits : last < match_base + b
  BY StateFacts, ArgumentsAssumption, BitsAssumption
     DEF IInv, TypeOK, WindowInBounds, BeyondLast
<1>2. Ahead' \subseteq Ahead
  <2>1. Cursor!CursorAdvanceTo(idx) /\ pc = "idle" /\ pc' = pc
    BY AdvanceToCursor DEF AdvanceTo, nthVars
  <2> QED BY <2>1 DEF Cursor!CursorAdvanceTo
<1>3. scan_offset <= scan_offset'
  <2>1. CASE BeyondBatch(idx) /\ scan_offset' = Clamped(idx)
    <3>1. Clamped(idx) \in {idx, haystack.len}
      <4>1. {idx, haystack.len} \in SUBSET Nat /\ {idx, haystack.len} # {}
        BY <1>1
      <4> QED BY <4>1, MinNat DEF Clamped
    <3> QED BY <1>1, <2>1, <3>1 DEF BeyondBatch
  <2>2. CASE scan_offset' = scan_offset
    BY <1>1, <2>2
  <2> QED BY <2>1, <2>2 DEF AdvanceTo, window
<1>4. ASSUME idx <= last PROVE UNCHANGED window
  <2>1. ~ BeyondBatch(idx)
    BY <1>1, <1>4 DEF BeyondBatch
  <2>2. CASE /\ idx > match_base
             /\ match_bits' = match_bits \cap KeptFrom(idx)
             /\ UNCHANGED <<scan_offset, match_base>>
    <3>1. \A b \in match_bits : b \in KeptFrom(idx)
      BY <1>1, <1>4, <2>2 DEF KeptFrom, HighMask
    <3>2. match_bits' = match_bits
      BY <2>2, <3>1
    <3> QED BY <2>2, <3>2 DEF window
  <2> QED BY <2>1, <2>2 DEF AdvanceTo
<1> QED BY <1>2, <1>3, <1>4

(***************************************************************************)
(* However next, nth and advance_to are mixed, advance_to neither rewinds  *)
(* the scan nor brings back a match, and backwards it does nothing.        *)
(***************************************************************************)
THEOREM AdvanceSafe == Spec => AdvanceNeverRewinds
<1>1. IInv => [\A idx \in Indices :
          AdvanceTo(idx) => /\ idx <= last => UNCHANGED window
                            /\ scan_offset <= scan_offset'
                            /\ Ahead' \subseteq Ahead]_vars
  BY AdvanceToForward
<1> QED BY <1>1, Invariance, PTL DEF Spec, AdvanceNeverRewinds
-----------------------------------------------------------------------------
(***************************************************************************)
(* What the calls answer, in terms of what is ahead of the iterator: the   *)
(* form in which the users of an Iter need it.                             *)
(***************************************************************************)

\* The answer v to an nth(k) of an iterator with A ahead of it, and what is left.
Answers(A, k, v, rest) ==
    \/ /\ Cardinality(A) <= k
       /\ v = None
       /\ rest = {}
    \/ /\ v \in A
       /\ Cardinality(Under(A, v)) = k
       /\ rest = Above(A, v)

\* The (k + 1)-th element of a set is one only: so is the answer to an nth(k).
LEMMA AnswersUnique ==
    ASSUME NEW A \in SUBSET Nat, IsFiniteSet(A), NEW k, NEW v, NEW w, NEW r, NEW t,
           Answers(A, k, v, r), Answers(A, k, w, t)
    PROVE  v = w /\ r = t
<1>1. ASSUME NEW a \in A
      PROVE  /\ IsFiniteSet(Under(A, a)) /\ Cardinality(Under(A, a)) \in Nat
             /\ Cardinality(Under(A, a)) < Cardinality(A)
  <2>1. Under(A, a) \in SUBSET A /\ a \notin Under(A, a)
    <3>1. a \in Nat /\ ~ (a < a)
      OBVIOUS
    <3> QED BY <3>1 DEF Under
  <2>2. /\ IsFiniteSet(Under(A, a))
        /\ Cardinality(Under(A, a)) <= Cardinality(A)
        /\ Cardinality(Under(A, a)) = Cardinality(A) => Under(A, a) = A
    BY <2>1, FS_Subset
  <2>3. Cardinality(Under(A, a)) \in Nat /\ Cardinality(A) \in Nat
    BY <2>2, FS_CardinalityType
  <2> QED BY <2>1, <2>2, <2>3
<1>2. ASSUME NEW a \in A, NEW b \in A, a < b
      PROVE  Cardinality(Under(A, a)) # Cardinality(Under(A, b))
  <2>1. a \in Nat /\ b \in Nat
    OBVIOUS
  <2>2. Under(A, a) \in SUBSET Under(A, b) /\ a \in Under(A, b) /\ a \notin Under(A, a)
    <3>1. a < b /\ \A c \in A : c < a => c < b
      BY <1>2, <2>1
    <3>2. ~ (a < a)
      BY <2>1
    <3> QED BY <3>1, <3>2 DEF Under
  <2>3. IsFiniteSet(Under(A, b))
    BY <1>1
  <2> QED BY <2>2, <2>3, FS_Subset
<1>3. Cardinality(A) \in Nat
  BY FS_CardinalityType
<1>4. CASE Cardinality(A) <= k /\ v = None /\ r = {}
  <2>1. ASSUME w \in A, Cardinality(Under(A, w)) = k PROVE FALSE
    <3>1. k \in Nat /\ k < Cardinality(A)
      BY <1>1, <2>1
    <3> QED BY <1>3, <1>4, <3>1
  <2> QED BY <1>4, <2>1 DEF Answers
<1>5. CASE v \in A /\ Cardinality(Under(A, v)) = k /\ r = Above(A, v)
  <2>1. ~ (Cardinality(A) <= k)
    BY <1>1, <1>3, <1>5
  <2>2. w \in A /\ Cardinality(Under(A, w)) = k /\ t = Above(A, w)
    BY <2>1 DEF Answers
  <2>3. v \in Nat /\ w \in Nat
    BY <1>5, <2>2
  <2>4. v = w
    BY <1>2, <1>5, <2>2, <2>3
  <2> QED BY <1>5, <2>2, <2>4
<1> QED BY <1>4, <1>5 DEF Answers

\* What is ahead, and what was ahead of nth, can be counted.
LEMMA AheadFinite ==
    ASSUME IInv
    PROVE  /\ Ahead \in SUBSET haystack.matches
           /\ Ahead \in SUBSET Nat /\ IsFiniteSet(Ahead)
           /\ entry \in SUBSET Nat /\ IsFiniteSet(entry)
<1>1. /\ Ahead \in SUBSET haystack.matches /\ haystack.matches \in SUBSET Nat
      /\ haystack.len \in Nat /\ \A m \in haystack.matches : m < haystack.len
  BY StateFacts
<1>2. haystack.matches \in SUBSET (0 .. haystack.len)
  BY <1>1
<1>3. IsFiniteSet(haystack.matches)
  BY <1>1, <1>2, BitsFinite
<1>4. entry \in SUBSET haystack.matches
  BY DEF IInv, TypeOK
<1> QED BY <1>1, <1>3, <1>4, FS_Subset

\* next answers with the lowest match ahead, and leaves the ones above it.
LEMMA NextAnswers ==
    ASSUME IInv, IterNext
    PROVE  ret'.op = "next" /\ Answers(Ahead, 0, ret'.val, Ahead')
<1>1. Cursor!CursorNext
  BY NextHeldCursor, NextExhaustedCursor, NextRefillCursor DEF IterNext
<1>2. pc = "idle" /\ pc' = "idle"
  BY DEF IterNext, NextHeld, NextExhausted, NextRefill, nthVars
<1>3. CASE Ahead = {} /\ ret' = [op |-> "next", val |-> None] /\ Ahead' = Ahead
  <2>1. Cardinality(Ahead) = 0
    BY <1>3, FS_EmptySet
  <2> QED BY <1>3, <2>1 DEF Answers
<1>4. ASSUME NEW m \in Ahead, Cursor!Below(m) = {},
             ret' = [op |-> "next", val |-> m], Ahead' = Cursor!Beyond(m)
      PROVE  ret'.op = "next" /\ Answers(Ahead, 0, ret'.val, Ahead')
  <2>1. Cursor!Below(m) = Under(Ahead, m) /\ Cursor!Beyond(m) = Above(Ahead, m)
    BY <1>2 DEF Cursor!Below, Cursor!Beyond, Under, Above
  <2>2. Cardinality(Under(Ahead, m)) = 0
    BY <1>4, <2>1, FS_EmptySet
  <2> QED BY <1>4, <2>1, <2>2 DEF Answers
<1> QED BY <1>1, <1>2, <1>3, <1>4 DEF Cursor!CursorNext

\* A step of nth leaves it running on the same call, or answers it.
LEMMA NthAnswers ==
    ASSUME IInv, NthArgument, NthStep
    PROVE  \/ pc' = "nth" /\ UNCHANGED <<n, entry, ret>>
           \/ pc' = "idle" /\ ret'.op = "nth" /\ Answers(entry, n, ret'.val, Ahead')
<1>1. pc = "nth"
  BY DEF NthStep, NthExhausted, NthSkip, NthTake
<1>2. CASE pc' = "nth" /\ UNCHANGED <<n, entry, ret>>
  BY <1>2
<1>3. CASE pc' = "idle" /\ ret'.op = "nth" /\ ret'.arg = n
           /\ (\E k \in Steps : Cursor!CursorNth(k))
  <2>1. PICK k \in Steps : Cursor!CursorNth(k)
    BY <1>3
  <2>2. k = n
    BY <1>3, <2>1 DEF Cursor!CursorNth
  <2>3. CASE Cursor!Cardinality(entry) <= n /\ ret'.val = None /\ Ahead' = {}
    BY <1>3, <2>3, CursorCardinality DEF Answers
  <2>4. ASSUME NEW m \in entry, Cursor!Cardinality(Cursor!Below(m)) = n,
               ret'.val = m, Ahead' = Cursor!Beyond(m)
        PROVE  Answers(entry, n, ret'.val, Ahead')
    <3>1. Cursor!Below(m) = Under(entry, m) /\ Cursor!Beyond(m) = Above(entry, m)
      BY <1>1 DEF Cursor!Below, Cursor!Beyond, Under, Above
    <3> QED BY <2>4, <3>1, CursorCardinality DEF Answers
  <2> QED BY <1>1, <1>3, <2>1, <2>2, <2>3, <2>4 DEF Cursor!CursorNth
<1>4. CASE NthExhausted
  BY <1>3, <1>4, NthExhaustedCursor DEF NthExhausted, NthReturn
<1>5. CASE NthTake
  BY <1>3, <1>5, NthTakeCursor DEF NthTake, NthReturn
<1>6. CASE NthSkip
  <2>1. \/ UNCHANGED <<pc, n, entry, ret>>
        \/ NthReturn(None)
    BY <1>6 DEF NthSkip
  <2>2. CASE NthReturn(None)
    <3>1. pc' = "idle" /\ ret' = [op |-> "nth", arg |-> n, val |-> None]
      BY <2>2 DEF NthReturn
    <3>2. Cardinality(entry) <= n /\ Ahead' = {}
      BY <1>6, <2>2, NthSkipReturns
    <3> QED BY <3>1, <3>2 DEF Answers
  <2> QED BY <1>1, <1>2, <2>1, <2>2
<1> QED BY <1>4, <1>5, <1>6 DEF NthStep

\* advance_to leaves the matches from the index on.
LEMMA AdvanceToLeaves ==
    ASSUME IInv, NEW idx \in Indices, AdvanceTo(idx)
    PROVE  ret'.op = "advance_to" /\ Ahead' = {a \in Ahead : a >= idx}
<1>1. pc = "idle" /\ pc' = "idle"
  BY DEF AdvanceTo, nthVars
<1> QED BY <1>1, AdvanceToCursor DEF Cursor!CursorAdvanceTo

\* count says how many matches are ahead; it and size_hint leave them there.
LEMMA CountAnswers ==
    ASSUME IInv, Count
    PROVE  ret' = [op |-> "count", total |-> Cardinality(Ahead)] /\ Ahead' = Ahead
<1>1. pc = "idle" /\ Ahead' = Ahead
  BY DEF Count, window, nthVars, Ahead
<1> QED BY <1>1, CountCursor, CursorCardinality DEF Cursor!CursorCount

\* A new iterator on the same haystack.
LEMMA NewIterIInv ==
    ASSUME IInv, pc = "idle", scan_offset' = 0, match_base' = 0, match_bits' = {}, last' = -1,
           UNCHANGED <<haystack, pc, n, remaining, entry>>
    PROVE  IInv' /\ Ahead' = haystack.matches
<1>1. /\ haystack.len \in Nat /\ haystack.matches \in SUBSET Nat
      /\ \A m \in haystack.matches : m < haystack.len
  BY StateFacts
<1>2. TypeOK'
  BY DEF IInv, TypeOK
<1>3. WindowInBounds'
  BY <1>1, BitsAssumption DEF WindowInBounds
<1>4. HeldBatch' /\ BeyondLast' /\ NthAccounting'
  BY DEF HeldBatch, UpperPart, BeyondLast, NthAccounting
<1>5. Ahead' = haystack.matches
  BY <1>1 DEF Ahead, MatchesIn
<1> QED BY <1>2, <1>3, <1>4, <1>5 DEF IInv
-----------------------------------------------------------------------------
(***************************************************************************)
(* The loop of nth goes round only to scan further: it cannot go round     *)
(* more often than the haystack has bytes.                                 *)
(***************************************************************************)
NthAdvances ==
    pc = "nth" =>
      \/ pc' = "idle"
      \/ scan_offset < scan_offset' /\ scan_offset' <= haystack.len

LEMMA NextNthAdvances == IInv /\ Next => NthAdvances
<1> SUFFICES ASSUME IInv, Next, pc = "nth" PROVE NthAdvances
  BY DEF NthAdvances
<1>1. NthExhausted \/ NthSkip \/ NthTake
  BY DEF Next, IterNext, NextHeld, NextExhausted, NextRefill, NthCall, NthStep, AdvanceTo, Count,
         SizeHint
<1>2. CASE NthExhausted \/ NthTake
  BY <1>2 DEF NthExhausted, NthTake, NthReturn, NthAdvances
<1>3. CASE NthSkip
  <2>1. PICK base \in scan_offset .. haystack.len, scan \in scan_offset .. haystack.len :
          Refill(base, scan, BatchOf(haystack, base, scan))
    BY <1>3 DEF NthSkip
  <2>2. haystack.len \in Nat /\ scan_offset \in Nat /\ scan_offset <= haystack.len
    BY StateFacts DEF IInv, TypeOK, WindowInBounds
  <2>3. scan_offset' = scan /\ scan_offset # haystack.len
        /\ (scan_offset < haystack.len => scan_offset < scan) /\ scan <= haystack.len
    BY <2>1 DEF Refill, Exhausted, BatchContract
  <2> QED BY <2>2, <2>3 DEF NthAdvances
<1> QED BY <1>1, <1>2, <1>3

\* nth's loop goes round at most once for each byte of the haystack.
THEOREM NthLoopAdvances == Spec => [][NthAdvances]_vars
<1>1. IInv /\ [Next]_vars => [NthAdvances]_vars
  BY NextNthAdvances
<1> QED BY <1>1, Invariance, PTL DEF Spec
=============================================================================
