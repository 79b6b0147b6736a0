----------------------------- MODULE SwarKernels -----------------------------
(***************************************************************************)
(* The word kernels of swar/kernels.rs and what swar/mod.rs does with      *)
(* their marks.  A word is an integer; its lanes are bytes, the first one  *)
(* lowest, and a matching byte is to be marked in its high bit.  A byte's  *)
(* width and the number of lanes are parameters, 8 and 8 in the code.      *)
(*                                                                         *)
(* A kernel is built once, tests any word, and its marks are used in one   *)
(* of four ways: a batch gathers them, first_match and last_match take one *)
(* lane, count_all adds them up.  The + and - of the source are unbounded  *)
(* here, as no use of them may leave a word.                               *)
(***************************************************************************)
EXTENDS Integers, FiniteSets, FiniteSetsExt, Bitwise

CONSTANTS
    ByteBits,   \* bits of a byte
    WordBytes,  \* bytes of a word
    NeedlesMax  \* needles of the largest AnyOf

ASSUME LanesAssumption ==
    /\ ByteBits \in Nat \ {0, 1}
    /\ WordBytes \in 1 .. ByteBits
    /\ NeedlesMax \in Nat \ {0}

VARIABLES
    phase,      \* what was done last
    kernel,     \* the stored kernel
    set,        \* history: the byte set the kernel is for
    word,       \* the word tested
    marks,      \* kernel.matches(word)
    answer      \* what a scan made of the marks

vars == <<phase, kernel, set, word, marks, answer>>
-----------------------------------------------------------------------------
Lane == 0 .. WordBytes - 1

Byte == 0 .. 2 ^ ByteBits - 1

WordMax == 2 ^ (ByteBits * WordBytes) - 1

Word == 0 .. WordMax

SumOver(S, value(_)) == FoldSet(LAMBDA x, total : total + value(x), 0, S)

\* to_le_bytes
ByteOf(w, i) == (w \div 2 ^ (ByteBits * i)) % 2 ^ ByteBits

splat(byte) == SumOver(Lane, LAMBDA i : byte * 2 ^ (ByteBits * i))

HighBit == 2 ^ (ByteBits - 1)

HIGH == splat(HighBit)

\* !w
Complement(w) == WordMax - w

\* Fault: the high bit is added in with the others.
nonzero_bytes_unmasked(w) == ((w + Complement(HIGH)) % (WordMax + 1)) | w

nonzero_bytes(w) == ((w & Complement(HIGH)) + Complement(HIGH)) | w

\* Fault: a byte's width apart.
GathererApart == SumOver(Lane, LAMBDA j : 2 ^ (ByteBits * j))

\* 0x0002_0408_1020_4081: a one for every lane, a byte's width less one apart.
Gatherer == SumOver(Lane, LAMBDA j : 2 ^ ((ByteBits - 1) * j))

\* marks.wrapping_mul(..) >> 56
movemask(m) == ((m * Gatherer) % (WordMax + 1)) \div 2 ^ ((ByteBits - 1) * WordBytes)
-----------------------------------------------------------------------------
(***************************************************************************)
(* The kernels: what `new` stores, `matches`, and `matches_byte`.          *)
(***************************************************************************)
AnyOfNew(needles) == [op |-> "AnyOf", splatted |-> {splat(n) : n \in needles}]

AnyOfMatches(k, w) ==
    LET nonzero == FoldSet(LAMBDA needle, acc : acc & nonzero_bytes(w ^^ needle),
                           WordMax, k.splatted) IN
      Complement(nonzero) & HIGH

NotByteNew(byte) == [op |-> "NotByte", splatted |-> splat(byte)]

NotByteMatches(k, w) == nonzero_bytes(w ^^ k.splatted) & HIGH

OneRangeNew(start, last) ==
    LET span == (last - start) % 2 ^ ByteBits IN
      [op        |-> "OneRange",
       start     |-> splat(start) & Complement(HIGH),
       not_start |-> Complement(splat(start)),
       span_low  |-> splat(span % HighBit) | HIGH,
       span_high |-> IF span < HighBit THEN 0 ELSE WordMax]

OneRangeMatches(k, w) ==
    LET shifted == ((w | HIGH) - k.start) ^^ ((w ^^ k.not_start) & HIGH)
        low_ge == (k.span_low - (shifted & Complement(HIGH))) & HIGH
        clear_high == Complement(shifted) & HIGH IN
      (clear_high & low_ge) | (k.span_high & (clear_high | (shifted & low_ge)))

BitsetLookupNew(bytes) == [op |-> "BitsetLookup", table |-> bytes]

BitsetLookupMatches(k, w) ==
    SumOver({i \in Lane : ByteOf(w, i) \in k.table},
            LAMBDA i : 2 ^ (ByteBits * i + ByteBits - 1))

\* kernel.matches
matches(k, w) ==
    CASE k.op = "AnyOf" -> AnyOfMatches(k, w)
      [] k.op = "NotByte" -> NotByteMatches(k, w)
      [] k.op = "OneRange" -> OneRangeMatches(k, w)
      [] k.op = "BitsetLookup" -> BitsetLookupMatches(k, w)

\* The start and span that OneRange's matches_byte recovers from the masks.
StartOf(k) == ByteOf(Complement(k.not_start), 0)

\* Fault: the span's high bit is not put back.
SpanOfLow(k) == ByteOf(k.span_low, 0) % HighBit

SpanOf(k) == (ByteOf(k.span_low, 0) % HighBit) + (ByteOf(k.span_high, 0) & HighBit)

\* kernel.matches_byte
matches_byte(k, byte) ==
    CASE k.op = "AnyOf" -> \E needle \in k.splatted : ByteOf(needle, 0) = byte
      [] k.op = "NotByte" -> byte # ByteOf(k.splatted, 0)
      [] k.op = "OneRange" -> (byte - StartOf(k)) % 2 ^ ByteBits <= SpanOf(k)
      [] k.op = "BitsetLookup" -> byte \in k.table
-----------------------------------------------------------------------------
\* from_byte_set_with_backend, a kernel for a set it may choose that kernel for.
Init ==
    /\ phase = "built"
    /\ \/ \E needles \in UNION {kSubset(n, Byte) : n \in 1 .. NeedlesMax} :
            kernel = AnyOfNew(needles) /\ set = needles
       \/ \E byte \in Byte : kernel = NotByteNew(byte) /\ set = Byte \ {byte}
       \/ \E start \in Byte : \E last \in start .. 2 ^ ByteBits - 1 :
            kernel = OneRangeNew(start, last) /\ set = start .. last
       \/ \E bytes \in SUBSET Byte :
            /\ Cardinality(bytes) > NeedlesMax
            /\ kernel = BitsetLookupNew(bytes)
            /\ set = bytes
    /\ word = 0
    /\ marks = 0
    /\ answer = 0

Test ==
    /\ phase = "built"
    /\ word' \in Word
    /\ marks' = matches(kernel, word')
    /\ phase' = "tested"
    /\ UNCHANGED <<kernel, set, answer>>

\* A scan's use of the marks of the word it tested.
Use(how, result) ==
    /\ phase = "tested"
    /\ answer' = result
    /\ phase' = how
    /\ UNCHANGED <<kernel, set, word, marks>>

\* next_match_batch and tail_bits
Gather == Use("gathered", movemask(marks))

Ones(w) == {b \in 0 .. ByteBits * WordBytes - 1 : (w \div 2 ^ b) % 2 = 1}

\* first_lane: trailing_zeros / 8
FirstLane ==
    /\ marks # 0
    /\ Use("first", Min(Ones(marks)) \div ByteBits)

\* last_lane: (63 - leading_zeros) / 8
LastLane ==
    /\ marks # 0
    /\ Use("last", Max(Ones(marks)) \div ByteBits)

\* count_all: marks >> 7, a word to add to the counters.
CountLanes == Use("counted", marks \div HighBit)

\* The batch, the offset or the counters have taken the answer.
Used == phase \notin {"built", "tested"} /\ UNCHANGED vars

Next == Test \/ Gather \/ FirstLane \/ LastLane \/ CountLanes \/ Used

Spec == Init /\ [][Next]_vars
-----------------------------------------------------------------------------
(***************************************************************************)
(* Properties.                                                             *)
(***************************************************************************)
MatchingLanes == {i \in Lane : ByteOf(word, i) \in set}

\* "Marks each matching byte of `word` with 0x80 and each nonmatching byte with
\* zero": for every kernel, every set it is chosen for and every word.  A carry
\* or a borrow from one lane into the next, or a scratch bit left set, breaks it.
MarksExact ==
    phase # "built" => marks = SumOver(MatchingLanes, LAMBDA i : HighBit * 2 ^ (ByteBits * i))

\* The byte-wise probing of short haystacks decides every byte as the words do,
\* although OneRange has to recover its start and span from the stored masks.
ProbeExact ==
    phase = "built" => \A byte \in Byte : matches_byte(kernel, byte) <=> byte \in set

\* What the scans make of the marks: a batch has a bit per matching lane, the
\* first and last lanes are those of the first and last match, and count_all adds
\* one to the counters of exactly the matching lanes.
UseExact ==
    /\ phase = "gathered" => answer = SumOver(MatchingLanes, LAMBDA i : 2 ^ i)
    /\ phase = "first" => answer = Min(MatchingLanes)
    /\ phase = "last" => answer = Max(MatchingLanes)
    /\ phase = "counted" => answer = SumOver(MatchingLanes, LAMBDA i : 2 ^ (ByteBits * i))
=============================================================================
