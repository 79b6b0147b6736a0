------------------------------ MODULE ByteTable ------------------------------
(***************************************************************************)
(* The operations of ByteSet in bitset.rs on its storage: a table of       *)
(* bytes, value v being bit v % 8 of byte v / 8, which the queries read as *)
(* little-endian words.  A byte of the table is the set of its one bits.   *)
(* The code has 8-bit bytes, 8-byte words and 4 words.                     *)
(***************************************************************************)
EXTENDS BitSets, SequencesExt

CONSTANTS
    ByteBits,   \* u8::BITS
    WordBytes,  \* bytes of a u64
    Words,      \* TABLE_WORDS
    None        \* Option::None

ASSUME TableAssumption == {ByteBits, WordBytes, Words} \subseteq Nat \ {0}

\* A None is neither a value nor a pair of them.
ASSUME NoneAssumption == None \notin Nat /\ None \notin Nat \X Nat

WordBits == WordBytes * ByteBits

TableBytes == Words * WordBytes

TableBits == TableBytes * ByteBits

Value == 0 .. TableBits - 1

ByteMax == TableBits - 1

Byte == 0 .. ByteBits - 1

Table == [0 .. TableBytes - 1 -> SUBSET Byte]
-----------------------------------------------------------------------------
(***************************************************************************)
(* Membership, and the edits.                                              *)
(***************************************************************************)
new == [k \in 0 .. TableBytes - 1 |-> {}]

contains(t, v) == v % ByteBits \in t[v \div ByteBits]

\* The values the table holds, as contains has it.
Members(t) == {v \in Value : contains(t, v)}

add(t, v) == [t EXCEPT ![v \div ByteBits] = @ \cup {v % ByteBits}]

remove(t, v) == [t EXCEPT ![v \div ByteBits] = @ \ {v % ByteBits}]

add_all(t, bytes) == FoldLeft(add, t, bytes)

\* u8::MAX << (start % 8)
FromStart(start) == HighMask(start % ByteBits, ByteBits)

\* Fault: the last value itself is left out.
ThroughLastShort(last) == Shr(Byte, ByteBits - (last % ByteBits))

\* u8::MAX >> (7 - last % 8)
ThroughLast(last) == Shr(Byte, ByteBits - 1 - (last % ByteBits))

\* Nothing, one byte in part, or two bytes in part and those between in full.
add_byte_range(t, start, last) ==
    LET i == start \div ByteBits
        j == last \div ByteBits IN
      CASE start > last -> t
        [] start <= last /\ i = j ->
             [t EXCEPT ![i] = @ \cup (FromStart(start) \cap ThroughLast(last))]
        [] start <= last /\ i # j ->
             [k \in DOMAIN t |->
                CASE k = i -> t[k] \cup FromStart(start)
                  [] i < k /\ k < j -> Byte
                  [] k = j -> t[k] \cup ThroughLast(last)
                  [] OTHER -> t[k]]

union(t, u) == [k \in DOMAIN t |-> t[k] \cup u[k]]

intersection(t, u) == [k \in DOMAIN t |-> t[k] \cap u[k]]

difference(t, u) == [k \in DOMAIN t |-> t[k] \cap (Byte \ u[k])]

symmetric_difference(t, u) == [k \in DOMAIN t |-> (t[k] \ u[k]) \cup (u[k] \ t[k])]

invert(t) == [k \in DOMAIN t |-> Byte \ t[k]]

remove_range(t, start, last) == difference(t, add_byte_range(new, start, last))
-----------------------------------------------------------------------------
(***************************************************************************)
(* inclusive_range: the bounds of any RangeBounds<u8> as first and last    *)
(* value, None where checked_add or checked_sub overflows or none is left. *)
(***************************************************************************)
Bounds == {<<kind, v>> : kind \in {"included", "excluded"}, v \in Value} \cup {<<"unbounded">>}

RangeStart(start) ==
    CASE start[1] = "included" -> start[2]
      [] start[1] = "excluded" -> IF start[2] = ByteMax THEN None ELSE start[2] + 1
      [] start[1] = "unbounded" -> 0

RangeLast(end) ==
    CASE end[1] = "included" -> end[2]
      [] end[1] = "excluded" -> IF end[2] = 0 THEN None ELSE end[2] - 1
      [] end[1] = "unbounded" -> ByteMax

inclusive_range(start, end) ==
    LET first == RangeStart(start)
        last == RangeLast(end) IN
      IF first = None \/ last = None THEN None
      ELSE IF first > last THEN None
      ELSE <<first, last>>
-----------------------------------------------------------------------------
(***************************************************************************)
(* The queries, which read the table a word at a time.                     *)
(***************************************************************************)
WordIndex == 0 .. Words - 1

\* u64::from_le_bytes of the bytes of word i.
word(t, i) ==
    {p \in 0 .. WordBits - 1 : p % ByteBits \in t[i * WordBytes + p \div ByteBits]}

Nonzero(t) == {i \in WordIndex : word(t, i) # {}}

\* Fault: words are taken to start a byte's worth of values apart.
ValueAtBytes(i, bit) == i * WordBytes + bit

\* i * 64 + trailing_zeros
ValueAt(i, bit) == i * WordBits + bit

len(t) == MapThenSumSet(LAMBDA i : Cardinality(word(t, i)), WordIndex)

is_empty(t) == Nonzero(t) = {}

\* The one value missing from the table: one word has one zero bit, no other has any.
excluded_byte(t) ==
    LET Missing(i) == (0 .. WordBits - 1) \ word(t, i)
        holed == {i \in WordIndex : Missing(i) # {}} IN
      IF \E i \in WordIndex : holed = {i} /\ Cardinality(Missing(i)) = 1
      THEN LET i == Min(holed) IN ValueAt(i, Min(Missing(i)))
      ELSE None

\* Fault: the span is counted without its last value.
FillsShort(t, first, last) == len(t) = last - first

\* "A set is contiguous when its members fill its span."
Fills(t, first, last) == len(t) = last - first + 1

\* The table's first and last value, if those between are all in the table.
as_contiguous_range(t) ==
    LET i == Min(Nonzero(t))
        j == Max(Nonzero(t))
        first == ValueAt(i, Min(word(t, i)))
        last == ValueAt(j, Max(word(t, j))) IN
      IF ~ is_empty(t) /\ Fills(t, first, last) THEN <<first, last>> ELSE None

\* One list of those given, in the order of their indices.
InOrder(lists) ==
    MapThenFoldSet(LAMBDA list, rest : list \o rest, <<>>, LAMBDA i : lists[i], Min, DOMAIN lists)

\* The loop over a word's bits, which takes the lowest and clears it.
ListWord(t, i) == InOrder([bit \in word(t, i) |-> <<ValueAt(i, bit)>>])

\* At most n members in the order they are found in, or None if there are more.
write_members(t, n) ==
    IF len(t) > n THEN None ELSE InOrder([i \in WordIndex |-> ListWord(t, i)])

\* Fault: the two bytes are taken in big-endian order.
nibble_row_be(t, hi) == t[2 * hi + 1] \cup Shl(t[2 * hi], ByteBits, 2 * ByteBits)

\* nibble_rows()[hi]: two bytes of the table as one little-endian number.
nibble_row(t, hi) == t[2 * hi] \cup Shl(t[2 * hi + 1], ByteBits, 2 * ByteBits)
=============================================================================
