------------------------------- MODULE ByteSet -------------------------------
(***************************************************************************)
(* A ByteSet under any sequence of edits: the table, and beside it the set *)
(* of values its documentation says it holds.                              *)
(***************************************************************************)
EXTENDS ByteTable

CONSTANTS
    Others,     \* the second operands of the binary operations
    Slices,     \* the arguments of add_all
    BufferLen   \* the room write_members is given: 16

ASSUME ArgumentsAssumption ==
    /\ Others \subseteq Table
    /\ Slices \subseteq Seq(Value)
    /\ BufferLen \in Nat

VARIABLES
    table,      \* ByteSet.0
    members     \* history: the values the edits so far leave in the set

vars == <<table, members>>

\* The values a RangeBounds contains.
AboveStart(start, v) ==
    CASE start[1] = "included" -> v >= start[2]
      [] start[1] = "excluded" -> v > start[2]
      [] start[1] = "unbounded" -> TRUE

BelowEnd(end, v) ==
    CASE end[1] = "included" -> v <= end[2]
      [] end[1] = "excluded" -> v < end[2]
      [] end[1] = "unbounded" -> TRUE

\* The set from_range builds its searcher from.
FromRange(start, end) ==
    LET range == inclusive_range(start, end) IN
      /\ table = IF range = None THEN new ELSE add_byte_range(new, range[1], range[2])
      /\ members = {v \in Value : AboveStart(start, v) /\ BelowEnd(end, v)}

Init ==
    \/ table = new /\ members = {}
    \/ \E start, end \in Bounds : FromRange(start, end)
-----------------------------------------------------------------------------
AddValue(v) ==
    /\ table' = add(table, v)
    /\ members' = members \cup {v}

RemoveValue(v) ==
    /\ table' = remove(table, v)
    /\ members' = members \ {v}

\* add_all, extend and, after new, from_bytes and from_iter.
AddAll(bytes) ==
    /\ table' = add_all(table, bytes)
    /\ members' = members \cup Range(bytes)

AddRange(start, last) ==
    /\ table' = add_byte_range(table, start, last)
    /\ members' = members \cup (start .. last)

RemoveRange(start, last) ==
    /\ table' = remove_range(table, start, last)
    /\ members' = members \ (start .. last)

Invert ==
    /\ table' = invert(table)
    /\ members' = Value \ members

Combine(other) ==
    \/ table' = union(table, other) /\ members' = members \cup Members(other)
    \/ table' = intersection(table, other) /\ members' = members \cap Members(other)
    \/ table' = difference(table, other) /\ members' = members \ Members(other)
    \/ /\ table' = symmetric_difference(table, other)
       /\ members' = (members \ Members(other)) \cup (Members(other) \ members)

Next ==
    \/ \E v \in Value : AddValue(v) \/ RemoveValue(v)
    \/ \E bytes \in Slices : AddAll(bytes)
    \/ \E start, last \in Value : AddRange(start, last) \/ RemoveRange(start, last)
    \/ Invert
    \/ \E other \in Others : Combine(other)

Spec == Init /\ [][Next]_vars
-----------------------------------------------------------------------------
(***************************************************************************)
(* Properties.                                                             *)
(***************************************************************************)

\* The table holds the documented set after any sequence of edits: ranges within a
\* byte, over several and up to either limit, reversed and half-open ones included.
Agrees == Members(table) = members

\* What chooses a search kernel is right: one value is excluded exactly when the
\* set has all others, and a range is reported exactly when the members are one,
\* wherever its ends and the gap lie in the words they are found in.
Classified ==
    /\ IF Cardinality(members) = TableBits - 1
       THEN excluded_byte(table) \in Value \ members
       ELSE excluded_byte(table) = None
    /\ LET range == as_contiguous_range(table) IN
         IF members # {} /\ members = Min(members) .. Max(members)
         THEN range = <<Min(members), Max(members)>>
         ELSE range = None

\* y lists the values P, the lower before the higher.
Lists(y, P) ==
    /\ y \in Seq(Value)
    /\ \A j, k \in DOMAIN y : j < k => y[j] < y[k]
    /\ Range(y) = P

\* What a kernel is built from is right: write_members lists the members in order
\* or says that there are too many, the nibble rows hold exactly the members, and
\* len and is_empty agree with them.
Listed ==
    /\ IF Cardinality(members) <= BufferLen
       THEN Lists(write_members(table, BufferLen), members)
       ELSE write_members(table, BufferLen) = None
    /\ \A hi \in 0 .. TableBytes \div 2 - 1, lo \in 0 .. 2 * ByteBits - 1 :
         lo \in nibble_row(table, hi) <=> hi * 2 * ByteBits + lo \in members
    /\ len(table) = Cardinality(members)
    /\ is_empty(table) <=> members = {}
=============================================================================
