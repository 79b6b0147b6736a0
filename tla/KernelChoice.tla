----------------------------- MODULE KernelChoice -----------------------------
(***************************************************************************)
(* How MemchrN::from_byte_set_with_backend turns a byte set into a kernel  *)
(* for an engine, and which bytes that kernel then matches.  A kernel is   *)
(* what its constructor stores; `matches` is its test of one byte.  What a *)
(* vector kernel computes in all lanes at once is in VectorKernels.        *)
(*                                                                         *)
(* An engine is the word engine, or a vector engine at a level without or  *)
(* with a byte shuffle.                                                    *)
(***************************************************************************)
EXTENDS ByteTable, NibbleLookups

CONSTANTS
    Sets,       \* the byte sets searchers are built for, as tables
    MembersMax, \* MEMBERS_MAX: 16
    NeedlesMax  \* the most needles an AnyOf has: 3

ASSUME SetsAssumption == Sets \subseteq Table

ASSUME SizesAssumption ==
    /\ Nibbles = 2 * ByteBits
    /\ TableBytes = 2 * Nibbles
    /\ MembersMax \in Nat /\ NeedlesMax \in 1 .. MembersMax

Groupings == [masks : Seq(SUBSET Nibble), key : [Nibble -> SUBSET Nat], member : [Nibble -> SUBSET Nat]]

Lookups == [lo : [Nibble -> SUBSET Nat], hi : [Nibble -> SUBSET Nat]]

\* Nor is a None the groups of some masks or a pair of lookups.
ASSUME NoLookupsAssumption == None \notin Groupings /\ None \notin Lookups

Engines == {"swar", "vector", "vector_shuffle"}

VARIABLES
    set,        \* the byte set
    engine,     \* what the backend resolved to
    listing,    \* Unlisted, or what write_members returned
    plan        \* Unplanned, or the SearchPlan's engine and kernel

choiceVars == <<set, engine, listing, plan>>

Unlisted == [listed |-> FALSE]

Unplanned == [kernel |-> [kind |-> "Unplanned"]]

ChoiceInit ==
    /\ set \in Sets
    /\ engine \in Engines
    /\ listing = Unlisted
    /\ plan = Unplanned
-----------------------------------------------------------------------------
(***************************************************************************)
(* Nibbles of a byte, and the tables of the kernels that look them up.     *)
(***************************************************************************)
Lo(v) == v % Nibbles

Hi(v) == v \div Nibbles

\* The nibble that differs between the bytes of a fixed nibble table.
variable_nibble(fixed, v) == IF fixed = "Low" THEN Hi(v) ELSE Lo(v)

fixed_nibble(fixed, v) == IF fixed = "Low" THEN Lo(v) ELSE Hi(v)

IsFixed(fixed, items) ==
    \A i \in DOMAIN items : fixed_nibble(fixed, items[i]) = fixed_nibble(fixed, items[1])

\* Fault: slot zero is left at zero as well.
EmptySlotZero(fixed, i) == 0

\* A byte whose variable nibble differs from the slot it is in.
EmptySlot(fixed, i) ==
    CASE i # 0 -> 0
      [] i = 0 /\ fixed = "Low" -> Nibbles
      [] i = 0 /\ fixed = "High" -> 1

FixedNibbleTable(fixed, items) ==
    [fixed_nibble |-> fixed,
     table |-> [i \in Nibble |->
                  LET here == {v \in Range(items) : variable_nibble(fixed, v) = i} IN
                    IF here = {} THEN EmptySlot(fixed, i) ELSE CHOOSE v \in here : TRUE]]

extract_fixed_nibble_table(items) ==
    CASE IsFixed("Low", items) -> FixedNibbleTable("Low", items)
      [] ~ IsFixed("Low", items) /\ IsFixed("High", items) -> FixedNibbleTable("High", items)
      [] OTHER -> None

\* One turn of the loop: a key without members gets nothing, and None is returned.
PlaceNext(mm, g, k) ==
    CASE g = None \/ mm[k] = {} -> g
      [] OTHER -> IF Refuses(g, mm[k]) THEN None ELSE Place(g, k, mm[k])

\* All keys placed in turn, or None when one is refused.
group_nibbles_by_mask(mm) ==
    FoldLeft(LAMBDA g, k : PlaceNext(mm, g, k), NoGroups, [i \in 1 .. Nibbles |-> i - 1])

extract_nibble_lookups(t) ==
    LET rows == [hi \in Nibble |-> nibble_row(t, hi)]
        byRow == group_nibbles_by_mask(rows)
        byColumn == group_nibbles_by_mask(Transposed(rows)) IN
      CASE byRow # None -> [lo |-> byRow.member, hi |-> byRow.key]
        [] byRow = None /\ byColumn # None -> [lo |-> byColumn.key, hi |-> byColumn.member]
        [] OTHER -> None
-----------------------------------------------------------------------------
(***************************************************************************)
(* The kernels.                                                            *)
(***************************************************************************)
AnyOf(needles) == [kind |-> "AnyOf", needles |-> needles]

NotByte(v) == [kind |-> "NotByte", byte |-> v]

OneRange(first, last) == [kind |-> "OneRange", start |-> first, span |-> last - first]

SmallSet(lookups) == [kind |-> "SmallSet", lookups |-> lookups]

FixedNibbleSet(fixed) == [kind |-> "FixedNibble", fixed |-> fixed]

BitsetLookup(t) == [kind |-> "BitsetLookup", set |-> t]

Never == [kind |-> "Never"]

matches(k, v) ==
    CASE k.kind = "AnyOf" -> v \in Range(k.needles)
      [] k.kind = "NotByte" -> v # k.byte
      [] k.kind = "OneRange" -> (v - k.start) % TableBits <= k.span
      [] k.kind = "SmallSet" -> k.lookups.lo[Lo(v)] \cap k.lookups.hi[Hi(v)] # {}
      [] k.kind = "FixedNibble" -> k.fixed.table[variable_nibble(k.fixed.fixed_nibble, v)] = v
      [] k.kind = "BitsetLookup" -> contains(k.set, v)
      [] k.kind = "Never" -> FALSE
-----------------------------------------------------------------------------
(***************************************************************************)
(* The choice.                                                             *)
(***************************************************************************)
ListMembers ==
    /\ plan = Unplanned
    /\ listing = Unlisted
    /\ listing' = [listed |-> TRUE, list |-> write_members(set, MembersMax)]
    /\ UNCHANGED <<set, engine, plan>>

Choosing == plan = Unplanned /\ listing.listed

Many == listing.list = None

Count == Len(listing.list)

Planned(e, k) ==
    /\ plan' = [engine |-> e, kernel |-> k]
    /\ UNCHANGED <<set, engine, listing>>

\* byte_shuffle_level returns a level.
Shuffles == engine = "vector_shuffle"

OfNotByte ==
    /\ Choosing /\ Many
    /\ excluded_byte(set) # None
    /\ Planned(engine, NotByte(excluded_byte(set)))

\* from_not_byte_with_backend, called for the byte that the set leaves out.
FromNotByte ==
    /\ plan = Unplanned
    /\ listing = Unlisted
    /\ \E v \in Value : set = invert(add(new, v)) /\ Planned(engine, NotByte(v))

OfLargeRange ==
    /\ Choosing /\ Many
    /\ excluded_byte(set) = None
    /\ LET range == as_contiguous_range(set) IN
         range # None /\ Planned(engine, OneRange(range[1], range[2]))

OfNever == Choosing /\ ~ Many /\ Count = 0 /\ Planned("swar", Never)

OfNeedles == Choosing /\ ~ Many /\ Count \in 1 .. NeedlesMax /\ Planned(engine, AnyOf(listing.list))

\* Fault: the range has a gap of one.
FillsRangeLoose(items) == items[Len(items)] - items[1] <= Len(items)

\* [start, .., last] if last - start + 1 == members.len()
FillsRange(items) == items[Len(items)] - items[1] + 1 = Len(items)

OfSmallRange ==
    /\ Choosing /\ ~ Many /\ Count > NeedlesMax
    /\ FillsRange(listing.list)
    /\ Planned(engine, OneRange(listing.list[1], listing.list[Count]))

\* Neither needles nor a range.
Scattered ==
    IF Many THEN excluded_byte(set) = None /\ as_contiguous_range(set) = None
    ELSE Count > NeedlesMax /\ ~ FillsRange(listing.list)

\* of_fixed_nibble_set, tried for few members only.
Fixed == IF Many THEN None ELSE extract_fixed_nibble_table(listing.list)

OfFixedNibbleSet ==
    /\ Choosing /\ Scattered
    /\ Shuffles /\ Fixed # None
    /\ Planned(engine, FixedNibbleSet(Fixed))

OfSmallSet ==
    /\ Choosing /\ Scattered
    /\ Shuffles /\ Fixed = None
    /\ LET lookups == extract_nibble_lookups(set) IN
         lookups # None /\ Planned(engine, SmallSet(lookups))

\* The vector engine runs the lookup only if it can shuffle.
LookupEngine == IF Shuffles THEN engine ELSE "swar"

OfBitsetLookup ==
    /\ Choosing /\ Scattered
    /\ Shuffles => Fixed = None /\ extract_nibble_lookups(set) = None
    /\ Planned(LookupEngine, BitsetLookup(set))

\* The searcher is built.
Built == plan # Unplanned /\ UNCHANGED choiceVars

ChoiceNext ==
    \/ ListMembers
    \/ OfNotByte \/ FromNotByte \/ OfLargeRange
    \/ OfNever \/ OfNeedles \/ OfSmallRange
    \/ OfFixedNibbleSet \/ OfSmallSet \/ OfBitsetLookup
    \/ Built

ChoiceSpec == ChoiceInit /\ [][ChoiceNext]_choiceVars
-----------------------------------------------------------------------------
(***************************************************************************)
(* Properties.                                                             *)
(***************************************************************************)

\* A searcher matches the set it was built for, whichever special case, table or
\* fallback was chosen for it: "a byte in the haystack that belongs to the set".
KernelExact ==
    plan # Unplanned => {v \in Value : matches(plan.kernel, v)} = Members(set)

\* With a shuffle, the bitset lookup is the last resort: it is chosen only for a set
\* whose rows and whose columns have more distinct masks than there are groups.
LastResort ==
    plan # Unplanned /\ plan.kernel.kind = "BitsetLookup" /\ engine = "vector_shuffle" =>
      LET rows == [hi \in Nibble |-> {lo \in Nibble : hi * Nibbles + lo \in Members(set)}] IN
        /\ Cardinality(Distinct(rows)) > MaxGroups
        /\ Cardinality(Distinct(Transposed(rows))) > MaxGroups
=============================================================================
