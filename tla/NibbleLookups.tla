---------------------------- MODULE NibbleLookups ----------------------------
(***************************************************************************)
(* The two nibble lookups of the SmallSet kernel, and how                  *)
(* group_nibbles_by_mask of lib.rs places one key in them.  A mask is the  *)
(* set of the nibbles whose bit is set in a u16; a lookup entry is the set *)
(* of the bits set in a u8.  The code has 16 nibbles and 8 groups.         *)
(***************************************************************************)
EXTENDS Integers, Sequences, FiniteSets

CONSTANTS
    Nibbles,    \* nibble values: 16
    MaxGroups   \* MAX_GROUPS, and the bits of a lookup entry: 8

ASSUME NibblesAssumption == Nibbles \in Nat \ {0}

ASSUME MaxGroupsAssumption == MaxGroups \in Nat \ {0}

Nibble == 0 .. Nibbles - 1

Masks == [Nibble -> SUBSET Nibble]

\* A NibbleLookup before any call of set.
NoBits == [i \in Nibble |-> {}]

\* The locals group_masks and group_count, key_lookup and member_lookup.
NoGroups == [masks |-> <<>>, key |-> NoBits, member |-> NoBits]

\* Fault: a key joins a group that has members which the key has not.
SameMaskWithin(mask, candidate) == mask \subseteq candidate

SameMask(mask, candidate) == mask = candidate

\* Where mask is among the groups, if it is: the `position` of the code.
GroupsOf(g, mask) == {i \in 1 .. Len(g.masks) : SameMask(mask, g.masks[i])}

\* Fault: a ninth group is let in.
FullLate(g) == Len(g.masks) > MaxGroups

Full(g) == Len(g.masks) = MaxGroups

\* Fault: fullness is tested before the groups are searched.
RefusesKnown(g, mask) == Full(g)

\* A mask of its own that no group is left for.
Refuses(g, mask) == GroupsOf(g, mask) = {} /\ Full(g)

\* key_lookup.set for a key whose mask has a group: no two groups have the same mask.
Join(g, k, mask) ==
    LET i == CHOOSE j \in GroupsOf(g, mask) : TRUE IN
      [masks  |-> g.masks,
       key    |-> [g.key EXCEPT ![k] = @ \cup {i - 1}],
       member |-> g.member]

\* member_lookup.set for every member of the mask.
Marked(lookup, mask, bit) ==
    [m \in Nibble |-> IF m \in mask THEN lookup[m] \cup {bit} ELSE lookup[m]]

\* A group for a mask seen for the first time.
Open(g, k, mask) ==
    [masks  |-> Append(g.masks, mask),
     key    |-> [g.key EXCEPT ![k] = @ \cup {Len(g.masks)}],
     member |-> Marked(g.member, mask, Len(g.masks))]

Place(g, k, mask) == IF GroupsOf(g, mask) # {} THEN Join(g, k, mask) ELSE Open(g, k, mask)

\* The columns of a matrix, given its rows.
Transposed(rows) == [lo \in Nibble |-> {hi \in Nibble : lo \in rows[hi]}]

\* The distinct masks that need a group.
Distinct(masks) == {masks[k] : k \in Nibble} \ {{}}
=============================================================================
