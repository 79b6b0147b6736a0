----------------------------- MODULE NibbleGroups -----------------------------
(***************************************************************************)
(* extract_nibble_lookups of lib.rs: the byte set is a matrix of a row for *)
(* each high and a column for each low nibble.  First the rows, and then,  *)
(* when they have too many different masks, the columns are grouped by     *)
(* group_nibbles_by_mask, a key per step.                                  *)
(***************************************************************************)
EXTENDS NibbleLookups

VARIABLES
    rows,       \* ByteSet::nibble_rows
    pass,       \* what is being grouped: "rows" or "columns"
    key,        \* group_nibbles_by_mask's key_nibble
    groups,     \* its other locals
    result      \* Pending, Some lookups, or None

groupVars == <<rows, pass, key, groups, result>>

Pending == [done |-> FALSE]

GroupInit ==
    /\ rows \in Masks
    /\ pass = "rows"
    /\ key = 0
    /\ groups = NoGroups
    /\ result = Pending

\* member_masks of the running call.
MemberMasks == IF pass = "rows" THEN rows ELSE Transposed(rows)

KeyMask == MemberMasks[key]

Grouping == result = Pending /\ key < Nibbles
-----------------------------------------------------------------------------
\* An empty mask gets no bit.
SkipEmpty ==
    /\ Grouping
    /\ KeyMask = {}
    /\ key' = key + 1
    /\ UNCHANGED <<rows, pass, groups, result>>

PlaceKey ==
    /\ Grouping
    /\ KeyMask # {}
    /\ ~ Refuses(groups, KeyMask)
    /\ groups' = Place(groups, key, KeyMask)
    /\ key' = key + 1
    /\ UNCHANGED <<rows, pass, result>>

\* The rows do not fit: the columns are tried from the start.
TryColumns ==
    /\ Grouping
    /\ KeyMask # {}
    /\ Refuses(groups, KeyMask)
    /\ pass = "rows"
    /\ pass' = "columns"
    /\ key' = 0
    /\ groups' = NoGroups
    /\ UNCHANGED <<rows, result>>

\* Nor do the columns.
GiveUp ==
    /\ Grouping
    /\ KeyMask # {}
    /\ Refuses(groups, KeyMask)
    /\ pass = "columns"
    /\ result' = [done |-> TRUE, some |-> FALSE]
    /\ UNCHANGED <<rows, pass, key, groups>>

\* Fault: the lookups of the columns are returned as those of the rows.
LowHighUnswapped(g) == [lo |-> g.member, hi |-> g.key]

\* The keys of the rows are high nibbles, those of the columns are low ones.
LowHigh(g) ==
    IF pass = "rows" THEN [lo |-> g.member, hi |-> g.key]
    ELSE [lo |-> g.key, hi |-> g.member]

Finish ==
    /\ result = Pending
    /\ key = Nibbles
    /\ result' = [done |-> TRUE, some |-> TRUE, lookups |-> LowHigh(groups)]
    /\ UNCHANGED <<rows, pass, key, groups>>

\* The caller has its answer.
Returned == result.done /\ UNCHANGED groupVars

GroupNext == SkipEmpty \/ PlaceKey \/ TryColumns \/ GiveUp \/ Finish \/ Returned

GroupSpec == GroupInit /\ [][GroupNext]_groupVars
-----------------------------------------------------------------------------
(***************************************************************************)
(* Properties.                                                             *)
(***************************************************************************)

\* Type correctness; NibbleLookup::set is never asked for a ninth bit.
TypeOK ==
    /\ rows \in Masks
    /\ pass \in {"rows", "columns"}
    /\ key \in 0 .. Nibbles
    /\ groups.masks \in Seq(SUBSET Nibble)
    /\ Len(groups.masks) <= MaxGroups
    /\ groups.key \in [Nibble -> SUBSET (0 .. MaxGroups - 1)]
    /\ groups.member \in [Nibble -> SUBSET (0 .. MaxGroups - 1)]

\* The doc of group_nibbles_by_mask, for the keys placed so far: their entries and a
\* member's "share a bit exactly when member_masks[key_nibble] contains member",
\* whichever keys share a group and however the masks of groups overlap.
PlacedExactly ==
    \A k, m \in Nibble :
      groups.key[k] \cap groups.member[m] # {} <=> k < key /\ m \in MemberMasks[k]

\* The kernel "accepts a byte when lo_lookup[byte & 0x0F] & hi_lookup[byte >> 4] != 0":
\* with the lookups returned, it accepts exactly the bytes of the set, whether they
\* come from the rows or from the columns.
LookupsExact ==
    result.done /\ result.some =>
      \A hi, lo \in Nibble :
        result.lookups.lo[lo] \cap result.lookups.hi[hi] # {} <=> lo \in rows[hi]

\* Lookups are refused only if "both passes need more than eight bits".
RefusedOnlyIfFull ==
    result.done /\ ~ result.some =>
      /\ Cardinality(Distinct(rows)) > MaxGroups
      /\ Cardinality(Distinct(Transposed(rows))) > MaxGroups
=============================================================================
