---------------------------- MODULE KernelProofs ----------------------------
(***************************************************************************)
(* Proofs about the search kernels, for bytes, tables and blocks of any    *)
(* size: module NibbleGroups, where the nibble lookups are exact and are   *)
(* refused only when they have to be; KernelChoice, where the kernel       *)
(* chosen for a set matches that set; VectorKernels, where the kernel      *)
(* marks in a vector the lanes that it matches; and LaneCount, where the   *)
(* marks are counted and no lane of the accumulator overflows.             *)
(***************************************************************************)
EXTENDS NibbleGroups, VectorKernels, LaneCount, ByteSetProofs

(***************************************************************************)
(* What holds of the locals of group_nibbles_by_mask(mm) when the keys     *)
(* below k have been placed: no two groups have the same mask, the groups  *)
(* are those of the masks so far, and a bit is in a key's entry when the   *)
(* key has its group's mask, in a member's when it is in that mask.        *)
(***************************************************************************)
Typed(g) ==
    /\ g \in [masks  : Seq(SUBSET Nibble),
              key    : [Nibble -> SUBSET (0 .. MaxGroups - 1)],
              member : [Nibble -> SUBSET (0 .. MaxGroups - 1)]]
    /\ Len(g.masks) <= MaxGroups

Apart(g) == \A i, j \in 1 .. Len(g.masks) : g.masks[i] = g.masks[j] => i = j

OnlyTheirs(g, mm, k) ==
    \A i \in 1 .. Len(g.masks) : g.masks[i] # {} /\ \E j \in 0 .. k - 1 : g.masks[i] = mm[j]

AllOfTheirs(g, mm, k) ==
    \A j \in 0 .. k - 1 : mm[j] # {} => \E i \in 1 .. Len(g.masks) : g.masks[i] = mm[j]

KeyBits(g, mm, k) ==
    \A j \in Nibble :
      g.key[j] = {b \in 0 .. Len(g.masks) - 1 : j < k /\ g.masks[b + 1] = mm[j]}

MemberBits(g) ==
    \A m \in Nibble : g.member[m] = {b \in 0 .. Len(g.masks) - 1 : m \in g.masks[b + 1]}

GroupedUpTo(g, mm, k) ==
    /\ Typed(g)
    /\ Apart(g)
    /\ OnlyTheirs(g, mm, k)
    /\ AllOfTheirs(g, mm, k)
    /\ KeyBits(g, mm, k)
    /\ MemberBits(g)
-----------------------------------------------------------------------------
(***************************************************************************)
(* Before the first key.                                                   *)
(***************************************************************************)
LEMMA NothingGrouped ==
    ASSUME NEW mm \in Masks
    PROVE  GroupedUpTo(NoGroups, mm, 0)
<1>1. NoGroups.masks = <<>> /\ Len(NoGroups.masks) = 0
  BY DEF NoGroups
<1>2. NoGroups.key = NoBits /\ NoGroups.member = NoBits
  BY DEF NoGroups
<1>3. NoGroups \in [masks  : Seq(SUBSET Nibble),
                    key    : [Nibble -> SUBSET (0 .. MaxGroups - 1)],
                    member : [Nibble -> SUBSET (0 .. MaxGroups - 1)]]
  BY DEF NoGroups, NoBits
<1>4. \A j \in Nibble : NoBits[j] = {}
  BY DEF NoBits
<1> QED BY <1>1, <1>2, <1>3, <1>4, MaxGroupsAssumption
        DEF GroupedUpTo, Typed, Apart, OnlyTheirs, AllOfTheirs, KeyBits, MemberBits

(***************************************************************************)
(* A key with an empty mask gets no bit.                                   *)
(***************************************************************************)
LEMMA SkipGrouped ==
    ASSUME NEW mm \in Masks, NEW k \in Nibble, NEW g, GroupedUpTo(g, mm, k), mm[k] = {}
    PROVE  GroupedUpTo(g, mm, k + 1)
<1>1. k \in Nat /\ 0 .. k = 0 .. k - 1 \cup {k}
  BY NibblesAssumption DEF Nibble
<1>2. \A i \in 1 .. Len(g.masks) : g.masks[i] # {} /\ \E j \in 0 .. k : g.masks[i] = mm[j]
  BY <1>1 DEF GroupedUpTo, Typed, Apart, OnlyTheirs, AllOfTheirs, KeyBits, MemberBits
<1>3. \A j \in 0 .. k : mm[j] # {} => \E i \in 1 .. Len(g.masks) : g.masks[i] = mm[j]
  BY <1>1 DEF GroupedUpTo, Typed, Apart, OnlyTheirs, AllOfTheirs, KeyBits, MemberBits
<1>4. ASSUME NEW j \in Nibble
      PROVE  g.key[j] = {b \in 0 .. Len(g.masks) - 1 : j < k + 1 /\ g.masks[b + 1] = mm[j]}
  <2>1. g.key[j] = {b \in 0 .. Len(g.masks) - 1 : j < k /\ g.masks[b + 1] = mm[j]}
    BY DEF GroupedUpTo, Typed, Apart, OnlyTheirs, AllOfTheirs, KeyBits, MemberBits
  <2>2. \A b \in 0 .. Len(g.masks) - 1 : g.masks[b + 1] # {}
    BY DEF GroupedUpTo, Typed, Apart, OnlyTheirs, AllOfTheirs, KeyBits, MemberBits
  <2>3. j < k + 1 <=> j < k \/ j = k
    BY <1>1, NibblesAssumption DEF Nibble
  <2> QED BY <2>1, <2>2, <2>3
<1>5. k + 1 - 1 = k
  BY <1>1
<1> QED BY <1>1, <1>2, <1>3, <1>4, <1>5
        DEF GroupedUpTo, Typed, Apart, OnlyTheirs, AllOfTheirs, KeyBits, MemberBits

(***************************************************************************)
(* A key joins the only group with its mask.                               *)
(***************************************************************************)
LEMMA JoinGrouped ==
    ASSUME NEW mm \in Masks, NEW k \in Nibble, NEW g, GroupedUpTo(g, mm, k),
           GroupsOf(g, mm[k]) # {}
    PROVE  GroupedUpTo(Join(g, k, mm[k]), mm, k + 1)
<1> DEFINE pos == CHOOSE j \in GroupsOf(g, mm[k]) : TRUE
           h == Join(g, k, mm[k])
           w == Len(g.masks)
<1>1. k \in Nat /\ 0 .. k = 0 .. k - 1 \cup {k}
  BY NibblesAssumption DEF Nibble
<1>2. /\ g.masks \in Seq(SUBSET Nibble)
      /\ g.key \in [Nibble -> SUBSET (0 .. MaxGroups - 1)]
      /\ w \in Nat /\ w <= MaxGroups
  BY DEF GroupedUpTo, Typed, Apart, OnlyTheirs, AllOfTheirs, KeyBits, MemberBits
<1>3. pos \in 1 .. w /\ g.masks[pos] = mm[k]
  BY DEF GroupsOf, SameMask
<1>4. pos - 1 \in 0 .. w - 1 /\ pos - 1 \in 0 .. MaxGroups - 1
  BY <1>2, <1>3, MaxGroupsAssumption
<1> DEFINE entry == g.key[k] \cup {pos - 1}
<1>5. /\ h.masks = g.masks /\ h.member = g.member
      /\ h.key = [g.key EXCEPT ![k] = entry]
      /\ h \in [masks  : Seq(SUBSET Nibble),
                key    : [Nibble -> SUBSET (0 .. MaxGroups - 1)],
                member : [Nibble -> SUBSET (0 .. MaxGroups - 1)]]
  <2>1. g \in [masks  : Seq(SUBSET Nibble),
               key    : [Nibble -> SUBSET (0 .. MaxGroups - 1)],
               member : [Nibble -> SUBSET (0 .. MaxGroups - 1)]]
    BY DEF GroupedUpTo, Typed, Apart, OnlyTheirs, AllOfTheirs, KeyBits, MemberBits
  <2>2. h = [masks  |-> g.masks,
             key    |-> [g.key EXCEPT ![k] = entry],
             member |-> g.member]
    BY DEF Join
  <2>3. entry \in SUBSET (0 .. MaxGroups - 1)
    BY <1>2, <1>4
  <2> HIDE DEF entry, pos, h
  <2>4. [g.key EXCEPT ![k] = entry] \in [Nibble -> SUBSET (0 .. MaxGroups - 1)]
    BY <2>3, <1>2
  <2> QED BY <2>1, <2>2, <2>4
<1> HIDE DEF entry, pos, h
<1> DEFINE v == Len(h.masks)
<1>6. v = w
  BY <1>5
<1>7. \A j \in 1 .. v : h.masks[j] # {} /\ \E l \in 0 .. k : h.masks[j] = mm[l]
  BY <1>1, <1>5 DEF GroupedUpTo, Typed, Apart, OnlyTheirs, AllOfTheirs, KeyBits, MemberBits
<1>8. \A l \in 0 .. k : mm[l] # {} => \E j \in 1 .. v : h.masks[j] = mm[l]
  BY <1>1, <1>3, <1>5 DEF GroupedUpTo, Typed, Apart, OnlyTheirs, AllOfTheirs, KeyBits, MemberBits
<1>9. ASSUME NEW j \in Nibble
      PROVE  h.key[j] = {b \in 0 .. v - 1 : j < k + 1 /\ h.masks[b + 1] = mm[j]}
  <2>1. g.key[j] = {b \in 0 .. w - 1 : j < k /\ g.masks[b + 1] = mm[j]}
    BY DEF GroupedUpTo, Typed, Apart, OnlyTheirs, AllOfTheirs, KeyBits, MemberBits
  <2>2. CASE j # k
    <3>1. j < k + 1 <=> j < k
      BY <2>2, <1>1, NibblesAssumption DEF Nibble
    <3>2. h.key[j] = g.key[j]
      BY <2>2, <1>2, <1>5
    <3> QED BY <3>1, <3>2, <2>1, <1>5
  <2>3. CASE j = k
    <3>1. h.key[j] = {pos - 1}
      <4>1. g.key[k] = {}
        BY <2>1, <2>3, <1>1
      <4>2. h.key[k] = g.key[k] \cup {pos - 1}
        BY <1>2, <1>5 DEF entry
      <4> QED BY <4>1, <4>2, <2>3
    <3>2. ASSUME NEW b \in 0 .. v - 1 PROVE b = pos - 1 <=> h.masks[b + 1] = mm[j]
      <4>1. b + 1 \in 1 .. w
        BY <1>2, <1>6
      <4>2. g.masks[b + 1] = g.masks[pos] => b + 1 = pos
        BY <4>1, <1>3 DEF GroupedUpTo, Typed, Apart, OnlyTheirs, AllOfTheirs, KeyBits, MemberBits
      <4> QED BY <4>1, <4>2, <1>3, <1>5, <2>3
    <3>3. j < k + 1
      BY <2>3, <1>1
    <3>4. pos - 1 \in 0 .. v - 1
      BY <1>4, <1>6
    <3> HIDE DEF v
    <3> QED BY <3>1, <3>2, <3>3, <3>4
  <2> QED BY <2>2, <2>3
<1>10. \A m \in Nibble : h.member[m] = {b \in 0 .. v - 1 : m \in h.masks[b + 1]}
  BY <1>5 DEF GroupedUpTo, Typed, Apart, OnlyTheirs, AllOfTheirs, KeyBits, MemberBits
<1>11. \A j, l \in 1 .. v : h.masks[j] = h.masks[l] => j = l
  BY <1>5 DEF GroupedUpTo, Typed, Apart, OnlyTheirs, AllOfTheirs, KeyBits, MemberBits
<1>12. v <= MaxGroups
  BY <1>2, <1>6
<1>13. Typed(h)
  BY <1>5, <1>12 DEF Typed
<1>14. Apart(h)
  BY <1>11 DEF Apart
<1>15. OnlyTheirs(h, mm, k + 1)
  BY <1>1, <1>7 DEF OnlyTheirs
<1>16. AllOfTheirs(h, mm, k + 1)
  BY <1>1, <1>8 DEF AllOfTheirs
<1>17. KeyBits(h, mm, k + 1)
  BY <1>9, Zenon DEF KeyBits
<1>18. MemberBits(h)
  BY <1>10, Zenon DEF MemberBits
<1> QED BY <1>13, <1>14, <1>15, <1>16, <1>17, <1>18 DEF h, GroupedUpTo

(***************************************************************************)
(* A key whose mask is new opens a group.                                  *)
(***************************************************************************)
LEMMA OpenGrouped ==
    ASSUME NEW mm \in Masks, NEW k \in Nibble, NEW g, GroupedUpTo(g, mm, k),
           GroupsOf(g, mm[k]) = {}, ~ Full(g), mm[k] # {}
    PROVE  GroupedUpTo(Open(g, k, mm[k]), mm, k + 1)
<1> DEFINE h == Open(g, k, mm[k])
           w == Len(g.masks)
           v == Len(h.masks)
           entry == g.key[k] \cup {w}
           marked == Marked(g.member, mm[k], w)
<1>1. k \in Nat /\ k + 1 \in Nat /\ 0 .. k = 0 .. k - 1 \cup {k}
  BY NibblesAssumption DEF Nibble
<1>2. /\ g.masks \in Seq(SUBSET Nibble)
      /\ g.key \in [Nibble -> SUBSET (0 .. MaxGroups - 1)]
      /\ g.member \in [Nibble -> SUBSET (0 .. MaxGroups - 1)]
      /\ w \in Nat /\ w < MaxGroups
  BY MaxGroupsAssumption DEF GroupedUpTo, Typed, Full
<1>3. mm[k] \in SUBSET Nibble
  BY DEF Masks
<1>4. h = [masks  |-> Append(g.masks, mm[k]),
           key    |-> [g.key EXCEPT ![k] = entry],
           member |-> marked]
  BY DEF Open
<1>5. w \in 0 .. MaxGroups - 1
  BY <1>2, MaxGroupsAssumption
<1>6. entry \in SUBSET (0 .. MaxGroups - 1)
  BY <1>2, <1>5
<1>7. marked \in [Nibble -> SUBSET (0 .. MaxGroups - 1)]
  BY <1>2, <1>5 DEF Marked
<1> HIDE DEF entry, marked
<1>8. /\ h.masks = Append(g.masks, mm[k])
      /\ h.key = [g.key EXCEPT ![k] = entry]
      /\ h.member = marked
  BY <1>4
<1>9. v = w + 1
  <2>1. Len(Append(g.masks, mm[k])) = Len(g.masks) + 1
    BY <1>2, <1>3
  <2> QED BY <2>1, <1>8
<1>10. Append(g.masks, mm[k]) \in Seq(SUBSET Nibble)
  BY <1>2, <1>3
<1>11. [g.key EXCEPT ![k] = entry] \in [Nibble -> SUBSET (0 .. MaxGroups - 1)]
  BY <1>2, <1>6
<1>12. Typed(h)
  <2>1. h \in [masks  : Seq(SUBSET Nibble),
               key    : [Nibble -> SUBSET (0 .. MaxGroups - 1)],
               member : [Nibble -> SUBSET (0 .. MaxGroups - 1)]]
    BY <1>4, <1>7, <1>10, <1>11
  <2>2. v <= MaxGroups
    BY <1>2, <1>9, MaxGroupsAssumption
  <2> QED BY <2>1, <2>2 DEF Typed
<1> HIDE DEF h
<1>13. /\ \A i \in 1 .. w : h.masks[i] = g.masks[i]
       /\ h.masks[w + 1] = mm[k]
  BY <1>2, <1>3, <1>8
<1>14. \A i \in 1 .. w : g.masks[i] # mm[k]
  BY DEF GroupsOf, SameMask
<1>15. 1 .. v = 1 .. w \cup {w + 1} /\ 0 .. v - 1 = 0 .. w - 1 \cup {w}
  BY <1>2, <1>9
<1>16. Apart(h)
  BY <1>13, <1>14, <1>15 DEF GroupedUpTo, Apart
<1>17. OnlyTheirs(h, mm, k + 1)
  <2>1. \A i \in 1 .. v : h.masks[i] # {} /\ \E l \in 0 .. k : h.masks[i] = mm[l]
    BY <1>1, <1>13, <1>15 DEF GroupedUpTo, OnlyTheirs
  <2> QED BY <1>1, <2>1 DEF OnlyTheirs
<1>18. AllOfTheirs(h, mm, k + 1)
  <2>1. \A l \in 0 .. k : mm[l] # {} => \E j \in 1 .. v : h.masks[j] = mm[l]
    BY <1>1, <1>13, <1>15 DEF GroupedUpTo, AllOfTheirs
  <2> QED BY <1>1, <2>1 DEF AllOfTheirs
<1>19. \A b \in 0 .. w - 1 : h.masks[b + 1] = g.masks[b + 1] /\ h.masks[b + 1] # mm[k]
  <2>1. \A b \in 0 .. w - 1 : b + 1 \in 1 .. w
    BY <1>2
  <2> QED BY <2>1, <1>13, <1>14
<1>20. KeyBits(h, mm, k + 1)
  <2>1. ASSUME NEW j \in Nibble
        PROVE  h.key[j] = {b \in 0 .. v - 1 : j < k + 1 /\ h.masks[b + 1] = mm[j]}
    <3>1. g.key[j] = {b \in 0 .. w - 1 : j < k /\ g.masks[b + 1] = mm[j]}
      BY DEF GroupedUpTo, KeyBits
    <3>2. j \in Nat
      BY NibblesAssumption DEF Nibble
    <3>3. CASE j = k
      <4>1. g.key[k] = {} /\ h.key[k] = {w}
        BY <3>1, <3>3, <1>1, <1>2, <1>8 DEF entry
      <4>2. \A b \in 0 .. v - 1 : h.masks[b + 1] = mm[k] <=> b = w
        BY <1>13, <1>15, <1>19
      <4>3. w \in 0 .. v - 1 /\ j < k + 1
        BY <1>15, <3>3, <1>1
      <4> HIDE DEF v
      <4> QED BY <4>1, <4>2, <4>3, <3>3
    <3>4. CASE j # k
      <4>1. h.key[j] = g.key[j]
        BY <3>4, <1>2, <1>8
      <4>2. j < k + 1 <=> j < k
        BY <3>2, <3>4, <1>1
      <4>3. j < k => h.masks[w + 1] # mm[j]
        <5>1. SUFFICES ASSUME j < k, mm[k] = mm[j] PROVE FALSE
          BY <1>13
        <5>2. j \in 0 .. k - 1
          BY <5>1, <3>2, <1>1
        <5> QED BY <5>1, <5>2, <1>14 DEF GroupedUpTo, AllOfTheirs
      <4> HIDE DEF v
      <4> QED BY <4>1, <4>2, <4>3, <3>1, <1>15, <1>19
    <3> QED BY <3>3, <3>4
  <2> QED BY <2>1, Zenon DEF KeyBits
<1>21. MemberBits(h)
  <2>1. ASSUME NEW m \in Nibble
        PROVE  h.member[m] = {b \in 0 .. v - 1 : m \in h.masks[b + 1]}
    <3>1. g.member[m] = {b \in 0 .. w - 1 : m \in g.masks[b + 1]}
      BY DEF GroupedUpTo, MemberBits
    <3>2. h.member[m] = IF m \in mm[k] THEN g.member[m] \cup {w} ELSE g.member[m]
      BY <1>8 DEF marked, Marked
    <3> HIDE DEF v
    <3> QED BY <3>1, <3>2, <1>13, <1>15, <1>19
  <2> QED BY <2>1, Zenon DEF MemberBits
<1> QED BY <1>12, <1>16, <1>17, <1>18, <1>20, <1>21 DEF h, GroupedUpTo

(***************************************************************************)
(* The doc of group_nibbles_by_mask, for the keys below k.                 *)
(***************************************************************************)
LEMMA GroupedShares ==
    ASSUME NEW mm \in Masks, NEW k \in 0 .. Nibbles, NEW g, GroupedUpTo(g, mm, k),
           NEW j \in Nibble, NEW m \in Nibble
    PROVE  g.key[j] \cap g.member[m] # {} <=> j < k /\ m \in mm[j]
<1>1. /\ g.key[j] = {b \in 0 .. Len(g.masks) - 1 : j < k /\ g.masks[b + 1] = mm[j]}
      /\ g.member[m] = {b \in 0 .. Len(g.masks) - 1 : m \in g.masks[b + 1]}
  BY DEF GroupedUpTo, KeyBits, MemberBits
<1>2. ASSUME j < k, m \in mm[j] PROVE g.key[j] \cap g.member[m] # {}
  <2>1. j \in 0 .. k - 1 /\ mm[j] # {}
    BY <1>2, NibblesAssumption DEF Nibble
  <2>2. PICK i \in 1 .. Len(g.masks) : g.masks[i] = mm[j]
    BY <2>1 DEF GroupedUpTo, AllOfTheirs
  <2>3. Len(g.masks) \in Nat
    BY DEF GroupedUpTo, Typed
  <2>4. i - 1 \in 0 .. Len(g.masks) - 1 /\ g.masks[(i - 1) + 1] = mm[j]
    BY <2>2, <2>3
  <2>5. i - 1 \in g.key[j] /\ i - 1 \in g.member[m]
    BY <1>1, <1>2, <2>4
  <2> QED BY <2>5
<1> QED BY <1>1, <1>2

(***************************************************************************)
(* When a mask is refused there are more masks than groups: the groups     *)
(* have one each, and the refused one is none of theirs.                   *)
(***************************************************************************)
LEMMA RefusedCount ==
    ASSUME NEW mm \in Masks, NEW k \in Nibble, NEW g, GroupedUpTo(g, mm, k),
           mm[k] # {}, Refuses(g, mm[k])
    PROVE  Cardinality(Distinct(mm)) > MaxGroups
<1> DEFINE D == Distinct(mm)
           S == {mm[n] : n \in Nibble}
           f == [n \in Nibble |-> mm[n]]
           h == [i \in 1 .. MaxGroups + 1 |-> IF i <= MaxGroups THEN g.masks[i] ELSE mm[k]]
<1>1. IsFiniteSet(D)
  <2>1. f \in Surjection(Nibble, S)
    BY DEF Surjection
  <2>2. IsFiniteSet(Nibble)
    BY FS_Interval, NibblesAssumption DEF Nibble
  <2> HIDE DEF S, f
  <2>3. IsFiniteSet(S)
    BY <2>1, <2>2, FS_Surjection
  <2>4. D \in SUBSET S
    BY DEF S, Distinct
  <2> QED BY <2>3, <2>4, FS_Subset
<1>2. /\ Len(g.masks) = MaxGroups
      /\ \A i \in 1 .. MaxGroups : g.masks[i] # mm[k]
  BY DEF Refuses, Full, GroupsOf, SameMask
<1>3. ASSUME NEW i \in 1 .. MaxGroups + 1 PROVE h[i] \in D
  <2>1. CASE i <= MaxGroups
    <3>1. i \in 1 .. Len(g.masks)
      BY <2>1, <1>2, MaxGroupsAssumption
    <3>2. PICK j \in 0 .. k - 1 : g.masks[i] # {} /\ g.masks[i] = mm[j]
      BY <3>1 DEF GroupedUpTo, OnlyTheirs
    <3>3. j \in Nibble
      BY <3>2, NibblesAssumption DEF Nibble
    <3> QED BY <2>1, <3>2, <3>3 DEF Distinct
  <2>2. CASE ~ (i <= MaxGroups)
    BY <2>2 DEF Distinct
  <2> QED BY <2>1, <2>2
<1>4. ASSUME NEW i \in 1 .. MaxGroups + 1, NEW j \in 1 .. MaxGroups + 1, h[i] = h[j]
      PROVE  i = j
  <2>1. /\ i <= MaxGroups => i \in 1 .. MaxGroups
        /\ j <= MaxGroups => j \in 1 .. MaxGroups
        /\ ~ (i <= MaxGroups) => i = MaxGroups + 1
        /\ ~ (j <= MaxGroups) => j = MaxGroups + 1
    BY MaxGroupsAssumption
  <2> QED BY <2>1, <1>2, <1>4 DEF GroupedUpTo, Apart
<1>5. h \in Injection(1 .. MaxGroups + 1, D)
  <2>1. h \in [1 .. MaxGroups + 1 -> D]
    BY <1>3
  <2>2. IsInjective(h)
    BY <1>4 DEF IsInjective
  <2> QED BY <2>1, <2>2 DEF Injection
<1>6. Cardinality(1 .. MaxGroups + 1) = MaxGroups + 1
  BY FS_Interval, MaxGroupsAssumption
<1> HIDE DEF D, h
<1>7. Cardinality(1 .. MaxGroups + 1) <= Cardinality(D)
  BY <1>1, <1>5, FS_Injection
<1>8. Cardinality(D) \in Nat
  BY <1>1, FS_CardinalityType
<1>9. Cardinality(D) > MaxGroups
  BY <1>6, <1>7, <1>8, MaxGroupsAssumption
<1> QED BY <1>9 DEF D
-----------------------------------------------------------------------------
(***************************************************************************)
(* The inductive invariant.  What is returned was exact when the last key  *)
(* was placed; what is known of the rows when the columns are tried is     *)
(* only that they had too many masks.                                      *)
(***************************************************************************)
NInv ==
    /\ rows \in Masks
    /\ pass \in {"rows", "columns"}
    /\ key \in 0 .. Nibbles
    /\ GroupedUpTo(groups, MemberMasks, key)
    /\ pass = "columns" => Cardinality(Distinct(rows)) > MaxGroups
    /\ LookupsExact
    /\ RefusedOnlyIfFull

\* In either pass what is grouped is a mask per nibble.
LEMMA MasksTyped == ASSUME rows \in Masks PROVE MemberMasks \in Masks /\ Transposed(rows) \in Masks
<1>1. Transposed(rows) \in Masks
  BY DEF Masks, Transposed
<1> QED BY <1>1 DEF MemberMasks

\* The strengthened invariant holds before the first key of the first pass.
LEMMA InitNInv == GroupInit => NInv
<1> SUFFICES ASSUME GroupInit PROVE NInv
  OBVIOUS
<1>1. rows \in Masks /\ pass = "rows" /\ key = 0 /\ groups = NoGroups /\ result = Pending
  BY DEF GroupInit
<1>2. GroupedUpTo(groups, MemberMasks, key)
  BY <1>1, MasksTyped, NothingGrouped
<1>3. LookupsExact /\ RefusedOnlyIfFull
  BY <1>1 DEF LookupsExact, RefusedOnlyIfFull, Pending
<1> QED BY <1>1, <1>2, <1>3, NibblesAssumption DEF NInv

\* What every step that goes on grouping leaves as it was.
LEMMA StillPending ==
    ASSUME NInv, result = Pending, UNCHANGED <<rows, result>>
    PROVE  LookupsExact' /\ RefusedOnlyIfFull'
BY DEF LookupsExact, RefusedOnlyIfFull, Pending

\* A step that goes on to the next key with the groups as they have to be.
LEMMA KeyPlaced ==
    ASSUME NInv, Grouping, key' = key + 1, UNCHANGED <<rows, pass, result>>,
           GroupedUpTo(groups', MemberMasks, key + 1)
    PROVE  NInv'
<1>1. MemberMasks' = MemberMasks
  BY DEF MemberMasks
<1>2. GroupedUpTo(groups, MemberMasks, key)'
  BY <1>1
<1>3. key' \in 0 .. Nibbles
  BY NibblesAssumption DEF NInv, Grouping
<1>4. LookupsExact' /\ RefusedOnlyIfFull'
  BY StillPending DEF Grouping
<1> QED BY <1>2, <1>3, <1>4 DEF NInv

\* Every step preserves it, the change from the rows to the columns included.
LEMMA NextNInv == NInv /\ [GroupNext]_groupVars => NInv'
<1> SUFFICES ASSUME NInv, [GroupNext]_groupVars PROVE NInv'
  OBVIOUS
<1>1. /\ rows \in Masks /\ pass \in {"rows", "columns"} /\ key \in 0 .. Nibbles
      /\ GroupedUpTo(groups, MemberMasks, key)
      /\ pass = "columns" => Cardinality(Distinct(rows)) > MaxGroups
      /\ MemberMasks \in Masks /\ Transposed(rows) \in Masks
  BY MasksTyped DEF NInv
<1>2. ASSUME Grouping PROVE key \in Nibble
  BY <1>1, <1>2, NibblesAssumption DEF Grouping, Nibble
<1>3. CASE SkipEmpty
  <2>1. /\ Grouping /\ MemberMasks[key] = {} /\ key' = key + 1
        /\ UNCHANGED <<rows, pass, groups, result>>
    BY <1>3 DEF SkipEmpty, KeyMask
  <2>2. GroupedUpTo(groups, MemberMasks, key + 1)
    BY <1>1, <1>2, <2>1, SkipGrouped
  <2> QED BY <2>1, <2>2, KeyPlaced
<1>4. CASE PlaceKey
  <2>1. /\ Grouping /\ MemberMasks[key] # {} /\ ~ Refuses(groups, MemberMasks[key])
        /\ groups' = Place(groups, key, MemberMasks[key]) /\ key' = key + 1
        /\ UNCHANGED <<rows, pass, result>>
    BY <1>4 DEF PlaceKey, KeyMask
  <2>2. CASE GroupsOf(groups, MemberMasks[key]) # {}
    <3>1. groups' = Join(groups, key, MemberMasks[key])
      BY <2>1, <2>2 DEF Place
    <3>2. GroupedUpTo(groups', MemberMasks, key + 1)
      BY <3>1, <1>1, <1>2, <2>1, <2>2, JoinGrouped
    <3> QED BY <2>1, <3>2, KeyPlaced
  <2>3. CASE GroupsOf(groups, MemberMasks[key]) = {}
    <3>1. groups' = Open(groups, key, MemberMasks[key]) /\ ~ Full(groups)
      BY <2>1, <2>3 DEF Place, Refuses
    <3>2. GroupedUpTo(groups', MemberMasks, key + 1)
      BY <3>1, <1>1, <1>2, <2>1, <2>3, OpenGrouped
    <3> QED BY <2>1, <3>2, KeyPlaced
  <2> QED BY <2>2, <2>3
<1>5. CASE TryColumns
  <2>1. /\ Grouping /\ MemberMasks[key] # {} /\ Refuses(groups, MemberMasks[key])
        /\ pass = "rows" /\ pass' = "columns" /\ key' = 0 /\ groups' = NoGroups
        /\ UNCHANGED <<rows, result>>
    BY <1>5 DEF TryColumns, KeyMask
  <2>2. Cardinality(Distinct(rows)) > MaxGroups
    <3>1. Cardinality(Distinct(MemberMasks)) > MaxGroups
      BY <1>1, <1>2, <2>1, RefusedCount
    <3> QED BY <2>1, <3>1 DEF MemberMasks
  <2>3. MemberMasks' = Transposed(rows)
    BY <2>1 DEF MemberMasks, Transposed
  <2>4. GroupedUpTo(groups, MemberMasks, key)'
    BY <1>1, <2>1, <2>3, NothingGrouped
  <2>5. LookupsExact' /\ RefusedOnlyIfFull'
    BY <2>1, StillPending DEF Grouping
  <2> QED BY <1>1, <2>1, <2>2, <2>4, <2>5, NibblesAssumption DEF NInv
<1>6. CASE GiveUp
  <2>1. /\ Grouping /\ MemberMasks[key] # {} /\ Refuses(groups, MemberMasks[key])
        /\ pass = "columns" /\ result' = [done |-> TRUE, some |-> FALSE]
        /\ UNCHANGED <<rows, pass, key, groups>>
    BY <1>6 DEF GiveUp, KeyMask
  <2>2. Cardinality(Distinct(Transposed(rows))) > MaxGroups
    <3>1. Cardinality(Distinct(MemberMasks)) > MaxGroups
      BY <1>1, <1>2, <2>1, RefusedCount
    <3> QED BY <2>1, <3>1 DEF MemberMasks
  <2>3. LookupsExact'
    BY <2>1 DEF LookupsExact
  <2>4. RefusedOnlyIfFull'
    BY <1>1, <2>1, <2>2 DEF RefusedOnlyIfFull, Distinct, Transposed
  <2>5. GroupedUpTo(groups, MemberMasks, key)'
    BY <1>1, <2>1 DEF MemberMasks, Transposed
  <2> QED BY <1>1, <2>1, <2>3, <2>4, <2>5 DEF NInv
<1>7. CASE Finish
  <2>1. /\ key = Nibbles
        /\ result' = [done |-> TRUE, some |-> TRUE, lookups |-> LowHigh(groups)]
        /\ UNCHANGED <<rows, pass, key, groups>>
    BY <1>7 DEF Finish
  <2>2. ASSUME NEW j \in Nibble, NEW m \in Nibble
        PROVE  groups.key[j] \cap groups.member[m] # {} <=> m \in MemberMasks[j]
    <3>1. j < key
      BY <2>1, NibblesAssumption DEF Nibble
    <3> QED BY <1>1, <3>1, GroupedShares
  <2>3. ASSUME NEW hi \in Nibble, NEW lo \in Nibble
        PROVE  LowHigh(groups).lo[lo] \cap LowHigh(groups).hi[hi] # {} <=> lo \in rows[hi]
    <3>1. CASE pass = "rows"
      BY <2>2, <3>1 DEF LowHigh, MemberMasks
    <3>2. CASE pass # "rows"
      <4>1. hi \in MemberMasks[lo] <=> lo \in rows[hi]
        BY <3>2 DEF MemberMasks, Transposed
      <4>2. LowHigh(groups).lo = groups.key /\ LowHigh(groups).hi = groups.member
        BY <3>2 DEF LowHigh
      <4> QED BY <2>2, <4>1, <4>2
    <3> QED BY <3>1, <3>2
  <2>4. LookupsExact'
    BY <2>1, <2>3 DEF LookupsExact, LowHigh
  <2>5. RefusedOnlyIfFull'
    BY <2>1 DEF RefusedOnlyIfFull
  <2>6. GroupedUpTo(groups, MemberMasks, key)'
    BY <1>1, <2>1 DEF MemberMasks, Transposed
  <2> QED BY <1>1, <2>1, <2>4, <2>5, <2>6 DEF NInv
<1>8. CASE Returned \/ UNCHANGED groupVars
  <2>1. UNCHANGED <<rows, pass, key, groups, result>>
    BY <1>8 DEF Returned, groupVars
  <2>2. LookupsExact' /\ RefusedOnlyIfFull'
    BY <2>1 DEF NInv, LookupsExact, RefusedOnlyIfFull, Distinct, Transposed
  <2>3. GroupedUpTo(groups, MemberMasks, key)'
    BY <1>1, <2>1 DEF MemberMasks, Transposed
  <2> QED BY <1>1, <2>1, <2>2, <2>3 DEF NInv
<1> QED BY <1>3, <1>4, <1>5, <1>6, <1>7, <1>8 DEF GroupNext
-----------------------------------------------------------------------------
\* The strengthened invariant, from which the others follow.
LEMMA Grouped == GroupSpec => []NInv
<1> QED BY InitNInv, NextNInv, PTL DEF GroupSpec

(***************************************************************************)
(* No call of NibbleLookup::set is out of range: every bit is below the    *)
(* number of groups.                                                       *)
(***************************************************************************)
THEOREM TypeCorrect == GroupSpec => []TypeOK
<1>1. NInv => TypeOK
  BY DEF NInv, TypeOK, GroupedUpTo, Typed
<1> QED BY <1>1, Grouped, PTL

(***************************************************************************)
(* group_nibbles_by_mask keeps its documented promise with every key.      *)
(***************************************************************************)
THEOREM SharesExactly == GroupSpec => []PlacedExactly
<1>1. ASSUME NInv PROVE PlacedExactly
  <2>1. MemberMasks \in Masks /\ key \in 0 .. Nibbles /\ GroupedUpTo(groups, MemberMasks, key)
    BY <1>1, MasksTyped DEF NInv
  <2> QED BY <2>1, GroupedShares DEF PlacedExactly
<1> QED BY <1>1, Grouped, PTL

(***************************************************************************)
(* The lookups handed to SmallSet accept exactly the byte set.             *)
(***************************************************************************)
THEOREM SmallSetExact == GroupSpec => []LookupsExact
<1>1. NInv => LookupsExact
  BY DEF NInv
<1> QED BY <1>1, Grouped, PTL

(***************************************************************************)
(* A set is left to the bitset lookup only if its rows and its columns     *)
(* have more than eight different masks each.                              *)
(***************************************************************************)
THEOREM RefusalJustified == GroupSpec => []RefusedOnlyIfFull
<1>1. NInv => RefusedOnlyIfFull
  BY DEF NInv
<1> QED BY <1>1, Grouped, PTL
-----------------------------------------------------------------------------
(***************************************************************************)
(* group_nibbles_by_mask, a fold: g gives the groups after the keys at the *)
(* indices s.                                                              *)
(***************************************************************************)
Keys == [i \in 1 .. Nibbles |-> i - 1]

AreGroups(g, mm) ==
    g = [s \in SUBSET DOMAIN Keys |->
           IF s = {} THEN NoGroups ELSE PlaceNext(mm, g[s \ {Max(s)}], Keys[Max(s)])]

\* one of them: FoldExists gives one for every matrix.
GroupsAfter(mm) == CHOOSE g : AreGroups(g, mm)

\* What the fold stands for.
LEMMA GroupingUnfolds ==
    ASSUME NEW mm
    PROVE  group_nibbles_by_mask(mm) = GroupsAfter(mm)[DOMAIN Keys]
BY DEF group_nibbles_by_mask, FoldLeft, MapThenFoldSet, GroupsAfter, AreGroups, Keys

\* What a turn of the loop returns.
MaybeGroups == Groupings \cup {None}

\* Placing a key leaves groups or None.
LEMMA PlaceNextType ==
    ASSUME NEW mm \in Masks, NEW g \in MaybeGroups, NEW k \in Nibble
    PROVE  PlaceNext(mm, g, k) \in MaybeGroups
<1>1. CASE g = None \/ mm[k] = {} \/ Refuses(g, mm[k])
  BY <1>1 DEF PlaceNext, MaybeGroups
<1>2. CASE g # None /\ mm[k] # {} /\ ~ Refuses(g, mm[k])
  <2>1. PlaceNext(mm, g, k) = Place(g, k, mm[k])
    BY <1>2 DEF PlaceNext
  <2>2. /\ g \in Groupings /\ g.masks \in Seq(SUBSET Nibble) /\ Len(g.masks) \in Nat
        /\ g.key \in [Nibble -> SUBSET Nat] /\ g.member \in [Nibble -> SUBSET Nat]
        /\ mm[k] \in SUBSET Nibble
    BY <1>2 DEF MaybeGroups, Groupings, Masks
  <2>3. CASE GroupsOf(g, mm[k]) # {}
    <3> DEFINE i == CHOOSE j \in GroupsOf(g, mm[k]) : TRUE
    <3>1. i \in 1 .. Len(g.masks)
      BY <2>3 DEF GroupsOf
    <3>2. Join(g, k, mm[k]) = [masks |-> g.masks,
                               key |-> [g.key EXCEPT ![k] = @ \cup {i - 1}],
                               member |-> g.member]
      BY DEF Join
    <3> HIDE DEF i
    <3>3. i - 1 \in Nat
      BY <2>2, <3>1
    <3>4. [g.key EXCEPT ![k] = @ \cup {i - 1}] \in [Nibble -> SUBSET Nat]
      BY <2>2, <3>3
    <3>5. Join(g, k, mm[k]) \in Groupings
      BY <2>2, <3>2, <3>4 DEF Groupings
    <3> QED BY <2>1, <2>3, <3>5 DEF Place, MaybeGroups
  <2>4. CASE GroupsOf(g, mm[k]) = {}
    <3> DEFINE n == Len(g.masks)
               masked == Append(g.masks, mm[k])
               keyed == [g.key EXCEPT ![k] = @ \cup {n}]
               marked == Marked(g.member, mm[k], n)
    <3>1. Open(g, k, mm[k]) = [masks |-> masked, key |-> keyed, member |-> marked]
      BY DEF Open
    <3>2. masked \in Seq(SUBSET Nibble)
      BY <2>2
    <3>3. keyed \in [Nibble -> SUBSET Nat] /\ marked \in [Nibble -> SUBSET Nat]
      BY <2>2 DEF Marked
    <3> HIDE DEF masked, keyed, marked
    <3>4. Open(g, k, mm[k]) \in Groupings
      BY <3>1, <3>2, <3>3 DEF Groupings
    <3> QED BY <2>1, <2>4, <3>4 DEF Place, MaybeGroups
  <2> QED BY <2>3, <2>4
<1> QED BY <1>1, <1>2 DEF MaybeGroups

\* The groups on the way.
LEMMA GroupsAfterFacts ==
    ASSUME NEW mm \in Masks
    PROVE  /\ GroupsAfter(mm)[{}] = NoGroups
           /\ \A s \in SUBSET DOMAIN Keys :
                s # {} => GroupsAfter(mm)[s]
                            = PlaceNext(mm, GroupsAfter(mm)[s \ {Max(s)}], Keys[Max(s)])
<1> DEFINE D == DOMAIN Keys
           op == [i \in D |-> [g \in MaybeGroups |-> PlaceNext(mm, g, Keys[i])]]
           c == [s \in SUBSET D |-> Max(s)]
<1>1. IsFiniteSet(D) /\ D = 1 .. Nibbles /\ \A i \in D : Keys[i] \in Nibble
  BY FS_Interval, NibblesAssumption DEF Keys, Nibble
<1>2. Acts(op, D, MaybeGroups)
  BY <1>1, PlaceNextType DEF Acts
<1>3. \A s \in SUBSET D : s # {} => Max(s) \in s
  <2>1. D \in SUBSET (0 .. Nibbles) /\ Nibbles \in Nat
    BY <1>1, NibblesAssumption
  <2> QED BY <2>1, MaxNat
<1>4. Chooses(c, D)
  BY <1>3 DEF Chooses
<1>5. NoGroups \in MaybeGroups
  <2>1. NoBits \in [Nibble -> SUBSET Nat]
    BY DEF NoBits
  <2> QED BY <2>1 DEF NoGroups, MaybeGroups, Groupings
<1>6. \A i \in D, g \in MaybeGroups : op[i][g] = PlaceNext(mm, g, Keys[i])
  OBVIOUS
<1>7. \A s \in SUBSET D : c[s] = Max(s)
  OBVIOUS
<1> HIDE DEF op, c
<1>8. PICK g : IsFold(g, NoGroups, op, c, D, MaybeGroups)
  BY <1>1, <1>2, <1>4, <1>5, FoldExists
<1>9. ASSUME NEW s \in SUBSET D
      PROVE  g[s] = IF s = {} THEN NoGroups ELSE PlaceNext(mm, g[s \ {Max(s)}], Keys[Max(s)])
  <2>1. CASE s = {}
    BY <1>8, <2>1 DEF IsFold
  <2>2. CASE s # {}
    <3>1. c[s] = Max(s) /\ Max(s) \in D /\ s \ {Max(s)} \in SUBSET D
      BY <1>3, <1>7, <2>2
    <3>2. g[s \ {Max(s)}] \in MaybeGroups
      BY <1>8, <3>1 DEF IsFold
    <3>3. g[s] = op[Max(s)][g[s \ {Max(s)}]]
      BY <1>8, <2>2, <3>1 DEF IsFold
    <3> QED BY <1>6, <2>2, <3>1, <3>2, <3>3
  <2> QED BY <2>1, <2>2
<1>10. AreGroups(g, mm)
  BY <1>8, <1>9 DEF AreGroups, IsFold
<1> DEFINE e == GroupsAfter(mm)
<1>11. e = [s \in SUBSET DOMAIN Keys |->
              IF s = {} THEN NoGroups ELSE PlaceNext(mm, e[s \ {Max(s)}], Keys[Max(s)])]
  BY <1>10 DEF GroupsAfter, AreGroups
<1> HIDE DEF e
<1>12. e[{}] = NoGroups
  BY <1>11
<1>13. ASSUME NEW s \in SUBSET DOMAIN Keys, s # {}
       PROVE  e[s] = PlaceNext(mm, e[s \ {Max(s)}], Keys[Max(s)])
  BY <1>11, <1>13
<1> QED BY <1>12, <1>13 DEF e

\* One more key is placed as it has to be, or there are too many masks.
LEMMA PlaceNextGrouped ==
    ASSUME NEW mm \in Masks, NEW k \in Nibble, NEW g, GroupedUpTo(g, mm, k)
    PROVE  LET h == PlaceNext(mm, g, k) IN
             \/ h = None /\ Cardinality(Distinct(mm)) > MaxGroups
             \/ h # None /\ GroupedUpTo(h, mm, k + 1)
<1> DEFINE h == PlaceNext(mm, g, k)
<1>1. \A f : GroupedUpTo(f, mm, k) \/ GroupedUpTo(f, mm, k + 1) => f # None
  <2> SUFFICES ASSUME NEW f, Typed(f) PROVE f # None
    BY DEF GroupedUpTo
  <2>1. 0 .. MaxGroups - 1 \in SUBSET Nat
    BY MaxGroupsAssumption
  <2>2. f \in Groupings
    BY <2>1 DEF Typed, Groupings
  <2> QED BY <2>2, NoLookupsAssumption
<1>2. g # None
  BY <1>1
<1>3. CASE mm[k] = {}
  <2>1. h = g
    BY <1>3 DEF PlaceNext
  <2> QED BY <1>2, <1>3, <2>1, SkipGrouped
<1>4. CASE mm[k] # {} /\ Refuses(g, mm[k])
  <2>1. h = None
    BY <1>2, <1>4 DEF PlaceNext
  <2> QED BY <1>4, <2>1, RefusedCount
<1>5. CASE mm[k] # {} /\ ~ Refuses(g, mm[k])
  <2>1. h = Place(g, k, mm[k])
    BY <1>2, <1>5 DEF PlaceNext
  <2>2. GroupedUpTo(h, mm, k + 1)
    <3>1. CASE GroupsOf(g, mm[k]) # {}
      BY <2>1, <3>1, JoinGrouped DEF Place
    <3>2. CASE GroupsOf(g, mm[k]) = {}
      BY <1>5, <2>1, <3>2, OpenGrouped DEF Place, Refuses
    <3> QED BY <3>1, <3>2
  <2> QED BY <1>1, <2>2
<1> QED BY <1>3, <1>4, <1>5

\* What group_nibbles_by_mask returns when it has placed all keys.
LEMMA GroupingExact ==
    ASSUME NEW mm \in Masks
    PROVE  \/ /\ group_nibbles_by_mask(mm) = None
              /\ Cardinality(Distinct(mm)) > MaxGroups
           \/ /\ group_nibbles_by_mask(mm) # None
              /\ GroupedUpTo(group_nibbles_by_mask(mm), mm, Nibbles)
<1> DEFINE e == GroupsAfter(mm)
           Right(k) == \/ e[1 .. k] = None /\ Cardinality(Distinct(mm)) > MaxGroups
                       \/ e[1 .. k] # None /\ GroupedUpTo(e[1 .. k], mm, k)
           bad == {k \in 0 .. Nibbles : ~ Right(k)}
<1>1. Nibbles \in Nat /\ Nibbles > 0
  BY NibblesAssumption
<1>2. Right(0)
  <2>1. e[{}] = NoGroups /\ GroupedUpTo(NoGroups, mm, 0)
    BY GroupsAfterFacts, NothingGrouped
  <2>2. 0 .. MaxGroups - 1 \in SUBSET Nat
    BY MaxGroupsAssumption
  <2>3. NoGroups \in Groupings
    BY <2>1, <2>2 DEF GroupedUpTo, Typed, Groupings
  <2>4. 1 .. 0 = {}
    OBVIOUS
  <2> HIDE DEF e
  <2> QED BY <2>1, <2>3, <2>4, NoLookupsAssumption
<1>3. ASSUME NEW k \in Nibble, Right(k) PROVE Right(k + 1)
  <2> DEFINE s == 1 .. k + 1
  <2>1. k \in Nat /\ k + 1 \in 1 .. Nibbles
    BY <1>1 DEF Nibble
  <2>2. DOMAIN Keys = 1 .. Nibbles /\ Keys[k + 1] = k
    BY <2>1 DEF Keys
  <2>3. s \in SUBSET DOMAIN Keys /\ s # {} /\ s \ {k + 1} = 1 .. k /\ s \in SUBSET (0 .. Nibbles)
    <3>1. s \in SUBSET (1 .. Nibbles) /\ s \in SUBSET (0 .. Nibbles)
      BY <1>1, <2>1
    <3>2. s \ {k + 1} = 1 .. k /\ k + 1 \in s
      BY <2>1
    <3> QED BY <2>2, <3>1, <3>2
  <2>4. Max(s) = k + 1
    <3>1. Max(s) \in s /\ \A i \in s : i <= Max(s)
      BY <1>1, <2>3, MaxNat
    <3>2. k + 1 \in s
      BY <2>1
    <3> QED BY <2>1, <3>1, <3>2
  <2>5. e[s] = PlaceNext(mm, e[s \ {Max(s)}], Keys[Max(s)])
    BY <2>3, GroupsAfterFacts
  <2>6. e[s] = PlaceNext(mm, e[1 .. k], k)
    BY <2>2, <2>3, <2>4, <2>5
  <2>7. CASE e[1 .. k] = None
    <3>1. e[s] = None
      BY <2>6, <2>7 DEF PlaceNext
    <3> QED BY <1>3, <2>7, <3>1
  <2>8. CASE e[1 .. k] # None
    <3> HIDE DEF e
    <3>1. GroupedUpTo(e[1 .. k], mm, k)
      BY <1>3, <2>8
    <3> QED BY <2>6, <3>1, PlaceNextGrouped
  <2> QED BY <2>7, <2>8
<1> HIDE DEF Right
<1>4. bad = {}
  <2> SUFFICES ASSUME bad # {} PROVE FALSE
    OBVIOUS
  <2>1. bad \in SUBSET Nat
    BY <1>1
  <2>2. Min(bad) \in bad /\ \A k \in bad : Min(bad) <= k
    BY <2>1, MinNat
  <2>3. PICK n \in 0 .. Nibbles : n \in bad /\ (\A k \in bad : n <= k) /\ ~ Right(n)
    BY <2>2
  <2>4. n # 0
    BY <1>2, <2>3
  <2>5. n - 1 \in Nibble /\ n - 1 \in 0 .. Nibbles /\ ~ (n <= n - 1) /\ (n - 1) + 1 = n
    BY <1>1, <2>3, <2>4 DEF Nibble
  <2>6. Right(n - 1)
    BY <2>3, <2>5
  <2>7. Right((n - 1) + 1)
    BY <1>3, <2>5, <2>6
  <2> QED BY <2>3, <2>5, <2>7
<1>5. Right(Nibbles)
  BY <1>1, <1>4
<1>6. DOMAIN Keys = 1 .. Nibbles
  BY DEF Keys
<1> QED BY <1>5, <1>6, GroupingUnfolds DEF Right
-----------------------------------------------------------------------------
(***************************************************************************)
(* A byte and its nibbles.                                                 *)
(***************************************************************************)
LEMMA NibbleSizes ==
    /\ Nibbles \in Nat \ {0} /\ Nibbles = 2 * ByteBits /\ Nibbles >= 2
    /\ TableBytes \div 2 = Nibbles /\ TableBits = Nibbles * Nibbles
<1>1. Nibbles \in Nat \ {0} /\ Nibbles = 2 * ByteBits /\ ByteBits \in Nat \ {0}
        /\ TableBytes = 2 * Nibbles
  BY SizesAssumption, NibblesAssumption, Sizes
<1>2. Nibbles >= 2
  BY <1>1
<1>3. TableBytes \div 2 = Nibbles
  BY <1>1
<1>4. TableBits = (2 * Nibbles) * ByteBits
  BY <1>1 DEF TableBits
<1>5. (2 * Nibbles) * ByteBits = Nibbles * (2 * ByteBits)
  BY <1>1
<1>6. TableBits = Nibbles * Nibbles
  BY <1>1, <1>4, <1>5
<1> QED BY <1>1, <1>2, <1>3, <1>6

\* Every value has a high and a low nibble,
LEMMA NibbleFacts ==
    ASSUME NEW v \in Value
    PROVE  Hi(v) \in Nibble /\ Lo(v) \in Nibble /\ v = Nibbles * Hi(v) + Lo(v)
<1>1. v \in Nat /\ v < Nibbles * Nibbles
  BY NibbleSizes, Sizes DEF Value
<1>2. v \div Nibbles < Nibbles
  BY <1>1, NibbleSizes, QuotientBound
<1>3. /\ v \div Nibbles \in Nat /\ v % Nibbles \in 0 .. Nibbles - 1
      /\ v = Nibbles * (v \div Nibbles) + (v % Nibbles)
  BY <1>1, NibbleSizes, DivMod
<1> QED BY <1>2, <1>3, NibbleSizes DEF Hi, Lo, Nibble

\* that make it up.
LEMMA NibbleJoin ==
    ASSUME NEW hi \in Nibble, NEW lo \in Nibble
    PROVE  /\ hi * Nibbles + lo \in Value
           /\ Hi(hi * Nibbles + lo) = hi /\ Lo(hi * Nibbles + lo) = lo
<1> DEFINE v == hi * Nibbles + lo
<1>1. hi \in Nat /\ lo \in 0 .. Nibbles - 1 /\ Nibbles \in Nat \ {0} /\ hi < Nibbles
  BY NibbleSizes DEF Nibble
<1>2. v = Nibbles * hi + lo
  BY <1>1
<1>3. v \in Nat /\ v \div Nibbles = hi /\ v % Nibbles = lo
  BY <1>1, <1>2, DivModUnique
<1>4. v < Nibbles * Nibbles
  BY <1>1, <1>3, QuotientBound
<1> HIDE DEF v
<1>5. v \in Value
  BY <1>3, <1>4, NibbleSizes, Sizes DEF Value
<1> QED BY <1>3, <1>5 DEF Hi, Lo, v

\* The matrix of the values M: a row for each high nibble.
RowsOf(M) == [hi \in Nibble |-> {lo \in Nibble : hi * Nibbles + lo \in M}]

\* nibble_rows gives the matrix of what the table holds.
LEMMA RowsExact ==
    ASSUME NEW t, NEW M, Holds(t, M)
    PROVE  /\ [hi \in Nibble |-> nibble_row(t, hi)] = RowsOf(M)
           /\ RowsOf(M) \in Masks
           /\ \A v \in Value : v \in M <=> Lo(v) \in RowsOf(M)[Hi(v)]
<1>1. ASSUME NEW hi \in Nibble PROVE nibble_row(t, hi) = {lo \in Nibble : hi * Nibbles + lo \in M}
  <2>1. hi \in 0 .. TableBytes \div 2 - 1 /\ Nibble = 0 .. 2 * ByteBits - 1
    BY NibbleSizes DEF Nibble
  <2>2. nibble_row(t, hi) \in SUBSET Nibble
    <3>1. 2 * hi \in 0 .. TableBytes - 1 /\ 2 * hi + 1 \in 0 .. TableBytes - 1
      BY SizesAssumption, NibbleSizes DEF Nibble
    <3>2. t[2 * hi] \in SUBSET Byte
      BY <3>1 DEF Holds, Table
    <3>3. Byte \in SUBSET (0 .. 2 * ByteBits - 1)
      BY Sizes DEF Byte
    <3>4. Shl(t[2 * hi + 1], ByteBits, 2 * ByteBits) \in SUBSET (0 .. 2 * ByteBits - 1)
      BY DEF Shl
    <3> QED BY <2>1, <3>2, <3>3, <3>4 DEF nibble_row
  <2>3. ASSUME NEW lo \in Nibble PROVE lo \in nibble_row(t, hi) <=> hi * Nibbles + lo \in M
    <3>1. lo \in nibble_row(t, hi) <=> hi * 2 * ByteBits + lo \in M
      BY <2>1, NibbleRowExact
    <3>2. hi * 2 * ByteBits = hi * Nibbles
      <4>1. hi \in Nat /\ ByteBits \in Nat /\ Nibbles = 2 * ByteBits
        BY NibbleSizes, Sizes DEF Nibble
      <4> QED BY <4>1
    <3> QED BY <3>1, <3>2
  <2> QED BY <2>2, <2>3
<1>2. RowsOf(M) \in Masks
  BY DEF RowsOf, Masks
<1>3. ASSUME NEW v \in Value PROVE v \in M <=> Lo(v) \in RowsOf(M)[Hi(v)]
  <2>1. Hi(v) \in Nibble /\ Lo(v) \in Nibble /\ v = Nibbles * Hi(v) + Lo(v)
    BY NibbleFacts
  <2>2. Hi(v) * Nibbles = Nibbles * Hi(v)
    BY <2>1, NibbleSizes DEF Nibble
  <2> QED BY <2>1, <2>2 DEF RowsOf
<1> QED BY <1>1, <1>2, <1>3 DEF RowsOf

(***************************************************************************)
(* extract_nibble_lookups: the lookups accept the values of the table, and *)
(* there are none only if rows and columns have too many masks.            *)
(***************************************************************************)
LEMMA LookupsHold ==
    ASSUME NEW t, NEW M, Holds(t, M)
    PROVE  LET x == extract_nibble_lookups(t) IN
             \/ /\ x = None
                /\ Cardinality(Distinct(RowsOf(M))) > MaxGroups
                /\ Cardinality(Distinct(Transposed(RowsOf(M)))) > MaxGroups
             \/ /\ x # None
                /\ \A v \in Value : x.lo[Lo(v)] \cap x.hi[Hi(v)] # {} <=> v \in M
<1> DEFINE x == extract_nibble_lookups(t)
           mm == RowsOf(M)
           g == group_nibbles_by_mask(mm)
           h == group_nibbles_by_mask(Transposed(mm))
<1>1. mm \in Masks /\ Transposed(mm) \in Masks
  BY RowsExact DEF Masks, Transposed
<1>2. \/ g = None /\ Cardinality(Distinct(mm)) > MaxGroups
      \/ g # None /\ GroupedUpTo(g, mm, Nibbles)
  BY <1>1, GroupingExact
<1>3. \/ h = None /\ Cardinality(Distinct(Transposed(mm))) > MaxGroups
      \/ h # None /\ GroupedUpTo(h, Transposed(mm), Nibbles)
  BY <1>1, GroupingExact
<1>4. x = CASE g # None -> [lo |-> g.member, hi |-> g.key]
            [] g = None /\ h # None -> [lo |-> h.key, hi |-> h.member]
            [] OTHER -> None
  BY RowsExact DEF extract_nibble_lookups
<1>5. \A v \in Value : /\ Hi(v) \in Nibble /\ Hi(v) < Nibbles
                       /\ Lo(v) \in Nibble /\ Lo(v) < Nibbles
                       /\ v \in M <=> Lo(v) \in mm[Hi(v)]
  <2>1. \A i \in Nibble : i < Nibbles
    BY NibbleSizes DEF Nibble
  <2>2. \A v \in Value : Hi(v) \in Nibble /\ Lo(v) \in Nibble
    BY NibbleFacts
  <2>3. \A v \in Value : v \in M <=> Lo(v) \in RowsOf(M)[Hi(v)]
    BY RowsExact
  <2> QED BY <2>1, <2>2, <2>3
<1> HIDE DEF x, mm, g, h
<1>6. ASSUME NEW f, NEW nn, GroupedUpTo(f, nn, Nibbles)
      PROVE  /\ f.key \in [Nibble -> SUBSET Nat] /\ f.member \in [Nibble -> SUBSET Nat]
  <2>1. 0 .. MaxGroups - 1 \in SUBSET Nat
    BY MaxGroupsAssumption
  <2> QED BY <1>6, <2>1 DEF GroupedUpTo, Typed
<1>7. Nibbles \in 0 .. Nibbles
  BY NibblesAssumption
<1>8. CASE g # None
  <2>1. x = [lo |-> g.member, hi |-> g.key] /\ GroupedUpTo(g, mm, Nibbles)
    BY <1>2, <1>4, <1>8
  <2>2. x # None
    BY <1>6, <2>1, NoLookupsAssumption DEF Lookups
  <2>3. ASSUME NEW v \in Value PROVE x.lo[Lo(v)] \cap x.hi[Hi(v)] # {} <=> v \in M
    <3>1. g.key[Hi(v)] \cap g.member[Lo(v)] # {} <=> Hi(v) < Nibbles /\ Lo(v) \in mm[Hi(v)]
      BY <1>1, <1>5, <1>7, <2>1, GroupedShares
    <3> QED BY <1>5, <2>1, <3>1
  <2> QED BY <2>2, <2>3 DEF x
<1>9. CASE g = None /\ h # None
  <2>1. x = [lo |-> h.key, hi |-> h.member] /\ GroupedUpTo(h, Transposed(mm), Nibbles)
    BY <1>3, <1>4, <1>9
  <2>2. x # None
    BY <1>6, <2>1, NoLookupsAssumption DEF Lookups
  <2>3. ASSUME NEW v \in Value PROVE x.lo[Lo(v)] \cap x.hi[Hi(v)] # {} <=> v \in M
    <3>1. h.key[Lo(v)] \cap h.member[Hi(v)] # {}
            <=> Lo(v) < Nibbles /\ Hi(v) \in Transposed(mm)[Lo(v)]
      BY <1>1, <1>5, <1>7, <2>1, GroupedShares
    <3>2. Hi(v) \in Transposed(mm)[Lo(v)] <=> Lo(v) \in mm[Hi(v)]
      BY <1>5 DEF Transposed
    <3> QED BY <1>5, <2>1, <3>1, <3>2
  <2> QED BY <2>2, <2>3 DEF x
<1>10. CASE g = None /\ h = None
  <2>1. x = None
    BY <1>4, <1>10
  <2> QED BY <1>2, <1>3, <1>10, <2>1 DEF x, mm
<1> QED BY <1>8, <1>9, <1>10
-----------------------------------------------------------------------------
(***************************************************************************)
(* The kernels: which of them matches the values M and no others.          *)
(***************************************************************************)
Recognises(k, M) == \A v \in Value : matches(k, v) <=> v \in M

\* The wrapping difference from the start of a range is within its span only inside.
LEMMA WrappedDifference ==
    ASSUME NEW n \in Nat \ {0}, NEW a \in 0 .. n - 1, NEW b \in 0 .. n - 1, a <= b,
           NEW v \in 0 .. n - 1
    PROVE  (v - a) % n <= b - a <=> a <= v /\ v <= b
<1>1. CASE a <= v
  <2>1. v - a = n * 0 + (v - a) /\ v - a \in 0 .. n - 1
    BY <1>1
  <2> DEFINE x == v - a
  <2> HIDE DEF x
  <2>2. x = n * 0 + x /\ x \in 0 .. n - 1
    BY <2>1 DEF x
  <2>3. x % n = x
    BY <2>2, DivModUnique
  <2> QED BY <1>1, <2>3 DEF x
<1>2. CASE v < a
  <2> DEFINE x == v - a
             q == x \div n
             r == x % n
  <2>1. x \in Int /\ 0 - n < x /\ x < 0
    BY <1>2
  <2>2. q \in Int /\ r \in 0 .. n - 1 /\ x = n * q + r
    <3> HIDE DEF x
    <3> QED BY <2>1, SMT
  <2>3. q = -1
    <3> HIDE DEF x, q, r
    <3>1. CASE q >= 0
      <4>1. n * q >= 0 /\ n * q \in Int
        BY <2>2, <3>1
      <4> QED BY <2>1, <2>2, <4>1
    <3>2. CASE q <= -2
      <4>1. n * q = n * (-2) - n * (-2 - q) /\ -2 - q \in Nat
        BY <2>2, <3>2
      <4>2. n * (-2 - q) \in Nat /\ n * (-2) = 0 - n - n
        BY <4>1
      <4>3. n * q <= 0 - n - n /\ n * q \in Int
        BY <2>2, <4>1, <4>2
      <4> QED BY <2>1, <2>2, <4>3
    <3> QED BY <2>2, <3>1, <3>2
  <2> HIDE DEF q, r
  <2>4. r = v - a + n
    <3>1. n * q = 0 - n
      BY <2>3
    <3> QED BY <2>2, <3>1
  <2>5. ~ (r <= b - a)
    BY <1>2, <2>4
  <2> QED BY <1>2, <2>5 DEF r
<1> QED BY <1>1, <1>2

\* A range has a range kernel.
LEMMA OneRangeExact ==
    ASSUME NEW a \in Value, NEW b \in Value, a <= b
    PROVE  Recognises(OneRange(a, b), a .. b)
<1>1. ASSUME NEW v \in Value PROVE matches(OneRange(a, b), v) <=> v \in a .. b
  <2>1. TableBits \in Nat \ {0} /\ Value = 0 .. TableBits - 1
    BY Sizes DEF Value
  <2>2. (v - a) % TableBits <= b - a <=> a <= v /\ v <= b
    BY <2>1, WrappedDifference
  <2>3. matches(OneRange(a, b), v) <=> (v - a) % TableBits <= b - a
    BY DEF matches, OneRange
  <2>4. v \in a .. b <=> a <= v /\ v <= b
    BY <2>1
  <2> QED BY <2>2, <2>3, <2>4
<1> QED BY <1>1 DEF Recognises

\* as_contiguous_range finds one,
LEMMA LargeRangeExact ==
    ASSUME NEW t, NEW M, Holds(t, M), as_contiguous_range(t) # None
    PROVE  Recognises(OneRange(as_contiguous_range(t)[1], as_contiguous_range(t)[2]), M)
<1>1. M # {} /\ M = Min(M) .. Max(M) /\ as_contiguous_range(t) = <<Min(M), Max(M)>>
  BY RangeExact
<1> DEFINE a == Min(M)
           b == Max(M)
<1>2. M \in SUBSET (0 .. TableBits) /\ M \in SUBSET Nat /\ TableBits \in Nat /\ M \in SUBSET Value
  BY Sizes DEF Holds, Value
<1>3. a \in Value /\ b \in Value /\ a <= b
  <2>1. a \in M
    BY <1>1, <1>2, MinNat
  <2>2. b \in M /\ \A x \in M : x <= b
    BY <1>1, <1>2, MaxNat
  <2> QED BY <1>2, <2>1, <2>2
<1> HIDE DEF a, b
<1>4. Recognises(OneRange(a, b), a .. b)
  BY <1>3, OneRangeExact
<1>5. M = a .. b /\ as_contiguous_range(t)[1] = a /\ as_contiguous_range(t)[2] = b
  BY <1>1 DEF a, b
<1> QED BY <1>4, <1>5

\* and so do the ends and the length of an ordered list.
LEMMA SmallRangeExact ==
    ASSUME NEW y, NEW M, M \in SUBSET Value, Lists(y, M), Len(y) > 0, FillsRange(y)
    PROVE  Recognises(OneRange(y[1], y[Len(y)]), M)
<1> DEFINE n == Len(y)
           a == y[1]
           b == y[n]
<1>1. n \in Nat /\ n > 0 /\ DOMAIN y = 1 .. n /\ 1 \in DOMAIN y /\ n \in DOMAIN y
  BY DEF Lists
<1>2. Value \in SUBSET Nat /\ \A i \in DOMAIN y : y[i] \in Value
  <2>1. y \in Seq(Value)
    BY DEF Lists
  <2>2. Value \in SUBSET Nat
    BY Sizes DEF Value
  <2> QED BY <2>1, <2>2
<1>3. \A i \in DOMAIN y : a <= y[i] /\ y[i] <= b
  <2>1. \A i, j \in DOMAIN y : i < j => y[i] < y[j]
    BY DEF Lists
  <2>2. ASSUME NEW i \in DOMAIN y PROVE a <= y[i] /\ y[i] <= b
    <3>1. y[i] \in Nat /\ a \in Nat /\ b \in Nat
      BY <1>1, <1>2
    <3>2. i = 1 \/ 1 < i
      BY <1>1
    <3>3. i = n \/ i < n
      BY <1>1
    <3>4. a <= y[i]
      BY <1>1, <2>1, <3>1, <3>2
    <3>5. y[i] <= b
      BY <1>1, <2>1, <3>1, <3>3
    <3> QED BY <3>4, <3>5
  <2> QED BY <2>2
<1>4. a \in Value /\ b \in Value /\ a \in Nat /\ b \in Nat /\ a <= b /\ b - a + 1 = n
  BY <1>1, <1>2, <1>3 DEF FillsRange
<1>5. M \in SUBSET (a .. b)
  <2>1. ASSUME NEW v \in M PROVE v \in a .. b
    <3>1. PICK i \in DOMAIN y : v = y[i]
      BY DEF Lists, Range
    <3>2. v \in Nat
      BY <1>2, <3>1
    <3> QED BY <1>3, <1>4, <3>1, <3>2
  <2> QED BY <2>1
<1>6. Cardinality(M) = n
  BY ListsLength
<1>7. IsFiniteSet(a .. b) /\ Cardinality(a .. b) = n
  <2> HIDE DEF a, b, n
  <2>1. IsFiniteSet(a .. b) /\ Cardinality(a .. b) = b - a + 1
    BY <1>4, FS_Interval
  <2> QED BY <1>4, <2>1
<1>8. M = a .. b
  <2> HIDE DEF a, b, n
  <2> QED BY <1>5, <1>6, <1>7, FS_Subset
<1> HIDE DEF a, b
<1>9. Recognises(OneRange(a, b), a .. b)
  BY <1>4, OneRangeExact
<1> QED BY <1>8, <1>9 DEF a, b

\* A list has a needle kernel.
LEMMA AnyOfExact ==
    ASSUME NEW y, NEW M, Lists(y, M)
    PROVE  Recognises(AnyOf(y), M)
BY DEF Recognises, AnyOf, matches, Lists

\* An empty one matches nothing.
LEMMA NeverExact ==
    ASSUME NEW y, NEW M, Lists(y, M), Len(y) = 0
    PROVE  Recognises(Never, M)
<1>1. M = {}
  <2>1. DOMAIN y = {}
    BY DEF Lists
  <2> QED BY <2>1 DEF Lists, Range
<1> QED BY <1>1 DEF Recognises, Never, matches

\* All values but one have that one's kernel,
LEMMA AllButOne ==
    ASSUME NEW v \in Value
    PROVE  Recognises(NotByte(v), Value \ {v})
BY DEF Recognises, NotByte, matches

\* which excluded_byte finds.
LEMMA NotByteExact ==
    ASSUME NEW t, NEW M, Holds(t, M), excluded_byte(t) # None
    PROVE  Recognises(NotByte(excluded_byte(t)), M)
<1> DEFINE e == excluded_byte(t)
<1>1. Cardinality(M) = TableBits - 1 /\ e \in Value /\ e \notin M /\ M \in SUBSET (Value \ {e})
  BY ExcludedExact DEF Holds
<1> HIDE DEF e
<1>2. TableBits \in Nat \ {0}
  BY Sizes
<1>3. IsFiniteSet(Value) /\ Cardinality(Value) = TableBits
  <2>1. 0 \in Nat /\ 0 <= TableBits
    BY <1>2
  <2>2. IsFiniteSet(0 .. TableBits - 1) /\ Cardinality(0 .. TableBits - 1) = TableBits - 0
    BY <1>2, <2>1, IntervalCardinality
  <2> QED BY <1>2, <2>2 DEF Value
<1>4. IsFiniteSet(Value \ {e}) /\ Cardinality(Value \ {e}) = TableBits - 1
  BY <1>1, <1>2, <1>3, FS_RemoveElement
<1>5. M = Value \ {e}
  BY <1>1, <1>4, FS_Subset
<1> QED BY <1>1, <1>5, AllButOne DEF e

\* The nibble lookups match what they were extracted from,
LEMMA SmallSetKernelExact ==
    ASSUME NEW t, NEW M, Holds(t, M), extract_nibble_lookups(t) # None
    PROVE  Recognises(SmallSet(extract_nibble_lookups(t)), M)
<1> DEFINE x == extract_nibble_lookups(t)
<1>1. \A v \in Value : x.lo[Lo(v)] \cap x.hi[Hi(v)] # {} <=> v \in M
  BY LookupsHold
<1> HIDE DEF x
<1>2. Recognises(SmallSet(x), M)
  BY <1>1 DEF Recognises, SmallSet, matches
<1> QED BY <1>2 DEF x

\* and the table itself what it holds.
LEMMA BitsetLookupExact ==
    ASSUME NEW t, NEW M, Holds(t, M)
    PROVE  Recognises(BitsetLookup(t), M)
BY DEF Recognises, BitsetLookup, matches, Holds

\* A byte is told by its two nibbles.
LEMMA NibblesTell ==
    ASSUME NEW u \in Value, NEW v \in Value, NEW f,
           variable_nibble(f, u) = variable_nibble(f, v), fixed_nibble(f, u) = fixed_nibble(f, v)
    PROVE  u = v
<1>1. Hi(u) = Hi(v) /\ Lo(u) = Lo(v)
  BY DEF variable_nibble, fixed_nibble
<1>2. u = Nibbles * Hi(u) + Lo(u) /\ v = Nibbles * Hi(v) + Lo(v)
  BY NibbleFacts
<1> QED BY <1>1, <1>2

\* What an unused slot has does not belong there.
LEMMA EmptySlotElsewhere ==
    ASSUME NEW f \in {"Low", "High"}, NEW i \in Nibble
    PROVE  variable_nibble(f, EmptySlot(f, i)) # i
<1>1. Nibbles \in Nat \ {0} /\ Nibbles >= 2
  BY NibbleSizes
<1>2. CASE i # 0
  <2>1. EmptySlot(f, i) = 0
    BY <1>2 DEF EmptySlot
  <2>2. 0 = Nibbles * 0 + 0 /\ 0 \in 0 .. Nibbles - 1
    BY <1>1
  <2>3. 0 \div Nibbles = 0 /\ 0 % Nibbles = 0
    BY <1>1, <2>2, DivModUnique
  <2> QED BY <1>2, <2>1, <2>3 DEF variable_nibble, Hi, Lo
<1>3. CASE i = 0 /\ f = "Low"
  <2>1. EmptySlot(f, i) = Nibbles
    BY <1>3 DEF EmptySlot
  <2>2. Nibbles = Nibbles * 1 + 0 /\ 0 \in 0 .. Nibbles - 1
    BY <1>1
  <2>3. Nibbles \div Nibbles = 1
    BY <1>1, <2>2, DivModUnique
  <2> QED BY <1>3, <2>1, <2>3 DEF variable_nibble, Hi
<1>4. CASE i = 0 /\ f = "High"
  <2>1. EmptySlot(f, i) = 1
    BY <1>4 DEF EmptySlot
  <2>2. 1 = Nibbles * 0 + 1 /\ 1 \in 0 .. Nibbles - 1
    BY <1>1
  <2>3. 1 % Nibbles = 1
    BY <1>1, <2>2, DivModUnique
  <2> QED BY <1>4, <2>1, <2>3 DEF variable_nibble, Lo
<1> QED BY <1>2, <1>3, <1>4

\* A fixed nibble table matches the list it was made from.
LEMMA FixedNibbleExact ==
    ASSUME NEW y, NEW M, M \in SUBSET Value, Lists(y, M), Len(y) > 0,
           extract_fixed_nibble_table(y) # None
    PROVE  Recognises(FixedNibbleSet(extract_fixed_nibble_table(y)), M)
<1>1. PICK f \in {"Low", "High"} :
         IsFixed(f, y) /\ extract_fixed_nibble_table(y) = FixedNibbleTable(f, y)
  BY DEF extract_fixed_nibble_table
<1> DEFINE x == FixedNibbleTable(f, y)
           Slot(i) == {u \in M : variable_nibble(f, u) = i}
<1>2. x.fixed_nibble = f
      /\ \A i \in Nibble :
           x.table[i] = IF Slot(i) = {} THEN EmptySlot(f, i) ELSE CHOOSE u \in Slot(i) : TRUE
  BY DEF FixedNibbleTable, Lists
<1>3. \A u, v \in M : fixed_nibble(f, u) = fixed_nibble(f, v)
  <2>1. \A u \in M : fixed_nibble(f, u) = fixed_nibble(f, y[1])
    <3> SUFFICES ASSUME NEW u \in M PROVE fixed_nibble(f, u) = fixed_nibble(f, y[1])
      OBVIOUS
    <3>1. PICK i \in DOMAIN y : u = y[i]
      BY DEF Lists, Range
    <3> QED BY <1>1, <3>1 DEF IsFixed
  <2> QED BY <2>1
<1> HIDE DEF x
<1>4. ASSUME NEW v \in Value PROVE x.table[variable_nibble(f, v)] = v <=> v \in M
  <2> DEFINE i == variable_nibble(f, v)
  <2>1. i \in Nibble
    BY NibbleFacts DEF variable_nibble
  <2>2. CASE Slot(i) = {}
    <3>1. x.table[i] = EmptySlot(f, i)
      BY <1>2, <2>1, <2>2
    <3>2. EmptySlot(f, i) # v
      BY <2>1, EmptySlotElsewhere
    <3>3. v \notin M
      BY <2>2
    <3> QED BY <3>1, <3>2, <3>3
  <2>3. CASE Slot(i) # {}
    <3> DEFINE u == CHOOSE w \in Slot(i) : TRUE
    <3>1. x.table[i] = u /\ u \in Slot(i)
      BY <1>2, <2>1, <2>3
    <3>2. u \in M /\ u \in Value /\ variable_nibble(f, u) = i
      BY <3>1
    <3> HIDE DEF u
    <3>3. v \in M => u = v
      BY <1>3, <3>2, NibblesTell
    <3> QED BY <3>1, <3>2, <3>3
  <2> QED BY <2>2, <2>3
<1>5. Recognises(FixedNibbleSet(x), M)
  <2>1. ASSUME NEW v \in Value
        PROVE  matches(FixedNibbleSet(x), v) <=> x.table[variable_nibble(f, v)] = v
    BY <1>2 DEF matches, FixedNibbleSet
  <2> QED BY <1>4, <2>1 DEF Recognises
<1> QED BY <1>1, <1>5 DEF x
-----------------------------------------------------------------------------
(***************************************************************************)
(* The choice: what a plan for the set t and the engine e is.              *)
(***************************************************************************)
\* The rows and the columns of the values M have too many masks.
TooManyMasks(M) ==
    /\ Cardinality(Distinct(RowsOf(M))) > MaxGroups
    /\ Cardinality(Distinct(Transposed(RowsOf(M)))) > MaxGroups

\* The lookup in the set's own table, which only an engine that can shuffle runs.
IsLookup(p, t, e) ==
    /\ p.kernel.kind = "BitsetLookup"
    /\ p.kernel.set \in Table
    /\ \/ e # "vector_shuffle" /\ p.engine = "swar"
       \/ e = "vector_shuffle" /\ p.engine = e /\ TooManyMasks(Members(t))

\* A kernel for the values of t, with the engine that runs it.
PlanFor(p, t, e) ==
    /\ p # Unplanned
    /\ Recognises(p.kernel, Members(t))
    /\ \/ p.kernel.kind \in {"NotByte", "OneRange", "AnyOf"} /\ p.engine = e
       \/ p.kernel.kind = "Never" /\ p.engine = "swar"
       \/ p.kernel.kind \in {"FixedNibble", "SmallSet"} /\ p.engine = e /\ e = "vector_shuffle"
       \/ IsLookup(p, t, e)

\* The members are listed as write_members does it, and the plan is one for the set.
ChoiceInv ==
    /\ set \in Table
    /\ listing = Unlisted \/ listing = [listed |-> TRUE, list |-> write_members(set, MembersMax)]
    /\ plan = Unplanned \/ PlanFor(plan, set, engine)

\* The list that a choice is made on.
LEMMA ListingFacts ==
    ASSUME ChoiceInv
    PROVE  /\ Holds(set, Members(set)) /\ Members(set) \in SUBSET Value
           /\ NeedlesMax \in Nat /\ NeedlesMax > 0
           /\ listing.listed /\ ~ Many => Lists(listing.list, Members(set)) /\ Count \in Nat
<1>1. Holds(set, Members(set))
  BY HoldsMembers DEF ChoiceInv
<1>2. MembersMax \in Nat /\ NeedlesMax \in Nat /\ NeedlesMax > 0
  BY SizesAssumption
<1>3. ASSUME listing.listed, ~ Many PROVE Lists(listing.list, Members(set))
  <2>1. listing.list = write_members(set, MembersMax)
    BY <1>3 DEF ChoiceInv, Unlisted
  <2>2. write_members(set, MembersMax) # None
    BY <1>3, <2>1 DEF Many
  <2> QED BY <1>1, <1>2, <2>1, <2>2, WriteMembersExact
<1>4. listing.listed /\ ~ Many => Count \in Nat
  BY <1>3 DEF Lists, Count
<1>5. Members(set) \in SUBSET Value
  BY <1>1 DEF Holds
<1> QED BY <1>1, <1>2, <1>3, <1>4, <1>5

\* A kernel without lookups makes a plan for the engine asked for.
LEMMA PlainPlan ==
    ASSUME NEW k, k.kind \in {"NotByte", "OneRange", "AnyOf"},
           Recognises(k, Members(set)), Planned(engine, k)
    PROVE  PlanFor(plan', set, engine)
<1>1. plan' = [engine |-> engine, kernel |-> k]
  BY DEF Planned
<1>2. plan' # Unplanned
  BY <1>1 DEF Unplanned
<1> QED BY <1>1, <1>2 DEF PlanFor

\* Every choice is of a plan for the set.
LEMMA ChosenPlan ==
    ASSUME ChoiceInv,
           OfNotByte \/ FromNotByte \/ OfLargeRange \/ OfNever \/ OfNeedles \/ OfSmallRange
             \/ OfFixedNibbleSet \/ OfSmallSet \/ OfBitsetLookup
    PROVE  PlanFor(plan', set, engine)
<1> DEFINE M == Members(set)
<1>1. /\ Holds(set, M) /\ M \in SUBSET Value
      /\ NeedlesMax \in Nat /\ NeedlesMax > 0
      /\ listing.listed /\ ~ Many => Lists(listing.list, M) /\ Count \in Nat
  BY ListingFacts
<1> HIDE DEF M
<1>2. CASE OfNotByte
  <2> DEFINE k == NotByte(excluded_byte(set))
  <2>1. k.kind = "NotByte" /\ Planned(engine, k)
    BY <1>2 DEF NotByte, OfNotByte
  <2>2. Recognises(k, M)
    BY <1>1, <1>2, NotByteExact DEF OfNotByte
  <2> HIDE DEF k
  <2> QED BY <2>1, <2>2, PlainPlan DEF M
<1>3. CASE FromNotByte
  <2>1. PICK v \in Value : set = invert(add(new, v)) /\ Planned(engine, NotByte(v))
    BY <1>3 DEF FromNotByte
  <2>2. Holds(add(new, v), {} \cup {v})
    BY HoldsNew, HoldsAdd
  <2>3. {} \cup {v} = {v}
    OBVIOUS
  <2>4. Holds(set, Value \ {v})
    BY <2>1, <2>2, <2>3, HoldsInvert
  <2>5. M = Value \ {v}
    BY <2>4, HoldsMembers DEF M
  <2> DEFINE k == NotByte(v)
  <2>6. k.kind = "NotByte" /\ Recognises(k, M) /\ Planned(engine, k)
    BY <2>1, <2>5, AllButOne DEF NotByte
  <2> HIDE DEF k
  <2> QED BY <2>6, PlainPlan DEF M
<1>4. CASE OfLargeRange
  <2> DEFINE r == as_contiguous_range(set)
             k == OneRange(r[1], r[2])
  <2>1. k.kind = "OneRange" /\ Planned(engine, k)
    BY <1>4 DEF OneRange, OfLargeRange
  <2>2. Recognises(k, M)
    BY <1>1, <1>4, LargeRangeExact DEF OfLargeRange
  <2> HIDE DEF k
  <2> QED BY <2>1, <2>2, PlainPlan DEF M
<1>5. CASE OfNever
  <2>1. Lists(listing.list, M) /\ Len(listing.list) = 0
    BY <1>1, <1>5 DEF OfNever, Choosing, Count
  <2>2. Recognises(Never, M)
    BY <2>1, NeverExact
  <2>3. plan' = [engine |-> "swar", kernel |-> Never]
    BY <1>5 DEF OfNever, Planned
  <2>4. /\ plan' # Unplanned /\ plan'.kernel = Never
        /\ plan'.kernel.kind = "Never" /\ plan'.engine = "swar"
    BY <2>3 DEF Unplanned, Never
  <2> QED BY <2>2, <2>4 DEF PlanFor, M
<1>6. CASE OfNeedles
  <2> DEFINE k == AnyOf(listing.list)
  <2>1. Lists(listing.list, M)
    BY <1>1, <1>6 DEF OfNeedles, Choosing
  <2>2. k.kind = "AnyOf" /\ Planned(engine, k)
    BY <1>6 DEF AnyOf, OfNeedles
  <2>3. Recognises(k, M)
    BY <2>1, AnyOfExact
  <2> HIDE DEF k
  <2> QED BY <2>2, <2>3, PlainPlan DEF M
<1>7. CASE OfSmallRange
  <2> DEFINE y == listing.list
             k == OneRange(y[1], y[Len(y)])
  <2>1. Lists(y, M) /\ Len(y) > 0 /\ FillsRange(y)
    BY <1>1, <1>7 DEF OfSmallRange, Choosing, Count
  <2>2. k.kind = "OneRange" /\ Planned(engine, k)
    BY <1>7 DEF OneRange, OfSmallRange, Count
  <2> HIDE DEF y
  <2>3. Recognises(k, M)
    BY <1>1, <2>1, SmallRangeExact
  <2> HIDE DEF k
  <2> QED BY <2>2, <2>3, PlainPlan DEF M
<1>8. CASE OfFixedNibbleSet
  <2> DEFINE y == listing.list
             x == extract_fixed_nibble_table(y)
  <2>1. ~ Many /\ Lists(y, M) /\ Len(y) > 0 /\ x # None /\ Fixed = x
    <3>1. ~ Many
      BY <1>8 DEF OfFixedNibbleSet, Fixed
    <3>2. Lists(y, M) /\ Count > NeedlesMax /\ Count \in Nat
      BY <1>1, <1>8, <3>1 DEF OfFixedNibbleSet, Choosing, Scattered
    <3>3. Fixed = x
      BY <3>1 DEF Fixed
    <3> QED BY <1>1, <1>8, <3>1, <3>2, <3>3 DEF OfFixedNibbleSet, Count
  <2> HIDE DEF y
  <2>2. Recognises(FixedNibbleSet(x), M)
    BY <1>1, <2>1, FixedNibbleExact
  <2>3. plan' = [engine |-> engine, kernel |-> FixedNibbleSet(x)] /\ engine = "vector_shuffle"
    BY <1>8, <2>1 DEF OfFixedNibbleSet, Planned, Shuffles
  <2> HIDE DEF x
  <2>4. /\ plan' # Unplanned /\ plan'.kernel = FixedNibbleSet(x)
        /\ plan'.kernel.kind = "FixedNibble" /\ plan'.engine = engine
    BY <2>3 DEF Unplanned, FixedNibbleSet
  <2> QED BY <2>2, <2>3, <2>4 DEF PlanFor, M
<1>9. CASE OfSmallSet
  <2> DEFINE x == extract_nibble_lookups(set)
  <2>1. Recognises(SmallSet(x), M)
    BY <1>1, <1>9, SmallSetKernelExact DEF OfSmallSet
  <2>2. plan' = [engine |-> engine, kernel |-> SmallSet(x)] /\ engine = "vector_shuffle"
    BY <1>9 DEF OfSmallSet, Planned, Shuffles
  <2> HIDE DEF x
  <2>3. /\ plan' # Unplanned /\ plan'.kernel = SmallSet(x)
        /\ plan'.kernel.kind = "SmallSet" /\ plan'.engine = engine
    BY <2>2 DEF Unplanned, SmallSet
  <2> QED BY <2>1, <2>2, <2>3 DEF PlanFor, M
<1>10. CASE OfBitsetLookup
  <2>1. Recognises(BitsetLookup(set), M)
    BY <1>1, BitsetLookupExact
  <2>2. plan' = [engine |-> LookupEngine, kernel |-> BitsetLookup(set)]
    BY <1>10 DEF OfBitsetLookup, Planned
  <2>3. /\ plan' # Unplanned /\ plan'.kernel = BitsetLookup(set) /\ plan'.engine = LookupEngine
        /\ plan'.kernel.kind = "BitsetLookup" /\ plan'.kernel.set = set
    BY <2>2 DEF Unplanned, BitsetLookup
  <2>4. \/ engine # "vector_shuffle" /\ LookupEngine = "swar"
        \/ engine = "vector_shuffle" /\ LookupEngine = engine /\ extract_nibble_lookups(set) = None
    BY <1>10 DEF OfBitsetLookup, LookupEngine, Shuffles
  <2>5. extract_nibble_lookups(set) = None => TooManyMasks(M)
    BY <1>1, LookupsHold DEF TooManyMasks
  <2>6. IsLookup(plan', set, engine)
    BY <2>3, <2>4, <2>5 DEF IsLookup, ChoiceInv, M
  <2> QED BY <2>1, <2>3, <2>6 DEF PlanFor, M
<1> QED BY <1>2, <1>3, <1>4, <1>5, <1>6, <1>7, <1>8, <1>9, <1>10

\* The invariant holds at first.
LEMMA InitChoiceInv == ChoiceInit => ChoiceInv
BY SetsAssumption DEF ChoiceInit, ChoiceInv

\* Every step keeps it,
LEMMA NextChoiceInv == ChoiceInv /\ [ChoiceNext]_choiceVars => ChoiceInv'
<1> SUFFICES ASSUME ChoiceInv, [ChoiceNext]_choiceVars PROVE ChoiceInv'
  OBVIOUS
<1>1. CASE ListMembers
  BY <1>1 DEF ListMembers, ChoiceInv
<1>2. CASE OfNotByte \/ FromNotByte \/ OfLargeRange \/ OfNever \/ OfNeedles \/ OfSmallRange
             \/ OfFixedNibbleSet \/ OfSmallSet \/ OfBitsetLookup
  <2>1. UNCHANGED <<set, engine, listing>>
    BY <1>2 DEF OfNotByte, FromNotByte, OfLargeRange, OfNever, OfNeedles, OfSmallRange,
                OfFixedNibbleSet, OfSmallSet, OfBitsetLookup, Planned
  <2>2. PlanFor(plan', set, engine)
    BY <1>2, ChosenPlan
  <2>3. PlanFor(plan', set', engine')
    BY <2>1, <2>2
  <2> QED BY <2>1, <2>3 DEF ChoiceInv
<1>3. CASE Built \/ UNCHANGED choiceVars
  BY <1>3 DEF Built, choiceVars, ChoiceInv
<1> QED BY <1>1, <1>2, <1>3 DEF ChoiceNext

\* so that it always holds.
LEMMA ChoiceInvHolds == ChoiceSpec => []ChoiceInv
BY InitChoiceInv, NextChoiceInv, PTL DEF ChoiceSpec

\* It says that the kernel is exact
LEMMA ChoiceInvExact == ChoiceInv => KernelExact
<1> SUFFICES ASSUME ChoiceInv, plan # Unplanned
             PROVE  {v \in Value : matches(plan.kernel, v)} = Members(set)
  BY DEF KernelExact
<1>1. Recognises(plan.kernel, Members(set)) /\ Members(set) \in SUBSET Value
  BY ListingFacts DEF ChoiceInv, PlanFor
<1> QED BY <1>1 DEF Recognises

\* and the lookup the last resort.
LEMMA ChoiceInvLast == ChoiceInv => LastResort
<1> SUFFICES ASSUME ChoiceInv, plan # Unplanned, plan.kernel.kind = "BitsetLookup",
                    engine = "vector_shuffle"
             PROVE  TooManyMasks(Members(set))
  BY DEF LastResort, TooManyMasks, RowsOf
<1>1. PlanFor(plan, set, engine)
  BY DEF ChoiceInv
<1> QED BY <1>1 DEF PlanFor, IsLookup

\* A searcher matches the set it was built for, of any size and at any limits: what
\* from_byte_set_with_backend chooses of special cases, tables and the fallback.
THEOREM KernelsExact == ChoiceSpec => []KernelExact
BY ChoiceInvHolds, ChoiceInvExact, PTL

\* A searcher that can shuffle looks up in the table of the set only if neither the
\* rows nor the columns of the set fit the groups, whatever their number.
THEOREM LookupIsLast == ChoiceSpec => []LastResort
BY ChoiceInvHolds, ChoiceInvLast, PTL
-----------------------------------------------------------------------------
(***************************************************************************)
(* Vectors: v has n blocks.                                                *)
(***************************************************************************)
IsVector(v, n) == n \in {1, 2, 4} /\ v \in [0 .. n * BlockBytes - 1 -> Value]

\* A block has a positive even number of lanes, and a table is two of them.
LEMMA BlockSizes ==
    /\ BlockBytes \in Nat \ {0} /\ BlockBytes = 2 * ByteBits /\ ByteBits \in Nat \ {0}
    /\ BlockBytes = Nibbles
    /\ TableBytes = 2 * BlockBytes
BY NibbleSizes, SizesAssumption, Sizes DEF BlockBytes

\* The width of a function on the first w lanes.
LEMMA WidthOf ==
    ASSUME NEW w \in Nat, NEW f, DOMAIN f = 0 .. w - 1
    PROVE  Width(f) = w
<1>1. IsFiniteSet(0 .. w - 1) /\ Cardinality(0 .. w - 1) = w - 0
  BY IntervalCardinality
<1> QED BY <1>1 DEF Width

\* The lanes of a vector.
LEMMA VectorFacts ==
    ASSUME NEW v, NEW n, IsVector(v, n)
    PROVE  /\ n \in Nat \ {0}
           /\ n * BlockBytes \in Nat
           /\ Width(v) = n * BlockBytes
           /\ DOMAIN v = 0 .. Width(v) - 1
           /\ \A i \in DOMAIN v : v[i] \in Value
<1>1. n \in Nat \ {0} /\ n * BlockBytes \in Nat
  BY BlockSizes DEF IsVector
<1>2. DOMAIN v = 0 .. n * BlockBytes - 1 /\ \A i \in DOMAIN v : v[i] \in Value
  BY DEF IsVector
<1>3. Width(v) = n * BlockBytes
  <2> DEFINE w == n * BlockBytes
  <2> HIDE DEF w
  <2>1. w \in Nat /\ DOMAIN v = 0 .. w - 1
    BY <1>1, <1>2 DEF w
  <2> QED BY <2>1, WidthOf DEF w
<1> QED BY <1>1, <1>2, <1>3

\* A splat has its byte in every lane.
LEMMA SplatAt ==
    ASSUME NEW v, NEW n, IsVector(v, n), NEW x, NEW i \in DOMAIN v
    PROVE  block_splat(array(x), Width(v))[i] = x
<1>1. i \in 0 .. Width(v) - 1 /\ Width(v) \in Nat
  BY VectorFacts
<1>2. i \in Nat
  BY <1>1
<1>3. i % BlockBytes \in 0 .. BlockBytes - 1
  BY <1>2, BlockSizes, DivMod
<1> QED BY <1>1, <1>3 DEF block_splat, array

\* Every block of a splat is the whole table: a lookup within a block is one in it.
LEMMA SplatLookup ==
    ASSUME NEW v, NEW n, IsVector(v, n), NEW t, NEW ind, DOMAIN ind = DOMAIN v,
           NEW i \in DOMAIN v, ind[i] \in Nibble
    PROVE  swizzle_dyn_within_blocks(block_splat(t, Width(v)), ind)[i] = t[ind[i]]
<1> DEFINE d == BlockBytes
           q == i \div BlockBytes
           r == ind[i]
           k == q * d + r
<1>1. d \in Nat \ {0} /\ n \in Nat /\ i \in Nat /\ i < n * d /\ Width(v) = n * d /\ n * d \in Nat
  BY VectorFacts, BlockSizes
<1>2. q \in Nat /\ q < n
  <2>1. q < n
    BY <1>1, QuotientBound
  <2> QED BY <1>1, <2>1, DivMod
<1>3. r \in 0 .. d - 1
  BY BlockSizes DEF Nibble
<1> HIDE DEF d, q, r, k
<1>4. k = d * q + r
  BY <1>1, <1>2, <1>3 DEF k
<1>5. k \in Nat /\ k \div d = q /\ k % d = r
  BY <1>1, <1>2, <1>3, <1>4, DivModUnique
<1>6. k < n * d
  BY <1>1, <1>2, <1>5, QuotientBound
<1>7. block_splat(t, Width(v))[k] = t[r]
  <2>1. k \in 0 .. Width(v) - 1
    BY <1>1, <1>5, <1>6
  <2> QED BY <1>5, <2>1 DEF block_splat, d
<1>8. swizzle_dyn_within_blocks(block_splat(t, Width(v)), ind)[i] = block_splat(t, Width(v))[k]
  BY DEF swizzle_dyn_within_blocks, k, q, d, r
<1> QED BY <1>7, <1>8 DEF r

-----------------------------------------------------------------------------
(***************************************************************************)
(* The kernels mark the lanes that they match.                             *)
(***************************************************************************)
Marks(m, k, v) == DOMAIN m = DOMAIN v /\ \A i \in DOMAIN v : m[i] <=> matches(k, v[i])

\* The splatted needles,
LEMMA AnyOfMarks ==
    ASSUME NEW v, NEW n, IsVector(v, n), NEW k, k.kind = "AnyOf"
    PROVE  Marks(AnyOfMask(k, v), k, v)
<1>1. DOMAIN AnyOfMask(k, v) = DOMAIN v
  BY DEF AnyOfMask
<1>2. ASSUME NEW i \in DOMAIN v PROVE AnyOfMask(k, v)[i] <=> matches(k, v[i])
  <2>1. AnyOfMask(k, v)[i]
          <=> \E j \in DOMAIN k.needles : v[i] = block_splat(array(k.needles[j]), Width(v))[i]
    BY DEF AnyOfMask, simd_eq
  <2>2. \A j \in DOMAIN k.needles :
          block_splat(array(k.needles[j]), Width(v))[i] = k.needles[j]
    BY SplatAt
  <2>3. matches(k, v[i]) <=> v[i] \in Range(k.needles)
    BY DEF matches
  <2>4. v[i] \in Range(k.needles) <=> \E j \in DOMAIN k.needles : v[i] = k.needles[j]
    BY DEF Range
  <2> QED BY <2>1, <2>2, <2>3, <2>4
<1> QED BY <1>1, <1>2 DEF Marks

\* the splatted byte,
LEMMA NotByteMarks ==
    ASSUME NEW v, NEW n, IsVector(v, n), NEW k, k.kind = "NotByte"
    PROVE  Marks(NotByteMask(k, v), k, v)
<1>1. DOMAIN NotByteMask(k, v) = DOMAIN v
  BY DEF NotByteMask
<1>2. ASSUME NEW i \in DOMAIN v PROVE NotByteMask(k, v)[i] <=> matches(k, v[i])
  <2>1. block_splat(array(k.byte), Width(v))[i] = k.byte
    BY SplatAt
  <2>2. NotByteMask(k, v)[i] <=> v[i] # k.byte
    BY <2>1 DEF NotByteMask, simd_eq
  <2>3. matches(k, v[i]) <=> v[i] # k.byte
    BY DEF matches
  <2> QED BY <2>2, <2>3
<1> QED BY <1>1, <1>2 DEF Marks

\* the splatted start and span,
LEMMA OneRangeMarks ==
    ASSUME NEW v, NEW n, IsVector(v, n), NEW k, k.kind = "OneRange"
    PROVE  Marks(OneRangeMask(k, v), k, v)
<1>1. DOMAIN OneRangeMask(k, v) = DOMAIN v
  BY DEF OneRangeMask
<1>2. ASSUME NEW i \in DOMAIN v PROVE OneRangeMask(k, v)[i] <=> matches(k, v[i])
  <2>1. /\ block_splat(array(k.start), Width(v))[i] = k.start
        /\ block_splat(array(k.span), Width(v))[i] = k.span
    BY SplatAt
  <2>2. OneRangeMask(k, v)[i] <=> (v[i] - k.start) % TableBits <= k.span
    BY <2>1 DEF OneRangeMask
  <2>3. matches(k, v[i]) <=> (v[i] - k.start) % TableBits <= k.span
    BY DEF matches
  <2> QED BY <2>2, <2>3
<1> QED BY <1>1, <1>2 DEF Marks

\* the nibble lookups,
LEMMA SmallSetMarks ==
    ASSUME NEW v, NEW n, IsVector(v, n), NEW k, k.kind = "SmallSet"
    PROVE  Marks(SmallSetMask(k, v), k, v)
<1> DEFINE lo == swizzle_dyn_within_blocks(block_splat(k.lookups.lo, Width(v)), LoNibbles(v))
           hi == swizzle_dyn_within_blocks(block_splat(k.lookups.hi, Width(v)), HiNibbles(v))
<1>1. DOMAIN lo = DOMAIN v /\ SmallSetMask(k, v) = SharesBit(lo, hi)
  BY DEF SmallSetMask, swizzle_dyn_within_blocks, LoNibbles
<1>2. ASSUME NEW i \in DOMAIN v
      PROVE  lo[i] = k.lookups.lo[Lo(v[i])] /\ hi[i] = k.lookups.hi[Hi(v[i])]
  <2>1. Lo(v[i]) \in Nibble /\ Hi(v[i]) \in Nibble
    BY VectorFacts, NibbleFacts
  <2>2. /\ DOMAIN LoNibbles(v) = DOMAIN v /\ LoNibbles(v)[i] = Lo(v[i])
        /\ DOMAIN HiNibbles(v) = DOMAIN v /\ HiNibbles(v)[i] = Hi(v[i])
    BY DEF LoNibbles, HiNibbles
  <2>3. lo[i] = k.lookups.lo[LoNibbles(v)[i]]
    BY <2>1, <2>2, SplatLookup
  <2>4. hi[i] = k.lookups.hi[HiNibbles(v)[i]]
    BY <2>1, <2>2, SplatLookup
  <2> QED BY <2>2, <2>3, <2>4
<1> HIDE DEF lo, hi
<1>3. DOMAIN SmallSetMask(k, v) = DOMAIN v
  BY <1>1 DEF SharesBit
<1>4. ASSUME NEW i \in DOMAIN v PROVE SmallSetMask(k, v)[i] <=> matches(k, v[i])
  <2>1. SmallSetMask(k, v)[i] <=> lo[i] \cap hi[i] # {}
    BY <1>1 DEF SharesBit
  <2>2. matches(k, v[i]) <=> k.lookups.lo[Lo(v[i])] \cap k.lookups.hi[Hi(v[i])] # {}
    BY DEF matches
  <2> QED BY <1>2, <2>1, <2>2
<1> QED BY <1>3, <1>4 DEF Marks

\* the fixed nibble table,
LEMMA FixedNibbleMarks ==
    ASSUME NEW v, NEW n, IsVector(v, n), NEW k, k.kind = "FixedNibble"
    PROVE  Marks(FixedNibbleMask(k, v), k, v)
<1> DEFINE f == k.fixed.fixed_nibble
           ind == IF f = "Low" THEN HiNibbles(v) ELSE LoNibbles(v)
           found == swizzle_dyn_within_blocks(block_splat(k.fixed.table, Width(v)), ind)
<1>1. FixedNibbleMask(k, v) = simd_eq(v, found)
  BY DEF FixedNibbleMask
<1>2. DOMAIN ind = DOMAIN v /\ \A i \in DOMAIN v : ind[i] = variable_nibble(f, v[i])
  BY DEF LoNibbles, HiNibbles, variable_nibble
<1> HIDE DEF ind
<1>3. ASSUME NEW i \in DOMAIN v PROVE found[i] = k.fixed.table[variable_nibble(f, v[i])]
  <2>1. ind[i] \in Nibble
    BY <1>2, VectorFacts, NibbleFacts DEF variable_nibble
  <2>2. found[i] = k.fixed.table[ind[i]]
    BY <1>2, <2>1, SplatLookup
  <2> QED BY <1>2, <2>2
<1> HIDE DEF found
<1>4. DOMAIN FixedNibbleMask(k, v) = DOMAIN v
  BY <1>1 DEF simd_eq
<1>5. ASSUME NEW i \in DOMAIN v PROVE FixedNibbleMask(k, v)[i] <=> matches(k, v[i])
  <2>1. FixedNibbleMask(k, v)[i] <=> v[i] = found[i]
    BY <1>1 DEF simd_eq
  <2>2. matches(k, v[i]) <=> k.fixed.table[variable_nibble(f, v[i])] = v[i]
    BY DEF matches
  <2> QED BY <1>3, <2>1, <2>2
<1> QED BY <1>4, <1>5 DEF Marks

\* and the lookup in the table, by whatever swizzles the width and the level take.
LEMMA MembershipBytes ==
    ASSUME NEW v, NEW n, IsVector(v, n), NEW level, NEW t \in Table,
           NEW ind, ind \in [DOMAIN v -> 0 .. TableBytes - 1]
    PROVE  LET found == lookup_membership_bytes(level, t, ind) IN
             /\ DOMAIN found = DOMAIN v
             /\ \A i \in DOMAIN v : found[i] = t[ind[i]]
<1> DEFINE d == BlockBytes
           w == Width(v)
           found == lookup_membership_bytes(level, t, ind)
           Right(f) == f = [i \in DOMAIN v |-> t[ind[i]]]
<1>1. d \in Nat \ {0} /\ TableBytes = 2 * d /\ n \in {1, 2, 4} /\ w = n * d /\ w \in Nat
      /\ DOMAIN v = 0 .. w - 1
  BY VectorFacts, BlockSizes DEF IsVector
<1> HIDE DEF d, w
<1>2. DOMAIN ind = 0 .. w - 1 /\ Width(ind) = w
  <2>1. DOMAIN ind = 0 .. w - 1
    BY <1>1
  <2> QED BY <1>1, <2>1, WidthOf
<1>3. Width(t) = 2 * d
  <2>1. 2 * d \in Nat /\ DOMAIN t = 0 .. 2 * d - 1
    BY <1>1 DEF Table
  <2> QED BY <2>1, WidthOf
<1>4. CASE n = 1
  <2>1. found = BlockLookup(level, t, ind) /\ w = d
    BY <1>1, <1>2, <1>4 DEF lookup_membership_bytes, d
  <2>2. CASE level = "Neon"
    BY <1>1, <1>2, <2>1, <2>2 DEF BlockLookup, swizzle_dyn
  <2>3. CASE level # "Neon"
    <3> DEFINE both == combine(ind, ind)
               wide == swizzle_dyn(t, both)
    <3>1. DOMAIN both = 0 .. d + d - 1 /\ \A i \in 0 .. d - 1 : both[i] = ind[i]
      BY <1>1, <1>2, <2>1 DEF combine
    <3> HIDE DEF both
    <3>2. DOMAIN wide = 0 .. 2 * d - 1 /\ \A i \in 0 .. d - 1 : wide[i] = t[ind[i]]
      BY <1>1, <3>1 DEF swizzle_dyn
    <3>3. found = Lower(wide)
      BY <2>1, <2>3 DEF BlockLookup, both
    <3> HIDE DEF wide
    <3>4. Width(wide) = 2 * d
      <4>1. 2 * d \in Nat
        BY <1>1
      <4> QED BY <3>2, <4>1, WidthOf
    <3>5. (2 * d) \div 2 = d
      BY <1>1
    <3>6. found = [i \in 0 .. d - 1 |-> wide[i]]
      BY <3>3, <3>4, <3>5 DEF Lower
    <3> QED BY <1>1, <2>1, <3>2, <3>6
  <2> QED BY <2>2, <2>3
<1>5. CASE n = 2
  <2>1. found = swizzle_dyn(t, ind)
    BY <1>1, <1>2, <1>5 DEF lookup_membership_bytes, d
  <2> QED BY <1>1, <1>2, <2>1 DEF swizzle_dyn
<1>6. CASE n = 4
  <2>1. found = ChunkLookup(level, t, ind) /\ w = 4 * d
    BY <1>1, <1>2, <1>6 DEF lookup_membership_bytes, d
  <2>2. CASE NativeWidth(level) >= 4 * BlockBytes
    <3>1. found = swizzle_dyn(combine(t, t), ind)
      BY <2>1, <2>2 DEF ChunkLookup
    <3>2. \A j \in 0 .. 2 * d - 1 : combine(t, t)[j] = t[j]
      BY <1>1, <1>3 DEF combine
    <3>3. \A i \in DOMAIN v : ind[i] \in 0 .. 2 * d - 1
      BY <1>1
    <3> QED BY <1>1, <1>2, <3>1, <3>2, <3>3 DEF swizzle_dyn
  <2>3. CASE ~ (NativeWidth(level) >= 4 * BlockBytes)
    <3> DEFINE a == swizzle_dyn(t, Lower(ind))
               b == swizzle_dyn(t, Upper(ind))
    <3>1. found = combine(a, b)
      BY <2>1, <2>3 DEF ChunkLookup, HalvesLookup
    <3>2. Width(ind) \div 2 = 2 * d
      BY <1>1, <1>2, <2>1
    <3>3. DOMAIN a = 0 .. 2 * d - 1 /\ \A i \in 0 .. 2 * d - 1 : a[i] = t[ind[i]]
      BY <3>2 DEF Lower, swizzle_dyn
    <3>4. DOMAIN b = 0 .. 2 * d - 1 /\ \A i \in 0 .. 2 * d - 1 : b[i] = t[ind[i + 2 * d]]
      BY <3>2 DEF Upper, swizzle_dyn
    <3> HIDE DEF a, b
    <3>5. Width(a) = 2 * d /\ Width(b) = 2 * d
      <4>1. 2 * d \in Nat
        BY <1>1
      <4> QED BY <3>3, <3>4, <4>1, WidthOf
    <3>6. found = [i \in 0 .. w - 1 |-> IF i < 2 * d THEN a[i] ELSE b[i - 2 * d]]
      BY <1>1, <2>1, <3>1, <3>5 DEF combine
    <3>7. ASSUME NEW i \in 0 .. w - 1 PROVE found[i] = t[ind[i]]
      <4>1. CASE i < 2 * d
        BY <1>1, <2>1, <3>3, <3>6, <4>1
      <4>2. CASE ~ (i < 2 * d)
        <5>1. i - 2 * d \in 0 .. 2 * d - 1 /\ (i - 2 * d) + 2 * d = i
          BY <1>1, <2>1, <4>2
        <5>2. b[i - 2 * d] = t[ind[(i - 2 * d) + 2 * d]]
          BY <3>4, <5>1
        <5> QED BY <3>6, <4>2, <5>1, <5>2
      <4> QED BY <4>1, <4>2
    <3> QED BY <1>1, <3>6, <3>7
  <2> QED BY <2>2, <2>3
<1> QED BY <1>1, <1>4, <1>5, <1>6

\* With it the bit of a byte's low part is tested in the byte of its high part.
LEMMA BitsetLookupMarks ==
    ASSUME NEW v, NEW n, IsVector(v, n), NEW level, NEW k, k.kind = "BitsetLookup", k.set \in Table
    PROVE  Marks(BitsetLookupMask(level, k, v), k, v)
<1> DEFINE bitOf == [i \in 0 .. BlockBytes - 1 |-> {i % ByteBits}]
           low == [i \in DOMAIN v |-> v[i] % ByteBits]
           bit == swizzle_dyn_within_blocks(block_splat(bitOf, Width(v)), low)
           ind == [i \in DOMAIN v |-> v[i] \div ByteBits]
           found == lookup_membership_bytes(level, k.set, ind)
<1>1. BitsetLookupMask(level, k, v) = SharesBit(bit, found)
  BY DEF BitsetLookupMask
<1>2. \A i \in DOMAIN v : v[i] % ByteBits \in Byte /\ v[i] \div ByteBits \in 0 .. TableBytes - 1
  BY VectorFacts, ValueFacts
<1>3. ASSUME NEW i \in DOMAIN v PROVE bit[i] = {v[i] % ByteBits}
  <2> DEFINE r == v[i] % ByteBits
  <2>1. r \in 0 .. ByteBits - 1
    BY <1>2 DEF Byte
  <2>2. low[i] = r
    OBVIOUS
  <2> HIDE DEF r
  <2>3. r = ByteBits * 0 + r /\ ByteBits \in Nat \ {0} /\ 0 \in Nat
    BY <2>1, BlockSizes
  <2>4. r % ByteBits = r
    BY <2>1, <2>3, DivModUnique
  <2>5. r \in 0 .. BlockBytes - 1 /\ r \in Nibble
    BY <2>1, BlockSizes DEF Nibble
  <2>6. bitOf[r] = {r}
    BY <2>4, <2>5
  <2>7. DOMAIN low = DOMAIN v
    OBVIOUS
  <2> HIDE DEF bitOf, low
  <2>8. bit[i] = bitOf[low[i]]
    BY <2>2, <2>5, <2>7, SplatLookup
  <2> QED BY <2>2, <2>6, <2>8 DEF r
<1>4. DOMAIN bit = DOMAIN v
  BY DEF swizzle_dyn_within_blocks
<1> HIDE DEF bitOf, low, bit
<1>5. DOMAIN found = DOMAIN v /\ \A i \in DOMAIN v : found[i] = k.set[v[i] \div ByteBits]
  <2>1. ind \in [DOMAIN v -> 0 .. TableBytes - 1]
    BY <1>2
  <2>2. \A i \in DOMAIN v : ind[i] = v[i] \div ByteBits
    OBVIOUS
  <2> HIDE DEF ind
  <2>3. DOMAIN found = DOMAIN v /\ \A i \in DOMAIN v : found[i] = k.set[ind[i]]
    BY <2>1, MembershipBytes
  <2> QED BY <2>2, <2>3
<1> HIDE DEF found
<1>6. DOMAIN BitsetLookupMask(level, k, v) = DOMAIN v
  BY <1>1, <1>4 DEF SharesBit
<1>7. ASSUME NEW i \in DOMAIN v PROVE BitsetLookupMask(level, k, v)[i] <=> matches(k, v[i])
  <2>1. BitsetLookupMask(level, k, v)[i] <=> bit[i] \cap found[i] # {}
    BY <1>1, <1>4 DEF SharesBit
  <2>2. matches(k, v[i]) <=> v[i] % ByteBits \in k.set[v[i] \div ByteBits]
    BY DEF matches, contains
  <2> QED BY <1>3, <1>5, <2>1, <2>2
<1> QED BY <1>6, <1>7 DEF Marks

\* Every kernel marks the lanes that it matches.
LEMMA MaskMarks ==
    ASSUME NEW v, NEW n, IsVector(v, n), NEW level, NEW k,
           \/ k.kind \in {"NotByte", "OneRange", "AnyOf", "FixedNibble", "SmallSet"}
           \/ k.kind = "BitsetLookup" /\ k.set \in Table
    PROVE  Marks(Mask(level, k, v), k, v)
<1>1. CASE k.kind = "AnyOf"
  BY <1>1, AnyOfMarks DEF Mask
<1>2. CASE k.kind = "NotByte"
  BY <1>2, NotByteMarks DEF Mask
<1>3. CASE k.kind = "OneRange"
  BY <1>3, OneRangeMarks DEF Mask
<1>4. CASE k.kind = "SmallSet"
  BY <1>4, SmallSetMarks DEF Mask
<1>5. CASE k.kind = "FixedNibble"
  BY <1>5, FixedNibbleMarks DEF Mask
<1>6. CASE k.kind = "BitsetLookup" /\ k.set \in Table
  BY <1>6, BitsetLookupMarks DEF Mask
<1> QED BY <1>1, <1>2, <1>3, <1>4, <1>5, <1>6
-----------------------------------------------------------------------------
(***************************************************************************)
(* The first and last lane of a mask m with n blocks, whose marked lanes   *)
(* are H.                                                                  *)
(***************************************************************************)
IsMask(m, n, H) ==
    /\ n \in {1, 2, 4}
    /\ DOMAIN m = 0 .. n * BlockBytes - 1
    /\ \A i \in DOMAIN m : m[i] <=> i \in H
    /\ H \in SUBSET (0 .. n * BlockBytes - 1)

\* The lanes of H in block b.
InBlock(H, b) == {i \in 0 .. BlockBytes - 1 : b * BlockBytes + i \in H}

\* On aarch64, each marked lane of a block has four bits in the word,
LEMMA NibblesExact ==
    ASSUME NEW m, NEW n, NEW H, IsMask(m, n, H), NEW b \in 0 .. n - 1
    PROVE  LET x == aarch64_match_nibbles(BlockOf(m, b)) IN
             /\ x \in SUBSET (0 .. 4 * BlockBytes - 1)
             /\ \A q \in 0 .. 4 * BlockBytes - 1 : q \in x <=> q \div 4 \in InBlock(H, b)
<1> DEFINE d == BlockBytes
           h == BlockBytes \div 2
           y == BlockOf(m, b)
           x == aarch64_match_nibbles(y)
           Part(j) == {8 * j + c - 4 : c \in LanePair(y, j) \cap 4 .. 11}
<1>1. d \in Nat \ {0} /\ h \in Nat /\ d = 2 * h /\ n \in Nat
  <2>1. d = 2 * ByteBits /\ ByteBits \in Nat \ {0}
    BY BlockSizes
  <2> QED BY <2>1 DEF IsMask
<1>2. \A i \in 0 .. d - 1 : y[i] <=> i \in InBlock(H, b)
  <2> SUFFICES ASSUME NEW i \in 0 .. d - 1 PROVE y[i] <=> i \in InBlock(H, b)
    OBVIOUS
  <2>1. b * d + i \in DOMAIN m
    <3>1. b * d + i \in Nat /\ (b * d + i) < n * d /\ n * d \in Nat
      <4> HIDE DEF d
      <4>1. d * b + d <= d * n
        BY <1>1, Less
      <4>2. b * d = d * b /\ n * d = d * n /\ d * b \in Nat /\ d * n \in Nat
        BY <1>1
      <4> QED BY <1>1, <4>1, <4>2
    <3> QED BY <3>1 DEF IsMask
  <2>2. m[b * d + i] <=> b * d + i \in H
    BY <2>1 DEF IsMask
  <2>3. y[i] = m[b * d + i]
    BY DEF BlockOf
  <2> QED BY <2>2, <2>3 DEF InBlock
<1>3. x = UNION {Part(j) : j \in 0 .. h - 1}
  BY DEF aarch64_match_nibbles
<1> HIDE DEF d, h, y, x
<1>4. ASSUME NEW j \in 0 .. h - 1, NEW q \in Int
      PROVE  q \in Part(j) <=> \/ y[2 * j] /\ 8 * j <= q /\ q <= 8 * j + 3
                               \/ y[2 * j + 1] /\ 8 * j + 4 <= q /\ q <= 8 * j + 7
  <2>1. q \in Part(j) <=> \E c \in LanePair(y, j) \cap 4 .. 11 : q = 8 * j + c - 4
    OBVIOUS
  <2>2. \A c : c \in LanePair(y, j) <=> \/ y[2 * j] /\ c \in 0 .. 7
                                        \/ y[2 * j + 1] /\ c \in 8 .. 15
    BY DEF LanePair
  <2>3. ASSUME q \in Part(j)
        PROVE  \/ y[2 * j] /\ 8 * j <= q /\ q <= 8 * j + 3
               \/ y[2 * j + 1] /\ 8 * j + 4 <= q /\ q <= 8 * j + 7
    <3>1. PICK c \in 4 .. 11 : c \in LanePair(y, j) /\ q = 8 * j + c - 4
      BY <2>1, <2>3
    <3>2. CASE y[2 * j] /\ c \in 0 .. 7
      BY <3>1, <3>2
    <3>3. CASE y[2 * j + 1] /\ c \in 8 .. 15
      BY <3>1, <3>3
    <3> QED BY <2>2, <3>1, <3>2, <3>3
  <2>4. ASSUME y[2 * j], 8 * j <= q, q <= 8 * j + 3 PROVE q \in Part(j)
    <3>1. q - 8 * j + 4 \in 4 .. 11 /\ q - 8 * j + 4 \in 0 .. 7 /\ q = 8 * j + (q - 8 * j + 4) - 4
      BY <2>4
    <3>2. q - 8 * j + 4 \in LanePair(y, j) \cap 4 .. 11
      BY <2>2, <2>4, <3>1
    <3> QED BY <2>1, <3>1, <3>2
  <2>5. ASSUME y[2 * j + 1], 8 * j + 4 <= q, q <= 8 * j + 7 PROVE q \in Part(j)
    <3>1. q - 8 * j + 4 \in 4 .. 11 /\ q - 8 * j + 4 \in 8 .. 15 /\ q = 8 * j + (q - 8 * j + 4) - 4
      BY <2>5
    <3>2. q - 8 * j + 4 \in LanePair(y, j) \cap 4 .. 11
      BY <2>2, <2>5, <3>1
    <3> QED BY <2>1, <3>1, <3>2
  <2> QED BY <2>3, <2>4, <2>5
<1>5. \A j \in 0 .. h - 1 : Part(j) \in SUBSET (0 .. 4 * d - 1)
  <2> SUFFICES ASSUME NEW j \in 0 .. h - 1, NEW q \in Part(j) PROVE q \in 0 .. 4 * d - 1
    OBVIOUS
  <2>1. q \in Int
    BY DEF LanePair
  <2>2. 8 * j <= q /\ q <= 8 * j + 7
    BY <1>4, <2>1
  <2> QED BY <1>1, <2>1, <2>2
<1>6. x \in SUBSET (0 .. 4 * d - 1)
  BY <1>3, <1>5
<1>7. ASSUME NEW q \in 0 .. 4 * d - 1 PROVE q \in x <=> q \div 4 \in InBlock(H, b)
  <2> DEFINE l == q \div 4
  <2>1. l \in 0 .. d - 1 /\ 4 * l <= q /\ q <= 4 * l + 3
    BY <1>1
  <2> HIDE DEF l
  <2>2. y[l] <=> l \in InBlock(H, b)
    BY <1>2, <2>1
  <2>3. PICK j \in 0 .. h - 1 : l = 2 * j \/ l = 2 * j + 1
    <3>1. l \div 2 \in 0 .. h - 1 /\ (l = 2 * (l \div 2) \/ l = 2 * (l \div 2) + 1)
      BY <1>1, <2>1
    <3> QED BY <3>1
  <2>4. ASSUME NEW i \in 0 .. h - 1
        PROVE  q \in Part(i) <=> i = j /\ y[l]
    <3>1. q \in Part(i) <=> \/ y[2 * i] /\ 8 * i <= q /\ q <= 8 * i + 3
                            \/ y[2 * i + 1] /\ 8 * i + 4 <= q /\ q <= 8 * i + 7
      BY <1>4
    <3> HIDE DEF Part
    <3>2. CASE l = 2 * j
      <4>1. 8 * i <= q /\ q <= 8 * i + 3 <=> i = j
        BY <2>1, <3>2
      <4>2. ~ (8 * i + 4 <= q /\ q <= 8 * i + 7)
        BY <2>1, <3>2
      <4> QED BY <3>1, <3>2, <4>1, <4>2
    <3>3. CASE l = 2 * j + 1
      <4>1. 8 * i + 4 <= q /\ q <= 8 * i + 7 <=> i = j
        BY <2>1, <3>3
      <4>2. ~ (8 * i <= q /\ q <= 8 * i + 3)
        BY <2>1, <3>3
      <4> QED BY <3>1, <3>3, <4>1, <4>2
    <3> QED BY <2>3, <3>2, <3>3
  <2>5. q \in x <=> \E i \in 0 .. h - 1 : q \in Part(i)
    BY <1>3
  <2> HIDE DEF Part
  <2>6. q \in x <=> y[l]
    BY <2>4, <2>5
  <2> QED BY <2>2, <2>6 DEF l
<1> QED BY <1>6, <1>7 DEF x, y, d

\* so that a quarter of its lowest or highest bit is its first or last marked lane.
LEMMA NibblesEnds ==
    ASSUME NEW m, NEW n, NEW H, IsMask(m, n, H), NEW b \in 0 .. n - 1
    PROVE  LET x == aarch64_match_nibbles(BlockOf(m, b))
               L == InBlock(H, b) IN
             /\ x = {} <=> L = {}
             /\ L # {} => /\ LaneOfBit(Min(x)) = Min(L)
                          /\ LaneOfBit(Max(x)) = Max(L)
<1> DEFINE x == aarch64_match_nibbles(BlockOf(m, b))
           L == InBlock(H, b)
           d == BlockBytes
<1>1. x \in SUBSET (0 .. 4 * d - 1) /\ \A q \in 0 .. 4 * d - 1 : q \in x <=> q \div 4 \in L
  BY NibblesExact
<1>2. L \in SUBSET (0 .. d - 1) /\ d \in Nat \ {0}
  BY BlockSizes DEF InBlock
<1> HIDE DEF x, L, d
<1>3. \A q \in x : q \in Nat /\ q \div 4 \in L
  BY <1>1, <1>2
<1>4. ASSUME NEW i \in L
      PROVE  /\ 4 * i \in x /\ 4 * i + 3 \in x
             /\ i \in Nat
  <2>1. i \in 0 .. d - 1
    BY <1>2
  <2>2. 4 * i \in 0 .. 4 * d - 1 /\ (4 * i) \div 4 = i
    BY <1>2, <2>1
  <2>3. 4 * i + 3 \in 0 .. 4 * d - 1 /\ (4 * i + 3) \div 4 = i
    BY <1>2, <2>1
  <2> QED BY <1>1, <2>1, <2>2, <2>3
<1>5. x = {} <=> L = {}
  BY <1>3, <1>4
<1>6. ASSUME L # {} PROVE Min(x) \div 4 = Min(L) /\ Max(x) \div 4 = Max(L)
  <2>1. x # {} /\ x \in SUBSET Nat /\ L \in SUBSET Nat /\ x \in SUBSET (0 .. 4 * d)
          /\ L \in SUBSET (0 .. d) /\ 4 * d \in Nat /\ d \in Nat
    <3>1. x # {} /\ d \in Nat /\ 4 * d \in Nat
      <4>1. x # {}
        BY <1>5, <1>6
      <4> QED BY <1>2, <4>1
    <3>2. 0 .. 4 * d - 1 \in SUBSET (0 .. 4 * d) /\ 0 .. d - 1 \in SUBSET (0 .. d)
            /\ 0 .. 4 * d - 1 \in SUBSET Nat /\ 0 .. d - 1 \in SUBSET Nat
      BY <1>2
    <3> QED BY <1>1, <1>2, <3>1, <3>2
  <2>2. Min(x) \in x /\ \A q \in x : Min(x) <= q
    BY <2>1, MinNat
  <2>3. Max(x) \in x /\ \A q \in x : q <= Max(x)
    BY <2>1, MaxNat
  <2>4. Min(L) \in L /\ \A i \in L : Min(L) <= i
    BY <1>6, <2>1, MinNat
  <2>5. Max(L) \in L /\ \A i \in L : i <= Max(L)
    BY <1>6, <2>1, MaxNat
  <2>6. Min(x) \div 4 = Min(L)
    <3>1. Min(x) \in Nat /\ Min(L) \in Nat /\ Min(x) <= 4 * Min(L)
      BY <1>4, <2>1, <2>2, <2>4
    <3>2. Min(L) <= Min(x) \div 4
      BY <1>3, <2>2, <2>4
    <3> QED BY <3>1, <3>2
  <2>7. Max(x) \div 4 = Max(L)
    <3>1. Max(x) \in Nat /\ Max(L) \in Nat /\ 4 * Max(L) + 3 <= Max(x)
      BY <1>4, <2>1, <2>3, <2>5
    <3>2. Max(x) \div 4 <= Max(L)
      BY <1>3, <2>3, <2>5
    <3> QED BY <3>1, <3>2
  <2> QED BY <2>6, <2>7
<1> QED BY <1>5, <1>6 DEF x, L, LaneOfBit

\* A marked lane has its place in a marked block.
LEMMA HitPlace ==
    ASSUME NEW n \in Nat, NEW H, H \in SUBSET (0 .. n * BlockBytes - 1), NEW h \in H,
           NEW marked, marked = {b \in 0 .. n - 1 : InBlock(H, b) # {}}
    PROVE  /\ h \in Nat /\ h \div BlockBytes \in marked
           /\ h % BlockBytes \in InBlock(H, h \div BlockBytes)
<1> DEFINE d == BlockBytes
           q == h \div d
           r == h % d
<1>1. d \in Nat \ {0}
  BY BlockSizes
<1>2. h \in Nat /\ h < n * d
  <2>1. h \in 0 .. n * d - 1 /\ n * d \in Nat
    BY <1>1
  <2> QED BY <2>1
<1>3. q \in Nat /\ r \in 0 .. d - 1 /\ h = d * q + r
  BY <1>1, <1>2, DivMod
<1>4. q < n
  BY <1>1, <1>2, QuotientBound
<1> HIDE DEF q, r, d
<1>5. q * d + r = h
  BY <1>1, <1>3
<1>6. r \in InBlock(H, q)
  BY <1>3, <1>5 DEF InBlock, d
<1> QED BY <1>2, <1>3, <1>4, <1>6 DEF q, r, d

\* The first marked block and its first marked lane are the first marked lane of all,
LEMMA BlockMin ==
    ASSUME NEW n \in Nat, NEW H, H \in SUBSET (0 .. n * BlockBytes - 1), H # {},
           NEW marked, marked = {b \in 0 .. n - 1 : InBlock(H, b) # {}}
    PROVE  /\ marked # {} /\ Min(marked) \in marked
           /\ Min(marked) * BlockBytes + Min(InBlock(H, Min(marked))) = Min(H)
<1> DEFINE d == BlockBytes
<1>1. d \in Nat \ {0}
  BY BlockSizes
<1>2. ASSUME NEW h \in H
      PROVE  /\ h \in Nat /\ h \div d \in marked /\ h % d \in InBlock(H, h \div d)
  BY HitPlace
<1> HIDE DEF d
<1>3. marked # {} /\ marked \in SUBSET Nat
  <2>1. 0 .. n - 1 \in SUBSET Nat
    OBVIOUS
  <2> QED BY <1>2, <2>1
<1> DEFINE b == Min(marked)
<1>4. b \in marked /\ b \in Nat /\ \A c \in marked : b <= c
  BY <1>3, MinNat
<1>5. InBlock(H, b) # {} /\ InBlock(H, b) \in SUBSET Nat /\ InBlock(H, b) \in SUBSET (0 .. d - 1)
  BY <1>1, <1>4 DEF InBlock, d
<1> DEFINE i == Min(InBlock(H, b))
           k == b * d + i
<1>6. i \in InBlock(H, b) /\ \A j \in InBlock(H, b) : i <= j
  BY <1>5, MinNat
<1> HIDE DEF b, i, k
<1>7. k \in H /\ i \in 0 .. d - 1
  BY <1>5, <1>6 DEF InBlock, d, k
<1>8. k \in Nat /\ k \div d = b /\ k % d = i
  <2>1. k = d * b + i
    BY <1>1, <1>4, <1>7 DEF k
  <2> QED BY <1>1, <1>4, <1>7, <2>1, DivModUnique
<1>9. ASSUME NEW h \in H PROVE k <= h
  <2>1. h \in Nat /\ h \div d \in marked /\ h % d \in InBlock(H, h \div d)
    BY <1>2
  <2>2. h \div d \in Nat /\ b <= h \div d
    BY <1>3, <1>4, <2>1
  <2>3. k <= h <=> k \div d < h \div d \/ (k \div d = h \div d /\ k % d <= h % d)
    BY <1>1, <1>8, <2>1, DivOrder
  <2>4. b = h \div d => i <= h % d
    BY <1>6, <2>1
  <2>5. b < h \div d \/ b = h \div d
    BY <1>4, <2>2
  <2> QED BY <1>8, <2>3, <2>4, <2>5
<1>10. k = Min(H)
  <2>1. H \in SUBSET Nat
    BY <1>2
  <2>2. Min(H) \in H /\ \A h \in H : Min(H) <= h
    BY <2>1, MinNat
  <2>3. k <= Min(H) /\ Min(H) <= k /\ Min(H) \in Nat
    BY <1>7, <1>9, <2>1, <2>2
  <2> QED BY <1>8, <2>3
<1> QED BY <1>3, <1>4, <1>10 DEF k, i, b, d

\* and the last marked block and its last marked lane the last.
LEMMA BlockMax ==
    ASSUME NEW n \in Nat, NEW H, H \in SUBSET (0 .. n * BlockBytes - 1), H # {},
           NEW marked, marked = {b \in 0 .. n - 1 : InBlock(H, b) # {}}
    PROVE  /\ marked # {} /\ Max(marked) \in marked
           /\ Max(marked) * BlockBytes + Max(InBlock(H, Max(marked))) = Max(H)
<1> DEFINE d == BlockBytes
<1>1. d \in Nat \ {0}
  BY BlockSizes
<1>2. ASSUME NEW h \in H
      PROVE  /\ h \in Nat /\ h \div d \in marked /\ h % d \in InBlock(H, h \div d)
  BY HitPlace
<1> HIDE DEF d
<1>3. marked # {} /\ marked \in SUBSET (0 .. n) /\ marked \in SUBSET Nat
  <2>1. 0 .. n - 1 \in SUBSET (0 .. n) /\ 0 .. n - 1 \in SUBSET Nat
    OBVIOUS
  <2> QED BY <1>2, <2>1
<1> DEFINE b == Max(marked)
<1>4. b \in marked /\ b \in Nat /\ \A c \in marked : c <= b
  <2>1. b \in marked /\ \A c \in marked : c <= b
    BY <1>3, MaxNat
  <2> QED BY <1>3, <2>1
<1>5. /\ InBlock(H, b) # {}
      /\ InBlock(H, b) \in SUBSET (0 .. d - 1) /\ InBlock(H, b) \in SUBSET (0 .. d)
  BY <1>1, <1>4 DEF InBlock, d
<1> DEFINE i == Max(InBlock(H, b))
           k == b * d + i
<1>6. i \in InBlock(H, b) /\ \A j \in InBlock(H, b) : j <= i
  BY <1>1, <1>5, MaxNat
<1> HIDE DEF b, i, k
<1>7. k \in H /\ i \in 0 .. d - 1
  BY <1>5, <1>6 DEF InBlock, d, k
<1>8. k \in Nat /\ k \div d = b /\ k % d = i
  <2>1. k = d * b + i
    BY <1>1, <1>4, <1>7 DEF k
  <2> QED BY <1>1, <1>4, <1>7, <2>1, DivModUnique
<1>9. ASSUME NEW h \in H PROVE h <= k
  <2>1. h \in Nat /\ h \div d \in marked /\ h % d \in InBlock(H, h \div d)
    BY <1>2
  <2>2. h \div d \in Nat /\ h \div d <= b
    BY <1>3, <1>4, <2>1
  <2>3. h <= k <=> h \div d < k \div d \/ (h \div d = k \div d /\ h % d <= k % d)
    BY <1>1, <1>8, <2>1, DivOrder
  <2>4. b = h \div d => h % d <= i
    BY <1>6, <2>1
  <2>5. h \div d < b \/ b = h \div d
    BY <1>4, <2>2
  <2> QED BY <1>8, <2>3, <2>4, <2>5
<1>10. k = Max(H)
  <2>1. n * d \in Nat /\ H \in SUBSET (0 .. n * d) /\ H \in SUBSET Nat
    BY <1>1 DEF d
  <2>2. Max(H) \in H /\ \A h \in H : h <= Max(H)
    BY <2>1, MaxNat
  <2>3. k <= Max(H) /\ Max(H) <= k /\ Max(H) \in Nat
    BY <1>7, <1>9, <2>1, <2>2
  <2> QED BY <1>8, <2>3
<1> QED BY <1>3, <1>4, <1>10 DEF k, i, b, d

\* The lanes taken from a mask, at any level.
LEMMA EndsOfMask ==
    ASSUME NEW m, NEW n, NEW H, IsMask(m, n, H), NEW level
    PROVE  /\ to_bitmask(m) = H
           /\ H = {} => first_matching_lane(level, m) = None /\ last_matching_lane(level, m) = None
           /\ H # {} => /\ first_matching_lane(level, m) = Min(H)
                        /\ last_matching_lane(level, m) = Max(H)
<1>1. to_bitmask(m) = H
  BY DEF to_bitmask, IsMask
<1>2. CASE level # "Neon"
  BY <1>1, <1>2 DEF first_matching_lane, last_matching_lane
<1>3. CASE level = "Neon"
  <2> DEFINE marked == {b \in 0 .. n - 1 : InBlock(H, b) # {}}
  <2>1. n \in Nat /\ n \in {1, 2, 4} /\ H \in SUBSET (0 .. n * BlockBytes - 1)
    BY DEF IsMask
  <2>2. Blocks(m) = 0 .. n - 1
    <3> DEFINE w == n * BlockBytes
    <3>1. w \in Nat /\ w \div BlockBytes = n
      BY <2>1, BlockSizes
    <3>2. DOMAIN m = 0 .. w - 1
      BY DEF IsMask
    <3> HIDE DEF w
    <3>3. Width(m) = w
      BY <3>1, <3>2, WidthOf
    <3> QED BY <3>1, <3>3 DEF Blocks
  <2>3. {b \in Blocks(m) : aarch64_match_nibbles(BlockOf(m, b)) # {}} = marked
    BY <2>2, NibblesEnds
  <2>4. CASE H = {}
    <3>1. marked = {}
      BY <2>4 DEF InBlock
    <3> HIDE DEF marked
    <3> QED BY <1>1, <1>3, <2>3, <2>4, <3>1
           DEF first_matching_lane, last_matching_lane, FirstOfNibbles, LastOfNibbles
  <2>5. CASE H # {}
    <3> DEFINE b == Min(marked)
               c == Max(marked)
    <3>1. marked # {} /\ b \in marked /\ b * BlockBytes + Min(InBlock(H, b)) = Min(H)
      BY <2>1, <2>5, BlockMin
    <3>2. marked # {} /\ c \in marked /\ c * BlockBytes + Max(InBlock(H, c)) = Max(H)
      BY <2>1, <2>5, BlockMax
    <3>3. b \in 0 .. n - 1 /\ InBlock(H, b) # {} /\ c \in 0 .. n - 1 /\ InBlock(H, c) # {}
      BY <3>1, <3>2
    <3>4. LaneOfBit(Min(aarch64_match_nibbles(BlockOf(m, b)))) = Min(InBlock(H, b))
      BY <3>3, NibblesEnds
    <3>5. LaneOfBit(Max(aarch64_match_nibbles(BlockOf(m, c)))) = Max(InBlock(H, c))
      BY <3>3, NibblesEnds
    <3>6. FirstOfNibbles(m)
            = b * BlockBytes + LaneOfBit(Min(aarch64_match_nibbles(BlockOf(m, b))))
      BY <2>3, <3>1 DEF FirstOfNibbles
    <3>7. LastOfNibbles(m)
            = c * BlockBytes + LaneOfBit(Max(aarch64_match_nibbles(BlockOf(m, c))))
      BY <2>3, <3>2 DEF LastOfNibbles
    <3> HIDE DEF marked, b, c
    <3> QED BY <1>1, <1>3, <2>5, <3>1, <3>2, <3>4, <3>5, <3>6, <3>7
           DEF first_matching_lane, last_matching_lane
  <2> QED BY <2>4, <2>5
<1> QED BY <1>1, <1>2, <1>3
-----------------------------------------------------------------------------
(***************************************************************************)
(* What is true of a vector under test.                                    *)
(***************************************************************************)
TestInv ==
    chunk # Untested =>
      /\ chunk \in Vectors
      /\ plan # Unplanned /\ plan.engine # "swar"
      /\ mask = Mask(LevelOf(machine), plan.kernel, chunk)
      /\ first = first_matching_lane(LevelOf(machine), mask)
      /\ last = last_matching_lane(LevelOf(machine), mask)

\* The plan is one for the set and for the engine the machine's backend has.
KernelsInv ==
    /\ ChoiceInv
    /\ machine \in Machines
    /\ engine = BackendEngine(machine)
    /\ TestInv

\* A searcher is built once.
LEMMA PlanKept ==
    ASSUME plan # Unplanned, [ChoiceNext]_choiceVars
    PROVE  UNCHANGED choiceVars
BY DEF ChoiceNext, ListMembers, OfNotByte, FromNotByte, OfLargeRange, OfNever, OfNeedles,
       OfSmallRange, OfFixedNibbleSet, OfSmallSet, OfBitsetLookup, Choosing, Built

\* The engine stays what the backend resolved to.
LEMMA EngineKept ==
    ASSUME [ChoiceNext]_choiceVars
    PROVE  engine' = engine
BY DEF ChoiceNext, ListMembers, OfNotByte, FromNotByte, OfLargeRange, OfNever, OfNeedles,
       OfSmallRange, OfFixedNibbleSet, OfSmallSet, OfBitsetLookup, Planned, Built, choiceVars

\* The invariant holds at first,
LEMMA InitKernelsInv == KernelsInit => KernelsInv
BY InitChoiceInv DEF KernelsInit, KernelsInv, TestInv

\* is kept by every step
LEMMA NextKernelsInv == KernelsInv /\ [KernelsNext]_<<choiceVars, machine, test>> => KernelsInv'
<1> SUFFICES ASSUME KernelsInv, [KernelsNext]_<<choiceVars, machine, test>> PROVE KernelsInv'
  OBVIOUS
<1>1. CASE Build \/ UNCHANGED <<choiceVars, machine, test>>
  <2>1. [ChoiceNext]_choiceVars /\ machine' = machine /\ UNCHANGED <<chunk, mask, first, last>>
    BY <1>1 DEF Build, test
  <2>2. ChoiceInv'
    BY <2>1, NextChoiceInv DEF KernelsInv
  <2>3. engine' = engine
    BY <2>1, EngineKept
  <2>4. TestInv'
    <3>1. CASE chunk = Untested
      BY <2>1, <3>1 DEF TestInv
    <3>2. CASE chunk # Untested
      <4>1. plan # Unplanned
        BY <3>2 DEF KernelsInv, TestInv
      <4>2. plan' = plan
        BY <2>1, <4>1, PlanKept DEF choiceVars
      <4> QED BY <2>1, <4>2 DEF KernelsInv, TestInv
    <3> QED BY <3>1, <3>2
  <2> QED BY <2>1, <2>2, <2>3, <2>4 DEF KernelsInv
<1>2. CASE TestVector
  <2>1. machine' = machine /\ choiceVars' = choiceVars /\ plan' = plan /\ engine' = engine
    BY <1>2 DEF TestVector, choiceVars
  <2>2. ChoiceInv'
    BY <2>1, NextChoiceInv DEF KernelsInv
  <2>3. TestInv'
    BY <1>2, <2>1 DEF TestVector, TestInv
  <2> QED BY <2>1, <2>2, <2>3 DEF KernelsInv
<1> QED BY <1>1, <1>2 DEF KernelsNext

\* and so always holds.
LEMMA KernelsInvHolds == KernelsSpec => []KernelsInv
BY InitKernelsInv, NextKernelsInv, PTL DEF KernelsSpec

\* The mask of a vector under test.
LEMMA TestedMask ==
    ASSUME KernelsInv, chunk # Untested
    PROVE  \E n : IsMask(mask, n, LanesIn(chunk, Members(set)))
<1> DEFINE k == plan.kernel
           H == LanesIn(chunk, Members(set))
<1>1. chunk \in Vectors /\ mask = Mask(LevelOf(machine), k, chunk)
        /\ PlanFor(plan, set, engine) /\ plan.engine # "swar"
  BY DEF KernelsInv, TestInv, ChoiceInv
<1>2. PICK n : IsVector(chunk, n)
  BY <1>1, VectorsAssumption DEF IsVector
<1>3. Recognises(k, Members(set))
  BY <1>1 DEF PlanFor
<1>4. \/ k.kind \in {"NotByte", "OneRange", "AnyOf", "FixedNibble", "SmallSet"}
      \/ k.kind = "BitsetLookup" /\ k.set \in Table
  BY <1>1 DEF PlanFor, IsLookup
<1>5. Marks(mask, k, chunk)
  <2> DEFINE level == LevelOf(machine)
  <2> HIDE DEF k, level
  <2>1. Marks(Mask(level, k, chunk), k, chunk)
    BY <1>2, <1>4, MaskMarks
  <2> QED BY <1>1, <2>1 DEF level
<1> HIDE DEF k
<1>6. DOMAIN chunk = 0 .. n * BlockBytes - 1 /\ \A i \in DOMAIN chunk : chunk[i] \in Value
  BY <1>2 DEF IsVector
<1>7. \A i \in DOMAIN chunk : i \in H <=> chunk[i] \in Members(set)
  BY DEF LanesIn
<1>8. H \in SUBSET DOMAIN chunk
  BY DEF LanesIn
<1> HIDE DEF H
<1>9. \A i \in DOMAIN chunk : mask[i] <=> i \in H
  BY <1>3, <1>5, <1>6, <1>7 DEF Marks, Recognises
<1>10. n \in {1, 2, 4}
  BY <1>2 DEF IsVector
<1>11. IsMask(mask, n, H)
  BY <1>5, <1>6, <1>8, <1>9, <1>10 DEF IsMask, Marks
<1> QED BY <1>11 DEF H

\* It says which lanes are marked,
LEMMA KernelsInvMarks == KernelsInv => LanesMarked
<1> SUFFICES ASSUME KernelsInv, chunk # Untested
             PROVE  to_bitmask(mask) = LanesIn(chunk, Members(set))
  BY DEF LanesMarked
<1> QED BY TestedMask, EndsOfMask

\* which of them are taken
LEMMA KernelsInvEnds == KernelsInv => EndsExact
<1> DEFINE H == LanesIn(chunk, Members(set))
<1> SUFFICES ASSUME KernelsInv, chunk # Untested
             PROVE  /\ H = {} => first = None /\ last = None
                    /\ H # {} => first = Min(H) /\ last = Max(H)
  BY DEF EndsExact
<1>1. first = first_matching_lane(LevelOf(machine), mask)
        /\ last = last_matching_lane(LevelOf(machine), mask)
  BY DEF KernelsInv, TestInv
<1>2. PICK n : IsMask(mask, n, H)
  BY TestedMask
<1> HIDE DEF H
<1> DEFINE level == LevelOf(machine)
<1> HIDE DEF level
<1>3. /\ H = {} => first_matching_lane(level, mask) = None /\ last_matching_lane(level, mask) = None
      /\ H # {} => /\ first_matching_lane(level, mask) = Min(H)
                   /\ last_matching_lane(level, mask) = Max(H)
  BY <1>2, EndsOfMask
<1> QED BY <1>1, <1>3 DEF level

\* and that the engine can run the kernel.
LEMMA KernelsInvRunnable == KernelsInv => Runnable
<1> DEFINE kind == plan.kernel.kind
           level == LevelOf(machine)
           swar == machine.backend = "Swar" \/ (machine.backend = "Auto" /\ machine.cpu = "Fallback")
<1> SUFFICES ASSUME KernelsInv, plan # Unplanned
             PROVE  /\ plan.engine # "swar" /\ kind \in {"SmallSet", "FixedNibble", "BitsetLookup"}
                         => level \in Levels \ {"Fallback", "Sse2"}
                    /\ kind \in {"SmallSet", "FixedNibble"} => plan.engine # "swar"
                    /\ kind \notin {"SmallSet", "FixedNibble", "BitsetLookup"} /\ kind # "Never"
                         => (plan.engine = "swar" <=> swar)
  BY DEF Runnable, KernelsInv
<1>1. PlanFor(plan, set, engine) /\ engine = BackendEngine(machine) /\ machine \in Machines
  BY DEF KernelsInv, ChoiceInv
<1>2. machine.cpu \in Levels /\ machine.backend \in Levels \cup {"Auto", "Swar"}
  BY <1>1, MachinesAssumption
<1>3. level \in Levels
  BY <1>2 DEF LevelOf
<1>4. engine = "swar" <=> swar
  BY <1>1 DEF BackendEngine, VectorEngine, is_fallback
<1>5. engine = "vector_shuffle" => level \in Levels \ {"Fallback", "Sse2"}
  <2>1. engine = "vector_shuffle" => has_byte_shuffle(level)
    BY <1>1 DEF BackendEngine, VectorEngine
  <2> QED BY <1>3, <2>1 DEF has_byte_shuffle, is_fallback, Levels
<1> HIDE DEF level, swar
<1>6. \/ kind \in {"NotByte", "OneRange", "AnyOf"} /\ plan.engine = engine
      \/ kind = "Never"
      \/ kind \in {"FixedNibble", "SmallSet"} /\ plan.engine = engine /\ engine = "vector_shuffle"
      \/ kind = "BitsetLookup" /\ (plan.engine = "swar" \/ engine = "vector_shuffle")
  BY <1>1 DEF PlanFor, IsLookup
<1> HIDE DEF kind
<1> QED BY <1>4, <1>5, <1>6

\* Every kernel marks, in vectors of 16, 32 and 64 bytes and at every level, the lanes
\* whose bytes belong to the searcher's set, for any set and any contents.
THEOREM MarksEveryLane == KernelsSpec => []LanesMarked
BY KernelsInvHolds, KernelsInvMarks, PTL

\* first_matching_lane and last_matching_lane give the lowest and the highest of them,
\* on aarch64 from the four bits that each lane has in the word.
THEOREM LanesTaken == KernelsSpec => []EndsExact
BY KernelsInvHolds, KernelsInvEnds, PTL

\* Whatever Backend is asked for on whatever CPU, the engine runs the kernel it got.
THEOREM EveryPlanRuns == KernelsSpec => []Runnable
BY KernelsInvHolds, KernelsInvRunnable, PTL
-----------------------------------------------------------------------------
(***************************************************************************)
(* Module LaneCount: for counters of any width, any number of lanes and    *)
(* haystacks of any length.                                                *)
(***************************************************************************)

(***************************************************************************)
(* The inductive invariant: a lane has at most one match of every unit in  *)
(* the batch, a batch of units is as long as a lane can count, and the     *)
(* blocks still to be read leave room in the block phase's only batch.     *)
(***************************************************************************)
LInv ==
    /\ units \in Nat
    /\ blocks \in 0 .. MaxBlocks
    /\ inBatch \in 0 .. LaneMax
    /\ exact \in [Lane -> Nat]
    /\ \A i \in Lane : exact[i] <= inBatch
    /\ counts = exact
    /\ phase = "blocks" => inBatch + blocks <= MaxBlocks
-----------------------------------------------------------------------------
(***************************************************************************)
(* A number below the modulus is its own remainder.                        *)
(***************************************************************************)
LEMMA ModSmall ==
    ASSUME NEW d \in Nat \ {0}, NEW x \in 0 .. d - 1
    PROVE  x % d = x
<1> QED BY SMT

(***************************************************************************)
(* An addition to lanes that all have room is exact: none wraps, and none  *)
(* carries into its neighbour.                                             *)
(***************************************************************************)
LEMMA AddedExact ==
    ASSUME NEW c \in [Lane -> Nat], NEW marks, \A i \in Lane : c[i] < LaneMax
    PROVE  Added(c, marks) = [i \in Lane |-> c[i] + Mark(marks, i)]
<1>1. ASSUME NEW i \in Lane
      PROVE  (c[i] + Mark(marks, i) + (IF carries /\ CarryInto(c, marks, i) THEN 1 ELSE 0)) % Radix
               = c[i] + Mark(marks, i)
  <2>1. ~ CarryInto(c, marks, i)
    <3>1. ASSUME NEW j \in 0 .. i - 1 PROVE ~ (c[j] + Mark(marks, j) > LaneMax)
      <4>1. j \in Lane
        BY LaneAssumption DEF Lane
      <4>2. c[j] \in Nat /\ c[j] < LaneMax /\ Mark(marks, j) \in 0 .. 1
        BY <4>1 DEF Mark
      <4> QED BY <4>2, LaneAssumption
    <3> QED BY <3>1 DEF CarryInto
  <2>2. c[i] + Mark(marks, i) \in 0 .. Radix - 1
    <3>1. c[i] \in Nat /\ c[i] < LaneMax /\ Mark(marks, i) \in 0 .. 1
      BY DEF Mark
    <3> QED BY <3>1, LaneAssumption DEF Radix
  <2>3. Radix \in Nat \ {0}
    BY LaneAssumption DEF Radix
  <2>4. (c[i] + Mark(marks, i)) % Radix = c[i] + Mark(marks, i)
    BY <2>2, <2>3, ModSmall
  <2>5. (c[i] + Mark(marks, i) + 0) = c[i] + Mark(marks, i)
    BY <2>2, <2>3
  <2> QED BY <2>1, <2>4, <2>5
<1> QED BY <1>1 DEF Added
-----------------------------------------------------------------------------
(***************************************************************************)
(* An addition with room in the batch keeps the lanes exact.               *)
(***************************************************************************)
LEMMA AccumulateExact ==
    ASSUME LInv, inBatch < LaneMax, NEW marks, Accumulate(marks)
    PROVE  /\ inBatch' \in 0 .. LaneMax
           /\ inBatch' = inBatch + 1
           /\ exact' \in [Lane -> Nat]
           /\ \A i \in Lane : exact'[i] <= inBatch'
           /\ counts' = exact'
<1>1. inBatch \in Nat /\ inBatch' = inBatch + 1
  BY DEF LInv, Accumulate
<1>2. exact \in [Lane -> Nat] /\ exact' = [i \in Lane |-> exact[i] + Mark(marks, i)]
  BY DEF LInv, Accumulate
<1>3. ASSUME NEW i \in Lane
      PROVE  exact[i] + Mark(marks, i) \in Nat /\ exact[i] + Mark(marks, i) <= inBatch + 1
  <2>1. exact[i] \in Nat /\ exact[i] <= inBatch /\ Mark(marks, i) \in 0 .. 1
    BY <1>2 DEF LInv, Mark
  <2> QED BY <2>1, <1>1
<1>4. \A i \in Lane : exact[i] < LaneMax
  BY <1>1, <1>2, LaneAssumption DEF LInv
<1>5. counts' = exact'
  BY <1>2, <1>4, AddedExact DEF LInv, Accumulate
<1> QED BY <1>1, <1>2, <1>3, <1>5, LaneAssumption

(***************************************************************************)
(* A drain leaves all lanes at zero.                                       *)
(***************************************************************************)
LEMMA DrainExact ==
    ASSUME Drain
    PROVE  /\ inBatch' = 0
           /\ exact' \in [Lane -> Nat]
           /\ \A i \in Lane : exact'[i] <= inBatch'
           /\ counts' = exact'
<1> QED BY DEF Drain, Zero

(***************************************************************************)
(* It holds initially.                                                     *)
(***************************************************************************)
LEMMA InitLInv == LaneInit => LInv
<1> QED BY LaneAssumption DEF LaneInit, LInv, Zero

(***************************************************************************)
(* Every step preserves it.                                                *)
(***************************************************************************)
LEMMA NextLInv == LInv /\ [LaneNext]_laneVars => LInv'
<1> SUFFICES ASSUME LInv, [LaneNext]_laneVars PROVE LInv'
  OBVIOUS
<1>1. CASE AddUnit
  <2>1. PICK marks \in SUBSET Lane : Accumulate(marks)
    BY <1>1 DEF AddUnit
  <2>2. inBatch < LaneMax
    BY <1>1 DEF AddUnit, ChunksPerAccumulator
  <2>3. units' \in Nat /\ blocks' \in 0 .. MaxBlocks /\ phase' = "units"
    BY <1>1 DEF AddUnit, LInv
  <2> QED BY <2>1, <2>2, <2>3, AccumulateExact DEF LInv
<1>2. CASE DrainUnits
  <2>1. units' \in Nat /\ blocks' \in 0 .. MaxBlocks /\ phase' = "units"
    BY <1>2 DEF DrainUnits, LInv
  <2>2. Drain
    BY <1>2 DEF DrainUnits
  <2> QED BY <2>1, <2>2, DrainExact, LaneAssumption DEF LInv
<1>3. CASE UnitsDone
  BY <1>3, LaneAssumption DEF UnitsDone, LInv
<1>4. CASE AddBlock
  <2>1. PICK marks \in SUBSET BlockLane : Accumulate(marks)
    BY <1>4 DEF AddBlock
  <2>2. /\ blocks \in 0 .. MaxBlocks /\ blocks > 0 /\ inBatch \in Nat
        /\ inBatch + blocks <= MaxBlocks
        /\ units' = units /\ blocks' = blocks - 1 /\ phase' = "blocks"
    BY <1>4 DEF AddBlock, LInv
  <2>3. inBatch < LaneMax /\ blocks' \in 0 .. MaxBlocks /\ inBatch + 1 + blocks' <= MaxBlocks
    BY <2>2, LaneAssumption
  <2>4. units' \in Nat
    BY <2>2 DEF LInv
  <2> QED BY <2>1, <2>2, <2>3, <2>4, AccumulateExact DEF LInv
<1>5. CASE DrainBlocks
  <2>1. units' \in Nat /\ blocks' \in 0 .. MaxBlocks /\ phase' = "tail"
    BY <1>5 DEF DrainBlocks, LInv
  <2>2. Drain
    BY <1>5 DEF DrainBlocks
  <2> QED BY <2>1, <2>2, DrainExact, LaneAssumption DEF LInv
<1>6. CASE AddTail
  BY <1>6 DEF AddTail, LInv
<1>7. CASE UNCHANGED laneVars
  BY <1>7 DEF laneVars, LInv
<1> QED BY <1>1, <1>2, <1>3, <1>4, <1>5, <1>6, <1>7 DEF LaneNext, Counted

(***************************************************************************)
(* Draining after LaneMax units is often enough: in no reachable state has *)
(* a lane of the accumulator overflowed, whether lanes wrap or carry.      *)
(***************************************************************************)
THEOREM NoOverflow == LaneSpec => []LanesExact
<1>1. LInv => LanesExact
  BY DEF LInv, LanesExact
<1> QED BY <1>1, InitLInv, NextLInv, PTL DEF LaneSpec
-----------------------------------------------------------------------------
(***************************************************************************)
(* The matches counted: with those of the lanes the total is what was      *)
(* read.  A drain takes the lanes' sum modulo a width that it fits only    *)
(* because LInv bounds every lane.                                         *)
(***************************************************************************)
AccountedInv == LInv /\ total \in Nat /\ Accounted

\* The lanes of the accumulator: a finite set, with a number in each.
LEMMA CountsFacts ==
    ASSUME LInv
    PROVE  /\ IsFiniteSet(Lane) /\ Cardinality(Lane) = Lanes
           /\ counts \in [Lane -> Nat] /\ \A i \in Lane : counts[i] <= LaneMax
           /\ SumFunction(counts) \in Nat
<1>1. Lanes \in Nat /\ 0 <= Lanes - 1 /\ LaneMax \in Nat
  BY LaneAssumption
<1>2. IsFiniteSet(Lane) /\ Cardinality(Lane) = Lanes - 1 - 0 + 1
  BY <1>1, FS_Interval DEF Lane
<1>3. counts \in [Lane -> Nat] /\ inBatch \in 0 .. LaneMax /\ \A i \in Lane : counts[i] <= inBatch
  BY DEF LInv
<1>4. ASSUME NEW i \in Lane PROVE counts[i] <= LaneMax
  <2>1. counts[i] \in Nat /\ counts[i] <= inBatch
    BY <1>3
  <2> QED BY <1>1, <1>3, <2>1
<1>5. SumFunction(counts) \in Nat
  BY <1>2, <1>3, SumType
<1> QED BY <1>1, <1>2, <1>3, <1>4, <1>5

\* An addition with room in the batch counts every match of the unit.
LEMMA AccumulateAccounted ==
    ASSUME AccountedInv, inBatch < LaneMax, NEW marks \in SUBSET Lane,
           Accumulate(marks), total' = total
    PROVE  total' \in Nat /\ Accounted'
<1>1. /\ LInv /\ total \in Nat /\ total + SumFunction(counts) = seen
  BY DEF AccountedInv, Accounted
<1>2. /\ exact' = [i \in Lane |-> exact[i] + Mark(marks, i)]
      /\ counts = exact /\ seen' = seen + Cardinality(marks)
  BY <1>1 DEF Accumulate, LInv
<1>3. counts' = [i \in Lane |-> counts[i] + (IF i \in marks THEN 1 ELSE 0)]
  BY <1>1, <1>2, AccumulateExact DEF Mark
<1>4. SumFunction(counts') = SumFunction(counts) + Cardinality(marks)
  BY <1>1, <1>3, CountsFacts, SumOfMarks
<1>5. SumFunction(counts) \in Nat /\ Cardinality(marks) \in Nat
  BY <1>1, CountsFacts, FS_Subset, FS_CardinalityType
<1> QED BY <1>1, <1>2, <1>4, <1>5 DEF Accounted

\* A drain moves all that the lanes hold to the total.
LEMMA DrainAccounted ==
    ASSUME AccountedInv, Drain, seen' = seen
    PROVE  total' \in Nat /\ Accounted'
<1>1. /\ LInv /\ total \in Nat /\ total + SumFunction(counts) = seen
  BY DEF AccountedInv, Accounted
<1> DEFINE sum == SumFunction(counts)
           width == Radix * Radix
<1>2. sum \in Nat
  BY <1>1, CountsFacts
<1>3. sum <= Lanes * LaneMax
  <2>1. sum <= Cardinality(Lane) * LaneMax
    BY <1>1, CountsFacts, LaneAssumption, SumBound
  <2> QED BY <1>1, <2>1, CountsFacts
<1>4. width \in Nat \ {0} /\ Lanes * LaneMax \in Nat /\ Lanes * LaneMax < width
  <2>1. Radix \in Nat /\ Radix > 0 /\ Lanes \in Nat /\ LaneMax \in Nat
    BY LaneAssumption DEF Radix
  <2>2. width \in Nat /\ Lanes * LaneMax \in Nat
    BY <2>1
  <2>3. Lanes * LaneMax < width
    BY LaneAssumption
  <2> HIDE DEF width
  <2> QED BY <2>2, <2>3
<1>5. LaneSum(counts) = sum % width
  BY DEF LaneSum
<1> HIDE DEF width
<1>6. sum \in 0 .. width - 1
  <2> HIDE DEF sum
  <2>1. ASSUME NEW p \in Nat, sum <= p, p < width PROVE sum \in 0 .. width - 1
    BY <1>2, <1>4, <2>1
  <2> QED BY <1>3, <1>4, <2>1
<1> HIDE DEF sum
<1>7. sum % width = sum
  BY <1>4, <1>6, ModSmall
<1>8. total' = total + sum /\ counts' = [i \in Lane |-> 0]
  BY <1>5, <1>7 DEF Drain, Zero
<1>9. SumFunction(counts') = 0
  BY <1>1, <1>8, CountsFacts, SumZero
<1> QED BY <1>1, <1>2, <1>8, <1>9 DEF Accounted, sum

\* Nothing is counted before anything is read.
LEMMA InitAccounted == LaneInit => AccountedInv
<1> SUFFICES ASSUME LaneInit PROVE AccountedInv
  OBVIOUS
<1>1. LInv
  BY InitLInv
<1>2. total = 0 /\ seen = 0 /\ counts = [i \in Lane |-> 0]
  BY DEF LaneInit, Zero
<1>3. SumFunction(counts) = 0
  BY <1>1, <1>2, CountsFacts, SumZero
<1> QED BY <1>1, <1>2, <1>3 DEF AccountedInv, Accounted

(***************************************************************************)
(* Every step counts what it reads.                                        *)
(***************************************************************************)
LEMMA NextAccounted == AccountedInv /\ [LaneNext]_laneVars => AccountedInv'
<1> SUFFICES ASSUME AccountedInv, [LaneNext]_laneVars PROVE total' \in Nat /\ Accounted'
  BY NextLInv DEF AccountedInv
<1>1. LInv /\ total \in Nat /\ Accounted
  BY DEF AccountedInv
<1>2. CASE AddUnit
  <2>1. PICK marks \in SUBSET Lane : Accumulate(marks)
    BY <1>2 DEF AddUnit
  <2>2. inBatch < LaneMax /\ total' = total
    BY <1>2 DEF AddUnit, ChunksPerAccumulator
  <2> QED BY <2>1, <2>2, AccumulateAccounted
<1>3. CASE DrainUnits
  BY <1>3, DrainAccounted DEF DrainUnits
<1>4. CASE UnitsDone
  BY <1>1, <1>4 DEF UnitsDone, Accounted
<1>5. CASE AddBlock
  <2>1. PICK marks \in SUBSET BlockLane : Accumulate(marks)
    BY <1>5 DEF AddBlock
  <2>2. marks \in SUBSET Lane
    BY <2>1, LaneAssumption DEF BlockLane, Lane
  <2>3. /\ blocks \in 0 .. MaxBlocks /\ blocks > 0 /\ inBatch \in Nat
        /\ inBatch + blocks <= MaxBlocks /\ total' = total
    BY <1>1, <1>5 DEF AddBlock, LInv
  <2>4. inBatch < LaneMax
    BY <2>3, LaneAssumption
  <2> QED BY <2>1, <2>2, <2>3, <2>4, AccumulateAccounted
<1>6. CASE DrainBlocks
  BY <1>6, DrainAccounted DEF DrainBlocks
<1>7. CASE AddTail
  <2>1. PICK ones \in 0 .. MaxTail : total' = total + ones /\ seen' = seen + ones
    BY <1>7 DEF AddTail
  <2>2. counts' = counts
    BY <1>7 DEF AddTail
  <2>3. ones \in Nat /\ SumFunction(counts) \in Nat /\ total + SumFunction(counts) = seen
    BY <1>1, <2>1, LaneAssumption, CountsFacts DEF Accounted
  <2> QED BY <1>1, <2>1, <2>2, <2>3 DEF Accounted
<1>8. CASE UNCHANGED laneVars
  BY <1>1, <1>8 DEF laneVars, Accounted
<1> QED BY <1>2, <1>3, <1>4, <1>5, <1>6, <1>7, <1>8 DEF LaneNext, Counted

(***************************************************************************)
(* count_all returns the number of matches: whatever the drains took from  *)
(* the lanes reached the total, over any number of drains.                 *)
(***************************************************************************)
THEOREM EveryMatchCounted == LaneSpec => []Accounted
<1>1. AccountedInv => Accounted
  BY DEF AccountedInv
<1> QED BY <1>1, InitAccounted, NextAccounted, PTL DEF LaneSpec
=============================================================================
