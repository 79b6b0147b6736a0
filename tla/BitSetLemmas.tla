--------------------------- MODULE BitSetLemmas ---------------------------
(***************************************************************************)
(* Facts about bit sets, about sets of offsets and about sums that the     *)
(* proofs of the other modules cite.                                       *)
(***************************************************************************)
EXTENDS BitSets, FiniteSetTheorems, WellFoundedInduction, TLAPS

(***************************************************************************)
(* trailing_zeros names a one bit and every other one bit is above it: the *)
(* minimum of a nonempty set of naturals exists.                           *)
(***************************************************************************)
LEMMA MinNat ==
    ASSUME NEW S \in SUBSET Nat, S # {}
    PROVE  /\ Min(S) \in S
           /\ \A x \in S : Min(S) <= x
<1> DEFINE R == OpToRel(<, Nat)
<1>1. IsWellFoundedOn(R, Nat)
  BY NatLessThanWellFounded
<1>2. \A x, y \in Nat : x < y => <<x, y>> \in R
  BY DEF OpToRel
<1> HIDE DEF R
<1>3. PICK m \in S : \A x \in S : <<x, m>> \notin R
  BY <1>1, WFMin
<1>4. ASSUME NEW x \in S PROVE m <= x
  <2>1. x \in Nat /\ m \in Nat /\ ~ (x < m)
    BY <1>2, <1>3
  <2> QED BY <2>1
<1> QED BY <1>4 DEF Min

(***************************************************************************)
(* 63 - leading_zeros names the highest one bit: the maximum of a nonempty *)
(* set of naturals below a bound exists.                                   *)
(***************************************************************************)
LEMMA MaxNat ==
    ASSUME NEW w \in Nat, NEW S \in SUBSET (0 .. w), S # {}
    PROVE  /\ Max(S) \in S
           /\ \A x \in S : x <= Max(S)
<1> DEFINE T == {w - x : x \in S}
<1>1. T \in SUBSET Nat /\ T # {}
  <2>1. T \in SUBSET Nat
    OBVIOUS
  <2>2. T # {}
    OBVIOUS
  <2> QED BY <2>1, <2>2
<1> DEFINE t == Min(T)
<1>2. t \in T /\ \A y \in T : t <= y
  BY <1>1, MinNat
<1>3. PICK m \in S : t = w - m
  BY <1>2
<1>4. ASSUME NEW x \in S PROVE x <= m
  <2>1. w - m <= w - x
    BY <1>2, <1>3
  <2> QED BY <2>1
<1>5. \A x \in S : m >= x
  BY <1>4
<1>6. Max(S) \in S /\ \A x \in S : Max(S) >= x
  BY <1>5 DEF Max
<1> QED BY <1>6

(***************************************************************************)
(* A set of offsets has as many elements as its bits relative to a base.   *)
(***************************************************************************)
LEMMA ShiftCardinality ==
    ASSUME NEW S \in SUBSET Nat, IsFiniteSet(S), NEW k \in Nat
    PROVE  LET T == {k + b : b \in S} IN
             IsFiniteSet(T) /\ Cardinality(T) = Cardinality(S)
<1> DEFINE T == {k + b : b \in S}
           f == [b \in S |-> k + b]
<1>1. f \in Bijection(S, T)
  <2>1. f \in [S -> T]
    OBVIOUS
  <2>2. \A a, b \in S : f[a] = f[b] => a = b
    OBVIOUS
  <2>3. \A t \in T : \E s \in S : f[s] = t
    OBVIOUS
  <2> QED BY <2>1, <2>2, <2>3, Zenon DEF Bijection, Injection, Surjection, IsInjective
<1>2. ExistsBijection(S, T)
  BY <1>1 DEF ExistsBijection
<1> HIDE DEF T
<1>3. IsFiniteSet(T) /\ Cardinality(T) = Cardinality(S)
  BY <1>2, FS_Bijection
<1> QED BY <1>3 DEF T

(***************************************************************************)
(* count_ones is defined: a bitset is finite.                              *)
(***************************************************************************)
LEMMA BitsFinite ==
    ASSUME NEW w \in Nat, NEW x \in SUBSET (0 .. w)
    PROVE  IsFiniteSet(x) /\ Cardinality(x) \in Nat
<1>1. IsFiniteSet(0 .. w)
  BY FS_Interval
<1>2. IsFiniteSet(x)
  BY <1>1, FS_Subset
<1> QED BY <1>2, FS_CardinalityType

(***************************************************************************)
(* How many offsets lie from one bound up to another.                      *)
(***************************************************************************)
LEMMA IntervalCardinality ==
    ASSUME NEW lo \in Nat, NEW hi \in Nat, lo <= hi
    PROVE  IsFiniteSet(lo .. hi - 1) /\ Cardinality(lo .. hi - 1) = hi - lo
<1> DEFINE top == hi - 1
<1>1. top \in Int /\ lo \in Int
  OBVIOUS
<1> HIDE DEF top
<1>2. /\ IsFiniteSet(lo .. top)
      /\ Cardinality(lo .. top) = IF lo > top THEN 0 ELSE top - lo + 1
  BY <1>1, FS_Interval
<1> QED BY <1>2 DEF top

\* The one bits of x below b.
Under(x, b) == {c \in x : c < b}

\* Those above it.
Above(x, b) == {c \in x : c > b}

\* The offsets of the bits of x relative to base.
Offsets(base, x) == {base + b : b \in x}

(***************************************************************************)
(* No one bit lies below the lowest.                                       *)
(***************************************************************************)
LEMMA UnderMin ==
    ASSUME NEW x \in SUBSET Nat, x # {}
    PROVE  Under(x, Min(x)) = {}
<1>1. Min(x) \in x /\ \A b \in x : Min(x) <= b
  BY MinNat
<1> SUFFICES ASSUME NEW c \in x, c < Min(x) PROVE FALSE
  BY DEF Under
<1>2. c \in Nat /\ Min(x) \in Nat /\ Min(x) <= c
  BY <1>1
<1> QED BY <1>2

(***************************************************************************)
(* The bits below the highest one bit are all the others.                  *)
(***************************************************************************)
LEMMA UnderMax ==
    ASSUME NEW w \in Nat, NEW x \in SUBSET (0 .. w), x # {}
    PROVE  /\ IsFiniteSet(x)
           /\ Under(x, Max(x)) = x \ {Max(x)}
           /\ Cardinality(Under(x, Max(x))) = Cardinality(x) - 1
<1>1. IsFiniteSet(x)
  BY BitsFinite
<1>2. Max(x) \in x /\ \A c \in x : c <= Max(x)
  BY MaxNat
<1>3. Under(x, Max(x)) = x \ {Max(x)}
  <2>1. x \in SUBSET Nat
    OBVIOUS
  <2>2. ASSUME NEW c \in x PROVE c < Max(x) <=> c # Max(x)
    <3>1. c \in Nat /\ Max(x) \in Nat /\ c <= Max(x)
      BY <1>2, <2>1
    <3> QED BY <3>1
  <2> QED BY <2>2, Zenon DEF Under
<1>4. Cardinality(x \ {Max(x)}) = Cardinality(x) - 1
  BY <1>1, <1>2, FS_RemoveElement
<1> QED BY <1>1, <1>3, <1>4

(***************************************************************************)
(* Fewer one bits lie below a lower bit.                                   *)
(***************************************************************************)
LEMMA UnderMonotone ==
    ASSUME NEW x \in SUBSET Nat, IsFiniteSet(x), NEW b \in Nat, NEW c \in Nat, b <= c
    PROVE  Cardinality(Under(x, b)) <= Cardinality(Under(x, c))
<1>1. \A y : y \in Under(x, b) => y \in Under(x, c)
  BY DEF Under
<1>2. Under(x, c) \subseteq x
  BY DEF Under
<1>3. IsFiniteSet(Under(x, c))
  BY <1>2, FS_Subset
<1>4. Under(x, b) \in SUBSET Under(x, c)
  BY <1>1
<1> QED BY <1>3, <1>4, FS_Subset

(***************************************************************************)
(* x &= x - 1 done k times leaves something when x has more than k one     *)
(* bits; what it leaves is the bits from some point on, and below the      *)
(* lowest of them x has exactly k one bits: it is the one nth(k) returns.  *)
(***************************************************************************)
LEMMA DropLowestRank ==
    ASSUME NEW w \in Nat, NEW x \in SUBSET (0 .. w),
           NEW k \in Nat, Cardinality(x) > k
    PROVE  LET y == DropLowest(x, k) IN
             /\ y # {}
             /\ y \subseteq x
             /\ \A b \in y, c \in x : b <= c => c \in y
             /\ Cardinality(Under(x, Min(y))) = k
<1> DEFINE y == DropLowest(x, k)
           m == Min(y)
<1>1. IsFiniteSet(x) /\ Cardinality(x) \in Nat
  BY BitsFinite
<1>2. y = {b \in x : Cardinality(Under(x, b)) >= k}
  BY DEF DropLowest, Under
<1>3. ASSUME NEW b PROVE IsFiniteSet(Under(x, b)) /\ Cardinality(Under(x, b)) \in Nat
  <2>1. Under(x, b) \subseteq x
    BY DEF Under
  <2> QED BY <2>1, <1>1, FS_Subset, FS_CardinalityType
<1>4. x # {}
  BY FS_EmptySet
<1>5. Max(x) \in y
  <2>1. Max(x) \in x
    BY <1>4, MaxNat
  <2>2. Cardinality(Under(x, Max(x))) = Cardinality(x) - 1
    BY <1>4, UnderMax
  <2> QED BY <2>1, <2>2, <1>1, <1>2
<1> HIDE DEF y
<1>6. x \in SUBSET Nat /\ y \in SUBSET x /\ y \in SUBSET Nat /\ y # {}
  <2>1. x \in SUBSET Nat
    OBVIOUS
  <2>2. y \in SUBSET x
    BY <1>2
  <2>3. y \in SUBSET Nat
    BY <2>1, <2>2
  <2> QED BY <2>1, <2>2, <2>3, <1>5
<1>7. ASSUME NEW b \in y, NEW c \in x, b <= c PROVE c \in y
  <2> b \in Nat /\ c \in Nat
    BY <1>6
  <2>1. Cardinality(Under(x, b)) <= Cardinality(Under(x, c))
    BY <1>1, <1>6, <1>7, UnderMonotone
  <2>2. Cardinality(Under(x, b)) >= k
    BY <1>2
  <2> QED BY <2>1, <2>2, <1>2, <1>3
<1>8. m \in y /\ \A b \in y : m <= b
  BY <1>6, MinNat
<1> HIDE DEF m
<1>9. Cardinality(Under(x, m)) >= k
  BY <1>2, <1>8
<1>10. Cardinality(Under(x, m)) <= k
  <2> DEFINE z == Under(x, m)
  <2>1. CASE z = {}
    BY <2>1, FS_EmptySet
  <2>2. CASE z # {}
    <3> DEFINE c == Max(z)
    <3>1. z \subseteq 0 .. w
      BY DEF Under
    <3>2. c \in z
      BY <2>2, <3>1, MaxNat
    <3>3. Cardinality(Under(z, c)) = Cardinality(z) - 1
      BY <2>2, <3>1, UnderMax
    <3> HIDE DEF c
    <3>4. c \in x /\ c < m /\ c \in Nat /\ m \in Nat
      <4>1. c \in x /\ c < m
        BY <3>2 DEF Under
      <4> QED BY <4>1, <1>6, <1>8
    <3>5. Under(z, c) = Under(x, c)
      <4>1. \A b \in x : b < c => b < m
        BY <3>4, <1>6
      <4> QED BY <4>1, Zenon DEF Under
    <3>6. c \notin y
      BY <3>4, <1>8, <1>6
    <3>7. Cardinality(Under(x, c)) < k
      BY <3>4, <3>6, <1>2, <1>3
    <3>8. Cardinality(z) \in Nat
      BY <1>3
    <3>9. Cardinality(Under(z, c)) = Cardinality(Under(x, c))
      BY <3>5
    <3> HIDE DEF z
    <3>10. Cardinality(z) <= k
      BY <3>3, <3>7, <3>8, <3>9
    <3> QED BY <3>10 DEF z
  <2> QED BY <2>1, <2>2
<1>11. Cardinality(Under(x, m)) = k
  BY <1>3, <1>9, <1>10
<1> QED BY <1>6, <1>7, <1>11 DEF m, y

(***************************************************************************)
(* Returning the lowest held match, masking those below an index, and      *)
(* skipping the k lowest each leave the batch's matches from some point on *)
(***************************************************************************)
LEMMA UpperPartRest ==
    ASSUME NEW y \in SUBSET Nat, NEW x, UpperPart(x, y), x # {}
    PROVE  /\ Min(x) \in x
           /\ \A b \in x \ {Min(x)} : Min(x) < b
           /\ UpperPart(x \ {Min(x)}, y)
<1>1. x \in SUBSET Nat
  BY DEF UpperPart
<1>2. Min(x) \in x /\ \A b \in x : Min(x) <= b
  BY <1>1, MinNat
<1> DEFINE m == Min(x)
<1> HIDE DEF m
<1>3. m \in x /\ m \in Nat /\ \A b \in x : m <= b
  BY <1>1, <1>2 DEF m
<1>4. ASSUME NEW b \in x \ {m} PROVE m < b
  <2>1. b \in Nat /\ m <= b /\ b # m
    BY <1>1, <1>3
  <2> QED BY <2>1, <1>3
<1>5. ASSUME NEW b \in x \ {m}, NEW c \in y, b <= c PROVE c \in x \ {m}
  <2>1. c \in x
    BY <1>5 DEF UpperPart
  <2>2. m < b /\ b \in Nat /\ c \in Nat
    BY <1>1, <1>4, <2>1
  <2> QED BY <2>1, <2>2, <1>3, <1>5
<1>6. UpperPart(x \ {m}, y)
  BY <1>5 DEF UpperPart
<1> QED BY <1>3, <1>4, <1>6 DEF m

\* Masking off the low bits, as advance_to does, leaves an upper part.
LEMMA UpperPartMask ==
    ASSUME NEW w \in Nat, NEW y \in SUBSET (0 .. w - 1), NEW x, UpperPart(x, y), NEW k \in Nat
    PROVE  UpperPart(x \cap HighMask(k, w), y)
<1>1. ASSUME NEW b \in x \cap HighMask(k, w), NEW c \in y, b <= c
      PROVE  c \in x \cap HighMask(k, w)
  <2>1. c \in x
    BY <1>1 DEF UpperPart
  <2>2. b \in k .. w - 1 /\ c \in 0 .. w - 1
    BY <1>1 DEF HighMask
  <2>3. c \in k .. w - 1
    BY <2>2, <1>1
  <2> QED BY <2>1, <2>3 DEF HighMask
<1> QED BY <1>1 DEF UpperPart

\* Clearing the lowest bit k times, as nth does, leaves a non-empty upper part
\* when there are more than k bits.
LEMMA UpperPartDrop ==
    ASSUME NEW w \in Nat, NEW y \in SUBSET (0 .. w), NEW x, UpperPart(x, y),
           NEW k \in Nat, Cardinality(x) > k
    PROVE  DropLowest(x, k) # {} /\ UpperPart(DropLowest(x, k), y)
<1>1. x \in SUBSET (0 .. w)
  BY DEF UpperPart
<1> DEFINE z == DropLowest(x, k)
<1>2. /\ z # {}
      /\ z \subseteq x
      /\ \A b \in z, c \in x : b <= c => c \in z
  BY <1>1, DropLowestRank
<1> HIDE DEF z
<1>3. ASSUME NEW b \in z, NEW c \in y, b <= c PROVE c \in z
  <2>1. c \in x
    BY <1>2, <1>3 DEF UpperPart
  <2> QED BY <2>1, <1>2, <1>3
<1>4. UpperPart(z, y)
  BY <1>2, <1>3 DEF UpperPart
<1> QED BY <1>2, <1>4 DEF z
-----------------------------------------------------------------------------
(***************************************************************************)
(* Induction on finite sets: of the subsets of a finite set with a         *)
(* property, if there are any, one has no proper subset with it.           *)
(***************************************************************************)
LEMMA SmallestSet ==
    ASSUME NEW S, IsFiniteSet(S), NEW C \in SUBSET (SUBSET S), C # {}
    PROVE  \E s \in C : \A x \in s : s \ {x} \notin C
<1> DEFINE sizes == {Cardinality(s) : s \in C}
<1>1. \A s \in C : IsFiniteSet(s) /\ Cardinality(s) \in Nat
  BY FS_Subset, FS_CardinalityType
<1>2. sizes \in SUBSET Nat /\ sizes # {}
  BY <1>1
<1>3. /\ Min(sizes) \in sizes
      /\ \A k \in sizes : Min(sizes) <= k
  BY <1>2, MinNat
<1>4. PICK s \in C : Cardinality(s) = Min(sizes)
  BY <1>3
<1>5. ASSUME NEW x \in s, s \ {x} \in C PROVE FALSE
  <2>1. Cardinality(s \ {x}) = Cardinality(s) - 1
    BY <1>1, FS_RemoveElement
  <2>2. Min(sizes) <= Cardinality(s \ {x})
    BY <1>3, <1>5
  <2>3. Cardinality(s) \in Nat
    BY <1>1
  <2> HIDE DEF sizes
  <2> QED BY <1>4, <2>1, <2>2, <2>3
<1> QED BY <1>5

(***************************************************************************)
(* A fold over a finite set exists: g gives the fold over every subset of  *)
(* S, where c chooses the element and op[x] is what element x does.        *)
(***************************************************************************)
Chooses(c, S) == \A s \in SUBSET S : s # {} => c[s] \in s

\* an operation on what is folded and what it is folded into,
Acts(op, S, T) == op \in [S -> [T -> T]]

\* g folds op over every subset of S, one chosen element at a time.
IsFold(g, base, op, c, S, T) ==
    /\ g \in [SUBSET S -> T]
    /\ \A s \in SUBSET S : g[s] = IF s = {} THEN base ELSE op[c[s]][g[s \ {c[s]}]]

\* As far as the subsets of up to n elements go.
FoldUpTo(g, base, op, c, S, T, n) ==
  /\ g \in [SUBSET S -> T]
  /\ \A s \in SUBSET S :
      Cardinality(s) <= n => g[s] = IF s = {} THEN base ELSE op[c[s]][g[s \ {c[s]}]]

\* There is such a g up to any number of elements,
LEMMA FoldExistsUpTo ==
    ASSUME NEW S, IsFiniteSet(S), NEW T, NEW base \in T,
           NEW op, Acts(op, S, T), NEW c, Chooses(c, S),
           NEW n \in Nat
    PROVE  \E g : FoldUpTo(g, base, op, c, S, T, n)
<1> DEFINE Has(k) == \E g : FoldUpTo(g, base, op, c, S, T, k)
           missing == {k \in Nat : ~ Has(k)}
<1>1. \A s \in SUBSET S : /\ IsFiniteSet(s) /\ Cardinality(s) \in Nat
                          /\ s = {} <=> Cardinality(s) = 0
                          /\ s # {} => /\ c[s] \in s /\ s \ {c[s]} \in SUBSET S
                                       /\ Cardinality(s \ {c[s]}) = Cardinality(s) - 1
  <2> SUFFICES ASSUME NEW s \in SUBSET S
               PROVE  /\ IsFiniteSet(s) /\ Cardinality(s) \in Nat
                      /\ s = {} <=> Cardinality(s) = 0
                      /\ s # {} => /\ c[s] \in s /\ s \ {c[s]} \in SUBSET S
                                   /\ Cardinality(s \ {c[s]}) = Cardinality(s) - 1
    OBVIOUS
  <2>1. IsFiniteSet(s) /\ Cardinality(s) \in Nat
    BY FS_Subset, FS_CardinalityType
  <2>2. s = {} <=> Cardinality(s) = 0
    BY <2>1, FS_EmptySet
  <2>3. s # {} => c[s] \in s
    BY DEF Chooses
  <2> QED BY <2>1, <2>2, <2>3, FS_RemoveElement
<1>2. Has(0)
  <2> DEFINE g == [s \in SUBSET S |-> base]
  <2>1. g \in [SUBSET S -> T]
    OBVIOUS
  <2>2. ASSUME NEW s \in SUBSET S, Cardinality(s) <= 0 PROVE s = {} /\ g[s] = base
    <3>1. Cardinality(s) \in Nat /\ (Cardinality(s) = 0 => s = {})
      BY <1>1
    <3>2. s = {}
      BY <2>2, <3>1
    <3> QED BY <3>2
  <2>3. FoldUpTo(g, base, op, c, S, T, 0)
    BY <2>1, <2>2 DEF FoldUpTo
  <2> QED BY <2>3
<1>3. ASSUME NEW k \in Nat, Has(k) PROVE Has(k + 1)
  <2>1. PICK g : FoldUpTo(g, base, op, c, S, T, k)
    BY <1>3
  <2> DEFINE h == [s \in SUBSET S |-> IF s = {} THEN base ELSE op[c[s]][g[s \ {c[s]}]]]
  <2>2. h \in [SUBSET S -> T]
    <3>1. ASSUME NEW s \in SUBSET S, s # {} PROVE op[c[s]][g[s \ {c[s]}]] \in T
      <4>1. c[s] \in S /\ s \ {c[s]} \in SUBSET S
        BY <1>1, <3>1
      <4>2. op[c[s]] \in [T -> T] /\ g[s \ {c[s]}] \in T
        BY <2>1, <4>1 DEF Acts, FoldUpTo
      <4> QED BY <4>2
    <3> QED BY <3>1
  <2>3. ASSUME NEW t \in SUBSET S, Cardinality(t) <= k PROVE h[t] = g[t]
    BY <2>1, <2>3 DEF FoldUpTo
  <2>4. ASSUME NEW s \in SUBSET S, Cardinality(s) <= k + 1
        PROVE  h[s] = IF s = {} THEN base ELSE op[c[s]][h[s \ {c[s]}]]
    <3>1. CASE s = {}
      BY <3>1
    <3>2. CASE s # {}
      <4>1. s \ {c[s]} \in SUBSET S /\ Cardinality(s \ {c[s]}) <= k
        <5>1. /\ s \ {c[s]} \in SUBSET S /\ Cardinality(s) \in Nat
              /\ Cardinality(s \ {c[s]}) = Cardinality(s) - 1
          BY <1>1, <3>2
        <5> QED BY <2>4, <5>1
      <4>2. h[s \ {c[s]}] = g[s \ {c[s]}]
        BY <2>3, <4>1
      <4>3. h[s] = op[c[s]][g[s \ {c[s]}]]
        BY <3>2
      <4> HIDE DEF h
      <4> QED BY <3>2, <4>2, <4>3
    <3> QED BY <3>1, <3>2
  <2>5. FoldUpTo(h, base, op, c, S, T, k + 1)
    BY <2>2, <2>4 DEF FoldUpTo
  <2> QED BY <2>5
<1> HIDE DEF Has
<1>4. missing = {}
  <2> SUFFICES ASSUME missing # {} PROVE FALSE
    OBVIOUS
  <2>1. missing \in SUBSET Nat
    OBVIOUS
  <2>2. Min(missing) \in missing /\ \A k \in missing : Min(missing) <= k
    BY <2>1, MinNat
  <2> DEFINE m == Min(missing)
  <2>3. m \in Nat /\ ~ Has(m) /\ \A k \in Nat : ~ Has(k) => m <= k
    BY <2>2
  <2> HIDE DEF m, missing
  <2>4. m # 0
    BY <1>2, <2>3
  <2>5. m - 1 \in Nat /\ ~ (m <= m - 1) /\ (m - 1) + 1 = m
    BY <2>3, <2>4
  <2>6. Has(m - 1)
    BY <2>3, <2>5
  <2> QED BY <1>3, <2>3, <2>5, <2>6
<1> QED BY <1>4 DEF Has

\* and hence for all of them.
LEMMA FoldExists ==
    ASSUME NEW S, IsFiniteSet(S), NEW T, NEW base \in T,
           NEW op, Acts(op, S, T), NEW c, Chooses(c, S)
    PROVE  \E g : IsFold(g, base, op, c, S, T)
<1>1. Cardinality(S) \in Nat
  BY FS_CardinalityType
<1>2. PICK g : FoldUpTo(g, base, op, c, S, T, Cardinality(S))
  BY <1>1, FoldExistsUpTo
<1>3. \A s \in SUBSET S : Cardinality(s) <= Cardinality(S)
  BY FS_Subset
<1> QED BY <1>2, <1>3 DEF FoldUpTo, IsFold
-----------------------------------------------------------------------------
(***************************************************************************)
(* The sums of the community modules, unfolded: g gives the sum of f over  *)
(* every subset of S.                                                      *)
(***************************************************************************)
Pick(s) == CHOOSE x \in s : TRUE

\* g adds up f over every subset of S,
AreSums(g, f, S) ==
    g = [s \in SUBSET S |-> IF s = {} THEN 0 ELSE f[Pick(s)] + g[s \ {Pick(s)}]]

\* and one that does.
Sums(f, S) == CHOOSE g : AreSums(g, f, S)

\* What the sum over a set stands for.
LEMMA SumUnfolds ==
    ASSUME NEW f, NEW S
    PROVE  SumFunctionOnSet(f, S) = Sums(f, S)[S]
BY DEF SumFunctionOnSet, FoldFunctionOnSet, MapThenFoldSet, Sums, AreSums, Pick

\* There are such sums.
LEMMA SumsAreSums ==
    ASSUME NEW S, IsFiniteSet(S), NEW f \in [S -> Nat]
    PROVE  AreSums(Sums(f, S), f, S)
<1> DEFINE op == [x \in S |-> [v \in Nat |-> f[x] + v]]
           c == [s \in SUBSET S |-> Pick(s)]
<1>1. Acts(op, S, Nat)
  BY DEF Acts
<1>2. Chooses(c, S)
  BY DEF Chooses, Pick
<1>3. \A x \in S, v \in Nat : op[x][v] = f[x] + v
  OBVIOUS
<1>4. \A s \in SUBSET S : c[s] = Pick(s)
  OBVIOUS
<1> HIDE DEF op, c
<1>5. PICK g : IsFold(g, 0, op, c, S, Nat)
  BY <1>1, <1>2, FoldExists
<1>6. ASSUME NEW s \in SUBSET S
      PROVE  g[s] = IF s = {} THEN 0 ELSE f[Pick(s)] + g[s \ {Pick(s)}]
  <2>1. CASE s = {}
    BY <1>5, <2>1 DEF IsFold
  <2>2. CASE s # {}
    <3>1. c[s] = Pick(s) /\ Pick(s) \in S /\ s \ {Pick(s)} \in SUBSET S
      BY <1>2, <1>4, <2>2 DEF Chooses
    <3>2. g[s \ {Pick(s)}] \in Nat
      BY <1>5, <3>1 DEF IsFold
    <3>3. g[s] = op[Pick(s)][g[s \ {Pick(s)}]]
      BY <1>5, <2>2, <3>1 DEF IsFold
    <3> QED BY <1>3, <2>2, <3>1, <3>2, <3>3
  <2> QED BY <2>1, <2>2
<1>7. AreSums(g, f, S)
  BY <1>5, <1>6 DEF AreSums, IsFold
<1> QED BY <1>7 DEF Sums

(***************************************************************************)
(* The sums themselves, one element at a time.                             *)
(***************************************************************************)
LEMMA SumsFacts ==
    ASSUME NEW S, IsFiniteSet(S), NEW f \in [S -> Nat]
    PROVE  /\ Sums(f, S)[{}] = 0
           /\ \A s \in SUBSET S : Sums(f, S)[s] \in Nat
           /\ \A s \in SUBSET S : s # {} =>
                /\ Pick(s) \in s /\ s \ {Pick(s)} \in SUBSET S
                /\ Sums(f, S)[s] = f[Pick(s)] + Sums(f, S)[s \ {Pick(s)}]
<1> DEFINE g == Sums(f, S)
           bad == {s \in SUBSET S : g[s] \notin Nat}
<1>1. g = [s \in SUBSET S |-> IF s = {} THEN 0 ELSE f[Pick(s)] + g[s \ {Pick(s)}]]
  BY SumsAreSums DEF AreSums
<1> HIDE DEF g
<1>2. g[{}] = 0
  BY <1>1
<1>3. ASSUME NEW s \in SUBSET S, s # {}
      PROVE  /\ Pick(s) \in s /\ s \ {Pick(s)} \in SUBSET S
             /\ g[s] = f[Pick(s)] + g[s \ {Pick(s)}]
  <2>1. Pick(s) \in s
    BY <1>3 DEF Pick
  <2> QED BY <1>1, <1>3, <2>1
<1>4. bad = {}
  <2> SUFFICES ASSUME bad # {} PROVE FALSE
    OBVIOUS
  <2>1. PICK s \in bad : \A x \in s : s \ {x} \notin bad
    BY SmallestSet
  <2>2. s \in SUBSET S /\ g[s] \notin Nat /\ s # {}
    BY <2>1, <1>2
  <2>3. Pick(s) \in s /\ s \ {Pick(s)} \in SUBSET S /\ g[s] = f[Pick(s)] + g[s \ {Pick(s)}]
    BY <1>3, <2>2
  <2>4. g[s \ {Pick(s)}] \in Nat
    BY <2>1, <2>3
  <2>5. f[Pick(s)] \in Nat
    BY <2>2, <2>3
  <2> QED BY <2>2, <2>3, <2>4, <2>5
<1> QED BY <1>2, <1>3, <1>4 DEF g

\* The sum of a function over its domain is a number.
LEMMA SumType ==
    ASSUME NEW S, IsFiniteSet(S), NEW f \in [S -> Nat]
    PROVE  SumFunction(f) = Sums(f, S)[S] /\ SumFunction(f) \in Nat
BY SumUnfolds, SumsFacts DEF SumFunction

\* A sum of zeros.
LEMMA SumZero ==
    ASSUME NEW S, IsFiniteSet(S)
    PROVE  SumFunction([i \in S |-> 0]) = 0
<1> DEFINE f == [i \in S |-> 0]
           g == Sums(f, S)
           bad == {s \in SUBSET S : g[s] # 0}
<1>1. f \in [S -> Nat] /\ \A i \in S : f[i] = 0
  OBVIOUS
<1> HIDE DEF f
<1>2. g[{}] = 0
  BY <1>1, SumsFacts
<1>3. bad = {}
  <2> SUFFICES ASSUME bad # {} PROVE FALSE
    OBVIOUS
  <2>1. PICK s \in bad : \A x \in s : s \ {x} \notin bad
    BY SmallestSet
  <2>2. s \in SUBSET S /\ g[s] # 0 /\ s # {}
    BY <2>1, <1>2
  <2>3. Pick(s) \in s /\ s \ {Pick(s)} \in SUBSET S /\ g[s] = f[Pick(s)] + g[s \ {Pick(s)}]
    BY <1>1, <2>2, SumsFacts
  <2>4. g[s \ {Pick(s)}] = 0
    BY <2>1, <2>3
  <2>5. f[Pick(s)] = 0
    BY <1>1, <2>2, <2>3
  <2> HIDE DEF g
  <2> QED BY <2>2, <2>3, <2>4, <2>5
<1>4. SumFunction(f) = g[S]
  BY <1>1, SumType
<1> QED BY <1>3, <1>4 DEF f

(***************************************************************************)
(* A sum of terms no larger than m.                                        *)
(***************************************************************************)
LEMMA SumBound ==
    ASSUME NEW S, IsFiniteSet(S), NEW f \in [S -> Nat], NEW m \in Nat,
           \A i \in S : f[i] <= m
    PROVE  SumFunction(f) <= Cardinality(S) * m
<1> DEFINE g == Sums(f, S)
           bad == {s \in SUBSET S : ~ (g[s] <= Cardinality(s) * m)}
<1>1. g[{}] = 0
  BY SumsFacts
<1>2. bad = {}
  <2> SUFFICES ASSUME bad # {} PROVE FALSE
    OBVIOUS
  <2>1. PICK s \in bad : \A x \in s : s \ {x} \notin bad
    BY SmallestSet
  <2>2. s \in SUBSET S /\ ~ (g[s] <= Cardinality(s) * m)
    BY <2>1
  <2>3. s # {}
    BY <1>1, <2>2, FS_EmptySet
  <2>4. Pick(s) \in s /\ s \ {Pick(s)} \in SUBSET S /\ g[s] = f[Pick(s)] + g[s \ {Pick(s)}]
    BY <2>2, <2>3, SumsFacts
  <2>5. g[s \ {Pick(s)}] <= Cardinality(s \ {Pick(s)}) * m
    BY <2>1, <2>4
  <2>6. /\ Cardinality(s) \in Nat /\ Cardinality(s \ {Pick(s)}) \in Nat
        /\ Cardinality(s \ {Pick(s)}) + 1 = Cardinality(s)
    BY <2>2, <2>4, FS_Subset, FS_CardinalityType, FS_RemoveElement
  <2>7. f[Pick(s)] \in Nat /\ f[Pick(s)] <= m /\ g[s \ {Pick(s)}] \in Nat
    BY <2>2, <2>4, SumsFacts
  <2> HIDE DEF g
  <2>8. ASSUME NEW c \in Nat, NEW d \in Nat, d + 1 = c PROVE c * m = d * m + m /\ d * m \in Nat
    BY <2>8
  <2>9. Cardinality(s) * m = Cardinality(s \ {Pick(s)}) * m + m
          /\ Cardinality(s \ {Pick(s)}) * m \in Nat
    BY <2>6, <2>8
  <2> QED BY <2>2, <2>4, <2>5, <2>7, <2>9
<1>3. SumFunction(f) = g[S]
  BY SumType
<1> QED BY <1>2, <1>3

(***************************************************************************)
(* A one added to the terms of some elements adds their number to the sum. *)
(***************************************************************************)
LEMMA SumOfMarks ==
    ASSUME NEW S, IsFiniteSet(S), NEW f \in [S -> Nat], NEW marks \in SUBSET S,
           NEW h, h = [i \in S |-> f[i] + (IF i \in marks THEN 1 ELSE 0)]
    PROVE  SumFunction(h) = SumFunction(f) + Cardinality(marks)
<1> DEFINE g == Sums(f, S)
           k == Sums(h, S)
           bad == {s \in SUBSET S : k[s] # g[s] + Cardinality(marks \cap s)}
<1>1. h \in [S -> Nat]
  OBVIOUS
<1>2. bad = {}
  <2> SUFFICES ASSUME bad # {} PROVE FALSE
    OBVIOUS
  <2>1. PICK s \in bad : \A x \in s : s \ {x} \notin bad
    BY SmallestSet
  <2>2. s \in SUBSET S /\ k[s] # g[s] + Cardinality(marks \cap s)
    BY <2>1
  <2>3. s # {}
    <3>1. g[{}] = 0 /\ k[{}] = 0
      BY <1>1, SumsFacts
    <3>2. Cardinality(marks \cap {}) = 0
      BY FS_EmptySet
    <3> HIDE DEF g, k
    <3> QED BY <2>2, <3>1, <3>2
  <2> DEFINE p == Pick(s)
             t == s \ {p}
  <2>4. /\ p \in s /\ t \in SUBSET S
        /\ g[s] = f[p] + g[t] /\ k[s] = h[p] + k[t]
    <3>1. p \in s /\ t \in SUBSET S /\ g[s] = f[p] + g[t]
      BY <2>2, <2>3, SumsFacts
    <3>2. k[s] = h[p] + k[t]
      BY <1>1, <2>2, <2>3, SumsFacts
    <3> QED BY <3>1, <3>2
  <2>5. k[t] = g[t] + Cardinality(marks \cap t)
    BY <2>1, <2>4
  <2>6. g[t] \in Nat /\ f[p] \in Nat /\ h[p] = f[p] + (IF p \in marks THEN 1 ELSE 0)
    BY <2>2, <2>4, SumsFacts
  <2>7. Cardinality(marks \cap t) \in Nat
          /\ Cardinality(marks \cap s) = Cardinality(marks \cap t) + (IF p \in marks THEN 1 ELSE 0)
    <3>1. IsFiniteSet(marks \cap t) /\ IsFiniteSet(marks \cap s)
      BY FS_Subset
    <3>2. CASE p \in marks
      <4>1. marks \cap s = (marks \cap t) \cup {p} /\ p \notin marks \cap t
        BY <2>4, <3>2
      <4> QED BY <3>1, <3>2, <4>1, FS_AddElement, FS_CardinalityType
    <3>3. CASE p \notin marks
      <4>1. marks \cap s = marks \cap t
        BY <3>3
      <4>2. Cardinality(marks \cap t) + 0 = Cardinality(marks \cap t)
        BY <3>1, FS_CardinalityType
      <4> QED BY <3>1, <3>3, <4>1, <4>2, FS_CardinalityType
    <3> QED BY <3>2, <3>3
  <2> HIDE DEF g, k, p, t
  <2> QED BY <2>2, <2>4, <2>5, <2>6, <2>7
<1>3. k[S] = g[S] + Cardinality(marks \cap S)
  BY <1>2
<1>4. marks \cap S = marks
  OBVIOUS
<1>5. SumFunction(f) = g[S] /\ SumFunction(h) = k[S]
  BY <1>1, SumType
<1> HIDE DEF g, k
<1> QED BY <1>3, <1>4, <1>5

(***************************************************************************)
(* Sets without a common element count apart.                              *)
(***************************************************************************)
LEMMA DisjointUnion ==
    ASSUME NEW A, NEW B, IsFiniteSet(A), IsFiniteSet(B), A \cap B = {}
    PROVE  /\ IsFiniteSet(A \cup B)
           /\ Cardinality(A \cup B) = Cardinality(A) + Cardinality(B)
<1>1. Cardinality(A \cap B) = 0
  BY FS_EmptySet
<1>2. Cardinality(A) \in Nat /\ Cardinality(B) \in Nat
  BY FS_CardinalityType
<1>3. /\ IsFiniteSet(A \cup B)
      /\ Cardinality(A \cup B) = Cardinality(A) + Cardinality(B) - Cardinality(A \cap B)
  BY FS_Union
<1> QED BY <1>1, <1>2, <1>3
=============================================================================
