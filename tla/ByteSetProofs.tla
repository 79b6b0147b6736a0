---------------------------- MODULE ByteSetProofs ----------------------------
(***************************************************************************)
(* Proofs that a ByteSet holds the values its documentation says it holds, *)
(* after any sequence of edits, for bytes, words and tables of any size.   *)
(***************************************************************************)
EXTENDS ByteSetUse, BitSetLemmas

(***************************************************************************)
(* Division by a positive number: quotient and remainder name a number,    *)
(* and order it.                                                           *)
(***************************************************************************)
LEMMA DivMod ==
    ASSUME NEW d \in Nat \ {0}, NEW v \in Nat
    PROVE  /\ v \div d \in Nat
           /\ v % d \in 0 .. d - 1
           /\ v = d * (v \div d) + (v % d)
<1> QED BY SMT

\* A smaller quotient is smaller by a whole divisor at least.
LEMMA Less ==
    ASSUME NEW d \in Nat \ {0}, NEW p \in Nat, NEW q \in Nat, p < q
    PROVE  d * p + d <= d * q
<1>1. d * q = d * p + d * (q - p) /\ q - p >= 1 /\ q - p \in Nat
  BY SMT
<1>2. d * (q - p) >= d
  <2>1. ASSUME NEW k \in Nat, k >= 1 PROVE d * k >= d
    BY <2>1, SMT
  <2> QED BY <1>1, <2>1
<1>3. d * p \in Nat /\ d * q \in Nat /\ d * (q - p) \in Nat
  BY <1>1
<1> QED BY <1>1, <1>2, <1>3

\* Only one quotient and one remainder below the divisor make up a number,
LEMMA DivModUnique ==
    ASSUME NEW d \in Nat \ {0}, NEW q \in Nat, NEW r \in 0 .. d - 1, NEW v, v = d * q + r
    PROVE  v \in Nat /\ v \div d = q /\ v % d = r
<1>1. v \in Nat /\ d * q \in Nat
  OBVIOUS
<1> DEFINE p == v \div d
           s == v % d
<1>2. p \in Nat /\ s \in 0 .. d - 1 /\ v = d * p + s
  BY <1>1, DivMod
<1> HIDE DEF p, s
<1>6. d * p \in Nat
  BY <1>2
<1>3. ~ (p < q)
  <2> SUFFICES ASSUME p < q PROVE FALSE
    OBVIOUS
  <2>1. d * p + d <= d * q
    BY <1>2, Less
  <2> QED BY <1>1, <1>2, <1>6, <2>1
<1>4. ~ (q < p)
  <2> SUFFICES ASSUME q < p PROVE FALSE
    OBVIOUS
  <2>1. d * q + d <= d * p
    BY <1>2, Less
  <2> QED BY <1>1, <1>2, <1>6, <2>1
<1>5. p = q
  BY <1>2, <1>3, <1>4
<1>7. s = r
  BY <1>1, <1>2, <1>5
<1> QED BY <1>1, <1>5, <1>7 DEF p, s

\* numbers are ordered by the quotient, then by the remainder,
LEMMA DivOrder ==
    ASSUME NEW d \in Nat \ {0}, NEW u \in Nat, NEW v \in Nat
    PROVE  u <= v <=> \/ u \div d < v \div d
                      \/ u \div d = v \div d /\ u % d <= v % d
<1> DEFINE p == u \div d
           q == v \div d
           r == u % d
           s == v % d
<1>5. p \in Nat /\ r \in 0 .. d - 1 /\ u = d * p + r
  BY DivMod
<1>6. q \in Nat /\ s \in 0 .. d - 1 /\ v = d * q + s
  BY DivMod
<1> HIDE DEF p, q, r, s
<1>1. /\ p \in Nat /\ r \in 0 .. d - 1 /\ u = d * p + r /\ d * p \in Nat
      /\ q \in Nat /\ s \in 0 .. d - 1 /\ v = d * q + s /\ d * q \in Nat
  BY <1>5, <1>6
<1>2. CASE p < q
  <2>1. d * p + d <= d * q
    BY <1>1, <1>2, Less
  <2> QED BY <1>1, <1>2, <2>1 DEF p, q
<1>3. CASE q < p
  <2>1. d * q + d <= d * p
    BY <1>1, <1>3, Less
  <2>2. ~ (u <= v)
    BY <1>1, <2>1
  <2>3. ~ (p < q) /\ ~ (p = q)
    BY <1>1, <1>3
  <2> QED BY <2>2, <2>3 DEF p, q
<1>4. CASE p = q
  <2>1. u <= v <=> r <= s
    BY <1>1, <1>4
  <2>2. ~ (p < q)
    BY <1>1, <1>4
  <2> QED BY <1>4, <2>1, <2>2 DEF p, q, r, s
<1> QED BY <1>1, <1>2, <1>3, <1>4
-----------------------------------------------------------------------------
(***************************************************************************)
(* The byte and the bit of a value.                                        *)
(***************************************************************************)
LEMMA Sizes ==
    /\ ByteBits \in Nat \ {0} /\ WordBytes \in Nat \ {0} /\ Words \in Nat \ {0}
    /\ TableBytes \in Nat \ {0} /\ TableBits \in Nat \ {0} /\ WordBits \in Nat \ {0}
<1>1. ByteBits \in Nat \ {0} /\ WordBytes \in Nat \ {0} /\ Words \in Nat \ {0}
  BY TableAssumption
<1>2. ASSUME NEW a \in Nat \ {0}, NEW b \in Nat \ {0} PROVE a * b \in Nat \ {0}
  BY SMT
<1>3. TableBytes \in Nat \ {0} /\ WordBits \in Nat \ {0}
  BY <1>1, <1>2 DEF TableBytes, WordBits
<1>4. TableBits \in Nat \ {0}
  BY <1>1, <1>2, <1>3 DEF TableBits
<1> QED BY <1>1, <1>3, <1>4

\* and are below a multiple of the divisor as the quotient is below the factor.
LEMMA QuotientBound ==
    ASSUME NEW d \in Nat \ {0}, NEW n \in Nat, NEW v \in Nat
    PROVE  v < n * d <=> v \div d < n
<1> DEFINE q == v \div d
           r == v % d
<1>1. q \in Nat /\ r \in 0 .. d - 1 /\ v = d * q + r
  BY DivMod
<1> HIDE DEF q, r
<1>2. d * q \in Nat /\ n * d = d * n /\ d * n \in Nat
  BY <1>1
<1>3. CASE q < n
  <2>1. d * q + d <= d * n
    BY <1>1, <1>3, Less
  <2> QED BY <1>1, <1>2, <1>3, <2>1 DEF q
<1>4. CASE ~ (q < n)
  <2>1. d * n <= d * q
    <3>1. CASE q = n
      BY <1>2, <3>1
    <3>2. CASE n < q
      <4>1. d * n + d <= d * q
        BY <1>1, <3>2, Less
      <4> QED BY <1>2, <4>1
    <3> QED BY <1>1, <1>4, <3>1, <3>2
  <2> QED BY <1>1, <1>2, <1>4, <2>1 DEF q
<1> QED BY <1>3, <1>4

\* Every value has a byte of the table and a bit of a byte,
LEMMA ValueFacts ==
    ASSUME NEW v \in Value
    PROVE  /\ v \in Nat
           /\ v \div ByteBits \in 0 .. TableBytes - 1
           /\ v % ByteBits \in Byte
<1>1. v \in Nat /\ v < TableBits
  BY Sizes DEF Value
<1>2. v \div ByteBits < TableBytes
  BY <1>1, Sizes, QuotientBound DEF TableBits
<1>3. v \div ByteBits \in Nat /\ v % ByteBits \in 0 .. ByteBits - 1
  BY <1>1, Sizes, DivMod
<1> QED BY <1>1, <1>2, <1>3, Sizes DEF Byte

\* that no other value has.
LEMMA SameValue ==
    ASSUME NEW u \in Value, NEW v \in Value,
           u \div ByteBits = v \div ByteBits, u % ByteBits = v % ByteBits
    PROVE  u = v
<1>1. u \in Nat /\ v \in Nat
  BY ValueFacts
<1>2. /\ u = ByteBits * (u \div ByteBits) + (u % ByteBits)
      /\ v = ByteBits * (v \div ByteBits) + (v % ByteBits)
  BY <1>1, Sizes, DivMod
<1> QED BY <1>2
-----------------------------------------------------------------------------
(***************************************************************************)
(* What the edits do: table t holds the values M.                          *)
(***************************************************************************)
Holds(t, M) ==
    /\ t \in Table
    /\ M \in SUBSET Value
    /\ \A v \in Value : contains(t, v) <=> v \in M

\* ByteSet::new holds nothing.
LEMMA HoldsNew == Holds(new, {})
<1>1. new \in Table
  BY DEF new, Table
<1>2. \A v \in Value : ~ contains(new, v)
  BY ValueFacts DEF new, contains
<1> QED BY <1>1, <1>2 DEF Holds

\* add adds its value and touches no other,
LEMMA HoldsAdd ==
    ASSUME NEW t, NEW M, Holds(t, M), NEW v \in Value
    PROVE  Holds(add(t, v), M \cup {v})
<1>1. /\ t \in Table /\ M \in SUBSET Value
      /\ v \div ByteBits \in 0 .. TableBytes - 1 /\ v % ByteBits \in Byte
  BY ValueFacts DEF Holds
<1>2. add(t, v) \in Table
  BY <1>1 DEF add, Table
<1>3. ASSUME NEW u \in Value PROVE contains(add(t, v), u) <=> u \in M \cup {v}
  <2>1. contains(t, u) <=> u \in M
    BY DEF Holds
  <2>2. u \div ByteBits \in 0 .. TableBytes - 1
    BY ValueFacts
  <2>3. contains(add(t, v), u)
          <=> contains(t, u) \/ (u \div ByteBits = v \div ByteBits /\ u % ByteBits = v % ByteBits)
    BY <1>1, <2>2 DEF contains, add, Table
  <2>4. u \div ByteBits = v \div ByteBits /\ u % ByteBits = v % ByteBits <=> u = v
    BY SameValue
  <2> QED BY <2>1, <2>3, <2>4
<1> QED BY <1>1, <1>2, <1>3 DEF Holds

\* remove removes its value and touches no other,
LEMMA HoldsRemove ==
    ASSUME NEW t, NEW M, Holds(t, M), NEW v \in Value
    PROVE  Holds(remove(t, v), M \ {v})
<1>1. /\ t \in Table /\ M \in SUBSET Value
      /\ v \div ByteBits \in 0 .. TableBytes - 1 /\ v % ByteBits \in Byte
  BY ValueFacts DEF Holds
<1>2. remove(t, v) \in Table
  BY <1>1 DEF remove, Table
<1>3. ASSUME NEW u \in Value PROVE contains(remove(t, v), u) <=> u \in M \ {v}
  <2>1. contains(t, u) <=> u \in M
    BY DEF Holds
  <2>2. u \div ByteBits \in 0 .. TableBytes - 1
    BY ValueFacts
  <2>3. contains(remove(t, v), u)
          <=> contains(t, u) /\ ~ (u \div ByteBits = v \div ByteBits /\ u % ByteBits = v % ByteBits)
    BY <1>1, <2>2 DEF contains, remove, Table
  <2>4. u \div ByteBits = v \div ByteBits /\ u % ByteBits = v % ByteBits <=> u = v
    BY SameValue
  <2> QED BY <2>1, <2>3, <2>4
<1> QED BY <1>1, <1>2, <1>3 DEF Holds

\* invert swaps the values held and those that are not,
LEMMA HoldsInvert ==
    ASSUME NEW t, NEW M, Holds(t, M)
    PROVE  Holds(invert(t), Value \ M)
<1>1. t \in Table
  BY DEF Holds
<1>2. invert(t) \in Table
  BY <1>1 DEF invert, Table
<1>3. ASSUME NEW v \in Value PROVE contains(invert(t), v) <=> v \in Value \ M
  <2>1. contains(t, v) <=> v \in M
    BY DEF Holds
  <2>2. v \div ByteBits \in 0 .. TableBytes - 1 /\ v % ByteBits \in Byte
    BY ValueFacts
  <2> QED BY <1>1, <2>1, <2>2 DEF contains, invert, Table
<1> QED BY <1>2, <1>3 DEF Holds

\* and the set operations combine two tables value by value.
LEMMA HoldsCombined ==
    ASSUME NEW t, NEW M, Holds(t, M), NEW u, NEW N, Holds(u, N)
    PROVE  /\ Holds(union(t, u), M \cup N)
           /\ Holds(intersection(t, u), M \cap N)
           /\ Holds(difference(t, u), M \ N)
           /\ Holds(symmetric_difference(t, u), (M \ N) \cup (N \ M))
<1>1. t \in Table /\ u \in Table /\ M \in SUBSET Value /\ N \in SUBSET Value
  BY DEF Holds
<1>2. ASSUME NEW v \in Value
      PROVE  /\ contains(t, v) <=> v \in M
             /\ contains(u, v) <=> v \in N
             /\ v \div ByteBits \in 0 .. TableBytes - 1 /\ v % ByteBits \in Byte
  BY ValueFacts DEF Holds
<1>3. union(t, u) \in Table
  BY <1>1 DEF union, Table
<1>4. \A v \in Value : contains(union(t, u), v) <=> v \in M \cup N
  BY <1>1, <1>2 DEF union, contains, Table
<1>5. intersection(t, u) \in Table
  BY <1>1 DEF intersection, Table
<1>6. \A v \in Value : contains(intersection(t, u), v) <=> v \in M \cap N
  BY <1>1, <1>2 DEF intersection, contains, Table
<1>7. difference(t, u) \in Table
  BY <1>1 DEF difference, Table
<1>8. \A v \in Value : contains(difference(t, u), v) <=> v \in M \ N
  BY <1>1, <1>2 DEF difference, contains, Table
<1>9. symmetric_difference(t, u) \in Table
  BY <1>1 DEF symmetric_difference, Table
<1>10. \A v \in Value :
         contains(symmetric_difference(t, u), v) <=> v \in (M \ N) \cup (N \ M)
  BY <1>1, <1>2 DEF symmetric_difference, contains, Table
<1> QED BY <1>1, <1>3, <1>4, <1>5, <1>6, <1>7, <1>8, <1>9, <1>10 DEF Holds
\* The masks of a range's first and last byte.
LEMMA MaskFacts ==
    ASSUME NEW v \in Value
    PROVE  /\ FromStart(v) \in SUBSET Byte /\ ThroughLast(v) \in SUBSET Byte
           /\ \A b \in Byte : /\ b \in FromStart(v) <=> v % ByteBits <= b
                              /\ b \in ThroughLast(v) <=> b <= v % ByteBits
<1> DEFINE r == v % ByteBits
           k == ByteBits - 1 - r
<1>1. ByteBits \in Nat \ {0} /\ r \in 0 .. ByteBits - 1
  BY Sizes, ValueFacts DEF Byte
<1> HIDE DEF r
<1>2. r .. ByteBits - 1 \in SUBSET Byte
        /\ \A b \in Byte : b \in r .. ByteBits - 1 <=> r <= b
  BY <1>1 DEF Byte
<1>3. FromStart(v) = r .. ByteBits - 1
  BY DEF FromStart, HighMask, r
<1>4. ThroughLast(v) = Shr(Byte, k)
  BY DEF ThroughLast, r
<1>5. k \in Nat
  BY <1>1
<1>6. ASSUME NEW b PROVE b \in Shr(Byte, k) <=> b \in Byte /\ b <= r
  <2>1. b \in Shr(Byte, k) => b \in Byte /\ b <= r
    <3> SUFFICES ASSUME b \in Shr(Byte, k) PROVE b \in Byte /\ b <= r
      OBVIOUS
    <3>1. PICK c \in Byte : c >= k /\ b = c - k
      BY DEF Shr
    <3> QED BY <1>1, <3>1 DEF Byte
  <2>2. b \in Byte /\ b <= r => b \in Shr(Byte, k)
    <3> SUFFICES ASSUME b \in Byte, b <= r PROVE b \in Shr(Byte, k)
      OBVIOUS
    <3>1. b + k \in Byte /\ b + k >= k /\ (b + k) - k = b
      BY <1>1 DEF Byte
    <3> HIDE DEF k
    <3> QED BY <3>1 DEF Shr
  <2> QED BY <2>1, <2>2
<1> HIDE DEF k
<1>7. ThroughLast(v) \in SUBSET Byte
        /\ \A b \in Byte : b \in ThroughLast(v) <=> b <= r
  BY <1>4, <1>6
<1> QED BY <1>2, <1>3, <1>7 DEF r

(***************************************************************************)
(* add_byte_range, whether the range lies in a byte or spans several.      *)
(***************************************************************************)
LEMMA HoldsAddRange ==
    ASSUME NEW t, NEW M, Holds(t, M), NEW start \in Value, NEW last \in Value
    PROVE  Holds(add_byte_range(t, start, last), M \cup (start .. last))
<1> DEFINE i == start \div ByteBits
           j == last \div ByteBits
           u == add_byte_range(t, start, last)
<1>1. t \in Table /\ M \in SUBSET Value
  BY DEF Holds
<1>2. /\ start \in Nat /\ i \in 0 .. TableBytes - 1
      /\ last \in Nat /\ j \in 0 .. TableBytes - 1
  BY ValueFacts
<1>3. /\ FromStart(start) \in SUBSET Byte /\ ThroughLast(last) \in SUBSET Byte
      /\ \A b \in Byte : /\ b \in FromStart(start) <=> start % ByteBits <= b
                         /\ b \in ThroughLast(last) <=> b <= last % ByteBits
  BY MaskFacts
<1>4. M \cup (start .. last) \in SUBSET Value
  <2>1. ASSUME NEW v \in start .. last PROVE v \in Value
    <3>1. start \in Int /\ last \in Int /\ 0 <= start /\ last <= TableBits - 1 /\ TableBits \in Int
      BY Sizes DEF Value
    <3> QED BY <3>1 DEF Value
  <2> QED BY <1>1, <2>1
<1>5. ASSUME NEW v \in Value
      PROVE  /\ v \in Nat /\ v \div ByteBits \in 0 .. TableBytes - 1 /\ v % ByteBits \in Byte
             /\ contains(t, v) <=> v \in M
             /\ start <= v <=> \/ i < v \div ByteBits
                               \/ i = v \div ByteBits /\ start % ByteBits <= v % ByteBits
             /\ v <= last <=> \/ v \div ByteBits < j
                              \/ v \div ByteBits = j /\ v % ByteBits <= last % ByteBits
             /\ v \in start .. last <=> start <= v /\ v <= last
  <2>1. v \in Nat /\ v \div ByteBits \in 0 .. TableBytes - 1 /\ v % ByteBits \in Byte
    BY ValueFacts
  <2>2. contains(t, v) <=> v \in M
    BY DEF Holds
  <2>3. start <= v <=> \/ i < v \div ByteBits
                       \/ i = v \div ByteBits /\ start % ByteBits <= v % ByteBits
    BY <1>2, <2>1, Sizes, DivOrder
  <2>4. v <= last <=> \/ v \div ByteBits < j
                      \/ v \div ByteBits = j /\ v % ByteBits <= last % ByteBits
    BY <1>2, <2>1, Sizes, DivOrder
  <2>5. v \in start .. last <=> start <= v /\ v <= last
    BY <1>2, <2>1
  <2> HIDE DEF i, j
  <2> QED BY <2>1, <2>2, <2>3, <2>4, <2>5
<1>6. CASE start > last
  <2>1. u = t
    BY <1>2, <1>6 DEF add_byte_range
  <2>2. start .. last = {}
    BY <1>2, <1>6
  <2> QED BY <2>1, <2>2
<1>7. CASE start <= last /\ i = j
  <2>1. u = [t EXCEPT ![i] = @ \cup (FromStart(start) \cap ThroughLast(last))]
    BY <1>2, <1>7 DEF add_byte_range
  <2> HIDE DEF i, j, u
  <2>2. u \in Table
    BY <1>1, <1>2, <1>3, <2>1 DEF Table
  <2>3. ASSUME NEW v \in Value PROVE contains(u, v) <=> v \in M \cup (start .. last)
    <3>1. contains(u, v) <=> \/ contains(t, v)
                             \/ /\ i = v \div ByteBits
                                /\ v % ByteBits \in FromStart(start)
                                /\ v % ByteBits \in ThroughLast(last)
      BY <1>1, <1>2, <1>5, <2>1 DEF contains, Table
    <3>2. v \in start .. last <=> /\ i = v \div ByteBits
                                  /\ start % ByteBits <= v % ByteBits
                                  /\ v % ByteBits <= last % ByteBits
      <4> DEFINE k == v \div ByteBits
      <4>1. k \in Int /\ i \in Int /\ i = j
        BY <1>2, <1>5, <1>7
      <4>2. start <= v <=> i < k \/ (i = k /\ start % ByteBits <= v % ByteBits)
        BY <1>5
      <4>3. v <= last <=> k < j \/ (k = j /\ v % ByteBits <= last % ByteBits)
        BY <1>5
      <4>4. v \in start .. last <=> start <= v /\ v <= last
        BY <1>5
      <4> HIDE DEF k
      <4>5. v \in start .. last <=> /\ i = k /\ start % ByteBits <= v % ByteBits
                                    /\ v % ByteBits <= last % ByteBits
        BY <4>1, <4>2, <4>3, <4>4
      <4> QED BY <4>5 DEF k
    <3> QED BY <1>3, <1>5, <3>1, <3>2
  <2> QED BY <1>4, <2>2, <2>3 DEF Holds, u
<1>8. CASE start <= last /\ i # j
  <2>1. u = [k \in DOMAIN t |->
               CASE k = i -> t[k] \cup FromStart(start)
                 [] i < k /\ k < j -> Byte
                 [] k = j -> t[k] \cup ThroughLast(last)
                 [] OTHER -> t[k]]
    BY <1>2, <1>8 DEF add_byte_range
  <2>2. i < j
    <3>1. start \div ByteBits < last \div ByteBits \/ start \div ByteBits = last \div ByteBits
      BY <1>2, <1>8, Sizes, DivOrder
    <3> QED BY <1>8, <3>1
  <2> HIDE DEF i, j, u
  <2>3. ASSUME NEW k \in 0 .. TableBytes - 1
        PROVE  u[k] = t[k] \cup (IF k = i THEN FromStart(start) ELSE {})
                           \cup (IF i < k /\ k < j THEN Byte ELSE {})
                           \cup (IF k = j THEN ThroughLast(last) ELSE {})
    <3>1. k \in DOMAIN t /\ t[k] \in SUBSET Byte /\ k \in Int /\ i \in Int /\ j \in Int
      BY <1>1, <1>2 DEF Table
    <3>2. u[k] = CASE k = i -> t[k] \cup FromStart(start)
                   [] i < k /\ k < j -> Byte
                   [] k = j -> t[k] \cup ThroughLast(last)
                   [] OTHER -> t[k]
      BY <2>1, <3>1
    <3>3. CASE k = i
      BY <2>2, <3>1, <3>2, <3>3
    <3>4. CASE i < k /\ k < j
      BY <2>2, <3>1, <3>2, <3>4
    <3>5. CASE k = j
      BY <2>2, <3>1, <3>2, <3>5
    <3>6. CASE k # i /\ ~ (i < k /\ k < j) /\ k # j
      BY <2>2, <3>1, <3>2, <3>6
    <3> QED BY <3>3, <3>4, <3>5, <3>6
  <2>4. u \in Table
    <3>1. DOMAIN u = 0 .. TableBytes - 1 /\ u = [k \in 0 .. TableBytes - 1 |-> u[k]]
      BY <1>1, <2>1 DEF Table
    <3>2. ASSUME NEW k \in 0 .. TableBytes - 1 PROVE u[k] \in SUBSET Byte
      <4>1. t[k] \in SUBSET Byte
        BY <1>1 DEF Table
      <4> QED BY <1>3, <2>3, <4>1
    <3> QED BY <3>1, <3>2 DEF Table
  <2>5. ASSUME NEW v \in Value PROVE contains(u, v) <=> v \in M \cup (start .. last)
    <3> DEFINE k == v \div ByteBits
               b == v % ByteBits
    <3>1. /\ k \in 0 .. TableBytes - 1 /\ b \in Byte
          /\ contains(u, v) <=> b \in u[k]
          /\ contains(t, v) <=> b \in t[k]
          /\ contains(t, v) <=> v \in M
          /\ start <= v <=> i < k \/ (i = k /\ start % ByteBits <= b)
          /\ v <= last <=> k < j \/ (k = j /\ b <= last % ByteBits)
          /\ v \in start .. last <=> start <= v /\ v <= last
      BY <1>5 DEF contains
    <3> HIDE DEF k, b
    <3>2. /\ b \in FromStart(start) <=> start % ByteBits <= b
          /\ b \in ThroughLast(last) <=> b <= last % ByteBits
      BY <1>3, <3>1
    <3>3. k \in Int /\ i \in Int /\ j \in Int
      BY <1>2, <3>1
    <3>4. b \in u[k] <=> \/ b \in t[k]
                         \/ k = i /\ b \in FromStart(start)
                         \/ i < k /\ k < j
                         \/ k = j /\ b \in ThroughLast(last)
      BY <2>3, <3>1
    <3>5. v \in start .. last <=> \/ k = i /\ b \in FromStart(start)
                                  \/ i < k /\ k < j
                                  \/ k = j /\ b \in ThroughLast(last)
      BY <2>2, <3>1, <3>2, <3>3
    <3> QED BY <3>1, <3>4, <3>5
  <2> QED BY <1>4, <2>4, <2>5 DEF Holds, u
<1>9. start > last \/ start <= last
  BY <1>2
<1> QED BY <1>6, <1>7, <1>8, <1>9

\* remove_range takes away what add_byte_range puts into an empty table.
LEMMA HoldsRemoveRange ==
    ASSUME NEW t, NEW M, Holds(t, M), NEW start \in Value, NEW last \in Value
    PROVE  Holds(remove_range(t, start, last), M \ (start .. last))
<1>1. Holds(add_byte_range(new, start, last), {} \cup (start .. last))
  BY HoldsNew, HoldsAddRange
<1>2. {} \cup (start .. last) = start .. last
  OBVIOUS
<1>3. Holds(add_byte_range(new, start, last), start .. last)
  BY <1>1, <1>2
<1> QED BY <1>3, HoldsCombined DEF remove_range
-----------------------------------------------------------------------------
(***************************************************************************)
(* add_all, a fold: g gives the table after the bytes at the indices s.    *)
(***************************************************************************)
AreEdits(g, t, bytes) ==
    g = [s \in SUBSET DOMAIN bytes |->
           IF s = {} THEN t ELSE add(g[s \ {Max(s)}], bytes[Max(s)])]

\* one of them: FoldExists gives one for every list of bytes.
Edits(t, bytes) == CHOOSE g : AreEdits(g, t, bytes)

\* What add_all's fold stands for.
LEMMA AddAllUnfolds ==
    ASSUME NEW t, NEW bytes
    PROVE  add_all(t, bytes) = Edits(t, bytes)[DOMAIN bytes]
BY DEF add_all, FoldLeft, MapThenFoldSet, Edits, AreEdits

\* The indices of a slice.
LEMMA IndexFacts ==
    ASSUME NEW bytes \in Seq(Value)
    PROVE  /\ IsFiniteSet(DOMAIN bytes)
           /\ \A i \in DOMAIN bytes : bytes[i] \in Value
           /\ \A s \in SUBSET DOMAIN bytes :
                /\ IsFiniteSet(s) /\ Cardinality(s) \in Nat
                /\ s = {} <=> Cardinality(s) = 0
                /\ s # {} => /\ Max(s) \in s /\ s \ {Max(s)} \in SUBSET DOMAIN bytes
                             /\ Cardinality(s \ {Max(s)}) = Cardinality(s) - 1
<1>1. Len(bytes) \in Nat /\ DOMAIN bytes = 1 .. Len(bytes)
  OBVIOUS
<1>2. IsFiniteSet(DOMAIN bytes)
  BY <1>1, FS_Interval
<1>3. \A i \in DOMAIN bytes : bytes[i] \in Value
  OBVIOUS
<1>4. ASSUME NEW s \in SUBSET DOMAIN bytes
      PROVE  /\ IsFiniteSet(s) /\ Cardinality(s) \in Nat
             /\ s = {} <=> Cardinality(s) = 0
             /\ s # {} => /\ Max(s) \in s /\ s \ {Max(s)} \in SUBSET DOMAIN bytes
                          /\ Cardinality(s \ {Max(s)}) = Cardinality(s) - 1
  <2>1. IsFiniteSet(s) /\ Cardinality(s) \in Nat
    BY <1>2, FS_Subset, FS_CardinalityType
  <2>2. s = {} <=> Cardinality(s) = 0
    BY <2>1, FS_EmptySet
  <2>3. s \in SUBSET (0 .. Len(bytes))
    BY <1>1
  <2>4. s # {} => Max(s) \in s
    BY <1>1, <2>3, MaxNat
  <2> QED BY <2>1, <2>2, <2>4, FS_RemoveElement
<1> QED BY <1>2, <1>3, <1>4

\* Adding a value leaves a table.
LEMMA AddType ==
    ASSUME NEW t \in Table, NEW v \in Value
    PROVE  add(t, v) \in Table
<1>1. v % ByteBits \in Byte
  BY ValueFacts
<1> QED BY <1>1 DEF add, Table

\* The tables on the way.
LEMMA EditsFacts ==
    ASSUME NEW t \in Table, NEW bytes \in Seq(Value)
    PROVE  /\ Edits(t, bytes)[{}] = t
           /\ \A s \in SUBSET DOMAIN bytes :
                s # {} => Edits(t, bytes)[s] = add(Edits(t, bytes)[s \ {Max(s)}], bytes[Max(s)])
<1> DEFINE D == DOMAIN bytes
           op == [i \in D |-> [u \in Table |-> add(u, bytes[i])]]
           c == [s \in SUBSET D |-> Max(s)]
<1>1. IsFiniteSet(D) /\ \A i \in D : bytes[i] \in Value
  BY IndexFacts
<1>2. Acts(op, D, Table)
  BY <1>1, AddType DEF Acts
<1>3. Chooses(c, D)
  BY IndexFacts DEF Chooses
<1>4. \A i \in D, u \in Table : op[i][u] = add(u, bytes[i])
  OBVIOUS
<1>5. \A s \in SUBSET D : c[s] = Max(s)
  OBVIOUS
<1> HIDE DEF op, c
<1>6. PICK g : IsFold(g, t, op, c, D, Table)
  BY <1>1, <1>2, <1>3, FoldExists
<1>7. ASSUME NEW s \in SUBSET D
       PROVE  g[s] = IF s = {} THEN t ELSE add(g[s \ {Max(s)}], bytes[Max(s)])
  <2>1. CASE s = {}
    BY <1>6, <2>1 DEF IsFold
  <2>2. CASE s # {}
    <3>1. c[s] = Max(s) /\ Max(s) \in D /\ s \ {Max(s)} \in SUBSET D
      BY <1>3, <1>5, <2>2 DEF Chooses
    <3>2. g[s \ {Max(s)}] \in Table
      BY <1>6, <3>1 DEF IsFold
    <3>3. g[s] = op[Max(s)][g[s \ {Max(s)}]]
      BY <1>6, <2>2, <3>1 DEF IsFold
    <3> QED BY <1>4, <2>2, <3>1, <3>2, <3>3
  <2> QED BY <2>1, <2>2
<1>8. AreEdits(g, t, bytes)
  BY <1>6, <1>7 DEF AreEdits, IsFold
<1>9. AreEdits(Edits(t, bytes), t, bytes)
  BY <1>8 DEF Edits
<1> DEFINE e == Edits(t, bytes)
<1>10. e = [s \in SUBSET DOMAIN bytes |->
             IF s = {} THEN t ELSE add(e[s \ {Max(s)}], bytes[Max(s)])]
  BY <1>9 DEF AreEdits
<1> HIDE DEF e
<1>11. e[{}] = t
  BY <1>10
<1>12. ASSUME NEW s \in SUBSET DOMAIN bytes, s # {}
      PROVE  e[s] = add(e[s \ {Max(s)}], bytes[Max(s)])
  BY <1>10, <1>12
<1> QED BY <1>11, <1>12 DEF e

(***************************************************************************)
(* add_all adds the bytes of a slice, repeated ones or not.                *)
(***************************************************************************)
LEMMA HoldsAddAll ==
    ASSUME NEW t, NEW M, Holds(t, M), NEW bytes \in Seq(Value)
    PROVE  Holds(add_all(t, bytes), M \cup Range(bytes))
<1> DEFINE D == DOMAIN bytes
           e == Edits(t, bytes)
           At(s) == {bytes[i] : i \in s}
           bad == {s \in SUBSET D : ~ Holds(e[s], M \cup At(s))}
<1>1. bad = {}
  <2> SUFFICES ASSUME bad # {} PROVE FALSE
    OBVIOUS
  <2>1. PICK s \in bad : \A x \in s : s \ {x} \notin bad
    BY IndexFacts, SmallestSet
  <2>2. s \in SUBSET D /\ ~ Holds(e[s], M \cup At(s))
    BY <2>1
  <2>3. s # {}
    <3>1. e[{}] = t /\ M \cup At({}) = M
      BY EditsFacts DEF Holds
    <3> HIDE DEF e, At
    <3> QED BY <2>2, <3>1
  <2> DEFINE x == Max(s)
             r == s \ {x}
  <2>4. x \in s /\ r \in SUBSET D /\ bytes[x] \in Value
    BY <2>2, <2>3, IndexFacts
  <2>5. e[s] = add(e[r], bytes[x])
    BY <2>2, <2>3, EditsFacts DEF Holds
  <2>6. Holds(e[r], M \cup At(r))
    BY <2>1, <2>4
  <2>7. (M \cup At(r)) \cup {bytes[x]} = M \cup At(s)
    BY <2>4
  <2> HIDE DEF x, r, e, At
  <2>8. Holds(add(e[r], bytes[x]), (M \cup At(r)) \cup {bytes[x]})
    BY <2>4, <2>6, HoldsAdd
  <2> QED BY <2>2, <2>5, <2>7, <2>8
<1>2. Holds(e[D], M \cup At(D))
  BY <1>1
<1>3. At(D) = Range(bytes)
  BY DEF Range
<1>4. add_all(t, bytes) = e[D]
  BY AddAllUnfolds
<1> QED BY <1>2, <1>3, <1>4
-----------------------------------------------------------------------------
(***************************************************************************)
(* inclusive_range: either end of any bounds, as a value or as none.       *)
(***************************************************************************)
LEMMA BoundsFacts ==
    ASSUME NEW e \in Bounds
    PROVE  \/ e[1] = "included" /\ e[2] \in Value
           \/ e[1] = "excluded" /\ e[2] \in Value
           \/ e[1] = "unbounded"
BY DEF Bounds

\* The values a range starts with, as the two kinds of bound say.
LEMMA RangeStartFacts ==
    ASSUME NEW start \in Bounds
    PROVE  \/ RangeStart(start) = None /\ \A v \in Value : ~ AboveStart(start, v)
           \/ /\ RangeStart(start) \in Value
              /\ \A v \in Value : AboveStart(start, v) <=> RangeStart(start) <= v
<1>1. TableBits \in Nat /\ 0 <= TableBits - 1
  BY Sizes
<1>2. \A v \in Value : v \in Nat /\ v <= ByteMax
  BY <1>1 DEF Value, ByteMax
<1>3. CASE start[1] = "included" /\ start[2] \in Value
  <2>1. RangeStart(start) = start[2]
    BY <1>3 DEF RangeStart
  <2>2. \A v \in Value : AboveStart(start, v) <=> v >= start[2]
    BY <1>3 DEF AboveStart
  <2> QED BY <1>2, <1>3, <2>1, <2>2
<1>4. CASE start[1] = "excluded" /\ start[2] \in Value
  <2>1. RangeStart(start) = IF start[2] = ByteMax THEN None ELSE start[2] + 1
    BY <1>4 DEF RangeStart
  <2>2. \A v \in Value : AboveStart(start, v) <=> v > start[2]
    BY <1>4 DEF AboveStart
  <2>3. CASE start[2] = ByteMax
    <3>1. \A v \in Value : ~ (v > ByteMax)
      BY <1>1, <1>2 DEF ByteMax
    <3> QED BY <2>1, <2>2, <2>3, <3>1
  <2>4. CASE start[2] # ByteMax
    <3>1. start[2] + 1 \in Value
      BY <1>1, <1>4, <2>4 DEF Value, ByteMax
    <3>2. \A v \in Value : v > start[2] <=> start[2] + 1 <= v
      BY <1>2, <1>4
    <3> QED BY <2>1, <2>2, <2>4, <3>1, <3>2
  <2> QED BY <2>3, <2>4
<1>5. CASE start[1] = "unbounded"
  <2>1. RangeStart(start) = 0
    BY <1>5 DEF RangeStart
  <2>2. \A v \in Value : AboveStart(start, v)
    BY <1>5 DEF AboveStart
  <2>3. 0 \in Value
    BY <1>1 DEF Value
  <2> QED BY <1>2, <2>1, <2>2, <2>3
<1> QED BY <1>3, <1>4, <1>5, BoundsFacts

\* The values a range ends with, likewise.
LEMMA RangeLastFacts ==
    ASSUME NEW end \in Bounds
    PROVE  \/ RangeLast(end) = None /\ \A v \in Value : ~ BelowEnd(end, v)
           \/ /\ RangeLast(end) \in Value
              /\ \A v \in Value : BelowEnd(end, v) <=> v <= RangeLast(end)
<1>1. TableBits \in Nat /\ 0 <= TableBits - 1
  BY Sizes
<1>2. \A v \in Value : v \in Nat /\ v <= ByteMax
  BY <1>1 DEF Value, ByteMax
<1>3. CASE end[1] = "included" /\ end[2] \in Value
  <2>1. RangeLast(end) = end[2]
    BY <1>3 DEF RangeLast
  <2>2. \A v \in Value : BelowEnd(end, v) <=> v <= end[2]
    BY <1>3 DEF BelowEnd
  <2> QED BY <1>3, <2>1, <2>2
<1>4. CASE end[1] = "excluded" /\ end[2] \in Value
  <2>1. RangeLast(end) = IF end[2] = 0 THEN None ELSE end[2] - 1
    BY <1>4 DEF RangeLast
  <2>2. \A v \in Value : BelowEnd(end, v) <=> v < end[2]
    BY <1>4 DEF BelowEnd
  <2>3. CASE end[2] = 0
    BY <1>2, <2>1, <2>2, <2>3
  <2>4. CASE end[2] # 0
    <3>1. end[2] - 1 \in Value
      BY <1>1, <1>4, <2>4 DEF Value
    <3>2. \A v \in Value : v < end[2] <=> v <= end[2] - 1
      BY <1>2, <1>4
    <3> QED BY <2>1, <2>2, <2>4, <3>1, <3>2
  <2> QED BY <2>3, <2>4
<1>5. CASE end[1] = "unbounded"
  <2>1. RangeLast(end) = ByteMax
    BY <1>5 DEF RangeLast
  <2>2. \A v \in Value : BelowEnd(end, v)
    BY <1>5 DEF BelowEnd
  <2>3. ByteMax \in Value
    BY <1>1 DEF Value, ByteMax
  <2> QED BY <1>2, <2>1, <2>2, <2>3
<1> QED BY <1>3, <1>4, <1>5, BoundsFacts

(***************************************************************************)
(* A set made from a range holds the values the range contains.            *)
(***************************************************************************)
LEMMA HoldsFromRange ==
    ASSUME NEW start \in Bounds, NEW end \in Bounds, FromRange(start, end)
    PROVE  Holds(table, members)
<1> DEFINE first == RangeStart(start)
           last == RangeLast(end)
           range == inclusive_range(start, end)
           inside == {v \in Value : AboveStart(start, v) /\ BelowEnd(end, v)}
<1>1. /\ table = IF range = None THEN new ELSE add_byte_range(new, range[1], range[2])
      /\ members = inside
  BY DEF FromRange
<1>2. range = IF first = None \/ last = None THEN None
              ELSE IF first > last THEN None ELSE <<first, last>>
  BY DEF inclusive_range
<1>3. \/ first = None /\ \A v \in Value : ~ AboveStart(start, v)
      \/ first \in Value /\ \A v \in Value : AboveStart(start, v) <=> first <= v
  BY RangeStartFacts
<1>4. \/ last = None /\ \A v \in Value : ~ BelowEnd(end, v)
      \/ last \in Value /\ \A v \in Value : BelowEnd(end, v) <=> v <= last
  BY RangeLastFacts
<1> HIDE DEF first, last, range
<1>5. CASE first = None \/ last = None
  <2>1. range = None
    BY <1>2, <1>5
  <2>2. inside = {}
    <3>1. None \notin Value
      BY NoneAssumption, ValueFacts
    <3> QED BY <1>3, <1>4, <1>5, <3>1
  <2> HIDE DEF inside
  <2> QED BY <1>1, <2>1, <2>2, HoldsNew
<1>6. CASE first # None /\ last # None
  <2>1. /\ first \in Value /\ \A v \in Value : AboveStart(start, v) <=> first <= v
        /\ last \in Value /\ \A v \in Value : BelowEnd(end, v) <=> v <= last
    BY <1>3, <1>4, <1>6
  <2>2. first \in Nat /\ last \in Nat /\ \A v \in Value : v \in Nat
    BY <2>1, ValueFacts
  <2>3. CASE first > last
    <3>1. range = None
      BY <1>2, <1>6, <2>3
    <3>2. inside = {}
      <4>1. ASSUME NEW v \in Value, first <= v, v <= last PROVE FALSE
        BY <2>2, <2>3, <4>1
      <4> QED BY <2>1, <4>1
    <3> HIDE DEF inside
    <3> QED BY <1>1, <3>1, <3>2, HoldsNew
  <2>4. CASE ~ (first > last)
    <3>1. range = <<first, last>>
      BY <1>2, <1>6, <2>4
    <3>2. range # None
      BY <2>2, <3>1, NoneAssumption
    <3>3. table = add_byte_range(new, first, last)
      BY <1>1, <3>1, <3>2
    <3>4. inside = {} \cup (first .. last)
      <4>1. ASSUME NEW v PROVE v \in inside <=> v \in first .. last
        <5>1. v \in inside <=> v \in Value /\ first <= v /\ v <= last
          BY <2>1
        <5>2. v \in first .. last => v \in Value
          <6>1. 0 <= first /\ last <= TableBits - 1 /\ TableBits \in Int
            BY <2>1, Sizes DEF Value
          <6> QED BY <2>2, <6>1 DEF Value
        <5>3. v \in first .. last <=> v \in Int /\ first <= v /\ v <= last
          BY <2>2
        <5> QED BY <2>2, <5>1, <5>2, <5>3
      <4> HIDE DEF inside
      <4> QED BY <4>1
    <3> HIDE DEF inside
    <3>5. Holds(add_byte_range(new, first, last), {} \cup (first .. last))
      BY <2>1, HoldsNew, HoldsAddRange
    <3>6. members = {} \cup (first .. last)
      BY <1>1, <3>4
    <3> QED BY <3>3, <3>5, <3>6
  <2> QED BY <2>3, <2>4
<1> QED BY <1>5, <1>6
-----------------------------------------------------------------------------
(***************************************************************************)
(* The inductive invariant of the edits: the table is well formed and      *)
(* holds the documented members.                                           *)
(***************************************************************************)
SetInv == Holds(table, members)

\* A table holds its members.
LEMMA HoldsMembers ==
    /\ \A t \in Table : Holds(t, Members(t))
    /\ \A t, M : Holds(t, M) => Members(t) = M
BY DEF Holds, Members

\* It holds of a new set, an empty one or one made from a range.
LEMMA InitSetInv == Init => SetInv
<1> SUFFICES ASSUME Init PROVE SetInv
  OBVIOUS
<1>1. CASE table = new /\ members = {}
  BY <1>1, HoldsNew DEF SetInv
<1>2. CASE \E start, end \in Bounds : FromRange(start, end)
  BY <1>2, HoldsFromRange DEF SetInv
<1> QED BY <1>1, <1>2 DEF Init

\* Every edit preserves it.
LEMMA NextSetInv == SetInv /\ [Next]_vars => SetInv'
<1> SUFFICES ASSUME Holds(table, members), [Next]_vars PROVE Holds(table', members')
  BY DEF SetInv
<1>1. CASE \E v \in Value : AddValue(v) \/ RemoveValue(v)
  <2>1. PICK v \in Value : AddValue(v) \/ RemoveValue(v)
    BY <1>1
  <2>2. CASE AddValue(v)
    BY <2>2, HoldsAdd DEF AddValue
  <2>3. CASE RemoveValue(v)
    BY <2>3, HoldsRemove DEF RemoveValue
  <2> QED BY <2>1, <2>2, <2>3
<1>2. CASE \E bytes \in Slices : AddAll(bytes)
  <2>1. PICK bytes \in Slices : AddAll(bytes)
    BY <1>2
  <2>2. bytes \in Seq(Value)
    BY ArgumentsAssumption
  <2> QED BY <2>1, <2>2, HoldsAddAll DEF AddAll
<1>3. CASE \E start, last \in Value : AddRange(start, last) \/ RemoveRange(start, last)
  <2>1. PICK start \in Value, last \in Value : AddRange(start, last) \/ RemoveRange(start, last)
    BY <1>3
  <2>2. CASE AddRange(start, last)
    BY <2>2, HoldsAddRange DEF AddRange
  <2>3. CASE RemoveRange(start, last)
    BY <2>3, HoldsRemoveRange DEF RemoveRange
  <2> QED BY <2>1, <2>2, <2>3
<1>4. CASE Invert
  BY <1>4, HoldsInvert DEF Invert
<1>5. CASE \E other \in Others : Combine(other)
  <2>1. PICK other \in Others : Combine(other)
    BY <1>5
  <2>2. Holds(other, Members(other))
    BY ArgumentsAssumption, HoldsMembers
  <2>3. /\ Holds(union(table, other), members \cup Members(other))
        /\ Holds(intersection(table, other), members \cap Members(other))
        /\ Holds(difference(table, other), members \ Members(other))
        /\ Holds(symmetric_difference(table, other),
                 (members \ Members(other)) \cup (Members(other) \ members))
    BY <2>2, HoldsCombined
  <2> QED BY <2>1, <2>3 DEF Combine
<1>6. CASE UNCHANGED vars
  BY <1>6 DEF vars
<1> QED BY <1>1, <1>2, <1>3, <1>4, <1>5, <1>6 DEF Next

\* Iteration leaves the set alone.
LEMMA UseSetInv == SetInv /\ [UseNext]_useVars => SetInv'
<1> SUFFICES ASSUME SetInv, [UseNext]_useVars PROVE SetInv'
  OBVIOUS
<1>1. CASE Edit
  BY <1>1, NextSetInv DEF Edit
<1>2. CASE ~ Edit
  <2>1. UNCHANGED <<table, members>>
    BY <1>2 DEF UseNext, useVars, vars, Iterate, DropIter, IterStep, Copy!Next, Copy!NextInWord,
                Copy!NextInLaterWord, Copy!NextNone, Copy!SizeHint, Copy!Take
  <2> QED BY <2>1 DEF SetInv
<1> QED BY <1>1, <1>2

(***************************************************************************)
(* A ByteSet holds its documented members, whatever the edits, however     *)
(* long their sequence, and with iterations in between.                    *)
(***************************************************************************)
THEOREM MembersExact == UseSpec => []Agrees
<1>1. UseInit => SetInv
  BY InitSetInv DEF UseInit
<1>2. SetInv => Agrees
  BY HoldsMembers DEF SetInv, Agrees
<1> QED BY <1>1, <1>2, UseSetInv, PTL DEF UseSpec
-----------------------------------------------------------------------------
(***************************************************************************)
(* The table as words: a value's word and bit, and back.                   *)
(***************************************************************************)
LEMMA SplitFacts ==
    ASSUME NEW v \in Value
    PROVE  /\ v \in Nat
           /\ v \div WordBits \in WordIndex
           /\ v % WordBits \in 0 .. WordBits - 1
           /\ ValueAt(v \div WordBits, v % WordBits) = v
<1>1. v \in Nat /\ v < TableBits
  BY Sizes DEF Value
<1>2. TableBits = Words * WordBits
  <2>1. ASSUME NEW a \in Nat, NEW b \in Nat, NEW c \in Nat PROVE (a * b) * c = a * (b * c)
    BY SMT
  <2>2. (Words * WordBytes) * ByteBits = Words * (WordBytes * ByteBits)
    BY <2>1, Sizes
  <2> QED BY <2>2 DEF TableBits, TableBytes, WordBits
<1>3. v \div WordBits < Words
  BY <1>1, <1>2, Sizes, QuotientBound
<1> DEFINE q == v \div WordBits
           r == v % WordBits
<1>4. q \in Nat /\ r \in 0 .. WordBits - 1 /\ v = WordBits * q + r
  BY <1>1, Sizes, DivMod
<1> HIDE DEF q, r
<1>5. q * WordBits = WordBits * q
  BY <1>4, Sizes
<1>6. ValueAt(q, r) = v
  BY <1>4, <1>5 DEF ValueAt
<1>7. q \in WordIndex
  BY <1>3, <1>4, Sizes DEF WordIndex, q
<1> QED BY <1>1, <1>4, <1>6, <1>7 DEF q, r

\* A word and a bit of it make the value that splits into them.
LEMMA JoinFacts ==
    ASSUME NEW i \in WordIndex, NEW p \in 0 .. WordBits - 1
    PROVE  /\ ValueAt(i, p) \in Value
           /\ ValueAt(i, p) \div WordBits = i /\ ValueAt(i, p) % WordBits = p
<1>1. i \in Nat /\ i < Words
  BY Sizes DEF WordIndex
<1>2. ValueAt(i, p) = WordBits * i + p
  BY <1>1, Sizes DEF ValueAt
<1>3. /\ ValueAt(i, p) \in Nat
      /\ ValueAt(i, p) \div WordBits = i /\ ValueAt(i, p) % WordBits = p
  BY <1>1, <1>2, Sizes, DivModUnique
<1>4. ValueAt(i, p) < Words * WordBits
  BY <1>1, <1>3, Sizes, QuotientBound
<1>5. TableBits = Words * WordBits
  <2>1. ASSUME NEW a \in Nat, NEW b \in Nat, NEW c \in Nat PROVE (a * b) * c = a * (b * c)
    BY SMT
  <2>2. (Words * WordBytes) * ByteBits = Words * (WordBytes * ByteBits)
    BY <2>1, Sizes
  <2> QED BY <2>2 DEF TableBits, TableBytes, WordBits
<1>6. ValueAt(i, p) \in Value
  BY <1>3, <1>4, <1>5, Sizes DEF Value
<1> QED BY <1>3, <1>6

\* A word of the table has the members from its first value on.
LEMMA WordFacts ==
    ASSUME NEW t, NEW M, Holds(t, M), NEW i \in WordIndex
    PROVE  /\ word(t, i) \in SUBSET (0 .. WordBits - 1)
           /\ \A p \in 0 .. WordBits - 1 : p \in word(t, i) <=> ValueAt(i, p) \in M
<1>1. ASSUME NEW p \in 0 .. WordBits - 1
      PROVE  p \in word(t, i) <=> ValueAt(i, p) \in M
  <2> DEFINE q == p \div ByteBits
             r == p % ByteBits
             v == ValueAt(i, p)
  <2>1. p \in Nat /\ i \in Nat
    BY Sizes DEF WordIndex
  <2>2. q \in Nat /\ r \in 0 .. ByteBits - 1 /\ p = ByteBits * q + r
    BY <2>1, Sizes, DivMod
  <2>3. p \in word(t, i) <=> r \in t[i * WordBytes + q]
    BY DEF word
  <2>4. v \in Value
    BY JoinFacts
  <2>5. v = i * (WordBytes * ByteBits) + p
    BY DEF ValueAt, WordBits
  <2> HIDE DEF q, r, v
  <2>6. v = ByteBits * (i * WordBytes + q) + r
    <3>1. ASSUME NEW a \in Nat, NEW b \in Nat, NEW c \in Nat
          PROVE  a * (b * c) + c * q = c * (a * b + q)
      BY <2>2, SMT
    <3>2. i * (WordBytes * ByteBits) + ByteBits * q = ByteBits * (i * WordBytes + q)
      BY <2>1, <3>1, Sizes
    <3>3. ByteBits * q \in Nat /\ i * (WordBytes * ByteBits) \in Nat
      <4>1. ASSUME NEW a \in Nat, NEW b \in Nat PROVE a * b \in Nat
        BY SMT
      <4> QED BY <2>1, <2>2, <4>1, Sizes
    <3> QED BY <2>2, <2>5, <3>2, <3>3
  <2>7. i * WordBytes + q \in Nat
    BY <2>1, <2>2, Sizes
  <2>8. v \div ByteBits = i * WordBytes + q /\ v % ByteBits = r
    BY <2>2, <2>6, <2>7, Sizes, DivModUnique
  <2>9. contains(t, v) <=> r \in t[i * WordBytes + q]
    BY <2>8 DEF contains
  <2>10. contains(t, v) <=> v \in M
    BY <2>4 DEF Holds
  <2> QED BY <2>3, <2>9, <2>10 DEF v
<1>2. word(t, i) \in SUBSET (0 .. WordBits - 1)
  BY DEF word
<1> QED BY <1>1, <1>2

\* The members in the words of s.
Within(M, s) == {v \in M : v \div WordBits \in s}

\* The members in word i at the bits b.
PartOf(M, i, b) == {v \in M : v \div WordBits = i /\ v % WordBits \in b}

(***************************************************************************)
(* A word has as many one bits as the set has members in it.               *)
(***************************************************************************)
LEMMA PartCardinality ==
    ASSUME NEW t, NEW M, Holds(t, M), NEW i \in WordIndex, NEW b \in SUBSET word(t, i)
    PROVE  /\ IsFiniteSet(PartOf(M, i, b))
           /\ Cardinality(b) \in Nat
           /\ Cardinality(b) = Cardinality(PartOf(M, i, b))
<1>1. /\ word(t, i) \in SUBSET (0 .. WordBits - 1)
      /\ \A p \in 0 .. WordBits - 1 : p \in word(t, i) <=> ValueAt(i, p) \in M
  BY WordFacts
<1>2. WordBits \in Nat /\ i \in Nat /\ i * WordBits \in Nat
  BY Sizes DEF WordIndex
<1>3. b \in SUBSET Nat /\ IsFiniteSet(b) /\ Cardinality(b) \in Nat
  <2>1. b \in SUBSET (0 .. WordBits) /\ b \in SUBSET Nat
    BY <1>1, <1>2
  <2>2. IsFiniteSet(b) /\ Cardinality(b) \in Nat
    BY <1>2, <2>1, BitsFinite
  <2> QED BY <2>1, <2>2
<1> DEFINE T == {i * WordBits + p : p \in b}
<1>4. IsFiniteSet(T) /\ Cardinality(T) = Cardinality(b)
  BY <1>2, <1>3, ShiftCardinality
<1>5. ASSUME NEW v PROVE v \in T <=> v \in PartOf(M, i, b)
  <2>1. ASSUME v \in T PROVE v \in PartOf(M, i, b)
    <3>1. PICK p \in b : v = ValueAt(i, p)
      BY <2>1 DEF ValueAt
    <3>2. p \in 0 .. WordBits - 1 /\ v \in M
      BY <1>1, <3>1
    <3>3. v \div WordBits = i /\ v % WordBits = p
      BY <3>1, <3>2, JoinFacts
    <3> QED BY <3>2, <3>3 DEF PartOf
  <2>2. ASSUME v \in PartOf(M, i, b) PROVE v \in T
    <3>1. v \in M /\ v \div WordBits = i /\ v % WordBits \in b /\ v \in Value
      BY <2>2 DEF PartOf, Holds
    <3>2. ValueAt(i, v % WordBits) = v
      BY <3>1, SplitFacts
    <3> QED BY <3>1, <3>2 DEF ValueAt
  <2> QED BY <2>1, <2>2
<1> HIDE DEF T
<1>6. T = PartOf(M, i, b)
  BY <1>5
<1> QED BY <1>3, <1>4, <1>6

\* A word's count_ones is the number of members that lie in it.
LEMMA WordCardinality ==
    ASSUME NEW t, NEW M, Holds(t, M), NEW i \in WordIndex
    PROVE  /\ IsFiniteSet(Within(M, {i}))
           /\ Cardinality(word(t, i)) \in Nat
           /\ Cardinality(word(t, i)) = Cardinality(Within(M, {i}))
<1>1. ASSUME NEW v \in Within(M, {i}) PROVE v % WordBits \in word(t, i)
  <2>1. v \in M /\ v \div WordBits = i /\ v \in Value
    BY DEF Within, Holds
  <2>2. v % WordBits \in 0 .. WordBits - 1 /\ ValueAt(i, v % WordBits) = v
    BY <2>1, SplitFacts
  <2> QED BY <2>1, <2>2, WordFacts
<1>2. Within(M, {i}) = PartOf(M, i, word(t, i))
  BY <1>1 DEF Within, PartOf
<1> QED BY <1>2, PartCardinality
-----------------------------------------------------------------------------
(***************************************************************************)
(* len, a sum over words.                                                  *)
(***************************************************************************)
WordSizes(t, S) == [i \in S |-> Cardinality(word(t, i))]

\* The words are finitely many: their counts can be summed.
LEMMA WordIndexFinite == IsFiniteSet(WordIndex)
<1>1. 0 \in Int /\ Words - 1 \in Int
  BY Sizes
<1> QED BY <1>1, FS_Interval DEF WordIndex

\* The sum of MapThenSumSet over the words of S, unfolded.
AreWordSums(g, t, S) ==
    g = [s \in SUBSET S |->
           IF s = {} THEN 0 ELSE Cardinality(word(t, Pick(s))) + g[s \ {Pick(s)}]]

\* MapThenSumSet is the sum of module BitSetLemmas.
LEMMA WordSumsAreSums ==
    ASSUME NEW t, NEW S
    PROVE  (CHOOSE g : AreWordSums(g, t, S)) = Sums(WordSizes(t, S), S)
<1> DEFINE f == WordSizes(t, S)
<1>1. ASSUME NEW s \in SUBSET S, s # {}
      PROVE  f[Pick(s)] = Cardinality(word(t, Pick(s)))
  BY <1>1 DEF Pick, WordSizes
<1> HIDE DEF f
<1>2. ASSUME NEW g PROVE AreWordSums(g, t, S) <=> AreSums(g, f, S)
  BY <1>1 DEF AreSums, AreWordSums
<1>3. (CHOOSE g : AreWordSums(g, t, S)) = (CHOOSE g : AreSums(g, f, S))
  BY <1>2
<1> QED BY <1>3 DEF Sums, f

\* len is the sum of the words' counts.
LEMMA LenUnfolds ==
    ASSUME NEW t
    PROVE  len(t) = Sums(WordSizes(t, WordIndex), WordIndex)[WordIndex]
<1>1. len(t) = (CHOOSE g : AreWordSums(g, t, WordIndex))[WordIndex]
  BY DEF len, MapThenSumSet, MapThenFoldSet, Pick, AreWordSums
<1> QED BY <1>1, WordSumsAreSums

\* The words of S have as many one bits as the set has members in them.
LEMMA SumsCountMembers ==
    ASSUME NEW t, NEW M, Holds(t, M), NEW S \in SUBSET WordIndex
    PROVE  /\ IsFiniteSet(Within(M, S))
           /\ Sums(WordSizes(t, S), S)[S] = Cardinality(Within(M, S))
<1> DEFINE f == WordSizes(t, S)
           g == Sums(f, S)
           bad == {r \in SUBSET S :
                     ~ (IsFiniteSet(Within(M, r)) /\ g[r] = Cardinality(Within(M, r)))}
<1>1. f \in [S -> Nat]
  BY WordCardinality DEF WordSizes
<1>2. \A i \in S : f[i] = Cardinality(Within(M, {i}))
  BY WordCardinality DEF WordSizes
<1>3. IsFiniteSet(S)
  BY WordIndexFinite, FS_Subset
<1> HIDE DEF f
<1>4. g[{}] = 0
  BY <1>1, <1>3, SumsFacts
<1>5. bad = {}
  <2> SUFFICES ASSUME bad # {} PROVE FALSE
    OBVIOUS
  <2>1. PICK r \in bad : \A x \in r : r \ {x} \notin bad
    BY <1>3, SmallestSet
  <2>2. /\ r \in SUBSET S
        /\ ~ (IsFiniteSet(Within(M, r)) /\ g[r] = Cardinality(Within(M, r)))
    BY <2>1
  <2>3. r # {}
    <3>1. Within(M, {}) = {}
      BY DEF Within
    <3> HIDE DEF g
    <3> QED BY <1>4, <2>2, <3>1, FS_EmptySet
  <2> DEFINE p == Pick(r)
             q == r \ {p}
  <2>4. p \in r /\ q \in SUBSET S /\ g[r] = f[p] + g[q]
    BY <1>1, <1>3, <2>2, <2>3, SumsFacts
  <2>5. IsFiniteSet(Within(M, q)) /\ g[q] = Cardinality(Within(M, q))
    BY <2>1, <2>4
  <2>6. p \in S /\ IsFiniteSet(Within(M, {p})) /\ f[p] = Cardinality(Within(M, {p}))
    BY <1>2, <2>2, <2>4, WordCardinality
  <2>7. Within(M, r) = Within(M, q) \cup Within(M, {p}) /\ Within(M, q) \cap Within(M, {p}) = {}
    BY <2>4 DEF Within
  <2> HIDE DEF p, q, g
  <2>8. /\ IsFiniteSet(Within(M, r))
        /\ Cardinality(Within(M, r)) = Cardinality(Within(M, q)) + Cardinality(Within(M, {p}))
    <3>1. /\ IsFiniteSet(Within(M, q) \cup Within(M, {p}))
          /\ Cardinality(Within(M, q) \cup Within(M, {p}))
               = Cardinality(Within(M, q)) + Cardinality(Within(M, {p}))
      BY <2>5, <2>6, <2>7, DisjointUnion
    <3> QED BY <2>7, <3>1
  <2>9. Cardinality(Within(M, q)) \in Nat /\ Cardinality(Within(M, {p})) \in Nat
    BY <2>5, <2>6, FS_CardinalityType
  <2> QED BY <2>2, <2>4, <2>5, <2>6, <2>8, <2>9
<1> QED BY <1>5 DEF f

\* What a set holds is finite, and len is its size.
LEMMA LenExact ==
    ASSUME NEW t, NEW M, Holds(t, M)
    PROVE  IsFiniteSet(M) /\ len(t) = Cardinality(M)
<1>1. Within(M, WordIndex) = M
  BY SplitFacts DEF Within, Holds
<1>2. /\ IsFiniteSet(Within(M, WordIndex))
      /\ Sums(WordSizes(t, WordIndex), WordIndex)[WordIndex] = Cardinality(Within(M, WordIndex))
  BY SumsCountMembers
<1> QED BY <1>1, <1>2, LenUnfolds
-----------------------------------------------------------------------------
(***************************************************************************)
(* The first and last member, found in the first and last nonzero word.    *)
(***************************************************************************)
LEMMA NonzeroFacts ==
    ASSUME NEW t, NEW M, Holds(t, M)
    PROVE  /\ Nonzero(t) \in SUBSET WordIndex
           /\ Nonzero(t) = {} <=> M = {}
           /\ \A v \in M : /\ v \in Value
                           /\ v \div WordBits \in Nonzero(t)
                           /\ v % WordBits \in word(t, v \div WordBits)
           /\ \A i \in Nonzero(t) : \A p \in word(t, i) : ValueAt(i, p) \in M
<1>1. Nonzero(t) \in SUBSET WordIndex /\ \A i \in Nonzero(t) : word(t, i) # {}
  BY DEF Nonzero
<1>2. ASSUME NEW v \in M
      PROVE  /\ v \in Value
             /\ v \div WordBits \in Nonzero(t)
             /\ v % WordBits \in word(t, v \div WordBits)
  <2>1. v \in Value
    BY DEF Holds
  <2>2. /\ v \div WordBits \in WordIndex /\ v % WordBits \in 0 .. WordBits - 1
        /\ ValueAt(v \div WordBits, v % WordBits) = v
    BY <2>1, SplitFacts
  <2>3. v % WordBits \in word(t, v \div WordBits)
    BY <2>2, WordFacts
  <2> QED BY <2>1, <2>2, <2>3 DEF Nonzero
<1>3. ASSUME NEW i \in Nonzero(t), NEW p \in word(t, i) PROVE ValueAt(i, p) \in M
  BY <1>1, WordFacts
<1>4. Nonzero(t) = {} <=> M = {}
  BY <1>1, <1>2, <1>3
<1> QED BY <1>1, <1>2, <1>3, <1>4

\* The lowest bit of the first word with one is the least member.
LEMMA FirstMember ==
    ASSUME NEW t, NEW M, Holds(t, M), M # {}
    PROVE  LET i == Min(Nonzero(t)) IN ValueAt(i, Min(word(t, i))) = Min(M)
<1> DEFINE i == Min(Nonzero(t))
           w == word(t, i)
           first == ValueAt(i, Min(w))
<1>1. Nonzero(t) \in SUBSET Nat /\ Nonzero(t) # {}
  BY NonzeroFacts, Sizes DEF WordIndex
<1>2. i \in Nonzero(t) /\ \A j \in Nonzero(t) : i <= j
  BY <1>1, MinNat
<1>3. i \in WordIndex /\ w # {} /\ w \in SUBSET (0 .. WordBits - 1)
  BY <1>2, NonzeroFacts, WordFacts DEF Nonzero
<1>4. Min(w) \in w /\ \A p \in w : Min(w) <= p
  BY <1>3, Sizes, MinNat
<1>5. first \in M /\ first \in Value /\ first \div WordBits = i /\ first % WordBits = Min(w)
  BY <1>2, <1>3, <1>4, NonzeroFacts, JoinFacts
<1> HIDE DEF first
<1>6. ASSUME NEW v \in M PROVE first <= v
  <2>1. /\ v \in Value /\ v \div WordBits \in Nonzero(t)
        /\ v % WordBits \in word(t, v \div WordBits)
    BY NonzeroFacts
  <2>2. v \in Nat /\ first \in Nat /\ v \div WordBits \in Nat /\ i \in Nat
    BY <1>1, <1>2, <1>5, <2>1, ValueFacts
  <2>3. i <= v \div WordBits
    BY <1>2, <2>1
  <2>4. i < v \div WordBits \/ i = v \div WordBits
    BY <2>2, <2>3
  <2>5. i = v \div WordBits => Min(w) <= v % WordBits
    BY <1>4, <2>1
  <2>6. first <= v <=> \/ first \div WordBits < v \div WordBits
                       \/ /\ first \div WordBits = v \div WordBits
                          /\ first % WordBits <= v % WordBits
    BY <2>2, Sizes, DivOrder
  <2> QED BY <1>5, <2>4, <2>5, <2>6
<1>7. M \in SUBSET Nat
  BY ValueFacts DEF Holds
<1>8. Min(M) \in M /\ Min(M) <= first
  BY <1>5, <1>7, MinNat
<1>9. first <= Min(M) /\ first \in Nat /\ Min(M) \in Nat
  BY <1>5, <1>6, <1>7, <1>8
<1>10. first = Min(M)
  BY <1>8, <1>9
<1> QED BY <1>10 DEF first

\* The highest bit of the last word with one is the greatest member.
LEMMA LastMember ==
    ASSUME NEW t, NEW M, Holds(t, M), M # {}
    PROVE  LET j == Max(Nonzero(t)) IN ValueAt(j, Max(word(t, j))) = Max(M)
<1> DEFINE j == Max(Nonzero(t))
           w == word(t, j)
           last == ValueAt(j, Max(w))
<1>1. Nonzero(t) \in SUBSET (0 .. Words) /\ Nonzero(t) # {} /\ Nonzero(t) \in SUBSET Nat
  BY NonzeroFacts, Sizes DEF WordIndex
<1>2. j \in Nonzero(t) /\ \A i \in Nonzero(t) : i <= j
  BY <1>1, Sizes, MaxNat
<1>3. j \in WordIndex /\ w # {} /\ w \in SUBSET (0 .. WordBits - 1)
  BY <1>2, NonzeroFacts, WordFacts DEF Nonzero
<1>4. Max(w) \in w /\ \A p \in w : p <= Max(w)
  <2>1. w \in SUBSET (0 .. WordBits)
    BY <1>3, Sizes
  <2> QED BY <1>3, <2>1, Sizes, MaxNat
<1>5. last \in M /\ last \in Value /\ last \div WordBits = j /\ last % WordBits = Max(w)
  BY <1>2, <1>3, <1>4, NonzeroFacts, JoinFacts
<1> HIDE DEF last
<1>6. ASSUME NEW v \in M PROVE v <= last
  <2>1. /\ v \in Value /\ v \div WordBits \in Nonzero(t)
        /\ v % WordBits \in word(t, v \div WordBits)
    BY NonzeroFacts
  <2>2. v \in Nat /\ last \in Nat /\ v \div WordBits \in Nat /\ j \in Nat
    BY <1>1, <1>2, <1>5, <2>1, ValueFacts
  <2>3. v \div WordBits <= j
    BY <1>2, <2>1
  <2>4. v \div WordBits < j \/ v \div WordBits = j
    BY <2>2, <2>3
  <2>5. v \div WordBits = j => v % WordBits <= Max(w)
    BY <1>4, <2>1
  <2>6. v <= last <=> \/ v \div WordBits < last \div WordBits
                      \/ /\ v \div WordBits = last \div WordBits
                         /\ v % WordBits <= last % WordBits
    BY <2>2, Sizes, DivOrder
  <2> QED BY <1>5, <2>4, <2>5, <2>6
<1>7. M \in SUBSET Nat /\ M \in SUBSET (0 .. TableBits)
  BY ValueFacts, Sizes DEF Holds, Value
<1>8. Max(M) \in M /\ last <= Max(M)
  BY <1>5, <1>7, Sizes, MaxNat
<1>9. Max(M) <= last /\ last \in Nat /\ Max(M) \in Nat
  BY <1>5, <1>6, <1>7, <1>8
<1>10. last = Max(M)
  BY <1>8, <1>9
<1> QED BY <1>10 DEF last

(***************************************************************************)
(* as_contiguous_range: the members fill their span only if they are it.   *)
(***************************************************************************)
LEMMA RangeExact ==
    ASSUME NEW t, NEW M, Holds(t, M)
    PROVE  as_contiguous_range(t) =
             IF M # {} /\ M = Min(M) .. Max(M) THEN <<Min(M), Max(M)>> ELSE None
<1>1. as_contiguous_range(t) =
        LET i == Min(Nonzero(t))
            j == Max(Nonzero(t))
            first == ValueAt(i, Min(word(t, i)))
            last == ValueAt(j, Max(word(t, j))) IN
          IF ~ is_empty(t) /\ Fills(t, first, last) THEN <<first, last>> ELSE None
  BY DEF as_contiguous_range
<1>2. is_empty(t) <=> M = {}
  BY NonzeroFacts DEF is_empty
<1>3. CASE M = {}
  BY <1>1, <1>2, <1>3
<1>4. CASE M # {}
  <2> DEFINE first == Min(M)
             last == Max(M)
  <2>1. as_contiguous_range(t) =
          IF ~ is_empty(t) /\ Fills(t, first, last) THEN <<first, last>> ELSE None
    BY <1>1, <1>4, FirstMember, LastMember
  <2>2. M \in SUBSET Nat /\ M \in SUBSET (0 .. TableBits)
    BY ValueFacts, Sizes DEF Holds, Value
  <2>3. first \in M /\ last \in M /\ \A v \in M : first <= v /\ v <= last
    BY <1>4, <2>2, Sizes, MinNat, MaxNat
  <2> HIDE DEF first, last
  <2>4. first \in Nat /\ last \in Nat /\ first <= last /\ M \in SUBSET (first .. last)
    BY <2>2, <2>3
  <2>5. IsFiniteSet(first .. last) /\ Cardinality(first .. last) = last - first + 1
    <3>1. first \in Int /\ last \in Int /\ ~ (first > last)
      BY <2>4
    <3> QED BY <3>1, FS_Interval
  <2>6. Cardinality(M) = last - first + 1 <=> M = first .. last
    BY <2>4, <2>5, FS_Subset
  <2>7. Fills(t, first, last) <=> M = first .. last
    BY <2>6, LenExact DEF Fills
  <2> QED BY <1>2, <1>4, <2>1, <2>7 DEF first, last
<1> QED BY <1>3, <1>4

(***************************************************************************)
(* excluded_byte: one word with one zero bit, if one value is missing.     *)
(***************************************************************************)
LEMMA ExcludedExact ==
    ASSUME NEW t, NEW M, Holds(t, M)
    PROVE  IF Cardinality(M) = TableBits - 1
           THEN excluded_byte(t) \in Value \ M
           ELSE excluded_byte(t) = None
<1> DEFINE Missing(i) == (0 .. WordBits - 1) \ word(t, i)
           holed == {i \in WordIndex : Missing(i) # {}}
           absent == Value \ M
           Found == \E i \in WordIndex : holed = {i} /\ Cardinality(Missing(i)) = 1
           named == ValueAt(Min(holed), Min(Missing(Min(holed))))
<1>1. excluded_byte(t) = IF Found THEN named ELSE None
  BY DEF excluded_byte
<1>2. ASSUME NEW i \in WordIndex, NEW p \in 0 .. WordBits - 1
      PROVE  p \in Missing(i) <=> ValueAt(i, p) \in absent
  BY JoinFacts, WordFacts
<1>3. \A i : Missing(i) \in SUBSET (0 .. WordBits - 1)
  OBVIOUS
<1>4. holed \in SUBSET WordIndex /\ \A i \in WordIndex : i \in holed <=> Missing(i) # {}
  OBVIOUS
<1>5. IsFiniteSet(absent) /\ (Cardinality(absent) = 1 <=> Cardinality(M) = TableBits - 1)
  <2>1. IsFiniteSet(Value) /\ Cardinality(Value) = TableBits
    BY Sizes, IntervalCardinality DEF Value
  <2>2. M \in SUBSET Value
    BY DEF Holds
  <2>3. IsFiniteSet(M) /\ IsFiniteSet(absent)
    BY <2>1, <2>2, FS_Subset
  <2>4. M \cap absent = {} /\ M \cup absent = Value
    BY <2>2
  <2> HIDE DEF absent
  <2>5. Cardinality(M \cup absent) = Cardinality(M) + Cardinality(absent)
    BY <2>3, <2>4, DisjointUnion
  <2>6. Cardinality(M) \in Nat /\ Cardinality(absent) \in Nat
    BY <2>3, FS_CardinalityType
  <2>7. TableBits = Cardinality(M) + Cardinality(absent)
    BY <2>1, <2>4, <2>5
  <2> QED BY <2>3, <2>6, <2>7, Sizes
<1>6. \A v \in absent : v \in Value
  OBVIOUS
<1> HIDE DEF Missing, holed, absent
<1>7. ASSUME NEW x, absent = {x} PROVE Found /\ named = x
  <2> DEFINE i == x \div WordBits
             p == x % WordBits
  <2>1. x \in Value /\ i \in WordIndex /\ p \in 0 .. WordBits - 1 /\ ValueAt(i, p) = x
    BY <1>6, <1>7, SplitFacts
  <2> HIDE DEF i, p
  <2>2. ASSUME NEW j \in WordIndex, NEW q \in Missing(j) PROVE j = i /\ q = p
    <3>1. q \in 0 .. WordBits - 1
      BY <1>3
    <3>2. ValueAt(j, q) = x
      BY <1>2, <1>7, <2>2, <3>1
    <3>3. j = x \div WordBits /\ q = x % WordBits
      BY <3>1, <3>2, JoinFacts
    <3> QED BY <3>3 DEF i, p
  <2>3. p \in Missing(i)
    BY <1>2, <1>7, <2>1
  <2>4. Missing(i) = {p}
    BY <2>1, <2>2, <2>3
  <2>5. holed = {i}
    BY <1>4, <2>1, <2>2, <2>3
  <2>6. Cardinality(Missing(i)) = 1
    BY <2>4, FS_Singleton
  <2>7. Min({i}) = i /\ Min({p}) = p
    <3>1. {i} \in SUBSET Nat /\ {p} \in SUBSET Nat
      BY <2>1, Sizes DEF WordIndex
    <3> QED BY <3>1, MinNat
  <2>8. named = ValueAt(i, p)
    BY <2>4, <2>5, <2>7
  <2> QED BY <2>1, <2>5, <2>6, <2>8
<1>8. ASSUME Found PROVE \E x : absent = {x}
  <2>1. PICK i \in WordIndex : holed = {i} /\ Cardinality(Missing(i)) = 1
    BY <1>8
  <2>2. IsFiniteSet(Missing(i))
    <3>1. IsFiniteSet(0 .. WordBits - 1)
      BY Sizes, FS_Interval
    <3> QED BY <1>3, <3>1, FS_Subset
  <2>3. PICK p : Missing(i) = {p}
    BY <2>1, <2>2, FS_Singleton
  <2>4. ASSUME NEW v PROVE v \in absent <=> v = ValueAt(i, p)
    <3>1. p \in 0 .. WordBits - 1
      BY <1>3, <2>3
    <3>2. ValueAt(i, p) \in absent
      BY <1>2, <2>3, <3>1
    <3>3. ASSUME v \in absent PROVE v = ValueAt(i, p)
      <4>1. /\ v \div WordBits \in WordIndex /\ v % WordBits \in 0 .. WordBits - 1
            /\ ValueAt(v \div WordBits, v % WordBits) = v
        BY <1>6, <3>3, SplitFacts
      <4>2. v % WordBits \in Missing(v \div WordBits)
        BY <1>2, <3>3, <4>1
      <4>3. v \div WordBits = i
        BY <1>4, <2>1, <4>1, <4>2
      <4>4. v % WordBits = p
        BY <2>3, <4>2, <4>3
      <4> QED BY <4>1, <4>3, <4>4
    <3> QED BY <3>2, <3>3
  <2> QED BY <2>4
<1> HIDE DEF Found, named
<1>9. Cardinality(absent) = 1 <=> \E x : absent = {x}
  BY <1>5, FS_Singleton
<1>10. CASE Cardinality(M) = TableBits - 1
  <2>1. PICK x : absent = {x}
    BY <1>5, <1>9, <1>10
  <2>2. excluded_byte(t) = x
    BY <1>1, <1>7, <2>1
  <2>3. x \in absent
    BY <2>1
  <2> QED BY <1>10, <2>2, <2>3 DEF absent
<1>11. CASE Cardinality(M) # TableBits - 1
  BY <1>1, <1>5, <1>8, <1>9, <1>11
<1> QED BY <1>10, <1>11

(***************************************************************************)
(* The queries that choose a search kernel answer exactly, for any set of  *)
(* edits and however the table's bytes fall into words.                    *)
(***************************************************************************)
THEOREM QueriesExact == UseSpec => []Classified
<1>1. UseInit => SetInv
  BY InitSetInv DEF UseInit
<1>2. SetInv => Classified
  BY ExcludedExact, RangeExact DEF SetInv, Classified
<1> QED BY <1>1, <1>2, UseSetInv, PTL DEF UseSpec
-----------------------------------------------------------------------------
(***************************************************************************)
(* The iterator.  Its operators are those of this module, on its copy.     *)
(***************************************************************************)
LEMMA CopyOperators ==
    /\ \A S : Copy!Min(S) = Min(S)
    /\ \A t, i : Copy!word(t, i) = word(t, i)
    /\ \A i, b : Copy!ValueAt(i, b) = ValueAt(i, b)
    /\ Copy!Later = {i \in Nonzero(table) : i > word_index}
<1>1. Copy!WordBits = WordBits
  BY DEF Copy!WordBits, WordBits
<1>2. \A S : Copy!Min(S) = Min(S)
  BY DEF Copy!Min, Min
<1>3. \A t, i : Copy!word(t, i) = word(t, i)
  BY <1>1 DEF Copy!word, word
<1>4. \A t : Copy!Nonzero(t) = Nonzero(t)
  BY <1>3 DEF Copy!Nonzero, Nonzero, Copy!WordIndex, WordIndex
<1>5. \A i, b : Copy!ValueAt(i, b) = ValueAt(i, b)
  BY <1>1 DEF Copy!ValueAt, ValueAt
<1>6. Copy!Later = {i \in Nonzero(table) : i > word_index}
  BY <1>4 DEF Copy!Later
<1> QED BY <1>2, <1>3, <1>5, <1>6

\* What is left of the iterator's word and the words after it, counted.
LEMMA CopyRemaining ==
    ASSUME NEW S, S = word_index + 1 .. Words - 1
    PROVE  Copy!remaining = Cardinality(bits) + Sums(WordSizes(table, S), S)[S]
<1> DEFINE AreCopySums(g) ==
      g = [s \in SUBSET S |->
             IF s = {} THEN 0
             ELSE Copy!Cardinality(Copy!word(table, Pick(s))) + g[s \ {Pick(s)}]]
<1>1. \A T : Copy!Cardinality(T) = Cardinality(T)
  BY DEF Copy!Cardinality, Cardinality
<1>2. Copy!remaining = Copy!Cardinality(bits) + (CHOOSE g : AreCopySums(g))[S]
  BY DEF Copy!remaining, Copy!MapThenSumSet, Copy!MapThenFoldSet, Pick
<1>3. ASSUME NEW g PROVE AreCopySums(g) <=> AreWordSums(g, table, S)
  BY <1>1, CopyOperators DEF AreWordSums
<1> HIDE DEF AreCopySums
<1>4. (CHOOSE g : AreCopySums(g)) = (CHOOSE g : AreWordSums(g, table, S))
  BY <1>3
<1> QED BY <1>1, <1>2, <1>4, WordSumsAreSums

\* The members of M an iterator has gone past with b of word i before it.
Passed(M, i, b) ==
    {v \in M : \/ v \div WordBits < i
               \/ v \div WordBits = i /\ v % WordBits \notin b}

\* A member is taken: it is the first of those not passed, and is then passed.
LEMMA PassedTake ==
    ASSUME NEW t, NEW M, Holds(t, M), NEW i \in WordIndex,
           NEW b, b # {}, UpperPart(b, word(t, i)),
           NEW x, x = ValueAt(i, Min(b))
    PROVE  /\ x \in M
           /\ \A v \in Passed(M, i, b) : v < x
           /\ Passed(M, i, b \ {Min(b)}) = Passed(M, i, b) \cup {x}
           /\ UpperPart(b \ {Min(b)}, word(t, i))
<1> DEFINE m == Min(b)
           c == b \ {m}
<1>1. /\ word(t, i) \in SUBSET (0 .. WordBits - 1) /\ word(t, i) \in SUBSET Nat
      /\ \A p \in 0 .. WordBits - 1 : p \in word(t, i) <=> ValueAt(i, p) \in M
  BY WordFacts
<1>2. m \in b /\ (\A p \in c : m < p) /\ UpperPart(c, word(t, i))
  BY <1>1, UpperPartRest
<1>3. m \in 0 .. WordBits - 1 /\ m \in word(t, i)
  BY <1>1, <1>2 DEF UpperPart
<1>4. x \in M /\ x \in Value /\ x \div WordBits = i /\ x % WordBits = m
  BY <1>1, <1>3, JoinFacts
<1>5. x \in Nat /\ i \in Nat /\ m \in Nat
  BY <1>3, <1>4, ValueFacts, Sizes DEF WordIndex
<1> HIDE DEF m
<1>6. ASSUME NEW v \in M
      PROVE  /\ v \in Value /\ v \in Nat
             /\ v \div WordBits \in Nat /\ v % WordBits \in Nat
             /\ v \div WordBits = i => v % WordBits \in word(t, i)
             /\ v \div WordBits = i /\ v % WordBits = m => v = x
  <2>1. v \in Value /\ v % WordBits \in word(t, v \div WordBits)
    BY NonzeroFacts
  <2>2. /\ v \in Nat /\ v \div WordBits \in WordIndex /\ v % WordBits \in 0 .. WordBits - 1
        /\ ValueAt(v \div WordBits, v % WordBits) = v
    BY <2>1, SplitFacts
  <2>3. v \div WordBits \in Nat /\ v % WordBits \in Nat
    BY <2>2, Sizes DEF WordIndex
  <2>4. v \div WordBits = i /\ v % WordBits = m => v = x
    BY <2>2 DEF m
  <2> QED BY <2>1, <2>2, <2>3, <2>4
<1>7. ASSUME NEW v \in Passed(M, i, b) PROVE v < x
  <2>1. v \in M /\ (v \div WordBits < i \/ (v \div WordBits = i /\ v % WordBits \notin b))
    BY DEF Passed
  <2>2. /\ v \in Nat /\ v \div WordBits \in Nat /\ v % WordBits \in Nat
        /\ v \div WordBits = i => v % WordBits \in word(t, i)
    BY <1>6, <2>1
  <2>3. x <= v <=> \/ x \div WordBits < v \div WordBits
                   \/ /\ x \div WordBits = v \div WordBits
                      /\ x % WordBits <= v % WordBits
    BY <1>5, <2>2, Sizes, DivOrder
  <2>4. ~ (i = v \div WordBits /\ m <= v % WordBits)
    BY <1>2, <2>1, <2>2 DEF UpperPart
  <2>5. ~ (i < v \div WordBits)
    BY <1>5, <2>1, <2>2
  <2>6. ~ (x <= v)
    BY <1>4, <2>3, <2>4, <2>5
  <2> QED BY <1>5, <2>2, <2>6
<1>8. ASSUME NEW v PROVE v \in Passed(M, i, c) <=> v \in Passed(M, i, b) \cup {x}
  <2>1. CASE v \in M
    <3>1. v \div WordBits = i /\ v % WordBits = m <=> v = x
      BY <1>4, <1>6, <2>1
    <3> QED BY <2>1, <3>1, <1>4, <1>5, <1>2 DEF Passed
  <2>2. CASE v \notin M
    BY <1>4, <2>2 DEF Passed
  <2> QED BY <2>1, <2>2
<1> HIDE DEF c
<1>9. Passed(M, i, c) = Passed(M, i, b) \cup {x}
  BY <1>8
<1> QED BY <1>2, <1>4, <1>7, <1>9 DEF c, m

\* No member lies between an exhausted word and the next that holds one.
LEMMA PassedLater ==
    ASSUME NEW t, NEW M, Holds(t, M), NEW i \in WordIndex,
           NEW later, later = {k \in Nonzero(t) : k > i}, later # {}
    PROVE  /\ Min(later) \in WordIndex
           /\ word(t, Min(later)) # {}
           /\ Passed(M, Min(later), word(t, Min(later))) = Passed(M, i, {})
<1> DEFINE j == Min(later)
<1>1. Nonzero(t) \in SUBSET WordIndex /\ later \in SUBSET Nat /\ i \in Nat
  BY NonzeroFacts, Sizes DEF WordIndex
<1>2. j \in later /\ \A k \in later : j <= k
  BY <1>1, MinNat
<1>3. j \in WordIndex /\ j \in Nat /\ j > i /\ word(t, j) # {}
  BY <1>1, <1>2 DEF Nonzero
<1> HIDE DEF j
<1>4. ASSUME NEW v \in M PROVE v \in Passed(M, j, word(t, j)) <=> v \in Passed(M, i, {})
  <2> DEFINE q == v \div WordBits
             r == v % WordBits
  <2>1. q \in Nonzero(t) /\ r \in word(t, q)
    BY NonzeroFacts
  <2>2. q \in Nat /\ (q > i => j <= q)
    BY <1>1, <1>2, <2>1, Sizes DEF WordIndex
  <2>3. v \in Passed(M, j, word(t, j)) <=> q < j
    BY <2>1 DEF Passed
  <2>4. v \in Passed(M, i, {}) <=> q < i \/ q = i
    BY DEF Passed
  <2> HIDE DEF q, r
  <2> QED BY <1>1, <1>3, <2>2, <2>3, <2>4
<1>5. Passed(M, j, word(t, j)) \subseteq M /\ Passed(M, i, {}) \subseteq M
  BY DEF Passed
<1>6. Passed(M, j, word(t, j)) = Passed(M, i, {})
  BY <1>4, <1>5
<1> QED BY <1>3, <1>6 DEF j

\* Nothing is left after the last word that holds a member.
LEMMA PassedAll ==
    ASSUME NEW t, NEW M, Holds(t, M), NEW i \in WordIndex,
           {k \in Nonzero(t) : k > i} = {}
    PROVE  Passed(M, i, {}) = M
<1>1. ASSUME NEW v \in M PROVE v \in Passed(M, i, {})
  <2>1. v \div WordBits \in Nonzero(t) /\ v \div WordBits \in Nat /\ i \in Nat
    BY NonzeroFacts, Sizes DEF WordIndex
  <2>2. ~ (v \div WordBits > i)
    BY <2>1
  <2>3. v \div WordBits < i \/ v \div WordBits = i
    BY <2>1, <2>2
  <2> QED BY <2>3 DEF Passed
<1> QED BY <1>1 DEF Passed

\* A new iterator has passed none.
LEMMA PassedNone ==
    ASSUME NEW t, NEW M, Holds(t, M)
    PROVE  Passed(M, 0, word(t, 0)) = {}
<1>1. ASSUME NEW v \in M PROVE v \notin Passed(M, 0, word(t, 0))
  <2>1. v \div WordBits \in Nat /\ v % WordBits \in word(t, v \div WordBits)
    BY NonzeroFacts, Sizes DEF WordIndex
  <2> DEFINE q == v \div WordBits
  <2>2. ~ (q < 0) /\ (q = 0 => v % WordBits \in word(t, 0))
    BY <2>1
  <2> QED BY <2>2 DEF Passed
<1> QED BY <1>1 DEF Passed

\* The members are those passed, those in the rest of the word and those in later words.
LEMMA PassedAndLeft ==
    ASSUME NEW t, NEW M, Holds(t, M), NEW i \in WordIndex,
           NEW b, UpperPart(b, word(t, i)),
           NEW S, S = i + 1 .. Words - 1
    PROVE  /\ IsFiniteSet(Passed(M, i, b))
           /\ Cardinality(b) + Sums(WordSizes(t, S), S)[S]
                = Cardinality(M) - Cardinality(Passed(M, i, b))
<1> DEFINE A == Passed(M, i, b)
           B == PartOf(M, i, b)
           C == Within(M, S)
<1>1. IsFiniteSet(M)
  BY LenExact
<1>2. A \subseteq M /\ B \subseteq M /\ C \subseteq M
  BY DEF Passed, PartOf, Within
<1>3. ASSUME NEW v \in M
      PROVE  /\ v \in A \/ v \in B \/ v \in C
             /\ ~ (v \in A /\ v \in B) /\ ~ (v \in A /\ v \in C) /\ ~ (v \in B /\ v \in C)
  <2> DEFINE q == v \div WordBits
  <2>1. q \in 0 .. Words - 1 /\ i \in 0 .. Words - 1
    BY NonzeroFacts, Sizes DEF WordIndex
  <2>2. v \in A <=> q < i \/ (q = i /\ v % WordBits \notin b)
    BY DEF Passed
  <2>3. v \in B <=> q = i /\ v % WordBits \in b
    BY DEF PartOf
  <2>4. v \in C <=> q \in i + 1 .. Words - 1
    BY DEF Within
  <2> HIDE DEF q, A, B, C
  <2>5. v \in C <=> q > i
    BY <2>1, <2>4, Sizes
  <2>6. q < i \/ q = i \/ q > i
    BY <2>1, Sizes
  <2>7. ~ (q < i /\ q = i) /\ ~ (q < i /\ q > i) /\ ~ (q = i /\ q > i)
    BY <2>1, Sizes
  <2> QED BY <2>2, <2>3, <2>5, <2>6, <2>7
<1>4. b \in SUBSET word(t, i) /\ S \in SUBSET WordIndex
  BY Sizes DEF UpperPart, WordIndex
<1>5. IsFiniteSet(B) /\ Cardinality(b) = Cardinality(B)
  BY <1>4, PartCardinality
<1>6. IsFiniteSet(C) /\ Sums(WordSizes(t, S), S)[S] = Cardinality(C)
  BY <1>4, SumsCountMembers
<1> HIDE DEF A, B, C
<1>7. IsFiniteSet(A)
  BY <1>1, <1>2, FS_Subset
<1>8. B \cap C = {} /\ A \cap (B \cup C) = {} /\ A \cup (B \cup C) = M
  BY <1>2, <1>3
<1>9. IsFiniteSet(B \cup C) /\ Cardinality(B \cup C) = Cardinality(B) + Cardinality(C)
  BY <1>5, <1>6, <1>8, DisjointUnion
<1>10. Cardinality(M) = Cardinality(A) + Cardinality(B \cup C)
  BY <1>7, <1>8, <1>9, DisjointUnion
<1>11. Cardinality(A) \in Nat /\ Cardinality(B) \in Nat /\ Cardinality(C) \in Nat
  BY <1>5, <1>6, <1>7, FS_CardinalityType
<1>12. Cardinality(b) + Sums(WordSizes(t, S), S)[S] = Cardinality(M) - Cardinality(A)
  BY <1>5, <1>6, <1>9, <1>10, <1>11
<1> QED BY <1>7, <1>12 DEF A

\* A list grows by a value above all it has.
LEMMA ListsAppend ==
    ASSUME NEW y, NEW P, Lists(y, P), NEW x \in Value, \A v \in P : v < x
    PROVE  Lists(Append(y, x), P \cup {x})
<1> DEFINE z == Append(y, x)
           n == Len(y)
<1>1. y \in Seq(Value) /\ n \in Nat /\ DOMAIN y = 1 .. n
  BY DEF Lists
<1>2. /\ z \in Seq(Value) /\ DOMAIN z = 1 .. n + 1
      /\ \A j \in 1 .. n : z[j] = y[j] /\ y[j] \in P
      /\ z[n + 1] = x
  BY <1>1 DEF Lists, Range
<1> HIDE DEF z, n
<1>3. ASSUME NEW j \in DOMAIN z, NEW k \in DOMAIN z, j < k PROVE z[j] < z[k]
  <2>1. j \in 1 .. n /\ z[j] = y[j] /\ y[j] \in P
    BY <1>1, <1>2, <1>3
  <2>2. CASE k = n + 1
    BY <1>2, <2>1, <2>2
  <2>3. CASE k # n + 1
    <3>1. k \in 1 .. n /\ z[k] = y[k]
      BY <1>1, <1>2, <2>3
    <3>2. y[j] < y[k]
      BY <1>1, <1>3, <2>1, <3>1 DEF Lists
    <3> QED BY <2>1, <3>1, <3>2
  <2> QED BY <2>2, <2>3
<1>4. ASSUME NEW v PROVE v \in Range(z) <=> v \in P \cup {x}
  <2>1. v \in P <=> \E j \in 1 .. n : y[j] = v
    BY <1>1 DEF Lists, Range
  <2>2. v \in Range(z) <=> \E j \in 1 .. n + 1 : z[j] = v
    BY <1>2 DEF Range
  <2>3. \A j \in 1 .. n + 1 : j \in 1 .. n \/ j = n + 1
    BY <1>1
  <2>4. n + 1 \in 1 .. n + 1 /\ \A j \in 1 .. n : j \in 1 .. n + 1
    BY <1>1
  <2> QED BY <1>2, <2>1, <2>2, <2>3, <2>4
<1>5. Range(z) = P \cup {x}
  BY <1>4
<1> QED BY <1>2, <1>3, <1>5 DEF Lists, z

\* A list is as long as there are values in it.
LEMMA ListsLength ==
    ASSUME NEW y, NEW P, Lists(y, P)
    PROVE  /\ Len(y) \in Nat
           /\ IsFiniteSet(P) /\ Cardinality(P) = Len(y)
           /\ y # <<>> => /\ Last(y) \in P
                          /\ \A v \in P : v <= Last(y)
<1> DEFINE n == Len(y)
<1>1. y \in Seq(Value) /\ n \in Nat /\ DOMAIN y = 1 .. n /\ y \in [1 .. n -> Value]
  BY DEF Lists
<1>2. \A j \in 1 .. n : y[j] \in P
  BY <1>1 DEF Lists, Range
<1>3. \A v \in P : \E j \in 1 .. n : y[j] = v
  BY <1>1 DEF Lists, Range
<1>4. \A j \in 1 .. n : y[j] \in Nat
  BY <1>1, ValueFacts
<1>5. \A j, k \in 1 .. n : j < k => y[j] < y[k]
  BY <1>1 DEF Lists
<1>6. y # <<>> => n \in 1 .. n /\ Last(y) = y[n]
  BY <1>1 DEF Last
<1> HIDE DEF n
<1>7. \A j, k \in 1 .. n : y[j] = y[k] => j = k
  <2> SUFFICES ASSUME NEW j \in 1 .. n, NEW k \in 1 .. n, y[j] = y[k] PROVE j = k
    OBVIOUS
  <2>1. ~ (j < k) /\ ~ (k < j)
    BY <1>4, <1>5
  <2> QED BY <1>1, <2>1
<1>8. y \in [1 .. n -> P]
  BY <1>1, <1>2
<1>9. ExistsBijection(1 .. n, P)
  BY <1>3, <1>7, <1>8, Zenon DEF ExistsBijection, Bijection, Injection, Surjection, IsInjective
<1>10. IsFiniteSet(1 .. n) /\ Cardinality(1 .. n) = n
  BY <1>1, FS_Interval
<1>11. IsFiniteSet(P) /\ Cardinality(P) = n
  BY <1>9, <1>10, FS_Bijection
<1>12. ASSUME y # <<>>, NEW v \in P PROVE v <= Last(y)
  <2>1. PICK j \in 1 .. n : y[j] = v
    BY <1>3
  <2>2. j = n \/ j < n
    BY <1>1, <2>1
  <2>3. y[j] <= y[n]
    BY <1>4, <1>5, <1>6, <1>12, <2>1, <2>2
  <2> QED BY <1>6, <1>12, <2>1, <2>3
<1>13. y # <<>> => Last(y) \in P
  BY <1>2, <1>6
<1> QED BY <1>1, <1>11, <1>12, <1>13 DEF n

\* A member below one that is passed is passed.
LEMMA PassedDown ==
    ASSUME NEW t, NEW M, Holds(t, M), NEW i \in WordIndex,
           NEW b, UpperPart(b, word(t, i)),
           NEW u \in Passed(M, i, b), NEW v \in M, v <= u
    PROVE  v \in Passed(M, i, b)
<1> DEFINE p == u \div WordBits
           q == v \div WordBits
           r == u % WordBits
           s == v % WordBits
<1>1. u \in M /\ (p < i \/ (p = i /\ r \notin b))
  BY DEF Passed
<1>2. u \in Nat /\ v \in Nat
  BY <1>1, ValueFacts DEF Holds
<1>3. p \in WordIndex /\ q \in WordIndex /\ r \in word(t, p) /\ s \in word(t, q)
  BY <1>1, NonzeroFacts
<1>4. p \in Nat /\ q \in Nat /\ i \in Nat
  BY <1>3, Sizes DEF WordIndex
<1>5. q < p \/ (q = p /\ s <= r)
  BY <1>2, Sizes, DivOrder
<1>6. v \in Passed(M, i, b) <=> q < i \/ (q = i /\ s \notin b)
  BY DEF Passed
<1> HIDE DEF p, q, r, s
<1>7. CASE q < i
  BY <1>6, <1>7
<1>8. CASE ~ (q < i)
  <2>1. q = i /\ p = i /\ s <= r /\ r \notin b
    BY <1>1, <1>4, <1>5, <1>8
  <2>2. s \notin b
    BY <1>3, <2>1 DEF UpperPart
  <2> QED BY <1>6, <2>1, <2>2
<1> QED BY <1>7, <1>8

\* Where an iterator in use is, and that it has listed what it has passed.
IterInv ==
    IF iterating
    THEN /\ word_index \in WordIndex
         /\ UpperPart(bits, word(table, word_index))
         /\ Lists(yielded, Passed(members, word_index, bits))
    ELSE ret = [op |-> "none"] /\ yielded = <<>>

\* The inductive invariant: the table holds the members, and the iterator has
\* yielded those it has passed and counts those it has not.
UseInv == SetInv /\ iterating \in BOOLEAN /\ IterInv /\ Exact

\* A member is taken from word i, the words before it having been listed.
LEMMA TakePreserves ==
    ASSUME UseInv, iterating, iterating' = iterating, members' = members,
           NEW i \in WordIndex, NEW b, b # {}, UpperPart(b, word(table, i)),
           Lists(yielded, Passed(members, i, b)), Copy!Take(i, b)
    PROVE  UseInv'
<1> DEFINE x == ValueAt(i, Min(b))
<1>1. /\ word_index' = i /\ bits' = b \ {Min(b)}
      /\ ret' = [op |-> "next", val |-> x]
      /\ yielded' = Append(yielded, x)
      /\ table' = table
  BY CopyOperators DEF Copy!Take
<1>2. Holds(table, members)
  BY DEF UseInv, SetInv
<1> HIDE DEF x
<1>3. /\ x \in members
      /\ \A v \in Passed(members, i, b) : v < x
      /\ Passed(members, i, b \ {Min(b)}) = Passed(members, i, b) \cup {x}
      /\ UpperPart(b \ {Min(b)}, word(table, i))
  BY <1>2, PassedTake DEF x
<1>4. x \in Value /\ x # None
  BY <1>2, <1>3, ValueFacts, NoneAssumption DEF Holds
<1>5. Lists(Append(yielded, x), Passed(members, i, b) \cup {x})
  BY <1>3, <1>4, ListsAppend
<1>6. Lists(yielded', Passed(members', word_index', bits'))
  BY <1>1, <1>3, <1>5
<1>7. UpperPart(bits', word(table', word_index'))
  BY <1>1, <1>3
<1>8. Exact'
  BY <1>1, <1>4 DEF Exact
<1>9. SetInv'
  BY <1>1, <1>2 DEF SetInv
<1> QED BY <1>1, <1>6, <1>7, <1>8, <1>9 DEF UseInv, IterInv

\* The four steps of an iterator.
LEMMA IterStepPreserves == UseInv /\ IterStep => UseInv'
<1> SUFFICES ASSUME UseInv, IterStep PROVE UseInv'
  OBVIOUS
<1>1. /\ Holds(table, members) /\ iterating
      /\ word_index \in WordIndex
      /\ UpperPart(bits, word(table, word_index))
      /\ Lists(yielded, Passed(members, word_index, bits))
  BY DEF UseInv, SetInv, IterInv, IterStep
<1>2. iterating' = iterating /\ members' = members /\ Copy!Next
  BY DEF IterStep
<1> DEFINE later == {k \in Nonzero(table) : k > word_index}
<1>3. Copy!Later = later
  BY CopyOperators
<1> HIDE DEF later
<1>4. CASE Copy!NextInWord
  BY <1>1, <1>2, <1>4, TakePreserves DEF Copy!NextInWord
<1>5. CASE Copy!NextInLaterWord
  <2>1. bits = {} /\ later # {} /\ Copy!Take(Min(later), word(table, Min(later)))
    BY <1>3, <1>5, CopyOperators DEF Copy!NextInLaterWord
  <2> DEFINE j == Min(later)
             b == word(table, j)
  <2>2. j \in WordIndex /\ b # {} /\ Passed(members, j, b) = Passed(members, word_index, {})
    <3>1. later = {k \in Nonzero(table) : k > word_index}
      BY DEF later
    <3> QED BY <1>1, <2>1, <3>1, PassedLater
  <2>3. Lists(yielded, Passed(members, j, b))
    BY <1>1, <2>1, <2>2
  <2>4. UpperPart(b, word(table, j))
    BY DEF UpperPart
  <2>5. Copy!Take(j, b)
    BY <2>1
  <2> HIDE DEF j
  <2> QED BY <1>1, <1>2, <2>2, <2>3, <2>4, <2>5, TakePreserves
<1>6. CASE Copy!NextNone
  <2>1. /\ bits = {} /\ later = {} /\ word_index' = Words - 1
        /\ ret' = [op |-> "next", val |-> None]
        /\ UNCHANGED <<table, bits, yielded>>
    BY <1>3, <1>6 DEF Copy!NextNone
  <2>2. Passed(members, word_index, {}) = members
    BY <1>1, <2>1, PassedAll DEF later
  <2>3. Words - 1 \in WordIndex
    BY Sizes DEF WordIndex
  <2>4. {k \in Nonzero(table) : k > Words - 1} = {}
    BY Sizes DEF Nonzero, WordIndex
  <2>5. Passed(members, Words - 1, {}) = members
    BY <1>1, <2>3, <2>4, PassedAll
  <2>6. Lists(yielded, members)
    BY <1>1, <2>1, <2>2
  <2>7. Lists(yielded', Passed(members', word_index', bits'))
    BY <1>2, <2>1, <2>5, <2>6
  <2>8. UpperPart(bits', word(table', word_index'))
    BY <2>1 DEF UpperPart
  <2>9. Len(yielded) = Cardinality(members)
    BY <2>6, ListsLength
  <2>10. Exact'
    BY <1>2, <2>1, <2>9 DEF Exact
  <2>11. SetInv'
    BY <1>1, <1>2, <2>1 DEF SetInv
  <2>12. IterInv'
    BY <1>1, <1>2, <2>1, <2>3, <2>7, <2>8 DEF IterInv
  <2> QED BY <1>1, <1>2, <2>10, <2>11, <2>12 DEF UseInv
<1>7. CASE Copy!SizeHint
  <2> DEFINE S == word_index + 1 .. Words - 1
             left == Copy!remaining
  <2>1. /\ ret' = [op |-> "size_hint", exactly |-> left]
        /\ UNCHANGED <<table, word_index, bits, yielded>>
    BY <1>7 DEF Copy!SizeHint
  <2>2. left = Cardinality(bits) + Sums(WordSizes(table, S), S)[S]
    BY CopyRemaining
  <2> HIDE DEF left
  <2>3. left = Cardinality(members) - Cardinality(Passed(members, word_index, bits))
    BY <1>1, <2>2, PassedAndLeft
  <2>4. left = Cardinality(members) - Len(yielded)
    BY <1>1, <2>3, ListsLength
  <2>5. Exact'
    BY <1>2, <2>1, <2>4 DEF Exact
  <2>6. SetInv'
    BY <1>1, <1>2, <2>1 DEF SetInv
  <2>7. IterInv'
    BY <1>1, <1>2, <2>1 DEF IterInv
  <2> QED BY <1>1, <1>2, <2>5, <2>6, <2>7 DEF UseInv
<1> QED BY <1>2, <1>4, <1>5, <1>6, <1>7 DEF Copy!Next

\* Every edit, every step of an iterator and every drop keeps it.
LEMMA UseInvInductive ==
    /\ UseInit => UseInv
    /\ UseInv /\ [UseNext]_useVars => UseInv'
<1>1. UseInit => UseInv
  <2> SUFFICES ASSUME UseInit PROVE UseInv
    OBVIOUS
  <2>1. iterating = FALSE /\ ret = [op |-> "none"] /\ yielded = <<>> /\ SetInv
    BY InitSetInv DEF UseInit
  <2> QED BY <2>1 DEF UseInv, IterInv, Exact
<1>2. ASSUME UseInv, [UseNext]_useVars PROVE UseInv'
  <2>1. SetInv'
    BY <1>2, UseSetInv DEF UseInv
  <2>2. CASE Edit
    BY <1>2, <2>1, <2>2 DEF UseInv, IterInv, Exact, Edit, iterVars
  <2>3. CASE Iterate
    <3>1. /\ ~ iterating /\ iterating' /\ word_index' = 0 /\ bits' = word(table, 0)
          /\ ret' = [op |-> "iter"]
          /\ table' = table /\ members' = members /\ yielded' = <<>>
      BY <1>2, <2>3 DEF Iterate, vars, UseInv, IterInv
    <3>2. Holds(table, members) /\ iterating' \in BOOLEAN
      BY <1>2, <2>3 DEF UseInv, SetInv, Iterate
    <3>3. Passed(members, 0, word(table, 0)) = {}
      BY <3>2, PassedNone
    <3>4. Lists(<<>>, {})
      BY DEF Lists, Range
    <3>5. 0 \in WordIndex /\ UpperPart(word(table, 0), word(table, 0))
      BY Sizes DEF WordIndex, UpperPart
    <3>6. IterInv'
      BY <3>1, <3>3, <3>4, <3>5 DEF IterInv
    <3>7. Exact'
      BY <3>1 DEF Exact
    <3> QED BY <2>1, <3>2, <3>6, <3>7 DEF UseInv
  <2>4. CASE IterStep
    BY <1>2, <2>4, IterStepPreserves
  <2>5. CASE DropIter
    BY <2>1, <2>5 DEF UseInv, IterInv, Exact, DropIter
  <2>6. CASE UNCHANGED useVars
    BY <1>2, <2>6 DEF UseInv, SetInv, IterInv, Exact, useVars, iterVars, vars
  <2> QED BY <1>2, <2>2, <2>3, <2>4, <2>5, <2>6 DEF UseNext
<1> QED BY <1>1, <1>2

(***************************************************************************)
(* What an iterator has yielded is the members up to the last it yielded,  *)
(* each once and in order, wherever the words without members lie.         *)
(***************************************************************************)
THEOREM IterationAscends == UseSpec => []Ascending
<1>1. UseInv => Ascending
  <2> SUFFICES ASSUME UseInv PROVE Ascending
    OBVIOUS
  <2> DEFINE Reached == {v \in members : yielded # <<>> /\ v <= Last(yielded)}
  <2>0. SUFFICES Lists(yielded, Reached)
    BY DEF Ascending
  <2>1. CASE ~ iterating
    <3>1. yielded = <<>>
      BY <2>1 DEF UseInv, IterInv
    <3>2. Reached = {}
      BY <3>1
    <3>3. Lists(<<>>, {})
      BY DEF Lists, Range
    <3> QED BY <3>1, <3>2, <3>3
  <2>2. CASE iterating
    <3>1. /\ Holds(table, members) /\ word_index \in WordIndex
          /\ UpperPart(bits, word(table, word_index))
          /\ Lists(yielded, Passed(members, word_index, bits))
      BY <2>2 DEF UseInv, SetInv, IterInv
    <3> DEFINE P == Passed(members, word_index, bits)
    <3>2. P \subseteq members
      BY DEF Passed
    <3>3. \A u \in P, v \in members : v <= u => v \in P
      BY <3>1, PassedDown
    <3> HIDE DEF P
    <3>4. Lists(yielded, P)
      BY <3>1 DEF P
    <3>5. yielded # <<>> => Last(yielded) \in P /\ \A v \in P : v <= Last(yielded)
      BY <3>4, ListsLength
    <3>6. yielded # <<>> => P = {v \in members : v <= Last(yielded)}
      BY <3>2, <3>3, <3>5
    <3>7. CASE yielded = <<>>
      <4>1. Reached = {}
        BY <3>7
      <4>2. P = {}
        BY <3>4, <3>7 DEF Lists, Range
      <4> QED BY <3>4, <4>1, <4>2
    <3>8. CASE yielded # <<>>
      <4>1. Reached = P
        BY <3>6, <3>8
      <4> QED BY <3>4, <4>1
    <3> QED BY <3>7, <3>8
  <2> QED BY <2>1, <2>2 DEF UseInv
<1> QED BY <1>1, UseInvInductive, PTL DEF UseSpec

(***************************************************************************)
(* size_hint is always the number of members still to come, and next says  *)
(* None only when none is.                                                 *)
(***************************************************************************)
THEOREM RemainingExact == UseSpec => []Exact
<1>1. UseInv => Exact
  BY DEF UseInv
<1> QED BY <1>1, UseInvInductive, PTL DEF UseSpec
-----------------------------------------------------------------------------
(***************************************************************************)
(* write_members: lists put one after the other.                           *)
(***************************************************************************)
\* A list of higher values continues one of lower values.
LEMMA ListsJoin ==
    ASSUME NEW y, NEW P, Lists(y, P), NEW z, NEW Q, Lists(z, Q), \A p \in P, q \in Q : p < q
    PROVE  Lists(y \o z, P \cup Q)
<1> DEFINE w == y \o z
           m == Len(y)
           n == Len(z)
<1>1. /\ y \in Seq(Value) /\ m \in Nat /\ DOMAIN y = 1 .. m
      /\ z \in Seq(Value) /\ n \in Nat /\ DOMAIN z = 1 .. n
  BY DEF Lists
<1>2. /\ w \in Seq(Value) /\ DOMAIN w = 1 .. m + n
      /\ \A j \in 1 .. m : w[j] = y[j]
      /\ \A j \in m + 1 .. m + n : w[j] = z[j - m]
  BY <1>1
<1>3. /\ \A j \in 1 .. m : y[j] \in P
      /\ \A j \in 1 .. n : z[j] \in Q
  BY <1>1 DEF Lists, Range
<1> HIDE DEF w, m, n
<1>4. \A j \in 1 .. m + n : j \in 1 .. m \/ (j \in m + 1 .. m + n /\ j - m \in 1 .. n)
  BY <1>1
<1>5. ASSUME NEW j \in DOMAIN w, NEW k \in DOMAIN w, j < k PROVE w[j] < w[k]
  <2>1. j \in 1 .. m + n /\ k \in 1 .. m + n
    BY <1>2
  <2>2. CASE k \in 1 .. m
    <3>1. j \in 1 .. m
      BY <1>1, <1>5, <2>1, <2>2
    <3>2. y[j] < y[k]
      BY <1>1, <1>5, <2>2, <3>1 DEF Lists
    <3> QED BY <1>2, <2>2, <3>1, <3>2
  <2>3. CASE k \in m + 1 .. m + n /\ k - m \in 1 .. n
    <3>1. CASE j \in 1 .. m
      BY <1>2, <1>3, <2>3, <3>1
    <3>2. CASE j \in m + 1 .. m + n /\ j - m \in 1 .. n
      <4>1. j - m < k - m
        BY <1>1, <1>5, <2>1
      <4>2. z[j - m] < z[k - m]
        BY <1>1, <2>3, <3>2, <4>1 DEF Lists
      <4> QED BY <1>2, <2>3, <3>2, <4>2
    <3> QED BY <1>4, <2>1, <3>1, <3>2
  <2> QED BY <1>4, <2>1, <2>2, <2>3
<1>6. ASSUME NEW v PROVE v \in Range(w) <=> v \in P \cup Q
  <2>1. v \in P <=> \E j \in 1 .. m : y[j] = v
    BY <1>1 DEF Lists, Range
  <2>2. v \in Q <=> \E j \in 1 .. n : z[j] = v
    BY <1>1 DEF Lists, Range
  <2>3. v \in Range(w) <=> \E j \in 1 .. m + n : w[j] = v
    BY <1>2 DEF Range
  <2>4. ASSUME NEW j \in 1 .. m + n, w[j] = v PROVE v \in P \cup Q
    BY <1>2, <1>3, <1>4, <2>4
  <2>5. ASSUME NEW j \in 1 .. m, y[j] = v PROVE \E k \in 1 .. m + n : w[k] = v
    <3>1. j \in 1 .. m + n
      BY <1>1
    <3> QED BY <1>2, <2>5, <3>1
  <2>6. ASSUME NEW j \in 1 .. n, z[j] = v PROVE \E k \in 1 .. m + n : w[k] = v
    <3>1. j + m \in 1 .. m + n /\ j + m \in m + 1 .. m + n /\ (j + m) - m = j
      BY <1>1
    <3>2. w[j + m] = z[(j + m) - m]
      BY <1>2, <3>1
    <3> QED BY <2>6, <3>1, <3>2
  <2> QED BY <2>1, <2>2, <2>3, <2>4, <2>5, <2>6
<1>7. Range(w) = P \cup Q
  BY <1>6
<1> QED BY <1>2, <1>5, <1>7 DEF Lists, w

\* InOrder, unfolded: g gives the list over every subset of S.
AreLists(g, f, S) ==
    g = [s \in SUBSET S |-> IF s = {} THEN <<>> ELSE f[Min(s)] \o g[s \ {Min(s)}]]

\* What InOrder stands for.
LEMMA InOrderUnfolds ==
    ASSUME NEW f, NEW S, S = DOMAIN f
    PROVE  InOrder(f) = (CHOOSE g : AreLists(g, f, S))[S]
BY DEF InOrder, MapThenFoldSet, AreLists

\* Lists of values that go up with the element they belong to make one list.
LEMMA ListsInOrder ==
    ASSUME NEW S \in SUBSET Nat, IsFiniteSet(S), NEW f, S = DOMAIN f, NEW P,
           \A i \in S : Lists(f[i], P[i]),
           \A i, j \in S : i < j => \A p \in P[i], q \in P[j] : p < q
    PROVE  Lists(InOrder(f), UNION {P[i] : i \in S})
<1> DEFINE T == Seq(Value)
           op == [i \in S |-> [y \in T |-> f[i] \o y]]
           c == [s \in SUBSET S |-> Min(s)]
           All(s) == UNION {P[i] : i \in s}
<1>1. \A i \in S : f[i] \in T
  BY DEF Lists
<1>2. Acts(op, S, T)
  BY <1>1 DEF Acts
<1>3. ASSUME NEW s \in SUBSET S, s # {}
      PROVE  Min(s) \in s /\ s \ {Min(s)} \in SUBSET S /\ \A i \in s \ {Min(s)} : Min(s) < i
  <2>1. s \in SUBSET Nat
    BY <1>3
  <2>2. Min(s) \in s /\ \A i \in s : Min(s) <= i
    BY <1>3, <2>1, MinNat
  <2>3. ASSUME NEW i \in s \ {Min(s)} PROVE Min(s) < i
    <3>1. i \in Nat /\ Min(s) \in Nat /\ Min(s) <= i /\ i # Min(s)
      BY <2>1, <2>2
    <3> QED BY <3>1
  <2> QED BY <2>2, <2>3
<1>4. Chooses(c, S)
  BY <1>3 DEF Chooses
<1>5. \A i \in S, y \in T : op[i][y] = f[i] \o y
  OBVIOUS
<1>6. \A s \in SUBSET S : c[s] = Min(s)
  OBVIOUS
<1>7. <<>> \in T
  OBVIOUS
<1> HIDE DEF op, c, T
<1>8. PICK g : IsFold(g, <<>>, op, c, S, T)
  BY <1>2, <1>4, <1>7, FoldExists
<1>9. ASSUME NEW s \in SUBSET S
      PROVE  g[s] = IF s = {} THEN <<>> ELSE f[Min(s)] \o g[s \ {Min(s)}]
  <2>1. CASE s = {}
    BY <1>8, <2>1 DEF IsFold
  <2>2. CASE s # {}
    <3>1. c[s] = Min(s) /\ Min(s) \in S /\ s \ {Min(s)} \in SUBSET S
      BY <1>3, <1>6, <2>2
    <3>2. g[s \ {Min(s)}] \in T
      BY <1>8, <3>1 DEF IsFold
    <3>3. g[s] = op[Min(s)][g[s \ {Min(s)}]]
      BY <1>8, <2>2, <3>1 DEF IsFold
    <3> QED BY <1>5, <2>2, <3>1, <3>2, <3>3
  <2> QED BY <2>1, <2>2
<1>10. AreLists(g, f, S)
  BY <1>8, <1>9 DEF AreLists, IsFold
<1> DEFINE h == CHOOSE e : AreLists(e, f, S)
<1>11. AreLists(h, f, S)
  BY <1>10
<1> HIDE DEF h
<1>12. \A s \in SUBSET S : h[s] = IF s = {} THEN <<>> ELSE f[Min(s)] \o h[s \ {Min(s)}]
  BY <1>11 DEF AreLists
<1> DEFINE bad == {s \in SUBSET S : ~ Lists(h[s], All(s))}
<1>13. bad = {}
  <2> SUFFICES ASSUME bad # {} PROVE FALSE
    OBVIOUS
  <2>1. PICK s \in bad : \A x \in s : s \ {x} \notin bad
    BY SmallestSet
  <2>2. s \in SUBSET S /\ ~ Lists(h[s], All(s))
    BY <2>1
  <2>3. s # {}
    <3>1. Lists(<<>>, {}) /\ All({}) = {} /\ h[{}] = <<>>
      <4>1. h[{}] = <<>>
        BY <1>12
      <4>2. Lists(<<>>, {})
        BY DEF Lists, Range
      <4> QED BY <4>1, <4>2
    <3> HIDE DEF All
    <3> QED BY <2>2, <3>1
  <2> DEFINE m == Min(s)
             r == s \ {m}
  <2>4. m \in s /\ m \in S /\ r \in SUBSET S /\ \A i \in r : m < i
    BY <1>3, <2>2, <2>3
  <2>5. Lists(h[r], All(r))
    BY <2>1, <2>4
  <2>6. h[s] = f[m] \o h[r]
    BY <1>12, <2>2, <2>3
  <2>7. P[m] \cup All(r) = All(s)
    BY <2>4
  <2>8. \A p \in P[m], q \in All(r) : p < q
    BY <2>4
  <2> HIDE DEF m, r, All
  <2>9. Lists(f[m] \o h[r], P[m] \cup All(r))
    BY <2>4, <2>5, <2>8, ListsJoin
  <2> QED BY <2>2, <2>6, <2>7, <2>9
<1>14. Lists(h[S], All(S))
  BY <1>13
<1> QED BY <1>14, InOrderUnfolds DEF h

\* A word's list is of the members in it.
LEMMA ListWordExact ==
    ASSUME NEW t, NEW M, Holds(t, M), NEW i \in WordIndex
    PROVE  Lists(ListWord(t, i), Within(M, {i}))
<1> DEFINE w == word(t, i)
           f == [b \in w |-> <<ValueAt(i, b)>>]
           P == [b \in w |-> {ValueAt(i, b)}]
<1>1. /\ w \in SUBSET (0 .. WordBits - 1) /\ w \in SUBSET Nat
      /\ \A b \in 0 .. WordBits - 1 : b \in w <=> ValueAt(i, b) \in M
  BY WordFacts
<1>2. IsFiniteSet(w)
  <2>1. w \in SUBSET (0 .. WordBits)
    BY <1>1, Sizes
  <2> QED BY <2>1, Sizes, BitsFinite
<1>3. ASSUME NEW b \in w PROVE Lists(f[b], P[b])
  <2> DEFINE v == ValueAt(i, b)
  <2>1. v \in Value
    BY <1>1, JoinFacts
  <2> HIDE DEF v
  <2>2. Lists(<<v>>, {v})
    BY <2>1 DEF Lists, Range
  <2> QED BY <2>2 DEF v
<1>4. ASSUME NEW a \in w, NEW b \in w, a < b PROVE \A p \in P[a], q \in P[b] : p < q
  <2>1. ValueAt(i, a) < ValueAt(i, b)
    <3>1. i * WordBits \in Nat /\ a \in Nat /\ b \in Nat
      BY <1>1, Sizes DEF WordIndex
    <3> QED BY <1>4, <3>1 DEF ValueAt
  <2> QED BY <2>1
<1>5. ASSUME NEW v PROVE v \in UNION {P[b] : b \in w} <=> v \in Within(M, {i})
  <2>1. v \in UNION {P[b] : b \in w} <=> \E b \in w : v = ValueAt(i, b)
    OBVIOUS
  <2>2. ASSUME NEW b \in w, v = ValueAt(i, b) PROVE v \in Within(M, {i})
    <3>1. v \in M /\ v \div WordBits = i
      BY <1>1, <2>2, JoinFacts
    <3> QED BY <3>1 DEF Within
  <2>3. ASSUME v \in Within(M, {i}) PROVE \E b \in w : v = ValueAt(i, b)
    <3>1. v \in M /\ v \in Value /\ v \div WordBits = i
      BY <2>3 DEF Within, Holds
    <3>2. v % WordBits \in w /\ ValueAt(i, v % WordBits) = v
      BY <3>1, NonzeroFacts, SplitFacts
    <3> QED BY <3>2
  <2> QED BY <2>1, <2>2, <2>3
<1>6. UNION {P[b] : b \in w} = Within(M, {i})
  BY <1>5
<1>7. ListWord(t, i) = InOrder(f) /\ w = DOMAIN f
  BY DEF ListWord
<1> HIDE DEF w, f, P
<1>8. Lists(InOrder(f), UNION {P[b] : b \in w})
  BY <1>1, <1>2, <1>3, <1>4, <1>7, ListsInOrder
<1> QED BY <1>6, <1>7, <1>8

\* write_members lists the members, or says that they are too many.
LEMMA WriteMembersExact ==
    ASSUME NEW t, NEW M, Holds(t, M), NEW n \in Nat
    PROVE  IF Cardinality(M) <= n THEN Lists(write_members(t, n), M)
           ELSE write_members(t, n) = None
<1> DEFINE f == [i \in WordIndex |-> ListWord(t, i)]
           P == [i \in WordIndex |-> Within(M, {i})]
<1>1. WordIndex \in SUBSET Nat /\ IsFiniteSet(WordIndex)
  BY WordIndexFinite, Sizes DEF WordIndex
<1>2. \A i \in WordIndex : Lists(f[i], P[i])
  BY ListWordExact
<1>3. ASSUME NEW i \in WordIndex, NEW j \in WordIndex, i < j, NEW p \in P[i], NEW q \in P[j]
      PROVE  p < q
  <2>1. /\ p \in M /\ p \in Value /\ p \in Nat /\ p \div WordBits = i
        /\ q \in M /\ q \in Value /\ q \in Nat /\ q \div WordBits = j
    BY ValueFacts DEF Within, Holds
  <2>2. q <= p <=> \/ q \div WordBits < p \div WordBits
                   \/ /\ q \div WordBits = p \div WordBits
                      /\ q % WordBits <= p % WordBits
    BY <2>1, Sizes, DivOrder
  <2>3. ~ (j < i) /\ j # i
    BY <1>1, <1>3
  <2>4. ~ (q <= p)
    BY <2>1, <2>2, <2>3
  <2> QED BY <2>1, <2>4
<1>4. UNION {P[i] : i \in WordIndex} = M
  <2>1. ASSUME NEW v PROVE v \in UNION {P[i] : i \in WordIndex} <=> v \in M
    <3>1. v \in UNION {P[i] : i \in WordIndex} <=> \E i \in WordIndex : v \in Within(M, {i})
      OBVIOUS
    <3>2. v \in M => v \div WordBits \in WordIndex
      BY SplitFacts DEF Holds
    <3> QED BY <3>1, <3>2 DEF Within
  <2> HIDE DEF P
  <2> QED BY <2>1
<1>5. WordIndex = DOMAIN f
  OBVIOUS
<1>6. write_members(t, n) = IF len(t) > n THEN None ELSE InOrder(f)
  BY DEF write_members
<1> HIDE DEF f, P
<1>7. Lists(InOrder(f), UNION {P[i] : i \in WordIndex})
  BY <1>1, <1>2, <1>3, <1>5, ListsInOrder
<1>8. len(t) = Cardinality(M) /\ Cardinality(M) \in Nat
  BY LenExact, FS_CardinalityType
<1>9. CASE Cardinality(M) <= n
  <2>1. ~ (len(t) > n)
    BY <1>8, <1>9
  <2> QED BY <1>4, <1>7, <1>9, <1>6, <2>1
<1>10. CASE ~ (Cardinality(M) <= n)
  <2>1. len(t) > n
    BY <1>8, <1>10
  <2> QED BY <1>10, <1>6, <2>1
<1> QED BY <1>9, <1>10

\* Bit lo of row hi is the membership of the byte with those nibbles.
LEMMA NibbleRowExact ==
    ASSUME NEW t, NEW M, Holds(t, M),
           NEW hi \in 0 .. TableBytes \div 2 - 1, NEW lo \in 0 .. 2 * ByteBits - 1
    PROVE  lo \in nibble_row(t, hi) <=> hi * 2 * ByteBits + lo \in M
<1> DEFINE v == hi * 2 * ByteBits + lo
           B == ByteBits
<1>1. hi \in Nat /\ lo \in Nat /\ lo < 2 * B /\ B \in Nat \ {0}
  BY Sizes
<1>2. 2 * hi + 1 < TableBytes
  <2>1. /\ TableBytes \div 2 \in Nat /\ TableBytes % 2 \in 0 .. 1
        /\ TableBytes = 2 * (TableBytes \div 2) + (TableBytes % 2)
    BY Sizes, DivMod
  <2>2. hi + 1 <= TableBytes \div 2
    BY <1>1, <2>1
  <2> DEFINE q == TableBytes \div 2
             r == TableBytes % 2
  <2> HIDE DEF q, r
  <2>3. q \in Nat /\ r \in 0 .. 1 /\ TableBytes = 2 * q + r /\ hi + 1 <= q
    BY <2>1, <2>2 DEF q, r
  <2> QED BY <1>1, <2>3
<1>3. 2 * hi \in 0 .. TableBytes - 1 /\ 2 * hi + 1 \in 0 .. TableBytes - 1
  BY <1>1, <1>2, Sizes
<1>4. t[2 * hi] \in SUBSET Byte /\ t[2 * hi + 1] \in SUBSET Byte
  BY <1>3 DEF Holds, Table
<1>5. v = B * (2 * hi) + lo
  <2>1. hi * 2 * B = B * (2 * hi)
    BY <1>1, SMT
  <2> QED BY <2>1
<1> HIDE DEF v
<1>6. ASSUME NEW k \in 0 .. TableBytes - 1, NEW b \in Byte, v = B * k + b
      PROVE  v \in M <=> b \in t[k]
  <2>1. k \in Nat /\ b \in 0 .. B - 1 /\ b \in Nat /\ v \in Nat
    <3>1. B * k \in Nat
      BY <1>1, Sizes
    <3> QED BY <1>1, <1>6, <3>1, Sizes DEF Byte
  <2>2. v \div B = k /\ v % B = b
    BY <1>1, <1>6, <2>1, DivModUnique
  <2>3. v < TableBytes * B
    BY <1>1, <2>1, <2>2, Sizes, QuotientBound
  <2>4. v \in Value
    BY <2>1, <2>3, Sizes DEF TableBits, Value
  <2>5. contains(t, v) <=> b \in t[k]
    BY <2>2 DEF contains
  <2> QED BY <2>4, <2>5 DEF Holds
<1>7. lo \in nibble_row(t, hi) <=> lo \in t[2 * hi] \/ lo - B \in t[2 * hi + 1]
  BY DEF nibble_row, Shl
<1>8. CASE lo < B
  <2>1. lo \in Byte /\ lo - B \notin Byte
    BY <1>1, <1>8 DEF Byte
  <2>2. v \in M <=> lo \in t[2 * hi]
    BY <1>3, <1>5, <1>6, <2>1
  <2> QED BY <1>4, <1>7, <2>1, <2>2 DEF v
<1>9. CASE ~ (lo < B)
  <2>1. lo - B \in Byte /\ lo \notin Byte
    BY <1>1, <1>9 DEF Byte
  <2>2. v = B * (2 * hi + 1) + (lo - B)
    <3>1. B * (2 * hi + 1) = B * (2 * hi) + B /\ B * (2 * hi) \in Nat
      BY <1>1, SMT
    <3> QED BY <1>1, <1>5, <3>1
  <2>3. v \in M <=> lo - B \in t[2 * hi + 1]
    BY <1>3, <1>6, <2>1, <2>2
  <2> QED BY <1>4, <1>7, <2>1, <2>3 DEF v
<1> QED BY <1>8, <1>9

(***************************************************************************)
(* What a kernel is built from, write_members, the nibble rows, len and    *)
(* is_empty, says what the members are, after any sequence of edits.       *)
(***************************************************************************)
THEOREM ListingExact == UseSpec => []Listed
<1>1. UseInit => SetInv
  BY InitSetInv DEF UseInit
<1>2. SetInv => Listed
  <2> SUFFICES ASSUME SetInv PROVE Listed
    OBVIOUS
  <2>1. Holds(table, members)
    BY DEF SetInv
  <2>2. IF Cardinality(members) <= BufferLen
        THEN Lists(write_members(table, BufferLen), members)
        ELSE write_members(table, BufferLen) = None
    BY <2>1, WriteMembersExact, ArgumentsAssumption
  <2>3. ASSUME NEW hi \in 0 .. TableBytes \div 2 - 1, NEW lo \in 0 .. 2 * ByteBits - 1
        PROVE  lo \in nibble_row(table, hi) <=> hi * 2 * ByteBits + lo \in members
    BY <2>1, NibbleRowExact
  <2>4. len(table) = Cardinality(members)
    BY <2>1, LenExact
  <2>5. is_empty(table) <=> members = {}
    BY <2>1, NonzeroFacts DEF is_empty
  <2> QED BY <2>2, <2>3, <2>4, <2>5 DEF Listed
<1> QED BY <1>1, <1>2, UseSetInv, PTL DEF UseSpec
=============================================================================
