------------------------------ MODULE BitSets ------------------------------
(***************************************************************************)
(* The integers the crate uses as sets of bits: MatchedBitset (u128), the  *)
(* u64 bitmasks of the scans.  An integer is represented by the set of the *)
(* positions of its one bits, so `&`, `|` and `!= 0` are \cap, \cup and    *)
(* # {}, count_ones is Cardinality, trailing_zeros is Min and              *)
(* 63 - leading_zeros is Max.                                              *)
(***************************************************************************)
EXTENDS Integers, FiniteSetsExt

\* x << k for a w-bit x: bits pushed past the top are lost.
Shl(x, k, w) == {b \in 0 .. w - 1 : b - k \in x}

\* x >> k: bits below k are lost.
Shr(x, k) == {b - k : b \in {c \in x : c >= k}}

\* !(MAX << k): the k lowest bits.
LowMask(k) == 0 .. k - 1

\* MAX << k at width w.
HighMask(k, w) == k .. w - 1

\* k times  x &= x - 1 : the k lowest one bits are cleared.
DropLowest(x, k) == {b \in x : Cardinality({c \in x : c < b}) >= k}

\* x is the part of y from some point on.
UpperPart(x, y) ==
    /\ x \subseteq y
    /\ \A b \in x, c \in y : b <= c => c \in x
=============================================================================
