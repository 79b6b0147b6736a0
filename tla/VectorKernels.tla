----------------------------- MODULE VectorKernels -----------------------------
(***************************************************************************)
(* From the Backend a searcher is built with to the lanes its kernel marks *)
(* in a vector: Backend::engine, has_byte_shuffle, the kernel chosen for   *)
(* what they find (KernelChoice), that kernel's `matches` on the vectors   *)
(* of 16, 32 and 64 bytes the scans hand it, at every SIMD level, and the  *)
(* first and last lane the scans then take from the mask.                  *)
(*                                                                         *)
(* A vector is a function from its lanes, a mask one to BOOLEAN.  What a   *)
(* single operation of fearless_simd does to each lane is taken from its   *)
(* use: equality, &, >> and the wrapping - are lane by lane, a swizzle     *)
(* looks up a lane's index in a table, or in its own 16 lanes of one.      *)
(***************************************************************************)
EXTENDS KernelChoice

CONSTANTS
    Machines,   \* the CPUs, and the Backends asked for on them
    Vectors     \* the contents of the vectors tested

\* Of x86, of aarch64 and of WebAssembly, and what a CPU without SIMD has.
Levels == {"Fallback", "Sse2", "Sse4_2", "Avx2", "Avx512", "Neon", "WasmSimd128"}

\* cpu is what Level::new() detects; a Backend is Auto, Swar or a Level.
ASSUME MachinesAssumption == Machines \subseteq [cpu : Levels, backend : Levels \cup {"Auto", "Swar"}]

BlockBytes == Nibbles

ASSUME VectorsAssumption ==
    \A v \in Vectors : \E n \in {1, 2, 4} : v \in [0 .. n * BlockBytes - 1 -> Value]

VARIABLES
    machine,    \* the CPU and the Backend
    chunk,      \* Untested, or the vector given to `matches`
    mask,       \* the mask it returned
    first,      \* first_matching_lane of the mask
    last        \* last_matching_lane of the mask

test == <<chunk, mask, first, last>>

Untested == <<>>
-----------------------------------------------------------------------------
(***************************************************************************)
(* Levels and engines.                                                     *)
(***************************************************************************)
is_fallback(level) == level = "Fallback"

\* Fault: the first x86 level is taken to shuffle bytes as well.
has_byte_shuffle_sse2(level) == ~ is_fallback(level)

\* SSE2 lacks pshufb; as_sse4_2 accepts the later levels.  Off x86 any level will do.
has_byte_shuffle(level) ==
    IF level \in {"Sse2", "Sse4_2", "Avx2", "Avx512"} THEN level # "Sse2" ELSE ~ is_fallback(level)

VectorEngine(level) == IF has_byte_shuffle(level) THEN "vector_shuffle" ELSE "vector"

\* The level of an Engine::Vector.
LevelOf(m) == IF m.backend \in Levels THEN m.backend ELSE m.cpu

BackendEngine(m) ==
    IF m.backend = "Swar" \/ (m.backend = "Auto" /\ is_fallback(m.cpu)) THEN "swar"
    ELSE VectorEngine(LevelOf(m))

\* S::u8s::LEN.
NativeWidth(level) ==
    CASE level = "Avx512" -> 4 * BlockBytes
      [] level = "Avx2" -> 2 * BlockBytes
      [] OTHER -> BlockBytes
-----------------------------------------------------------------------------
(***************************************************************************)
(* Vectors.                                                                *)
(***************************************************************************)
Width(v) == Cardinality(DOMAIN v)

array(v) == [i \in 0 .. BlockBytes - 1 |-> v]

block_splat(block, width) == [i \in 0 .. width - 1 |-> block[i % BlockBytes]]

swizzle_dyn(t, indices) == [i \in DOMAIN indices |-> t[indices[i]]]

swizzle_dyn_within_blocks(t, indices) ==
    [i \in DOMAIN indices |-> t[(i \div BlockBytes) * BlockBytes + indices[i]]]

combine(a, b) ==
    [i \in 0 .. Width(a) + Width(b) - 1 |-> IF i < Width(a) THEN a[i] ELSE b[i - Width(a)]]

\* The halves of `split`.
Lower(v) == [i \in 0 .. Width(v) \div 2 - 1 |-> v[i]]

Upper(v) == [i \in 0 .. Width(v) \div 2 - 1 |-> v[i + Width(v) \div 2]]

LoNibbles(v) == [i \in DOMAIN v |-> Lo(v[i])]

HiNibbles(v) == [i \in DOMAIN v |-> Hi(v[i])]

simd_eq(v, w) == [i \in DOMAIN v |-> v[i] = w[i]]

\* !(v & w).simd_eq(0)
SharesBit(v, w) == [i \in DOMAIN v |-> v[i] \cap w[i] # {}]
-----------------------------------------------------------------------------
(***************************************************************************)
(* lookup_membership_bytes, by vector width and level.                     *)
(***************************************************************************)

\* Fault: the second half is looked up with the first half's indices.
HalvesLookupLower(t, indices) ==
    combine(swizzle_dyn(t, Lower(indices)), swizzle_dyn(t, Lower(indices)))

HalvesLookup(t, indices) ==
    combine(swizzle_dyn(t, Lower(indices)), swizzle_dyn(t, Upper(indices)))

BlockLookup(level, t, indices) ==
    IF level = "Neon" THEN swizzle_dyn(t, indices)
    ELSE Lower(swizzle_dyn(t, combine(indices, indices)))

ChunkLookup(level, t, indices) ==
    IF NativeWidth(level) >= 4 * BlockBytes THEN swizzle_dyn(combine(t, t), indices)
    ELSE HalvesLookup(t, indices)

lookup_membership_bytes(level, t, indices) ==
    CASE Width(indices) = BlockBytes -> BlockLookup(level, t, indices)
      [] Width(indices) = 2 * BlockBytes -> swizzle_dyn(t, indices)
      [] Width(indices) = 4 * BlockBytes -> ChunkLookup(level, t, indices)
-----------------------------------------------------------------------------
(***************************************************************************)
(* Kernel::matches of each kernel.  A byte of a lookup is the set of its   *)
(* bits, as in the tables it comes from.                                   *)
(***************************************************************************)
AnyOfMask(k, v) ==
    LET splatted == [j \in DOMAIN k.needles |-> block_splat(array(k.needles[j]), Width(v))]
        matched == [j \in DOMAIN k.needles |-> simd_eq(v, splatted[j])] IN
      [i \in DOMAIN v |-> \E j \in DOMAIN matched : matched[j][i]]

NotByteMask(k, v) ==
    LET equal == simd_eq(v, block_splat(array(k.byte), Width(v))) IN
      [i \in DOMAIN v |-> ~ equal[i]]

OneRangeMask(k, v) ==
    LET start == block_splat(array(k.start), Width(v))
        span == block_splat(array(k.span), Width(v))
        shifted == [i \in DOMAIN v |-> (v[i] - start[i]) % TableBits] IN
      [i \in DOMAIN v |-> shifted[i] <= span[i]]

SmallSetMask(k, v) ==
    SharesBit(
        swizzle_dyn_within_blocks(block_splat(k.lookups.lo, Width(v)), LoNibbles(v)),
        swizzle_dyn_within_blocks(block_splat(k.lookups.hi, Width(v)), HiNibbles(v)))

FixedNibbleMask(k, v) ==
    LET non_const_nibbles == IF k.fixed.fixed_nibble = "Low" THEN HiNibbles(v) ELSE LoNibbles(v) IN
      simd_eq(v, swizzle_dyn_within_blocks(block_splat(k.fixed.table, Width(v)), non_const_nibbles))

BitsetLookupMask(level, k, v) ==
    LET bits == block_splat([i \in 0 .. BlockBytes - 1 |-> {i % ByteBits}], Width(v))
        bit == swizzle_dyn_within_blocks(bits, [i \in DOMAIN v |-> v[i] % ByteBits])
        indices == [i \in DOMAIN v |-> v[i] \div ByteBits] IN
      SharesBit(bit, lookup_membership_bytes(level, k.set, indices))

Mask(level, k, v) ==
    CASE k.kind = "AnyOf" -> AnyOfMask(k, v)
      [] k.kind = "NotByte" -> NotByteMask(k, v)
      [] k.kind = "OneRange" -> OneRangeMask(k, v)
      [] k.kind = "SmallSet" -> SmallSetMask(k, v)
      [] k.kind = "FixedNibble" -> FixedNibbleMask(k, v)
      [] k.kind = "BitsetLookup" -> BitsetLookupMask(level, k, v)
-----------------------------------------------------------------------------
(***************************************************************************)
(* The first and last lane of a mask: from one bit per lane, or on aarch64 *)
(* from four bits per lane of one block after another.                     *)
(***************************************************************************)
to_bitmask(m) == {i \in DOMAIN m : m[i]}

Blocks(m) == 0 .. Width(m) \div BlockBytes - 1

BlockOf(m, b) == [i \in 0 .. BlockBytes - 1 |-> m[b * BlockBytes + i]]

\* The u16s of vreinterpretq_u16_s8, each of two lanes of all ones or none.
LanePair(m, j) ==
    (IF m[2 * j] THEN 0 .. 7 ELSE {}) \cup (IF m[2 * j + 1] THEN 8 .. 15 ELSE {})

\* vshrn: each u16 is shifted right by four and narrowed to a byte of the word.
aarch64_match_nibbles(m) ==
    UNION {{8 * j + b - 4 : b \in LanePair(m, j) \cap 4 .. 11} : j \in 0 .. BlockBytes \div 2 - 1}

\* Fault: a lane is taken to have eight bits.
LaneOfBitByte(bit) == bit \div 8

LaneOfBit(bit) == bit \div 4

FirstOfNibbles(m) ==
    LET marked == {b \in Blocks(m) : aarch64_match_nibbles(BlockOf(m, b)) # {}} IN
      IF marked = {} THEN None
      ELSE Min(marked) * BlockBytes + LaneOfBit(Min(aarch64_match_nibbles(BlockOf(m, Min(marked)))))

LastOfNibbles(m) ==
    LET marked == {b \in Blocks(m) : aarch64_match_nibbles(BlockOf(m, b)) # {}} IN
      IF marked = {} THEN None
      ELSE Max(marked) * BlockBytes + LaneOfBit(Max(aarch64_match_nibbles(BlockOf(m, Max(marked)))))

first_matching_lane(level, m) ==
    CASE level = "Neon" -> FirstOfNibbles(m)
      [] level # "Neon" /\ to_bitmask(m) = {} -> None
      [] OTHER -> Min(to_bitmask(m))

last_matching_lane(level, m) ==
    CASE level = "Neon" -> LastOfNibbles(m)
      [] level # "Neon" /\ to_bitmask(m) = {} -> None
      [] OTHER -> Max(to_bitmask(m))
-----------------------------------------------------------------------------
KernelsInit ==
    /\ ChoiceInit
    /\ machine \in Machines
    /\ engine = BackendEngine(machine)
    /\ chunk = Untested /\ mask = Untested
    /\ first = None /\ last = None

\* The searcher is built: Backend::engine was its first step.
Build == ChoiceNext /\ UNCHANGED <<machine, test>>

\* A scan tests a vector.
TestVector ==
    /\ plan # Unplanned
    /\ plan.engine # "swar"
    /\ chunk = Untested
    /\ \E v \in Vectors :
         LET m == Mask(LevelOf(machine), plan.kernel, v) IN
           /\ chunk' = v
           /\ mask' = m
           /\ first' = first_matching_lane(LevelOf(machine), m)
           /\ last' = last_matching_lane(LevelOf(machine), m)
    /\ UNCHANGED <<choiceVars, machine>>

KernelsNext == Build \/ TestVector

KernelsSpec == KernelsInit /\ [][KernelsNext]_<<choiceVars, machine, test>>
-----------------------------------------------------------------------------
(***************************************************************************)
(* Properties.                                                             *)
(***************************************************************************)

\* The lanes of a vector that hold a byte of the set.
LanesIn(v, bytes) == {i \in DOMAIN v : v[i] \in bytes}

\* A vector kernel marks exactly the lanes whose bytes belong to the set the searcher
\* was built for, whatever kernel was chosen, at every width and every level: a lane
\* never sees another block's table, nor the other half of the bitset.
LanesMarked ==
    chunk # Untested => to_bitmask(mask) = LanesIn(chunk, Members(set))

\* The lane a scan takes from a mask is its lowest or highest member, the same on
\* aarch64 as elsewhere, and there is none only if no byte of the vector matches.
EndsExact ==
    chunk # Untested =>
      LET hits == LanesIn(chunk, Members(set)) IN
        /\ hits = {} => first = None /\ last = None
        /\ hits # {} => first = Min(hits) /\ last = Max(hits)

\* "Auto uses swar when simd is unavailable", and only then; "an explicit level
\* preserves the vector engine", except for a set that has no kernel there; and no
\* CPU is given a kernel that needs a byte shuffle it has not: it gets the lookup of
\* the word engine in its place.
Runnable ==
    plan # Unplanned =>
      LET kind == plan.kernel.kind
          shuffling == kind \in {"SmallSet", "FixedNibble", "BitsetLookup"}
          pshufb == LevelOf(machine) \in Levels \ {"Fallback", "Sse2"} IN
        /\ plan.engine # "swar" /\ shuffling => pshufb
        /\ kind \in {"SmallSet", "FixedNibble"} => plan.engine # "swar"
        /\ ~ shuffling /\ kind # "Never" =>
             (plan.engine = "swar" <=> machine \in {m \in Machines :
                m.backend = "Swar" \/ (m.backend = "Auto" /\ m.cpu = "Fallback")})
=============================================================================
