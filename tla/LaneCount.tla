------------------------------ MODULE LaneCount ------------------------------
(***************************************************************************)
(* How count_all adds up its matches, in both engines: one narrow counter  *)
(* per lane, to which each unit adds a one in its matching lanes, drained  *)
(* into a usize before a counter can overflow.                             *)
(*                                                                         *)
(* The word engine keeps its counters in one u64, where an overflowing     *)
(* lane carries into the next; a vector's lanes wrap around.  Only the     *)
(* vector engine has blocks.                                               *)
(* A drain sums the lanes at twice their width, as the aarch64 code and    *)
(* the block phase do (u16); the other targets use wider sums.             *)
(***************************************************************************)
EXTENDS Integers, FiniteSets, Functions

CONSTANTS
    LaneMax,    \* u8::MAX
    Lanes,      \* lanes of a word, or of a chunk
    BlockLanes, \* lanes of a block
    MaxBlocks,  \* whole blocks a chunk's remainder can hold
    MaxTail,    \* bytes a tail can hold
    MaxUnits    \* bound: words or chunks in the haystack

Radix == LaneMax + 1

ASSUME LaneAssumption ==
    /\ LaneMax \in Nat \ {0}
    /\ Lanes \in Nat \ {0}
    /\ BlockLanes \in 0 .. Lanes
    /\ MaxBlocks \in 0 .. LaneMax
    /\ MaxTail \in Nat
    /\ MaxUnits \in Nat
    /\ Lanes * LaneMax < Radix * Radix

Lane == 0 .. Lanes - 1

BlockLane == 0 .. BlockLanes - 1

VARIABLES
    carries,    \* whether a lane's overflow carries into the next lane
    phase,      \* which loop is running
    units,      \* words or chunks not yet read
    blocks,     \* blocks not yet read
    inBatch,    \* units added since the last drain
    counts,     \* the accumulator
    total,      \* the local of that name
    exact,      \* history: per lane, the matches added since the last drain
    seen        \* history: all matches in what has been read

laneVars == <<carries, phase, units, blocks, inBatch, counts, total, exact, seen>>

Zero == [i \in Lane |-> 0]

LaneInit ==
    /\ carries \in BOOLEAN
    /\ phase = "units"
    /\ units \in 0 .. MaxUnits
    /\ blocks \in IF carries THEN {0} ELSE 0 .. MaxBlocks
    /\ inBatch = 0
    /\ counts = Zero
    /\ total = 0
    /\ exact = Zero
    /\ seen = 0
-----------------------------------------------------------------------------
\* Fault: one unit too many.
ChunksPerAccumulatorOver == LaneMax + 1

\* CHUNKS_PER_ACCUMULATOR
ChunksPerAccumulator == LaneMax

Mark(marks, i) == IF i \in marks THEN 1 ELSE 0

\* Some lower lane overflows and the lanes between pass the carry on.
CarryInto(c, marks, i) ==
    \E j \in 0 .. i - 1 :
      /\ c[j] + Mark(marks, j) > LaneMax
      /\ \A k \in j + 1 .. i - 1 : c[k] + Mark(marks, k) >= LaneMax

\* counts += marks in a u64, or counts -= match_mask in a vector.
Added(c, marks) ==
    [i \in Lane |->
        (c[i] + Mark(marks, i) + (IF carries /\ CarryInto(c, marks, i) THEN 1 ELSE 0)) % Radix]

Accumulate(marks) ==
    /\ counts' = Added(counts, marks)
    /\ exact' = [i \in Lane |-> exact[i] + Mark(marks, i)]
    /\ seen' = seen + Cardinality(marks)
    /\ inBatch' = inBatch + 1

\* Fault: the lanes are summed at their own width.
LaneSumNarrow(c) == SumFunction(c) % Radix

\* sum_lanes_64, or the loop over the bytes of a word.
LaneSum(c) == SumFunction(c) % (Radix * Radix)

\* Fault: the accumulator is not started afresh.
DrainKeeps ==
    /\ total' = total + LaneSum(counts)
    /\ counts' = counts
    /\ exact' = Zero
    /\ inBatch' = 0

Drain ==
    /\ total' = total + LaneSum(counts)
    /\ counts' = Zero
    /\ exact' = Zero
    /\ inBatch' = 0
-----------------------------------------------------------------------------
\* The inner loop over the units of a batch.
AddUnit ==
    /\ phase = "units"
    /\ units > 0
    /\ inBatch < ChunksPerAccumulator
    /\ units' = units - 1
    /\ \E marks \in SUBSET Lane : Accumulate(marks)
    /\ UNCHANGED <<carries, phase, blocks, total>>

\* A full batch, or the last one, is drained.
DrainUnits ==
    /\ phase = "units"
    /\ inBatch > 0
    /\ inBatch = ChunksPerAccumulator \/ units = 0
    /\ Drain
    /\ UNCHANGED <<carries, phase, units, blocks, seen>>

UnitsDone ==
    /\ phase = "units"
    /\ units = 0
    /\ inBatch = 0
    /\ phase' = "blocks"
    /\ UNCHANGED <<carries, units, blocks, inBatch, counts, total, exact, seen>>

\* The blocks left of a chunk share one accumulator, drained once.
AddBlock ==
    /\ phase = "blocks"
    /\ blocks > 0
    /\ blocks' = blocks - 1
    /\ \E marks \in SUBSET BlockLane : Accumulate(marks)
    /\ UNCHANGED <<carries, phase, units, total>>

DrainBlocks ==
    /\ phase = "blocks"
    /\ blocks = 0
    /\ Drain
    /\ phase' = "tail"
    /\ UNCHANGED <<carries, units, blocks, seen>>

\* The ones of the tail's bits are added to the total as they are.
AddTail ==
    /\ phase = "tail"
    /\ \E ones \in 0 .. MaxTail : total' = total + ones /\ seen' = seen + ones
    /\ phase' = "done"
    /\ UNCHANGED <<carries, units, blocks, inBatch, counts, exact>>

\* The caller has the total.
Counted == phase = "done" /\ UNCHANGED laneVars

LaneNext ==
    \/ AddUnit \/ DrainUnits \/ UnitsDone
    \/ AddBlock \/ DrainBlocks
    \/ AddTail
    \/ Counted

LaneSpec == LaneInit /\ [][LaneNext]_laneVars
-----------------------------------------------------------------------------
(***************************************************************************)
(* Properties.                                                             *)
(***************************************************************************)

\* "Drain after 255 words to prevent byte-lane overflow": every lane of the
\* accumulator is the number of matches in that lane since the last drain, so no
\* lane has wrapped around or been carried into, however long the haystack and
\* however many of its bytes match.
LanesExact == counts = exact

\* No match is lost or counted twice between the lanes, their sums and the total,
\* over any number of drains and the change from chunks to blocks to the tail.
Accounted == total + SumFunction(counts) = seen
=============================================================================
