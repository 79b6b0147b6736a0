# A TLA+ model of memchr-n

`memchr-n` finds the positions of the bytes of a haystack that belong to a set
of byte values: `find` (first), `rfind` (last), and a lazy iterator with
`next`, `nth`, `advance_to`, `count` and `size_hint`.  Building a searcher
chooses a kernel for the set, a scan engine for the CPU, and binds the two.
This directory models the crate in TLA+, checks the models with TLC on small
instances, and proves theorems about them with TLAPS for all values of the
constants.

The crate is sequential: no threads, no I/O, nothing persisted.  Its difficulty
lies elsewhere.  `unsafe` code in one part relies on arithmetic done in another
(an iterator reads `haystack[scan_offset..]` unchecked because a scan promised
something), a scan reads memory in overlapping units of five sizes, narrow
counters overflow unless they are drained in time, and the public calls may
come in any order.

## 1. Inventory

### Components

| Component | Source | State | Operations |
|---|---|---|---|
| Iterator | `src/lib.rs`, `Iter`; `src/search.rs`, `IterState` | `haystack`, `scan_offset`, `match_base`, `match_bits` | `next`, `nth`, `advance_to`, `count`, `size_hint`, private `refill` and `take_lowest` |
| Scan contract | `src/search.rs`, `ScanOps`, `SearchPlan` | kernel storage, table of entry points, SIMD level | `next_match_batch`, `first_match`, `last_match`, `count_all` |
| Word engine | `src/swar/mod.rs` | the loops' locals | the same four, eight bytes at a time |
| Vector engine | `src/vector/mod.rs` | the loops' locals | the same four, in blocks, chunks of four blocks and native vectors |
| Match accumulator | `count_all` of both engines | one byte-wide counter per lane, a total | accumulate, drain |
| ByteSet | `src/bitset.rs` | a table of 32 bytes | `add`, `add_all`, `add_range`, `remove`, `remove_range`, `invert`, union, intersection, difference, symmetric difference; the queries `contains`, `len`, `excluded_byte`, `as_contiguous_range`, `write_members`, `nibble_rows` |
| ByteSet iterator | `src/bitset.rs`, `Iter` | the bits left of one word, the words left | `next`, `size_hint` |
| Kernel choice | `src/lib.rs`, `MemchrN` | none once built | `from_byte_set_with_backend`, `of_*`, `group_nibbles_by_mask`, `extract_fixed_nibble_table` |
| Word kernels | `src/swar/kernels.rs` | constants of a kernel | `matches` on a `u64` |
| Vector kernels | `src/vector/kernels.rs` | lookup tables | `matches` on a vector, `lookup_membership_bytes` |
| CPU dispatch | `src/lib.rs`, `has_byte_shuffle`; `fearless_simd` | a level | `Backend::engine`, `byte_shuffle_level`; `Level::new`, `dispatch!` |
| Debug output | `src/lib.rs`, `src/bitset.rs` | none | formatting |
| Fuzz targets | `fuzz/fuzz_targets/` | a scalar reference's cursor, the offsets expected | any sequence of calls on one iterator; four ways to ask one searcher |
| Benchmarks | `benches/` | none | timing |

### How they interact

    ByteSet --queries--> kernel choice --builds--> SearchPlan (kernel, entry points, level)
                                                      |
    caller --next, nth, advance_to, ...--> Iter --next_match_batch, count_all--+
    caller --find, rfind, count------------------first_match, last_match-------+
                                                      |
                              word engine or vector engine --matches--> a kernel

`Iter` owns an `IterState` that a scan *updates*: `next_match_batch` is called
with `scan_offset` at the first unscanned byte, and leaves in `match_base` and
`scan_offset` the window that the returned bits describe.  Between two scans
`Iter` edits both by itself, in `advance_to`.  The bits, the window and the
haystack have to stay in step under all of that; `get_unchecked` and
`assert_unchecked` depend on it.

### What is hard, and what makes each part correct

* **Iterator.**  Any order of calls, with an index before, inside or beyond the
  held batch; `nth` inside a batch, over its edge and over many batches; the
  zero of an exhausted scan.  Correct means: a cursor over the matches in
  increasing order, that never yields one twice, never rewinds, never misses
  one, stays exhausted, and keeps the bounds its unsafe code assumes.
* **Engines.**  Lengths that are no multiple of any unit: a tail is tested by
  reading its last whole unit again and shifting known bits out, or, in a
  haystack shorter than a unit, by staging its two ends in a zeroed buffer
  (where a set holding the byte 0 matches the padding).  `last_match` and
  `first_match` finish with a vector that overlaps what was scanned.  Correct
  means: every call returns what the contract says, for all lengths and starts.
* **Accumulator.**  255 units fit a byte-wide counter.  The 256th corrupts
  either that lane or its neighbour.  Correct means: no lane overflows and
  every match reaches the total once.
* **ByteSet.**  Values straddle bytes, words and both ends of the domain; a
  range has four shapes; the queries decide on a kernel from word-wise
  evidence.  Correct means: the table is the documented set after any sequence
  of edits, and each query answers for exactly that set.
* **Kernel choice and kernels.**  A kernel chosen for a set matches exactly
  that set, whichever special case, table or fallback it is; carries between the
  lanes of a word; at most eight nibble groups, by rows or else by columns; an
  engine that has the instructions the kernel needs; in a vector, each lane
  looking at its own block of a table, or its own half of the bitset, in one of
  the five ways that widths and levels give.
* **All of it together.**  An iterator that was advanced into the middle of a
  unit, whose last batch was of sixteen bytes or of 128, hands its offset to
  whichever loop comes next; `count`, `find` and `rfind` hand over slices.
  Correct means: the four routines of an engine, written apart, tell of the
  same matches, and the iterator on top of them is still that cursor.

`PROJECT.json` lists each hazard at its line with the properties that cover it.

## 2. Modules

| Module | Models |
|---|---|
| `BitSets` | bitsets as sets of bit positions: shifts, masks, clearing the lowest bits |
| `ScanOps` | haystacks, and the contract of the four scan routines (doc of `struct ScanOps`, the `debug_assert`s of `SearchPlan::next_match_batch`) |
| `MatchCursor` | abstract: what an iterator promises, with no batches |
| `Iter` | the iterator over any scan routine within the contract; implements `MatchCursor` |
| `ScanCall` | one call of a scan routine: inputs, locals, result, tails and staging, the properties of both engines |
| `SwarScan` | the loops of the word engine |
| `VectorScan` | the loops of the vector engine |
| `LaneCount` | the byte-lane accumulator of `count_all` in both engines |
| `ByteTable` | every operation of `ByteSet` as an operator on the table |
| `ByteSet` | a table under any sequence of edits, beside the set it should hold |
| `ByteSetIter` | the member iterator |
| `ByteSetUse` | a `ByteSet` edited and iterated over in turn: `ByteSet` and `ByteSetIter` |
| `NibbleLookups` | the lookups of the `SmallSet` kernel, and how one key is placed in them |
| `NibbleGroups` | `extract_nibble_lookups`, a key of `group_nibbles_by_mask` per step |
| `NeverScan` | the scan routines of the plan that never matches |
| `KernelChoice` | from a byte set and an engine to a kernel, and what each kernel matches |
| `VectorKernels` | from a CPU and a backend to an engine; `matches` of each kernel over the lanes of a vector; the first and last lane of a mask |
| `SwarKernels` | the word kernels in integer arithmetic, and the scans' uses of their marks |
| `Searcher` | `Iter`, `find` and `rfind` over the loops of `SwarScan`, `VectorScan` or `NeverScan`, called through `SearchPlan` |
| `FuzzOperations`, `FuzzAgreement` | the two fuzz targets, with their references, as the callers of a `Searcher` |
| `MCIter`, `MCSwarScan`, `MCVectorScan`, `MCByteSet`, `MCKernelChoice`, `MCVectorKernels`, `MCFuzzOperations`, `MCFuzzAgreement` | instances for TLC |
| `BitSetLemmas` | lemmas: bits of a set, least and greatest elements, folds and sums over finite sets |
| `IterProofs`, `ScanCallProofs`, `SwarScanProofs`, `VectorScanProofs`, `ByteSetProofs` | the proofs of section 5, a component each |
| `KernelProofs` | those of the nibble lookups, the choice of a kernel, the vector kernels, and the accumulator that counts a kernel's marks |
| `SearcherProofs` | those of the composition: the iterator over the loops of each engine, under both fuzz targets |

`Iter` meets the engines in two ways.  *By contract*: `Iter` assumes
`BatchContract` and `CountContract` (its actions pick any outcome within them),
and `SwarScan` and `VectorScan` are checked to return nothing else
(`MeetsContract`, proved for both).  So what is shown of `Iter` holds with either
engine and with every CPU level.  *By composition*: `Searcher` instantiates `Iter` and the three
scan modules over the same variables, the engines' `haystack` being the slice
the caller passes.  A call that needs no scan is `Iter`'s own action; one that
does is a call, the engine's steps and the step that picks up the result.
`IterSpec` shows the composition to implement `Iter` (a scan is a stutter until
it is picked up), which shows in turn, by `CursorSpec`, that it is a cursor.
`FuzzOperations` and `FuzzAgreement` extend `Searcher` with what the repository's
fuzz targets do to a searcher, and their assertions are the invariants.
`SearcherProofs` extends both and proves them, from what `IterProofs` and the
engines' proofs say of their components alone.

One level down, the scan modules take a kernel's result to be the set of
matching lanes, and `SwarKernels` (bit by bit) and `VectorKernels` (lane by lane)
are checked to give that.  `VectorKernels` extends `KernelChoice`, which asks the
queries of `ByteTable`, which `ByteSet` checks and `ByteSetProofs` proves, and
places nibbles with the operators of `NibbleLookups`, which `NibbleGroups` checks
key by key and `KernelProofs` proves.

### Correspondence to the code

* A **haystack** is its length and the set of its matching offsets.  Nothing
  in the iterator or in an engine looks at a byte in any other way than by
  asking the kernel.  The single exception is the zero padding of a staging
  buffer, for which `ScanCall` has the variable `zero`.
* A **`MatchedBitset`** (or the result of `movemask` or `to_bitmask`) is the
  set of its one bits; `Shl` cuts off at the width as the Rust shift does.
* **`Iter`.**  `haystack`, `scan_offset`, `match_base`, `match_bits` are the
  fields of that name.  `next`, `advance_to`, `count` and `size_hint` make at
  most one scan and are one action per outcome; `nth` runs a loop, one
  iteration per step (`NthSkip`, `NthTake`, `NthExhausted`), with `n` and
  `remaining` its parameter and local.  `ret` is the last call and its result.
  `entry` (the matches ahead when `nth` was called) and `last` (the highest
  offset yielded) are history: no guard reads them.  A clone is a value: `count`
  consumes one and leaves the original as it was.
* **`SwarScan`, `VectorScan`.**  A behaviour is one call.  `offset` is the
  loop's local, `end` in `last_match`.  One step is one iteration, or one
  straight-line stretch after a loop.  `native_width`, the width of the level's
  vectors, is chosen with the inputs.
* **`LaneCount`.**  A unit is a word or a chunk; a lane counts the ones of one
  position.  A match pattern is any set of lanes, chosen at each unit.  The
  word engine's `u64` addition carries between lanes (`carries`), a vector's
  lanes wrap.
* **`ByteTable`.**  The names are those of `bitset.rs`.  A byte of the table is
  the set of its one bits, and a word the set of the bits of its bytes.
* **`ByteSetUse`.**  The member iterator works on a copy.  A set is not edited
  while one is in use in the model, so that the copy is the table.
* **`NibbleLookups`, `NibbleGroups`.**  A mask is a set of nibbles, a lookup entry
  a set of group numbers.  `group_masks[..group_count]` is the sequence `masks`.
  The marking of a new group's members, a loop in the code, is one function.
  `pass` says which of the two calls of `group_nibbles_by_mask` is running.
* **`KernelChoice`.**  One step lists the members, one chooses: an action per
  `of_*` constructor, guarded by the conditions that lead there.  A kernel is
  what its `new` stores.  An engine is the word engine, or a vector engine
  without or with a byte shuffle, which is all that the choice asks of a level.
* **`VectorKernels`.**  A vector is a function from lanes to bytes.  `machine` is
  the CPU's level and the `Backend`; `engine` follows from it as in
  `Backend::engine`.  After the kernel is chosen one vector is tested: `mask` is
  what `matches` returns, `first` and `last` what the scans take from it.  The
  operations of `fearless_simd` are taken to act lane by lane, a swizzle to look
  up in the table or in the lane's own block of it; `vshrn` on aarch64 is
  modelled by the bits it moves.
* **`Searcher`.**  `caller` is the function of `lib.rs` that waits for a scan,
  `slice` the bytes it passed.  `nth` drops its batch before it scans and so
  changes `remaining` and `match_bits` in that step; `before` keeps what they
  were, for `IterSpec` only.  The plan (`engine`, `native_width`, `zero`) never
  changes.
* **`FuzzOperations`, `FuzzAgreement`.**  The targets' locals: `cursor` and
  `expected`; `edge` is `end` or `start`.  An operation's argument is any of a
  small set, in place of the fuzzer's input.  `count` and `size_hint`, which the
  first target does not call, are called between its operations too.
* **`SwarKernels`.**  A word is an integer and `!`, `&`, `|`, `^`, `+`, `-` are
  what they are in the code.  A step tests a word, another uses the marks.

Every definition that stands for code is in the `map` of `PROJECT.json` with
its lines.  A definition marked `Fault` in its comment is a plausible mistake;
no specification uses it.  Each property is paired with one that breaks it.

## 3. Runs

| Run | Instance | Shows |
|---|---|---|
| `iter` | `Bits = 3`, every haystack up to 5 bytes, every index up to one past the longest, `nth(0..5)`, fair | type correctness; `WindowInBounds` and `HeldBatch`: the premises of the unsafe blocks; `BeyondLast`: nothing is yielded twice; `NthAccounting`: the loop invariant of `nth`; `AdvanceNeverRewinds`; `CursorSpec`: `Iter` implements `MatchCursor`; a call of `nth` returns |
| `fuzz_operations` | `Bits = 16`, blocks of 2, four lengths up to 27, fair | the iterator over the real loops of all three plans answers every sequence of `next`, `nth`, `advance_to`, `count` and `size_hint` as the scalar reference does, implements `Iter`, returns from every call, and is drained in the end |
| `fuzz_agreement` | `Bits = 32`, blocks of 4, twenty lengths up to 38, fair | iterator, `count`, `rfind` and `find` agree on the haystack, its prefixes and its suffixes; every call through `SearchPlan` keeps the contract it asserts; the target ends |
| `swar_scan` | real word size, lengths 0 to 41 | the word engine meets the contract; what its loops passed is clear |
| `vector_scan` | blocks of 4, native vectors of one, two and four blocks | the same for the vector engine at the widths of SSE and NEON, AVX2 and AVX-512 |
| `vector_scan_real` | blocks of 16, the same widths, chosen lengths | it meets the contract at the real sizes |
| `lane_count` | counters up to 3, 4 lanes, 7 units, 3 blocks, a tail | the accumulator never overflows and loses nothing, in the word engine, whose lanes carry, and through the three phases of the vector engine, whose lanes wrap |
| `byte_set` | 3 words of 2 bytes of 2 bits: all 4096 tables | edits agree with the documented set, queries answer for it; the member iterator of each table is ascending, complete, and its length exact |
| `nibble_groups` | all 65536 matrices of 4 by 4 nibbles, 2 groups | lookups share a bit exactly for the set's bytes, after every key and in both orders; refused only when neither pass fits |
| `kernel_choice` | all 65536 sets of 16 values, the three engines | the chosen kernel matches exactly the set; the bitset lookup is the last resort |
| `vector_kernels` | real sizes, 212 sets, 11 CPUs and backends, 28 vectors of 16, 32 and 64 bytes | the backend resolves to an engine the CPU can run; the chosen kernel matches exactly the set at the limits of every special case, in every lane; the first and last lane of its mask are right |
| `swar_kernels` | 3 lanes of 3 bits: 299 kernels, all 512 words | marks are exact, no carry or borrow crosses a lane; bytes are probed alike; `movemask`, first, last and counted lanes are right |

### The bounds, and why they are enough

* **`Bits = 3`, five bytes.**  A haystack has room for a full batch, a second
  one and a rest.  Since a scan may choose any window the contract allows,
  batches of every width from one to three occur at every place, full and
  partly consumed, next to gaps of every size; `nth` may skip none, one or
  several batches; an index may fall before, at, inside and after each.  Five
  bytes is the least that has two full batches less one byte, the case in
  which a shift by the whole width would happen.  The theorems of section 5
  lift the invariants to all sizes.
* **`fuzz_operations`.**  Blocks of two bytes make a pair of chunks as long as a
  pair of words, 16 bytes, and a batch no wider, so that haystacks of 19 and 27
  bytes run through the pair loop of either engine, then its single unit and
  blocks, then a tail.  Haystacks are full, or empty of matches, or have one or
  two at the ends of units; indices fall before, in and behind each batch, in
  the middle of units and past the end; `nth` skips inside a batch and over one.
  Call sequences are of any length: the state is finite without a bound on them.
* **`fuzz_agreement`.**  Here the caller is deterministic, so haystacks may be
  more: every length to nine and those around the multiples of a block, word,
  chunk and pair up to 38; one match at every place, two at each of two
  distances from every place, every fifth and eighth byte, and all.  The prefixes
  and suffixes that the loops cut then have nearly every length and start.
* **Lengths 0 to 41 in `swar_scan`.**  Two pairs of words, a word and a byte:
  every tail of 0 to 7 bytes with no word, one or several before it, and every
  start in each, so that a re-read word reaches back before the start too.
* **Blocks of four.**  The staged sizes are 1, 2 and 4 for blocks of four, and
  1, 2, 4 and 8 for the real ones, which `vector_scan_real` has.  `vector_scan`
  takes every length up to two chunks and a block and a byte, so each of the
  loops runs zero, one and two times with every rest; `vector_scan_real`, whose
  haystacks are longer, takes the lengths around every multiple of a unit.
* **Sparse haystacks.**  Scans get all haystacks with none, one, all matches
  and two at a chosen distance.  A unit's answer depends on its own bytes
  only, and what a scan may get wrong is the place of a match or which of two
  it reports.
* **Counters of two bits.**  `LaneMax = 3` makes the drain due after three
  units; seven units give two full batches and a rest.  Theorem `NoOverflow`
  covers 255.
* **ByteSet of 12 values.**  Three words let a set's ends lie in the same word,
  in neighbours, and with a full or an empty word between; two bytes in a word
  and two bits in a byte give each range all four shapes.  All tables are
  reached, so every operation is tried on every one.
* **Four nibbles, two groups.**  A third distinct mask is refused, in the rows, in
  the columns or in both, at any key, with masks that repeat, overlap or contain
  each other: every matrix occurs.  The theorems cover sixteen and eight.
* **Byte sets of 16 values**, with up to five members listed and one needle
  (`MembersMax`, `NeedlesMax`; 16 and 3 in the code): every set occurs, so every
  special case does, at its limits.  The sizes keep the code's proportions
  (`SizesAssumption`: a byte is two nibbles, a table two bytes for each nibble).
* **`vector_kernels`** has the code's sizes, for sets at the limits: zero to
  four members, sixteen and seventeen, one byte left out at every edge, ranges
  between all edges with and without a gap, and eight, nine and ten masks in
  rows, columns or both.  The vectors of one width hold every byte value
  between them, and neighbouring lanes hold distant ones, so that every byte is
  looked up, in lanes of every block, among lanes that match and others that do
  not.  `matches` has no memory, so one vector per behaviour is enough.
* **Words of three lanes of three bits.**  A lane has a lower neighbour to borrow
  from it and an upper one to disturb; a byte has its high bit and two others,
  as many as a carry needs to run through one and out of the other; and all
  needles, ranges, sets and words occur.  The gathering multiplication needs no
  more lanes than bits (`LanesAssumption`), as in the code.
* `MaxLen`, `Lengths`, `MaxUnits`, `MaxTail` and the argument sets are the only bounds.  No model has a state
  constraint.  Deadlock is checked in every run: a finished call stutters
  explicitly (`Returned`).

### Fairness

Everything runs on one thread, and a Rust call, once made, runs on.  That is all
the fairness there is, and each run has it in the form its module needs.

* `Iter`: weak fairness of `NthStep`, the loop of `nth`.  The caller need not go
  on calling.
* `FuzzOperations`: weak fairness of `RunOn` (the engine's loops, the loop of
  `nth`, picking up a result) and of `Drain`, what the target does after its
  operations.  How many operations there are is up to the input, so none is
  assumed for them: `Drained` speaks of behaviours that come to the drain.
* `FuzzAgreement`: weak fairness of `AgreementNext`.  The target takes no decision, so
  each of its behaviours is one straight run.

No run assumes that a scan makes progress: `CallsReturn`, `Drained` and `Ends`
show it, step by step of the loops, and the progress theorems of section 5 prove
the measure behind it.

## 4. Reading the properties

* `WindowInBounds`, `HeldBatch`.  The unsafe blocks: `get_unchecked(scan_offset..)`,
  the shift `MAX << (idx - match_base)`, and `assert_unchecked(res < len)`.
* `BeyondLast` relates what is held to the history of what was yielded, over any
  calls in between.
* `CursorSpec` is the refinement.  While `nth` runs, its abstract counterpart
  has not happened yet: `ahead` is mapped to `entry`, and the step that returns
  is the abstract step.
* `PassedIsClear` is what the overlapping reads rely on ("already checked and
  contains no matches"); `MeetsContract` is what callers rely on.
* `LanesExact` is the point of draining after 255 units; `Accounted` adds that
  no match is lost between lanes, sums and total.
* `Agrees`, `Classified`, `Listed` compare the table with a mathematical set;
  `Ascending` and `Exact` compare the member iterator with the same one.
* `PlacedExactly` is the guarantee in the doc of `group_nibbles_by_mask`, kept key
  by key; `LookupsExact` is what the kernel computes from the result.
* `KernelExact` compares the kernel with the set, byte by byte; `MarksExact`
  compares a word's marks with it, lane by lane.  `UseExact` is what `SwarScan`
  and `LaneCount` take for granted.
* `LanesMarked` and `EndsExact` are that for vectors, at every level; they are
  what `VectorScan` takes for granted.  `Runnable` relates the plan to the CPU.
* `PlanKeepsContract` is the contract again, at the calls the crate really makes:
  the `assert_unchecked`s of `SearchPlan` on every slice and offset its callers
  produce, the plan that never matches included.
* `AsExpected` and `Agreed` are the `assert_eq!`s of the two fuzz targets, for all
  inputs within the bounds.  They speak of the whole crate: a wrong tail, a stale
  offset, a slice that starts elsewhere and a lost batch all break them.
* `IterSpec` is the second refinement: what `Iter` assumes of a scan is what the
  loops do.
* `CallsReturn` and `Drained` are `None` for good and in the end, `Ends` the end
  of the target's loops.
* `LastResort` holds a slow kernel to be chosen only when the doc says so.

No disagreement between the code and its documentation was found, so there are
no runs that expect a violation.

## 5. Proofs

Each theorem holds for every value of the constants that the named assumptions
allow.  The assumptions say what the code's constants are: sizes are positive, the
haystacks well formed, `None` is not confused with a value, and a few sizes fit
together.  No theorem assumes anything of another module's result except through
a lemma that is proved.

**`IterProofs`**: `TypeCorrect`, `WindowSafe`, `BatchExact`, `NeverTwice` and
`NthCounts`, that is `Spec => []P` for the five invariants of the run `iter`; its
action property, `AdvanceSafe`; and `Refinement`, `Spec => CursorSpec`.  `NthLoopAdvances` is an action property of its
own: the loop of `nth` goes round only to scan further.  Assumptions:
`Bits` is a positive number, `None` is no number, haystacks are well formed,
arguments are naturals.  The batch width, the length of haystacks and the choices
of the scan are arbitrary.

The inductive invariant is the conjunction of the five.  None is inductive by
itself.  A held bit is below `Bits` because it is a bit of the batch
(`HeldBatch`) and a window is no wider than a batch (`WindowInBounds`);
`BeyondLast` survives a refill because what is not scanned lies beyond
`scan_offset`, hence beyond `last`; `NthAccounting` needs `HeldBatch` and the
window to split what is ahead into what is held and what is not.  `HeldBatch`
itself is stated with `UpperPart`, "these bits from some point on", because that
is what `take_lowest`, `advance_to`'s mask and `nth`'s clearing all preserve
(`UpperPartRest`, `UpperPartMask`, `UpperPartDrop`).  The proof has one lemma per
action.  `DropLowestRank` says what clearing the lowest bit k times leaves.

For the refinement each action is shown to be a step of `MatchCursor` or a stutter
under the mapping that gives `ahead` the matches not yielded yet (`AheadBar`; while
`nth` runs, those when it was called).  A step that drops a batch inside `nth` is a
stutter; the one that returns is `CursorNth`, and `NthAccounting` with
`DropLowestRank` says that what it returns is the match with as many before it as
were asked to be skipped.  One more invariant is needed, that `nth`'s argument is
one of `Steps` (`NthArgument`).

**`ScanCallProofs`, `SwarScanProofs`, `VectorScanProofs`**: `PassedIsClear` and
`MeetsContract` for the word engine (`LoopsSound`, `WordContract`) and for the
vector engine (`LoopsSound`, `VectorContract`), for haystacks of any length, any
matches, any start, either answer of a kernel to the zero padding and all three
native widths.  Assumptions: a batch is wide enough for two words, or for a pair of
chunks, as the code's `u128` and its const assertions have it, and a block has two
to sixteen bytes.

The inductive invariant is `ScanInv`: the types of a call's locals, what the loop
has passed holds no match, and what has been returned is within the contract.  The
lemmas of `ScanCallProofs` are the engines' common ground: a stretch is clear if its
two parts are (`ClearJoin`); the overlapping last unit of a tail, shifted
(`SlideEndsExact`, `ShortTailBitsExact`), is exactly the bytes left
(`UnscannedBitsExact`); and each of the ways to go on or to return keeps the invariant
(`FirstContinues`, `IndexReturned`, `BatchReturned`, `TailReturned`, ...).  Each
action of an engine is then one of those ways with that engine's unit.

`LoopsAdvance`, for each engine, is `[][Advances]_vars`: an iteration returns or leaves
fewer bytes to test (`Untested`; `UnitAdvances` is the one argument for all loops).
So a loop goes round no more often than its haystack has bytes.

**`KernelProofs`, the accumulator**: `NoOverflow`, `LaneSpec => []LanesExact`, for any
lane width, any number of lanes, carries or not, and `EveryMatchCounted`,
`LaneSpec => []Accounted`.  For the first the inductive invariant `LInv` bounds a lane's matches by the units since
the last drain, and in the block phase those units and the blocks still to come by
what a chunk's remainder can hold, which is at most `LaneMax`.  `AccountedInv` adds
that the total and the lanes make up what was seen.

`Accounted` sums over the lanes.  A sum of the community modules is a function
chosen to satisfy a recursive equation, so that anything said of it needs that
there is one.  `FoldExists` of `BitSetLemmas` shows it for every operation and every
finite set, by a smallest counterexample in place of an induction theorem; the
laws of sums (`SumOfMarks`, `SumBound`, `DisjointUnion`) follow in the same way.

**`ByteSetProofs`**: `MembersExact`, `QueriesExact`, `ListingExact`, `IterationAscends`
and `RemainingExact`, that is `Spec => []P` for all five properties of the run
`byte_set`: for bits, bytes and words of any number, after any sequence of edits.
Assumptions: the three sizes are positive, slices hold values, `None` is neither a
value nor a pair nor a list.

`Holds(t, M)`, table `t` holds the values `M`, is kept by every edit: `HoldsAdd`,
`HoldsAddRange`, `HoldsInvert` and so on, one lemma per operation, which rest on the
quotient and the remainder of a value naming its byte and its bit (`SameValue`) and
ordering it (`DivOrder`).  `add_all` is a fold and takes `FoldExists` again.  The
queries need the same split by words: the bits of a word are the members in it
(`SplitFacts`, `WordCardinality`), so the first bit of the first word with one is the
least member (`FirstMember`), and the counts of the words add up to the number of
members (`LenExact`).  For lists, `Lists(y, P)` says that `y` has the elements of `P` in
order; `ListsInOrder` concatenates the words' lists.

With an iterator running the invariant is `UseInv`: the table holds the members,
and `IterInv`, what has been yielded is, in order, the members the iterator has
passed (`Passed`: those of earlier words and those of its word that are no longer
in `bits`).  `Exact` is part of it: what is counted is what is not passed.

**`KernelProofs`, the kernels**, in three parts.  `TypeCorrect`, `SharesExactly`, `SmallSetExact` and
`RefusalJustified`, that is `GroupSpec => []P` for the four invariants of
`nibble_groups`, for any number of nibbles and of groups.  The inductive invariant
describes the locals by the keys placed so far (`GroupedUpTo`): the groups' masks
are distinct, not empty and each the mask of a key placed; a key's entry is the
number of its mask's group; a member's entry are the numbers of the groups whose
masks contain it.  `GroupedShares` is the step from there to the guarantee: a
shared number names one mask, which is the key's and contains the member.
`RefusedCount` is the counting argument: the masks placed and the one refused
are more than `MaxGroups` distinct masks.

`KernelsExact` and `LookupIsLast`, that is `ChoiceSpec => []P` for both invariants of
`kernel_choice`, for every byte set, any sizes in the code's proportions
(`SizesAssumption`), any `MembersMax` and any `NeedlesMax` from one to that.
`Recognises(k, M)` says that kernel `k` matches the values `M` and no others, and
there is one lemma for each way to get a kernel.  They rest on `ByteSetProofs` for the
queries (`ExcludedExact`, `RangeExact`, `WriteMembersExact`, `NibbleRowExact`).  Two
of them are counting arguments: a set with one value missing is all others
(`NotByteExact`), and a list as long as its span fills it (`SmallRangeExact`).
`WrappedDifference` is the range kernel's wrapping subtraction; `EmptySlotElsewhere`
is why an unused slot of a fixed nibble table never matches.  `GroupingExact` carries
`GroupedUpTo` through the loop of `group_nibbles_by_mask`, which is a fold here, so
that `LookupsHold` has for it what the key-by-key model has; the first key at which
it failed would be a contradiction.  The invariant is `ChoiceInv`, whose `PlanFor`
says which engine may hold which kind of kernel, and what must have failed before
the bitset lookup.  Beside the sizes it is assumed that `None` is not a pair of
lookups or a grouping (`NoLookupsAssumption`).

`MarksEveryLane`, `LanesTaken` and `EveryPlanRuns`, that is `KernelsSpec => []P` for
`LanesMarked`, `EndsExact` and `Runnable`: for any vector of one, two or four blocks.
`SplatLookup` is the lookup within a block: the index made of the lane's block and a
nibble is in that block, so it finds the one table that all blocks repeat.
`MembershipBytes` goes through the ways the bitset is looked up, by width and
level.  With them each kernel's mask marks the lanes whose bytes it matches
(`MaskMarks`), and `Recognises` does the rest.  `NibblesExact` says which bits
`vshrn` leaves on aarch64, four per marked lane; `BlockMin` and `BlockMax` put the
block and the lane in it together.

**`SearcherProofs`**: of the target `memchr_n`, `OperationsKeepContract`
(`PlanKeepsContract`), `OperationsAnswerAsExpected` (`AsExpected`) and
`OperationsImplementIter` (`OperationsSpec => IterSpec`); of the target `fuzzer`,
`AgreementKeepsContract` (`PlanKeepsContract`) and `AgreementAgrees` (`Agreed`).
They hold for well-formed haystacks of every length, any arguments, all three plans,
all native widths and either answer to the zero padding.  Assumptions: those of `IterProofs`, and
the sizes that the engines' proofs assume (`WidthAssumption`).  The theorems on the
target `memchr_n` assume besides that 0 is one of the indices, because the target
itself ends with `advance_to(0)`.  The specifications run with fairness imply the ones
named here, so that the theorems hold of them as well.

The argument composes what is proved of the parts.  The proofs about the engines and
the iterator are instantiated: the engines' with the slice handed over as their
haystack, the iterator's with the fields as they were before the scan that is in
progress.  The invariant `SearcherInv` has four parts.  `PlanInv`: the plan is one that
can be built.  `CallInv`: while a scan runs the loops' invariant `ScanInv` holds on the
slice, and the call is what its caller made it (`NextCalled`, `NthCalled`, `CountCalled`,
`FindCalled`), because the result is read with the caller's fields and they must be
the ones it was asked for.  And the iterator's `IInv` and `NthArgument`.  A step of
an engine keeps the first by the engine's own lemma and is a stutter of the iterator; the
step that picks a result up is, since `ScanInv` says the result is within its contract,
a step of `Iter`, which keeps `IInv` by the iterator's own lemma.  That is both
`PlanKeepsContract` and the refinement.

What a call answers is settled when it is made.  `Answers(A, k, v, B)` says that with `A`
ahead, passing over `k` matches and taking the next gives `v` and leaves `B`; the iterator
answers so (`NextAnswers`, `NthAnswers`), and so does the scalar reference, which looks at bytes one by
one.  `ScalarInv` says that when no call runs what is ahead of the iterator is what the
reference's cursor has not passed, and that the reference's answer to the call that
runs is that one; two answers to the same question are the same.  `DrainInv` says that
nothing is left after the drain.  In the other target `IteratedInv` and `SlicedInv` say
the same of the offsets still to be found (`left`) and the slice they are looked for in.

`OperationsRunOn` and `AgreementRunsOn`, `[][Running => Nearer]_vars`: each step of a call
that runs leaves fewer bytes to scan or, within one scan, fewer to test.  Both numbers are
naturals, so a call has a bounded number of steps.

**Only model-checked.**  Liveness is out of the prover's reach, `ENABLED` with it.  What
is proved of `NthReturns`, `CallsReturn`, `Drained` and `Ends` is the part that is
particular to this code, that steps make progress (`NthLoopAdvances`, `LoopsAdvance`,
`OperationsRunOn`, `AgreementRunsOn`); that a step is always possible until then, and
that fairness takes it, is checked by the runs.  `MarksExact`, `ProbeExact` and
`UseExact` of `SwarKernels` are about integer arithmetic that rests on bitwise operators, which
are recursive.

## 6. Not modelled, and the plan

Not modelled, for good: formatting; the benchmarks, which assert nothing; CPU
detection and the code generation of `fearless_simd`, whose operations on vectors
are taken to act lane by lane; the union behind a plan and its table of function
pointers, which the types of `SearchPlan`'s constructors tie to the kernel.  Of
`ByteSet`, `Hash`, `Eq` and the operator traits restate the methods.

Of the plan nothing is left but what the tools do not reach: a proof about
`SwarKernels`, and one of the liveness properties.
