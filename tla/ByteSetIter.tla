----------------------------- MODULE ByteSetIter -----------------------------
(***************************************************************************)
(* ByteSetIter of bitset.rs: the members of a copy of a set in ascending   *)
(* order, a word of the table at a time.                                   *)
(***************************************************************************)
EXTENDS ByteTable

VARIABLES
    set,            \* ByteSetIter.set
    word_index,     \* ByteSetIter.word_index
    bits,           \* ByteSetIter.word
    ret,            \* the result of the last call
    yielded         \* history: the members yielded, in order

vars == <<set, word_index, bits, ret, yielded>>

Init ==
    /\ set \in Table
    /\ word_index = 0
    /\ bits = word(set, 0)
    /\ ret = [op |-> "iter"]
    /\ yielded = <<>>

\* The word of index i is b, and a member is taken from it.
Take(i, b) ==
    LET byte == ValueAt(i, Min(b)) IN
      /\ word_index' = i
      /\ bits' = b \ {Min(b)}
      /\ ret' = [op |-> "next", val |-> byte]
      /\ yielded' = Append(yielded, byte)
      /\ UNCHANGED set

\* Fault: an empty word ends the iteration.
LaterThisWord == {}

\* The words after this one that hold a member: next's loop runs on to the first.
Later == {i \in Nonzero(set) : i > word_index}

NextInWord == bits # {} /\ Take(word_index, bits)

NextInLaterWord ==
    /\ bits = {}
    /\ Later # {}
    /\ Take(Min(Later), word(set, Min(Later)))

\* The loop runs to the last word and finds it, like the others, empty.
NextNone ==
    /\ bits = {}
    /\ Later = {}
    /\ word_index' = Words - 1
    /\ ret' = [op |-> "next", val |-> None]
    /\ UNCHANGED <<set, bits, yielded>>

\* The ones of this word, and of all those after it.
remaining ==
    Cardinality(bits)
      + MapThenSumSet(LAMBDA i : Cardinality(word(set, i)), word_index + 1 .. Words - 1)

SizeHint ==
    /\ ret' = [op |-> "size_hint", exactly |-> remaining]
    /\ UNCHANGED <<set, word_index, bits, yielded>>

Next == NextInWord \/ NextInLaterWord \/ NextNone \/ SizeHint
=============================================================================
