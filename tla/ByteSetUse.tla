------------------------------ MODULE ByteSetUse ------------------------------
(***************************************************************************)
(* A ByteSet that is edited, iterated over, and edited again.  iter takes  *)
(* a copy, which later edits do not reach: the model therefore makes none  *)
(* while the iterator is in use, and the copy is the table itself.         *)
(***************************************************************************)
EXTENDS ByteSet

VARIABLES
    iterating,                          \* whether an iterator is in use
    word_index, bits, ret, yielded      \* those of ByteSetIter

iterVars == <<iterating, word_index, bits, ret, yielded>>

useVars == <<vars, iterVars>>

Copy == INSTANCE ByteSetIter WITH set <- table

UseInit ==
    /\ Init
    /\ iterating = FALSE
    /\ word_index = 0
    /\ bits = {}
    /\ ret = [op |-> "none"]
    /\ yielded = <<>>

Edit == ~ iterating /\ Next /\ UNCHANGED iterVars

\* ByteSet::iter
Iterate ==
    /\ ~ iterating
    /\ iterating' = TRUE
    /\ word_index' = 0
    /\ bits' = word(table, 0)
    /\ ret' = [op |-> "iter"]
    /\ UNCHANGED <<vars, yielded>>

IterStep == iterating /\ Copy!Next /\ UNCHANGED <<members, iterating>>

\* The iterator is dropped, wherever it has got to.
DropIter ==
    /\ iterating
    /\ iterating' = FALSE
    /\ word_index' = 0
    /\ bits' = {}
    /\ ret' = [op |-> "none"]
    /\ yielded' = <<>>
    /\ UNCHANGED vars

UseNext == Edit \/ Iterate \/ IterStep \/ DropIter

UseSpec == UseInit /\ [][UseNext]_useVars
-----------------------------------------------------------------------------
(***************************************************************************)
(* Properties.                                                             *)
(***************************************************************************)

\* What has been yielded is the set's members in ascending order, from the lowest
\* on: none twice, none left out at a word without members or at a word's end.
Ascending ==
    Lists(yielded, {v \in members : yielded # <<>> /\ v <= Last(yielded)})

\* ExactSizeIterator and FusedIterator: size_hint is what is left, and next says
\* None when, and as often as it is asked after, all members have been yielded.
Exact ==
    /\ ret.op = "size_hint" =>
         ret.exactly = Cardinality(members) - Len(yielded)
    /\ ret.op = "next" /\ ret.val = None =>
         Len(yielded) = Cardinality(members)
=============================================================================
