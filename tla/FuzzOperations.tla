--------------------------- MODULE FuzzOperations ---------------------------
(***************************************************************************)
(* The fuzz target memchr_n: any sequence of next, nth and advance_to on   *)
(* one iterator, which is then drained, and asked once more after          *)
(* advance_to(0).  Each answer is compared with that of a scalar reference *)
(* which keeps nothing but a cursor.                                       *)
(*                                                                         *)
(* size_hint and count, which the target does not call, are called between *)
(* the operations as well.                                                 *)
(***************************************************************************)
EXTENDS Searcher

VARIABLES
    cursor,     \* the reference's: the first offset it has not passed
    expected,   \* what the reference answers to the call being made
    phase       \* "operations", "drain", "rewind" or "done"

scalar == <<cursor, expected, phase>>

operationsVars == <<vars, scalar>>

OperationsInit ==
    /\ Init
    /\ cursor = 0
    /\ expected = None
    /\ phase = "operations"
-----------------------------------------------------------------------------
(***************************************************************************)
(* scalar_next, once and k + 1 times over.                                 *)
(***************************************************************************)
NotPassed == MatchesIn(haystack, cursor, haystack.len)

Expect(v) ==
    /\ expected' = v
    /\ cursor' = IF v = None THEN haystack.len ELSE v + 1

ExpectNth(k) ==
    \/ Cardinality(NotPassed) <= k /\ Expect(None)
    \/ \E m \in NotPassed :
          Cardinality({a \in NotPassed : a < m}) = k /\ Expect(m)

scalar_next == ExpectNth(0)
-----------------------------------------------------------------------------
OperationNext ==
    /\ phase = "operations"
    /\ CallNext
    /\ scalar_next
    /\ UNCHANGED phase

OperationNth(k) ==
    /\ phase = "operations"
    /\ CallNth(k)
    /\ ExpectNth(k)
    /\ UNCHANGED phase

\* The index is taken modulo the length plus two.
OperationAdvanceTo(idx) ==
    /\ phase = "operations"
    /\ idx < haystack.len + 2
    /\ CallAdvanceTo(idx)
    /\ cursor' = Max({cursor, idx})
    /\ UNCHANGED <<expected, phase>>

\* count and size_hint: they leave the iterator where it is.
Glance ==
    /\ phase = "operations"
    /\ CallCount \/ CallSizeHint
    /\ UNCHANGED scalar

\* After the operations, next is called until the reference says None.
DrainNext ==
    /\ phase = "operations" \/ (phase = "drain" /\ expected # None)
    /\ CallNext
    /\ scalar_next
    /\ phase' = "drain"

\* The drained iterator is sent back, in vain.
Rewind ==
    /\ phase = "drain"
    /\ expected = None
    /\ CallAdvanceTo(0)
    /\ phase' = "rewind"
    /\ UNCHANGED <<cursor, expected>>

LastNext ==
    /\ phase = "rewind"
    /\ CallNext
    /\ expected' = None
    /\ phase' = "done"
    /\ UNCHANGED cursor

RunOn == Running /\ UNCHANGED scalar

Finished == phase = "done" /\ Idle /\ UNCHANGED operationsVars

OperationsNext ==
    \/ OperationNext
    \/ \E k \in Steps : OperationNth(k)
    \/ \E idx \in Indices : OperationAdvanceTo(idx)
    \/ Glance
    \/ DrainNext \/ Rewind \/ LastNext
    \/ RunOn
    \/ Finished

OperationsSpec == OperationsInit /\ [][OperationsNext]_operationsVars

\* What the target does once it drains.
Drain == phase # "operations" /\ (DrainNext \/ Rewind \/ LastNext)

(***************************************************************************)
(* A call that has been made runs on, and so does the target's drain loop: *)
(* both are straight-line code of one thread.  How many operations precede *)
(* the drain is the input's choice.                                        *)
(***************************************************************************)
FairSpec == OperationsSpec /\ WF_operationsVars(RunOn) /\ WF_operationsVars(Drain)
-----------------------------------------------------------------------------
(***************************************************************************)
(* Properties.                                                             *)
(***************************************************************************)

\* The target's assert_eq!s: next and nth answer what the reference answers, after
\* any sequence of calls, and None for good once drained.  count, called in
\* between, counts what the reference has not passed.
AsExpected ==
    Idle =>
      /\ ret.op \in {"next", "nth"} => ret.val = expected
      /\ ret.op = "count" => ret.total = Cardinality(NotPassed)

\* The drain loop ends.
Drained == phase = "drain" ~> phase = "done" /\ Idle
=============================================================================
