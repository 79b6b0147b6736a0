---------------------------- MODULE FuzzAgreement ----------------------------
(***************************************************************************)
(* The fuzz target fuzzer: one searcher is asked for the same offsets in   *)
(* four ways.  An iterator is collected, a second one counted; rfind is    *)
(* called on the haystack and then on ever shorter prefixes of it, find on *)
(* ever shorter suffixes.                                                  *)
(***************************************************************************)
EXTENDS Searcher

VARIABLES
    stage,      \* what the target is about to call
    left,       \* the expected offsets its loop has still to meet
    edge,       \* the loops' `end` or `start`
    answer      \* the answer to the call being made

asked == <<stage, left, edge, answer>>

agreementVars == <<vars, asked>>

AgreementInit ==
    /\ Init
    /\ stage = "collect"
    /\ left = haystack.matches
    /\ edge = 0
    /\ answer = None

\* The loop at hand is over, and another begins at edge e.
Begin(p, e) ==
    /\ stage' = p
    /\ left' = haystack.matches
    /\ edge' = e

\* The loop goes on without m.
GoOn(m, e) ==
    /\ left' = left \ {m}
    /\ edge' = e
    /\ UNCHANGED stage
-----------------------------------------------------------------------------
Collect ==
    /\ stage = "collect"
    /\ CallNext
    /\ \/ left = {} /\ answer' = None /\ Begin("iter", 0)
       \/ left # {} /\ answer' = Min(left) /\ GoOn(Min(left), edge)

\* A new iterator of the same searcher.
NewIter ==
    /\ stage = "iter"
    /\ Idle
    /\ scan_offset' = 0
    /\ match_base' = 0
    /\ match_bits' = {}
    /\ last' = -1
    /\ ret' = [op |-> "iter"]
    /\ stage' = "count"
    /\ UNCHANGED <<plan, scanVars, haystack, pc, n, remaining, entry, left, edge, answer>>

CountAll ==
    /\ stage = "count"
    /\ CallCount
    /\ answer' = Cardinality(haystack.matches)
    /\ Begin("last", 0)

FindLast ==
    /\ stage = "last"
    /\ CallRfind(0, haystack.len)
    /\ answer' = IF left = {} THEN None ELSE Max(left)
    /\ Begin("rfind", haystack.len)

\* rfind on the bytes before the last offset found.
FindBefore ==
    /\ stage = "rfind"
    /\ CallRfind(0, edge)
    /\ \/ left = {} /\ answer' = None /\ Begin("find", 0)
       \/ left # {} /\ answer' = Max(left) /\ GoOn(Max(left), Max(left))

\* find on the bytes after the last offset found.
FindAfter ==
    /\ stage = "find"
    /\ CallFind(edge, haystack.len)
    /\ \/ left = {} /\ answer' = None /\ Begin("done", 0)
       \/ left # {} /\ answer' = Min(left) - edge /\ GoOn(Min(left), Min(left) + 1)

AskedRunsOn == Running /\ UNCHANGED asked

AllAsked == stage = "done" /\ Idle /\ UNCHANGED agreementVars

AgreementNext ==
    \/ Collect \/ NewIter \/ CountAll
    \/ FindLast \/ FindBefore \/ FindAfter
    \/ AskedRunsOn
    \/ AllAsked

\* The target is straight-line code with loops, of one thread.
AgreementSpec ==
    AgreementInit /\ [][AgreementNext]_agreementVars /\ WF_agreementVars(AgreementNext)
-----------------------------------------------------------------------------
(***************************************************************************)
(* Properties.                                                             *)
(***************************************************************************)

\* The target's assert_eq!s: next, count, rfind and find agree with the list of the
\* matching offsets, find and rfind on every slice that ends or starts at one.
Agreed ==
    Idle =>
      /\ ret.op \in {"next", "find", "rfind"} => ret.val = answer
      /\ ret.op = "count" => ret.total = answer

\* Every call the target makes returns, and so the target does.
Ends == <>(stage = "done" /\ Idle)
=============================================================================
