------------------------------ MODULE MCSuite -------------------------------
(***************************************************************************)
(* Constants of SuiteRun for TLC: two Tasks; two Candidate locks of one    *)
(* (identity, model) descriptor, which differ as two reasoning efforts do, *)
(* and one lock of another descriptor that names no model.                 *)
(***************************************************************************)
EXTENDS SuiteRun, TLC

CONSTANTS c1, c2, c3, w1, w2

MCWhoOf == [lock \in CandLocks |-> IF lock = c3 THEN w2 ELSE w1]

PlainOutcome == {[score |-> 1, timedOut |-> FALSE, tokens |-> 1]}

(* Two results may just fit MaxTokens or exceed it.                        *)
MixedOutcomes == {[score |-> 0, timedOut |-> TRUE, tokens |-> Nil],
                  [score |-> 1, timedOut |-> FALSE, tokens |-> 2],
                  [score |-> 1, timedOut |-> FALSE, tokens |-> 1]}

(* Sound: nothing tells two sessions, two Task locks or two sources apart, *)
(* and the run that uses it checks invariants only.                        *)
Symmetric == Permutations(Sessions) \cup Permutations(TaskLocks) \cup Permutations(Specs)
=============================================================================
