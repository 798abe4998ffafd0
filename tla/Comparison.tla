----------------------------- MODULE Comparison -----------------------------
(***************************************************************************)
(* The comparison of two Candidates over pairs of results                  *)
(* (src/src/comparison.rs).  A result is reduced to what the comparison    *)
(* reads: the Candidate it identifies (`who`, an identity and a model), the*)
(* Task lock it binds, which also determines the Task id and the primary   *)
(* metric, its score, whether it timed out, and its token total.           *)
(***************************************************************************)
EXTENDS Naturals, Sequences, FiniteSets

CONSTANTS
  Whos,       \* (identity, model) descriptors
  Modelled,   \* the descriptors that name a model
  TaskLocks,  \* Task lock digests
  CandLocks,  \* Candidate lock digests
  MaxTokens,  \* u64::MAX
  Nil

ASSUME ModelledIsWhos == Modelled \subseteq Whos
ASSUME MaxTokensIsNat == MaxTokens \in Nat

(* LocalResultRecord::validate lets a record have no usage only when it    *)
(* timed out or names no model; a usage may exceed what 64 bits hold.      *)
ValidResult(rec) ==
  /\ rec.timedOut => rec.tokens = Nil
  /\ rec.who \in Modelled /\ ~rec.timedOut => rec.tokens # Nil

-----------------------------------------------------------------------------
(* TokenAggregate: `total` is None until a model result is observed, and   *)
(* for good once one has no usage or the sum leaves u64.                   *)
NoTokens == [saw |-> FALSE, complete |-> FALSE, total |-> Nil]

SoFar(agg) == IF agg.total = Nil THEN 0 ELSE agg.total

(* Mutated form: an overflow only forgets the total, not that it happened. *)
ObserveForgetful(agg, rec) ==
  IF rec.who \notin Modelled THEN agg
  ELSE IF rec.tokens # Nil /\ SoFar(agg) + rec.tokens <= MaxTokens
    THEN [saw |-> TRUE, complete |-> TRUE, total |-> SoFar(agg) + rec.tokens]
    ELSE [saw |-> TRUE, complete |-> FALSE, total |-> Nil]

Observe(agg, rec) ==
  IF rec.who \notin Modelled THEN agg
  ELSE IF /\ agg.complete \/ ~agg.saw
          /\ rec.tokens # Nil
          /\ SoFar(agg) + rec.tokens <= MaxTokens
    THEN [saw |-> TRUE, complete |-> TRUE, total |-> SoFar(agg) + rec.tokens]
    ELSE [saw |-> TRUE, complete |-> FALSE, total |-> Nil]

Finish(agg) == IF agg.saw /\ agg.complete THEN agg.total ELSE Nil

TotalTokens(recs) ==
  LET after[n \in 0..Len(recs)] ==
        IF n = 0 THEN NoTokens ELSE Observe(after[n - 1], recs[n])
  IN  Finish(after[Len(recs)])

-----------------------------------------------------------------------------
(* compare_pairs: what it insists on, and the summary it returns.  A score *)
(* is a canonical decimal; that none is too long for a double, which       *)
(* parse_score would refuse as infinite, is taken for granted.             *)
SameTask(pair) == pair.baseline.taskLock = pair.candidate.taskLock

Comparable(pairs) ==
  /\ pairs # <<>>
  /\ \A i \in DOMAIN pairs :
       /\ pairs[i].baseline.who = pairs[1].baseline.who
       /\ pairs[i].candidate.who = pairs[1].candidate.who
       /\ SameTask(pairs[i])

Summary(pairs) ==
  LET Count(P(_)) == Cardinality({i \in DOMAIN pairs : P(pairs[i])})
      Side(side) == [i \in DOMAIN pairs |-> pairs[i][side]]
  IN  [pairs         |-> Len(pairs),
       baselineWins  |-> Count(LAMBDA p : p.baseline.score > p.candidate.score),
       ties          |-> Count(LAMBDA p : p.baseline.score = p.candidate.score),
       candidateWins |-> Count(LAMBDA p : p.baseline.score < p.candidate.score),
       timeouts      |-> [side \in {"baseline", "candidate"} |->
                            Count(LAMBDA p : p[side].timedOut)],
       tokens        |-> [side \in {"baseline", "candidate"} |-> TotalTokens(Side(side))]]
=============================================================================
