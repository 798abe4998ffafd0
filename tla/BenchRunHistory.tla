-------------------------- MODULE BenchRunHistory --------------------------
(***************************************************************************)
(* BenchRun with a history variable: the order in which the runs of the    *)
(* project were created, for properties that speak of older and newer runs.*)
(***************************************************************************)
EXTENDS BenchRun, Sequences

VARIABLE begun   \* runs in the order RunJournal::begin created them

Created == {r \in Runs : pc[r] = "init" /\ pc'[r] = "preflight"}

HistoryInit == Init /\ begun = <<>>

HistoryNext ==
  /\ Next
  /\ begun' = IF Created = {} THEN begun ELSE Append(begun, CHOOSE r \in Created : TRUE)

HistorySpec == HistoryInit /\ [][HistoryNext]_<<vars, begun>>

OlderThan(r1, r2) == \E i, j \in DOMAIN begun : i < j /\ begun[i] = r1 /\ begun[j] = r2

(* docs/design.md: `latest` follows the order in which runs were created;  *)
(* completing an older run does not take it back from a newer one.         *)
OlderRunDoesNotStealLatest ==
  [][latest # Nil /\ latest' # latest => ~OlderThan(latest', latest)]_latest
=============================================================================
