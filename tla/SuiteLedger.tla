----------------------------- MODULE SuiteLedger ----------------------------
(***************************************************************************)
(* What `a3s bench suite run` promises (src/README.md): each member of a   *)
(* suite is recorded once, with a run of its own, whatever happens to the  *)
(* processes that execute it, and the comparison is printed only of a      *)
(* suite whose members are all recorded.                                   *)
(***************************************************************************)
CONSTANTS Slots,   \* (Task, side) members of the suite
          RunIds,  \* run identifiers
          Nil      \* no run identifier

VARIABLES ledger,   \* the run recorded for each member
          printed   \* the ledgers a comparison was printed of

ledgerVars == <<ledger, printed>>

LedgerInit ==
  /\ ledger = [k \in Slots |-> Nil]
  /\ printed = {}

RecordMember(k) == \E r \in RunIds :
  /\ ledger[k] = Nil
  /\ \A j \in Slots : ledger[j] # r
  /\ ledger' = [ledger EXCEPT ![k] = r]
  /\ UNCHANGED printed

PrintComparison ==
  /\ \A k \in Slots : ledger[k] # Nil
  /\ printed' = printed \cup {ledger}
  /\ UNCHANGED ledger

LedgerNext == (\E k \in Slots : RecordMember(k)) \/ PrintComparison

LedgerSpec == LedgerInit /\ [][LedgerNext]_ledgerVars

(* Every comparison printed of one suite is of the same runs, no two       *)
(* members of which share one.                                             *)
OneComparison ==
  \A p \in printed :
    /\ p = ledger
    /\ \A j, k \in Slots : j # k => p[j] # p[k]
=============================================================================
