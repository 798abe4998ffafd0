------------------------- MODULE SuiteLedgerProofs --------------------------
(***************************************************************************)
(* What follows from the promise of SuiteLedger for every set of members   *)
(* and run identifiers.  SuiteRun implements SuiteLedger, so it holds of a *)
(* suite whose sessions follow one another.                                *)
(***************************************************************************)
EXTENDS SuiteLedger, TLAPS

(* A recorded run is recorded once; what was printed is the ledger, full.  *)
LedgerInv ==
  /\ ledger \in [Slots -> RunIds \cup {Nil}]
  /\ \A j, k \in Slots : j # k /\ ledger[j] # Nil => ledger[j] # ledger[k]
  /\ \A p \in printed : p = ledger /\ \A k \in Slots : p[k] # Nil

LEMMA RecordMemberKeeps ==
  ASSUME LedgerInv, NEW m \in Slots, RecordMember(m) PROVE LedgerInv'
<1>1. PICK r \in RunIds :
        /\ ledger[m] = Nil /\ \A j \in Slots : ledger[j] # r
        /\ ledger' = [ledger EXCEPT ![m] = r] /\ UNCHANGED printed
  BY DEF RecordMember
<1>2. printed = {}
  BY <1>1 DEF LedgerInv
<1>3. \A k \in Slots : ledger'[k] = IF k = m THEN r ELSE ledger[k]
  BY <1>1 DEF LedgerInv
<1> QED
  BY <1>1, <1>2, <1>3 DEF LedgerInv

(* All comparisons printed of one suite are of the same runs, however      *)
(* often `a3s bench suite run --resume` is called: resume_state and        *)
(* persist_state never take a recorded run back.                           *)
THEOREM ComparisonsAgree == LedgerSpec => []OneComparison
<1>1. LedgerInit => LedgerInv
  BY DEF LedgerInit, LedgerInv
<1>2. LedgerInv /\ [LedgerNext]_ledgerVars => LedgerInv'
  <2> SUFFICES ASSUME LedgerInv, [LedgerNext]_ledgerVars PROVE LedgerInv'
    OBVIOUS
  <2>1. CASE PrintComparison
    BY <2>1 DEF PrintComparison, LedgerInv
  <2>2. CASE UNCHANGED ledgerVars
    BY <2>2 DEF ledgerVars, LedgerInv
  <2> QED
    BY <2>1, <2>2, RecordMemberKeeps DEF LedgerNext
<1>3. LedgerInv => OneComparison
  BY DEF LedgerInv, OneComparison
<1> QED
  BY <1>1, <1>2, <1>3, PTL DEF LedgerSpec
=============================================================================
