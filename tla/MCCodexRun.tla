----------------------------- MODULE MCCodexRun -----------------------------
(***************************************************************************)
(* Constants of CodexRun for TLC: one volume stands for the three or four  *)
(* a run has, which are created and removed alike.                         *)
(***************************************************************************)
EXTENDS CodexRun, TLC

MCVolumes == <<"home">>

(* Sound: runs whose Tasks are alike differ in nothing but their names, and *)
(* neither do pids; nothing chooses one of them or puts them in order.      *)
Symmetric == Permutations(Runs) \cup Permutations(Pids)
=============================================================================
