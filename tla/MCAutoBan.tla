----------------------------- MODULE MCAutoBan -----------------------------
(***************************************************************************)
(* Small instances of AutoBan.                                             *)
(***************************************************************************)
EXTENDS AutoBan, TLC

Symmetry == Permutations(Worker) \cup Permutations(Task)
=============================================================================
