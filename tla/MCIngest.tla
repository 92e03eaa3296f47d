----------------------------- MODULE MCIngest -----------------------------
(***************************************************************************)
(* Small instances of Ingest.                                              *)
(***************************************************************************)
EXTENDS Ingest, TLC

Symmetry == Permutations(Worker)
=============================================================================
