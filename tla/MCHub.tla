------------------------------- MODULE MCHub -------------------------------
(***************************************************************************)
(* Small instances of Hub: capacities of one or two, so that every channel *)
(* is full in some state, and connections that can come in any order.      *)
(***************************************************************************)
EXTENDS Hub, TLC

Symmetry == Permutations(Client) \cup Permutations(Publisher)
=============================================================================
