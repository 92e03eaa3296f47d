-------------------------- MODULE MCBanLifecycle --------------------------
(***************************************************************************)
(* Instances of BanLifecycle and BanSerial for TLC.                        *)
(***************************************************************************)
EXTENDS BanSerial, TLC

TaskSymmetry == Permutations(Task)
=============================================================================
