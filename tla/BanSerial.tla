----------------------------- MODULE BanSerial -----------------------------
(***************************************************************************)
(* BanLifecycle when its activities do not overlap: requests, background   *)
(* bans, the sweeper and the boot reconciliation run one after the other,  *)
(* with any crashes between their statements.                              *)
(***************************************************************************)
EXTENDS BanLifecycle

SweeperAtWork    == sw.pc # "scan" \/ sw.todo # {}
ReconcilerAtWork == ~rc.listed \/ rc.todo # {}

\* The activities that are between two of their statements.
Busy ==
  {<<"task", t>> : t \in {u \in Task : pc[u] # "idle"}}
    \cup (IF SweeperAtWork THEN {<<"sweeper">>} ELSE {})
    \cup (IF ReconcilerAtWork THEN {<<"reconciler">>} ELSE {})

\* One activity at a time: the next one starts when the last has ended.
OneAtATime == \A a, b \in Busy' : a = b

SerialSpec == Init /\ [][Next /\ OneAtATime]_vars
=============================================================================
