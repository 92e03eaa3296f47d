----------------------------- MODULE MCNotify -----------------------------
(***************************************************************************)
(* Instances of Notify for TLC.                                            *)
(***************************************************************************)
EXTENDS Notify

\* One configuration for what goroutines share, one for how they deliver.
MCConfigs ==
  {[rules    |-> <<"new_country", "threshold">>,
    channels |-> <<"mail">>,
    events   |-> {[type |-> "failed_password", ip |-> ip, country |-> c] : ip \in IP, c \in Country},
    others   |-> {}],
   [rules    |-> <<"sudo">>,
    channels |-> <<"hook", "mail">>,
    events   |-> {[type |-> "sudo_fail", ip |-> None, country |-> None],
                  [type |-> "sudo_session", ip |-> None, country |-> None]},
    others   |-> {"alert", "test", "digest"}]}
=============================================================================
