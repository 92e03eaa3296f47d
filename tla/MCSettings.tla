----------------------------- MODULE MCSettings -----------------------------
EXTENDS Settings

\* One request of each kind: a field of the configuration alone; channels
\* removed and set; an allowlist with channels; one jail parameter and both.
MCBodies == {[general |-> 2], [general |-> 0, notify |-> 2], [notify |-> 0, allow |-> 2],
             [allow |-> 0, term |-> 2], [retry |-> 2, term |-> 3]}
=============================================================================
