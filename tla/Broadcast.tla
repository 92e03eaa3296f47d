----------------------------- MODULE Broadcast -----------------------------
(***************************************************************************)
(* What the SSE hub promises its streams: there is one feed; every stream  *)
(* gets messages at the moment they join the feed or never.  So no stream  *)
(* sees a message twice, two streams never disagree on the order of the    *)
(* messages they both get, and no message reaches a stream out of turn.    *)
(* A stream may miss messages: a slow one is skipped, not waited for.      *)
(***************************************************************************)
EXTENDS Sequences

CONSTANTS
  Stream,
  Message

VARIABLES
  feed,   \* the messages emitted so far, in order
  inbox   \* [Stream -> the messages given to it so far, in order]

vars == <<feed, inbox>>

Init ==
  /\ feed = << >>
  /\ inbox = [s \in Stream |-> << >>]

Emit(m, to) ==
  /\ feed' = Append(feed, m)
  /\ inbox' = [s \in Stream |-> IF s \in to THEN Append(inbox[s], m) ELSE inbox[s]]

Next == \E m \in Message, to \in SUBSET Stream : Emit(m, to)

Spec == Init /\ [][Next]_vars
=============================================================================
