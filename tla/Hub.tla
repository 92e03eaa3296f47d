-------------------------------- MODULE Hub --------------------------------
(***************************************************************************)
(* The SSE hub (internal/api/hub.go) with the goroutines around it: the    *)
(* stream handlers (handleStream), the publishers (PublishEvent) and the   *)
(* shutdown sequence of main.                                              *)
(*                                                                         *)
(* The hub's goroutine owns the set of clients and takes one ready channel *)
(* operation at a time, any of them when several are ready, as select      *)
(* does.  Sending on a channel is possible while it has room; a receive    *)
(* from a closed channel yields what is buffered, then the close.          *)
(*                                                                         *)
(* A client is one connection and uses its channel once.  Messages are     *)
(* numbered in the order the publishers make them.  got is history: what   *)
(* the handler wrote to the connection.  The ping ticker is left out.      *)
(***************************************************************************)
EXTENDS Integers, Sequences, FiniteSets

CONSTANTS
  Client,                          \* stream connections
  Publisher,                       \* goroutines that publish
  SubCap, UnsubCap, PubCap, BufCap,\* capacities: 16, 16, 256 and 32 in the code
  MaxMsg                           \* bound on the messages published

ASSUME HubAssumption ==
  /\ SubCap \in Nat \ {0} /\ UnsubCap \in Nat \ {0}
  /\ PubCap \in Nat \ {0} /\ BufCap \in Nat \ {0}
  /\ MaxMsg \in Nat

VARIABLES
  sub, unsub, pub,  \* the hub's channels
  quit,             \* the quit channel is closed
  running,          \* the run loop has not returned (done is still open)
  clients,          \* run's map of subscribers
  gauge,            \* h.clients, exported by /metrics
  feed,             \* history: the messages run has handed round
  buf, closed,      \* each client channel: contents, and whether it is closed
  handler,          \* each handleStream: "none", then where it is
  away,             \* the peers that hung up (r.Context() is done)
  got,              \* what each handler wrote, in order
  pending, made,    \* the message each publisher is publishing; how many so far
  main              \* main's shutdown sequence

hub    == <<sub, unsub, pub, quit, running, clients, gauge, feed, buf, closed>>
stream == <<handler, away, got>>
source == <<pending, made>>
vars   == <<hub, stream, source, main>>

Message == 1 .. MaxMsg

TypeOK ==
  /\ sub \in Seq(Client) /\ unsub \in Seq(Client) /\ pub \in Seq(Message)
  /\ Len(sub) <= SubCap /\ Len(unsub) <= UnsubCap /\ Len(pub) <= PubCap
  /\ quit \in BOOLEAN /\ running \in BOOLEAN
  /\ clients \subseteq Client /\ closed \subseteq Client /\ away \subseteq Client
  /\ gauge \in Nat
  /\ feed \in Seq(Message)
  /\ buf \in [Client -> Seq(Message)]
  /\ \A c \in Client : Len(buf[c]) <= BufCap
  /\ handler \in [Client -> {"none", "subscribe", "stream", "leave", "gone"}]
  /\ got \in [Client -> Seq(Message)]
  /\ pending \in [Publisher -> 0 .. MaxMsg] /\ made \in 0 .. MaxMsg
  /\ main \in {"serve", "closing", "draining", "ended"}

Init ==
  /\ sub = << >> /\ unsub = << >> /\ pub = << >>
  /\ quit = FALSE /\ running = TRUE
  /\ clients = {} /\ closed = {} /\ gauge = 0 /\ feed = << >>
  /\ buf = [c \in Client |-> << >>]
  /\ handler = [c \in Client |-> "none"]
  /\ away = {}
  /\ got = [c \in Client |-> << >>]
  /\ pending = [p \in Publisher |-> 0] /\ made = 0
  /\ main = "serve"

-----------------------------------------------------------------------------
(* run: one iteration of its loop per action.                              *)

\* Mutant: run returns without closing the clients' channels.
RunQuitSilently ==
  /\ running /\ quit
  /\ running' = FALSE
  /\ clients' = {}
  /\ gauge' = 0
  /\ UNCHANGED <<sub, unsub, pub, quit, feed, buf, closed, stream, source, main>>

RunQuit ==
  /\ running /\ quit
  /\ running' = FALSE
  /\ closed' = closed \cup clients
  /\ clients' = {}
  /\ gauge' = 0
  /\ UNCHANGED <<sub, unsub, pub, quit, feed, buf, stream, source, main>>

RunSub ==
  /\ running /\ sub # << >>
  /\ sub' = Tail(sub)
  /\ clients' = clients \cup {Head(sub)}
  /\ gauge' = Cardinality(clients')
  /\ UNCHANGED <<unsub, pub, quit, running, feed, buf, closed, stream, source, main>>

\* Mutant: the channel is closed and stays in the map.
RunUnsubKeeping ==
  /\ running /\ unsub # << >>
  /\ unsub' = Tail(unsub)
  /\ closed' = closed \cup ({Head(unsub)} \cap clients)
  /\ gauge' = Cardinality(clients)
  /\ UNCHANGED <<sub, pub, quit, running, clients, feed, buf, stream, source, main>>

\* Mutant: the gauge is decremented instead of stored.
RunUnsubCountingDown ==
  /\ running /\ unsub # << >>
  /\ unsub' = Tail(unsub)
  /\ closed' = closed \cup ({Head(unsub)} \cap clients)
  /\ clients' = clients \ {Head(unsub)}
  /\ gauge' = gauge - 1
  /\ UNCHANGED <<sub, pub, quit, running, feed, buf, stream, source, main>>

RunUnsub ==
  /\ running /\ unsub # << >>
  /\ unsub' = Tail(unsub)
  /\ closed' = closed \cup ({Head(unsub)} \cap clients)
  /\ clients' = clients \ {Head(unsub)}
  /\ gauge' = Cardinality(clients')
  /\ UNCHANGED <<sub, pub, quit, running, feed, buf, stream, source, main>>

\* Mutant: a slow client gets the message in place of its oldest one.
RunPubOverwriting ==
  /\ running /\ pub # << >>
  /\ pub' = Tail(pub)
  /\ feed' = Append(feed, Head(pub))
  /\ buf' = [c \in Client |->
               IF c \notin clients THEN buf[c]
               ELSE IF Len(buf[c]) < BufCap THEN Append(buf[c], Head(pub))
               ELSE Append(Tail(buf[c]), Head(pub))]
  /\ UNCHANGED <<sub, unsub, quit, running, clients, gauge, closed, stream, source, main>>

\* The sends to the clients commute with what the handlers do meanwhile.
RunPub ==
  /\ running /\ pub # << >>
  /\ pub' = Tail(pub)
  /\ feed' = Append(feed, Head(pub))
  /\ buf' = [c \in Client |->
               IF c \in clients /\ Len(buf[c]) < BufCap
               THEN Append(buf[c], Head(pub)) ELSE buf[c]]
  /\ UNCHANGED <<sub, unsub, quit, running, clients, gauge, closed, stream, source, main>>

-----------------------------------------------------------------------------
(* handleStream, one per client.                                           *)

Goto(c, l) == handler' = [handler EXCEPT ![c] = l]

\* The server accepts until http.Server.Shutdown closes its listener.
Connect(c) ==
  /\ main \in {"serve", "closing"}
  /\ handler[c] = "none"
  /\ Goto(c, "subscribe")
  /\ UNCHANGED <<hub, away, got, source, main>>

\* h.sub <- c, which has no way out but room in the channel.
Subscribe(c) ==
  /\ handler[c] = "subscribe"
  /\ Len(sub) < SubCap
  /\ sub' = Append(sub, c)
  /\ Goto(c, "stream")
  /\ UNCHANGED <<unsub, pub, quit, running, clients, gauge, feed, buf, closed, away, got,
                 source, main>>

Receive(c) ==
  /\ handler[c] = "stream"
  /\ buf[c] # << >>
  /\ got' = [got EXCEPT ![c] = Append(@, Head(buf[c]))]
  /\ buf' = [buf EXCEPT ![c] = Tail(@)]
  /\ UNCHANGED <<sub, unsub, pub, quit, running, clients, gauge, feed, closed, handler, away,
                 source, main>>

SeeClosed(c) ==
  /\ handler[c] = "stream"
  /\ buf[c] = << >> /\ c \in closed
  /\ Goto(c, "leave")
  /\ UNCHANGED <<hub, away, got, source, main>>

SeeAway(c) ==
  /\ handler[c] = "stream"
  /\ c \in away
  /\ Goto(c, "leave")
  /\ UNCHANGED <<hub, away, got, source, main>>

Unsubscribe(c) ==
  /\ handler[c] = "leave"
  /\ \/ Len(unsub) < UnsubCap /\ unsub' = Append(unsub, c)
     \/ quit /\ UNCHANGED unsub
  /\ Goto(c, "gone")
  /\ UNCHANGED <<sub, pub, quit, running, clients, gauge, feed, buf, closed, away, got,
                 source, main>>

HangUp(c) ==
  /\ handler[c] \in {"subscribe", "stream"}
  /\ away' = away \cup {c}
  /\ UNCHANGED <<hub, handler, got, source, main>>

-----------------------------------------------------------------------------
(* PublishEvent and h.publish.                                             *)

Publish(p) ==
  /\ pending[p] = 0 /\ made < MaxMsg
  /\ made' = made + 1
  /\ pending' = [pending EXCEPT ![p] = made + 1]
  /\ UNCHANGED <<hub, stream, main>>

\* Mutant: publish without the quit case.
PublishSendNoQuit(p) ==
  /\ pending[p] # 0
  /\ Len(pub) < PubCap /\ pub' = Append(pub, pending[p])
  /\ pending' = [pending EXCEPT ![p] = 0]
  /\ UNCHANGED <<sub, unsub, quit, running, clients, gauge, feed, buf, closed, stream, made,
                 main>>

PublishSend(p) ==
  /\ pending[p] # 0
  /\ \/ Len(pub) < PubCap /\ pub' = Append(pub, pending[p])
     \/ quit /\ UNCHANGED pub
  /\ pending' = [pending EXCEPT ![p] = 0]
  /\ UNCHANGED <<sub, unsub, quit, running, clients, gauge, feed, buf, closed, stream, made,
                 main>>

-----------------------------------------------------------------------------
(* main's shutdown: srv.Shutdown (hub.close), httpSrv.Shutdown with its    *)
(* ten seconds, srv.Close (hub.close again, a no-op by then).              *)

Shutdown ==
  /\ main = "serve"
  /\ quit' = TRUE
  /\ main' = "closing"
  /\ UNCHANGED <<sub, unsub, pub, running, clients, gauge, feed, buf, closed, stream, source>>

\* hub.close has waited for run to return; the listener closes.
HubClosed ==
  /\ main = "closing"
  /\ ~running
  /\ main' = "draining"
  /\ UNCHANGED <<hub, stream, source>>

Streaming == {c \in Client : handler[c] \in {"subscribe", "stream", "leave"}}

\* http.Server.Shutdown returns when no stream is left, or after its timeout:
\* at any time, then.
Exit ==
  /\ main = "draining"
  /\ main' = "ended"
  /\ UNCHANGED <<hub, stream, source>>

-----------------------------------------------------------------------------
RunStep == RunQuit \/ RunSub \/ RunUnsub \/ RunPub

HandlerStep(c) == Subscribe(c) \/ Receive(c) \/ SeeClosed(c) \/ SeeAway(c) \/ Unsubscribe(c)

PeerStep(c) == Connect(c) \/ HangUp(c)

PublisherStep(p) == Publish(p) \/ PublishSend(p)

MainStep == Shutdown \/ HubClosed \/ Exit

Next ==
  \/ RunStep
  \/ \E c \in Client : HandlerStep(c) \/ PeerStep(c)
  \/ \E p \in Publisher : PublisherStep(p)
  \/ MainStep

Spec == Init /\ [][Next]_vars

\* A goroutine that can go on does.  select is fair among its ready cases, so
\* each case of run has its own condition.  Nobody need connect, hang up,
\* publish or stop the program.
Fairness ==
  /\ WF_vars(RunQuit) /\ WF_vars(RunSub) /\ WF_vars(RunUnsub) /\ WF_vars(RunPub)
  /\ \A c \in Client :
       /\ WF_vars(Subscribe(c)) /\ WF_vars(Receive(c)) /\ WF_vars(SeeClosed(c))
       /\ WF_vars(SeeAway(c)) /\ WF_vars(Unsubscribe(c))
  /\ \A p \in Publisher : WF_vars(PublishSend(p))
  /\ WF_vars(HubClosed)

FairSpec == Spec /\ Fairness

-----------------------------------------------------------------------------
(* Properties.                                                             *)

\* run never sends on a closed channel and never closes one twice: both panic
\* and would take the whole program down.
NeverUsesClosed == clients \cap closed = {}

\* A stream that is being served is waiting in sub, is one of run's clients, or
\* has a closed channel to see: run never forgets one that is still reading.
StreamsAreKnown ==
  \A c \in Client :
    handler[c] = "stream" => c \in clients \cup closed \cup {sub[i] : i \in 1 .. Len(sub)}

\* All streams see one feed, each in its order and each message once; a stream
\* that is too slow misses messages and disturbs nobody.
Inbox == [c \in Client |-> got[c] \o buf[c]]
Feed == INSTANCE Broadcast WITH Stream <- Client, inbox <- Inbox
ImplementsBroadcast == Feed!Spec

\* Nobody hangs on the hub: PublishEvent returns, as no stream and no shutdown
\* holds the ingest workers; and once the hub is told to stop, every stream it
\* serves ends without its peer's help, and main goes on to drain.
NobodyHangs ==
  /\ \A p \in Publisher : pending[p] # 0 ~> pending[p] = 0
  /\ \A c \in Client : quit /\ c \in clients ~> handler[c] = "gone"
  /\ main = "closing" ~> main # "closing"

\* http.Server.Shutdown finds no stream that "would otherwise never end"
\* (api.go:197-199).
ShutdownDrains == main = "draining" ~> Streaming = {}
=============================================================================
