----------------------------- MODULE Hub_proofs -----------------------------
(***************************************************************************)
(* Proofs about Hub, for every set of connections and publishers, every    *)
(* capacity of the channels and every number of messages.                  *)
(***************************************************************************)
EXTENDS Hub, SequenceTheorems, FiniteSetTheorems, TLAPS

-----------------------------------------------------------------------------
(* Type correctness.                                                       *)

TypeInv == TypeOK /\ IsFiniteSet(clients)

LEMMA InitType == Init => TypeInv
<1>1. \A S : << >> \in Seq(S) /\ Len(<< >>) = 0
  BY EmptySeq
<1>2. IsFiniteSet({})
  BY FS_EmptySet
<1>3. 0 <= SubCap /\ 0 <= UnsubCap /\ 0 <= PubCap /\ 0 <= BufCap /\ 0 \in 0 .. MaxMsg
  BY HubAssumption
<1>. SUFFICES ASSUME Init
              PROVE  TypeInv
  OBVIOUS
<1>4. buf \in [Client -> Seq(Message)] /\ got \in [Client -> Seq(Message)]
  BY <1>1 DEF Init
<1>. QED
  BY <1>1, <1>2, <1>3, <1>4 DEF Init, TypeInv, TypeOK

\* What appending to a queue makes of its length and its elements.
LEMMA AppendLemma ==
  ASSUME NEW S, NEW q \in Seq(S), NEW x \in S
  PROVE  /\ Append(q, x) \in Seq(S)
         /\ Len(q) \in Nat
         /\ Len(Append(q, x)) = Len(q) + 1
         /\ \A i \in 1 .. Len(q) + 1 :
              \/ i = Len(q) + 1 /\ Append(q, x)[i] = x
              \/ i \in 1 .. Len(q) /\ Append(q, x)[i] = q[i]
  OBVIOUS

LEMMA RunType == TypeInv /\ RunStep => TypeInv'
<1>. SUFFICES ASSUME TypeInv, RunStep
              PROVE  TypeInv'
  OBVIOUS
<1>. USE HubAssumption DEF TypeInv, TypeOK, hub, stream, source
<1>1. CASE RunQuit
  <2>1. IsFiniteSet({})
    BY FS_EmptySet
  <2>. QED  BY <1>1, <2>1 DEF RunQuit
<1>2. CASE RunSub
  <2>1. Head(sub) \in Client /\ Tail(sub) \in Seq(Client) /\ Len(Tail(sub)) = Len(sub) - 1
    BY <1>2, HeadTailProperties DEF RunSub
  <2>2. IsFiniteSet(clients') /\ gauge' \in Nat
    BY <1>2, FS_AddElement, FS_CardinalityType DEF RunSub
  <2>3. clients' \subseteq Client
    BY <1>2, <2>1 DEF RunSub
  <2>. QED  BY <1>2, <2>1, <2>2, <2>3 DEF RunSub
<1>3. CASE RunUnsub
  <2>1. Head(unsub) \in Client /\ Tail(unsub) \in Seq(Client) /\ Len(Tail(unsub)) = Len(unsub) - 1
    BY <1>3, HeadTailProperties DEF RunUnsub
  <2>2. IsFiniteSet(clients') /\ gauge' \in Nat
    BY <1>3, FS_RemoveElement, FS_CardinalityType DEF RunUnsub
  <2>. QED  BY <1>3, <2>1, <2>2, SMTT(30) DEF RunUnsub
<1>4. CASE RunPub
  <2>1. Head(pub) \in Message /\ Tail(pub) \in Seq(Message) /\ Len(Tail(pub)) = Len(pub) - 1
    BY <1>4, HeadTailProperties DEF RunPub
  <2>2. feed' \in Seq(Message)
    BY <1>4, <2>1 DEF RunPub
  <2>3. \A c \in Client : buf'[c] \in Seq(Message) /\ Len(buf'[c]) <= BufCap
    BY <1>4, <2>1 DEF RunPub
  <2>4. buf' \in [Client -> Seq(Message)]
    BY <1>4, <2>3 DEF RunPub
  <2>. QED  BY <1>4, <2>1, <2>2, <2>3, <2>4 DEF RunPub
<1>. QED  BY <1>1, <1>2, <1>3, <1>4 DEF RunStep

LEMMA HandlerType ==
  ASSUME TypeInv, NEW c \in Client, HandlerStep(c) \/ PeerStep(c)
  PROVE  TypeInv'
<1>. USE HubAssumption DEF TypeInv, TypeOK, hub, stream, source
<1>1. CASE Subscribe(c)
  BY <1>1 DEF Subscribe, Goto
<1>2. CASE Receive(c)
  <2>1. /\ Head(buf[c]) \in Message /\ Tail(buf[c]) \in Seq(Message)
        /\ Len(Tail(buf[c])) = Len(buf[c]) - 1
    BY <1>2, HeadTailProperties DEF Receive
  <2>. QED  BY <1>2, <2>1 DEF Receive
<1>3. CASE SeeClosed(c) \/ SeeAway(c)
  BY <1>3 DEF SeeClosed, SeeAway, Goto
<1>4. CASE Unsubscribe(c)
  <2>1. unsub' \in Seq(Client) /\ Len(unsub') <= UnsubCap
    <3>1. Append(unsub, c) \in Seq(Client) /\ Len(Append(unsub, c)) = Len(unsub) + 1
      BY AppendLemma
    <3>2. Len(unsub) \in Nat
      BY AppendLemma
    <3>3. \/ Len(unsub) < UnsubCap /\ unsub' = Append(unsub, c)
          \/ unsub' = unsub
      BY <1>4 DEF Unsubscribe
    <3>4. UnsubCap \in Nat /\ Len(unsub) <= UnsubCap /\ unsub \in Seq(Client)
      OBVIOUS
    <3>. HIDE DEF TypeOK, TypeInv
    <3>. QED  BY <3>1, <3>2, <3>3, <3>4
  <2>. QED  BY <1>4, <2>1 DEF Unsubscribe, Goto
<1>5. CASE Connect(c)
  BY <1>5 DEF Connect, Goto
<1>6. CASE HangUp(c)
  BY <1>6 DEF HangUp
<1>. QED
  BY <1>1, <1>2, <1>3, <1>4, <1>5, <1>6 DEF HandlerStep, PeerStep

LEMMA PublisherType ==
  ASSUME TypeInv, NEW p \in Publisher, PublisherStep(p)
  PROVE  TypeInv'
<1>. USE HubAssumption DEF TypeInv, TypeOK, hub, stream, source
<1>1. CASE Publish(p)
  BY <1>1 DEF Publish
<1>2. CASE PublishSend(p)
  <2>1. pending[p] \in Message
    BY <1>2 DEF PublishSend, Message
  <2>2. pub' \in Seq(Message) /\ Len(pub') <= PubCap
    <3>1. /\ Append(pub, pending[p]) \in Seq(Message)
          /\ Len(Append(pub, pending[p])) = Len(pub) + 1
      BY <2>1, AppendLemma
    <3>2. Len(pub) \in Nat
      BY <2>1, AppendLemma
    <3>3. \/ Len(pub) < PubCap /\ pub' = Append(pub, pending[p])
          \/ pub' = pub
      BY <1>2 DEF PublishSend
    <3>4. PubCap \in Nat /\ Len(pub) <= PubCap /\ pub \in Seq(Message)
      OBVIOUS
    <3>. HIDE DEF TypeOK, TypeInv
    <3>. QED  BY <3>1, <3>2, <3>3, <3>4
  <2>3. pending' \in [Publisher -> 0 .. MaxMsg]
    BY <1>2 DEF PublishSend
  <2>. QED  BY <1>2, <2>2, <2>3 DEF PublishSend
<1>. QED  BY <1>1, <1>2 DEF PublisherStep

LEMMA MainType == TypeInv /\ MainStep => TypeInv'
BY DEF TypeInv, TypeOK, hub, stream, source, MainStep, Shutdown, HubClosed, Exit

LEMMA StepType == TypeInv /\ [Next]_vars => TypeInv'
<1>1. TypeInv /\ UNCHANGED vars => TypeInv'
  BY DEF TypeInv, TypeOK, vars, hub, stream, source
<1>. QED
  BY <1>1, RunType, HandlerType, PublisherType, MainType DEF Next

\* Every variable keeps its type; no channel of the hub holds more than its
\* capacity, and the exported gauge is never negative.
THEOREM TypeCorrect == Spec => []TypeOK
<1>1. TypeInv => TypeOK
  BY DEF TypeInv
<1>. QED  BY <1>1, InitType, StepType, PTL DEF Spec

-----------------------------------------------------------------------------
(* run never uses a closed channel.  A connection passes through sub once,  *)
(* so what waits there has neither been registered nor closed before; that  *)
(* is what keeps a closed channel from coming back into the map.            *)

Waiting(c) == \E i \in 1 .. Len(sub) : sub[i] = c

\* A channel waits in sub at most once.
WaitsOnce ==
  \A i, j \in 1 .. Len(sub) : sub[i] = sub[j] => i = j

\* A channel waiting in sub is new to run, and one not yet in sub newer still.
Fresh ==
  /\ \A i \in 1 .. Len(sub) : sub[i] \notin clients \cup closed
  /\ \A c \in Client : handler[c] \in {"none", "subscribe"} =>
       c \notin clients \cup closed /\ ~Waiting(c)

ClosedInv == NeverUsesClosed /\ WaitsOnce /\ Fresh

LEMMA HeadTail ==
  ASSUME NEW S, NEW q \in Seq(S), q # << >>
  PROVE  /\ Head(q) = q[1] /\ Tail(q) \in Seq(S) /\ 1 \in 1 .. Len(q)
         /\ Len(Tail(q)) \in Nat
         /\ \A i \in 1 .. Len(Tail(q)) :
              i + 1 \in 1 .. Len(q) /\ i \in Int /\ i + 1 # 1 /\ Tail(q)[i] = q[i + 1]
  OBVIOUS

LEMMA SubscribeClosed ==
  ASSUME TypeOK, ClosedInv, NEW c \in Client, Subscribe(c)
  PROVE  ClosedInv'
<1>. USE DEF ClosedInv, NeverUsesClosed, WaitsOnce, Fresh, Waiting, TypeOK
<1>1. Len(sub') = Len(sub) + 1 /\ Len(sub) \in Nat
  BY AppendLemma DEF Subscribe
<1>2. \A i \in 1 .. Len(sub') :
        \/ i = Len(sub) + 1 /\ sub'[i] = c
        \/ i \in 1 .. Len(sub) /\ sub'[i] = sub[i]
  BY <1>1, AppendLemma DEF Subscribe
<1>3. c \notin clients \cup closed /\ ~Waiting(c)
  BY DEF Subscribe
<1>4. UNCHANGED <<clients, closed>>
  BY DEF Subscribe
<1>5. WaitsOnce'
  BY <1>1, <1>2, <1>3
<1>6. \A i \in 1 .. Len(sub') : sub'[i] \notin (clients \cup closed)'
  BY <1>2, <1>3, <1>4
<1>7. \A d \in Client : handler'[d] \in {"none", "subscribe"} =>
        d # c /\ handler[d] \in {"none", "subscribe"}
  BY DEF Subscribe, Goto
<1>. QED  BY <1>2, <1>4, <1>5, <1>6, <1>7

LEMMA RunSubClosed == TypeOK /\ ClosedInv /\ RunSub => ClosedInv'
<1>. SUFFICES ASSUME TypeOK, ClosedInv, RunSub
              PROVE  ClosedInv'
  OBVIOUS
<1>. USE DEF ClosedInv, NeverUsesClosed, WaitsOnce, Fresh, Waiting, TypeOK
<1>1. /\ Head(sub) = sub[1] /\ 1 \in 1 .. Len(sub)
      /\ \A i \in 1 .. Len(sub') :
           i + 1 \in 1 .. Len(sub) /\ i \in Int /\ i + 1 # 1 /\ sub'[i] = sub[i + 1]
  BY HeadTail DEF RunSub
<1>2. clients' = clients \cup {sub[1]} /\ closed' = closed /\ handler' = handler
  BY <1>1 DEF RunSub, stream
<1>3. WaitsOnce'
  BY <1>1
<1>4. \A i \in 1 .. Len(sub') : sub'[i] \notin (clients \cup closed)'
  BY <1>1, <1>2
<1>5. ASSUME NEW d \in Client, handler'[d] \in {"none", "subscribe"}
      PROVE  d \notin (clients \cup closed)' /\ ~Waiting(d)'
  <2>1. d \notin clients \cup closed /\ \A i \in 1 .. Len(sub) : sub[i] # d
    BY <1>2, <1>5
  <2>. QED  BY <1>1, <1>2, <2>1
<1>6. NeverUsesClosed'
  BY <1>1, <1>2
<1>. QED  BY <1>3, <1>4, <1>5, <1>6

LEMMA StepClosed == TypeOK /\ ClosedInv /\ [Next]_vars => ClosedInv'
<1>. SUFFICES ASSUME TypeOK, ClosedInv, [Next]_vars
              PROVE  ClosedInv'
  OBVIOUS
<1>. USE DEF ClosedInv, NeverUsesClosed, WaitsOnce, Fresh, Waiting, hub, stream, source
<1>1. CASE RunQuit \/ RunUnsub
  BY <1>1 DEF RunQuit, RunUnsub, TypeOK
<1>2. CASE RunPub
  BY <1>2 DEF RunPub
<1>3. ASSUME NEW c \in Client, HandlerStep(c) \/ PeerStep(c), ~Subscribe(c)
      PROVE  ClosedInv'
  BY <1>3 DEF HandlerStep, PeerStep, Receive, SeeClosed, SeeAway, Unsubscribe, Connect,
              HangUp, Goto, TypeOK
<1>4. ASSUME NEW p \in Publisher, PublisherStep(p)
      PROVE  ClosedInv'
  BY <1>4 DEF PublisherStep, Publish, PublishSend
<1>5. CASE MainStep
  BY <1>5 DEF MainStep, Shutdown, HubClosed, Exit
<1>6. CASE UNCHANGED vars
  BY <1>6 DEF vars
<1>. QED
  BY <1>1, <1>2, <1>3, <1>4, <1>5, <1>6, RunSubClosed, SubscribeClosed DEF Next, RunStep

LEMMA InitClosed == Init => ClosedInv
BY DEF Init, ClosedInv, NeverUsesClosed, WaitsOnce, Fresh, Waiting

\* The hub's goroutine never sends on a closed channel and never closes one
\* twice (hub.go:38-58), so it never panics.
THEOREM NoClosedChannel == Spec => []NeverUsesClosed
<1>1. ClosedInv => NeverUsesClosed
  BY DEF ClosedInv
<1>. QED
  BY <1>1, TypeCorrect, InitClosed, StepClosed, PTL DEF Spec
-----------------------------------------------------------------------------
(* run forgets no stream that is still reading.                            *)

InSub == {sub[i] : i \in 1 .. Len(sub)}

LEMMA InitKnown == Init => StreamsAreKnown
BY DEF Init, StreamsAreKnown

LEMMA SubscribeKnown ==
  ASSUME TypeOK, StreamsAreKnown, NEW c \in Client, Subscribe(c)
  PROVE  StreamsAreKnown'
<1>1. sub \in Seq(Client) /\ sub' = Append(sub, c) /\ UNCHANGED <<clients, closed>>
  BY DEF Subscribe, TypeOK
<1>2. InSub' = InSub \cup {c}
  <2>1. /\ Len(sub) \in Nat /\ Len(sub') = Len(sub) + 1
        /\ \A i \in 1 .. Len(sub) + 1 : \/ i = Len(sub) + 1 /\ sub'[i] = c
                                        \/ i \in 1 .. Len(sub) /\ sub'[i] = sub[i]
    BY <1>1, AppendLemma
  <2>2. Len(sub) + 1 \in 1 .. Len(sub') /\ \A i \in 1 .. Len(sub) : i \in 1 .. Len(sub')
    BY <2>1
  <2>3. Len(sub) + 1 \notin 1 .. Len(sub) /\ \A i \in 1 .. Len(sub) : i # Len(sub) + 1
    BY <2>1
  <2>. QED  BY <2>1, <2>2, <2>3 DEF InSub
<1>3. \A d \in Client : handler'[d] = "stream" => handler[d] = "stream" \/ d = c
  BY DEF Subscribe, Goto, TypeOK
<1>. QED
  BY <1>1, <1>2, <1>3 DEF StreamsAreKnown, InSub

LEMMA RunSubKnown == TypeOK /\ StreamsAreKnown /\ RunSub => StreamsAreKnown'
<1>. SUFFICES ASSUME TypeOK, StreamsAreKnown, RunSub
              PROVE  StreamsAreKnown'
  OBVIOUS
<1>1. /\ sub \in Seq(Client) /\ sub # << >> /\ sub' = Tail(sub)
      /\ clients' = clients \cup {Head(sub)} /\ UNCHANGED <<closed, handler>>
  BY DEF RunSub, TypeOK, stream
<1>2. InSub \subseteq InSub' \cup {Head(sub)}
  <2>. SUFFICES ASSUME NEW i \in 1 .. Len(sub), i # 1
                PROVE  sub[i] \in InSub'
    BY <1>1, HeadTail DEF InSub
  <2>1. /\ i - 1 \in 1 .. Len(sub') /\ sub'[i - 1] = sub[(i - 1) + 1]
        /\ (i - 1) + 1 = i
    BY <1>1, HeadTailProperties
  <2>. QED  BY <2>1 DEF InSub
<1>. QED
  BY <1>1, <1>2 DEF StreamsAreKnown, InSub

LEMMA StepKnown == TypeOK /\ StreamsAreKnown /\ [Next]_vars => StreamsAreKnown'
<1>. SUFFICES ASSUME TypeOK, StreamsAreKnown, [Next]_vars
              PROVE  StreamsAreKnown'
  OBVIOUS
<1>. USE DEF StreamsAreKnown, hub, stream, source
<1>1. CASE RunQuit \/ RunUnsub \/ RunPub
  BY <1>1 DEF RunQuit, RunUnsub, RunPub
<1>2. ASSUME NEW c \in Client, HandlerStep(c) \/ PeerStep(c), ~Subscribe(c)
      PROVE  StreamsAreKnown'
  BY <1>2 DEF HandlerStep, PeerStep, Receive, SeeClosed, SeeAway, Unsubscribe, Connect,
              HangUp, Goto, TypeOK
<1>3. ASSUME NEW p \in Publisher, PublisherStep(p)
      PROVE  StreamsAreKnown'
  BY <1>3 DEF PublisherStep, Publish, PublishSend
<1>4. CASE MainStep \/ UNCHANGED vars
  BY <1>4 DEF MainStep, Shutdown, HubClosed, Exit, vars
<1>. QED
  BY <1>1, <1>2, <1>3, <1>4, RunSubKnown, SubscribeKnown DEF Next, RunStep

\* A handler that is still reading its channel is queued in sub, registered
\* with run, or has a closed channel: run drops nobody without telling.
THEOREM NoStreamForgotten == Spec => []StreamsAreKnown
BY TypeCorrect, InitKnown, StepKnown, PTL DEF Spec

-----------------------------------------------------------------------------
(* The hub implements one feed that streams join or miss message by message. *)

LEMMA AppendConcat ==
  ASSUME NEW S, NEW s \in Seq(S), NEW t \in Seq(S), NEW x \in S
  PROVE  s \o Append(t, x) = Append(s \o t, x)
BY ConcatAssociative, AppendIsConcat, ConcatProperties

LEMMA MoveHead ==
  ASSUME NEW S, NEW s \in Seq(S), NEW t \in Seq(S), t # << >>
  PROVE  Append(s, Head(t)) \o Tail(t) = s \o t
<1>1. /\ Head(t) \in S /\ Tail(t) \in Seq(S) /\ Len(Tail(t)) = Len(t) - 1
      /\ \A i \in 1 .. Len(Tail(t)) : Tail(t)[i] = t[i + 1]
  BY HeadTailProperties
<1>2. <<Head(t)>> \o Tail(t) = t
  BY <1>1
<1>3. Append(s, Head(t)) = s \o <<Head(t)>> /\ <<Head(t)>> \in Seq(S)
  BY <1>1, AppendIsConcat
<1>. QED
  BY <1>1, <1>2, <1>3, ConcatAssociative

LEMMA InitFeed == Init => Feed!Init
<1>1. << >> \o << >> = << >>
  BY EmptySeq, ConcatEmptySeq
<1>. QED
  BY <1>1 DEF Init, Feed!Init, Inbox

LEMMA RunPubFeed == TypeOK /\ RunPub => Feed!Next
<1>. SUFFICES ASSUME TypeOK, RunPub
              PROVE  Feed!Next
  OBVIOUS
<1>. DEFINE m == Head(pub)
            to == {c \in clients : Len(buf[c]) < BufCap}
<1>1. m \in Message
  BY HeadTailProperties DEF RunPub, TypeOK
<1>2. ASSUME NEW c \in Client
      PROVE  Inbox'[c] = IF c \in to THEN Append(Inbox[c], m) ELSE Inbox[c]
  <2>1. got[c] \in Seq(Message) /\ buf[c] \in Seq(Message) /\ got' = got
    BY DEF RunPub, TypeOK, stream
  <2>2. buf'[c] = IF c \in to THEN Append(buf[c], m) ELSE buf[c]
    BY DEF RunPub
  <2>3. got[c] \o Append(buf[c], m) = Append(got[c] \o buf[c], m)
    <3>. DEFINE g == got[c]
                b == buf[c]
    <3>1. m \in Message /\ g \in Seq(Message) /\ b \in Seq(Message)
      BY <1>1, <2>1
    <3>. HIDE DEF m, g, b
    <3>2. g \o Append(b, m) = Append(g \o b, m)
      <4>1. \A s, t \in Seq(Message), x \in Message : s \o Append(t, x) = Append(s \o t, x)
        BY AppendConcat
      <4>. QED  BY <3>1, <4>1, Zenon
    <3>. QED  BY <3>2 DEF g, b
  <2>4. Inbox[c] = got[c] \o buf[c] /\ Inbox'[c] = got'[c] \o buf'[c]
    BY DEF Inbox
  <2>. QED  BY <2>1, <2>2, <2>3, <2>4
<1>3. Inbox' = [c \in Client |-> IF c \in to THEN Append(Inbox[c], m) ELSE Inbox[c]]
  BY <1>2 DEF Inbox
<1>4. feed' = Append(feed, m) /\ to \in SUBSET Client
  BY DEF RunPub, TypeOK
<1>5. Feed!Emit(m, to)
  BY <1>3, <1>4 DEF Feed!Emit
<1>. QED
  BY <1>1, <1>4, <1>5 DEF Feed!Next, Message

LEMMA StepFeed == TypeOK /\ [Next]_vars => [Feed!Next]_(Feed!vars)
<1>. SUFFICES ASSUME TypeOK, [Next]_vars
              PROVE  Feed!Next \/ UNCHANGED <<feed, Inbox>>
  BY DEF Feed!vars
<1>. USE DEF hub, stream, source
<1>1. CASE RunQuit \/ RunSub \/ RunUnsub \/ MainStep \/ UNCHANGED vars
  BY <1>1 DEF RunQuit, RunSub, RunUnsub, MainStep, Shutdown, HubClosed, Exit, vars, Inbox
<1>2. ASSUME NEW c \in Client, HandlerStep(c) \/ PeerStep(c), ~Receive(c)
      PROVE  UNCHANGED <<feed, Inbox>>
  BY <1>2 DEF HandlerStep, PeerStep, Subscribe, SeeClosed, SeeAway, Unsubscribe, Connect,
              HangUp, Inbox
<1>3. ASSUME NEW c \in Client, Receive(c)
      PROVE  UNCHANGED <<feed, Inbox>>
  <2>1. got[c] \in Seq(Message) /\ buf[c] \in Seq(Message) /\ buf[c] # << >>
    BY <1>3 DEF Receive, TypeOK
  <2>2. Append(got[c], Head(buf[c])) \o Tail(buf[c]) = got[c] \o buf[c]
    BY <2>1, MoveHead
  <2>3. \A d \in Client : got'[d] \o buf'[d] = got[d] \o buf[d]
    BY <1>3, <2>2 DEF Receive, TypeOK
  <2>. QED  BY <1>3, <2>3 DEF Receive, Inbox
<1>4. ASSUME NEW p \in Publisher, PublisherStep(p)
      PROVE  UNCHANGED <<feed, Inbox>>
  BY <1>4 DEF PublisherStep, Publish, PublishSend, Inbox
<1>. QED
  BY <1>1, <1>2, <1>3, <1>4, RunPubFeed DEF Next, RunStep

\* Every stream gets, in order and without repeats, messages of the one feed
\* run hands round.
THEOREM Refinement == Spec => ImplementsBroadcast
<1>1. Spec => Feed!Init /\ [][Feed!Next]_(Feed!vars)
  BY TypeCorrect, InitFeed, StepFeed, PTL DEF Spec
<1>. QED
  BY <1>1 DEF ImplementsBroadcast, Feed!Spec
=============================================================================
