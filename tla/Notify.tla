------------------------------ MODULE Notify ------------------------------
(***************************************************************************)
(* Notifications (internal/notify, and their callers in                    *)
(* internal/api/api.go): the rules an event is matched against, the        *)
(* delivery of a message to every channel, and the replacement of the      *)
(* dispatcher while its goroutines run.                                    *)
(*                                                                         *)
(* A dispatcher keeps its own memory of the countries and the IPs it has   *)
(* announced, which its goroutines share.  A goroutine matches one event,  *)
(* or carries an alert, a test or a digest, and sends what comes of it to  *)
(* the channels in turn, within one time budget.  Saving the settings      *)
(* replaces the dispatcher and cancels the goroutines of the old one,      *)
(* alerts and tests excepted.                                              *)
(*                                                                         *)
(* Two scales of time: clock counts the unit of the rules (minutes); a     *)
(* budget is spent in units of a send (5 s), and no relation between the   *)
(* two is assumed.  A message is the name of the rule it comes from, or of *)
(* the kind of goroutine that carries it.                                  *)
(***************************************************************************)
EXTENDS Integers, FiniteSetsExt, SequencesExt

CONSTANTS
  IP, Country, None,   \* None: no IP, no country
  Lag,         \* how old an event may be when it is ingested (old lines are replayed)
  Configs,     \* what may be configured (rules and notifiers, each in order), and
               \* the bounds on what happens under it: the events that arrive
               \* (type, ip, country) and the kinds of other goroutines
  Smtp,        \* the notifiers that speak SMTP
  Healthy,     \* those that accept every message they are offered at once
  N, Window,   \* threshold:N/Window
  Budget, DigestBudget,  \* 15 s and 1 min
  PostTime, WaitTime,    \* client timeout (10 s), cap of Retry-After (5 s)
  Task,        \* names for goroutines
  MaxClock, MaxEvent, MaxOther, MaxGen, MaxDb   \* bounds

\* The type a stateless rule asks for.
Wanted == [accepted_login |-> {"accepted"}, ban |-> {"ban"},
           sudo |-> {"sudo_fail", "user_add", "user_del"}]

RuleName == DOMAIN Wanted \cup {"new_country", "threshold"}

ASSUME NotifyAssumption ==
  /\ None \notin IP \cup Country
  /\ \A c \in Configs :
       /\ c.rules \in Seq(RuleName) \ {<< >>}
       /\ c.channels \in Seq(STRING) \ {<< >>}
       /\ \A a \in c.events : a.ip \in IP \cup {None} /\ a.country \in Country \cup {None}
       /\ c.others \subseteq {"alert", "test", "digest"}
  /\ {N, Window, Budget, DigestBudget, MaxGen} \subseteq Nat \ {0}
  /\ Lag \subseteq Nat
  /\ {PostTime, WaitTime, MaxClock, MaxEvent, MaxOther, MaxDb} \subseteq Nat

VARIABLES
  config,    \* the configuration; saves leave it as it is, or take every channel away
  clock,
  attempts,  \* [IP -> its stored attempts: <<timestamp, rank among those>>]
  current,   \* the dispatcher in force; 0: none
  disp,      \* the dispatchers built so far
  task,      \* what each goroutine does
  left,      \* how many events, other messages and store errors may still come
  over,      \* history: <<dispatcher, IP>> whose alerts a race brought too close
  raced      \* history: <<dispatcher, IP>> two goroutines have checked at once

vars == <<config, clock, attempts, current, disp, task, left, over, raced>>

Counted == {"failed_password"}  \* the types CountIPEvents counts

Rules    == config.rules
Channels == config.channels

Idle == [pc |-> "idle"]

Event == {[type |-> a.type, ip |-> a.ip, country |-> a.country, ts |-> ts] :
            a \in config.events, ts \in 0 .. MaxClock}

\* Fields: kind, g (its dispatcher), ev, rule and ch (where it is), left (of
\* its budget), now (its reading of the clock), failed (a test has noted an
\* error).  History: got (the channels that have the present message), short
\* (a healthy one went without some message), due (the IP was at its limit),
\* cut (the context ended before the goroutine, or the store failed it).
Goroutine(kind, ev, budget) ==
  [pc |-> IF kind = "event" THEN "start" ELSE "send", kind |-> kind, g |-> current,
   ev |-> ev, rule |-> 1, ch |-> 1, left |-> budget, now |-> 0, failed |-> FALSE,
   got |-> {}, short |-> FALSE, due |-> FALSE, cut |-> FALSE]

NoEvent == [type |-> "none", ip |-> None, country |-> None, ts |-> 0]

Used == {t \in Task : task[t].pc # "idle"}

\* Fields of a dispatcher: whether its context is live, the start of its
\* memory, the countries seen, the latest alert on each IP by its reading of the
\* clock (-1: none).  History: last (the latest of those readings), first (how
\* many messages announced a country).
Dispatcher ==
  [live : BOOLEAN, started : Nat, seen : SUBSET Country, fired : [IP -> Int],
   last : [IP -> Int], first : [Country -> Nat]]

\* A goroutine that is running.
GoroutineOK(state) ==
  /\ DOMAIN state = {"pc", "kind", "g", "ev", "rule", "ch", "left", "now", "failed", "got",
                     "short", "due", "cut"}
  /\ state.pc \in {"start", "rule", "count", "store", "send", "wait", "retry", "session", "done"}
  /\ state.kind \in {"event", "alert", "test", "digest"}
  /\ state.g \in DOMAIN disp
  /\ state.ev \in Event \cup {NoEvent}
  /\ state.rule \in DOMAIN Rules
  /\ state.ch \in DOMAIN Channels
  /\ state.left \in Nat
  /\ state.now \in 0 .. clock
  /\ state.got \subseteq ToSet(Channels)
  /\ {state.failed, state.short, state.due, state.cut} \subseteq BOOLEAN

\* Types; and a dispatcher remembers every country and every IP it has alerted on.
TypeOK ==
  /\ config \in Configs
  /\ clock \in 0 .. MaxClock
  /\ attempts \in [IP -> SUBSET (Nat \X Nat)]
  /\ \A ip \in IP : IsFiniteSet(attempts[ip])
  /\ disp \in Seq(Dispatcher)
  /\ current \in 0 .. Len(disp)
  /\ Len(disp) <= MaxGen
  /\ \A g \in DOMAIN disp :
       /\ \A ip \in IP : -1 <= disp[g].fired[ip] /\ disp[g].fired[ip] <= disp[g].last[ip]
       /\ \A c \in Country : disp[g].first[c] > 0 => c \in disp[g].seen
  /\ DOMAIN task = Task
  /\ \A t \in Used : GoroutineOK(task[t])

-----------------------------------------------------------------------------
(* The dispatcher.                                                         *)

\* New: fresh memory.
NewDispatcher ==
  [live |-> TRUE, started |-> clock, seen |-> {}, fired |-> [ip \in IP |-> -1],
   last |-> [ip \in IP |-> -1], first |-> [c \in Country |-> 0]]

\* The program starts with a dispatcher, and with each IP one attempt short of
\* the limit.
Init ==
  /\ config \in Configs
  /\ clock = 0
  /\ attempts = [ip \in IP |-> {0} \X (1 .. N - 1)]
  /\ current = 1
  /\ disp = <<NewDispatcher>>
  /\ task = [t \in Task |-> Idle]
  /\ left = [event |-> MaxEvent, other |-> MaxOther, db |-> MaxDb]
  /\ over = {}
  /\ raced = {}

\* Stop.
Stopped(g) == IF g = 0 THEN disp ELSE [disp EXCEPT ![g].live = FALSE]

\* Mutant: the old dispatcher is dropped, not stopped.
SwapLeavingOld(on) ==
  /\ ~on => current # 0
  /\ on => Len(disp) < MaxGen
  /\ disp' = IF on THEN Append(disp, NewDispatcher) ELSE disp
  /\ current' = IF on THEN Len(disp) + 1 ELSE 0
  /\ UNCHANGED <<config, clock, attempts, task, left, over, raced>>

\* swapDispatcher, by a save of the settings with or without a channel.
SwapDispatcher(on) ==
  /\ ~on => current # 0
  /\ on => Len(disp) < MaxGen
  /\ disp' = IF on THEN Append(Stopped(current), NewDispatcher) ELSE Stopped(current)
  /\ current' = IF on THEN Len(disp) + 1 ELSE 0
  /\ UNCHANGED <<config, clock, attempts, task, left, over, raced>>

Tick ==
  /\ clock < MaxClock
  /\ clock' = clock + 1
  /\ UNCHANGED <<config, attempts, current, disp, task, left, over, raced>>

-----------------------------------------------------------------------------
(* Where goroutines come from.                                             *)

\* go func: names are given in a fixed order, as they mean nothing.
Go(goroutine) ==
  /\ Used # Task
  /\ task' = [task EXCEPT ![CHOOSE t \in Task : t \notin Used] = goroutine]

Rank(ts, stored) == 1 + Cardinality({a \in stored : a[1] = ts})

\* The pipeline has stored an event and calls NotifyEvent, which reads the
\* dispatcher in force; its goroutine may start much later.
NotifyEvent(ev) ==
  /\ left.event > 0
  /\ left' = [left EXCEPT !.event = @ - 1]
  /\ attempts' = IF ev.type \in Counted /\ ev.ip # None
                 THEN [attempts EXCEPT ![ev.ip] = @ \cup {<<ev.ts, Rank(ev.ts, @)>>}]
                 ELSE attempts
  /\ IF current = 0 THEN UNCHANGED task ELSE Go(Goroutine("event", ev, Budget))
  /\ UNCHANGED <<config, clock, current, disp, over, raced>>

\* A goroutine that has a message from the start.
Carry(kind, budget) ==
  /\ kind \in config.others
  /\ left.other > 0
  /\ left' = [left EXCEPT !.other = @ - 1]
  /\ Go(Goroutine(kind, NoEvent, budget))
  /\ UNCHANGED <<config, clock, attempts, current, disp, over, raced>>

\* Server.SendAlert; nothing happens when there is no dispatcher.
SendAlert == current # 0 /\ Carry("alert", Budget)

\* handleNotifyTest; without a dispatcher the request is refused.
NotifyTest == current # 0 /\ Carry("test", Budget)

\* A digest timer of a running dispatcher fires and GetStats answers; a
\* failing GetStats sends nothing.
DigestFires == current # 0 /\ Carry("digest", DigestBudget)

-----------------------------------------------------------------------------
(* A goroutine's context.                                                  *)

\* The contexts of alerts and tests do not descend from the dispatcher's.
Alive(t) ==
  /\ task[t].left > 0
  /\ task[t].kind \in {"event", "digest"} => disp[task[t].g].live

Becomes(t, state) == task' = [task EXCEPT ![t] = state]

At(state, pc) == [state EXCEPT !.pc = pc]

\* The rule a goroutine is at, or the message it carries.
Msg(t) == IF task[t].kind = "event" THEN Rules[task[t].rule] ELSE task[t].kind

NextRule(state) ==
  IF state.kind = "event" /\ state.rule < Len(Rules)
  THEN [state EXCEPT !.pc = "rule", !.rule = @ + 1]
  ELSE At(state, "done")

\* The rule has matched: its message goes to the first channel.
Matched(state) == [state EXCEPT !.pc = "send", !.ch = 1, !.got = {}]

-----------------------------------------------------------------------------
(* dispatch and the rules.                                                 *)

Same == <<config, clock, attempts, current, left>>

\* Events from before the start are not announced.
Start(t) ==
  /\ task[t].pc = "start"
  /\ IF task[t].ev.ts < disp[task[t].g].started - 1
     THEN Becomes(t, At(task[t], "done"))
     ELSE Becomes(t, At(task[t], "rule"))
  /\ UNCHANGED <<Same, disp, over, raced>>

AtRule(t) == task[t].pc = "rule"

MatchType(t) ==
  /\ AtRule(t)
  /\ Msg(t) \in DOMAIN Wanted
  /\ Becomes(t, IF task[t].ev.type \in Wanted[Msg(t)] THEN Matched(task[t]) ELSE NextRule(task[t]))
  /\ UNCHANGED <<Same, disp, over, raced>>

\* Mutant: Load, and Store in a later step, in place of LoadOrStore.
MatchCountryLoadThenStore(t) ==
  LET c == task[t].ev.country  g == task[t].g IN
  /\ task[t].pc = "store" \/ AtRule(t)
  /\ Msg(t) = "new_country"
  /\ \/ /\ task[t].pc = "store"
        /\ Becomes(t, Matched(task[t]))
        /\ disp' = [disp EXCEPT ![g].seen = @ \cup {c}, ![g].first[c] = @ + 1]
     \/ /\ task[t].pc = "rule"
        /\ Becomes(t, IF c = None \/ c \in disp[g].seen THEN NextRule(task[t]) ELSE At(task[t], "store"))
        /\ UNCHANGED disp
  /\ UNCHANGED <<Same, over, raced>>

\* Mutant: Load, and nothing is stored.
MatchCountryForgetful(t) ==
  LET c == task[t].ev.country  g == task[t].g IN
  /\ AtRule(t)
  /\ Msg(t) = "new_country"
  /\ IF c = None \/ c \in disp[g].seen
     THEN Becomes(t, NextRule(task[t])) /\ UNCHANGED disp
     ELSE Becomes(t, Matched(task[t])) /\ disp' = [disp EXCEPT ![g].first[c] = @ + 1]
  /\ UNCHANGED <<Same, over, raced>>

\* newCountryRule: LoadOrStore, then the message.
MatchCountry(t) ==
  LET c == task[t].ev.country  g == task[t].g IN
  /\ AtRule(t)
  /\ Msg(t) = "new_country"
  /\ IF c = None \/ c \in disp[g].seen
     THEN Becomes(t, NextRule(task[t])) /\ UNCHANGED disp
     ELSE /\ Becomes(t, Matched(task[t]))
          /\ disp' = [disp EXCEPT ![g].seen = @ \cup {c}, ![g].first[c] = @ + 1]
  /\ UNCHANGED <<Same, over, raced>>

\* Stored attempts of ip since a time.
CountIPEvents(ip, since) ==
  Cardinality({a \in attempts[ip] : a[1] >= since})

\* thresholdRule in three steps.  First: the clock, and the last alert.
ThresholdLoad(t) ==
  LET ip == task[t].ev.ip  fired == disp[task[t].g].fired IN
  /\ AtRule(t)
  /\ Msg(t) = "threshold"
  /\ IF ip = None \/ (fired[ip] >= 0 /\ clock - fired[ip] < Window)
     THEN Becomes(t, NextRule(task[t]))
     ELSE Becomes(t, [task[t] EXCEPT !.pc = "count", !.now = clock,
                                     !.due = CountIPEvents(ip, clock - Window) >= N])
  /\ UNCHANGED <<Same, disp, over, raced>>

\* Mutant: the limit itself is not over the limit.
ThresholdCountAbove(t) ==
  LET ip == task[t].ev.ip IN
  /\ task[t].pc = "count"
  /\ Becomes(t, IF Alive(t) /\ CountIPEvents(ip, task[t].now - Window) > N
                THEN At(task[t], "store")
                ELSE NextRule([task[t] EXCEPT !.cut = @ \/ ~Alive(t)]))
  /\ UNCHANGED <<Same, disp, over, raced>>

\* Then the count, which an ended context or the store may fail.
ThresholdCount(t) ==
  LET ip == task[t].ev.ip IN
  /\ task[t].pc = "count"
  /\ \/ /\ Alive(t)
        /\ Becomes(t, IF CountIPEvents(ip, task[t].now - Window) < N
                      THEN NextRule(task[t]) ELSE At(task[t], "store"))
        /\ UNCHANGED left
     \/ /\ IF Alive(t) THEN left.db > 0 /\ left' = [left EXCEPT !.db = @ - 1] ELSE UNCHANGED left
        /\ Becomes(t, NextRule([task[t] EXCEPT !.cut = TRUE]))
  /\ UNCHANGED <<config, clock, attempts, current, disp, over, raced>>

\* The other goroutines of the dispatcher that have checked ip and not stored.
Rivals(t) ==
  {u \in Used \ {t} : /\ task[u].pc \in {"count", "store"}
                      /\ task[u].g = task[t].g
                      /\ task[u].ev.ip = task[t].ev.ip}

\* Last, the alert is recorded, under the reading of the first step.
ThresholdStore(t) ==
  LET ip == task[t].ev.ip  g == task[t].g  last == disp[g].last[ip] IN
  /\ task[t].pc = "store"
  /\ Msg(t) = "threshold"
  /\ disp' = [disp EXCEPT ![g].fired[ip] = task[t].now, ![g].last[ip] = Max({last, task[t].now})]
  /\ Becomes(t, Matched(task[t]))
  /\ raced' = IF Rivals(t) = {} THEN raced ELSE raced \cup {<<g, ip>>}
  /\ over' = IF last >= 0 /\ task[t].now - last < Window THEN over \cup {<<g, ip>>} ELSE over
  /\ UNCHANGED Same

-----------------------------------------------------------------------------
(* Delivery: every channel in turn, and what became of the last one is     *)
(* only noted.                                                             *)

Keep == <<Same, disp, over, raced>>

Channel(t) == Channels[task[t].ch]

\* What a Send that has returned leaves behind.
Outcome(t, ok, spent, more) ==
  LET got    == IF ok THEN task[t].got \cup {Channel(t)} ELSE task[t].got
      missed == (Healthy \cap ToSet(Channels)) \ got
  IN  [task[t] EXCEPT
         !.ch = IF more THEN @ + 1 ELSE @,
         !.left = @ - spent,
         !.failed = task[t].kind = "test" /\ (@ \/ ~ok),
         !.got = got,
         !.short = @ \/ (~more /\ missed # {}),
         !.cut = @ \/ (~ok /\ ~Alive(t)) \/ spent = task[t].left]

\* Mutant: an error ends the round.
ReturnsAndStops(t, ok, spent) ==
  LET more == ok /\ task[t].ch < Len(Channels)
  IN  LET state == Outcome(t, ok, spent, more)
      IN  Becomes(t, IF more THEN At(state, "send") ELSE NextRule(state))

\* A Send has returned: the next channel has its turn, or the message is done.
Returns(t, ok, spent) ==
  LET more == task[t].ch < Len(Channels)
  IN  LET state == Outcome(t, ok, spent, more)
      IN  Becomes(t, IF more THEN At(state, "send") ELSE NextRule(state))

\* What is left of a budget if something takes up to d.
Spans(t, d) == 0 .. Min({d, task[t].left})

\* The context has ended: a Send, or the wait for a retry, fails at once.
SendFails(t) ==
  /\ task[t].pc \in {"send", "wait", "retry"}
  /\ ~Alive(t)
  /\ Returns(t, FALSE, 0)
  /\ UNCHANGED Keep

\* doPost, within the client's timeout and the budget.  After 429 or 5xx there
\* is one retry.
Post(t) ==
  /\ task[t].pc \in {"send", "retry"}
  /\ Channel(t) \notin Smtp
  /\ Alive(t)
  /\ IF Channel(t) \in Healthy THEN Returns(t, TRUE, 0)
     ELSE \E d \in Spans(t, PostTime) :
            \/ Returns(t, FALSE, d)
            \/ d < task[t].left /\ Returns(t, TRUE, d)
            \/ /\ d < task[t].left
               /\ task[t].pc = "send"
               /\ Becomes(t, [task[t] EXCEPT !.pc = "wait", !.left = @ - d])
  /\ UNCHANGED Keep

\* Mutant: there is always another retry.
WaitAgain(t) ==
  /\ task[t].pc = "wait"
  /\ Alive(t)
  /\ \E d \in Spans(t, WaitTime) :
       IF d = task[t].left THEN Returns(t, FALSE, d)
       ELSE Becomes(t, [task[t] EXCEPT !.pc = "send", !.left = @ - d])
  /\ UNCHANGED Keep

\* The wait before the retry; if the budget ends first the original response
\* stands.
Wait(t) ==
  /\ task[t].pc = "wait"
  /\ Alive(t)
  /\ \E d \in Spans(t, WaitTime) :
       IF d = task[t].left THEN Returns(t, FALSE, d)
       ELSE Becomes(t, [task[t] EXCEPT !.pc = "retry", !.left = @ - d])
  /\ UNCHANGED Keep

\* An SMTP channel is dialled under the context ...
Dial(t) ==
  /\ task[t].pc = "send"
  /\ Channel(t) \in Smtp
  /\ Alive(t)
  /\ \/ Becomes(t, At(task[t], "session"))
     \/ Channel(t) \notin Healthy /\ \E d \in Spans(t, task[t].left) : Returns(t, FALSE, d)
  /\ UNCHANGED Keep

\* ... but only the deadline ends the session, a cancellation does not.
Session(t) ==
  /\ task[t].pc = "session"
  /\ IF Channel(t) \in Healthy THEN Returns(t, TRUE, 0)
     ELSE \E d \in Spans(t, task[t].left) :
            Returns(t, FALSE, d) \/ (d < task[t].left /\ Returns(t, TRUE, d))
  /\ UNCHANGED Keep

\* The goroutine returns; a test answers "sent" unless an error was noted.
Done(t) ==
  /\ task[t].pc = "done"
  /\ task' = [task EXCEPT ![t] = Idle]
  /\ UNCHANGED Keep

-----------------------------------------------------------------------------

GoroutineStep(t) ==
  \/ Start(t) \/ MatchType(t) \/ MatchCountry(t)
  \/ ThresholdLoad(t) \/ ThresholdCount(t) \/ ThresholdStore(t)
  \/ SendFails(t) \/ Post(t) \/ Wait(t) \/ Dial(t) \/ Session(t) \/ Done(t)

Next ==
  \/ Tick
  \/ \E on \in BOOLEAN : SwapDispatcher(on)
  \/ \E ev \in Event : clock - ev.ts \in Lag /\ NotifyEvent(ev)
  \/ SendAlert \/ NotifyTest \/ DigestFires
  \/ \E t \in Task : GoroutineStep(t)

Spec == Init /\ [][Next]_vars

\* A goroutine keeps running.
FairSpec == Spec /\ \A t \in Task : WF_vars(GoroutineStep(t))

-----------------------------------------------------------------------------
(* Properties.                                                             *)

\* The rules' memory, under any overlap of goroutines: one dispatcher announces
\* a country once (newCountryRule), and two alerts on an IP are at least Window
\* apart, unless two goroutines were between its check and its record at the
\* same time (thresholdRule).
AnnouncedOnce ==
  /\ \A g \in DOMAIN disp : \A c \in Country : disp[g].first[c] <= 1
  /\ over \subseteq raced

\* thresholdRule: when a goroutine that nothing cut short ends, an IP that was
\* at its limit has been announced, by it or by another, within the Window.
OverThresholdIsAnnounced ==
  \A t \in Used :
    task[t].pc = "done" /\ task[t].due /\ ~task[t].cut
      => disp[task[t].g].last[task[t].ev.ip] > task[t].now - Window

\* Whatever the other channels do, a channel in good order gets every message of
\* a goroutine (dispatch, SendAlert, sendDigest), unless its time runs out or its
\* dispatcher is stopped; and a test that reports no error has reached every
\* channel (SendTest).
MessagesArrive ==
  \A t \in Used :
    task[t].pc = "done" =>
      /\ ~task[t].cut => ~task[t].short
      /\ task[t].kind = "test" /\ ~task[t].failed => task[t].got = ToSet(Channels)

\* swapDispatcher: a dispatcher that has been replaced delivers no event or
\* digest any more, except through an SMTP session already open.
ReplacedDispatcherIsSilent ==
  [][\A t \in Used :
       /\ task[t].kind \in {"event", "digest"}
       /\ task[t].g # current
       /\ task[t].pc # "session"
       => task'[t].pc = "idle" \/ task'[t].got \subseteq task[t].got]_vars

\* Notify, SendAlert, SendTest, sendDigest: no channel, however slow or busy,
\* keeps a goroutine from ending.
GoroutinesEnd == \A t \in Task : task[t].pc # "idle" ~> task[t].pc = "idle"
=============================================================================
