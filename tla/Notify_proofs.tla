--------------------------- MODULE Notify_proofs ---------------------------
(***************************************************************************)
(* Proofs about Notify, for any configurations, addresses and countries,   *)
(* any number of goroutines, dispatchers and saves, and any budgets.       *)
(***************************************************************************)
EXTENDS Notify, SequenceTheorems, FiniteSetTheorems, TLAPS

-----------------------------------------------------------------------------
(* Goroutines: what each change of one leaves alone.                       *)

Field == {"pc", "kind", "g", "ev", "rule", "ch", "left", "now", "failed", "got",
          "short", "due", "cut"}

SameBut(r, s, changed) == DOMAIN s = Field /\ \A f \in Field \ changed : s[f] = r[f]

LEMMA ConfigOK ==
  ASSUME TypeOK
  PROVE  /\ Len(Rules) \in Nat /\ Len(Rules) >= 1 /\ DOMAIN Rules = 1 .. Len(Rules)
         /\ Len(Channels) \in Nat /\ Len(Channels) >= 1 /\ DOMAIN Channels = 1 .. Len(Channels)
         /\ \A ev \in Event \cup {NoEvent} :
              ev.ip \in IP \cup {None} /\ ev.country \in Country \cup {None}
<1>1. /\ config.rules \in Seq(RuleName) /\ config.rules # << >>
      /\ config.channels \in Seq(STRING) /\ config.channels # << >>
      /\ \A a \in config.events : a.ip \in IP \cup {None} /\ a.country \in Country \cup {None}
  BY NotifyAssumption DEF TypeOK
<1>2. ASSUME NEW S, NEW s \in Seq(S), s # << >>
      PROVE  Len(s) \in Nat /\ Len(s) >= 1 /\ DOMAIN s = 1 .. Len(s)
  BY <1>2
<1>3. \A ev \in Event \cup {NoEvent} :
        ev.ip \in IP \cup {None} /\ ev.country \in Country \cup {None}
  BY <1>1 DEF Event, NoEvent
<1>. QED  BY <1>1, <1>2, <1>3 DEF Rules, Channels

LEMMA AtOK ==
  ASSUME NEW r, GoroutineOK(r),
         NEW p \in {"start", "rule", "count", "store", "send", "wait", "retry", "session", "done"}
  PROVE  GoroutineOK(At(r, p)) /\ At(r, p).pc = p /\ SameBut(r, At(r, p), {"pc"})
BY DEF GoroutineOK, At, SameBut, Field

LEMMA NextRuleOK ==
  ASSUME TypeOK, NEW r, GoroutineOK(r)
  PROVE  /\ GoroutineOK(NextRule(r)) /\ SameBut(r, NextRule(r), {"pc", "rule"})
         /\ \/ NextRule(r).pc = "rule" /\ r.kind = "event"
            \/ NextRule(r).pc = "done"
<1>1. CASE r.kind = "event" /\ r.rule < Len(Rules)
  <2>. DEFINE s == NextRule(r)
  <2>1. s = [r EXCEPT !.pc = "rule", !.rule = @ + 1]
    BY <1>1 DEF NextRule
  <2>2. s.pc = "rule" /\ s.rule = r.rule + 1 /\ SameBut(r, s, {"pc", "rule"})
    BY <2>1 DEF GoroutineOK, SameBut, Field
  <2>3. s.rule \in DOMAIN Rules
    BY <1>1, <2>2, ConfigOK DEF GoroutineOK
  <2>. QED  BY <1>1, <2>2, <2>3 DEF GoroutineOK, SameBut, Field
<1>2. CASE ~(r.kind = "event" /\ r.rule < Len(Rules))
  <2>1. NextRule(r) = At(r, "done")
    BY <1>2 DEF NextRule
  <2>. QED  BY <2>1, AtOK DEF SameBut
<1>. QED  BY <1>1, <1>2

LEMMA MatchedOK ==
  ASSUME TypeOK, NEW r, GoroutineOK(r)
  PROVE  /\ GoroutineOK(Matched(r)) /\ SameBut(r, Matched(r), {"pc", "ch", "got"})
         /\ Matched(r).pc = "send" /\ Matched(r).ch = 1 /\ Matched(r).got = {}
<1>1. /\ SameBut(r, Matched(r), {"pc", "ch", "got"})
      /\ Matched(r).pc = "send" /\ Matched(r).ch = 1 /\ Matched(r).got = {}
  BY DEF GoroutineOK, Matched, SameBut, Field
<1>2. 1 \in DOMAIN Channels
  BY ConfigOK
<1>. QED  BY <1>1, <1>2 DEF GoroutineOK, SameBut, Field

LEMMA CutOK ==
  ASSUME NEW r, GoroutineOK(r), NEW cut \in BOOLEAN
  PROVE  LET s == [r EXCEPT !.cut = cut]
         IN  GoroutineOK(s) /\ s.cut = cut /\ SameBut(r, s, {"cut"})
BY DEF GoroutineOK, SameBut, Field

Paused(r, p, d) == [r EXCEPT !.pc = p, !.left = @ - d]

LEMMA PauseOK ==
  ASSUME NEW r, GoroutineOK(r), NEW p \in {"wait", "retry"}, NEW d \in 0 .. r.left
  PROVE  /\ GoroutineOK(Paused(r, p, d)) /\ Paused(r, p, d).pc = p
         /\ SameBut(r, Paused(r, p, d), {"pc", "left"})
<1>. DEFINE s == Paused(r, p, d)
<1>1. SameBut(r, s, {"pc", "left"}) /\ s.pc = p /\ s.left = r.left - d
  BY DEF GoroutineOK, SameBut, Field, Paused
<1>2. s.left \in Nat
  BY <1>1 DEF GoroutineOK
<1>. QED  BY <1>1, <1>2 DEF GoroutineOK, SameBut, Field

\* A Send that has returned.
LEMMA OutcomeOK ==
  ASSUME TypeOK, NEW t \in Used, NEW ok \in BOOLEAN, NEW spent \in 0 .. task[t].left,
         NEW more \in BOOLEAN, more => task[t].ch < Len(Channels)
  PROVE  LET r == task[t]
             s == Outcome(t, ok, spent, more)
         IN  /\ GoroutineOK(s)
             /\ SameBut(r, s, {"ch", "left", "failed", "got", "short", "cut"})
             /\ s.ch = IF more THEN r.ch + 1 ELSE r.ch
             /\ s.failed <=> r.kind = "test" /\ (r.failed \/ ~ok)
             /\ s.got = IF ok THEN r.got \cup {Channel(t)} ELSE r.got
             /\ s.short <=> r.short \/ (~more /\ (Healthy \cap ToSet(Channels)) \ s.got # {})
             /\ s.cut <=> r.cut \/ (~ok /\ ~Alive(t)) \/ spent = r.left
<1>. DEFINE r == task[t]
            s == Outcome(t, ok, spent, more)
<1>1. GoroutineOK(r)
  BY DEF TypeOK
<1>2. /\ SameBut(r, s, {"ch", "left", "failed", "got", "short", "cut"})
      /\ s.ch = IF more THEN r.ch + 1 ELSE r.ch
      /\ s.left = r.left - spent
      /\ s.failed = (r.kind = "test" /\ (r.failed \/ ~ok))
      /\ s.got = IF ok THEN r.got \cup {Channel(t)} ELSE r.got
      /\ s.short = (r.short \/ (~more /\ (Healthy \cap ToSet(Channels)) \ s.got # {}))
      /\ s.cut = (r.cut \/ (~ok /\ ~Alive(t)) \/ spent = r.left)
  BY <1>1 DEF GoroutineOK, Outcome, SameBut, Field
<1>3. s.ch \in DOMAIN Channels /\ s.left \in Nat /\ s.got \subseteq ToSet(Channels)
  <2>1. Channel(t) \in ToSet(Channels)
    BY <1>1 DEF Channel, ToSet, GoroutineOK
  <2>. QED  BY <1>1, <1>2, <2>1, ConfigOK DEF GoroutineOK
<1>4. /\ s.failed \in BOOLEAN /\ s.short \in BOOLEAN /\ s.cut \in BOOLEAN
  <2>1. r.short \in BOOLEAN /\ r.cut \in BOOLEAN
    BY <1>1 DEF GoroutineOK
  <2>. QED  BY <1>2, <2>1
<1>. HIDE DEF s
<1>5. /\ DOMAIN s = Field
      /\ s.pc = r.pc /\ s.kind = r.kind /\ s.g = r.g /\ s.ev = r.ev /\ s.rule = r.rule
      /\ s.now = r.now /\ s.due = r.due
  BY <1>2 DEF SameBut, Field
<1>6. GoroutineOK(s)
  <2>1. {s.failed, s.short, s.due, s.cut} \subseteq BOOLEAN
    BY <1>1, <1>4, <1>5 DEF GoroutineOK
  <2>2. /\ s.pc \in {"start", "rule", "count", "store", "send", "wait", "retry", "session", "done"}
        /\ s.kind \in {"event", "alert", "test", "digest"}
        /\ s.g \in DOMAIN disp /\ s.ev \in Event \cup {NoEvent}
        /\ s.rule \in DOMAIN Rules /\ s.now \in 0 .. clock
    BY <1>1, <1>5 DEF GoroutineOK
  <2>. QED  BY <1>3, <1>5, <2>1, <2>2 DEF GoroutineOK, Field
<1>. QED  BY <1>2, <1>6 DEF s

\* The goroutine goes to its next channel, or is done with its message.
Returned(t, ok, spent, s) ==
  LET r == task[t]  last == r.ch = Len(Channels) IN
  /\ SameBut(r, s, {"pc", "rule", "ch", "left", "failed", "got", "short", "cut"})
  /\ \/ ~last /\ s.pc = "send" /\ s.ch = r.ch + 1
     \/ last /\ ((s.pc = "rule" /\ r.kind = "event") \/ s.pc = "done")
  /\ s.failed <=> r.kind = "test" /\ (r.failed \/ ~ok)
  /\ s.got = IF ok THEN r.got \cup {Channel(t)} ELSE r.got
  /\ s.short <=> r.short \/ (last /\ (Healthy \cap ToSet(Channels)) \ s.got # {})
  /\ s.cut <=> r.cut \/ (~ok /\ ~Alive(t)) \/ spent = r.left

LEMMA ReturnsOK ==
  ASSUME TypeOK, NEW t \in Used, NEW ok \in BOOLEAN, NEW spent \in 0 .. task[t].left,
         Returns(t, ok, spent)
  PROVE  \E s : task' = [task EXCEPT ![t] = s] /\ GoroutineOK(s) /\ Returned(t, ok, spent, s)
<1>. DEFINE r == task[t]
            more == r.ch < Len(Channels)
            o == Outcome(t, ok, spent, more)
            s == IF more THEN At(o, "send") ELSE NextRule(o)
<1>1. task' = [task EXCEPT ![t] = s]
  BY DEF Returns, Becomes
<1>2. /\ more \in BOOLEAN /\ (more => task[t].ch < Len(Channels))
      /\ more <=> r.ch # Len(Channels)
  BY ConfigOK DEF TypeOK, GoroutineOK
<1>3. /\ GoroutineOK(o)
      /\ SameBut(r, o, {"ch", "left", "failed", "got", "short", "cut"})
      /\ o.ch = IF more THEN r.ch + 1 ELSE r.ch
      /\ o.failed <=> r.kind = "test" /\ (r.failed \/ ~ok)
      /\ o.got = IF ok THEN r.got \cup {Channel(t)} ELSE r.got
      /\ o.short <=> r.short \/ (~more /\ (Healthy \cap ToSet(Channels)) \ o.got # {})
      /\ o.cut <=> r.cut \/ (~ok /\ ~Alive(t)) \/ spent = r.left
  BY <1>2, OutcomeOK, ZenonT(30)
<1>. HIDE DEF o
<1>4. CASE more
  <2>1. GoroutineOK(s) /\ s.pc = "send" /\ SameBut(o, s, {"pc"})
    BY <1>3, <1>4, AtOK
  <2>2. SameBut(r, s, {"pc", "rule", "ch", "left", "failed", "got", "short", "cut"})
    BY <1>3, <2>1 DEF SameBut
  <2>3. /\ s.ch = o.ch /\ s.failed = o.failed /\ s.got = o.got /\ s.short = o.short
        /\ s.cut = o.cut
    BY <2>1 DEF SameBut, Field
  <2>. HIDE DEF s
  <2>4. Returned(t, ok, spent, s)
    BY <1>2, <1>3, <1>4, <2>1, <2>2, <2>3 DEF Returned
  <2>. QED  BY <1>1, <2>1, <2>4
<1>5. CASE ~more
  <2>1. /\ GoroutineOK(s) /\ SameBut(o, s, {"pc", "rule"})
        /\ (s.pc = "rule" /\ o.kind = "event") \/ s.pc = "done"
    BY <1>3, <1>5, NextRuleOK
  <2>2. SameBut(r, s, {"pc", "rule", "ch", "left", "failed", "got", "short", "cut"})
    BY <1>3, <2>1 DEF SameBut
  <2>3. /\ s.ch = o.ch /\ s.failed = o.failed /\ s.got = o.got /\ s.short = o.short
        /\ s.cut = o.cut /\ o.kind = r.kind
    BY <1>3, <2>1 DEF SameBut, Field
  <2>. HIDE DEF s
  <2>4. /\ r.ch = Len(Channels)
        /\ (s.pc = "rule" /\ r.kind = "event") \/ s.pc = "done"
    BY <1>2, <1>5, <2>1, <2>3
  <2>5. /\ s.failed <=> r.kind = "test" /\ (r.failed \/ ~ok)
        /\ s.got = IF ok THEN r.got \cup {Channel(t)} ELSE r.got
    BY <1>3, <2>3
  <2>6. /\ s.short <=> r.short \/ (r.ch = Len(Channels) /\ (Healthy \cap ToSet(Channels)) \ s.got # {})
        /\ s.cut <=> r.cut \/ (~ok /\ ~Alive(t)) \/ spent = r.left
    BY <1>3, <1>5, <2>3, <2>4
  <2>7. Returned(t, ok, spent, s)
    BY <2>2, <2>4, <2>5, <2>6 DEF Returned
  <2>. QED  BY <1>1, <2>1, <2>7
<1>. QED  BY <1>4, <1>5

-----------------------------------------------------------------------------
(* Type correctness.                                                       *)

\* What a goroutine counts the attempts of is an address.
Asking(r) ==
  r.pc \in {"count", "store"} =>
    r.kind = "event" /\ Rules[r.rule] = "threshold" /\ r.ev.ip \in IP

TypeInv == TypeOK /\ \A t \in Used : Asking(task[t])

Still == UNCHANGED <<config, clock, attempts, current>>

LEMMA UsedTask == ASSUME TypeOK, NEW t \in Used PROVE GoroutineOK(task[t]) /\ t \in Task
BY DEF TypeOK, Used

LEMMA SpansOK ==
  ASSUME TypeOK, NEW t \in Used, NEW d \in Nat
  PROVE  Spans(t, d) \subseteq 0 .. task[t].left
<1>1. task[t].left \in Nat
  BY UsedTask DEF GoroutineOK
<1>2. \E x \in {d, task[t].left} : \A y \in {d, task[t].left} : x =< y
  BY <1>1
<1>3. Min({d, task[t].left}) \in {d, task[t].left} /\ Min({d, task[t].left}) =< task[t].left
  BY <1>1, <1>2 DEF Min
<1>. QED  BY <1>1, <1>3 DEF Spans

Announced(g, c) == disp' = [disp EXCEPT ![g].seen = @ \cup {c}, ![g].first[c] = @ + 1]

Recorded(g, ip, now, latest) ==
  disp' = [disp EXCEPT ![g].fired[ip] = now, ![g].last[ip] = latest]

\* A dispatcher that remembers every country and every IP it has alerted on.
Remembers(e) ==
  /\ e \in Dispatcher
  /\ \A ip \in IP : -1 <= e.fired[ip] /\ e.fired[ip] <= e.last[ip]
  /\ \A c \in Country : e.first[c] > 0 => c \in e.seen

LEMMA DispatchersRemember ==
  ASSUME TypeOK, NEW g \in DOMAIN disp
  PROVE  Remembers(disp[g]) /\ g \in 1 .. Len(disp)
<1>1. g \in 1 .. Len(disp) /\ disp \in Seq(Dispatcher)
  BY DEF TypeOK
<1>2. disp[g] \in Dispatcher
  BY <1>1
<1>. QED  BY <1>1, <1>2 DEF TypeOK, Remembers

LEMMA OneChanges ==
  ASSUME TypeOK, NEW g \in DOMAIN disp, NEW e, Remembers(e), disp' = [disp EXCEPT ![g] = e]
  PROVE  /\ disp' \in Seq(Dispatcher) /\ Len(disp') = Len(disp) /\ DOMAIN disp' = DOMAIN disp
         /\ disp'[g] = e /\ \A h \in DOMAIN disp \ {g} : disp'[h] = disp[h]
         /\ \A h \in DOMAIN disp' : Remembers(disp'[h])
<1>1. disp \in Seq(Dispatcher) /\ g \in 1 .. Len(disp) /\ e \in Dispatcher
  BY DispatchersRemember DEF TypeOK, Remembers
<1>2. /\ disp' \in Seq(Dispatcher) /\ Len(disp') = Len(disp)
      /\ \A h \in 1 .. Len(disp) : disp'[h] = IF h = g THEN e ELSE disp[h]
  BY <1>1, ExceptSeq
<1>3. DOMAIN disp = 1 .. Len(disp) /\ DOMAIN disp' = 1 .. Len(disp')
  BY <1>1, <1>2
<1>. QED  BY <1>1, <1>2, <1>3, DispatchersRemember

LEMMA SeenChanges ==
  ASSUME TypeOK, NEW g \in DOMAIN disp, NEW c \in Country \ disp[g].seen,
         Announced(g, c)
  PROVE  \E e : /\ Remembers(e) /\ disp' = [disp EXCEPT ![g] = e]
                /\ e.live = disp[g].live /\ e.fired = disp[g].fired /\ e.last = disp[g].last
                /\ e.first[c] = disp[g].first[c] + 1 /\ c \in e.seen
                /\ \A d \in Country \ {c} : e.first[d] = disp[g].first[d]
<1>. DEFINE old == disp[g]
            first == [old.first EXCEPT ![c] = @ + 1]
            e == [old EXCEPT !.seen = @ \cup {c}, !.first[c] = @ + 1]
<1>1. disp' = [disp EXCEPT ![g] = e]
  BY DispatchersRemember DEF TypeOK, Announced
<1>2. old \in Dispatcher
  BY DispatchersRemember DEF Remembers
<1>3. /\ e \in Dispatcher
      /\ e.live = old.live /\ e.fired = old.fired /\ e.last = old.last
      /\ e.seen = old.seen \cup {c} /\ e.first = first
  <2>1. old.seen \cup {c} \in SUBSET Country /\ first \in [Country -> Nat]
    BY <1>2 DEF Dispatcher
  <2>2. e = [old EXCEPT !.seen = old.seen \cup {c}, !.first = first]
    BY <1>2 DEF Dispatcher
  <2>. HIDE DEF e, first
  <2>. QED  BY <1>2, <2>1, <2>2 DEF Dispatcher
<1>4. old.first \in [Country -> Nat]
  BY <1>2 DEF Dispatcher
<1>. HIDE DEF e
<1>5. e.first[c] = old.first[c] + 1 /\ \A d \in Country \ {c} : e.first[d] = old.first[d]
  BY <1>3, <1>4
<1>6. Remembers(e)
  BY <1>3, <1>5, DispatchersRemember DEF Remembers
<1>. QED  BY <1>1, <1>3, <1>5, <1>6

LEMMA FiredChanges ==
  ASSUME TypeOK, NEW g \in DOMAIN disp, NEW ip \in IP, NEW now \in Nat, NEW m \in Int,
         m >= now,
         Recorded(g, ip, now, m)
  PROVE  \E e : /\ Remembers(e) /\ disp' = [disp EXCEPT ![g] = e]
                /\ e.live = disp[g].live /\ e.first = disp[g].first
                /\ e.fired[ip] = now /\ e.last[ip] = m
                /\ \A other \in IP \ {ip} : /\ e.fired[other] = disp[g].fired[other]
                                            /\ e.last[other] = disp[g].last[other]
<1>. DEFINE old == disp[g]
            fired == [old.fired EXCEPT ![ip] = now]
            last == [old.last EXCEPT ![ip] = m]
            e == [old EXCEPT !.fired[ip] = now, !.last[ip] = m]
<1>1. disp' = [disp EXCEPT ![g] = e]
  BY DispatchersRemember DEF TypeOK, Recorded
<1>2. old \in Dispatcher
  BY DispatchersRemember DEF Remembers
<1>3. /\ e \in Dispatcher
      /\ e.live = old.live /\ e.first = old.first /\ e.seen = old.seen
      /\ e.fired = fired /\ e.last = last
  <2>1. fired \in [IP -> Int] /\ last \in [IP -> Int]
    BY <1>2 DEF Dispatcher
  <2>2. e = [old EXCEPT !.fired = fired, !.last = last]
    BY <1>2 DEF Dispatcher
  <2>. HIDE DEF e, fired, last
  <2>. QED  BY <1>2, <2>1, <2>2 DEF Dispatcher
<1>4. old.fired \in [IP -> Int] /\ old.last \in [IP -> Int]
  BY <1>2 DEF Dispatcher
<1>. HIDE DEF e
<1>5. /\ e.fired[ip] = now /\ e.last[ip] = m
      /\ \A other \in IP \ {ip} : e.fired[other] = old.fired[other] /\ e.last[other] = old.last[other]
  BY <1>3, <1>4
<1>6. Remembers(e)
  BY <1>3, <1>5, DispatchersRemember DEF Remembers
<1>. QED  BY <1>1, <1>3, <1>5, <1>6

\* What a step makes of a goroutine: it goes on without a match, its rule matches,
\* it has checked the last alert on an IP, it has found the IP at its limit, its
\* count has failed, it waits or opens a session, or a Send has returned.
Passes(r, s) ==
  /\ r.pc \in {"start", "rule", "count"}
  /\ r.pc = "count" => CountIPEvents(r.ev.ip, r.now - Window) < N
  /\ SameBut(r, s, {"pc", "rule"}) /\ s.pc \in {"rule", "done"}

Matches(r, s) ==
  /\ SameBut(r, s, {"pc", "ch", "got"})
  /\ s.pc = "send" /\ s.ch = 1 /\ s.got = {}

Loads(r, s) ==
  LET fired == disp[r.g].fired[r.ev.ip] IN
  /\ r.pc = "rule" /\ r.ev.ip \in IP
  /\ fired < 0 \/ clock - fired >= Window
  /\ SameBut(r, s, {"pc", "now", "due"}) /\ s.pc = "count" /\ s.now = clock
  /\ s.due <=> CountIPEvents(r.ev.ip, clock - Window) >= N

Exceeds(r, s) ==
  r.pc = "count" /\ SameBut(r, s, {"pc"}) /\ s.pc = "store"

Fails(r, s) ==
  r.pc = "count" /\ SameBut(r, s, {"pc", "rule", "cut"}) /\ s.pc \in {"rule", "done"} /\ s.cut

Pauses(r, s) ==
  SameBut(r, s, {"pc", "left"}) /\ s.pc \in {"wait", "retry", "session"}

Sends(t, s) ==
  \E spent \in 0 .. task[t].left :
    \/ /\ Returned(t, TRUE, spent, s)
       /\ Alive(t) \/ task[t].pc = "session"
    \/ /\ Returned(t, FALSE, spent, s)
       /\ Channel(t) \notin Healthy \/ ~Alive(t) \/ spent = task[t].left

Delivering == {"send", "wait", "retry", "session"}

TurnsInto(t, s) == task' = [task EXCEPT ![t] = s] /\ GoroutineOK(s) /\ Asking(s)

LEMMA DeliveryEffect ==
  ASSUME TypeOK, NEW t \in Used,
         SendFails(t) \/ Post(t) \/ Wait(t) \/ Dial(t) \/ Session(t)
  PROVE  /\ Still /\ UNCHANGED <<disp, over, raced>> /\ task[t].pc \in Delivering
         /\ \E s : /\ TurnsInto(t, s)
                   /\ Pauses(task[t], s) \/ Sends(t, s)
<1>. DEFINE Effect == \E s : /\ TurnsInto(t, s)
                             /\ Pauses(task[t], s) \/ Sends(t, s)
<1>1. /\ Still /\ UNCHANGED <<disp, over, raced>> /\ task[t].pc \in Delivering
  BY DEF SendFails, Post, Wait, Dial, Session, Keep, Same, Still, Delivering
<1>. SUFFICES Effect
  BY <1>1
<1>2. ASSUME NEW d \in 0 .. task[t].left, Returns(t, TRUE, d), Alive(t) \/ task[t].pc = "session"
      PROVE  Effect
  <2>1. PICK s : TurnsInto(t, s) /\ Returned(t, TRUE, d, s)
    BY <1>2, ReturnsOK DEF TurnsInto, Asking, Returned
  <2>. QED  BY <1>2, <2>1 DEF Sends
<1>3. ASSUME NEW d \in 0 .. task[t].left, Returns(t, FALSE, d),
             Channel(t) \notin Healthy \/ ~Alive(t) \/ d = task[t].left
      PROVE  Effect
  <2>1. PICK s : TurnsInto(t, s) /\ Returned(t, FALSE, d, s)
    BY <1>3, ReturnsOK DEF TurnsInto, Asking, Returned
  <2>. QED  BY <1>3, <2>1 DEF Sends
<1>4. ASSUME NEW d \in 0 .. task[t].left, NEW p \in {"wait", "retry"},
             Becomes(t, [task[t] EXCEPT !.pc = p, !.left = @ - d])
      PROVE  Effect
  <2>. DEFINE new == Paused(task[t], p, d)
  <2>0. GoroutineOK(task[t])
    BY UsedTask
  <2>1. GoroutineOK(new) /\ SameBut(task[t], new, {"pc", "left"}) /\ new.pc = p
    BY <2>0, PauseOK
  <2>2. task' = [task EXCEPT ![t] = new]
    BY <1>4 DEF Becomes, Paused
  <2>. HIDE DEF new
  <2>3. TurnsInto(t, new) /\ Pauses(task[t], new)
    BY <2>1, <2>2 DEF TurnsInto, Asking, Pauses
  <2>. QED  BY <2>3
<1>5. ASSUME Becomes(t, At(task[t], "session"))
      PROVE  Effect
  <2>. DEFINE new == At(task[t], "session")
  <2>1. GoroutineOK(new) /\ new.pc = "session" /\ SameBut(task[t], new, {"pc"})
    BY UsedTask, AtOK
  <2>2. task' = [task EXCEPT ![t] = new]
    BY <1>5 DEF Becomes
  <2>. HIDE DEF new
  <2>3. TurnsInto(t, new) /\ Pauses(task[t], new)
    BY <2>1, <2>2 DEF TurnsInto, Asking, Pauses, SameBut
  <2>. QED  BY <2>3
<1>6. /\ 0 \in 0 .. task[t].left
      /\ Spans(t, PostTime) \subseteq 0 .. task[t].left
      /\ Spans(t, WaitTime) \subseteq 0 .. task[t].left
      /\ Spans(t, task[t].left) \subseteq 0 .. task[t].left
  BY UsedTask, SpansOK, NotifyAssumption DEF GoroutineOK
<1>. HIDE DEF Effect
<1>7. CASE SendFails(t)
  BY <1>3, <1>6, <1>7 DEF SendFails
<1>8. CASE Post(t)
  BY <1>2, <1>3, <1>4, <1>6, <1>8 DEF Post
<1>9. CASE Wait(t)
  BY <1>3, <1>4, <1>6, <1>9 DEF Wait
<1>10. CASE Dial(t)
  BY <1>3, <1>5, <1>6, <1>10 DEF Dial
<1>11. CASE Session(t)
  BY <1>2, <1>3, <1>6, <1>11 DEF Session
<1>. QED  BY <1>7, <1>8, <1>9, <1>10, <1>11

LEMMA RuleEffect ==
  ASSUME TypeInv, NEW t \in Used,
         Start(t) \/ MatchType(t) \/ ThresholdLoad(t) \/ ThresholdCount(t)
  PROVE  /\ Still /\ UNCHANGED <<disp, over, raced>>
         /\ \E s : /\ TurnsInto(t, s)
                   /\ \/ Passes(task[t], s) \/ Loads(task[t], s)
                      \/ Exceeds(task[t], s) \/ Fails(task[t], s)
                      \/ Matches(task[t], s) /\ task[t].pc = "rule"
<1>. DEFINE r == task[t]
            Effect == \E s : /\ TurnsInto(t, s)
                             /\ \/ Passes(r, s) \/ Loads(r, s) \/ Exceeds(r, s) \/ Fails(r, s)
                                \/ Matches(r, s) /\ r.pc = "rule"
<1>1. Still /\ UNCHANGED <<disp, over, raced>>
  BY DEF Start, MatchType, ThresholdLoad, ThresholdCount, Same, Still
<1>2. TypeOK /\ GoroutineOK(r) /\ Asking(r)
  BY UsedTask DEF TypeInv
<1>. SUFFICES Effect
  BY <1>1
<1>3. ASSUME NEW new, Becomes(t, new), GoroutineOK(new), Asking(new),
             \/ Passes(r, new) \/ Loads(r, new) \/ Exceeds(r, new) \/ Fails(r, new)
             \/ Matches(r, new) /\ r.pc = "rule"
      PROVE  Effect
  <2>1. TurnsInto(t, new)
    BY <1>3 DEF Becomes, TurnsInto
  <2>. QED  BY <1>3, <2>1
<1>. HIDE DEF Effect
<1>4. ASSUME Becomes(t, NextRule(r)), r.pc \in {"rule", "count"},
             r.pc = "count" => CountIPEvents(r.ev.ip, r.now - Window) < N
      PROVE  Effect
  <2>1. /\ GoroutineOK(NextRule(r)) /\ SameBut(r, NextRule(r), {"pc", "rule"})
        /\ NextRule(r).pc \in {"rule", "done"}
    BY <1>2, NextRuleOK
  <2>2. Passes(r, NextRule(r)) /\ Asking(NextRule(r))
    BY <1>4, <2>1 DEF Passes, Asking
  <2>. QED  BY <1>3, <1>4, <2>1, <2>2
<1>5. CASE Start(t)
  <2>1. ASSUME NEW p \in {"done", "rule"}, Becomes(t, At(r, p))
        PROVE  Effect
    <3>1. GoroutineOK(At(r, p)) /\ SameBut(r, At(r, p), {"pc"}) /\ At(r, p).pc = p
      BY <1>2, AtOK
    <3>2. Passes(r, At(r, p)) /\ Asking(At(r, p))
      BY <1>5, <3>1 DEF Passes, Asking, SameBut, Start
    <3>. QED  BY <1>3, <2>1, <3>1, <3>2
  <2>. QED  BY <1>5, <2>1 DEF Start
<1>6. CASE MatchType(t)
  <2>1. GoroutineOK(Matched(r)) /\ Matches(r, Matched(r)) /\ Asking(Matched(r))
    BY <1>2, MatchedOK DEF Matches, Asking
  <2>2. r.pc = "rule"
    BY <1>6 DEF MatchType, AtRule
  <2>3. CASE Becomes(t, Matched(r))
    BY <1>3, <2>1, <2>2, <2>3
  <2>4. CASE Becomes(t, NextRule(r))
    BY <1>4, <2>2, <2>4
  <2>. QED  BY <1>6, <2>3, <2>4 DEF MatchType
<1>7. CASE ThresholdLoad(t)
  <2>. DEFINE ip == r.ev.ip
              fired == disp[r.g].fired[ip]
              due == CountIPEvents(ip, clock - Window) >= N
              s == [r EXCEPT !.pc = "count", !.now = clock, !.due = due]
  <2>1. r.pc = "rule"
    BY <1>7 DEF ThresholdLoad, AtRule
  <2>2. CASE Becomes(t, NextRule(r))
    BY <1>4, <2>1, <2>2
  <2>3. CASE ip # None /\ ~(fired >= 0 /\ clock - fired < Window) /\ Becomes(t, s)
    <3>1. clock \in 0 .. clock /\ due \in BOOLEAN
      BY <1>2 DEF TypeOK
    <3>2. /\ GoroutineOK(s) /\ SameBut(r, s, {"pc", "now", "due"})
          /\ s.pc = "count" /\ s.now = clock /\ s.due = due
      BY <1>2, <3>1 DEF GoroutineOK, SameBut, Field
    <3>3. r.kind = "event" /\ Rules[r.rule] = "threshold"
      BY <1>2, <1>7 DEF ThresholdLoad, Msg, GoroutineOK
    <3>4. ip \in IP
      BY <1>2, <2>3, ConfigOK DEF GoroutineOK
    <3>5. Asking(s)
      BY <3>2, <3>3, <3>4 DEF Asking, SameBut, Field
    <3>6. fired < 0 \/ clock - fired >= Window
      <4>1. disp[r.g] \in Dispatcher
        BY <1>2, DispatchersRemember DEF GoroutineOK, Remembers
      <4>2. disp[r.g].fired \in [IP -> Int]
        BY <4>1 DEF Dispatcher
      <4>3. fired \in Int
        BY <3>4, <4>2
      <4>4. clock \in Int /\ Window \in Int
        BY <1>2, NotifyAssumption DEF TypeOK
      <4>. QED  BY <2>3, <4>3, <4>4
    <3>. HIDE DEF s
    <3>7. Loads(r, s)
      BY <2>1, <3>2, <3>4, <3>6 DEF Loads
    <3>. QED  BY <1>3, <2>3, <3>2, <3>5, <3>7
  <2>. QED  BY <1>7, <2>2, <2>3 DEF ThresholdLoad
<1>8. CASE ThresholdCount(t)
  <2>1. r.pc = "count"
    BY <1>8 DEF ThresholdCount
  <2>2. CASE Becomes(t, NextRule([r EXCEPT !.cut = TRUE]))
    <3>. DEFINE o == [r EXCEPT !.cut = TRUE]
    <3>1. GoroutineOK(o) /\ o.cut = TRUE /\ SameBut(r, o, {"cut"})
      BY <1>2, CutOK
    <3>2. Becomes(t, NextRule(o))
      BY <2>2
    <3>. HIDE DEF o
    <3>3. /\ GoroutineOK(NextRule(o)) /\ SameBut(o, NextRule(o), {"pc", "rule"})
          /\ NextRule(o).pc \in {"rule", "done"}
      BY <1>2, <3>1, NextRuleOK
    <3>4. SameBut(r, NextRule(o), {"pc", "rule", "cut"}) /\ NextRule(o).cut = TRUE
      BY <3>1, <3>3 DEF SameBut, Field
    <3>5. Fails(r, NextRule(o)) /\ Asking(NextRule(o))
      BY <2>1, <3>3, <3>4 DEF Fails, Asking
    <3>. QED  BY <1>3, <3>2, <3>3, <3>5
  <2>3. CASE Becomes(t, At(r, "store"))
    <3>1. /\ GoroutineOK(At(r, "store")) /\ SameBut(r, At(r, "store"), {"pc"})
          /\ At(r, "store").pc = "store"
      BY <1>2, AtOK
    <3>2. Exceeds(r, At(r, "store")) /\ Asking(At(r, "store"))
      BY <1>2, <2>1, <3>1 DEF Exceeds, Asking, SameBut, Field
    <3>. QED  BY <1>3, <2>3, <3>1, <3>2
  <2>4. CASE Becomes(t, NextRule(r)) /\ CountIPEvents(r.ev.ip, r.now - Window) < N
    BY <1>4, <2>1, <2>4
  <2>. QED  BY <1>8, <2>2, <2>3, <2>4 DEF ThresholdCount
<1>. QED  BY <1>5, <1>6, <1>7, <1>8

LEMMA CountryEffect ==
  ASSUME TypeInv, NEW t \in Used, MatchCountry(t)
  PROVE  /\ Still /\ UNCHANGED <<over, raced>>
         /\ \E s : /\ TurnsInto(t, s)
                   /\ \/ Passes(task[t], s) /\ disp' = disp
                      \/ /\ Matches(task[t], s) /\ task[t].pc = "rule"
                         /\ \E c \in Country \ disp[task[t].g].seen : Announced(task[t].g, c)
<1>. DEFINE r == task[t]
<1>1. TypeOK /\ GoroutineOK(r) /\ r.pc = "rule"
  BY UsedTask DEF TypeInv, MatchCountry, AtRule
<1>2. GoroutineOK(NextRule(r)) /\ Asking(NextRule(r)) /\ Passes(r, NextRule(r))
  BY <1>1, NextRuleOK DEF Asking, Passes
<1>3. GoroutineOK(Matched(r)) /\ Asking(Matched(r)) /\ Matches(r, Matched(r))
  BY <1>1, MatchedOK DEF Asking, Matches
<1>4. r.ev.country \in Country \cup {None}
  BY <1>1, ConfigOK DEF GoroutineOK
<1>5. Still /\ UNCHANGED <<over, raced>>
  BY DEF MatchCountry, Same, Still
<1>6. \/ Becomes(t, NextRule(r)) /\ disp' = disp
      \/ /\ Becomes(t, Matched(r))
         /\ r.ev.country \in Country \ disp[r.g].seen /\ Announced(r.g, r.ev.country)
  BY <1>4 DEF MatchCountry, Announced
<1>. QED  BY <1>1, <1>2, <1>3, <1>5, <1>6 DEF Becomes, TurnsInto

LEMMA StoreEffect ==
  ASSUME TypeInv, NEW t \in Used, ThresholdStore(t)
  PROVE  /\ Still /\ task[t].pc = "store" /\ task[t].ev.ip \in IP
         /\ \E s : TurnsInto(t, s) /\ Matches(task[t], s)
         /\ \E m \in Int :
              /\ m \in {disp[task[t].g].last[task[t].ev.ip], task[t].now}
              /\ m >= disp[task[t].g].last[task[t].ev.ip] /\ m >= task[t].now
              /\ Recorded(task[t].g, task[t].ev.ip, task[t].now, m)
<1>. DEFINE r == task[t]
            last == disp[r.g].last[r.ev.ip]
            m == Max({last, r.now})
<1>1. TypeOK /\ GoroutineOK(r) /\ r.ev.ip \in IP
  BY UsedTask DEF TypeInv, Asking, ThresholdStore
<1>2. last \in Int /\ r.now \in Int
  <2>1. r.g \in DOMAIN disp /\ disp \in Seq(Dispatcher)
    BY <1>1 DEF TypeOK, GoroutineOK
  <2>2. disp[r.g] \in Dispatcher
    BY <2>1
  <2>. QED  BY <1>1, <2>2 DEF Dispatcher, GoroutineOK, TypeOK
<1>3. \E x \in {last, r.now} : \A y \in {last, r.now} : x >= y
  BY <1>2
<1>4. m \in {last, r.now} /\ m >= last /\ m >= r.now
  BY <1>2, <1>3 DEF Max
<1>5. GoroutineOK(Matched(r)) /\ Asking(Matched(r)) /\ Matches(r, Matched(r))
  BY <1>1, MatchedOK DEF Asking, Matches
<1>6. Recorded(r.g, r.ev.ip, r.now, m)
  BY DEF ThresholdStore, Recorded
<1>. HIDE DEF m
<1>7. Still /\ r.pc = "store" /\ task' = [task EXCEPT ![t] = Matched(r)]
  BY DEF ThresholdStore, Becomes, Same, Still
<1>8. TurnsInto(t, Matched(r))
  BY <1>5, <1>7 DEF TurnsInto
<1>9. m \in Int
  BY <1>2, <1>4
<1>. QED  BY <1>1, <1>4, <1>5, <1>6, <1>7, <1>8, <1>9

\* A dispatcher that starts has announced nothing.
LEMMA NewDispatcherRemembers ==
  ASSUME clock \in Nat
  PROVE  /\ Remembers(NewDispatcher)
         /\ NewDispatcher.live
         /\ \A ip \in IP : NewDispatcher.fired[ip] = -1 /\ NewDispatcher.last[ip] = -1
         /\ \A c \in Country : NewDispatcher.first[c] = 0
BY DEF NewDispatcher, Remembers, Dispatcher

LEMMA StoppedOK ==
  ASSUME TypeOK, NEW g \in 0 .. Len(disp)
  PROVE  /\ Stopped(g) \in Seq(Dispatcher) /\ Len(Stopped(g)) = Len(disp)
         /\ \A h \in 1 .. Len(disp) :
              /\ Remembers(Stopped(g)[h])
              /\ Stopped(g)[h].live <=> h # g /\ disp[h].live
              /\ Stopped(g)[h].fired = disp[h].fired /\ Stopped(g)[h].last = disp[h].last
              /\ Stopped(g)[h].first = disp[h].first
<1>1. disp \in Seq(Dispatcher) /\ DOMAIN disp = 1 .. Len(disp) /\ Len(disp) \in Nat
  BY DEF TypeOK
<1>2. CASE g = 0
  BY <1>1, <1>2, DispatchersRemember DEF Stopped
<1>3. CASE g # 0
  <2>. DEFINE e == [disp[g] EXCEPT !.live = FALSE]
  <2>1. g \in 1 .. Len(disp) /\ Remembers(disp[g])
    BY <1>1, <1>3, DispatchersRemember
  <2>2. /\ e \in Dispatcher /\ ~e.live /\ e.fired = disp[g].fired /\ e.last = disp[g].last
        /\ e.first = disp[g].first /\ e.seen = disp[g].seen
    BY <2>1 DEF Remembers, Dispatcher
  <2>3. Remembers(e)
    BY <2>1, <2>2 DEF Remembers
  <2>4. Stopped(g) = [disp EXCEPT ![g] = e]
    BY <1>1, <1>3, <2>1 DEF Stopped
  <2>. HIDE DEF e
  <2>5. /\ Stopped(g) \in Seq(Dispatcher) /\ Len(Stopped(g)) = Len(disp)
        /\ \A h \in 1 .. Len(disp) : Stopped(g)[h] = IF h = g THEN e ELSE disp[h]
    BY <1>1, <2>1, <2>2, <2>4, ExceptSeq
  <2>. QED  BY <1>1, <2>2, <2>3, <2>5, DispatchersRemember
<1>. QED  BY <1>2, <1>3

\* A save keeps the memory of every dispatcher and gives the new one none.
LEMMA SwapOK ==
  ASSUME TypeOK, NEW on \in BOOLEAN, SwapDispatcher(on)
  PROVE  /\ UNCHANGED <<config, clock, attempts, task, left, over, raced>>
         /\ disp' \in Seq(Dispatcher) /\ Len(disp') >= Len(disp) /\ Len(disp') <= MaxGen
         /\ current' \in 0 .. Len(disp')
         /\ \A h \in 1 .. Len(disp') :
              /\ Remembers(disp'[h])
              /\ h <= Len(disp) =>
                   /\ disp'[h].live => h # current /\ disp[h].live
                   /\ disp'[h].fired = disp[h].fired /\ disp'[h].last = disp[h].last
                   /\ disp'[h].first = disp[h].first
              /\ h > Len(disp) =>
                   /\ h = current'
                   /\ \A ip \in IP : disp'[h].fired[ip] = -1 /\ disp'[h].last[ip] = -1
                   /\ \A c \in Country : disp'[h].first[c] = 0
<1>. DEFINE old == Stopped(current)
<1>1. /\ old \in Seq(Dispatcher) /\ Len(old) = Len(disp) /\ Len(disp) \in Nat
      /\ \A h \in 1 .. Len(disp) :
           /\ Remembers(old[h])
           /\ old[h].live <=> h # current /\ disp[h].live
           /\ old[h].fired = disp[h].fired /\ old[h].last = disp[h].last
           /\ old[h].first = disp[h].first
  <2>1. Len(disp) \in Nat /\ current \in 0 .. Len(disp)
    BY DEF TypeOK
  <2>. QED  BY <2>1, StoppedOK
<1>2. UNCHANGED <<config, clock, attempts, task, left, over, raced>>
  BY DEF SwapDispatcher
<1>. HIDE DEF old
<1>3. CASE on
  <2>1. disp' = Append(old, NewDispatcher) /\ Len(disp) < MaxGen /\ current' = Len(disp) + 1
    BY <1>3 DEF SwapDispatcher, old
  <2>2. /\ Remembers(NewDispatcher)
        /\ \A ip \in IP : NewDispatcher.fired[ip] = -1 /\ NewDispatcher.last[ip] = -1
        /\ \A c \in Country : NewDispatcher.first[c] = 0
    BY NewDispatcherRemembers DEF TypeOK
  <2>3. NewDispatcher \in Dispatcher
    BY <2>2 DEF Remembers
  <2>4. /\ disp' \in Seq(Dispatcher) /\ Len(disp') = Len(disp) + 1
        /\ \A h \in 1 .. Len(disp) : disp'[h] = old[h]
        /\ disp'[Len(disp) + 1] = NewDispatcher
    BY <1>1, <2>1, <2>3, AppendProperties
  <2>5. MaxGen \in Nat
    BY NotifyAssumption
  <2>6. \A h \in 1 .. Len(disp') : h <= Len(disp) \/ h = Len(disp) + 1
    BY <1>1, <2>4
  <2>. QED  BY <1>1, <1>2, <2>1, <2>2, <2>4, <2>5, <2>6
<1>4. CASE ~on
  <2>1. disp' = old /\ current' = 0
    BY <1>4 DEF SwapDispatcher, old
  <2>2. Len(disp) <= MaxGen
    BY DEF TypeOK
  <2>. QED  BY <1>1, <1>2, <2>1, <2>2
<1>. QED  BY <1>3, <1>4

LEMMA GoOK ==
  ASSUME TypeOK, NEW r, Go(r)
  PROVE  \E t \in Task \ Used : task' = [task EXCEPT ![t] = r]
BY DEF Go, Used

LEMMA GoroutineNew ==
  ASSUME TypeOK, current # 0, NEW kind \in {"event", "alert", "test", "digest"},
         NEW ev \in Event \cup {NoEvent}, NEW budget \in Nat
  PROVE  LET r == Goroutine(kind, ev, budget)
         IN  /\ GoroutineOK(r)
             /\ r.kind = kind /\ r.pc = (IF kind = "event" THEN "start" ELSE "send")
             /\ r.g = current /\ r.ev = ev /\ r.ch = 1 /\ r.got = {}
             /\ ~r.failed /\ ~r.short /\ ~r.due /\ ~r.cut
<1>1. current \in DOMAIN disp /\ 1 \in DOMAIN Rules /\ 1 \in DOMAIN Channels /\ 0 \in 0 .. clock
  BY ConfigOK DEF TypeOK
<1>. QED  BY <1>1 DEF Goroutine, GoroutineOK

\* The store forgets no attempt.
LEMMA EventOK ==
  ASSUME TypeOK, NEW ev \in Event, NotifyEvent(ev)
  PROVE  /\ UNCHANGED <<config, clock, current, disp, over, raced>>
         /\ attempts' \in [IP -> SUBSET (Nat \X Nat)]
         /\ \A ip \in IP : attempts[ip] \subseteq attempts'[ip] /\ IsFiniteSet(attempts'[ip])
         /\ \/ task' = task
            \/ /\ current # 0
               /\ \E t \in Task \ Used : task' = [task EXCEPT ![t] = Goroutine("event", ev, Budget)]
<1>1. UNCHANGED <<config, clock, current, disp, over, raced>>
  BY DEF NotifyEvent
<1>2. /\ attempts' \in [IP -> SUBSET (Nat \X Nat)]
      /\ \A ip \in IP : attempts[ip] \subseteq attempts'[ip] /\ IsFiniteSet(attempts'[ip])
  <2>1. CASE attempts' = attempts
    BY <2>1 DEF TypeOK
  <2>2. CASE ev.ip # None /\ attempts' = [attempts EXCEPT ![ev.ip] = @ \cup {<<ev.ts, Rank(ev.ts, @)>>}]
    <3>. DEFINE ip == ev.ip
                new == <<ev.ts, Rank(ev.ts, attempts[ip])>>
    <3>1. ip \in IP /\ attempts \in [IP -> SUBSET (Nat \X Nat)] /\ IsFiniteSet(attempts[ip])
      BY <2>2, ConfigOK DEF TypeOK
    <3>2. new \in Nat \X Nat
      <4>1. ev.ts \in Nat
        BY NotifyAssumption DEF Event
      <4>2. {a \in attempts[ip] : a[1] = ev.ts} \in SUBSET attempts[ip]
        OBVIOUS
      <4>3. Cardinality({a \in attempts[ip] : a[1] = ev.ts}) \in Nat
        BY <3>1, <4>2, FS_Subset, FS_CardinalityType
      <4>4. Rank(ev.ts, attempts[ip]) \in Nat
        BY <4>3 DEF Rank
      <4>. QED  BY <4>1, <4>4
    <3>3. attempts' = [attempts EXCEPT ![ip] = attempts[ip] \cup {new}]
      BY <2>2
    <3>. HIDE DEF new
    <3>4. IsFiniteSet(attempts[ip] \cup {new})
      BY <3>1, FS_AddElement
    <3>. QED  BY <3>1, <3>2, <3>3, <3>4 DEF TypeOK
  <2>. QED  BY <2>1, <2>2 DEF NotifyEvent
<1>3. \/ task' = task
      \/ current # 0 /\ Go(Goroutine("event", ev, Budget))
  BY DEF NotifyEvent
<1>. QED  BY <1>1, <1>2, <1>3, GoOK

LEMMA CarryOK ==
  ASSUME TypeOK, SendAlert \/ NotifyTest \/ DigestFires
  PROVE  /\ UNCHANGED <<config, clock, attempts, current, disp, over, raced>>
         /\ current # 0
         /\ \E kind \in {"alert", "test", "digest"}, budget \in Nat, t \in Task \ Used :
              task' = [task EXCEPT ![t] = Goroutine(kind, NoEvent, budget)]
<1>1. Budget \in Nat /\ DigestBudget \in Nat
  BY NotifyAssumption
<1>2. PICK kind \in {"alert", "test", "digest"}, budget \in Nat :
        current # 0 /\ Carry(kind, budget)
  BY <1>1 DEF SendAlert, NotifyTest, DigestFires
<1>3. /\ Go(Goroutine(kind, NoEvent, budget))
      /\ UNCHANGED <<config, clock, attempts, current, disp, over, raced>>
  BY <1>2 DEF Carry
<1>. QED  BY <1>2, <1>3, GoOK

\* A goroutine that does nothing is what it was.
LEMMA GoroutineStays ==
  ASSUME TypeOK, config' = config, clock' \in Nat, clock' >= clock,
         DOMAIN disp \subseteq DOMAIN disp', NEW r, GoroutineOK(r)
  PROVE  GoroutineOK(r)'
<1>1. clock \in Nat
  BY DEF TypeOK
<1>2. /\ DOMAIN r = Field
      /\ r.pc \in {"start", "rule", "count", "store", "send", "wait", "retry", "session", "done"}
      /\ r.kind \in {"event", "alert", "test", "digest"}
      /\ r.left \in Nat
      /\ {r.failed, r.short, r.due, r.cut} \subseteq BOOLEAN
  BY DEF GoroutineOK, Field
<1>3. r.g \in DOMAIN disp'
  BY DEF GoroutineOK
<1>4. r.now \in 0 .. clock'
  BY <1>1 DEF GoroutineOK
<1>5. /\ r.ev \in Event' \cup {NoEvent} /\ r.rule \in DOMAIN Rules'
      /\ r.ch \in DOMAIN Channels' /\ r.got \subseteq ToSet(Channels')
  BY DEF GoroutineOK, Event, Rules, Channels
<1>. QED  BY <1>2, <1>3, <1>4, <1>5 DEF GoroutineOK, Field

LEMMA TypeStep ==
  ASSUME TypeInv, config' = config, clock' \in 0 .. MaxClock, clock' >= clock,
         attempts' \in [IP -> SUBSET (Nat \X Nat)], \A ip \in IP : IsFiniteSet(attempts'[ip]),
         disp' \in Seq(Dispatcher), Len(disp') >= Len(disp), Len(disp') <= MaxGen,
         \A h \in DOMAIN disp' : Remembers(disp'[h]),
         current' \in 0 .. Len(disp'),
         \/ task' = task
         \/ \E t \in Task :
              \E r : /\ task' = [task EXCEPT ![t] = r]
                     /\ r = Idle \/ (GoroutineOK(r) /\ Asking(r))
  PROVE  TypeInv'
<1>1. TypeOK /\ DOMAIN task = Task
  BY DEF TypeInv, TypeOK
<1>2. clock' \in Nat /\ DOMAIN disp \subseteq DOMAIN disp' /\ Rules' = Rules
  BY <1>1, NotifyAssumption DEF TypeOK, Rules
<1>3. ASSUME NEW r, GoroutineOK(r), Asking(r)
      PROVE  GoroutineOK(r)' /\ Asking(r)'
  <2>1. GoroutineOK(r)'
    BY <1>1, <1>2, <1>3, GoroutineStays
  <2>2. Asking(r)'
    BY <1>2, <1>3 DEF Asking
  <2>. QED  BY <2>1, <2>2
<1>4. DOMAIN task' = Task
  BY <1>1
<1>5. ASSUME NEW u \in Task, task'[u].pc # "idle"
      PROVE  GoroutineOK(task[u])' /\ Asking(task[u])'
  <2>1. PICK r : r = task'[u]
    OBVIOUS
  <2>2. Idle.pc = "idle"
    BY DEF Idle
  <2>3. CASE task'[u] = task[u]
    <3>1. u \in Used
      BY <1>5, <2>3 DEF Used
    <3>2. GoroutineOK(r) /\ Asking(r)
      BY <1>1, <2>1, <2>3, <3>1, UsedTask DEF TypeInv
    <3>3. GoroutineOK(r)' /\ Asking(r)'
      BY <1>3, <3>2
    <3>. QED  BY <2>1, <3>3
  <2>4. CASE task'[u] # task[u]
    <3>1. GoroutineOK(r) /\ Asking(r)
      BY <1>1, <1>5, <2>1, <2>2, <2>4
    <3>2. GoroutineOK(r)' /\ Asking(r)'
      BY <1>3, <3>1
    <3>. QED  BY <2>1, <3>2
  <2>. QED  BY <2>3, <2>4
<1>6. \A t \in Used' : GoroutineOK(task[t])' /\ Asking(task[t])'
  BY <1>5 DEF Used
<1>7. TypeOK'
  BY <1>1, <1>2, <1>4, <1>6 DEF TypeOK, Remembers
<1>. QED  BY <1>6, <1>7 DEF TypeInv

LEMMA GoroutineType == ASSUME TypeInv, NEW t \in Task, GoroutineStep(t) PROVE TypeInv'
<1>. DEFINE Steps ==
       \/ task' = task
       \/ \E u \in Task :
            \E r : /\ task' = [task EXCEPT ![u] = r]
                   /\ r = Idle \/ (GoroutineOK(r) /\ Asking(r))
<1>1. t \in Used
  BY DEF GoroutineStep, Start, MatchType, MatchCountry, ThresholdLoad, ThresholdCount,
         ThresholdStore, SendFails, Post, Wait, Dial, Session, Done, AtRule, Used
<1>2. TypeOK /\ GoroutineOK(task[t]) /\ task[t].g \in DOMAIN disp
  BY <1>1, UsedTask DEF TypeInv, GoroutineOK
<1>3. ASSUME Still, Steps,
             disp' \in Seq(Dispatcher), Len(disp') = Len(disp),
             \A h \in DOMAIN disp' : Remembers(disp'[h])
      PROVE  TypeInv'
  <2>1. /\ config' = config /\ clock' \in 0 .. MaxClock /\ clock' >= clock
        /\ attempts' \in [IP -> SUBSET (Nat \X Nat)] /\ \A ip \in IP : IsFiniteSet(attempts'[ip])
        /\ Len(disp') >= Len(disp) /\ Len(disp') <= MaxGen /\ current' \in 0 .. Len(disp')
    BY <1>2, <1>3, NotifyAssumption DEF TypeOK, Still
  <2>. QED  BY <1>3, <2>1, TypeStep
<1>. HIDE DEF Steps
<1>4. /\ disp \in Seq(Dispatcher) /\ \A h \in DOMAIN disp : Remembers(disp[h])
  BY <1>2, DispatchersRemember DEF TypeOK
<1>5. CASE SendFails(t) \/ Post(t) \/ Wait(t) \/ Dial(t) \/ Session(t)
  <2>1. Still /\ disp' = disp /\ Steps
    BY <1>1, <1>2, <1>5, DeliveryEffect DEF Steps, Used, TurnsInto
  <2>. QED  BY <1>3, <1>4, <2>1
<1>6. CASE Start(t) \/ MatchType(t) \/ ThresholdLoad(t) \/ ThresholdCount(t)
  <2>1. Still /\ disp' = disp /\ Steps
    BY <1>1, <1>6, RuleEffect DEF Steps, Used, TurnsInto
  <2>. QED  BY <1>3, <1>4, <2>1
<1>7. CASE MatchCountry(t)
  <2>1. Still /\ Steps
    BY <1>1, <1>7, CountryEffect DEF Steps, Used, TurnsInto
  <2>2. \/ disp' = disp
        \/ \E e : Remembers(e) /\ disp' = [disp EXCEPT ![task[t].g] = e]
    <3>1. \/ disp' = disp
          \/ \E c \in Country \ disp[task[t].g].seen : Announced(task[t].g, c)
      BY <1>1, <1>7, CountryEffect
    <3>2. ASSUME NEW c \in Country \ disp[task[t].g].seen, Announced(task[t].g, c)
          PROVE  \E e : Remembers(e) /\ disp' = [disp EXCEPT ![task[t].g] = e]
      BY <1>2, <3>2, SeenChanges
    <3>. QED  BY <3>1, <3>2
  <2>3. /\ disp' \in Seq(Dispatcher) /\ Len(disp') = Len(disp)
        /\ \A h \in DOMAIN disp' : Remembers(disp'[h])
    BY <1>2, <1>4, <2>2, OneChanges
  <2>. QED  BY <1>3, <2>1, <2>3
<1>8. CASE ThresholdStore(t)
  <2>. DEFINE r == task[t]
  <2>1. Still /\ Steps
    BY <1>1, <1>8, StoreEffect DEF Steps, Used, TurnsInto
  <2>2. r.ev.ip \in IP /\ r.now \in Nat
    BY <1>1, <1>2, <1>8, StoreEffect DEF GoroutineOK, TypeOK
  <2>3. PICK m \in Int :
          /\ m >= task[t].now
          /\ Recorded(task[t].g, task[t].ev.ip, task[t].now, m)
    BY <1>1, <1>8, StoreEffect
  <2>4. \E e : Remembers(e) /\ disp' = [disp EXCEPT ![r.g] = e]
    BY <1>2, <2>2, <2>3, FiredChanges
  <2>5. /\ disp' \in Seq(Dispatcher) /\ Len(disp') = Len(disp)
        /\ \A h \in DOMAIN disp' : Remembers(disp'[h])
    BY <1>2, <2>4, OneChanges
  <2>. QED  BY <1>3, <2>1, <2>5
<1>9. CASE Done(t)
  <2>1. Still /\ disp' = disp /\ Steps
    BY <1>9 DEF Done, Keep, Same, Still, Steps
  <2>. QED  BY <1>3, <1>4, <2>1
<1>. QED
  BY <1>5, <1>6, <1>7, <1>8, <1>9 DEF GoroutineStep

LEMMA InitType == Init => TypeInv
<1>. SUFFICES ASSUME Init
              PROVE  TypeInv
  OBVIOUS
<1>1. clock \in 0 .. MaxClock /\ clock \in Nat /\ N \in Nat
  BY NotifyAssumption DEF Init
<1>2. /\ attempts \in [IP -> SUBSET (Nat \X Nat)]
      /\ \A ip \in IP : IsFiniteSet(attempts[ip])
  <2>1. IsFiniteSet({0})
    BY FS_Singleton
  <2>4. 1 \in Int /\ N - 1 \in Int
    BY <1>1
  <2>5. IsFiniteSet(1 .. N - 1)
    BY <2>4, FS_Interval
  <2>2. IsFiniteSet({0} \X (1 .. N - 1))
    BY <2>1, <2>5, FS_Product
  <2>3. {0} \X (1 .. N - 1) \subseteq Nat \X Nat
    BY <1>1
  <2>. QED  BY <2>2, <2>3 DEF Init
<1>3. disp \in Seq(Dispatcher) /\ Len(disp) = 1 /\ disp[1] = NewDispatcher
  <2>1. NewDispatcher \in Dispatcher
    BY <1>1, NewDispatcherRemembers DEF Remembers
  <2>. QED  BY <2>1 DEF Init
<1>4. \A h \in DOMAIN disp : Remembers(disp[h])
  <2>1. \A h \in DOMAIN disp : disp[h] = NewDispatcher
    BY <1>3
  <2>. QED  BY <1>1, <2>1, NewDispatcherRemembers
<1>5. DOMAIN task = Task /\ Used = {}
  BY DEF Init, Used, Idle
<1>6. MaxGen \in Nat /\ MaxGen >= 1
  BY NotifyAssumption
<1>7. /\ config \in Configs /\ clock \in 0 .. MaxClock /\ current \in 0 .. Len(disp)
      /\ Len(disp) <= MaxGen
  BY <1>1, <1>3, <1>6 DEF Init
<1>. QED  BY <1>2, <1>3, <1>4, <1>5, <1>7 DEF TypeInv, TypeOK, Remembers

LEMMA NextType == TypeInv /\ [Next]_vars => TypeInv'
<1>. SUFFICES ASSUME TypeInv, [Next]_vars
              PROVE  TypeInv'
  OBVIOUS
<1>1. TypeOK
  BY DEF TypeInv
<1>10. clock \in 0 .. MaxClock /\ clock \in Nat /\ MaxClock \in Nat
  BY <1>1, NotifyAssumption DEF TypeOK
<1>11. config' = config
  BY DEF Next, Tick, SwapDispatcher, NotifyEvent, SendAlert, NotifyTest, DigestFires, Carry,
      GoroutineStep, Start, MatchType, MatchCountry, ThresholdLoad, ThresholdCount,
      ThresholdStore, SendFails, Post, Wait, Dial, Session, Done, Keep, Same, vars
<1>2. /\ config' = config /\ clock \in 0 .. MaxClock /\ clock \in Nat /\ MaxClock \in Nat
  BY <1>10, <1>11
<1>3. /\ attempts \in [IP -> SUBSET (Nat \X Nat)] /\ \A ip \in IP : IsFiniteSet(attempts[ip])
      /\ disp \in Seq(Dispatcher) /\ Len(disp) \in Nat /\ Len(disp) <= MaxGen
      /\ \A h \in DOMAIN disp : Remembers(disp[h])
      /\ current \in 0 .. Len(disp)
  BY <1>1, DispatchersRemember DEF TypeOK
<1>4. CASE UNCHANGED vars
  BY <1>2, <1>3, <1>4, TypeStep DEF vars
<1>5. CASE Tick
  BY <1>2, <1>3, <1>5, TypeStep DEF Tick
<1>6. ASSUME NEW on \in BOOLEAN, SwapDispatcher(on)
      PROVE  TypeInv'
  <2>1. \A h \in DOMAIN disp' : Remembers(disp'[h])
    BY <1>1, <1>6, SwapOK
  <2>. QED  BY <1>1, <1>2, <1>3, <1>6, <2>1, SwapOK, TypeStep
<1>7. ASSUME NEW ev \in Event, NotifyEvent(ev)
      PROVE  TypeInv'
  <2>1. ASSUME current # 0
        PROVE  /\ GoroutineOK(Goroutine("event", ev, Budget))
               /\ Asking(Goroutine("event", ev, Budget))
    BY <1>1, <2>1, GoroutineNew, NotifyAssumption DEF Asking
  <2>. QED  BY <1>1, <1>2, <1>3, <1>7, <2>1, EventOK, TypeStep
<1>8. CASE SendAlert \/ NotifyTest \/ DigestFires
  <2>1. ASSUME NEW kind \in {"alert", "test", "digest"}, NEW budget \in Nat, current # 0
        PROVE  /\ GoroutineOK(Goroutine(kind, NoEvent, budget))
               /\ Asking(Goroutine(kind, NoEvent, budget))
    BY <1>1, <2>1, GoroutineNew DEF Asking
  <2>. QED  BY <1>1, <1>2, <1>3, <1>8, <2>1, CarryOK, TypeStep
<1>9. ASSUME NEW t \in Task, GoroutineStep(t)
      PROVE  TypeInv'
  BY <1>9, GoroutineType
<1>. QED  BY <1>4, <1>5, <1>6, <1>7, <1>8, <1>9 DEF Next

LEMMA TypeInvariant == Spec => []TypeInv
BY InitType, NextType, PTL DEF Spec

\* A dispatcher's memory, the attempts and what each goroutine carries keep
\* their types; and a dispatcher remembers what it has announced.
THEOREM TypeCorrect == Spec => []TypeOK
<1>1. TypeInv => TypeOK
  BY DEF TypeInv
<1>. QED  BY <1>1, TypeInvariant, PTL

-----------------------------------------------------------------------------
(* What the steps do to the memories and to the goroutines.                *)

Starts(r) ==
  /\ GoroutineOK(r)
  /\ r.pc = (IF r.kind = "event" THEN "start" ELSE "send") /\ r.g = current
  /\ r.ch = 1 /\ r.got = {} /\ ~r.failed /\ ~r.short /\ ~r.due /\ ~r.cut

External ==
  \/ Tick \/ SendAlert \/ NotifyTest \/ DigestFires \/ UNCHANGED vars
  \/ \E on \in BOOLEAN : SwapDispatcher(on)
  \/ \E ev \in Event : NotifyEvent(ev)

LEMMA Steps == [Next]_vars => External \/ \E t \in Task : GoroutineStep(t)
BY DEF Next, External

\* A step that is no goroutine's: the memories and the attempts are kept, a new
\* dispatcher has announced nothing, and at most one goroutine starts.
LEMMA Elsewhere ==
  ASSUME TypeInv, External
  PROVE  /\ UNCHANGED <<config, over, raced>>
         /\ \A ip \in IP : attempts[ip] \subseteq attempts'[ip]
         /\ DOMAIN disp \subseteq DOMAIN disp'
         /\ \A h \in DOMAIN disp :
              /\ disp'[h].fired = disp[h].fired /\ disp'[h].last = disp[h].last
              /\ disp'[h].first = disp[h].first
         /\ \A h \in DOMAIN disp' \ DOMAIN disp :
              /\ \A ip \in IP : disp'[h].fired[ip] = -1 /\ disp'[h].last[ip] = -1
              /\ \A c \in Country : disp'[h].first[c] = 0
         /\ \/ task' = task
            \/ \E t \in Task \ Used, r \in {task'[u] : u \in Task} :
                 task' = [task EXCEPT ![t] = r] /\ Starts(r)
<1>. DEFINE Starting == \/ task' = task
                        \/ \E t \in Task \ Used, r \in {task'[u] : u \in Task} :
                             task' = [task EXCEPT ![t] = r] /\ Starts(r)
<1>1. TypeOK /\ DOMAIN disp = 1 .. Len(disp) /\ Len(disp) \in Nat /\ DOMAIN task = Task
  BY DEF TypeInv, TypeOK
<1>2. ASSUME NEW t \in Task \ Used, NEW r, Starts(r), task' = [task EXCEPT ![t] = r]
      PROVE  Starting
  <2>1. r = task'[t]
    BY <1>1, <1>2
  <2>. QED  BY <1>2, <2>1
<1>. HIDE DEF Starting
<1>3. CASE Tick \/ UNCHANGED vars
  BY <1>3 DEF Tick, vars
<1>4. CASE SendAlert \/ NotifyTest \/ DigestFires
  <2>1. PICK kind \in {"alert", "test", "digest"}, budget \in Nat, t \in Task \ Used :
          task' = [task EXCEPT ![t] = Goroutine(kind, NoEvent, budget)]
    BY <1>1, <1>4, CarryOK
  <2>2. current # 0 /\ UNCHANGED <<config, attempts, disp, over, raced>>
    BY <1>1, <1>4, CarryOK
  <2>3. Starts(Goroutine(kind, NoEvent, budget))
    BY <1>1, <2>2, GoroutineNew DEF Starts
  <2>4. Starting
    BY <1>2, <2>1, <2>3
  <2>. QED  BY <2>2, <2>4 DEF Starting
<1>5. ASSUME NEW on \in BOOLEAN, SwapDispatcher(on)
      PROVE  /\ UNCHANGED <<config, attempts, task, over, raced>>
             /\ DOMAIN disp \subseteq DOMAIN disp'
             /\ \A h \in DOMAIN disp :
                  /\ disp'[h].fired = disp[h].fired /\ disp'[h].last = disp[h].last
                  /\ disp'[h].first = disp[h].first
             /\ \A h \in DOMAIN disp' \ DOMAIN disp :
                  /\ \A ip \in IP : disp'[h].fired[ip] = -1 /\ disp'[h].last[ip] = -1
                  /\ \A c \in Country : disp'[h].first[c] = 0
  <2>1. /\ disp' \in Seq(Dispatcher) /\ Len(disp') >= Len(disp)
        /\ UNCHANGED <<config, attempts, task, over, raced>>
    BY <1>1, <1>5, SwapOK
  <2>2. DOMAIN disp' = 1 .. Len(disp') /\ Len(disp') \in Nat
    BY <2>1
  <2>3. \A h \in 1 .. Len(disp') :
          /\ h <= Len(disp) =>
               /\ disp'[h].fired = disp[h].fired /\ disp'[h].last = disp[h].last
               /\ disp'[h].first = disp[h].first
          /\ h > Len(disp) =>
               /\ \A ip \in IP : disp'[h].fired[ip] = -1 /\ disp'[h].last[ip] = -1
               /\ \A c \in Country : disp'[h].first[c] = 0
    BY <1>1, <1>5, SwapOK
  <2>. QED  BY <1>1, <2>1, <2>2, <2>3
<1>6. ASSUME NEW ev \in Event, NotifyEvent(ev)
      PROVE  /\ UNCHANGED <<config, disp, over, raced>> /\ Starting
             /\ \A ip \in IP : attempts[ip] \subseteq attempts'[ip]
  <2>1. /\ UNCHANGED <<config, disp, over, raced>>
        /\ \A ip \in IP : attempts[ip] \subseteq attempts'[ip]
        /\ \/ task' = task
           \/ /\ current # 0
              /\ \E t \in Task \ Used : task' = [task EXCEPT ![t] = Goroutine("event", ev, Budget)]
    BY <1>1, <1>6, EventOK
  <2>2. current # 0 => Starts(Goroutine("event", ev, Budget))
    BY <1>1, GoroutineNew, NotifyAssumption DEF Starts
  <2>3. Starting
    BY <1>2, <2>1, <2>2 DEF Starting
  <2>. QED  BY <2>1, <2>3
<1>. QED  BY <1>3, <1>4, <1>5, <1>6 DEF Starting, External

\* The step of a goroutine, and what it leaves of the others and of the memories.
LEMMA GoroutineEffect ==
  ASSUME TypeInv, NEW t \in Task, GoroutineStep(t)
  PROVE  /\ t \in Used /\ Still /\ DOMAIN disp' = DOMAIN disp
         /\ \A u \in Task \ {t} : task'[u] = task[u]
         /\ \/ Done(t) /\ task'[t].pc = "idle"
            \/ /\ GoroutineOK(task'[t])
               /\ \/ Passes(task[t], task'[t]) \/ Loads(task[t], task'[t])
                  \/ Exceeds(task[t], task'[t]) \/ Fails(task[t], task'[t])
                  \/ Matches(task[t], task'[t]) /\ task[t].pc \in {"rule", "store"}
                  \/ Pauses(task[t], task'[t]) /\ task[t].pc \in Delivering
                  \/ Sends(t, task'[t]) /\ task[t].pc \in Delivering
         /\ \A h \in DOMAIN disp :
              /\ disp'[h].live = disp[h].live
              /\ \A ip \in IP : disp'[h].last[ip] >= disp[h].last[ip]
<1>. DEFINE r == task[t]
            Now(s) ==
              \/ Passes(r, s) \/ Loads(r, s) \/ Exceeds(r, s) \/ Fails(r, s)
              \/ Matches(r, s) /\ r.pc \in {"rule", "store"}
              \/ Pauses(r, s) /\ r.pc \in Delivering
              \/ Sends(t, s) /\ r.pc \in Delivering
            Memory == \A h \in DOMAIN disp :
                        /\ disp'[h].live = disp[h].live
                        /\ \A ip \in IP : disp'[h].last[ip] >= disp[h].last[ip]
<1>1. t \in Used
  BY DEF GoroutineStep, Start, MatchType, MatchCountry, ThresholdLoad, ThresholdCount,
         ThresholdStore, SendFails, Post, Wait, Dial, Session, Done, AtRule, Used
<1>2. TypeOK /\ GoroutineOK(r) /\ r.g \in DOMAIN disp /\ DOMAIN task = Task
  BY <1>1, UsedTask DEF TypeInv, TypeOK, GoroutineOK
<1>3. ASSUME NEW s, TurnsInto(t, s), Now(s)
      PROVE  /\ \A u \in Task \ {t} : task'[u] = task[u]
             /\ GoroutineOK(task'[t]) /\ Now(task'[t])
  <2>1. task'[t] = s /\ \A u \in Task \ {t} : task'[u] = task[u]
    BY <1>2, <1>3 DEF TurnsInto
  <2>. HIDE DEF Now
  <2>. QED  BY <1>3, <2>1 DEF TurnsInto
<1>4. disp' = disp => DOMAIN disp' = DOMAIN disp /\ Memory
  <2>1. \A h \in DOMAIN disp : disp[h] \in Dispatcher
    BY <1>2, DispatchersRemember DEF Remembers
  <2>. QED  BY <2>1 DEF Dispatcher
<1>5. ASSUME NEW e, Remembers(e), disp' = [disp EXCEPT ![r.g] = e],
             e.live = disp[r.g].live, \A ip \in IP : e.last[ip] >= disp[r.g].last[ip]
      PROVE  DOMAIN disp' = DOMAIN disp /\ Memory
  <2>1. /\ DOMAIN disp' = DOMAIN disp /\ disp'[r.g] = e
        /\ \A h \in DOMAIN disp \ {r.g} : disp'[h] = disp[h]
    BY <1>2, <1>5, OneChanges
  <2>2. \A h \in DOMAIN disp : disp[h] \in Dispatcher
    BY <1>2, DispatchersRemember DEF Remembers
  <2>. QED  BY <1>5, <2>1, <2>2 DEF Dispatcher
<1>6. CASE SendFails(t) \/ Post(t) \/ Wait(t) \/ Dial(t) \/ Session(t)
  <2>1. /\ Still /\ disp' = disp
        /\ \E s : TurnsInto(t, s) /\ Now(s)
    BY <1>1, <1>2, <1>6, DeliveryEffect
  <2>. QED  BY <1>1, <1>3, <1>4, <2>1
<1>7. CASE Start(t) \/ MatchType(t) \/ ThresholdLoad(t) \/ ThresholdCount(t)
  <2>1. /\ Still /\ disp' = disp
        /\ \E s : TurnsInto(t, s) /\ Now(s)
    BY <1>1, <1>7, RuleEffect
  <2>. QED  BY <1>1, <1>3, <1>4, <2>1
<1>8. CASE MatchCountry(t)
  <2>1. Still /\ \E s : TurnsInto(t, s) /\ Now(s)
    BY <1>1, <1>8, CountryEffect
  <2>2. disp' = disp \/ \E c \in Country \ disp[r.g].seen : Announced(r.g, c)
    BY <1>1, <1>8, CountryEffect
  <2>3. ASSUME NEW c \in Country \ disp[r.g].seen, Announced(r.g, c)
        PROVE  DOMAIN disp' = DOMAIN disp /\ Memory
    <3>1. PICK e : /\ Remembers(e) /\ disp' = [disp EXCEPT ![r.g] = e]
                   /\ e.live = disp[r.g].live /\ e.last = disp[r.g].last
      BY <1>2, <2>3, SeenChanges
    <3>2. e.last \in [IP -> Int]
      BY <3>1 DEF Remembers, Dispatcher
    <3>3. \A ip \in IP : e.last[ip] >= disp[r.g].last[ip]
      BY <3>1, <3>2
    <3>. HIDE DEF Memory
    <3>. QED  BY <1>5, <3>1, <3>3
  <2>. QED  BY <1>1, <1>3, <1>4, <2>1, <2>2, <2>3
<1>9. CASE ThresholdStore(t)
  <2>1. Still /\ \E s : TurnsInto(t, s) /\ Now(s)
    BY <1>1, <1>9, StoreEffect
  <2>2. r.ev.ip \in IP /\ r.now \in Nat
    BY <1>1, <1>2, <1>9, StoreEffect DEF GoroutineOK, TypeOK
  <2>3. PICK m \in Int : /\ m >= disp[r.g].last[r.ev.ip] /\ m >= r.now
                         /\ Recorded(r.g, r.ev.ip, r.now, m)
    BY <1>1, <1>9, StoreEffect
  <2>4. PICK e : /\ Remembers(e) /\ disp' = [disp EXCEPT ![r.g] = e]
                 /\ e.live = disp[r.g].live /\ e.last[r.ev.ip] = m
                 /\ \A other \in IP \ {r.ev.ip} : e.last[other] = disp[r.g].last[other]
    BY <1>2, <2>2, <2>3, FiredChanges
  <2>5. e.last \in [IP -> Int]
    BY <2>4 DEF Remembers, Dispatcher
  <2>6. \A ip \in IP : e.last[ip] >= disp[r.g].last[ip]
    BY <2>2, <2>3, <2>4, <2>5
  <2>7. DOMAIN disp' = DOMAIN disp /\ Memory
    <3>. HIDE DEF Memory
    <3>. QED  BY <1>5, <2>4, <2>6
  <2>. QED  BY <1>1, <1>3, <2>1, <2>7
<1>10. CASE Done(t)
  <2>1. /\ Still /\ disp' = disp /\ task'[t] = Idle
        /\ \A u \in Task \ {t} : task'[u] = task[u]
    BY <1>2, <1>10 DEF Done, Keep, Same, Still
  <2>. QED  BY <1>1, <1>4, <1>10, <2>1 DEF Idle
<1>. QED  BY <1>6, <1>7, <1>8, <1>9, <1>10 DEF GoroutineStep

-----------------------------------------------------------------------------
(* An IP at its limit is announced.                                        *)

\* What a goroutine has found of an IP that was at its limit still holds: until
\* it has counted, the attempts are there; after that, an alert on the IP is
\* recorded.  Attempts are never taken away, and the latest alert only moves on.
Due(r) ==
  /\ r.due => r.ev.ip \in IP
  /\ r.pc = "start" => ~r.due
  /\ r.pc = "count" /\ r.due => CountIPEvents(r.ev.ip, r.now - Window) >= N
  /\ r.pc \notin {"count", "store"} /\ r.due /\ ~r.cut
       => disp[r.g].last[r.ev.ip] > r.now - Window

DueInv == \A t \in Used : Due(task[t])

LEMMA CountGrows ==
  ASSUME TypeOK, TypeOK', NEW ip \in IP, attempts[ip] \subseteq attempts'[ip], NEW since
  PROVE  /\ CountIPEvents(ip, since) \in Nat /\ CountIPEvents(ip, since)' \in Nat
         /\ CountIPEvents(ip, since)' >= CountIPEvents(ip, since)
<1>. DEFINE S == {a \in attempts[ip] : a[1] >= since}
            T == {a \in attempts'[ip] : a[1] >= since}
<1>1. IsFiniteSet(attempts'[ip])
  BY DEF TypeOK
<1>2. S \subseteq T /\ T \subseteq attempts'[ip]
  OBVIOUS
<1>3. IsFiniteSet(T)
  BY <1>1, <1>2, FS_Subset
<1>4. IsFiniteSet(S) /\ Cardinality(S) <= Cardinality(T)
  BY <1>2, <1>3, FS_Subset
<1>5. Cardinality(S) \in Nat /\ Cardinality(T) \in Nat
  BY <1>3, <1>4, FS_CardinalityType
<1>. QED  BY <1>4, <1>5 DEF CountIPEvents

LEMMA LastTyped ==
  ASSUME TypeOK, NEW g \in DOMAIN disp
  PROVE  /\ \A ip \in IP : disp[g].last[ip] \in Int /\ disp[g].fired[ip] \in Int
         /\ \A c \in Country : disp[g].first[c] \in Nat
BY DispatchersRemember DEF Remembers, Dispatcher

\* A goroutine that is past a rule keeps what it knows.
LEMMA DueCarries ==
  ASSUME TypeOK, TypeOK', NEW r, NEW s, GoroutineOK(r), Due(r),
         r.pc \notin {"count", "store"}, s.pc \notin {"start", "count", "store"},
         s.due = r.due, s.ev = r.ev, s.now = r.now, s.g = r.g, ~s.cut => ~r.cut,
         r.g \in DOMAIN disp',
         \A ip \in IP : disp'[r.g].last[ip] >= disp[r.g].last[ip]
  PROVE  Due(s)'
<1>1. CASE ~s.due
  BY <1>1 DEF Due
<1>2. CASE s.due
  <2>1. r.due /\ r.ev.ip \in IP
    <3>1. r.due
      BY <1>2
    <3>. QED  BY <3>1 DEF Due
  <2>2. CASE s.cut
    BY <2>1, <2>2 DEF Due
  <2>3. CASE ~s.cut
    <3>1. disp[r.g].last[r.ev.ip] > r.now - Window
      BY <2>1, <2>3 DEF Due
    <3>2. disp[r.g].last[r.ev.ip] \in Int /\ disp'[r.g].last[r.ev.ip] \in Int
      <4>1. disp[r.g].last[r.ev.ip] \in Int
        BY <2>1, LastTyped DEF GoroutineOK
      <4>2. disp' \in Seq(Dispatcher)
        BY DEF TypeOK
      <4>3. disp'[r.g] \in Dispatcher
        BY <4>2
      <4>. QED  BY <2>1, <4>1, <4>3 DEF Dispatcher
    <3>3. r.now \in Int /\ Window \in Int
      BY NotifyAssumption DEF GoroutineOK, TypeOK
    <3>4. disp'[r.g].last[r.ev.ip] > r.now - Window
      BY <2>1, <3>1, <3>2, <3>3
    <3>. QED  BY <2>1, <3>4 DEF Due
  <2>. QED  BY <2>2, <2>3
<1>. QED  BY <1>1, <1>2

LEMMA DueElsewhere ==
  ASSUME TypeInv, TypeInv', DueInv, External
  PROVE  DueInv'
<1>1. /\ TypeOK /\ TypeOK' /\ DOMAIN task = Task
      /\ \A ip \in IP : attempts[ip] \subseteq attempts'[ip]
      /\ DOMAIN disp \subseteq DOMAIN disp'
      /\ \A h \in DOMAIN disp : disp'[h].last = disp[h].last
      /\ \/ task' = task
         \/ \E t \in Task \ Used, r \in {task'[u] : u \in Task} :
              task' = [task EXCEPT ![t] = r] /\ Starts(r)
  BY Elsewhere DEF TypeInv, TypeOK
<1>2. ASSUME NEW r, GoroutineOK(r), Due(r)
      PROVE  Due(r)'
  <2>1. CASE r.pc = "start"
    BY <1>2, <2>1 DEF Due
  <2>2. CASE r.pc = "store"
    BY <1>2, <2>2 DEF Due
  <2>3. CASE r.pc = "count"
    <3>1. CASE ~r.due
      BY <2>3, <3>1 DEF Due
    <3>2. CASE r.due
      <4>1. r.ev.ip \in IP /\ CountIPEvents(r.ev.ip, r.now - Window) >= N
        BY <1>2, <2>3, <3>2 DEF Due
      <4>. DEFINE ip == r.ev.ip
                  since == r.now - Window
      <4>. HIDE DEF ip, since
      <4>2. /\ CountIPEvents(ip, since) \in Nat /\ CountIPEvents(ip, since)' \in Nat
            /\ CountIPEvents(ip, since)' >= CountIPEvents(ip, since)
        BY <1>1, <4>1, CountGrows DEF ip
      <4>3. CountIPEvents(ip, since)' >= N
        BY <4>1, <4>2, NotifyAssumption DEF ip, since
      <4>. QED  BY <2>3, <3>2, <4>1, <4>3 DEF Due, ip, since
    <3>. QED  BY <3>1, <3>2
  <2>4. CASE r.pc \notin {"start", "count", "store"}
    <3>1. r.g \in DOMAIN disp /\ r.g \in DOMAIN disp' /\ disp'[r.g].last = disp[r.g].last
      BY <1>1, <1>2 DEF GoroutineOK
    <3>2. \A ip \in IP : disp'[r.g].last[ip] >= disp[r.g].last[ip]
      BY <1>1, <3>1, LastTyped
    <3>. QED  BY <1>1, <1>2, <2>4, <3>1, <3>2, DueCarries
  <2>. QED  BY <2>1, <2>2, <2>3, <2>4
<1>3. ASSUME NEW r, Starts(r)
      PROVE  Due(r)'
  BY <1>3 DEF Starts, Due
<1>4. ASSUME NEW u \in Used'
      PROVE  Due(task[u])'
  <2>1. u \in Task /\ task'[u].pc # "idle"
    BY <1>1 DEF Used
  <2>2. \/ u \in Used /\ task'[u] = task[u]
        \/ Starts(task'[u])
    BY <1>1, <2>1 DEF Used
  <2>3. PICK r : r = task'[u]
    OBVIOUS
  <2>4. Due(r)'
    <3>1. CASE u \in Used /\ task'[u] = task[u]
      <4>1. GoroutineOK(r) /\ Due(r)
        BY <1>1, <2>3, <3>1, UsedTask DEF DueInv
      <4>. QED  BY <1>2, <4>1
    <3>2. CASE Starts(task'[u])
      BY <1>3, <2>3, <3>2
    <3>. QED  BY <2>2, <3>1, <3>2
  <2>. QED  BY <2>3, <2>4 DEF Due
<1>. QED  BY <1>4 DEF DueInv

LEMMA DueGoroutine ==
  ASSUME TypeInv, TypeInv', DueInv, NEW t \in Task, GoroutineStep(t)
  PROVE  DueInv'
<1>1. /\ t \in Used /\ Still /\ DOMAIN disp' = DOMAIN disp
      /\ \A u \in Task \ {t} : task'[u] = task[u]
      /\ \A h \in DOMAIN disp : \A ip \in IP : disp'[h].last[ip] >= disp[h].last[ip]
  BY GoroutineEffect
<1>2. TypeOK /\ TypeOK' /\ DOMAIN task = Task /\ \A u \in Used : Asking(task[u])
  BY DEF TypeInv, TypeOK
<1>3. ASSUME NEW r, GoroutineOK(r), Due(r)
      PROVE  Due(r)'
  <2>1. CASE r.pc \in {"start", "count", "store"}
    BY <1>1, <1>3, <2>1 DEF Due, CountIPEvents, Still
  <2>2. CASE r.pc \notin {"start", "count", "store"}
    <3>1. r.g \in DOMAIN disp /\ r.g \in DOMAIN disp'
      BY <1>1, <1>3 DEF GoroutineOK
    <3>. QED  BY <1>1, <1>2, <1>3, <2>2, <3>1, DueCarries
  <2>. QED  BY <2>1, <2>2
<1>4. ASSUME NEW u \in Used', u # t
      PROVE  Due(task[u])'
  <2>1. u \in Used /\ task'[u] = task[u]
    BY <1>1, <1>4 DEF Used
  <2>2. PICK r : r = task[u]
    OBVIOUS
  <2>3. Due(r)'
    BY <1>2, <1>3, <2>1, <2>2, UsedTask DEF DueInv
  <2>. QED  BY <2>1, <2>2, <2>3 DEF Due
<1>5. ASSUME task'[t].pc # "idle"
      PROVE  Due(task[t])'
  <2>. PICK r : r = task[t]
    OBVIOUS
  <2>. PICK s : s = task'[t]
    OBVIOUS
  <2>1. GoroutineOK(r) /\ Due(r) /\ Asking(r)
    BY <1>1, <1>2, UsedTask DEF DueInv
  <2>2. /\ GoroutineOK(s)
        /\ \/ Passes(r, s) \/ Loads(r, s) \/ Exceeds(r, s) \/ Fails(r, s)
           \/ Matches(r, s) /\ r.pc \in {"rule", "store"}
           \/ Pauses(r, s) /\ r.pc \in Delivering
           \/ Sends(t, s) /\ r.pc \in Delivering
    BY <1>5, GoroutineEffect
  <2>3. r.g \in DOMAIN disp /\ r.g \in DOMAIN disp'
    BY <1>1, <2>1 DEF GoroutineOK
  <2>4. ASSUME r.pc \notin {"count", "store"}, s.pc \notin {"start", "count", "store"},
               s.due = r.due, s.ev = r.ev, s.now = r.now, s.g = r.g, ~s.cut => ~r.cut
        PROVE  Due(s)'
    BY <1>1, <1>2, <2>1, <2>3, <2>4, DueCarries
  <2>5. CASE Passes(r, s)
    <3>1. s.due = r.due /\ s.ev = r.ev /\ s.now = r.now /\ s.g = r.g /\ s.cut = r.cut
      BY <2>5 DEF Passes, SameBut, Field
    <3>2. CASE r.pc \in {"start", "rule"}
      BY <2>4, <2>5, <3>1, <3>2 DEF Passes
    <3>3. CASE r.pc = "count"
      <4>1. CountIPEvents(r.ev.ip, r.now - Window) < N
        BY <2>5, <3>3 DEF Passes
      <4>2. r.ev.ip \in IP
        BY <2>1, <3>3 DEF Asking
      <4>3. PICK since : since = r.now - Window
        OBVIOUS
      <4>4. \A ip \in IP : attempts'[ip] = attempts[ip]
        BY <1>1 DEF Still
      <4>5. CountIPEvents(r.ev.ip, since) \in Nat
        BY <1>1, <1>2, <4>2, <4>4, CountGrows
      <4>6. ~s.due
        BY <2>1, <3>1, <3>3, <4>1, <4>3, <4>5, NotifyAssumption DEF Due
      <4>7. s.pc # "count"
        BY <2>5 DEF Passes
      <4>. QED  BY <4>6, <4>7 DEF Due
    <3>. QED  BY <2>5, <3>2, <3>3 DEF Passes
  <2>6. CASE Loads(r, s)
    <3>1. /\ s.pc = "count" /\ s.now = clock /\ s.ev = r.ev /\ r.ev.ip \in IP
          /\ s.due <=> CountIPEvents(r.ev.ip, clock - Window) >= N
      BY <2>6 DEF Loads, SameBut, Field
    <3>. QED  BY <1>1, <3>1 DEF Due, CountIPEvents, Still
  <2>7. CASE Exceeds(r, s)
    <3>1. s.pc = "store" /\ s.ev = r.ev /\ r.pc = "count"
      BY <2>7 DEF Exceeds, SameBut, Field
    <3>. QED  BY <2>1, <3>1 DEF Due, Asking
  <2>8. CASE Fails(r, s)
    <3>1. s.pc \in {"rule", "done"} /\ s.cut /\ s.ev = r.ev /\ r.pc = "count"
      BY <2>8 DEF Fails, SameBut, Field
    <3>. QED  BY <2>1, <3>1 DEF Due, Asking
  <2>9. CASE Matches(r, s) /\ r.pc \in {"rule", "store"}
    <3>1. /\ s.due = r.due /\ s.ev = r.ev /\ s.now = r.now /\ s.g = r.g /\ s.cut = r.cut
          /\ s.pc = "send"
      BY <2>9 DEF Matches, SameBut, Field
    <3>2. CASE r.pc = "rule"
      BY <2>4, <3>1, <3>2
    <3>3. CASE r.pc = "store"
      <4>1. ThresholdStore(t)
        BY <3>3 DEF GoroutineStep, Start, MatchType, MatchCountry, ThresholdLoad,
                    ThresholdCount, SendFails, Post, Wait, Dial, Session, Done, AtRule
      <4>2. PICK m \in Int : m >= r.now /\ Recorded(r.g, r.ev.ip, r.now, m)
        BY <1>1, <4>1, StoreEffect
      <4>3. r.ev.ip \in IP /\ r.now \in Nat /\ Window \in Nat \ {0}
        BY <1>2, <2>1, <3>3, NotifyAssumption DEF Asking, GoroutineOK, TypeOK
      <4>4. PICK e : /\ Remembers(e) /\ disp' = [disp EXCEPT ![r.g] = e]
                     /\ e.last[r.ev.ip] = m
        BY <1>2, <2>3, <4>2, <4>3, FiredChanges
      <4>5. disp'[r.g].last[r.ev.ip] > r.now - Window
        BY <2>3, <4>2, <4>3, <4>4
      <4>. QED  BY <3>1, <4>3, <4>5 DEF Due
    <3>. QED  BY <2>9, <3>2, <3>3
  <2>10. CASE Pauses(r, s) /\ r.pc \in Delivering
    <3>1. /\ s.due = r.due /\ s.ev = r.ev /\ s.now = r.now /\ s.g = r.g /\ s.cut = r.cut
          /\ s.pc \in {"wait", "retry", "session"}
      BY <2>10 DEF Pauses, SameBut, Field
    <3>. QED  BY <2>4, <2>10, <3>1 DEF Delivering
  <2>11. CASE Sends(t, s) /\ r.pc \in Delivering
    <3>1. PICK ok \in BOOLEAN, spent \in 0 .. r.left : Returned(t, ok, spent, s)
      BY <2>11 DEF Sends
    <3>2. /\ s.due = r.due /\ s.ev = r.ev /\ s.now = r.now /\ s.g = r.g
          /\ s.pc \in {"send", "rule", "done"} /\ (r.cut => s.cut)
      BY <3>1 DEF Returned, SameBut, Field
    <3>. QED  BY <2>4, <2>11, <3>2 DEF Delivering
  <2>12. Due(s)'
    BY <2>2, <2>5, <2>6, <2>7, <2>8, <2>9, <2>10, <2>11
  <2>. QED  BY <2>12 DEF Due
<1>. QED  BY <1>2, <1>4, <1>5 DEF DueInv, Used

\* thresholdRule: when a goroutine that nothing cut short ends, an IP that was at its
\* limit when the rule looked has been announced within the Window before.
THEOREM LimitIsAnnounced == Spec => []OverThresholdIsAnnounced
<1>1. Init => DueInv
  BY DEF Init, DueInv, Used, Idle
<1>2. TypeInv /\ TypeInv' /\ DueInv /\ [Next]_vars => DueInv'
  BY Steps, DueElsewhere, DueGoroutine
<1>3. DueInv => OverThresholdIsAnnounced
  BY DEF DueInv, Due, OverThresholdIsAnnounced
<1>. QED  BY <1>1, <1>2, <1>3, TypeInvariant, PTL DEF Spec

-----------------------------------------------------------------------------
(* A dispatcher that has been replaced.                                    *)

\* Only the dispatcher in force is live: a save stops the one it replaces.
OnlyCurrentLives == \A g \in DOMAIN disp : disp[g].live => g = current

LEMMA OnlyCurrentStays == TypeInv /\ OnlyCurrentLives /\ [Next]_vars => OnlyCurrentLives'
<1>. SUFFICES ASSUME TypeInv, OnlyCurrentLives, [Next]_vars
              PROVE  OnlyCurrentLives'
  OBVIOUS
<1>1. TypeOK
  BY DEF TypeInv
<1>2. ASSUME NEW on \in BOOLEAN, SwapDispatcher(on)
      PROVE  OnlyCurrentLives'
  <2>1. disp' \in Seq(Dispatcher) /\ disp \in Seq(Dispatcher)
    BY <1>1, <1>2, SwapOK DEF TypeOK
  <2>2. /\ DOMAIN disp' = 1 .. Len(disp') /\ Len(disp') \in Nat
        /\ DOMAIN disp = 1 .. Len(disp) /\ Len(disp) \in Nat
    BY <2>1
  <2>3. \A h \in 1 .. Len(disp') :
          /\ h <= Len(disp) => (disp'[h].live => h # current /\ disp[h].live)
          /\ h > Len(disp) => h = current'
    BY <1>1, <1>2, SwapOK
  <2>. QED  BY <2>2, <2>3 DEF OnlyCurrentLives
<1>3. ASSUME disp' = disp, current' = current
      PROVE  OnlyCurrentLives'
  BY <1>3 DEF OnlyCurrentLives
<1>4. ASSUME NEW ev \in Event, NotifyEvent(ev)
      PROVE  OnlyCurrentLives'
  BY <1>3, <1>4 DEF NotifyEvent
<1>5. CASE Tick \/ SendAlert \/ NotifyTest \/ DigestFires \/ UNCHANGED vars
  BY <1>3, <1>5 DEF Tick, SendAlert, NotifyTest, DigestFires, Carry, vars
<1>6. ASSUME NEW t \in Task, GoroutineStep(t)
      PROVE  OnlyCurrentLives'
  <2>1. /\ current' = current /\ DOMAIN disp' = DOMAIN disp
        /\ \A h \in DOMAIN disp : disp'[h].live = disp[h].live
    BY <1>6, GoroutineEffect DEF Still
  <2>. QED  BY <2>1 DEF OnlyCurrentLives
<1>. QED  BY <1>2, <1>4, <1>5, <1>6, Steps DEF External

LEMMA SilenceOfGoroutine ==
  ASSUME TypeInv, OnlyCurrentLives, NEW t \in Task, GoroutineStep(t),
         NEW u \in Used, task[u].kind \in {"event", "digest"}, task[u].g # current,
         task[u].pc # "session"
  PROVE  task'[u].pc = "idle" \/ task'[u].got \subseteq task[u].got
<1>1. /\ GoroutineOK(task[u]) /\ u \in Task
  BY UsedTask DEF TypeInv
<1>2. CASE u # t
  BY <1>1, <1>2, GoroutineEffect
<1>3. CASE u = t /\ task'[t].pc # "idle"
  <2>. DEFINE r == task[t]
              s == task'[t]
  <2>1. ~Alive(t)
    BY <1>1, <1>3 DEF Alive, OnlyCurrentLives, GoroutineOK
  <2>2. \/ Passes(r, s) \/ Loads(r, s) \/ Exceeds(r, s) \/ Fails(r, s)
        \/ Matches(r, s) \/ Pauses(r, s) \/ Sends(t, s)
    BY <1>3, GoroutineEffect
  <2>. HIDE DEF s
  <2>3. CASE Passes(r, s) \/ Loads(r, s) \/ Exceeds(r, s) \/ Fails(r, s) \/ Pauses(r, s)
    <3>1. s.got = r.got
      BY <2>3 DEF Passes, Loads, Exceeds, Fails, Pauses, SameBut, Field
    <3>. QED  BY <1>3, <3>1 DEF s
  <2>4. CASE Matches(r, s)
    BY <1>3, <2>4 DEF Matches, s
  <2>5. CASE Sends(t, s)
    <3>1. PICK spent \in 0 .. r.left : Returned(t, FALSE, spent, s)
      BY <1>3, <2>1, <2>5 DEF Sends
    <3>2. s.got = r.got
      BY <3>1 DEF Returned
    <3>. QED  BY <1>3, <3>2 DEF s
  <2>. QED  BY <2>2, <2>3, <2>4, <2>5
<1>. QED  BY <1>2, <1>3

\* swapDispatcher: a dispatcher that has been replaced delivers no event or digest any
\* more, whatever its goroutines were doing, except through an open SMTP session.
THEOREM ReplacedIsSilent == Spec => ReplacedDispatcherIsSilent
<1>. DEFINE Silent ==
       \A t \in Used :
         /\ task[t].kind \in {"event", "digest"}
         /\ task[t].g # current
         /\ task[t].pc # "session"
         => task'[t].pc = "idle" \/ task'[t].got \subseteq task[t].got
<1>1. Init => OnlyCurrentLives
  BY DEF Init, OnlyCurrentLives
<1>2. TypeInv /\ OnlyCurrentLives /\ [Next]_vars => Silent
  <2>. SUFFICES ASSUME TypeInv, OnlyCurrentLives, [Next]_vars
                PROVE  Silent
    OBVIOUS
  <2>1. ASSUME External
        PROVE  Silent
    <3>1. \/ task' = task
          \/ \E t \in Task \ Used : \E r : task' = [task EXCEPT ![t] = r]
      BY <2>1, Elsewhere
    <3>2. \A u \in Used : u \in DOMAIN task
      BY DEF TypeInv, TypeOK, Used
    <3>3. \A u \in Used : task'[u] = task[u]
      BY <3>1, <3>2
    <3>. QED  BY <3>3
  <2>2. ASSUME NEW t \in Task, GoroutineStep(t)
        PROVE  Silent
    BY <2>2, SilenceOfGoroutine
  <2>. QED  BY <2>1, <2>2, Steps
<1>3. OnlyCurrentLives /\ TypeInv /\ [Next]_vars => [Silent]_vars
  BY <1>2
<1>. QED  BY <1>1, <1>2, TypeInvariant, OnlyCurrentStays, PTL DEF Spec, ReplacedDispatcherIsSilent

-----------------------------------------------------------------------------
(* Messages arrive.                                                        *)

\* Every channel before the one a goroutine is at has the message, if it is in good
\* order and nothing cut the goroutine short, or if a test has noted no error.
Reached(r, c) ==
  /\ ~r.cut /\ c \in Healthy => c \in r.got
  /\ r.kind = "test" /\ ~r.failed => c \in r.got

Delivers(r) ==
  /\ r.kind # "event" => r.pc \notin {"start", "rule", "count", "store"}
  /\ ~r.cut => ~r.short
  /\ r.pc \in Delivering => \A i \in 1 .. r.ch - 1 : Reached(r, Channels[i])
  /\ r.pc = "done" /\ r.kind = "test" /\ ~r.failed => r.got = ToSet(Channels)

DeliveryInv == \A t \in Used : Delivers(task[t])

\* The end of a Send, whether or not it was the last.
LEMMA DeliversOn ==
  ASSUME TypeInv, NEW t \in Used, NEW s, GoroutineOK(s), Delivers(task[t]),
         task[t].pc \in Delivering, Sends(t, s)
  PROVE  Delivers(s)
<1>. PICK r : r = task[t]
  OBVIOUS
<1>1. /\ TypeOK /\ GoroutineOK(r) /\ Delivers(r) /\ r.pc \in Delivering
  BY UsedTask DEF TypeInv
<1>2. PICK ok \in BOOLEAN, spent \in 0 .. r.left :
        /\ Returned(t, ok, spent, s)
        /\ ~ok => Channel(t) \notin Healthy \/ ~Alive(t) \/ spent = r.left
  BY DEF Sends
<1>3. s.kind = r.kind /\ DOMAIN s = Field
  BY <1>2 DEF Returned, SameBut, Field
<1>4. /\ s.cut <=> r.cut \/ (~ok /\ ~Alive(t)) \/ spent = r.left
      /\ s.failed <=> r.kind = "test" /\ (r.failed \/ ~ok)
      /\ s.got = IF ok THEN r.got \cup {Channel(t)} ELSE r.got
  BY <1>2 DEF Returned
<1>5. Reached(s, Channels[r.ch])
  <2>1. Channel(t) = Channels[r.ch]
    BY DEF Channel
  <2>. QED  BY <1>2, <1>3, <1>4, <2>1 DEF Reached
<1>6. \A i \in 1 .. r.ch - 1 : Reached(s, Channels[i])
  <2>1. \A i \in 1 .. r.ch - 1 : Reached(r, Channels[i])
    BY <1>1 DEF Delivers
  <2>. QED  BY <1>3, <1>4, <2>1 DEF Reached
<1>7. /\ r.ch \in 1 .. Len(Channels) /\ Len(Channels) \in Nat
      /\ DOMAIN Channels = 1 .. Len(Channels)
  BY <1>1, ConfigOK DEF GoroutineOK
<1>8. \A i \in 1 .. r.ch : Reached(s, Channels[i])
  <2>1. \A i \in 1 .. r.ch : i \in 1 .. r.ch - 1 \/ i = r.ch
    BY <1>7
  <2>. QED  BY <1>5, <1>6, <2>1
<1>9. ~r.cut => ~r.short
  BY <1>1 DEF Delivers
<1>10. CASE r.ch # Len(Channels)
  <2>1. s.pc = "send" /\ s.ch = r.ch + 1 /\ (s.short <=> r.short)
    BY <1>2, <1>10 DEF Returned
  <2>2. s.ch - 1 = r.ch
    BY <1>7, <2>1
  <2>. QED  BY <1>4, <1>8, <1>9, <2>1, <2>2 DEF Delivers
<1>11. CASE r.ch = Len(Channels)
  <2>1. /\ (s.pc = "rule" /\ r.kind = "event") \/ s.pc = "done"
        /\ s.short <=> r.short \/ (Healthy \cap ToSet(Channels)) \ s.got # {}
    BY <1>2, <1>11 DEF Returned
  <2>2. \A c \in ToSet(Channels) : Reached(s, c)
    BY <1>7, <1>8, <1>11 DEF ToSet
  <2>3. ~s.cut => ~s.short
    BY <1>4, <1>9, <2>1, <2>2 DEF Reached
  <2>4. s.kind = "test" /\ ~s.failed => s.got = ToSet(Channels)
    BY <2>2 DEF Reached, GoroutineOK
  <2>. QED  BY <1>3, <2>1, <2>3, <2>4 DEF Delivers, Delivering
<1>. QED  BY <1>10, <1>11

LEMMA DeliveryStays == TypeInv /\ DeliveryInv /\ [Next]_vars => DeliveryInv'
<1>. SUFFICES ASSUME TypeInv, DeliveryInv, [Next]_vars
              PROVE  DeliveryInv'
  OBVIOUS
<1>1. TypeOK /\ DOMAIN task = Task
  BY DEF TypeInv, TypeOK
<1>2. ASSUME config' = config,
             \A u \in Used' : Delivers(task'[u])
      PROVE  DeliveryInv'
  BY <1>2 DEF DeliveryInv, Delivers, Reached, Channels
<1>3. CASE External
  <2>1. /\ config' = config
        /\ \/ task' = task
           \/ \E t \in Task \ Used, r \in {task'[u] : u \in Task} :
                task' = [task EXCEPT ![t] = r] /\ Starts(r)
    BY <1>3, Elsewhere
  <2>2. ASSUME NEW r, Starts(r)
        PROVE  Delivers(r)
    BY <2>2 DEF Starts, Delivers
  <2>3. ASSUME NEW u \in Used'
        PROVE  Delivers(task'[u])
    <3>1. u \in Task /\ task'[u].pc # "idle"
      BY <1>1, <2>1 DEF Used
    <3>2. (u \in Used /\ task'[u] = task[u]) \/ Starts(task'[u])
      BY <1>1, <2>1, <3>1 DEF Used
    <3>. QED  BY <2>2, <3>2 DEF DeliveryInv
  <2>. QED  BY <1>2, <2>1, <2>3
<1>4. ASSUME NEW t \in Task, GoroutineStep(t)
      PROVE  DeliveryInv'
  <2>1. t \in Used /\ config' = config /\ \A u \in Task \ {t} : task'[u] = task[u]
    BY <1>4, GoroutineEffect DEF Still
  <2>2. \A u \in Used' : u # t => Delivers(task'[u])
    BY <2>1 DEF Used, DeliveryInv
  <2>3. ASSUME task'[t].pc # "idle"
        PROVE  Delivers(task'[t])
    <3>. PICK r : r = task[t]
      OBVIOUS
    <3>. PICK s : s = task'[t]
      OBVIOUS
    <3>1. GoroutineOK(r) /\ Delivers(r)
      BY <1>1, <2>1, UsedTask DEF DeliveryInv
    <3>2. /\ GoroutineOK(s)
          /\ \/ Passes(r, s) \/ Loads(r, s) \/ Exceeds(r, s) \/ Fails(r, s)
             \/ Matches(r, s) /\ r.pc \in {"rule", "store"}
             \/ Pauses(r, s) /\ r.pc \in Delivering
             \/ Sends(t, s) /\ r.pc \in Delivering
      BY <1>4, <2>3, GoroutineEffect
    <3>3. CASE Passes(r, s) \/ Loads(r, s) \/ Exceeds(r, s) \/ Fails(r, s)
      <4>1. /\ r.pc \in {"start", "rule", "count"} /\ s.kind = r.kind /\ s.short = r.short
            /\ s.pc \in {"rule", "done", "count", "store"} /\ (r.cut => s.cut)
        BY <3>3 DEF Passes, Loads, Exceeds, Fails, SameBut, Field
      <4>. QED  BY <3>1, <4>1 DEF Delivers, Delivering
    <3>4. CASE Matches(r, s) /\ r.pc \in {"rule", "store"}
      <4>1. /\ s.kind = r.kind /\ s.short = r.short /\ s.cut = r.cut /\ s.pc = "send"
            /\ s.ch = 1
        BY <3>4 DEF Matches, SameBut, Field
      <4>. QED  BY <3>1, <3>4, <4>1 DEF Delivers
    <3>5. CASE Pauses(r, s) /\ r.pc \in Delivering
      <4>1. /\ s.kind = r.kind /\ s.short = r.short /\ s.cut = r.cut /\ s.ch = r.ch
            /\ s.got = r.got /\ s.failed = r.failed /\ s.pc \in {"wait", "retry", "session"}
        BY <3>5 DEF Pauses, SameBut, Field
      <4>. QED  BY <3>1, <3>5, <4>1 DEF Delivers, Reached
    <3>6. CASE Sends(t, s) /\ r.pc \in Delivering
      BY <2>1, <3>1, <3>2, <3>6, DeliversOn
    <3>. QED  BY <3>2, <3>3, <3>4, <3>5, <3>6
  <2>4. ASSUME NEW u \in Used'
        PROVE  Delivers(task'[u])
    BY <2>2, <2>3, <2>4 DEF Used
  <2>. QED  BY <1>2, <2>1, <2>4
<1>. QED  BY <1>3, <1>4, Steps

\* dispatch, SendAlert, SendTest, sendDigest: whatever the other channels do, one in
\* good order gets every message of a goroutine that nothing cut short, and a test
\* that reports no error has reached every channel.
THEOREM AllArrives == Spec => []MessagesArrive
<1>1. Init => DeliveryInv
  BY DEF Init, DeliveryInv, Used, Idle
<1>2. DeliveryInv => MessagesArrive
  BY DEF DeliveryInv, Delivers, MessagesArrive
<1>. QED  BY <1>1, <1>2, DeliveryStays, TypeInvariant, PTL DEF Spec

-----------------------------------------------------------------------------
(* One alert at a time.                                                    *)

\* What a dispatcher has announced: a country at most once; and, for an IP no two
\* goroutines have checked at once, the alert recorded is the latest one.
Memory(g) ==
  /\ \A c \in Country : disp[g].first[c] <= 1
  /\ \A ip \in IP : <<g, ip>> \notin raced => disp[g].fired[ip] = disp[g].last[ip]

\* A goroutine that has checked an IP, alone, is at least Window after its last alert.
Checked(r) ==
  r.pc \in {"count", "store"} /\ <<r.g, r.ev.ip>> \notin raced =>
    LET last == disp[r.g].last[r.ev.ip] IN last < 0 \/ r.now - last >= Window

MemoryInv ==
  /\ \A g \in DOMAIN disp : Memory(g)
  /\ \A t \in Used : Checked(task[t])
  /\ over \subseteq raced

LEMMA MemoryElsewhere ==
  ASSUME TypeInv, MemoryInv, External
  PROVE  MemoryInv'
<1>1. /\ TypeOK /\ DOMAIN task = Task
      /\ over' = over /\ raced' = raced
      /\ DOMAIN disp \subseteq DOMAIN disp'
      /\ \A h \in DOMAIN disp :
           /\ disp'[h].fired = disp[h].fired /\ disp'[h].last = disp[h].last
           /\ disp'[h].first = disp[h].first
      /\ \A h \in DOMAIN disp' \ DOMAIN disp :
           /\ \A ip \in IP : disp'[h].fired[ip] = -1 /\ disp'[h].last[ip] = -1
           /\ \A c \in Country : disp'[h].first[c] = 0
      /\ \/ task' = task
         \/ \E t \in Task \ Used, r \in {task'[u] : u \in Task} :
              task' = [task EXCEPT ![t] = r] /\ Starts(r)
  BY Elsewhere DEF TypeInv, TypeOK
<1>2. \A h \in DOMAIN disp' : Memory(h)'
  BY <1>1 DEF MemoryInv, Memory
<1>3. ASSUME NEW u \in Used'
      PROVE  Checked(task[u])'
  <2>1. u \in Task /\ task'[u].pc # "idle"
    BY <1>1, <1>3 DEF Used
  <2>2. (u \in Used /\ task'[u] = task[u]) \/ Starts(task'[u])
    BY <1>1, <2>1 DEF Used
  <2>3. CASE u \in Used /\ task'[u] = task[u]
    <3>1. Checked(task[u]) /\ task[u].g \in DOMAIN disp
      BY <1>1, <2>3, UsedTask DEF MemoryInv, GoroutineOK
    <3>. QED  BY <1>1, <2>3, <3>1 DEF Checked
  <2>4. CASE Starts(task'[u])
    BY <2>4 DEF Starts, Checked
  <2>. QED  BY <2>2, <2>3, <2>4
<1>. QED  BY <1>1, <1>2, <1>3 DEF MemoryInv

\* Only the record of an alert touches the memory of alerts.
LEMMA OtherSteps ==
  ASSUME TypeInv, NEW t \in Task, GoroutineStep(t), ~ThresholdStore(t)
  PROVE  /\ over' = over /\ raced' = raced
         /\ \A h \in DOMAIN disp :
              /\ disp'[h].fired = disp[h].fired /\ disp'[h].last = disp[h].last
              /\ (\A c \in Country : disp[h].first[c] <= 1)
                   => \A c \in Country : disp'[h].first[c] <= 1
<1>1. t \in Used /\ TypeOK
  BY GoroutineEffect DEF TypeInv
<1>2. task[t].g \in DOMAIN disp
  BY <1>1, UsedTask DEF GoroutineOK
<1>3. CASE MatchCountry(t)
  <2>1. /\ over' = over /\ raced' = raced
        /\ \/ disp' = disp
           \/ \E c \in Country \ disp[task[t].g].seen : Announced(task[t].g, c)
    BY <1>1, <1>3, CountryEffect
  <2>2. CASE disp' = disp
    BY <2>1, <2>2
  <2>3. ASSUME NEW c \in Country \ disp[task[t].g].seen, Announced(task[t].g, c)
        PROVE  \A h \in DOMAIN disp :
                 /\ disp'[h].fired = disp[h].fired /\ disp'[h].last = disp[h].last
                 /\ (\A d \in Country : disp[h].first[d] <= 1)
                      => \A d \in Country : disp'[h].first[d] <= 1
    <3>. DEFINE g == task[t].g
    <3>1. PICK e : /\ Remembers(e) /\ disp' = [disp EXCEPT ![g] = e]
                   /\ e.fired = disp[g].fired /\ e.last = disp[g].last
                   /\ e.first[c] = disp[g].first[c] + 1
                   /\ \A d \in Country \ {c} : e.first[d] = disp[g].first[d]
      BY <1>1, <1>2, <2>3, SeenChanges
    <3>2. disp[g].first[c] = 0
      <4>1. disp[g].first[c] > 0 => c \in disp[g].seen
        BY <1>1, <1>2, DispatchersRemember DEF Remembers
      <4>2. disp[g].first[c] \in Nat
        BY <1>1, <1>2, LastTyped
      <4>. QED  BY <4>1, <4>2
    <3>3. /\ disp'[g] = e
          /\ \A h \in DOMAIN disp \ {g} : disp'[h] = disp[h]
      BY <1>2, <3>1
    <3>. QED  BY <3>1, <3>2, <3>3
  <2>. QED  BY <2>1, <2>2, <2>3
<1>4. CASE ~MatchCountry(t)
  <2>1. disp' = disp /\ over' = over /\ raced' = raced
    BY <1>4 DEF GoroutineStep, Start, MatchType, ThresholdLoad, ThresholdCount, SendFails,
                Post, Wait, Dial, Session, Done, Keep
  <2>. QED  BY <2>1
<1>. QED  BY <1>3, <1>4

LEMMA MemoryOther ==
  ASSUME TypeInv, MemoryInv, NEW t \in Task, GoroutineStep(t), ~ThresholdStore(t)
  PROVE  MemoryInv'
<1>1. /\ t \in Used /\ DOMAIN disp' = DOMAIN disp /\ clock' = clock
      /\ \A u \in Task \ {t} : task'[u] = task[u]
  BY GoroutineEffect DEF Still
<1>2. /\ over' = over /\ raced' = raced
      /\ \A h \in DOMAIN disp :
           /\ disp'[h].fired = disp[h].fired /\ disp'[h].last = disp[h].last
           /\ (\A c \in Country : disp[h].first[c] <= 1)
                => \A c \in Country : disp'[h].first[c] <= 1
  BY OtherSteps
<1>3. TypeOK /\ \A u \in Used : Asking(task[u])
  BY DEF TypeInv
<1>4. \A h \in DOMAIN disp' : Memory(h)'
  BY <1>1, <1>2 DEF MemoryInv, Memory
<1>5. ASSUME NEW u \in Used', u # t
      PROVE  Checked(task[u])'
  <2>1. u \in Used /\ task'[u] = task[u]
    BY <1>1, <1>5 DEF Used
  <2>2. Checked(task[u]) /\ task[u].g \in DOMAIN disp
    BY <1>3, <2>1, UsedTask DEF MemoryInv, GoroutineOK
  <2>. QED  BY <1>2, <2>1, <2>2 DEF Checked
<1>6. ASSUME task'[t].pc # "idle"
      PROVE  Checked(task[t])'
  <2>. PICK r : r = task[t]
    OBVIOUS
  <2>. PICK s : s = task'[t]
    OBVIOUS
  <2>1. /\ r.g \in DOMAIN disp /\ Checked(r) /\ Asking(r)
    BY <1>1, <1>3, UsedTask DEF MemoryInv, GoroutineOK
  <2>2. \/ s.pc \notin {"count", "store"}
        \/ Loads(r, s) \/ Exceeds(r, s)
    BY <1>6, GoroutineEffect DEF Passes, Fails, Matches, Pauses, Sends, Returned
  <2>3. CASE s.pc \notin {"count", "store"}
    BY <2>3 DEF Checked
  <2>4. CASE Loads(r, s)
    <3>1. /\ s.now = clock /\ s.ev = r.ev /\ s.g = r.g /\ r.ev.ip \in IP
          /\ disp[r.g].fired[r.ev.ip] < 0 \/ clock - disp[r.g].fired[r.ev.ip] >= Window
      BY <2>4 DEF Loads, SameBut, Field
    <3>2. <<r.g, r.ev.ip>> \notin raced => disp[r.g].fired[r.ev.ip] = disp[r.g].last[r.ev.ip]
      BY <2>1, <3>1 DEF MemoryInv, Memory
    <3>. QED  BY <1>2, <2>1, <3>1, <3>2 DEF Checked
  <2>5. CASE Exceeds(r, s)
    <3>1. r.pc = "count" /\ s.ev = r.ev /\ s.g = r.g /\ s.now = r.now
      BY <2>5 DEF Exceeds, SameBut, Field
    <3>. QED  BY <1>2, <2>1, <3>1 DEF Checked
  <2>. QED  BY <2>2, <2>3, <2>4, <2>5
<1>7. \A u \in Used' : Checked(task[u])'
  BY <1>5, <1>6 DEF Used
<1>8. over' \subseteq raced'
  BY <1>2 DEF MemoryInv
<1>. QED  BY <1>4, <1>7, <1>8 DEF MemoryInv

\* The record of an alert: a rival has raced; without one, the last alert is old.
LEMMA MemoryStore ==
  ASSUME TypeInv, MemoryInv, NEW t \in Task, GoroutineStep(t), ThresholdStore(t)
  PROVE  MemoryInv'
<1>. PICK r : r = task[t]
  OBVIOUS
<1>. DEFINE g == r.g
            ip == r.ev.ip
            last == disp[g].last[ip]
<1>1. /\ t \in Used /\ DOMAIN disp' = DOMAIN disp
      /\ \A u \in Task \ {t} : task'[u] = task[u]
      /\ task'[t].pc \notin {"count", "store"}
  <2>1. task'[t] = Matched(r)
    BY DEF ThresholdStore, Becomes, TypeInv, TypeOK
  <2>2. GoroutineOK(r) /\ TypeOK
    BY GoroutineEffect, UsedTask DEF TypeInv
  <2>. QED  BY <2>1, <2>2, MatchedOK, GoroutineEffect
<1>2. TypeOK /\ GoroutineOK(r) /\ Checked(r) /\ r.pc = "store" /\ ip \in IP /\ g \in DOMAIN disp
  BY <1>1, StoreEffect, UsedTask DEF MemoryInv, TypeInv, GoroutineOK
<1>3. r.now \in Nat /\ last \in Int /\ Window \in Nat \ {0}
  BY <1>2, LastTyped, NotifyAssumption, SMTT(30) DEF GoroutineOK, TypeOK
<1>4. PICK m \in {last, r.now} : m >= last /\ m >= r.now /\ Recorded(g, ip, r.now, m)
  BY <1>1, StoreEffect
<1>5. m \in Int
  BY <1>3, <1>4
<1>6. PICK e : /\ disp' = [disp EXCEPT ![g] = e]
               /\ e.first = disp[g].first
               /\ e.fired[ip] = r.now /\ e.last[ip] = m
               /\ \A other \in IP \ {ip} : /\ e.fired[other] = disp[g].fired[other]
                                           /\ e.last[other] = disp[g].last[other]
  BY <1>2, <1>3, <1>4, <1>5, FiredChanges
<1>7. disp'[g] = e /\ \A h \in DOMAIN disp \ {g} : disp'[h] = disp[h]
  BY <1>2, <1>6
<1>8. /\ raced' = IF Rivals(t) = {} THEN raced ELSE raced \cup {<<g, ip>>}
      /\ over' = IF last >= 0 /\ r.now - last < Window THEN over \cup {<<g, ip>>} ELSE over
  BY DEF ThresholdStore
<1>9. raced \subseteq raced'
  BY <1>8
<1>10. <<g, ip>> \notin raced => last < 0 \/ r.now - last >= Window
  BY <1>2 DEF Checked
<1>11. <<g, ip>> \notin raced => m = r.now
  BY <1>3, <1>4, <1>10
<1>12. \A h \in DOMAIN disp' : Memory(h)'
  <2>1. Memory(g)'
    <3>1. Memory(g)
      BY <1>2 DEF MemoryInv
    <3>2. \A c \in Country : disp'[g].first[c] <= 1
      BY <1>6, <1>7, <3>1 DEF Memory
    <3>3. ASSUME NEW a \in IP, <<g, a>> \notin raced'
          PROVE  disp'[g].fired[a] = disp'[g].last[a]
      <4>1. CASE a = ip
        BY <1>6, <1>7, <1>9, <1>11, <3>3, <4>1
      <4>2. CASE a # ip
        <5>1. disp[g].fired[a] = disp[g].last[a]
          <6>1. <<g, a>> \notin raced
            BY <1>9, <3>3
          <6>. QED  BY <3>1, <6>1 DEF Memory
        <5>2. disp'[g].fired[a] = disp[g].fired[a] /\ disp'[g].last[a] = disp[g].last[a]
          BY <1>6, <1>7, <4>2
        <5>. QED  BY <5>1, <5>2
      <4>. QED  BY <4>1, <4>2
    <3>. QED  BY <3>2, <3>3 DEF Memory
  <2>2. ASSUME NEW h \in DOMAIN disp, h # g
        PROVE  Memory(h)'
    <3>1. Memory(h) /\ disp'[h] = disp[h]
      BY <1>7, <2>2 DEF MemoryInv
    <3>. QED  BY <1>9, <3>1 DEF Memory
  <2>. QED  BY <1>1, <2>1, <2>2
<1>13. ASSUME NEW u \in Used'
       PROVE  Checked(task[u])'
  <2>1. CASE u = t
    BY <1>1, <2>1 DEF Checked
  <2>2. CASE u # t
    <3>. PICK s : s = task[u]
      OBVIOUS
    <3>1. u \in Used /\ task'[u] = s
      BY <1>1, <2>2 DEF Used
    <3>2. Checked(s) /\ s.g \in DOMAIN disp /\ Asking(s)
      BY <1>2, <3>1, UsedTask DEF MemoryInv, GoroutineOK, TypeInv
    <3>3. ASSUME s.pc \in {"count", "store"}, <<s.g, s.ev.ip>> \notin raced'
          PROVE  LET l == disp'[s.g].last[s.ev.ip] IN l < 0 \/ s.now - l >= Window
      <4>1. s.ev.ip \in IP
        BY <3>2, <3>3 DEF Asking
      <4>2. ~(s.g = g /\ s.ev.ip = ip)
        <5>1. SUFFICES ASSUME s.g = g, s.ev.ip = ip PROVE u \in Rivals(t)
          BY <1>8, <3>3
        <5>. QED  BY <2>2, <3>1, <3>3, <5>1 DEF Rivals
      <4>3. disp'[s.g].last[s.ev.ip] = disp[s.g].last[s.ev.ip]
        BY <1>6, <1>7, <3>2, <4>1, <4>2
      <4>. QED  BY <1>9, <3>2, <3>3, <4>3 DEF Checked
    <3>. QED  BY <3>1, <3>3 DEF Checked
  <2>. QED  BY <2>1, <2>2
<1>14. over' \subseteq raced'
  <2>1. over \subseteq raced
    BY DEF MemoryInv
  <2>2. last >= 0 /\ r.now - last < Window => <<g, ip>> \in raced
    BY <1>3, <1>10
  <2>. QED  BY <1>8, <1>9, <2>1, <2>2
<1>. QED  BY <1>12, <1>13, <1>14 DEF MemoryInv

\* newCountryRule and thresholdRule, under any overlap of goroutines: a dispatcher
\* announces a country once, and two alerts on an IP are a Window apart unless two
\* goroutines were between its check and its record at the same time.
THEOREM OneAlert == Spec => []AnnouncedOnce
<1>1. Init => MemoryInv
  <2>1. ASSUME Init
        PROVE  /\ disp = <<NewDispatcher>> /\ Used = {} /\ over = {}
               /\ \A g \in DOMAIN disp : disp[g] = NewDispatcher
    BY <2>1 DEF Init, Used, Idle
  <2>. QED  BY <2>1 DEF MemoryInv, Memory, NewDispatcher
<1>2. TypeInv /\ MemoryInv /\ [Next]_vars => MemoryInv'
  BY Steps, MemoryElsewhere, MemoryOther, MemoryStore
<1>3. MemoryInv => AnnouncedOnce
  BY DEF MemoryInv, Memory, AnnouncedOnce
<1>. QED  BY <1>1, <1>2, <1>3, TypeInvariant, PTL DEF Spec
=============================================================================
