--------------------------- MODULE Settings_proofs ---------------------------
(***************************************************************************)
(* Proofs about Settings, for any number of requests, any bodies, and any  *)
(* number of errors and restarts.                                          *)
(***************************************************************************)
EXTENDS Settings, TLAPS

-----------------------------------------------------------------------------
(* Types.                                                                  *)

\* A request that has begun has a body, is at a jail parameter only if it sets
\* that one, and proposes for the jail what its body says.
RequestInv ==
  \A r \in Request : request[r].at # "new" =>
    /\ Body(r) \in Bodies
    /\ request[r].at \in Jail => request[r].at \in DOMAIN Body(r)
    /\ \A f \in Jail \cap DOMAIN Body(r) : Proposed(r)[f] = Body(r)[f]

TypeInv == TypeOK /\ RequestInv

\* The overlay of stored settings is a configuration, with the environment's
\* channel if it has one, and a positive general setting.
LEMMA OverlayType ==
  ASSUME NEW e \in Envs, NEW stored \in Values
  PROVE  /\ Overlay(e, stored) \in Values
         /\ Overlay(e, stored).notify = IF e # 0 THEN e ELSE stored.notify
         /\ Overlay(e, stored).general = IF stored.general # 0 THEN stored.general ELSE Default
         /\ Overlay(e, stored).general # 0
         /\ \A f \in {"allow", "retry", "term"} : Overlay(e, stored)[f] = stored[f]
<1>1. Default \in Nat \ {0} /\ e \in Nat
  BY SettingsAssumption
<1>. QED
  BY <1>1 DEF Overlay, Values, Field

\* At most the dispatcher one names gets started.
LEMMA StartedType ==
  ASSUME NEW c, NEW d, d # None
  PROVE  /\ Started(c, d) = IF c.notify = 0 THEN {} ELSE {d}
         /\ Started(c, d) = {Dispatcher(c, d)} \ {None}
  BY DEF Started, Dispatcher

\* A bound goes down, or nothing happens.
LEMMA UseType ==
  ASSUME NEW what \in {"db", "f2b", "restart", "f2bRestart"},
         TypeOK, Use(what)
  PROVE  left' \in [db : 0 .. MaxDb, f2b : 0 .. MaxF2b, restart : 0 .. MaxRestart,
                    f2bRestart : 0 .. MaxF2bRestart]
<1>1. MaxDb \in Nat /\ MaxF2b \in Nat /\ MaxRestart \in Nat /\ MaxF2bRestart \in Nat
  BY SettingsAssumption
<1>2. left \in [db : 0 .. MaxDb, f2b : 0 .. MaxF2b, restart : 0 .. MaxRestart,
                f2bRestart : 0 .. MaxF2bRestart]
  BY DEF TypeOK
<1>3. left[what] > 0 /\ left' = [left EXCEPT ![what] = left[what] - 1]
  BY DEF Use
<1>. QED
  BY <1>1, <1>2, <1>3

\* The configuration a request proposes.
LEMMA ProposedType ==
  ASSUME TypeOK, NEW b \in Bodies, NEW given \in SUBSET DOMAIN b
  PROVE  [f \in Field |-> IF f \in given THEN b[f] ELSE cfg[f]] \in Values
  BY SettingsAssumption DEF TypeOK, Values

LEMMA InitType == Init => TypeInv
<1>. SUFFICES ASSUME Init
              PROVE  TypeInv
  OBVIOUS
<1>1. Empty \in Values
  BY DEF Empty, Values
<1>2. cfg \in Values
  BY <1>1, OverlayType DEF Init
<1>3. running \subseteq {Boot} /\ current \in {Boot, None}
  BY SettingsAssumption, StartedType DEF Init, Dispatcher
<1>5. channels \in Nat
  BY <1>2 DEF Init, Values, Field
<1>4. left \in [db : 0 .. MaxDb, f2b : 0 .. MaxF2b, restart : 0 .. MaxRestart,
                f2bRestart : 0 .. MaxF2bRestart]
  BY SettingsAssumption DEF Init
<1>. QED
  BY <1>1, <1>2, <1>3, <1>4, <1>5 DEF Init, TypeInv, TypeOK, RequestInv, NewEnforcer, Jail

Requests == [Request -> [at : {"new", "retry", "term", "save", "apply", "allow", "swap", "done"},
                         body : Bodies \cup {<< >>}, proposed : Values]]

\* The next of the jail's steps is that of a parameter the body sets.
LEMMA AfterJailType ==
  ASSUME NEW b, NEW f
  PROVE  /\ AfterJail(b, f) \in {"retry", "term", "save"}
         /\ AfterJail(b, f) \in Jail => AfterJail(b, f) \in DOMAIN b
  BY DEF AfterJail, Jail

\* What moving a request on does: the rest of it and the others stay.
LEMMA GotoEffect ==
  ASSUME TypeOK, NEW r \in Request, NEW l, Goto(r, l)
  PROVE  /\ request'[r].at = l
         /\ \A q \in Request : /\ Body(q)' = Body(q) /\ Proposed(q)' = Proposed(q)
                               /\ q # r => request'[q] = request[q]
  BY DEF TypeOK, Goto, Body, Proposed

LEMMA GotoType ==
  ASSUME TypeInv, NEW r \in Request, Goto(r, request'[r].at), request[r].at # "new",
         request'[r].at \in {"retry", "term", "save", "apply", "allow", "swap", "done"},
         request'[r].at \in Jail => request'[r].at \in DOMAIN Body(r)
  PROVE  request' \in Requests /\ RequestInv'
<1>. USE DEF TypeInv, TypeOK
<1>1. request' \in Requests
  BY DEF Goto, Requests
<1>2. ASSUME NEW q \in Request, request'[q].at # "new"
      PROVE  /\ Body(q)' \in Bodies
             /\ request'[q].at \in Jail => request'[q].at \in DOMAIN Body(q)'
             /\ \A f \in Jail \cap DOMAIN Body(q)' : Proposed(q)'[f] = Body(q)'[f]
  <2>1. Body(q)' = Body(q) /\ Proposed(q)' = Proposed(q) /\ (q # r => request'[q] = request[q])
    BY GotoEffect
  <2>2. request[q].at # "new"
    BY <1>2, <2>1
  <2>. QED  BY <1>2, <2>1, <2>2 DEF RequestInv
<1>. QED
  BY <1>1, <1>2 DEF RequestInv

\* A command to fail2ban keeps the jail's type.
LEMMA CommandType ==
  ASSUME TypeOK, NEW f \in Jail, NEW n \in Nat, Accepts(f, n) \/ Refuses(f, n)
  PROVE  /\ jail' \in [Jail -> Nat] /\ accepted' \subseteq Jail \X Nat
         /\ left' \in [db : 0 .. MaxDb, f2b : 0 .. MaxF2b, restart : 0 .. MaxRestart,
                       f2bRestart : 0 .. MaxF2bRestart]
<1>1. CASE Accepts(f, n)
  <2>1. <<f, n>> \in Jail \X Nat
    OBVIOUS
  <2>. QED  BY <1>1, <2>1 DEF Accepts, TypeOK
<1>2. CASE Refuses(f, n)
  <2>1. Use("f2b") /\ jail' \in {jail, [jail EXCEPT ![f] = n]} /\ accepted' = accepted
    BY <1>2 DEF Refuses
  <2>2. left' \in [db : 0 .. MaxDb, f2b : 0 .. MaxF2b, restart : 0 .. MaxRestart,
                   f2bRestart : 0 .. MaxF2bRestart]
    BY <2>1, UseType
  <2>. QED  BY <2>1, <2>2, SMTT(30) DEF TypeOK
<1>. QED
  BY <1>1, <1>2

RequestStep(r) ==
  \/ \E b \in Bodies : Begin(r, b)
  \/ \E f \in Jail : SetJail(r, f)
  \/ Save(r) \/ Apply(r) \/ SetExtra(r) \/ Swap(r)

LEMMA RequestType ==
  ASSUME TypeInv, NEW r \in Request, RequestStep(r)
  PROVE  TypeInv'
<1>. USE DEF TypeInv
<1>1. ASSUME NEW b \in Bodies, Begin(r, b)
      PROVE  TypeInv'
  <2>. DEFINE given    == {f \in DOMAIN b : Settable(f) /\ ~(f = "general" /\ b[f] = 0)}
              proposed == [f \in Field |-> IF f \in given THEN b[f] ELSE cfg[f]]
  <2>1. proposed \in Values
    <3>1. given \in SUBSET DOMAIN b
      OBVIOUS
    <3>. HIDE DEF given
    <3>. QED  BY <3>1, ProposedType
  <2>2. request' = [request EXCEPT ![r] = [at |-> AfterJail(b, "copy"), body |-> b, proposed |-> proposed]]
    BY <1>1 DEF Begin
  <2>3. request' \in Requests
    BY <2>1, <2>2, AfterJailType DEF TypeOK, Requests
  <2>4. running' \subseteq Request \cup {Boot}
    <3>1. running' = running \cup Started(proposed, r)
      BY <1>1 DEF Begin
    <3>2. Started(proposed, r) \subseteq {r}
      BY DEF Started, Dispatcher
    <3>. QED  BY <3>1, <3>2 DEF TypeOK
  <2>5. RequestInv'
    <3>1. Body(r)' = b /\ Proposed(r)' = proposed /\ request'[r].at = AfterJail(b, "copy")
      BY <2>2 DEF TypeOK, Body, Proposed
    <3>2. \A f \in Jail \cap DOMAIN b : proposed[f] = b[f]
      BY DEF Jail, Field, Settable
    <3>3. \A q \in Request \ {r} : request'[q] = request[q]
      BY <2>2 DEF TypeOK
    <3>. QED  BY <3>1, <3>2, <3>3, AfterJailType DEF RequestInv, Body, Proposed
  <2>6. overlap' \in BOOLEAN
    BY <1>1 DEF Begin, TypeOK
  <2>. QED  BY <1>1, <2>3, <2>4, <2>5, <2>6 DEF Begin, TypeOK, Requests
<1>2. ASSUME NEW f \in Jail, SetJail(r, f)
      PROVE  TypeInv'
  <2>1. request[r].at = f /\ f \in DOMAIN Body(r) /\ Body(r) \in Bodies /\ Body(r)[f] \in Nat
    BY <1>2, SettingsAssumption DEF SetJail, RequestInv, Jail
  <2>2. request' \in Requests /\ RequestInv'
    <3>1. /\ Goto(r, request'[r].at)
          /\ request'[r].at = "done" \/ request'[r].at = AfterJail(Body(r), f)
      BY <1>2, GotoEffect DEF SetJail
    <3>. QED  BY <2>1, <3>1, GotoType, AfterJailType DEF Jail
  <2>3. jail' \in [Jail -> Nat] /\ accepted' \subseteq Jail \X Nat /\ left' \in
          [db : 0 .. MaxDb, f2b : 0 .. MaxF2b, restart : 0 .. MaxRestart, f2bRestart : 0 .. MaxF2bRestart]
    BY <1>2, <2>1, CommandType DEF SetJail
  <2>. QED  BY <1>2, <2>2, <2>3 DEF SetJail, TypeOK, Requests
<1>3. CASE Save(r)
  <2>1. request' \in Requests /\ RequestInv'
    <3>1. Goto(r, request'[r].at) /\ request'[r].at \in {"apply", "done"}
      BY <1>3, GotoEffect DEF Save
    <3>. QED  BY <1>3, <3>1, GotoType DEF Save, Jail
  <2>2. db' \in Values
    BY <1>3 DEF Save, TypeOK, Values, Proposed
  <2>3. left' \in [db : 0 .. MaxDb, f2b : 0 .. MaxF2b, restart : 0 .. MaxRestart,
                   f2bRestart : 0 .. MaxF2bRestart]
    BY <1>3, UseType DEF Save, TypeOK
  <2>4. refused' \subseteq Request
    BY <1>3 DEF Save, TypeOK
  <2>. QED  BY <1>3, <2>1, <2>2, <2>3, <2>4 DEF Save, memory, TypeOK, Requests
<1>4. CASE Apply(r)
  <2>1. request' \in Requests /\ RequestInv'
    <3>1. Goto(r, request'[r].at) /\ request'[r].at \in {"allow", "swap"}
      BY <1>4, GotoEffect DEF Apply
    <3>. QED  BY <1>4, <3>1, GotoType DEF Apply, Jail
  <2>. QED  BY <1>4, <2>1 DEF Apply, history, TypeOK, Requests, Proposed
<1>5. CASE SetExtra(r)
  <2>1. request' \in Requests /\ RequestInv'
    <3>1. Goto(r, request'[r].at) /\ request'[r].at = "swap"
      BY <1>5, GotoEffect DEF SetExtra
    <3>. QED  BY <1>5, <3>1, GotoType DEF SetExtra, Jail
  <2>2. allow' \in Nat
    BY <1>5 DEF SetExtra, TypeOK, Proposed, Values, Field
  <2>. QED  BY <1>5, <2>1, <2>2 DEF SetExtra, history, TypeOK, Requests
<1>6. CASE Swap(r)
  <2>1. request' \in Requests /\ RequestInv'
    <3>1. Goto(r, request'[r].at) /\ request'[r].at = "done"
      BY <1>6, GotoEffect DEF Swap
    <3>. QED  BY <1>6, <3>1, GotoType DEF Swap, Jail
  <2>2. channels' \in Nat
    <3>1. Proposed(r).notify \in Nat
      <4>1. Proposed(r) \in [Field -> Nat]
        BY DEF TypeOK, Proposed, Values
      <4>. QED  BY <4>1 DEF Field
    <3>2. channels' \in {channels, Proposed(r).notify}
      BY <1>6 DEF Swap
    <3>. QED  BY <3>1, <3>2 DEF TypeOK
  <2>. QED  BY <1>6, <2>1, <2>2 DEF Swap, history, TypeOK, Requests, Dispatcher
<1>. QED
  BY <1>1, <1>2, <1>3, <1>4, <1>5, <1>6 DEF RequestStep
EnforcerStates == [at : {"read", "get", "set"} \X Jail, want : [Jail -> Nat], same : BOOLEAN]

\* A fresh pass, and the enforcer at another of its places.
LEMMA EnforcerAt ==
  ASSUME TypeOK
  PROVE  /\ NewEnforcer \in EnforcerStates
         /\ \A a \in {"read", "get", "set"} \X Jail : [enforcer EXCEPT !.at = a] \in EnforcerStates
         /\ FirstSet \in {"read", "get", "set"} \X Jail
         /\ <<"read", "term">> \in {"read", "get", "set"} \X Jail
         /\ <<"get", "retry">> \in {"read", "get", "set"} \X Jail
         /\ <<"get", "term">> \in {"read", "get", "set"} \X Jail
         /\ <<"set", "term">> \in {"read", "get", "set"} \X Jail
<1>1. \A w \in {"read", "get", "set"} : \A f \in Jail : <<w, f>> \in {"read", "get", "set"} \X Jail
  OBVIOUS
<1>2. "retry" \in Jail /\ "term" \in Jail
  BY DEF Jail
<1>. QED
  BY <1>1, <1>2 DEF TypeOK, EnforcerStates, NewEnforcer, FirstSet

LEMMA EnforcerType == TypeInv /\ Enforcer => TypeInv'
<1>. SUFFICES ASSUME TypeInv, NEW f \in Jail, ReadSetting(f) \/ GetJail(f) \/ Enforce(f)
              PROVE  TypeInv'
  BY DEF Enforcer
<1>. USE DEF TypeInv
<1>1. RequestInv'
  BY DEF ReadSetting, GetJail, Enforce, Elsewhere, RequestInv, Body, Proposed
<1>2. CASE ReadSetting(f)
  <2>1. PICK n \in {db[f], 0} :
          LET want == [enforcer.want EXCEPT ![f] = n] IN
          /\ IF n = db[f] THEN UNCHANGED left ELSE Use("db")
          /\ enforcer' = IF f = "retry" THEN [enforcer EXCEPT !.want = want, !.at = <<"read", "term">>]
                         ELSE IF \A g \in Jail : want[g] = 0 THEN NewEnforcer
                         ELSE [enforcer EXCEPT !.want = want, !.at = <<"get", "retry">>]
    BY <1>2 DEF ReadSetting
  <2>2. n \in Nat
    BY SMTT(30) DEF TypeOK, Values, Field, Jail
  <2>3. [enforcer.want EXCEPT ![f] = n] \in [Jail -> Nat]
    BY <2>2 DEF TypeOK
  <2>4. \A w \in [Jail -> Nat], a \in {"read", "get", "set"} \X Jail :
          [enforcer EXCEPT !.want = w, !.at = a] \in EnforcerStates
    BY DEF TypeOK, EnforcerStates
  <2>5. enforcer' \in EnforcerStates
    BY <2>1, <2>3, <2>4, EnforcerAt
  <2>6. left' \in [db : 0 .. MaxDb, f2b : 0 .. MaxF2b, restart : 0 .. MaxRestart,
                   f2bRestart : 0 .. MaxF2bRestart]
    BY <2>1, UseType DEF TypeOK
  <2>. QED  BY <1>1, <1>2, <2>5, <2>6 DEF ReadSetting, Elsewhere, memory, TypeOK, EnforcerStates
<1>3. CASE GetJail(f)
  <2>. DEFINE same == enforcer.same /\ enforcer.want[f] \in {0, jail[f]}
  <2>1. same \in BOOLEAN
    BY DEF TypeOK
  <2>2. \A s \in BOOLEAN, a \in {"read", "get", "set"} \X Jail :
          [enforcer EXCEPT !.same = s, !.at = a] \in EnforcerStates
    BY DEF TypeOK, EnforcerStates
  <2>3. \/ enforcer' = [enforcer EXCEPT !.same = same, !.at = <<"get", "term">>]
        \/ enforcer' = NewEnforcer
        \/ enforcer' = [enforcer EXCEPT !.at = FirstSet]
    BY <1>3 DEF GetJail
  <2>. HIDE DEF same
  <2>4. enforcer' \in EnforcerStates
    BY <2>1, <2>2, <2>3, EnforcerAt
  <2>5. left' \in [db : 0 .. MaxDb, f2b : 0 .. MaxF2b, restart : 0 .. MaxRestart,
                   f2bRestart : 0 .. MaxF2bRestart]
    <3>1. UNCHANGED left \/ Use("f2b")
      BY <1>3 DEF GetJail
    <3>. QED  BY <3>1, UseType DEF TypeOK
  <2>. QED  BY <1>1, <1>3, <2>4, <2>5 DEF GetJail, Elsewhere, memory, TypeOK, EnforcerStates
<1>4. CASE Enforce(f)
  <2>1. enforcer.want[f] \in Nat
    BY DEF TypeOK
  <2>2. jail' \in [Jail -> Nat] /\ accepted' \subseteq Jail \X Nat /\ left' \in
          [db : 0 .. MaxDb, f2b : 0 .. MaxF2b, restart : 0 .. MaxRestart, f2bRestart : 0 .. MaxF2bRestart]
    BY <1>4, <2>1, CommandType DEF Enforce
  <2>3. enforcer' \in EnforcerStates
    <3>1. enforcer' = NewEnforcer \/ enforcer' = [enforcer EXCEPT !.at = <<"set", "term">>]
      BY <1>4 DEF Enforce
    <3>. QED  BY <3>1, EnforcerAt
  <2>. QED  BY <1>1, <1>4, <2>2, <2>3 DEF Enforce, Elsewhere, memory, TypeOK, EnforcerStates
<1>. QED
  BY <1>2, <1>3, <1>4

\* What a start of logfort makes of the requests: none is under way.
LEMMA RestartEffect ==
  ASSUME TypeInv, Restart
  PROVE  /\ request' \in Requests /\ RequestInv'
         /\ \A r \in Request : ~UnderWay(r)' /\ Body(r)' = Body(r) /\ Proposed(r)' = Proposed(r)
<1>1. request' = [r \in Request |-> IF UnderWay(r) THEN [request[r] EXCEPT !.at = "done"] ELSE request[r]]
  BY DEF Restart
<1>2. request' \in Requests
  BY <1>1, SMTT(30) DEF TypeInv, TypeOK, Requests
<1>3. \A r \in Request : /\ request'[r].at \in {"new", "done"} /\ (request[r].at = "new" => request'[r].at = "new")
                         /\ request'[r].body = request[r].body /\ request'[r].proposed = request[r].proposed
  BY <1>1 DEF TypeInv, TypeOK, UnderWay
<1>. QED
  BY <1>2, <1>3 DEF TypeInv, RequestInv, UnderWay, Body, Proposed, Jail

LEMMA RestartType == TypeInv /\ (Restart \/ Fail2banRestart) => TypeInv'
<1>1. ASSUME TypeInv, Restart
      PROVE  TypeInv'
  <2>. USE DEF TypeInv
  <2>1. Empty \in Values /\ env' \in Envs /\ db' = db
    BY <1>1 DEF Restart, Empty, Values
  <2>2. cfg' = Overlay(env', db) \/ cfg' = Overlay(env', Empty)
    BY <1>1 DEF Restart
  <2>3. cfg' \in Values
    BY <1>1, <2>1, <2>2, OverlayType DEF TypeOK
  <2>4. allow' \in Nat /\ channels' \in Nat
    BY <1>1, <2>3 DEF Restart, Values, Field
  <2>5. current' \in {Boot, None} /\ running' \subseteq {Boot}
    BY <1>1 DEF Restart, Dispatcher, Started
  <2>6. left' \in [db : 0 .. MaxDb, f2b : 0 .. MaxF2b, restart : 0 .. MaxRestart,
                   f2bRestart : 0 .. MaxF2bRestart]
    BY <1>1, UseType DEF Restart
  <2>7. enforcer' \in EnforcerStates
    BY <1>1, EnforcerAt DEF Restart
  <2>. QED
    BY <1>1, <2>1, <2>3, <2>4, <2>5, <2>6, <2>7, RestartEffect DEF Restart, TypeOK, Requests, EnforcerStates
<1>2. ASSUME TypeInv, Fail2banRestart
      PROVE  TypeInv'
  <2>1. left' \in [db : 0 .. MaxDb, f2b : 0 .. MaxF2b, restart : 0 .. MaxRestart,
                   f2bRestart : 0 .. MaxF2bRestart]
    BY <1>2, UseType DEF Fail2banRestart, TypeInv
  <2>2. RequestInv'
    BY <1>2 DEF Fail2banRestart, Elsewhere, TypeInv, RequestInv, Body, Proposed
  <2>. QED
    BY <1>2, <2>1, <2>2 DEF Fail2banRestart, Elsewhere, memory, TypeInv, TypeOK
<1>. QED
  BY <1>1, <1>2

LEMMA StutterType == TypeInv /\ UNCHANGED vars => TypeInv'
  BY DEF TypeInv, TypeOK, RequestInv, Body, Proposed, vars, memory, history

\* Every variable keeps its type, and a request that goes on has a body.
LEMMA TypeInvariant == Spec => []TypeInv
<1>1. TypeInv /\ [Next]_vars => TypeInv'
  BY RequestType, EnforcerType, RestartType, StutterType DEF Next, RequestStep
<1>. QED
  BY InitType, <1>1, PTL DEF Spec

\* Every variable keeps its type, through every handler, error and restart.
THEOREM TypeCorrect == Spec => []TypeOK
<1>1. TypeInv => TypeOK
  BY DEF TypeInv
<1>. QED
  BY TypeInvariant, <1>1, PTL
-----------------------------------------------------------------------------
(* What is stored, fail2ban took.                                          *)

\* A request is past a parameter only when fail2ban took it.
AcceptedInv ==
  \A r \in Request :
    /\ request[r].at = "term" /\ "retry" \in DOMAIN Body(r) => <<"retry", Body(r)["retry"]>> \in accepted
    /\ request[r].at = "save" => \A f \in Jail \cap DOMAIN Body(r) : <<f, Body(r)[f]>> \in accepted

SavedInv == AcceptedInv /\ SavedWasAccepted

LEMMA SavedInit == Init => SavedInv
<1>. SUFFICES ASSUME Init
              PROVE  SavedInv
  OBVIOUS
<1>1. \A r \in Request : request[r].at = "new"
  BY DEF Init
<1>2. \A f \in Jail : db[f] = 0
  BY DEF Init, Empty, Jail, Field
<1>. QED
  BY <1>1, <1>2 DEF SavedInv, AcceptedInv, SavedWasAccepted

\* Nothing is taken back, and steps that leave the requests and the store alone
\* leave the invariant alone.
LEMMA SavedFrame ==
  ASSUME SavedInv, accepted \subseteq accepted', db' = db,
         \A r \in Request : /\ request'[r].at \in {"term", "save"} => request'[r].at = request[r].at
                            /\ Body(r)' = Body(r)
  PROVE  SavedInv'
<1>1. AcceptedInv'
  BY DEF SavedInv, AcceptedInv
<1>2. SavedWasAccepted'
  BY DEF SavedInv, SavedWasAccepted
<1>. QED
  BY <1>1, <1>2 DEF SavedInv

LEMMA SavedRequest ==
  ASSUME TypeInv, SavedInv, NEW r \in Request, RequestStep(r)
  PROVE  SavedInv'
<1>1. ASSUME NEW b \in Bodies, Begin(r, b)
      PROVE  SavedInv'
  <2>1. /\ request'[r].at = AfterJail(b, "copy") /\ Body(r)' = b
        /\ \A q \in Request \ {r} : request'[q] = request[q]
    BY <1>1 DEF Begin, TypeInv, TypeOK, Body
  <2>2. db' = db /\ accepted' = accepted
    BY <1>1 DEF Begin
  <2>3. /\ AfterJail(b, "copy") = "term" => "retry" \notin DOMAIN b
        /\ AfterJail(b, "copy") = "save" => Jail \cap DOMAIN b = {}
    BY DEF AfterJail, Jail
  <2>. QED  BY <2>1, <2>2, <2>3 DEF SavedInv, AcceptedInv, SavedWasAccepted, Body
<1>2. ASSUME NEW f \in Jail, SetJail(r, f)
      PROVE  SavedInv'
  <2>1. /\ request[r].at = f /\ db' = db /\ accepted \subseteq accepted'
        /\ \A q \in Request : Body(q)' = Body(q) /\ (q # r => request'[q] = request[q])
        /\ request'[r].at # "done" =>
             request'[r].at = AfterJail(Body(r), f) /\ <<f, Body(r)[f]>> \in accepted'
    BY <1>2, GotoEffect DEF SetJail, Accepts, Refuses, TypeInv
  <2>2. /\ AfterJail(Body(r), f) = "term" => f = "retry"
        /\ AfterJail(Body(r), f) = "save" => f = "term" \/ "term" \notin DOMAIN Body(r)
        /\ AfterJail(Body(r), f) # "retry"
    BY DEF AfterJail, Jail
  <2>3. SavedWasAccepted'
    BY <2>1 DEF SavedInv, SavedWasAccepted
  <2>4. AcceptedInv'
    BY <2>1, <2>2 DEF SavedInv, AcceptedInv, Jail
  <2>. QED  BY <2>3, <2>4 DEF SavedInv
<1>3. CASE Save(r)
  <2>1. /\ accepted' = accepted /\ request'[r].at \in {"apply", "done"}
        /\ \A q \in Request : Body(q)' = Body(q) /\ (q # r => request'[q] = request[q])
    BY <1>3, GotoEffect DEF Save, TypeInv
  <2>2. AcceptedInv'
    BY <2>1 DEF SavedInv, AcceptedInv
  <2>3. ASSUME NEW f \in Jail, db'[f] # 0
        PROVE  <<f, db'[f]>> \in accepted
    <3>1. request[r].at = "save"
      BY <1>3 DEF Save
    <3>2. CASE db' = db
      BY <2>3, <3>2 DEF SavedInv, SavedWasAccepted
    <3>3. CASE db' = [g \in Field |-> IF g \in {h \in DOMAIN Body(r) : Settable(h)} THEN Proposed(r)[g] ELSE db[g]]
      <4>1. CASE f \in DOMAIN Body(r) /\ Settable(f)
        BY <3>1, <3>3, <4>1 DEF SavedInv, AcceptedInv, TypeInv, RequestInv, Jail, Field
      <4>2. CASE ~(f \in DOMAIN Body(r) /\ Settable(f))
        BY <2>3, <3>3, <4>2 DEF SavedInv, SavedWasAccepted, Jail, Field
      <4>. QED  BY <4>1, <4>2
    <3>. QED  BY <1>3, <3>2, <3>3 DEF Save
  <2>. QED  BY <2>1, <2>2, <2>3 DEF SavedInv, SavedWasAccepted
<1>4. CASE Apply(r) \/ SetExtra(r) \/ Swap(r)
  <2>1. /\ request'[r].at \in {"allow", "swap", "done"}
        /\ \A q \in Request : Body(q)' = Body(q) /\ (q # r => request'[q] = request[q])
    BY <1>4, GotoEffect DEF Apply, SetExtra, Swap, TypeInv
  <2>2. db' = db /\ accepted' = accepted
    BY <1>4 DEF Apply, SetExtra, Swap, history
  <2>. QED  BY <2>1, <2>2, SavedFrame
<1>. QED
  BY <1>1, <1>2, <1>3, <1>4 DEF RequestStep

LEMMA SavedOther ==
  ASSUME TypeInv, SavedInv, Enforcer \/ Restart \/ Fail2banRestart \/ UNCHANGED vars
  PROVE  SavedInv'
<1>1. CASE Enforcer
  <2>1. accepted \subseteq accepted' /\ db' = db /\ request' = request
    BY <1>1 DEF Enforcer, ReadSetting, GetJail, Enforce, Accepts, Refuses, Elsewhere
  <2>. QED  BY <2>1, SavedFrame DEF Body
<1>2. CASE Restart
  <2>1. db' = db /\ accepted' = accepted
    BY <1>2 DEF Restart
  <2>2. \A r \in Request : request'[r].at \in {"new", "done"} /\ Body(r)' = Body(r)
    BY <1>2, RestartEffect DEF UnderWay
  <2>. QED  BY <2>1, <2>2, SavedFrame
<1>3. CASE Fail2banRestart \/ UNCHANGED vars
  <2>1. accepted' = accepted /\ db' = db /\ request' = request
    BY <1>3 DEF Fail2banRestart, Elsewhere, vars, history
  <2>. QED  BY <2>1, SavedFrame DEF Body
<1>. QED
  BY <1>1, <1>2, <1>3

\* No jail parameter is stored that fail2ban did not take, though requests
\* overlap, commands fail and the enforcer writes the jail as well.
THEOREM SavedAccepted == Spec => []SavedWasAccepted
<1>1. TypeInv /\ SavedInv /\ [Next]_vars => SavedInv'
  BY SavedRequest, SavedOther DEF Next, RequestStep
<1>2. SavedInv => SavedWasAccepted
  BY DEF SavedInv
<1>. QED
  BY TypeInvariant, SavedInit, <1>1, <1>2, PTL DEF Spec
-----------------------------------------------------------------------------
(* Dispatchers.                                                            *)

\* DispatchersAccounted, dispatcher by dispatcher.
Accounted ==
  \A d \in Request \cup {Boot} :
    d \in running <=> \/ d \in refused
                      \/ d = current
                      \/ d \in Request /\ UnderWay(d) /\ Proposed(d).notify # 0

\* A dispatcher is current, or left over from a refused request, but not both,
\* and only when its request is over.
DispatcherInv ==
  /\ Accounted
  /\ current = None <=> channels = 0
  /\ current \in Request => request[current].at = "done" /\ current \notin refused
  /\ \A r \in refused : request[r].at = "done"

LEMMA AccountedSuffices == TypeOK /\ DispatcherInv => DispatchersAccounted
<1>. SUFFICES ASSUME TypeOK, DispatcherInv
              PROVE  DispatchersAccounted
  OBVIOUS
<1>1. \A r \in Request : Started(Proposed(r), r) = IF Proposed(r).notify = 0 THEN {} ELSE {r}
  BY SettingsAssumption, StartedType
<1>. DEFINE own == UNION {Started(Proposed(r), r) : r \in {q \in Request : UnderWay(q)}}
<1>2. own = {r \in Request : UnderWay(r) /\ Proposed(r).notify # 0}
  BY <1>1
<1>. HIDE DEF own
<1>3. running = refused \cup ({current} \ {None}) \cup own
  BY <1>2, SettingsAssumption DEF TypeOK, DispatcherInv, Accounted
<1>. QED
  BY <1>3 DEF DispatchersAccounted, DispatcherInv, own

LEMMA DispatcherInit == Init => DispatcherInv
<1>. SUFFICES ASSUME Init
              PROVE  DispatcherInv
  OBVIOUS
<1>1. \A r \in Request : ~UnderWay(r)
  BY DEF Init, UnderWay
<1>. QED
  BY <1>1, SettingsAssumption DEF Init, DispatcherInv, Accounted, Started, Dispatcher

\* A step that touches no dispatcher and neither begins nor ends a request.
LEMMA DispatcherFrame ==
  ASSUME DispatcherInv, UNCHANGED <<current, channels, running, refused>>,
         \A r \in Request : /\ UnderWay(r)' <=> UnderWay(r)
                            /\ Proposed(r)' = Proposed(r)
                            /\ request[r].at = "done" => request'[r].at = "done",
         TypeOK
  PROVE  DispatcherInv'
  BY DEF DispatcherInv, Accounted, TypeOK

LEMMA DispatcherRequest ==
  ASSUME TypeInv, DispatcherInv, NEW r \in Request, RequestStep(r)
  PROVE  DispatcherInv'
<1>. USE DEF TypeInv
<1>1. ASSUME NEW b \in Bodies, Begin(r, b)
      PROVE  DispatcherInv'
  <2>1. /\ request[r].at = "new" /\ UNCHANGED <<current, channels, refused>>
        /\ running' = running \cup Started(Proposed(r)', r)
        /\ request'[r].at \in {"retry", "term", "save"}
        /\ \A q \in Request \ {r} : request'[q] = request[q]
    BY <1>1, AfterJailType DEF Begin, TypeOK, Proposed
  <2>2. Started(Proposed(r)', r) = IF Proposed(r)'.notify = 0 THEN {} ELSE {r}
    BY SettingsAssumption, StartedType
  <2>3. r \notin running /\ r # current /\ r \notin refused
    BY <2>1 DEF DispatcherInv, Accounted, UnderWay
  <2>4. Accounted'
    BY <2>1, <2>2, <2>3 DEF DispatcherInv, Accounted, UnderWay, Proposed
  <2>. QED  BY <2>1, <2>3, <2>4, ZenonT(30) DEF DispatcherInv, TypeOK
<1>2. ASSUME NEW l, Goto(r, l), UnderWay(r)
      PROVE  /\ UnderWay(r)' <=> l \notin {"new", "done"}
             /\ \A q \in Request : Proposed(q)' = Proposed(q) /\ (q # r => request'[q] = request[q])
             /\ \A q \in Request \ {r} : UnderWay(q)' <=> UnderWay(q)
             /\ request'[r].at = l /\ r # current /\ r \notin refused
             /\ r \in running <=> Proposed(r).notify # 0
  <2>1. /\ request'[r].at = l
        /\ \A q \in Request : Proposed(q)' = Proposed(q) /\ (q # r => request'[q] = request[q])
    BY <1>2, GotoEffect
  <2>2. r # current /\ r \notin refused
    BY <1>2 DEF DispatcherInv, UnderWay
  <2>. QED  BY <1>2, <2>1, <2>2 DEF UnderWay, DispatcherInv, Accounted
<1>3. ASSUME NEW l, Goto(r, l), UnderWay(r), l \notin {"new", "done"}, UNCHANGED <<current, channels, running, refused>>
      PROVE  DispatcherInv'
  <2>1. \A q \in Request : /\ UnderWay(q)' <=> UnderWay(q)
                           /\ Proposed(q)' = Proposed(q)
    BY <1>2, <1>3
  <2>2. \A q \in Request : request[q].at = "done" => request'[q].at = "done"
    BY <1>2, <1>3 DEF UnderWay
  <2>. QED  BY <1>3, <2>1, <2>2, DispatcherFrame
\* A request that ends stops its dispatcher.
<1>4. ASSUME Goto(r, "done"), UnderWay(r), UNCHANGED <<current, channels, refused>>, running' = running \ {r}
      PROVE  DispatcherInv'
  <2>1. Accounted'
    BY <1>2, <1>4 DEF DispatcherInv, Accounted
  <2>. QED  BY <1>2, <1>4, <2>1 DEF DispatcherInv, TypeOK
<1>5. ASSUME NEW f \in Jail, SetJail(r, f)
      PROVE  DispatcherInv'
  <2>1. UnderWay(r) /\ UNCHANGED <<current, channels, refused>> /\ AfterJail(Body(r), f) \notin {"new", "done"}
    BY <1>5, AfterJailType DEF SetJail, UnderWay, Jail
  <2>. QED  BY <1>3, <1>4, <1>5, <2>1 DEF SetJail
<1>6. CASE Save(r)
  <2>1. UnderWay(r) /\ UNCHANGED <<current, channels, running>>
    BY <1>6 DEF Save, UnderWay, memory
  <2>2. CASE Goto(r, "done") /\ refused' = refused \cup ({r} \cap running)
    <3>1. Accounted'
      BY <1>2, <2>1, <2>2 DEF DispatcherInv, Accounted
    <3>. QED  BY <1>2, <2>1, <2>2, <3>1 DEF DispatcherInv, TypeOK
  <2>. QED  BY <1>3, <1>6, <2>1, <2>2 DEF Save
<1>7. CASE Apply(r) \/ SetExtra(r)
  <2>1. UnderWay(r) /\ UNCHANGED <<current, channels, running, refused>>
    BY <1>7 DEF Apply, SetExtra, UnderWay, history
  <2>. QED  BY <1>3, <1>7, <2>1 DEF Apply, SetExtra
<1>8. CASE Swap(r)
  <2>1. UnderWay(r) /\ UNCHANGED refused /\ Goto(r, "done")
    BY <1>8 DEF Swap, UnderWay, history
  <2>2. CASE running' = running \ {current} /\ current' = Dispatcher(Proposed(r), r) /\ channels' = Proposed(r).notify
    <3>1. current' = IF Proposed(r).notify = 0 THEN None ELSE r
      BY <2>2 DEF Dispatcher
    <3>2. Accounted'
      <4>. SUFFICES ASSUME NEW d \in Request \cup {Boot}
                    PROVE  (d \in running <=> \/ d \in refused
                                              \/ d = current
                                              \/ d \in Request /\ UnderWay(d) /\ Proposed(d).notify # 0)'
        BY DEF Accounted
      <4>1. CASE d = r
        BY <1>2, <2>1, <2>2, <3>1, <4>1, SettingsAssumption DEF TypeOK
      <4>2. CASE d # r /\ d # current
        BY <1>2, <2>1, <2>2, <3>1, <4>2, SettingsAssumption DEF DispatcherInv, Accounted
      <4>3. CASE d # r /\ d = current
        <5>1. d \notin refused /\ (d \in Request => ~UnderWay(d)')
          BY <1>2, <2>1, <4>3, SettingsAssumption DEF DispatcherInv, TypeOK, UnderWay
        <5>. QED  BY <2>1, <2>2, <3>1, <4>3, <5>1, SettingsAssumption
      <4>. QED  BY <4>1, <4>2, <4>3
    <3>3. \A q \in refused : request'[q].at = "done"
      BY <1>2, <2>1 DEF DispatcherInv, TypeOK
    <3>4. r \notin refused /\ request'[r].at = "done"
      BY <1>2, <2>1
    <3>5. current' \in Request => current' = r
      BY <3>1, SettingsAssumption
    <3>6. refused' = refused
      BY <2>1
    <3>. QED  BY <2>2, <3>1, <3>2, <3>3, <3>4, <3>5, <3>6, SettingsAssumption DEF DispatcherInv
  <2>3. CASE running' = running \ {r} /\ UNCHANGED <<current, channels>>
    BY <1>4, <2>1, <2>3
  <2>. QED  BY <1>8, <2>2, <2>3 DEF Swap
<1>. QED
  BY <1>1, <1>5, <1>6, <1>7, <1>8 DEF RequestStep

LEMMA DispatcherOther ==
  ASSUME TypeInv, DispatcherInv, Enforcer \/ Restart \/ Fail2banRestart \/ UNCHANGED vars
  PROVE  DispatcherInv'
<1>1. CASE Restart
  <2>1. \A r \in Request : ~UnderWay(r)'
    BY <1>1, RestartEffect
  <2>2. /\ refused' = {} /\ current' \in {Boot, None} /\ (current' = None <=> channels' = 0)
        /\ running' = {current'} \ {None}
    BY <1>1, SettingsAssumption DEF Restart, Started, Dispatcher
  <2>. QED  BY <2>1, <2>2, SettingsAssumption DEF DispatcherInv, Accounted
<1>2. CASE Enforcer \/ Fail2banRestart \/ UNCHANGED vars
  <2>1. UNCHANGED <<current, channels, running, refused, request>>
    BY <1>2 DEF Enforcer, ReadSetting, GetJail, Enforce, Fail2banRestart, Elsewhere, memory, history, vars
  <2>. QED  BY <2>1, DispatcherFrame DEF TypeInv, UnderWay, Proposed
<1>. QED
  BY <1>1, <1>2

\* No dispatcher runs that is not the current one or that of a request under
\* way, however requests overlap, unless its settings could not be stored.
THEOREM Dispatchers == Spec => []DispatchersAccounted
<1>1. TypeInv /\ DispatcherInv /\ [Next]_vars => DispatcherInv'
  BY DispatcherRequest, DispatcherOther DEF Next, RequestStep
<1>2. TypeInv /\ DispatcherInv => DispatchersAccounted
  BY AccountedSuffices DEF TypeInv
<1>. QED
  BY TypeInvariant, DispatcherInit, <1>1, <1>2, PTL DEF Spec
-----------------------------------------------------------------------------
(* The copies of a setting.                                                *)

Single == ~overlap => \A q, r \in Request : UnderWay(q) /\ UnderWay(r) => q = r

Settled ==
  /\ cfg = Overlay(env, db)
  /\ allow = db.allow
  /\ channels = cfg.notify

SavedFields(r) == {f \in DOMAIN Body(r) : Settable(f)}

\* What holds of the one request under way: before it saves, it proposes the
\* configuration with its fields changed; from then on it proposes what the
\* store holds, and each copy it will not write agrees with that.
Pending(r) ==
  /\ request[r].at \in {"retry", "term", "save"} =>
       /\ Settled
       /\ \A f \in Field \ SavedFields(r) : Proposed(r)[f] = cfg[f]
       /\ Proposed(r).general # 0
  /\ request[r].at \in {"apply", "allow", "swap"} =>
       /\ Proposed(r) = Overlay(env, db)
       /\ request[r].at # "apply" => cfg = Proposed(r)
       /\ request[r].at = "swap" \/ "allow" \notin DOMAIN Body(r) => allow = db.allow
       /\ "notify" \notin DOMAIN Body(r) => channels = Proposed(r).notify

AgreeInv ==
  /\ Single
  /\ ~overlap /\ ~blind => /\ Quiet => Settled
                           /\ \A r \in Request : UnderWay(r) => Pending(r)

LEMMA AgreeInit == Init => AgreeInv
<1>. SUFFICES ASSUME Init
              PROVE  AgreeInv
  OBVIOUS
<1>1. \A r \in Request : ~UnderWay(r)
  BY DEF Init, UnderWay
<1>2. Settled
  BY DEF Init, Settled, Empty, Field
<1>. QED
  BY <1>1, <1>2 DEF AgreeInv, Single

\* The store after a save holds what the request proposes.
LEMMA SaveStores ==
  ASSUME TypeOK, NEW r \in Request, request[r].at = "save", Pending(r),
         db' = [f \in Field |-> IF f \in SavedFields(r) THEN Proposed(r)[f] ELSE db[f]]
  PROVE  Proposed(r) = Overlay(env, db')
<1>1. Proposed(r) \in Values /\ db \in Values /\ env \in Envs
  BY DEF TypeOK, Proposed
<1>2. db' \in Values
  BY <1>1 DEF Values
<1>3. /\ \A f \in Field \ SavedFields(r) : Proposed(r)[f] = Overlay(env, db)[f]
      /\ Proposed(r).general # 0
  BY DEF Pending, Settled
<1>4. "notify" \in SavedFields(r) => env = 0
  BY DEF SavedFields, Settable
<1>5. \A f \in Field : Proposed(r)[f] = Overlay(env, db')[f]
  <2>1. \A f \in {"allow", "retry", "term"} : Proposed(r)[f] = Overlay(env, db')[f]
    BY <1>1, <1>2, <1>3, OverlayType DEF Field
  <2>2. Proposed(r).notify = Overlay(env, db').notify
    BY <1>1, <1>2, <1>3, <1>4, OverlayType DEF Field
  <2>3. Proposed(r).general = Overlay(env, db').general
    BY <1>1, <1>2, <1>3, OverlayType DEF Field
  <2>. QED  BY <2>1, <2>2, <2>3 DEF Field
<1>6. Overlay(env, db') \in Values
  BY <1>1, <1>2, OverlayType
<1>. QED
  BY <1>1, <1>5, <1>6 DEF Values

\* It is enough to look at the request that moves: there is no other.
LEMMA AgreeStep ==
  ASSUME TypeOK, AgreeInv, NEW r \in Request,
         ~overlap' => ~overlap /\ \A q \in Request : q # r => ~UnderWay(q),
         blind' = blind,
         \A q \in Request \ {r} : request'[q] = request[q],
         ~overlap' /\ ~blind => /\ UnderWay(r)' => Pending(r)'
                                /\ ~UnderWay(r)' => Settled'
  PROVE  AgreeInv'
<1>1. Single'
  BY DEF AgreeInv, Single, UnderWay
<1>2. ASSUME ~overlap', ~blind'
      PROVE  /\ Quiet' => Settled'
             /\ \A q \in Request : UnderWay(q)' => Pending(q)'
  <2>1. \A q \in Request : UnderWay(q)' => q = r
    BY <1>2 DEF AgreeInv, Single, UnderWay
  <2>. QED  BY <1>2, <2>1 DEF Quiet
<1>. QED
  BY <1>1, <1>2 DEF AgreeInv
\* A step that changes neither a copy nor a request.
LEMMA AgreeFrame ==
  ASSUME AgreeInv, UNCHANGED <<env, db, cfg, allow, channels, blind, overlap, request>>
  PROVE  AgreeInv'
<1>1. Settled' <=> Settled
  BY DEF Settled
<1>2. \A r \in Request : (UnderWay(r)' <=> UnderWay(r)) /\ (Pending(r)' <=> Pending(r))
  BY <1>1 DEF UnderWay, Pending, SavedFields, Settable, Body, Proposed
<1>. QED
  BY <1>1, <1>2 DEF AgreeInv, Single, Quiet

\* What a step of a request under way may rely on when there is no other.
LEMMA AgreeAlone ==
  ASSUME TypeOK, AgreeInv, NEW r \in Request, UnderWay(r), NEW l, Goto(r, l),
         UNCHANGED <<blind, overlap>>,
         ~overlap /\ ~blind /\ Pending(r) => IF l \in {"new", "done"} THEN Settled' ELSE Pending(r)'
  PROVE  AgreeInv'
<1>1. /\ request'[r].at = l
      /\ \A q \in Request \ {r} : request'[q] = request[q]
  BY GotoEffect
<1>2. ~overlap => \A q \in Request : q # r => ~UnderWay(q)
  BY DEF AgreeInv, Single
<1>3. ~overlap /\ ~blind => Pending(r)
  BY DEF AgreeInv
<1>4. UnderWay(r)' <=> l \notin {"new", "done"}
  BY <1>1 DEF UnderWay
<1>. QED
  BY <1>1, <1>2, <1>3, <1>4, AgreeStep

LEMMA AgreeRequest ==
  ASSUME TypeInv, AgreeInv, NEW r \in Request, RequestStep(r)
  PROVE  AgreeInv'
<1>. USE DEF TypeInv
<1>1. ASSUME NEW b \in Bodies, Begin(r, b)
      PROVE  AgreeInv'
  <2>. DEFINE given    == {f \in DOMAIN b : Settable(f) /\ ~(f = "general" /\ b[f] = 0)}
              proposed == [f \in Field |-> IF f \in given THEN b[f] ELSE cfg[f]]
  <2>1. /\ request[r].at = "new" /\ UNCHANGED <<env, db, cfg, allow, channels, blind>>
        /\ request' = [request EXCEPT ![r] = [at |-> AfterJail(b, "copy"), body |-> b, proposed |-> proposed]]
        /\ overlap' = (overlap \/ \E q \in Request : UnderWay(q))
    BY <1>1 DEF Begin
  <2>2. /\ request'[r].at \in {"retry", "term", "save"} /\ Body(r)' = b /\ Proposed(r)' = proposed
        /\ \A q \in Request \ {r} : request'[q] = request[q]
    BY <2>1, AfterJailType DEF TypeOK, Body, Proposed
  <2>3. UnderWay(r)'
    BY <2>2 DEF UnderWay
  <2>4. ASSUME ~overlap', ~blind
        PROVE  Pending(r)'
    <3>1. Settled /\ Settled'
      BY <2>1, <2>4 DEF AgreeInv, Quiet, Settled
    <3>2. given \subseteq SavedFields(r)'
      BY <2>1, <2>2 DEF SavedFields, Settable
    <3>3. \A f \in Field \ SavedFields(r)' : proposed[f] = cfg[f]
      BY <3>2
    <3>4. cfg.general # 0
      BY <3>1, OverlayType DEF Settled, TypeOK
    <3>5. proposed.general # 0
      BY <3>4 DEF Field
    <3>. QED  BY <2>1, <2>2, <3>1, <3>3, <3>5 DEF Pending
  <2>5. ~overlap' => ~overlap /\ \A q \in Request : q # r => ~UnderWay(q)
    BY <2>1
  <2>. QED  BY <2>1, <2>2, <2>3, <2>4, <2>5, AgreeStep
<1>2. ASSUME NEW f \in Jail, SetJail(r, f)
      PROVE  AgreeInv'
  <2>1. /\ UnderWay(r) /\ UNCHANGED <<env, db, cfg, allow, channels, blind, overlap>>
        /\ request[r].at \in {"retry", "term"}
    BY <1>2 DEF SetJail, UnderWay, Jail
  <2>2. PICK l \in {"retry", "term", "save", "done"} : Goto(r, l)
    BY <1>2, AfterJailType DEF SetJail
  <2>3. request'[r].at = l /\ Body(r)' = Body(r) /\ Proposed(r)' = Proposed(r)
    BY <2>2, GotoEffect
  <2>4. Pending(r) => Settled' /\ (l # "done" => Pending(r)')
    BY <2>1, <2>3 DEF Pending, Settled, SavedFields, Settable
  <2>. QED  BY <2>1, <2>2, <2>4, AgreeAlone
<1>3. CASE Save(r)
  <2>1. /\ UnderWay(r) /\ request[r].at = "save"
        /\ UNCHANGED <<env, cfg, allow, channels, blind, overlap>>
    BY <1>3 DEF Save, UnderWay, memory
  <2>2. CASE /\ db' = [f \in Field |-> IF f \in SavedFields(r) THEN Proposed(r)[f] ELSE db[f]]
             /\ Goto(r, "apply")
    <3>1. request'[r].at = "apply" /\ Body(r)' = Body(r) /\ Proposed(r)' = Proposed(r)
      BY <2>2, GotoEffect
    <3>2. ASSUME Pending(r)
          PROVE  Pending(r)'
      <4>1. Proposed(r) = Overlay(env, db')
        BY <2>1, <2>2, <3>2, SaveStores
      <4>2. allow = db.allow /\ channels = cfg.notify
        BY <2>1, <3>2 DEF Pending, Settled
      <4>3. "allow" \notin DOMAIN Body(r) => db'.allow = db.allow
        BY <2>2 DEF SavedFields, Field
      <4>4. "notify" \notin DOMAIN Body(r) => Proposed(r).notify = cfg.notify
        BY <2>1, <3>2 DEF Pending, SavedFields, Field
      <4>. QED  BY <2>1, <3>1, <4>1, <4>2, <4>3, <4>4 DEF Pending
    <3>. QED  BY <2>1, <2>2, <3>2, AgreeAlone
  <2>3. CASE UNCHANGED db /\ Goto(r, "done")
    <3>1. Pending(r) => Settled'
      BY <2>1, <2>3 DEF Pending, Settled
    <3>. QED  BY <2>1, <2>3, <3>1, AgreeAlone
  <2>. QED  BY <1>3, <2>2, <2>3 DEF Save, SavedFields
<1>4. CASE Apply(r)
  <2>1. /\ UnderWay(r) /\ request[r].at = "apply" /\ cfg' = Proposed(r)
        /\ UNCHANGED <<env, db, allow, channels, blind, overlap>>
        /\ Goto(r, IF "allow" \in DOMAIN Body(r) THEN "allow" ELSE "swap")
    BY <1>4 DEF Apply, UnderWay, history
  <2>2. PICK l \in {"allow", "swap"} : Goto(r, l) /\ (l = "swap" => "allow" \notin DOMAIN Body(r))
    BY <2>1
  <2>3. request'[r].at = l /\ Body(r)' = Body(r) /\ Proposed(r)' = Proposed(r)
    BY <2>2, GotoEffect
  <2>4. Pending(r) => Pending(r)'
    BY <2>1, <2>2, <2>3 DEF Pending
  <2>. QED  BY <2>1, <2>2, <2>4, AgreeAlone
<1>5. CASE SetExtra(r)
  <2>1. /\ UnderWay(r) /\ request[r].at = "allow" /\ allow' = Proposed(r).allow
        /\ UNCHANGED <<env, db, cfg, channels, blind, overlap>> /\ Goto(r, "swap")
    BY <1>5 DEF SetExtra, UnderWay, history
  <2>2. request'[r].at = "swap" /\ Body(r)' = Body(r) /\ Proposed(r)' = Proposed(r)
    BY <2>1, GotoEffect
  <2>3. Overlay(env, db).allow = db.allow
    BY OverlayType DEF TypeOK
  <2>4. Pending(r) => Pending(r)'
    BY <2>1, <2>2, <2>3 DEF Pending
  <2>. QED  BY <2>1, <2>4, AgreeAlone
<1>6. CASE Swap(r)
  <2>1. /\ UnderWay(r) /\ request[r].at = "swap" /\ Goto(r, "done")
        /\ UNCHANGED <<env, db, cfg, allow, blind, overlap>>
        /\ channels' = IF "notify" \in DOMAIN Body(r) THEN Proposed(r).notify ELSE channels
    BY <1>6 DEF Swap, UnderWay, history
  <2>2. Pending(r) => Settled'
    BY <2>1 DEF Pending, Settled
  <2>. QED  BY <2>1, <2>2, AgreeAlone
<1>. QED
  BY <1>1, <1>2, <1>3, <1>4, <1>5, <1>6 DEF RequestStep

LEMMA AgreeOther ==
  ASSUME TypeInv, AgreeInv, Enforcer \/ Restart \/ Fail2banRestart \/ UNCHANGED vars
  PROVE  AgreeInv'
<1>1. CASE Restart
  <2>1. \A r \in Request : ~UnderWay(r)'
    BY <1>1, RestartEffect
  <2>2. /\ env' \in Envs /\ db' = db /\ allow' = cfg'.allow /\ channels' = cfg'.notify
        /\ ~blind' => cfg' = Overlay(env', db)
    BY <1>1 DEF Restart
  <2>3. ~blind' => Settled'
    <3>1. Overlay(env', db).allow = db.allow
      BY <2>2, OverlayType DEF TypeInv, TypeOK
    <3>. QED  BY <2>2, <3>1 DEF Settled
  <2>. QED  BY <2>1, <2>3 DEF AgreeInv, Single
<1>2. CASE Enforcer \/ Fail2banRestart \/ UNCHANGED vars
  <2>1. UNCHANGED <<env, db, cfg, allow, channels, blind, overlap, request>>
    BY <1>2 DEF Enforcer, ReadSetting, GetJail, Enforce, Fail2banRestart, Elsewhere, memory, history, vars
  <2>. QED  BY <2>1, AgreeFrame
<1>. QED
  BY <1>1, <1>2

\* When no request is under way, the store, the configuration, the allowlist and
\* the dispatcher tell the same, after any number of requests that did not
\* overlap, whatever they set and wherever they failed.
THEOREM Agreement == Spec => []Agree
<1>1. TypeInv /\ AgreeInv /\ [Next]_vars => AgreeInv'
  BY AgreeRequest, AgreeOther DEF Next, RequestStep
<1>2. AgreeInv => Agree
  BY DEF AgreeInv, Agree, Settled
<1>. QED
  BY TypeInvariant, AgreeInit, <1>1, <1>2, PTL DEF Spec
=============================================================================
