------------------------------ MODULE Settings ------------------------------
(***************************************************************************)
(* The runtime settings: handlePostSettings of internal/api/api.go, the    *)
(* fail2ban jail it configures, the enforcer that keeps the jail that way  *)
(* (runF2BEnforce of cmd/logfort/main.go), and the overlay of the stored   *)
(* settings at start (OverlaySettings of internal/config/config.go).       *)
(*                                                                         *)
(* A setting has up to five copies: in the store, in the configuration in  *)
(* memory, in the allowlist, in the notification dispatcher built from it, *)
(* and in fail2ban's jail.  A request changes them one after the other, by *)
(* way of a copy of the configuration taken at its start.                  *)
(*                                                                         *)
(* The fields are reduced to one of each kind and two of the jail's, whose *)
(* commands can fail separately.  Values are numbers; 0 is an empty value, *)
(* which the store and the jail have where nothing was ever set, and which *)
(* a request may send for "general" (a retention of 0 days, ignored) and   *)
(* for "notify" and "allow" (none).  A request whose body is refused       *)
(* changes nothing and is left out.                                        *)
(***************************************************************************)
EXTENDS Naturals, FiniteSets

CONSTANTS
  Request,     \* settings requests; each is sent at most once
  Boot, None,  \* the dispatcher built at start; no dispatcher
  Bodies,      \* what a request may send: functions from some fields to values
  Envs,        \* the values the environment may give "notify"; 0 for none
  Default,     \* the value of "general" when it was never set
  MaxDb, MaxF2b, MaxRestart, MaxF2bRestart
               \* store errors, fail2ban errors, restarts of either

Field == {"general", "notify", "allow", "retry", "term"}
Jail  == {"retry", "term"}

ASSUME SettingsAssumption ==
  /\ Boot \notin Request /\ None \notin Request /\ Boot # None
  /\ \A b \in Bodies : DOMAIN b \subseteq Field /\ \A f \in DOMAIN b : b[f] \in Nat
  /\ \A b \in Bodies : \A f \in DOMAIN b \cap Jail : b[f] > 0
  /\ Envs \subseteq Nat /\ Default \in Nat \ {0}
  /\ {MaxDb, MaxF2b, MaxRestart, MaxF2bRestart} \subseteq Nat

VARIABLES
  env,        \* the environment's value of "notify" at this start
  db,         \* the settings table
  cfg,        \* s.cfg
  allow,      \* the extra entries of the live allowlist
  current,    \* the dispatcher events go to
  channels,   \* the value of "notify" it was built from
  running,    \* the dispatchers that were not stopped
  jail,       \* the running jail's parameters
  request,    \* [Request -> where it is, its body, its proposed configuration]
  enforcer,   \* where runF2BEnforce is, what it read, and whether the jail has it
  left,       \* what is left of the bounds
  blind,      \* history: this start could not read the store
  overlap,    \* history: two requests overlapped since the start
  refused,    \* history: the dispatchers of requests the store refused
  accepted    \* history: the values fail2ban took, per jail field

memory  == <<cfg, allow, current, channels, running>>
history == <<blind, overlap, refused, accepted>>
vars    == <<env, db, memory, jail, request, enforcer, left, history>>

Values == [Field -> Nat]
Empty  == [f \in Field |-> 0]

TypeOK ==
  /\ env \in Envs /\ db \in Values /\ cfg \in Values /\ allow \in Nat
  /\ current \in Request \cup {Boot, None} /\ channels \in Nat
  /\ running \subseteq Request \cup {Boot}
  /\ jail \in [Jail -> Nat]
  /\ request \in [Request -> [at : {"new", "retry", "term", "save", "apply", "allow", "swap", "done"},
                              body : Bodies \cup {<< >>}, proposed : Values]]
  /\ enforcer \in [at : {"read", "get", "set"} \X Jail,
                   want : [Jail -> Nat], same : BOOLEAN]
  /\ left \in [db : 0 .. MaxDb, f2b : 0 .. MaxF2b, restart : 0 .. MaxRestart,
               f2bRestart : 0 .. MaxF2bRestart]
  /\ blind \in BOOLEAN /\ overlap \in BOOLEAN /\ refused \subseteq Request
  /\ accepted \subseteq Jail \X Nat

Use(what) == left[what] > 0 /\ left' = [left EXCEPT ![what] = @ - 1]

\* OverlaySettings: the environment wins for the notification fields, the
\* store for the others.
Overlay(e, stored) == [stored EXCEPT !.notify  = IF e # 0 THEN e ELSE @,
                                     !.general = IF @ # 0 THEN @ ELSE Default]

\* notify.New: nil unless a channel is configured.
Dispatcher(c, d) == IF c.notify = 0 THEN None ELSE d

\* Mutant: nothing tells that there is no channel.
StartedNil(c, d) == {Dispatcher(c, d)}

\* What starts running with it.
Started(c, d) == {Dispatcher(c, d)} \ {None}

NewEnforcer == [at |-> <<"read", "retry">>, want |-> [f \in Jail |-> 0], same |-> TRUE]

Init ==
  /\ env \in Envs /\ db = Empty
  /\ cfg = Overlay(env, Empty) /\ allow = 0
  /\ current = Dispatcher(cfg, Boot) /\ channels = cfg.notify
  /\ running = Started(cfg, Boot)
  /\ jail = [f \in Jail |-> 0]
  /\ request = [r \in Request |-> [at |-> "new", body |-> <<>>, proposed |-> Empty]]
  /\ enforcer = NewEnforcer
  /\ left = [db |-> MaxDb, f2b |-> MaxF2b, restart |-> MaxRestart, f2bRestart |-> MaxF2bRestart]
  /\ blind = FALSE /\ overlap = FALSE /\ refused = {} /\ accepted = {}

-----------------------------------------------------------------------------
(* handlePostSettings.                                                     *)

Goto(r, l)   == request' = [request EXCEPT ![r].at = l]
UnderWay(r)  == request[r].at \notin {"new", "done"}
Body(r)      == request[r].body
Proposed(r)  == request[r].proposed

\* Mutant: what the environment sets can be changed as well.
SettableUnpinned(f) == TRUE

\* An environment variable pins its field.
Settable(f) == ~(f = "notify" /\ env # 0)

\* The jail's fields come before the save.
AfterJail(b, f) ==
  IF f = "copy" /\ "retry" \in DOMAIN b THEN "retry"
  ELSE IF f \in {"copy", "retry"} /\ "term" \in DOMAIN b THEN "term" ELSE "save"

\* The configuration is copied, the body laid over the copy, and a dispatcher
\* built from the result to see whether it is valid.
Begin(r, b) ==
  LET given    == {f \in DOMAIN b : Settable(f) /\ ~(f = "general" /\ b[f] = 0)}
      proposed == [f \in Field |-> IF f \in given THEN b[f] ELSE cfg[f]] IN
  /\ request[r].at = "new"
  /\ request' = [request EXCEPT ![r] = [at |-> AfterJail(b, "copy"), body |-> b, proposed |-> proposed]]
  /\ running' = running \cup Started(proposed, r)
  /\ overlap' = (overlap \/ \E q \in Request : UnderWay(q))
  /\ UNCHANGED <<env, db, cfg, allow, current, channels, jail, enforcer, left, blind, refused, accepted>>

Refuses(f, n) ==   \* an error, of a command that was or was not carried out
  /\ Use("f2b")
  /\ jail' \in {jail, [jail EXCEPT ![f] = n]}
  /\ UNCHANGED accepted

Accepts(f, n) ==
  /\ jail' = [jail EXCEPT ![f] = n]
  /\ accepted' = accepted \cup {<<f, n>>}
  /\ UNCHANGED left

\* Mutant: an error of fail2ban is passed over.
SetJailIgnoringError(r, f) ==
  /\ request[r].at = f
  /\ Accepts(f, Body(r)[f]) \/ Refuses(f, Body(r)[f])
  /\ Goto(r, AfterJail(Body(r), f))
  /\ UNCHANGED <<env, db, memory, enforcer, blind, overlap, refused>>

\* One command to fail2ban.  An error ends the request.
SetJail(r, f) ==
  /\ request[r].at = f
  /\ \/ /\ Accepts(f, Body(r)[f])
        /\ Goto(r, AfterJail(Body(r), f))
        /\ UNCHANGED running
     \/ /\ Refuses(f, Body(r)[f])
        /\ running' = running \ {r}
        /\ Goto(r, "done")
  /\ UNCHANGED <<env, db, cfg, allow, current, channels, enforcer, blind, overlap, refused>>

\* SetSettings, one transaction.  After an error the request returns without
\* stopping the dispatcher it built.
Save(r) ==
  LET saved == {f \in DOMAIN Body(r) : Settable(f)} IN
  /\ request[r].at = "save"
  /\ \/ /\ db' = [f \in Field |-> IF f \in saved THEN Proposed(r)[f] ELSE db[f]]
        /\ Goto(r, "apply")
        /\ UNCHANGED <<left, refused>>
     \/ /\ saved # {}
        /\ Use("db")
        /\ refused' = refused \cup ({r} \cap running)
        /\ Goto(r, "done")
        /\ UNCHANGED db
  /\ UNCHANGED <<env, memory, jail, enforcer, blind, overlap, accepted>>

\* The whole copy is written back, the fields the request did not name with it.
Apply(r) ==
  /\ request[r].at = "apply"
  /\ cfg' = Proposed(r)
  /\ Goto(r, IF "allow" \in DOMAIN Body(r) THEN "allow" ELSE "swap")
  /\ UNCHANGED <<env, db, allow, current, channels, running, jail, enforcer, left, history>>

\* Allowlist.SetExtra.
SetExtra(r) ==
  /\ request[r].at = "allow"
  /\ allow' = Proposed(r).allow
  /\ Goto(r, "swap")
  /\ UNCHANGED <<env, db, cfg, current, channels, running, jail, enforcer, left, history>>

\* Mutant: the dispatcher that is replaced is not stopped.
SwapKeeping(r) ==
  /\ request[r].at = "swap"
  /\ IF "notify" \in DOMAIN Body(r)
     THEN /\ current' = Dispatcher(Proposed(r), r) /\ channels' = Proposed(r).notify
          /\ UNCHANGED running
     ELSE running' = running \ {r} /\ UNCHANGED <<current, channels>>
  /\ Goto(r, "done")
  /\ UNCHANGED <<env, db, cfg, allow, jail, enforcer, left, history>>

\* The new dispatcher takes over, or is stopped if it was only for validation.
Swap(r) ==
  /\ request[r].at = "swap"
  /\ IF "notify" \in DOMAIN Body(r)
     THEN /\ running' = running \ {current}
          /\ current' = Dispatcher(Proposed(r), r) /\ channels' = Proposed(r).notify
     ELSE running' = running \ {r} /\ UNCHANGED <<current, channels>>
  /\ Goto(r, "done")
  /\ UNCHANGED <<env, db, cfg, allow, jail, enforcer, left, history>>

-----------------------------------------------------------------------------
(* runF2BEnforce: at start and then every ten minutes, apply.              *)

\* What a pass of apply leaves alone.
Elsewhere == <<env, db, memory, request, blind, overlap, refused>>

Wanted == {f \in Jail : enforcer.want[f] # 0}

\* Sets what was ever set, "retry" first.
FirstSet == <<"set", IF "retry" \in Wanted THEN "retry" ELSE "term">>

\* GetSetting; an error counts as a setting never made.  With nothing set the
\* pass ends.
ReadSetting(f) ==
  /\ enforcer.at = <<"read", f>>
  /\ \E n \in {db[f], 0} :
       LET want == [enforcer.want EXCEPT ![f] = n] IN
       /\ IF n = db[f] THEN UNCHANGED left ELSE Use("db")
       /\ enforcer' = IF f = "retry" THEN [enforcer EXCEPT !.want = want, !.at = <<"read", "term">>]
                      ELSE IF \A g \in Jail : want[g] = 0 THEN NewEnforcer
                      ELSE [enforcer EXCEPT !.want = want, !.at = <<"get", "retry">>]
  /\ UNCHANGED <<Elsewhere, jail, accepted>>

\* Mutant: only the first parameter is compared.
GetJailFirstOnly(f) ==
  LET same == f = "term" \/ enforcer.want[f] \in {0, jail[f]} IN
  /\ enforcer.at = <<"get", f>>
  /\ enforcer' = IF f = "retry" THEN [enforcer EXCEPT !.same = same, !.at = <<"get", "term">>]
                 ELSE IF enforcer.same THEN NewEnforcer
                 ELSE [enforcer EXCEPT !.at = FirstSet]
  /\ UNCHANGED <<Elsewhere, jail, accepted, left>>

\* One read of the live jail.  The pass ends if all is as wanted; an error
\* counts as a difference.
GetJail(f) ==
  LET same == enforcer.same /\ enforcer.want[f] \in {0, jail[f]} IN
  /\ enforcer.at = <<"get", f>>
  /\ \/ /\ enforcer' = IF f = "retry" THEN [enforcer EXCEPT !.same = same, !.at = <<"get", "term">>]
                       ELSE IF same THEN NewEnforcer
                       ELSE [enforcer EXCEPT !.at = FirstSet]
        /\ UNCHANGED left
     \/ Use("f2b") /\ enforcer' = [enforcer EXCEPT !.at = FirstSet]
  /\ UNCHANGED <<Elsewhere, jail, accepted>>

\* Manager.SetJail with what was read.  An error ends the pass.
Enforce(f) ==
  /\ enforcer.at = <<"set", f>>
  /\ \/ /\ Accepts(f, enforcer.want[f])
        /\ enforcer' = IF f = "retry" /\ "term" \in Wanted
                       THEN [enforcer EXCEPT !.at = <<"set", "term">>] ELSE NewEnforcer
     \/ Refuses(f, enforcer.want[f]) /\ enforcer' = NewEnforcer
  /\ UNCHANGED Elsewhere

-----------------------------------------------------------------------------
\* fail2ban starts again with the parameters of its own files.
Fail2banRestart ==
  /\ Use("f2bRestart")
  /\ jail' = [f \in Jail |-> 0]
  /\ UNCHANGED <<Elsewhere, enforcer, accepted>>

\* logfort starts again, perhaps in another environment.  When the store cannot
\* be read it goes on without the stored settings.
Restart ==
  /\ Use("restart")
  /\ env' \in Envs
  /\ \/ blind' = FALSE /\ cfg' = Overlay(env', db)
     \/ db # Empty /\ blind' = TRUE /\ cfg' = Overlay(env', Empty)
  /\ allow' = cfg'.allow
  /\ current' = Dispatcher(cfg', Boot) /\ channels' = cfg'.notify
  /\ running' = Started(cfg', Boot)
  /\ request' = [r \in Request |-> IF UnderWay(r) THEN [request[r] EXCEPT !.at = "done"] ELSE request[r]]
  /\ enforcer' = NewEnforcer
  /\ overlap' = FALSE /\ refused' = {}
  /\ UNCHANGED <<db, jail, accepted>>

Enforcer == \E f \in Jail : ReadSetting(f) \/ GetJail(f) \/ Enforce(f)

Next ==
  \/ \E r \in Request :
       \/ \E b \in Bodies : Begin(r, b)
       \/ \E f \in Jail : SetJail(r, f)
       \/ Save(r) \/ Apply(r) \/ SetExtra(r) \/ Swap(r)
  \/ Enforcer
  \/ Fail2banRestart
  \/ Restart

Spec == Init /\ [][Next]_vars

\* The enforcer runs from the start, on a ticker, and every call it makes has
\* a timeout.
FairSpec == Spec /\ WF_vars(Enforcer)

-----------------------------------------------------------------------------
Quiet == \A r \in Request : ~UnderWay(r)

\* Every copy of a setting tells the same when no request is under way: what
\* the program would load if it started now is what it runs with, in the
\* allowlist and in the dispatcher too.  Requests that overlap break it, since
\* each writes back fields it only copied, and so does a start that could not
\* read the store.
Agree ==
  Quiet /\ ~overlap /\ ~blind =>
    /\ cfg = Overlay(env, db)
    /\ allow = db.allow
    /\ channels = cfg.notify

\* The dispatchers that run, and send digests, are the current one and those of
\* the requests under way, whatever failed and however requests overlapped; but
\* for those of requests whose settings could not be stored.  There is a current
\* one as long as its configuration names a channel.
DispatchersAccounted ==
  /\ current = None <=> channels = 0
  /\ running = refused \cup ({current} \ {None})
                 \cup UNION {Started(Proposed(r), r) : r \in {q \in Request : UnderWay(q)}}

\* No jail parameter is stored that fail2ban did not take: "saved but not
\* applied" (handlePostSettings).
SavedWasAccepted == \A f \in Jail : db[f] # 0 => <<f, db[f]>> \in accepted

\* A stored jail parameter is in force in the end, through restarts of
\* fail2ban, failing commands, and passes that write what they read too early.
JailConverges == \A f \in Jail : <>[](db[f] # 0 => jail[f] = db[f])
=============================================================================
