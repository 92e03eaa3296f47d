--------------------------- MODULE BanLifecycle ---------------------------
(***************************************************************************)
(* The life of a ban: the rows of the bans table                           *)
(* (internal/store/sqlite.go), the firewall's set (the kernel's with the   *)
(* nftables responder, a jail's with the fail2ban one; internal/responder) *)
(* and everything that moves an address                                    *)
(* between them: the ban and unban handlers and the background bans        *)
(* (internal/api/api.go), the expiry sweeper and the boot reconciliation   *)
(* (cmd/logfort/main.go), and the mirror of fail2ban's log lines inside    *)
(* InsertEvent.                                                            *)
(*                                                                         *)
(* Each statement is atomic (one SQLite connection; one netlink batch);    *)
(* nothing is held across two of them, so every handler is a sequence of   *)
(* steps that interleaves with all the others.  A failing statement, a     *)
(* crash and a host reboot can come between any two steps.                 *)
(*                                                                         *)
(* Abstractions.  Rows with active = 0 are history that none of these      *)
(* statements reads, so only active rows are kept.  Addresses are valid,   *)
(* public and not the requester's own; the checks for those are left out.  *)
(* Time is a small counter; expires = 0 stands for NULL, a permanent ban.  *)
(***************************************************************************)
EXTENDS Naturals, FiniteSets

CONSTANTS
  IP,          \* addresses
  NoIP,        \* the address of a task that has none
  Task,        \* request handlers and background ban goroutines
  Backends,    \* values of LOGFORT_RESPONDER_BACKEND
  Duration,    \* terms a ban request may carry; 0 is permanent
  BanTime,     \* AutoBanBanTime, the term of a background ban
  BaseAllow,   \* LOGFORT_IGNORE_IPS, immutable
  F2bLines,    \* fail2ban log lines are ingested
  CanDisable,  \* a restart may change LOGFORT_RESPONDER_ENABLED
  MaxTime,     \* bound on the clock
  MaxFw, MaxDb, MaxCrash \* bounds on firewall errors, store errors, crashes

ASSUME ConstantsAssumption ==
  /\ NoIP \notin IP
  /\ Backends \subseteq {"nftables", "fail2ban"}
  /\ Duration \subseteq Nat
  /\ BanTime \in Nat
  /\ BaseAllow \subseteq IP
  /\ F2bLines \in BOOLEAN
  /\ CanDisable \in BOOLEAN
  /\ MaxTime \in Nat
  /\ MaxFw \in Nat /\ MaxDb \in Nat /\ MaxCrash \in Nat

VARIABLES
  bans,        \* the active rows of the bans table
  fw,          \* the addresses in the kernel set, or in the jail
  now,         \* the clock
  extra,       \* allowlist entries added from the settings UI
  enabled,     \* the responder is enabled
  backend,     \* which one, chosen at the start
  pc, req,     \* what each task does next, and for which request
  sw,          \* the expiry sweeper
  rc,          \* the boot reconciliation
  left,        \* how many errors and crashes may still happen
  reported     \* history: an error was logged that leaves this address's
               \* row and kernel element apart until the next start

table    == <<bans, fw>>
control  == <<pc, req>>
settings == <<extra, enabled, backend>>
vars == <<bans, fw, now, extra, enabled, backend, pc, req, sw, rc, left, reported>>

Source   == {"nftables", "fail2ban"}
Fail2ban == "fail2ban"
Own      == backend
Row      == [ip : IP, source : Source, expires : Nat]

NoReq    == [ip |-> NoIP, expires |-> 0]
Request  == [ip : IP \cup {NoIP}, expires : Nat]

BanPC    == {"record", "block", "rollback", "logBan"}
UnbanPC  == {"unblock", "clear", "logUnban"}

TypeOK ==
  /\ bans \subseteq Row
  /\ fw \subseteq IP
  /\ now \in Nat
  /\ extra \subseteq IP
  /\ enabled \in BOOLEAN
  /\ backend \in Source
  /\ pc \in [Task -> {"idle"} \cup BanPC \cup UnbanPC]
  /\ req \in [Task -> Request]
  /\ sw \in [pc : {"scan", "clear", "log"}, todo : SUBSET IP, ip : IP \cup {NoIP}]
  /\ rc \in [listed : BOOLEAN, todo : SUBSET IP]
  /\ left \in [fw : Nat, db : Nat, crash : Nat]
  /\ reported \subseteq IP
  /\ \A t \in Task : pc[t] # "idle" => req[t].ip \in IP
  /\ sw.pc # "scan" => sw.ip \in IP

-----------------------------------------------------------------------------
(* Statements of the store, as functions of the active rows.               *)

Active(b, ip) == \E r \in b : r.ip = ip

Expired(r) == r.expires # 0 /\ r.expires <= now

\* Mutant: the insert without its WHERE NOT EXISTS.
InsertRowUnguarded(b, ip, source, expires) ==
  b \cup {[ip |-> ip, source |-> source, expires |-> expires]}

\* Mutant: an upsert that replaces the row in force.
InsertRowReplacing(b, ip, source, expires) ==
  {r \in b : r.ip # ip}
    \cup {[ip |-> ip, source |-> source, expires |-> expires]}

\* INSERT ... SELECT ... WHERE NOT EXISTS (an active row of ip).
InsertRow(b, ip, source, expires) ==
  IF Active(b, ip) THEN b
  ELSE b \cup {[ip |-> ip, source |-> source, expires |-> expires]}

BanIP(b, ip, expires) == InsertRow(b, ip, Own, expires)

UnbanIP(b, ip) == {r \in b : r.ip # ip}

\* The second statement of InsertEvent.
MirrorBan(b, ip) == InsertRow(b, ip, Fail2ban, 0)

MirrorUnban(b, ip) == {r \in b : ~(r.ip = ip /\ r.source = Fail2ban)}

\* Mutant: every temporary ban is taken for an expired one.
ListTemporaryBans == {r \in bans : r.expires # 0}

ListExpiredBans == {r \in bans : Expired(r)}

-----------------------------------------------------------------------------
Init ==
  /\ bans = {} /\ fw = {}
  /\ now = 0
  /\ extra = {}
  /\ enabled = TRUE
  /\ backend \in Backends
  /\ pc = [t \in Task |-> "idle"]
  /\ req = [t \in Task |-> NoReq]
  /\ sw = [pc |-> "scan", todo |-> {}, ip |-> NoIP]
  /\ rc = [listed |-> backend # "nftables", todo |-> {}]
  /\ left = [fw |-> MaxFw, db |-> MaxDb, crash |-> MaxCrash]
  /\ reported = {}

Goto(t, l) == pc' = [pc EXCEPT ![t] = l] /\ UNCHANGED req

Done(t) ==
  /\ pc' = [pc EXCEPT ![t] = "idle"]
  /\ req' = [req EXCEPT ![t] = NoReq]

\* An error of the firewall or of the store: at most MaxFw and MaxDb of each.
FwError == left.fw > 0 /\ left' = [left EXCEPT !.fw = @ - 1]
DbError == left.db > 0 /\ left' = [left EXCEPT !.db = @ - 1]

\* Mutant: fail2ban's "not banned" is taken for an error.
FwUnbanStrict(ip) == ip \in fw /\ fw' = fw \ {ip}

\* Both accept an element that is already there ("already banned" is no error).
\* nft refuses to delete one that is not (Flush then returns the netlink error),
\* fail2ban's "not banned" is no error.
FwBan(ip)   == fw' = fw \cup {ip}
FwUnban(ip) == (ip \in fw \/ backend = Fail2ban) /\ fw' = fw \ {ip}

\* A command to fail2ban that failed may have been carried out: its answer was late.
Outcomes(after) == {fw} \cup (IF backend = Fail2ban THEN {after} ELSE {})

FwBanFails(ip)   == FwError /\ fw' \in Outcomes(fw \cup {ip})
FwUnbanFails(ip) ==
  \/ ip \notin fw /\ backend # Fail2ban /\ UNCHANGED <<fw, left>>
  \/ FwError /\ fw' \in Outcomes(fw \ {ip})

Allowlisted == BaseAllow \cup extra

ExpiresAt(d) == IF d = 0 THEN 0 ELSE now + d

-----------------------------------------------------------------------------
(* Banning: handleBanPost, autoBanBackground and threatBanBackground run   *)
(* the same four steps.                                                    *)

\* Mutant: the runtime list is consulted and the base list forgotten.
AdmitBanExtraOnly(t, ip, d) ==
  /\ enabled
  /\ pc[t] = "idle"
  /\ ip \notin extra
  /\ pc' = [pc EXCEPT ![t] = "record"]
  /\ req' = [req EXCEPT ![t] = [ip |-> ip, expires |-> ExpiresAt(d)]]
  /\ UNCHANGED <<table, now, settings, sw, rc, left, reported>>

AdmitBan(t, ip, d) ==
  /\ enabled
  /\ pc[t] = "idle"
  /\ ip \notin Allowlisted
  /\ pc' = [pc EXCEPT ![t] = "record"]
  /\ req' = [req EXCEPT ![t] = [ip |-> ip, expires |-> ExpiresAt(d)]]
  /\ UNCHANGED <<table, now, settings, sw, rc, left, reported>>

handleBanPost(t, ip) == \E d \in Duration : AdmitBan(t, ip, d)

\* AutoBanEvent and ThreatBanEvent, once their cooldown and the semaphore let
\* the event through (AutoBan models those).
BackgroundBan(t, ip) == AdmitBan(t, ip, BanTime)

\* Mutant: a store error is logged and the handler goes on.
RecordBanIgnoringError(t) ==
  /\ pc[t] = "record"
  /\ \/ bans' = BanIP(bans, req[t].ip, req[t].expires) /\ UNCHANGED left
     \/ DbError /\ UNCHANGED bans
  /\ Goto(t, "block")
  /\ UNCHANGED <<fw, now, settings, sw, rc, reported>>

RecordBan(t) ==
  /\ pc[t] = "record"
  /\ \/ /\ bans' = BanIP(bans, req[t].ip, req[t].expires)
        /\ Goto(t, "block")
        /\ UNCHANGED left
     \/ /\ DbError
        /\ Done(t)
        /\ UNCHANGED bans
  /\ UNCHANGED <<fw, now, settings, sw, rc, reported>>

Block(t) ==
  /\ pc[t] = "block"
  /\ \/ /\ FwBan(req[t].ip)
        /\ Goto(t, "logBan")
        /\ UNCHANGED left
     \/ /\ FwBanFails(req[t].ip)
        /\ Goto(t, "rollback")
  /\ UNCHANGED <<bans, now, settings, sw, rc, reported>>

Rollback(t) ==
  /\ pc[t] = "rollback"
  /\ \/ /\ bans' = UnbanIP(bans, req[t].ip)
        /\ UNCHANGED <<left, reported>>
     \/ /\ DbError
        /\ reported' = reported \cup {req[t].ip}
        /\ UNCHANGED bans
  /\ Done(t)
  /\ UNCHANGED <<fw, now, settings, sw, rc>>

\* InsertEvent of the ban event: the mirror runs unless the insert failed or
\* found the same second's event already there.
LogBan(t) ==
  /\ pc[t] = "logBan"
  /\ bans' \in {bans, MirrorBan(bans, req[t].ip)}
  /\ Done(t)
  /\ UNCHANGED <<fw, now, settings, sw, rc, left, reported>>

-----------------------------------------------------------------------------
(* Unbanning: handleUnbanPost.                                             *)

handleUnbanPost(t, ip) ==
  /\ enabled
  /\ pc[t] = "idle"
  /\ pc' = [pc EXCEPT ![t] = "unblock"]
  /\ req' = [req EXCEPT ![t] = [ip |-> ip, expires |-> 0]]
  /\ UNCHANGED <<table, now, settings, sw, rc, left, reported>>

Unblock(t) ==
  /\ pc[t] = "unblock"
  /\ \/ /\ FwUnban(req[t].ip)
        /\ Goto(t, "clear")
        /\ UNCHANGED left
     \/ /\ FwUnbanFails(req[t].ip)
        /\ Done(t)
  /\ UNCHANGED <<bans, now, settings, sw, rc, reported>>

Clear(t) ==
  /\ pc[t] = "clear"
  /\ \/ /\ bans' = UnbanIP(bans, req[t].ip)
        /\ Goto(t, "logUnban")
        /\ UNCHANGED <<left, reported>>
     \/ /\ DbError
        /\ reported' = reported \cup {req[t].ip}
        /\ Done(t)
        /\ UNCHANGED bans
  /\ UNCHANGED <<fw, now, settings, sw, rc>>

LogUnban(t) ==
  /\ pc[t] = "logUnban"
  /\ bans' \in {bans, MirrorUnban(bans, req[t].ip)}
  /\ Done(t)
  /\ UNCHANGED <<fw, now, settings, sw, rc, left, reported>>

-----------------------------------------------------------------------------
(* runBanExpiry: at startup and then every minute.  The rows it lists are  *)
(* handled by address, in any order (expires_at orders them in the code).  *)

SweepList ==
  /\ sw.pc = "scan" /\ sw.todo = {}
  /\ sw' = [sw EXCEPT !.todo = {r.ip : r \in ListExpiredBans}]
  /\ UNCHANGED <<table, now, settings, control, rc, left, reported>>

\* Mutant: the row at hand is not remembered for the steps that follow.
SweepUnblockForgetful(ip) ==
  /\ sw.pc = "scan" /\ ip \in sw.todo
  /\ FwUnban(ip)
  /\ sw' = [sw EXCEPT !.pc = "clear", !.todo = @ \ {ip}]
  /\ UNCHANGED <<bans, now, settings, control, rc, left, reported>>

\* With the responder disabled, NoopResponder lifts nothing and reports success.
SweepUnblock(ip) ==
  /\ sw.pc = "scan" /\ ip \in sw.todo
  /\ \/ /\ IF enabled THEN FwUnban(ip) ELSE UNCHANGED fw
        /\ sw' = [pc |-> "clear", todo |-> sw.todo \ {ip}, ip |-> ip]
        /\ UNCHANGED left
     \/ /\ enabled
        /\ FwUnbanFails(ip)
        /\ sw' = [sw EXCEPT !.todo = @ \ {ip}]
  /\ UNCHANGED <<bans, now, settings, control, rc, reported>>

SweepClear ==
  /\ sw.pc = "clear"
  /\ \/ /\ bans' = UnbanIP(bans, sw.ip)
        /\ sw' = [sw EXCEPT !.pc = "log"]
        /\ UNCHANGED <<left, reported>>
     \/ /\ DbError
        /\ sw' = [sw EXCEPT !.pc = "scan", !.ip = NoIP]
        /\ reported' = reported \cup {sw.ip}
        /\ UNCHANGED bans
  /\ UNCHANGED <<fw, now, settings, control, rc>>

SweepLog ==
  /\ sw.pc = "log"
  /\ bans' \in {bans, MirrorUnban(bans, sw.ip)}
  /\ sw' = [sw EXCEPT !.pc = "scan", !.ip = NoIP]
  /\ UNCHANGED <<fw, now, settings, control, rc, left, reported>>

-----------------------------------------------------------------------------
(* reconcileBans: once per start, concurrently with everything else, and   *)
(* with the nftables responder only: "fail2ban restores its own bans".      *)

\* Mutant: temporary bans are left to the sweeper.
RestorablePermanentOnly == {r.ip : r \in {s \in bans : s.source = Own /\ s.expires = 0}}

\* The addresses it will block again.
Restorable == {r.ip : r \in {s \in bans : s.source = Own /\ ~Expired(s)}}

ReconcileList ==
  /\ ~rc.listed
  /\ \/ /\ rc' = [listed |-> TRUE, todo |-> Restorable]
        /\ UNCHANGED <<left, reported>>
     \/ /\ DbError
        /\ rc' = [listed |-> TRUE, todo |-> {}]
        /\ reported' = reported \cup Restorable
  /\ UNCHANGED <<table, now, settings, control, sw>>

ReconcileBan(ip) ==
  /\ ip \in rc.todo
  /\ \/ /\ FwBan(ip)
        /\ UNCHANGED <<left, reported>>
     \/ /\ FwBanFails(ip)
        /\ reported' = reported \cup {ip}
  /\ rc' = [rc EXCEPT !.todo = @ \ {ip}]
  /\ UNCHANGED <<bans, now, settings, control, sw>>

-----------------------------------------------------------------------------
(* The environment.                                                        *)

\* A "Ban" or "Unban" line of fail2ban's own log reaches InsertEvent.
IngestBanLine(ip) ==
  /\ F2bLines
  /\ bans' = MirrorBan(bans, ip)
  /\ UNCHANGED <<fw, now, settings, control, sw, rc, left, reported>>

IngestUnbanLine(ip) ==
  /\ F2bLines
  /\ bans' = MirrorUnban(bans, ip)
  /\ UNCHANGED <<fw, now, settings, control, sw, rc, left, reported>>

\* fail2ban bans an address by itself, or lifts a ban when the jail's term is over.
JailActs(ip) ==
  /\ backend = Fail2ban
  /\ fw' \in {fw \cup {ip}, fw \ {ip}}
  /\ UNCHANGED <<bans, now, settings, control, sw, rc, left, reported>>

\* Allowlist.SetExtra, from handlePostSettings.
SetExtra(s) ==
  /\ extra' = s
  /\ UNCHANGED <<table, now, enabled, backend, control, sw, rc, left, reported>>

Tick ==
  /\ now < MaxTime
  /\ now' = now + 1
  /\ UNCHANGED <<table, settings, control, sw, rc, left, reported>>

\* The process ends between two steps and starts again, at once or later; a
\* host reboot also empties the kernel set, and fail2ban restores its own.  main starts the sweeper always and
\* the reconciliation if the responder is enabled.
Restart(reboot, on) ==
  /\ left.crash > 0
  /\ left' = [left EXCEPT !.crash = @ - 1]
  /\ on = enabled \/ CanDisable
  /\ enabled' = on
  /\ fw' = IF reboot /\ backend # Fail2ban THEN {} ELSE fw
  /\ now' \in now .. MaxTime
  /\ pc' = [t \in Task |-> "idle"]
  /\ req' = [t \in Task |-> NoReq]
  /\ sw' = [pc |-> "scan", todo |-> {}, ip |-> NoIP]
  /\ rc' = [listed |-> ~on \/ backend = Fail2ban, todo |-> {}]
  /\ reported' = {}
  /\ UNCHANGED <<bans, extra, backend>>

-----------------------------------------------------------------------------
BanStep(t)   == RecordBan(t) \/ Block(t) \/ Rollback(t) \/ LogBan(t)
UnbanStep(t) == Unblock(t) \/ Clear(t) \/ LogUnban(t)
TaskStep(t)  == BanStep(t) \/ UnbanStep(t)

SweepStep == SweepList \/ (\E ip \in IP : SweepUnblock(ip)) \/ SweepClear \/ SweepLog

ReconcileStep == ReconcileList \/ (\E ip \in IP : ReconcileBan(ip))

Arrive(t) ==
  \E ip \in IP : handleBanPost(t, ip) \/ BackgroundBan(t, ip) \/ handleUnbanPost(t, ip)

Next ==
  \/ \E t \in Task : Arrive(t) \/ TaskStep(t)
  \/ SweepStep
  \/ ReconcileStep
  \/ \E ip \in IP : IngestBanLine(ip) \/ IngestUnbanLine(ip) \/ JailActs(ip)
  \/ \E s \in SUBSET IP : SetExtra(s)
  \/ Tick
  \/ \E reboot, on \in BOOLEAN : Restart(reboot, on)

Spec == Init /\ [][Next]_vars

\* A goroutine that has a step to take takes it; the ticker fires again after
\* every sweep; the clock advances.  No request, log line or settings change
\* has to come.
Fairness ==
  /\ \A t \in Task : WF_vars(TaskStep(t))
  /\ WF_vars(SweepStep)
  /\ WF_vars(ReconcileStep)
  /\ WF_vars(Tick)

FairSpec == Spec /\ Fairness

-----------------------------------------------------------------------------
(* Properties.                                                             *)

\* At most one active row per address, however many bans, mirrors and re-bans
\* of it are in progress: the WHERE NOT EXISTS of both inserts (sqlite.go:201,
\* 533).  Everything that flips "the" row of an address relies on it.
OneActiveRow ==
  \A r, s \in bans : r.ip = s.ip => r = s

\* Some activity that will decide the fate of this address is between two of
\* its steps.
InFlight(ip) ==
  \/ \E t \in Task : pc[t] \in {"block", "rollback", "clear"} /\ req[t].ip = ip
  \/ sw.pc = "clear" /\ sw.ip = ip
  \/ ~rc.listed \/ ip \in rc.todo

\* A ban of this backend that the dashboard lists and that has not expired is
\* in force in the kernel, unless an activity is still working on the address
\* or an error was logged for it: no interleaving, crash or reboot leaves it
\* silently open (api.go:806, 859; main.go:243).  A jail lifts its bans by itself.
ListedBansAreEnforced ==
  enabled /\ backend = "nftables" =>
    \A r \in bans :
      r.source = Own /\ ~Expired(r) =>
        r.ip \in fw \/ r.ip \in reported \/ InFlight(r.ip)

\* An address of LOGFORT_IGNORE_IPS is never in the kernel set and never has a
\* row of this backend, on any path: request, background ban, restart and
\* reconciliation (api.go:797, 1371, 1480; main.go:305).  What fail2ban bans by itself
\* its own configuration says.
BaseAllowlistNeverBanned ==
  backend = "nftables" => \A ip \in BaseAllow : ip \notin fw /\ \A r \in bans : r.ip = ip => r.source # Own

\* The rows implement the ban book: an entry in force is never altered in
\* place, it is lifted and made anew.
Entries(ip) == {r \in bans : r.ip = ip}

EntryIn(rows) ==
  IF rows = {} THEN [source |-> "none", expires |-> 0]
  ELSE LET r == CHOOSE r \in rows : TRUE
       IN  [source |-> r.source, expires |-> r.expires]

Book == INSTANCE BanBook WITH
          Source <- Source,
          book   <- [ip \in IP |-> EntryIn(Entries(ip))]

ImplementsBanBook == Book!Spec

\* A ban whose term has passed is lifted: its row does not stay active for ever
\* (main.go:396; README.md:23).
Overdue(ip) == \E r \in Entries(ip) : Expired(r)

ExpiredBansAreLifted == \A ip \in IP : Overdue(ip) ~> ~Overdue(ip)

\* It is, unless the kernel refuses to delete an element that is gone already: after
\* a crash, or an error reported for the address.  With fail2ban nothing of this
\* kind stops the sweeper.
Disturbed(ip) == backend = "nftables" /\ (left.crash < MaxCrash \/ ip \in reported)

ExpiryKeepsUp == \A ip \in IP : Overdue(ip) ~> ~Overdue(ip) \/ Disturbed(ip)

\* The kernel blocks no address the bans table does not list as active: there
\* is no block that no expiry and no unban button will ever lift.
NoOrphanBlock == \A ip \in fw : Active(bans, ip)

\* Statements that run beside a ban, or after it, spare the rows that are not
\* theirs: the sweeper, which flips the rows of an address it listed earlier,
\* lifts only bans whose term has passed, and "the bans-table mirror inside
\* InsertEvent is a no-op here" (api.go:828).
OthersRowsAreSpared ==
  [][/\ sw.pc = "clear" /\ sw'.pc = "log" => \A r \in bans \ bans' : Expired(r)
     /\ \A t \in Task :
          pc[t] = "logBan" /\ pc'[t] = "idle" /\ left'.crash = left.crash => bans' = bans]_vars
=============================================================================
