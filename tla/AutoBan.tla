------------------------------ MODULE AutoBan ------------------------------
(***************************************************************************)
(* Who gets banned by themselves: the attempt-threshold auto-ban and the   *)
(* threat-blocklist auto-ban of internal/api/api.go.                       *)
(*                                                                         *)
(* An ingest worker that has stored an attempt runs two checks on its IP,  *)
(* "auto" and then "threat".  Each claims the IP in a cooldown map of its  *)
(* own, then a slot of the semaphore they share, and starts a background   *)
(* task that bans the IP.  Claims live in memory only.                     *)
(*                                                                         *)
(* bans holds the active rows of the bans table with their expiry (0: no   *)
(* expiry); the kernel's side of a ban is BanLifecycle's.  Both features   *)
(* are on, and the IPs here are public and not allowlisted.  Bans lifted   *)
(* by hand are left out.                                                   *)
(***************************************************************************)
EXTENDS Integers, Sequences, FiniteSets

CONSTANTS
  IP,
  Listed,      \* the IPs on the threat blocklist
  Worker,      \* ingest workers
  Task,        \* names for background goroutines
  Slots,       \* capacity of autoBanSem
  Threshold, Window,   \* AutoBanThreshold, AutoBanWindow
  BanTimes,    \* values of AutoBanBanTime; 0: permanent
  Timeout,     \* a background task lasts at most this long (30 s in the code)
  MaxClock, MaxAttempt, MaxFault

ASSUME AutoBanAssumption ==
  /\ Listed \subseteq IP
  /\ {Slots, Threshold, Window, Timeout} \subseteq Nat \ {0}
  /\ BanTimes \subseteq Nat
  /\ {MaxClock, MaxAttempt, MaxFault} \subseteq Nat

VARIABLES
  banTime,   \* AutoBanBanTime, chosen at the start
  clock,
  attempts,  \* [IP -> when each of its stored attempts happened]
  claims,    \* [Kind -> cooldown map: IP to the time of its claim]
  sem,       \* slots taken
  worker,    \* the check each worker is at
  task,      \* the step each background task is at
  bans,      \* active rows: IP to expiry
  faults,    \* errors of the database or the firewall so far
  served,    \* history: [Kind -> IPs whose present claim has led to a ban]
  owed,      \* history: [Kind -> IPs seen while not banned that must be banned]
  spoilt     \* history: checks that have met a lapsed claim, and "shared" once a
             \* claim stands for a row that is not its own and may go before it

memory  == <<claims, sem, worker, task>>
history == <<served, owed, spoilt>>
vars    == <<banTime, clock, attempts, memory, bans, faults, history>>

Kind == {"auto", "threat"}
Idle == [at |-> "idle"]

TypeOK ==
  /\ banTime \in BanTimes
  /\ clock \in 0 .. MaxClock
  /\ attempts \in [IP -> Seq(0 .. MaxClock)]
  /\ DOMAIN claims = Kind
  /\ \A k \in Kind : DOMAIN claims[k] \subseteq IP /\ \A ip \in DOMAIN claims[k] : claims[k][ip] <= clock
  /\ sem \in 0 .. Slots
  /\ \A w \in Worker : worker[w].at \in {"idle", "claim", "overwrite", "slot"}
  /\ \A t \in Task : task[t].at \in {"idle", "count", "record", "block", "free", "announce"}
  /\ DOMAIN bans \subseteq IP
  /\ faults \in 0 .. MaxFault
  /\ spoilt \subseteq Kind \cup {"shared"}

Init ==
  /\ banTime \in BanTimes
  /\ clock = 0
  /\ attempts = [ip \in IP |-> << >>]
  /\ claims = [k \in Kind |-> << >>]
  /\ sem = 0
  /\ worker = [w \in Worker |-> Idle]
  /\ task = [t \in Task |-> Idle]
  /\ bans = << >>
  /\ faults = 0
  /\ served = [k \in Kind |-> {}]
  /\ owed = [k \in Kind |-> {}]
  /\ spoilt = {}

\* A map with an entry stored or deleted.
With(f, x, v) == [y \in DOMAIN f \cup {x} |-> IF y = x THEN v ELSE f[y]]
Without(f, x) == [y \in DOMAIN f \ {x} |-> f[y]]

\* CountIPEvents
Count(ip, since) == Cardinality({i \in DOMAIN attempts[ip] : attempts[ip][i] >= since})

\* BanIP: INSERT ... WHERE NOT EXISTS.
Insert(ip, expires) == bans' = IF ip \in DOMAIN bans THEN bans ELSE With(bans, ip, expires)

\* The map a check claims in.  Mutant: one map for both.
CooldownShared(k) == "auto"
Cooldown(k) == k

Claim(k, ip, now) == claims' = [claims EXCEPT ![Cooldown(k)] = With(@, ip, now)]
Release(k, ip)    == claims' = [claims EXCEPT ![Cooldown(k)] = Without(@, ip)]

-----------------------------------------------------------------------------
(* The checks of a worker.                                                 *)

\* A worker has stored an attempt and enters the publish hook.
Attempt(w, ip) ==
  /\ worker[w].at = "idle"
  /\ Len(attempts[ip]) < MaxAttempt
  /\ attempts' = [attempts EXCEPT ![ip] = Append(@, clock)]
  /\ worker' = [worker EXCEPT ![w] = [at |-> "claim", kind |-> "auto", ip |-> ip, now |-> clock]]
  /\ owed' = [k \in Kind |->
                IF ip \in DOMAIN bans THEN owed[k]
                ELSE IF k = "threat" THEN owed[k] \cup ({ip} \cap Listed)
                ELSE IF Count(ip, clock - Window) + 1 >= Threshold THEN owed[k] \cup {ip}
                ELSE owed[k]]
  /\ UNCHANGED <<banTime, clock, claims, sem, task, bans, faults, served, spoilt>>

\* What a worker does after a check.
NextCheck(w) ==
  worker' = [worker EXCEPT ![w] =
               IF @.kind = "auto" /\ @.ip \in Listed
               THEN [@ EXCEPT !.at = "claim", !.kind = "threat"] ELSE Idle]

\* A claim this old no longer holds.
Lapsed(k, ip) ==
  LET age == clock - claims[Cooldown(k)][ip]
  IN  IF k = "auto" THEN age >= Window ELSE banTime > 0 /\ age >= banTime

\* Mutant: Load, and Store where the map has no entry, in place of LoadOrStore.
ClaimLoadThenStore(w) ==
  LET k == worker[w].kind  ip == worker[w].ip IN
  /\ worker[w].at = "claim"
  /\ IF ip \in DOMAIN claims[Cooldown(k)] /\ ~Lapsed(k, ip)
     THEN NextCheck(w)
     ELSE worker' = [worker EXCEPT ![w] = [@ EXCEPT !.at = "overwrite", !.now = clock]]
  /\ UNCHANGED <<banTime, clock, attempts, claims, sem, task, bans, faults, history>>

\* time.Now and LoadOrStore.
ClaimIP(w) ==
  LET k == worker[w].kind  ip == worker[w].ip IN
  /\ worker[w].at = "claim"
  /\ \/ /\ ip \notin DOMAIN claims[Cooldown(k)]
        /\ Claim(k, ip, clock)
        /\ served' = [served EXCEPT ![k] = @ \ {ip}]
        /\ worker' = [worker EXCEPT ![w] = [@ EXCEPT !.at = "slot", !.now = clock]]
        /\ UNCHANGED spoilt
     \/ /\ ip \in DOMAIN claims[Cooldown(k)] /\ Lapsed(k, ip)
        /\ worker' = [worker EXCEPT ![w] = [@ EXCEPT !.at = "overwrite", !.now = clock]]
        /\ spoilt' = spoilt \cup {k}
        /\ UNCHANGED <<claims, served>>
     \/ /\ ip \in DOMAIN claims[Cooldown(k)] /\ ~Lapsed(k, ip)
        /\ NextCheck(w)
        /\ UNCHANGED <<claims, served, spoilt>>
  /\ UNCHANGED <<banTime, clock, attempts, sem, task, bans, faults, owed>>

\* Store over the lapsed claim.
Overwrite(w) ==
  LET k == worker[w].kind  ip == worker[w].ip IN
  /\ worker[w].at = "overwrite"
  /\ Claim(k, ip, worker[w].now)
  /\ served' = [served EXCEPT ![k] = @ \ {ip}]
  /\ worker' = [worker EXCEPT ![w].at = "slot"]
  /\ UNCHANGED <<banTime, clock, attempts, sem, task, bans, faults, owed, spoilt>>

StartTask(w, t) ==
  /\ worker[w].at = "slot"
  /\ sem < Slots
  /\ task[t].at = "idle"
  /\ sem' = sem + 1
  /\ task' = [task EXCEPT ![t] =
                [at |-> IF worker[w].kind = "auto" THEN "count" ELSE "record",
                 kind |-> worker[w].kind, ip |-> worker[w].ip, now |-> worker[w].now,
                 since |-> clock, failed |-> FALSE]]
  /\ NextCheck(w)
  /\ UNCHANGED <<banTime, clock, attempts, claims, bans, faults, history>>

\* Mutant: the claim stays when there is no slot.
NoSlotKeepingClaim(w) ==
  LET k == worker[w].kind  ip == worker[w].ip IN
  /\ worker[w].at = "slot"
  /\ sem = Slots
  /\ NextCheck(w)
  /\ owed' = [owed EXCEPT ![k] = @ \ {ip}]
  /\ UNCHANGED <<banTime, clock, attempts, claims, sem, task, bans, faults, served, spoilt>>

\* Mutant: a slot is given back that was never taken.
NoSlotReleasing(w) ==
  LET k == worker[w].kind  ip == worker[w].ip IN
  /\ worker[w].at = "slot"
  /\ sem = Slots
  /\ sem' = sem - 1
  /\ Release(k, ip)
  /\ NextCheck(w)
  /\ owed' = [owed EXCEPT ![k] = @ \ {ip}]
  /\ UNCHANGED <<banTime, clock, attempts, task, bans, faults, served, spoilt>>

NoSlot(w) ==
  LET k == worker[w].kind  ip == worker[w].ip IN
  /\ worker[w].at = "slot"
  /\ sem = Slots
  /\ Release(k, ip)
  /\ NextCheck(w)
  /\ owed' = [owed EXCEPT ![k] = @ \ {ip}]
  /\ UNCHANGED <<banTime, clock, attempts, sem, task, bans, faults, served, spoilt>>

-----------------------------------------------------------------------------
(* The background tasks: autoBanBackground and threatBanBackground.        *)

Step(t, l) == task' = [task EXCEPT ![t].at = l]

End(t) ==
  /\ task' = [task EXCEPT ![t] = Idle]
  /\ sem' = sem - 1

\* An error on the way: the claim goes, for the next event to retry.
GiveUp(t) ==
  /\ faults < MaxFault
  /\ faults' = faults + 1
  /\ task' = [task EXCEPT ![t] = [@ EXCEPT !.at = "free", !.failed = TRUE]]

CountAttempts(t) ==
  LET n == Count(task[t].ip, task[t].now - Window) IN
  /\ task[t].at = "count"
  /\ \/ n >= Threshold /\ Step(t, "record") /\ UNCHANGED faults
     \/ n < Threshold /\ Step(t, "free") /\ UNCHANGED faults
     \/ GiveUp(t)
  /\ UNCHANGED <<banTime, clock, attempts, claims, sem, worker, bans, history>>

\* The auto-ban counts its term from the event, the threat ban from now.
RecordBan(t) ==
  LET from == IF task[t].kind = "auto" THEN task[t].now ELSE clock IN
  /\ task[t].at = "record"
  /\ \/ /\ Insert(task[t].ip, IF banTime > 0 THEN from + banTime ELSE 0)
        /\ Step(t, "block")
        /\ spoilt' = IF task[t].ip \in DOMAIN bans /\ bans[task[t].ip] > 0
                     THEN spoilt \cup {"shared"} ELSE spoilt
        /\ UNCHANGED faults
     \/ GiveUp(t) /\ UNCHANGED <<bans, spoilt>>
  /\ UNCHANGED <<banTime, clock, attempts, claims, sem, worker, served, owed>>

\* A firewall error takes the row out again, whoever put it there, unless the
\* rollback fails too.
Block(t) ==
  /\ task[t].at = "block"
  /\ \/ /\ Step(t, "announce")
        /\ served' = [served EXCEPT ![task[t].kind] = @ \cup {task[t].ip}]
        /\ owed' = [k \in Kind |-> owed[k] \ {task[t].ip}]
        /\ UNCHANGED <<bans, faults, spoilt>>
     \/ /\ GiveUp(t)
        /\ bans' \in {bans, Without(bans, task[t].ip)}
        /\ spoilt' = IF \E k \in Kind \ {task[t].kind} : task[t].ip \in DOMAIN claims[k]
                     THEN spoilt \cup {"shared"} ELSE spoilt
        /\ UNCHANGED <<served, owed>>
  /\ UNCHANGED <<banTime, clock, attempts, claims, sem, worker>>

\* Delete from the cooldown map, after an error or below the threshold.
Free(t) ==
  /\ task[t].at = "free"
  /\ Release(task[t].kind, task[t].ip)
  /\ owed' = IF task[t].failed
             THEN [owed EXCEPT ![task[t].kind] = @ \ {task[t].ip}] ELSE owed
  /\ End(t)
  /\ UNCHANGED <<banTime, clock, attempts, worker, bans, faults, served, spoilt>>

\* InsertEvent with its mirror into the bans table, which an error or a duplicate
\* event keeps from running, then publish and notify.
Announce(t) ==
  /\ task[t].at = "announce"
  /\ UNCHANGED bans \/ Insert(task[t].ip, 0)
  /\ End(t)
  /\ UNCHANGED <<banTime, clock, attempts, claims, worker, faults, history>>

-----------------------------------------------------------------------------
(* Around them.                                                            *)

\* The expiry sweeper lifts a ban whose term is over.
Sweep(ip) ==
  /\ ip \in DOMAIN bans
  /\ bans[ip] > 0 /\ bans[ip] <= clock
  /\ bans' = Without(bans, ip)
  /\ UNCHANGED <<banTime, clock, attempts, memory, faults, history>>

Tick ==
  /\ clock < MaxClock
  /\ \A t \in Task : task[t].at # "idle" => clock - task[t].since < Timeout
  /\ clock' = clock + 1
  /\ UNCHANGED <<banTime, attempts, memory, bans, faults, history>>

WorkerStep(w) ==
  \/ \E ip \in IP : Attempt(w, ip)
  \/ ClaimIP(w) \/ Overwrite(w) \/ NoSlot(w)
  \/ \E t \in Task : StartTask(w, t)

TaskStep(t) == CountAttempts(t) \/ RecordBan(t) \/ Block(t) \/ Free(t) \/ Announce(t)

Next ==
  \/ \E w \in Worker : WorkerStep(w)
  \/ \E t \in Task : TaskStep(t)
  \/ \E ip \in IP : Sweep(ip)
  \/ Tick

Spec == Init /\ [][Next]_vars

-----------------------------------------------------------------------------
(* Properties.                                                             *)

\* The work under way for an IP: workers past their claim, and tasks.
UnderWay(k, ip) ==
  {w \in Worker : worker[w].at \in {"overwrite", "slot"} /\ worker[w].kind = k /\ worker[w].ip = ip}
    \cup {t \in Task : task[t].at # "idle" /\ task[t].kind = k /\ task[t].ip = ip}

\* An IP is kept from further checks only while one is under way or after it
\* ended in a ban: errors, a full semaphore and a low count all free the IP.
ClaimedIsServed ==
  \A k \in Kind : \A ip \in DOMAIN claims[k] : ip \in served[k] \/ UnderWay(k, ip) # {}

\* One ban at a time is under way for an IP: the cooldown map "prevents
\* duplicate bans within window" (api.go:57).  It does until a claim lapses.
OneBanUnderWay ==
  \A k \in Kind \ spoilt, ip \in IP : Cardinality(UnderWay(k, ip)) <= 1

Quiet ==
  /\ \A w \in Worker : worker[w].at = "idle"
  /\ \A t \in Task : task[t].at = "idle"

\* Once the workers and tasks are done, an unbanned IP whose last attempt took
\* it to the threshold is banned, unless an error or a full semaphore dropped it
\* (README.md:30, "automatically ban IPs that exceed a configurable threshold").
ThresholdBans ==
  Quiet => \A ip \in owed["auto"] \ DOMAIN bans : Count(ip, clock - Window) < Threshold

\* Likewise an IP on the blocklist, for any attempt it makes while unbanned: "an
\* IP that returns after a temporary ban expired is banned again" (api.go:1485-1487).
\* Two things break this: an IP that comes back when its claim has lapsed and the
\* sweeper has not lifted the row yet, and a row that both features rely on, which
\* ends with the term of the first or is taken out by a rollback of the other: the
\* claim then stands for a ban that is gone.
ThreatBans ==
  Quiet /\ spoilt \cap {"threat", "shared"} = {} => owed["threat"] \subseteq DOMAIN bans
=============================================================================
