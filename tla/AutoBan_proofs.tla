-------------------------- MODULE AutoBan_proofs --------------------------
(***************************************************************************)
(* Proofs about AutoBan, for any IPs, workers and tasks, any threshold,    *)
(* window, ban term, number of slots, timeout, clock and number of errors. *)
(***************************************************************************)
EXTENDS AutoBan, FiniteSetTheorems, TLAPS

-----------------------------------------------------------------------------
(* Type correctness.                                                       *)

\* The partial maps from IPs into a set.
Book(S) == UNION {[D -> S] : D \in SUBSET IP}

\* A worker at a check and a task at work, and their parts that last.
Check == [at : {"claim", "overwrite", "slot"}, kind : Kind, ip : IP, now : 0 .. MaxClock]
Errand == [at : {"count", "record", "block", "free", "announce"},
           kind : Kind, ip : IP, now : 0 .. MaxClock, since : 0 .. MaxClock, failed : BOOLEAN]

BusyTasks == {t \in Task : task[t].at # "idle"}

RestType ==
  /\ banTime \in BanTimes /\ clock \in 0 .. MaxClock /\ faults \in 0 .. MaxFault
  /\ attempts \in [IP -> Seq(0 .. MaxClock)]
  /\ bans \in Book(Nat)
  /\ served \in [Kind -> SUBSET IP] /\ owed \in [Kind -> SUBSET IP]
  /\ spoilt \subseteq Kind \cup {"shared"}

ClaimType ==
  /\ claims \in [Kind -> Book(0 .. MaxClock)]
  /\ \A k \in Kind : \A ip \in DOMAIN claims[k] : claims[k][ip] <= clock

WorkerType ==
  /\ worker \in [Worker -> {Idle} \cup Check]
  /\ \A w \in Worker : worker[w].at # "idle" => worker[w].now <= clock

TaskType == task \in [Task -> {Idle} \cup Errand]

\* Every slot taken is a task's.
SlotType == IsFiniteSet(BusyTasks) /\ sem = Cardinality(BusyTasks) /\ sem \in 0 .. Slots

TypeInv == RestType /\ ClaimType /\ WorkerType /\ TaskType /\ SlotType

-----------------------------------------------------------------------------
(* The invariants behind the properties.                                   *)

\* A check of the kind has claimed the IP and not started its task, or a task of
\* the kind for the IP has not come to its end.
Claiming(k, ip) ==
  \E w \in Worker : worker[w].at \in {"overwrite", "slot"} /\ worker[w].kind = k /\ worker[w].ip = ip
Working(k, ip, at) == \E t \in Task : task[t].at \in at /\ task[t].kind = k /\ task[t].ip = ip

\* A claim is served, or work on it is under way that will serve or free it: a
\* task that is announcing its ban does neither.
ServedInv ==
  \A k \in Kind : \A ip \in DOMAIN claims[k] :
    \/ ip \in served[k]
    \/ Claiming(k, ip)
    \/ Working(k, ip, {"count", "record", "block", "free"})

Claimers(k, ip) ==
  {w \in Worker : worker[w].at \in {"overwrite", "slot"} /\ worker[w].kind = k /\ worker[w].ip = ip}
Tasks(k, ip) == {t \in Task : task[t].at # "idle" /\ task[t].kind = k /\ task[t].ip = ip}

Alone(k, ip) ==
  /\ \A v, w \in Claimers(k, ip) : v = w
  /\ \A s, t \in Tasks(k, ip) : s = t
  /\ Claimers(k, ip) = {} \/ Tasks(k, ip) = {}
  /\ Claimers(k, ip) # {} \/ Tasks(k, ip) # {} => ip \in DOMAIN claims[k]

\* Until a claim has lapsed, whoever is at work on an IP holds the one claim on it.
AloneInv == \A k \in Kind \ spoilt, ip \in IP : Alone(k, ip)

Clean == spoilt \cap {"threat", "shared"} = {}

\* A threat task that has not recorded its ban, or that is about to free its claim;
\* a task that is putting a recorded ban into the firewall.
Preparing(ip)    == Working("threat", ip, {"record", "free"})
Enforcing(k, ip) == Working(k, ip, {"block"})
Attended(ip)     == \E w \in Worker : worker[w].at # "idle" /\ worker[w].ip = ip

\* What a claim of the threat check stands for: work under way, a row that lasts as
\* long as the claim holds, or nothing once it has lapsed.
Backed(ip) ==
  ip \in DOMAIN claims["threat"] =>
    \/ Claiming("threat", ip) \/ Preparing(ip)
    \/ /\ ip \in DOMAIN bans
       /\ bans[ip] > 0 => banTime > 0 /\ bans[ip] >= claims["threat"][ip] + banTime
    \/ banTime > 0 /\ clock >= claims["threat"][ip] + banTime

\* Who still sees to an IP that must be banned: a worker that comes to its threat
\* check, a task, or a ban that cannot go without "shared".
SeenTo(ip) ==
  ip \in owed["threat"] =>
    /\ ip \in Listed
    /\ \/ Attended(ip) \/ Preparing(ip) \/ Enforcing("threat", ip)
       \/ /\ ip \in DOMAIN claims["threat"]
          /\ (ip \in DOMAIN bans /\ bans[ip] = 0) \/ Enforcing("auto", ip)

\* A row with a term whose IP must still be banned is one that a task is enforcing,
\* unless the threat check has not come to claim the IP or starts again.
TermFresh(ip) ==
  ip \in owed["threat"] /\ ip \in DOMAIN bans /\ bans[ip] > 0 =>
    \/ ip \notin DOMAIN claims["threat"]
    \/ Claiming("threat", ip) \/ Preparing(ip)
    \/ Enforcing("threat", ip) \/ Enforcing("auto", ip)

\* A threat task counts nothing and frees its claim only after an error.
ThreatTasks ==
  \A t \in Task : task[t].at # "idle" /\ task[t].kind = "threat" =>
    task[t].at # "count" /\ (task[t].at = "free" => task[t].failed)

Threatened(ip) == Backed(ip) /\ SeenTo(ip) /\ TermFresh(ip)

ThreatInv == ThreatTasks /\ (Clean => \A ip \in IP : Threatened(ip))

-----------------------------------------------------------------------------
(* What the small steps do, field by field.                                *)

LEMMA Bounds ==
  /\ Slots \in Nat \ {0} /\ Threshold \in Nat \ {0} /\ Window \in Nat \ {0} /\ Timeout \in Nat \ {0}
  /\ MaxClock \in Nat /\ MaxAttempt \in Nat /\ MaxFault \in Nat
  /\ BanTimes \subseteq Nat /\ Listed \subseteq IP
BY AutoBanAssumption

LEMMA WithBook ==
  ASSUME NEW S, NEW f \in Book(S), NEW x \in IP, NEW v \in S
  PROVE  /\ With(f, x, v) \in Book(S)
         /\ DOMAIN With(f, x, v) = DOMAIN f \cup {x}
         /\ With(f, x, v)[x] = v
         /\ \A y \in DOMAIN f \ {x} : With(f, x, v)[y] = f[y]
<1>1. PICK D \in SUBSET IP : f \in [D -> S]
  BY DEF Book
<1>2. With(f, x, v) \in [D \cup {x} -> S] /\ D \cup {x} \in SUBSET IP
  BY <1>1 DEF With
<1>. QED  BY <1>1, <1>2 DEF Book, With

LEMMA WithoutBook ==
  ASSUME NEW S, NEW f \in Book(S), NEW x
  PROVE  /\ Without(f, x) \in Book(S)
         /\ DOMAIN Without(f, x) = DOMAIN f \ {x}
         /\ \A y \in DOMAIN f \ {x} : Without(f, x)[y] = f[y]
<1>1. PICK D \in SUBSET IP : f \in [D -> S]
  BY DEF Book
<1>2. Without(f, x) \in [D \ {x} -> S] /\ D \ {x} \in SUBSET IP
  BY <1>1 DEF Without
<1>. QED  BY <1>1, <1>2 DEF Book, Without

LEMMA BookEntry ==
  ASSUME NEW S, NEW f \in Book(S)
  PROVE  DOMAIN f \subseteq IP /\ \A x \in DOMAIN f : f[x] \in S
BY DEF Book

LEMMA NoEntries == ASSUME NEW S PROVE << >> \in Book(S) /\ DOMAIN << >> = {}
<1>1. << >> \in [{} -> S]
  OBVIOUS
<1>. QED  BY <1>1 DEF Book

LEMMA WorkerAt ==
  ASSUME TypeInv, NEW w \in Worker, worker[w].at # "idle"
  PROVE  worker[w] \in Check /\ worker[w].now <= clock
BY DEF TypeInv, WorkerType, TaskType, Idle

LEMMA TaskAt ==
  ASSUME TypeInv, NEW t \in Task, task[t].at # "idle"
  PROVE  task[t] \in Errand
BY DEF TypeInv, WorkerType, TaskType, Idle

\* A change of one worker's record.
LEMMA SetWorker ==
  ASSUME TypeInv, NEW w \in Worker, NEW r \in {Idle} \cup Check,
         r.at # "idle" => r.now <= clock, worker' = [worker EXCEPT ![w] = r]
  PROVE  /\ worker' \in [Worker -> {Idle} \cup Check]
         /\ \A v \in Worker : worker'[v].at # "idle" => worker'[v].now <= clock
         /\ worker'[w] = r
         /\ \A v \in Worker \ {w} : worker'[v] = worker[v]
BY DEF TypeInv, WorkerType, TaskType

LEMMA SetTask ==
  ASSUME TypeInv, NEW t \in Task, NEW r \in {Idle} \cup Errand, task' = [task EXCEPT ![t] = r]
  PROVE  /\ task' \in [Task -> {Idle} \cup Errand]
         /\ task'[t] = r
         /\ \A s \in Task \ {t} : task'[s] = task[s]
BY DEF TypeInv, WorkerType, TaskType

\* The check a worker comes to.
LEMMA NextCheckEffect ==
  ASSUME TypeInv, NEW w \in Worker, worker[w].at # "idle", NextCheck(w)
  PROVE  /\ worker' \in [Worker -> {Idle} \cup Check]
         /\ \A v \in Worker : worker'[v].at # "idle" => worker'[v].now <= clock
         /\ \A v \in Worker \ {w} : worker'[v] = worker[v]
         /\ IF worker[w].kind = "auto" /\ worker[w].ip \in Listed
            THEN worker'[w].at = "claim" /\ worker'[w].kind = "threat" /\ worker'[w].ip = worker[w].ip
            ELSE worker'[w].at = "idle"
<1>1. worker[w] \in Check /\ worker[w].now <= clock /\ worker \in [Worker -> {Idle} \cup Check]
  BY WorkerAt DEF TypeInv, WorkerType, TaskType
<1>2. CASE worker[w].kind = "auto" /\ worker[w].ip \in Listed
  <2>. DEFINE r == [worker[w] EXCEPT !.at = "claim", !.kind = "threat"]
  <2>1. r \in Check /\ r.at = "claim" /\ r.kind = "threat" /\ r.ip = worker[w].ip /\ r.now = worker[w].now
    BY <1>1 DEF Check, Kind
  <2>2. worker' = [worker EXCEPT ![w] = r]
    BY <1>1, <1>2 DEF NextCheck
  <2>. HIDE DEF r
  <2>. QED  BY <1>1, <1>2, <2>1, <2>2, SetWorker
<1>3. CASE ~(worker[w].kind = "auto" /\ worker[w].ip \in Listed)
  <2>1. worker' = [worker EXCEPT ![w] = Idle]
    BY <1>1, <1>3 DEF NextCheck
  <2>2. Idle.at = "idle"
    BY DEF Idle
  <2>. QED  BY <1>3, <2>1, <2>2, SetWorker
<1>. QED  BY <1>2, <1>3

\* A worker moves on within its check.
LEMMA GotoEffect ==
  ASSUME TypeInv, NEW w \in Worker, worker[w].at # "idle", NEW at \in {"overwrite", "slot"},
         \/ worker' = [worker EXCEPT ![w] = [@ EXCEPT !.at = at, !.now = clock]]
         \/ worker' = [worker EXCEPT ![w].at = at]
  PROVE  /\ worker' \in [Worker -> {Idle} \cup Check]
         /\ \A v \in Worker : worker'[v].at # "idle" => worker'[v].now <= clock
         /\ \A v \in Worker \ {w} : worker'[v] = worker[v]
         /\ worker'[w].at = at /\ worker'[w].kind = worker[w].kind /\ worker'[w].ip = worker[w].ip
<1>1. worker[w] \in Check /\ worker[w].now <= clock /\ worker \in [Worker -> {Idle} \cup Check]
  BY WorkerAt DEF TypeInv, WorkerType, TaskType
<1>2. clock \in 0 .. MaxClock /\ clock <= clock
  BY Bounds DEF TypeInv, RestType, SlotType
<1>3. PICK r \in {[worker[w] EXCEPT !.at = at, !.now = clock], [worker[w] EXCEPT !.at = at]} :
        worker' = [worker EXCEPT ![w] = r]
  BY <1>1
<1>4. /\ r \in Check /\ r.now <= clock
      /\ r.at = at /\ r.kind = worker[w].kind /\ r.ip = worker[w].ip
  BY <1>1, <1>2, <1>3 DEF Check
<1>. QED  BY <1>3, <1>4, SetWorker

\* A task moves on.
LEMMA StepEffect ==
  ASSUME TypeInv, NEW t \in Task, task[t].at # "idle",
         NEW at \in {"record", "block", "free", "announce"}, NEW failed \in BOOLEAN,
         \/ task' = [task EXCEPT ![t].at = at] /\ failed = task[t].failed
         \/ task' = [task EXCEPT ![t] = [@ EXCEPT !.at = at, !.failed = TRUE]] /\ failed = TRUE
  PROVE  /\ task' \in [Task -> {Idle} \cup Errand]
         /\ \A s \in Task \ {t} : task'[s] = task[s]
         /\ task'[t].at = at /\ task'[t].kind = task[t].kind /\ task'[t].ip = task[t].ip
         /\ task'[t].failed = failed
         /\ BusyTasks' = BusyTasks
<1>1. task[t] \in Errand /\ task \in [Task -> {Idle} \cup Errand]
  BY TaskAt DEF TypeInv, WorkerType, TaskType
<1>2. PICK r \in {[task[t] EXCEPT !.at = at], [task[t] EXCEPT !.at = at, !.failed = TRUE]} :
        task' = [task EXCEPT ![t] = r] /\ r.failed = failed
  <2>1. CASE task' = [task EXCEPT ![t].at = at] /\ failed = task[t].failed
    <3>. DEFINE r == [task[t] EXCEPT !.at = at]
    <3>1. task' = [task EXCEPT ![t] = r] /\ r.failed = failed
      BY <1>1, <2>1 DEF Errand
    <3>. QED  BY <3>1
  <2>2. CASE task' = [task EXCEPT ![t] = [@ EXCEPT !.at = at, !.failed = TRUE]] /\ failed = TRUE
    <3>. DEFINE r == [task[t] EXCEPT !.at = at, !.failed = TRUE]
    <3>1. task' = [task EXCEPT ![t] = r] /\ r.failed = failed
      BY <1>1, <2>2 DEF Errand
    <3>. QED  BY <3>1
  <2>. QED  BY <2>1, <2>2
<1>3. r \in Errand /\ r.at = at /\ r.kind = task[t].kind /\ r.ip = task[t].ip
  BY <1>1, <1>2 DEF Errand
<1>4. /\ task' \in [Task -> {Idle} \cup Errand] /\ task'[t] = r
      /\ \A s \in Task \ {t} : task'[s] = task[s]
  BY <1>2, <1>3, SetTask
<1>5. BusyTasks' = BusyTasks
  BY <1>3, <1>4 DEF BusyTasks
<1>. QED  BY <1>2, <1>3, <1>4, <1>5

\* A task ends.
LEMMA EndEffect ==
  ASSUME TypeInv, NEW t \in Task, task[t].at # "idle", End(t)
  PROVE  /\ task' \in [Task -> {Idle} \cup Errand]
         /\ \A s \in Task \ {t} : task'[s] = task[s]
         /\ task'[t].at = "idle"
         /\ IsFiniteSet(BusyTasks)' /\ sem' = Cardinality(BusyTasks)' /\ sem' \in 0 .. Slots
<1>1. /\ task' \in [Task -> {Idle} \cup Errand] /\ task'[t] = Idle
      /\ \A s \in Task \ {t} : task'[s] = task[s]
  BY SetTask DEF End
<1>2. Idle.at = "idle"
  BY DEF Idle
<1>3. BusyTasks' = BusyTasks \ {t} /\ t \in BusyTasks
  BY <1>1, <1>2 DEF BusyTasks
<1>4. IsFiniteSet(BusyTasks) /\ sem = Cardinality(BusyTasks) /\ sem \in 0 .. Slots
  BY DEF TypeInv, RestType, SlotType
<1>5. IsFiniteSet(BusyTasks') /\ Cardinality(BusyTasks') = Cardinality(BusyTasks) - 1
  BY <1>3, <1>4, FS_RemoveElement
<1>6. sem' = sem - 1 /\ Cardinality(BusyTasks') \in Nat
  BY <1>5, FS_CardinalityType DEF End
<1>. QED  BY <1>1, <1>2, <1>4, <1>5, <1>6, Bounds
-----------------------------------------------------------------------------
(* Every step keeps the types.                                             *)

LEMMA KeptTypes ==
  ASSUME TypeInv
  PROVE  /\ UNCHANGED <<worker, clock>> => WorkerType'
         /\ UNCHANGED task => TaskType'
         /\ UNCHANGED <<task, sem>> => SlotType'
         /\ UNCHANGED <<claims, clock>> => ClaimType'
         /\ UNCHANGED <<banTime, clock, attempts, bans, faults, history>> => RestType'
BY DEF TypeInv, WorkerType, TaskType, SlotType, ClaimType, RestType, BusyTasks, history

\* A claim is stored, or deleted.
LEMMA ClaimEffect ==
  ASSUME TypeInv, NEW k \in Kind, NEW ip \in IP, NEW now \in 0 .. MaxClock, now <= clock,
         Claim(k, ip, now), clock' = clock
  PROVE  /\ ClaimType'
         /\ \A j \in Kind \ {k} : claims'[j] = claims[j]
         /\ DOMAIN claims'[k] = DOMAIN claims[k] \cup {ip}
         /\ claims'[k][ip] = now
         /\ \A x \in DOMAIN claims[k] \ {ip} : claims'[k][x] = claims[k][x]
<1>. DEFINE new == With(claims[k], ip, now)
<1>1. claims \in [Kind -> Book(0 .. MaxClock)] /\ \A j \in Kind : \A x \in DOMAIN claims[j] : claims[j][x] <= clock
  BY DEF TypeInv, ClaimType
<1>2. claims' = [claims EXCEPT ![k] = new]
  BY <1>1 DEF Claim, Cooldown
<1>3. /\ new \in Book(0 .. MaxClock) /\ DOMAIN new = DOMAIN claims[k] \cup {ip} /\ new[ip] = now
      /\ \A x \in DOMAIN claims[k] \ {ip} : new[x] = claims[k][x]
  <2>. DEFINE S == 0 .. MaxClock
  <2>1. claims[k] \in Book(S) /\ now \in S
    BY <1>1
  <2>. HIDE DEF S
  <2>2. With(claims[k], ip, now) \in Book(S)
    BY <2>1, WithBook
  <2>3. /\ DOMAIN new = DOMAIN claims[k] \cup {ip} /\ new[ip] = now
        /\ \A x \in DOMAIN claims[k] \ {ip} : new[x] = claims[k][x]
    BY DEF With
  <2>. QED  BY <2>2, <2>3 DEF S
<1>. HIDE DEF new
<1>4. claims' \in [Kind -> Book(0 .. MaxClock)] /\ claims'[k] = new /\ \A j \in Kind \ {k} : claims'[j] = claims[j]
  BY <1>1, <1>2, <1>3
<1>5. \A j \in Kind : \A x \in DOMAIN claims'[j] : claims'[j][x] <= clock
  BY <1>1, <1>3, <1>4
<1>. QED  BY <1>3, <1>4, <1>5 DEF ClaimType

LEMMA ReleaseEffect ==
  ASSUME TypeInv, NEW k \in Kind, NEW ip, Release(k, ip), clock' = clock
  PROVE  /\ ClaimType'
         /\ \A j \in Kind \ {k} : claims'[j] = claims[j]
         /\ DOMAIN claims'[k] = DOMAIN claims[k] \ {ip}
         /\ \A x \in DOMAIN claims[k] \ {ip} : claims'[k][x] = claims[k][x]
<1>. DEFINE new == Without(claims[k], ip)
<1>1. claims \in [Kind -> Book(0 .. MaxClock)] /\ \A j \in Kind : \A x \in DOMAIN claims[j] : claims[j][x] <= clock
  BY DEF TypeInv, ClaimType
<1>2. claims' = [claims EXCEPT ![k] = new]
  BY <1>1 DEF Release, Cooldown
<1>3. /\ new \in Book(0 .. MaxClock) /\ DOMAIN new = DOMAIN claims[k] \ {ip}
      /\ \A x \in DOMAIN claims[k] \ {ip} : new[x] = claims[k][x]
  <2>1. claims[k] \in Book(0 .. MaxClock)
    BY <1>1
  <2>. QED  BY <2>1, WithoutBook
<1>. HIDE DEF new
<1>4. claims' \in [Kind -> Book(0 .. MaxClock)] /\ claims'[k] = new /\ \A j \in Kind \ {k} : claims'[j] = claims[j]
  BY <1>1, <1>2, <1>3
<1>5. \A j \in Kind : \A x \in DOMAIN claims'[j] : claims'[j][x] <= clock
  BY <1>1, <1>3, <1>4
<1>. QED  BY <1>3, <1>4, <1>5 DEF ClaimType

LEMMA InitType == Init => TypeInv
<1>. SUFFICES ASSUME Init
              PROVE  TypeInv
  OBVIOUS
<1>1. RestType
  BY Bounds, NoEntries DEF Init, RestType
<1>2. ClaimType
  <2>1. claims = [k \in Kind |-> << >>]
    BY DEF Init
  <2>. QED  BY <2>1, NoEntries DEF ClaimType
<1>3. WorkerType /\ TaskType
  BY DEF Init, WorkerType, TaskType, Idle
<1>4. BusyTasks = {} /\ sem = 0
  BY DEF Init, BusyTasks, Idle
<1>. QED
  BY <1>1, <1>2, <1>3, <1>4, FS_EmptySet, Bounds DEF TypeInv, SlotType

LEMMA AttemptType ==
  ASSUME TypeInv, NEW w \in Worker, NEW ip \in IP, Attempt(w, ip)
  PROVE  TypeInv'
<1>. DEFINE r == [at |-> "claim", kind |-> "auto", ip |-> ip, now |-> clock]
<1>1. clock \in 0 .. MaxClock /\ clock <= clock
  BY Bounds DEF TypeInv, RestType
<1>2. r \in Check /\ r.now <= clock
  BY <1>1 DEF Check, Kind
<1>3. worker' = [worker EXCEPT ![w] = r] /\ clock' = clock /\ UNCHANGED <<claims, task, sem>>
  BY DEF Attempt
<1>. HIDE DEF r
<1>4. WorkerType'
  BY <1>2, <1>3, SetWorker DEF WorkerType
<1>5. ClaimType' /\ TaskType' /\ SlotType'
  BY <1>3, KeptTypes
<1>6. attempts' \in [IP -> Seq(0 .. MaxClock)]
  <2>1. attempts' = [attempts EXCEPT ![ip] = Append(@, clock)] /\ attempts \in [IP -> Seq(0 .. MaxClock)]
    BY DEF Attempt, TypeInv, RestType
  <2>2. Append(attempts[ip], clock) \in Seq(0 .. MaxClock)
    BY <2>1, <1>1
  <2>. QED  BY <2>1, <2>2
<1>7. owed' \in [Kind -> SUBSET IP]
  BY DEF Attempt, TypeInv, RestType
<1>8. RestType'
  BY <1>6, <1>7 DEF Attempt, TypeInv, RestType
<1>. QED  BY <1>4, <1>5, <1>8 DEF TypeInv

LEMMA ClaimIPType ==
  ASSUME TypeInv, NEW w \in Worker, ClaimIP(w)
  PROVE  TypeInv'
<1>1. worker[w].at # "idle" /\ worker[w] \in Check /\ clock \in 0 .. MaxClock /\ clock <= clock
  BY WorkerAt, Bounds DEF ClaimIP, TypeInv, RestType
<1>2. worker[w].kind \in Kind /\ worker[w].ip \in IP
  BY <1>1 DEF Check
<1>3. clock' = clock /\ UNCHANGED <<task, sem>>
  BY DEF ClaimIP
<1>4. WorkerType'
  BY <1>1, <1>3, GotoEffect, NextCheckEffect DEF ClaimIP, WorkerType
<1>5. ClaimType'
  BY <1>1, <1>2, <1>3, ClaimEffect, KeptTypes DEF ClaimIP
<1>6. TaskType' /\ SlotType'
  BY <1>3, KeptTypes
<1>7. RestType'
  BY <1>2 DEF ClaimIP, TypeInv, RestType
<1>. QED  BY <1>4, <1>5, <1>6, <1>7 DEF TypeInv

LEMMA OverwriteType ==
  ASSUME TypeInv, NEW w \in Worker, Overwrite(w)
  PROVE  TypeInv'
<1>1. worker[w].at # "idle" /\ worker[w] \in Check /\ worker[w].now <= clock
  BY WorkerAt DEF Overwrite
<1>2. worker[w].kind \in Kind /\ worker[w].ip \in IP /\ worker[w].now \in 0 .. MaxClock
  BY <1>1 DEF Check
<1>3. clock' = clock /\ UNCHANGED <<task, sem>>
  BY DEF Overwrite
<1>4. WorkerType'
  BY <1>1, <1>3, GotoEffect DEF Overwrite, WorkerType
<1>5. ClaimType'
  BY <1>1, <1>2, <1>3, ClaimEffect DEF Overwrite
<1>6. TaskType' /\ SlotType'
  BY <1>3, KeptTypes
<1>7. RestType'
  BY DEF Overwrite, TypeInv, RestType
<1>. QED  BY <1>4, <1>5, <1>6, <1>7 DEF TypeInv

LEMMA NoSlotType ==
  ASSUME TypeInv, NEW w \in Worker, NoSlot(w)
  PROVE  TypeInv'
<1>1. worker[w].at # "idle" /\ worker[w] \in Check
  BY WorkerAt DEF NoSlot
<1>2. worker[w].kind \in Kind
  BY <1>1 DEF Check
<1>3. clock' = clock /\ UNCHANGED <<task, sem>> /\ NextCheck(w) /\ Release(worker[w].kind, worker[w].ip)
  BY DEF NoSlot
<1>4. WorkerType'
  BY <1>1, <1>3, NextCheckEffect DEF WorkerType
<1>5. ClaimType'
  BY <1>2, <1>3, ReleaseEffect
<1>6. TaskType' /\ SlotType'
  BY <1>3, KeptTypes
<1>7. RestType'
  BY DEF NoSlot, TypeInv, RestType
<1>. QED  BY <1>4, <1>5, <1>6, <1>7 DEF TypeInv

LEMMA StartTaskEffect ==
  ASSUME TypeInv, NEW w \in Worker, NEW t \in Task, StartTask(w, t)
  PROVE  /\ TaskType' /\ SlotType'
         /\ \A s \in Task \ {t} : task'[s] = task[s]
         /\ task'[t].at = (IF worker[w].kind = "auto" THEN "count" ELSE "record")
         /\ task'[t].kind = worker[w].kind /\ task'[t].ip = worker[w].ip
<1>. DEFINE r == [at |-> IF worker[w].kind = "auto" THEN "count" ELSE "record",
                  kind |-> worker[w].kind, ip |-> worker[w].ip, now |-> worker[w].now,
                  since |-> clock, failed |-> FALSE]
<1>1. worker[w] \in Check /\ clock \in 0 .. MaxClock
  BY WorkerAt DEF StartTask, TypeInv, RestType
<1>2. /\ r \in Errand /\ r.at = (IF worker[w].kind = "auto" THEN "count" ELSE "record") /\ r.at # "idle"
      /\ r.kind = worker[w].kind /\ r.ip = worker[w].ip
  BY <1>1 DEF Check, Errand
<1>3. task' = [task EXCEPT ![t] = r] /\ sem < Slots /\ task[t].at = "idle" /\ sem' = sem + 1
  BY DEF StartTask
<1>. HIDE DEF r
<1>4. /\ task' \in [Task -> {Idle} \cup Errand] /\ task'[t] = r
      /\ \A s \in Task \ {t} : task'[s] = task[s]
  BY <1>2, <1>3, SetTask
<1>5. BusyTasks' = BusyTasks \cup {t} /\ t \notin BusyTasks
  BY <1>2, <1>3, <1>4 DEF BusyTasks
<1>6. IsFiniteSet(BusyTasks) /\ sem = Cardinality(BusyTasks) /\ sem \in 0 .. Slots
  BY DEF TypeInv, SlotType
<1>7. IsFiniteSet(BusyTasks') /\ Cardinality(BusyTasks') = Cardinality(BusyTasks) + 1
  BY <1>5, <1>6, FS_AddElement
<1>8. SlotType'
  BY <1>3, <1>6, <1>7, Bounds DEF SlotType
<1>. QED  BY <1>2, <1>4, <1>8 DEF TaskType

LEMMA StartTaskType ==
  ASSUME TypeInv, NEW w \in Worker, NEW t \in Task, StartTask(w, t)
  PROVE  TypeInv'
<1>1. worker[w].at # "idle" /\ NextCheck(w) /\ clock' = clock /\ UNCHANGED claims
  BY DEF StartTask
<1>2. WorkerType'
  BY <1>1, NextCheckEffect DEF WorkerType
<1>3. ClaimType' /\ RestType'
  BY KeptTypes DEF StartTask
<1>. QED  BY <1>2, <1>3, StartTaskEffect DEF TypeInv

\* What a ban recorded does to the rows.
LEMMA InsertEffect ==
  ASSUME TypeInv, NEW ip \in IP, NEW e \in Nat, Insert(ip, e)
  PROVE  /\ bans' \in Book(Nat)
         /\ DOMAIN bans' = DOMAIN bans \cup {ip}
         /\ \A x \in DOMAIN bans : bans'[x] = bans[x]
         /\ ip \notin DOMAIN bans => bans'[ip] = e
<1>1. bans \in Book(Nat)
  BY DEF TypeInv, RestType
<1>2. With(bans, ip, e) \in Book(Nat)
  BY <1>1, WithBook
<1>3. CASE ip \in DOMAIN bans
  BY <1>1, <1>3 DEF Insert
<1>4. CASE ip \notin DOMAIN bans
  <2>1. bans' = With(bans, ip, e)
    BY <1>4 DEF Insert
  <2>. QED  BY <1>2, <1>4, <2>1 DEF With
<1>. QED  BY <1>3, <1>4

LEMMA RemoveEffect ==
  ASSUME TypeInv, NEW ip, bans' = Without(bans, ip)
  PROVE  /\ bans' \in Book(Nat)
         /\ DOMAIN bans' = DOMAIN bans \ {ip}
         /\ \A x \in DOMAIN bans \ {ip} : bans'[x] = bans[x]
<1>1. bans \in Book(Nat)
  BY DEF TypeInv, RestType
<1>. QED  BY <1>1, WithoutBook

LEMMA BusyTask ==
  ASSUME TypeInv, NEW t \in Task, task[t].at # "idle"
  PROVE  /\ task[t].kind \in Kind /\ task[t].ip \in IP /\ task[t].now \in Nat
         /\ task[t].failed \in BOOLEAN
BY TaskAt, Bounds DEF Errand

\* A task that goes on, with an error or without.
LEMMA OnwardType ==
  ASSUME TypeInv, NEW t \in Task, task[t].at # "idle",
         \/ \E at \in {"record", "block", "free", "announce"} : Step(t, at)
         \/ GiveUp(t)
  PROVE  TaskType' /\ (sem' = sem => SlotType')
<1>1. TaskType' /\ BusyTasks' = BusyTasks
  <2>1. CASE \E at \in {"record", "block", "free", "announce"} : Step(t, at)
    BY <2>1, BusyTask, StepEffect DEF Step, TaskType
  <2>2. CASE GiveUp(t)
    BY <2>2, StepEffect DEF GiveUp, TaskType
  <2>. QED  BY <2>1, <2>2
<1>2. sem' = sem => SlotType'
  BY <1>1 DEF SlotType, TypeInv
<1>. QED  BY <1>1, <1>2

LEMMA TaskStepType ==
  ASSUME TypeInv, NEW t \in Task, TaskStep(t)
  PROVE  TypeInv'
<1>1. CASE CountAttempts(t)
  <2>1. TaskType' /\ SlotType'
    BY <1>1, OnwardType DEF CountAttempts
  <2>2. ClaimType' /\ WorkerType' /\ RestType'
    BY <1>1, Bounds DEF CountAttempts, GiveUp, TypeInv, RestType, ClaimType, WorkerType, history
  <2>. QED  BY <2>1, <2>2 DEF TypeInv
<1>2. CASE RecordBan(t)
  <2>. DEFINE e == IF banTime > 0 THEN (IF task[t].kind = "auto" THEN task[t].now ELSE clock) + banTime ELSE 0
  <2>1. TaskType' /\ SlotType'
    BY <1>2, OnwardType DEF RecordBan
  <2>2. task[t].ip \in IP /\ e \in Nat
    BY <1>2, BusyTask, Bounds DEF RecordBan, TypeInv, RestType
  <2>3. (Insert(task[t].ip, e) \/ UNCHANGED bans) /\ (UNCHANGED faults \/ GiveUp(t))
    BY <1>2 DEF RecordBan
  <2>. HIDE DEF e
  <2>4. bans' \in Book(Nat)
    BY <2>2, <2>3, InsertEffect DEF TypeInv, RestType
  <2>5. faults' \in 0 .. MaxFault
    BY <2>3, Bounds DEF GiveUp, TypeInv, RestType
  <2>6. ClaimType' /\ WorkerType'
    BY <1>2, KeptTypes DEF RecordBan
  <2>7. RestType'
    BY <1>2, <2>4, <2>5 DEF RecordBan, TypeInv, RestType
  <2>. QED  BY <2>1, <2>6, <2>7 DEF TypeInv
<1>3. CASE Block(t)
  <2>1. TaskType' /\ SlotType'
    BY <1>3, OnwardType DEF Block
  <2>2. task[t].ip \in IP /\ task[t].kind \in Kind
    BY <1>3, BusyTask DEF Block
  <2>3. bans' \in Book(Nat)
    BY <1>3, RemoveEffect DEF Block, TypeInv, RestType
  <2>4. faults' \in 0 .. MaxFault
    BY <1>3, Bounds DEF Block, GiveUp, TypeInv, RestType
  <2>5. ClaimType' /\ WorkerType'
    BY <1>3, KeptTypes DEF Block
  <2>6. served' \in [Kind -> SUBSET IP] /\ owed' \in [Kind -> SUBSET IP] /\ spoilt' \subseteq Kind \cup {"shared"}
    BY <1>3, <2>2 DEF Block, TypeInv, RestType
  <2>7. RestType'
    BY <1>3, <2>3, <2>4, <2>6 DEF Block, TypeInv, RestType
  <2>. QED  BY <2>1, <2>5, <2>7 DEF TypeInv
<1>4. CASE Free(t)
  <2>1. task[t].at # "idle" /\ End(t) /\ Release(task[t].kind, task[t].ip) /\ task[t].kind \in Kind
    BY <1>4, BusyTask DEF Free
  <2>2. TaskType' /\ SlotType'
    BY <2>1, EndEffect DEF TaskType, SlotType
  <2>3. ClaimType'
    BY <1>4, <2>1, ReleaseEffect DEF Free
  <2>4. WorkerType'
    BY <1>4, KeptTypes DEF Free
  <2>5. RestType'
    BY <1>4 DEF Free, TypeInv, RestType
  <2>. QED  BY <2>2, <2>3, <2>4, <2>5 DEF TypeInv
<1>5. CASE Announce(t)
  <2>1. task[t].at # "idle" /\ End(t) /\ task[t].ip \in IP
    BY <1>5, BusyTask DEF Announce
  <2>2. TaskType' /\ SlotType'
    BY <2>1, EndEffect DEF TaskType, SlotType
  <2>3. bans' \in Book(Nat)
    BY <1>5, <2>1, InsertEffect DEF Announce, TypeInv, RestType
  <2>4. ClaimType' /\ WorkerType'
    BY <1>5, KeptTypes DEF Announce
  <2>5. RestType'
    BY <1>5, <2>3 DEF Announce, TypeInv, RestType, history
  <2>. QED  BY <2>2, <2>4, <2>5 DEF TypeInv
<1>. QED  BY <1>1, <1>2, <1>3, <1>4, <1>5 DEF TaskStep

LEMMA SweepType ==
  ASSUME TypeInv, NEW ip \in IP, Sweep(ip)
  PROVE  TypeInv'
<1>1. bans' \in Book(Nat)
  BY RemoveEffect DEF Sweep
<1>2. RestType'
  BY <1>1 DEF Sweep, TypeInv, RestType, history
<1>. QED  BY <1>2, KeptTypes DEF Sweep, memory, TypeInv

LEMMA TickType ==
  ASSUME TypeInv, Tick
  PROVE  TypeInv'
<1>1. clock \in 0 .. MaxClock /\ clock' = clock + 1 /\ clock' \in 0 .. MaxClock
  BY Bounds DEF Tick, TypeInv, RestType
<1>2. TaskType' /\ SlotType'
  BY KeptTypes DEF Tick, memory
<1>3. RestType'
  BY <1>1 DEF Tick, TypeInv, RestType, history
<1>4. WorkerType'
  <2>1. worker' = worker /\ worker \in [Worker -> {Idle} \cup Check]
        /\ \A w \in Worker : worker[w].at # "idle" => worker[w].now \in 0 .. MaxClock /\ worker[w].now <= clock
    BY WorkerAt DEF Tick, memory, TypeInv, WorkerType, Check
  <2>2. \A n \in 0 .. MaxClock : n <= clock => n <= clock'
    BY <1>1, Bounds
  <2>. QED  BY <2>1, <2>2 DEF WorkerType
<1>5. ClaimType'
  <2>1. claims' = claims /\ claims \in [Kind -> Book(0 .. MaxClock)]
    BY DEF Tick, memory, TypeInv, ClaimType
  <2>2. \A k \in Kind : \A ip \in DOMAIN claims[k] : claims[k][ip] \in 0 .. MaxClock /\ claims[k][ip] <= clock
    BY <2>1, BookEntry DEF TypeInv, ClaimType
  <2>3. \A n \in 0 .. MaxClock : n <= clock => n <= clock'
    BY <1>1, Bounds
  <2>. QED  BY <2>1, <2>2, <2>3 DEF ClaimType
<1>. QED  BY <1>2, <1>3, <1>4, <1>5 DEF TypeInv

LEMMA NextType == TypeInv /\ [Next]_vars => TypeInv'
<1>. SUFFICES ASSUME TypeInv, [Next]_vars
              PROVE  TypeInv'
  OBVIOUS
<1>1. CASE UNCHANGED vars
  BY <1>1, KeptTypes DEF vars, memory, TypeInv
<1>2. ASSUME NEW w \in Worker, WorkerStep(w)
      PROVE  TypeInv'
  BY <1>2, AttemptType, ClaimIPType, OverwriteType, NoSlotType, StartTaskType DEF WorkerStep
<1>. QED  BY <1>1, <1>2, TaskStepType, SweepType, TickType DEF Next

LEMMA TypeInvariant == Spec => []TypeInv
BY InitType, NextType, PTL DEF Spec

\* Every variable keeps its type: the slots taken are those of tasks, never more
\* than there are nor fewer than none, and no claim is from the future.
THEOREM TypeCorrect == Spec => []TypeOK
<1>1. TypeInv => TypeOK
  <2>. SUFFICES ASSUME TypeInv
                PROVE  TypeOK
    OBVIOUS
  <2>1. DOMAIN claims = Kind /\ \A k \in Kind : DOMAIN claims[k] \subseteq IP
    BY BookEntry DEF TypeInv, ClaimType
  <2>2. DOMAIN bans \subseteq IP
    BY BookEntry DEF TypeInv, RestType
  <2>3. \A w \in Worker : worker[w].at \in {"idle", "claim", "overwrite", "slot"}
    BY WorkerAt DEF Check
  <2>4. \A t \in Task : task[t].at \in {"idle", "count", "record", "block", "free", "announce"}
    BY TaskAt DEF Errand
  <2>. QED  BY <2>1, <2>2, <2>3, <2>4 DEF TypeOK, TypeInv, RestType, ClaimType, SlotType
<1>. QED  BY TypeInvariant, <1>1, PTL

-----------------------------------------------------------------------------
(* No claim stands for nothing.                                            *)

\* Other IPs, and the other check, are not touched by what happens to one worker
\* and one claim.
LEMMA WorkerServed ==
  ASSUME TypeInv, ServedInv, NEW w \in Worker, WorkerStep(w)
  PROVE  ServedInv'
<1>. SUFFICES ASSUME NEW k \in Kind, NEW ip \in DOMAIN claims'[k]
              PROVE  \/ ip \in served'[k]
                     \/ Claiming(k, ip)'
                     \/ Working(k, ip, {"count", "record", "block", "free"})'
  BY DEF ServedInv
<1>0. ip \in DOMAIN claims[k] => \/ ip \in served[k]
                                 \/ Claiming(k, ip)
                                 \/ Working(k, ip, {"count", "record", "block", "free"})
  BY DEF ServedInv
<1>1. ASSUME NEW x \in IP, Attempt(w, x)
      PROVE  \/ ip \in served'[k]
             \/ Claiming(k, ip)'
             \/ Working(k, ip, {"count", "record", "block", "free"})'
  <2>1. /\ worker[w].at = "idle" /\ UNCHANGED <<claims, task, served>>
        /\ \A v \in Worker \ {w} : worker'[v] = worker[v]
    BY <1>1 DEF Attempt, TypeInv, WorkerType
  <2>. QED  BY <1>0, <2>1 DEF Claiming, Working
<1>2. CASE ClaimIP(w)
  <2>1. /\ worker[w].at = "claim" /\ worker[w].at # "idle" /\ worker[w].kind \in Kind /\ worker[w].ip \in IP
        /\ UNCHANGED <<task, clock>> /\ clock \in 0 .. MaxClock /\ clock <= clock
    BY <1>2, WorkerAt, Bounds DEF ClaimIP, Check, TypeInv, RestType
  <2>2. \A v \in Worker \ {w} : worker'[v] = worker[v]
    BY <1>2, <2>1, GotoEffect, NextCheckEffect DEF ClaimIP
  <2>3. CASE claims' = claims /\ served' = served
    BY <1>0, <2>1, <2>2, <2>3 DEF Claiming, Working
  <2>4. CASE /\ Claim(worker[w].kind, worker[w].ip, clock)
             /\ served' = [served EXCEPT ![worker[w].kind] = @ \ {worker[w].ip}]
             /\ worker' = [worker EXCEPT ![w] = [@ EXCEPT !.at = "slot", !.now = clock]]
    <3>1. worker'[w].at = "slot" /\ worker'[w].kind = worker[w].kind /\ worker'[w].ip = worker[w].ip
      BY <2>1, <2>4, GotoEffect
    <3>2. /\ \A j \in Kind \ {worker[w].kind} : claims'[j] = claims[j]
          /\ DOMAIN claims'[worker[w].kind] = DOMAIN claims[worker[w].kind] \cup {worker[w].ip}
      BY <2>1, <2>4, ClaimEffect
    <3>3. CASE k = worker[w].kind /\ ip = worker[w].ip
      BY <3>1, <3>3 DEF Claiming
    <3>4. CASE ~(k = worker[w].kind /\ ip = worker[w].ip)
      <4>1. ip \in DOMAIN claims[k] /\ (ip \in served[k] => ip \in served'[k])
        BY <2>4, <3>2, <3>4 DEF TypeInv, RestType
      <4>. QED  BY <1>0, <4>1, <2>1, <2>2 DEF Claiming, Working
    <3>. QED  BY <3>3, <3>4
  <2>. QED  BY <1>2, <2>3, <2>4 DEF ClaimIP
<1>3. CASE Overwrite(w)
  <2>1. /\ worker[w].at = "overwrite" /\ worker[w].at # "idle" /\ worker[w].kind \in Kind /\ worker[w].ip \in IP
        /\ worker[w].now \in 0 .. MaxClock /\ worker[w].now <= clock
        /\ UNCHANGED <<task, clock>>
    BY <1>3, WorkerAt DEF Overwrite, Check
  <2>2. /\ \A v \in Worker \ {w} : worker'[v] = worker[v]
        /\ worker'[w].at = "slot" /\ worker'[w].kind = worker[w].kind /\ worker'[w].ip = worker[w].ip
    BY <1>3, <2>1, GotoEffect DEF Overwrite
  <2>3. /\ \A j \in Kind \ {worker[w].kind} : claims'[j] = claims[j]
        /\ DOMAIN claims'[worker[w].kind] = DOMAIN claims[worker[w].kind] \cup {worker[w].ip}
    BY <1>3, <2>1, ClaimEffect DEF Overwrite
  <2>4. CASE k = worker[w].kind /\ ip = worker[w].ip
    BY <2>2, <2>4 DEF Claiming
  <2>5. CASE ~(k = worker[w].kind /\ ip = worker[w].ip)
    <3>1. ip \in DOMAIN claims[k] /\ (ip \in served[k] => ip \in served'[k])
      BY <1>3, <2>3, <2>5 DEF Overwrite, TypeInv, RestType
    <3>. QED  BY <1>0, <2>1, <2>2, <3>1 DEF Claiming, Working
  <2>. QED  BY <2>4, <2>5
<1>4. CASE NoSlot(w)
  <2>1. /\ worker[w].at = "slot" /\ worker[w].at # "idle" /\ worker[w].kind \in Kind
        /\ UNCHANGED <<task, served, clock>>
    BY <1>4, WorkerAt DEF NoSlot, Check
  <2>2. \A v \in Worker \ {w} : worker'[v] = worker[v]
    BY <1>4, <2>1, NextCheckEffect DEF NoSlot
  <2>3. /\ \A j \in Kind \ {worker[w].kind} : claims'[j] = claims[j]
        /\ DOMAIN claims'[worker[w].kind] = DOMAIN claims[worker[w].kind] \ {worker[w].ip}
    BY <1>4, <2>1, ReleaseEffect DEF NoSlot
  <2>4. ip \in DOMAIN claims[k] /\ ~(k = worker[w].kind /\ ip = worker[w].ip)
    BY <2>3
  <2>. QED  BY <1>0, <2>1, <2>2, <2>4 DEF Claiming, Working
<1>5. ASSUME NEW t \in Task, StartTask(w, t)
      PROVE  \/ ip \in served'[k]
             \/ Claiming(k, ip)'
             \/ Working(k, ip, {"count", "record", "block", "free"})'
  <2>1. /\ worker[w].at = "slot" /\ worker[w].at # "idle" /\ task[t].at = "idle"
        /\ UNCHANGED <<claims, served>>
    BY <1>5 DEF StartTask, history
  <2>2. \A v \in Worker \ {w} : worker'[v] = worker[v]
    BY <1>5, <2>1, NextCheckEffect DEF StartTask
  <2>3. /\ \A s \in Task \ {t} : task'[s] = task[s]
        /\ task'[t].at \in {"count", "record"}
        /\ task'[t].kind = worker[w].kind /\ task'[t].ip = worker[w].ip
    BY <1>5, StartTaskEffect
  <2>4. CASE k = worker[w].kind /\ ip = worker[w].ip
    BY <2>3, <2>4 DEF Working
  <2>5. CASE ~(k = worker[w].kind /\ ip = worker[w].ip)
    BY <1>0, <2>1, <2>2, <2>3, <2>5 DEF Claiming, Working
  <2>. QED  BY <2>4, <2>5
<1>. QED
  BY <1>1, <1>2, <1>3, <1>4, <1>5 DEF WorkerStep

\* A task that goes on, or ends, changes nothing for the others.
LEMMA TaskMoves ==
  ASSUME TypeInv, NEW t \in Task, TaskStep(t)
  PROVE  /\ task[t].at # "idle" /\ task[t].kind \in Kind /\ task[t].ip \in IP
         /\ \A s \in Task \ {t} : task'[s] = task[s]
         /\ task'[t].at # "idle" => task'[t].kind = task[t].kind /\ task'[t].ip = task[t].ip
         /\ UNCHANGED <<worker, banTime, clock>>
<1>1. task[t].at # "idle" /\ task[t].kind \in Kind /\ task[t].ip \in IP
  BY BusyTask DEF TaskStep, CountAttempts, RecordBan, Block, Free, Announce
<1>2. /\ \A s \in Task \ {t} : task'[s] = task[s]
      /\ task'[t].at # "idle" => task'[t].kind = task[t].kind /\ task'[t].ip = task[t].ip
  <2>1. CASE \/ \E at \in {"record", "block", "free", "announce"} : Step(t, at)
             \/ GiveUp(t)
    <3>1. CASE \E at \in {"record", "block", "free", "announce"} : Step(t, at)
      BY <1>1, <3>1, BusyTask, StepEffect DEF Step
    <3>2. CASE GiveUp(t)
      BY <1>1, <3>2, StepEffect DEF GiveUp
    <3>. QED  BY <2>1, <3>1, <3>2
  <2>2. CASE End(t)
    BY <1>1, <2>2, EndEffect
  <2>. QED
    BY <2>1, <2>2 DEF TaskStep, CountAttempts, RecordBan, Block, Free, Announce
<1>. QED
  BY <1>1, <1>2 DEF TaskStep, CountAttempts, RecordBan, Block, Free, Announce

LEMMA TaskServed ==
  ASSUME TypeInv, ServedInv, NEW t \in Task, TaskStep(t)
  PROVE  ServedInv'
<1>. SUFFICES ASSUME NEW k \in Kind, NEW ip \in DOMAIN claims'[k]
              PROVE  \/ ip \in served'[k]
                     \/ Claiming(k, ip)'
                     \/ Working(k, ip, {"count", "record", "block", "free"})'
  BY DEF ServedInv
<1>0. ip \in DOMAIN claims[k] => \/ ip \in served[k]
                                 \/ Claiming(k, ip)
                                 \/ Working(k, ip, {"count", "record", "block", "free"})
  BY DEF ServedInv
<1>1. CASE CountAttempts(t) \/ RecordBan(t)
  <2>1. UNCHANGED <<claims, served>>
    BY <1>1 DEF CountAttempts, RecordBan, history
  <2>2. task'[t].at \in {"record", "block", "free"}
    BY <1>1, TaskMoves, BusyTask, StepEffect DEF TaskStep, CountAttempts, RecordBan, Step, GiveUp
  <2>. QED  BY <1>0, <2>1, <2>2, TaskMoves DEF Claiming, Working
<1>2. CASE Block(t)
  <2>1. claims' = claims /\ task[t].at = "block"
    BY <1>2 DEF Block
  <2>2. CASE served' = [served EXCEPT ![task[t].kind] = @ \cup {task[t].ip}]
    BY <1>0, <2>1, <2>2, TaskMoves DEF Claiming, Working, TypeInv, RestType
  <2>3. CASE served' = served /\ GiveUp(t)
    <3>1. task'[t].at = "free"
      BY <2>3, TaskMoves, StepEffect DEF GiveUp
    <3>. QED  BY <1>0, <2>1, <2>3, <3>1, TaskMoves DEF Claiming, Working
  <2>. QED  BY <1>2, <2>2, <2>3 DEF Block
<1>3. CASE Free(t)
  <2>1. /\ \A j \in Kind \ {task[t].kind} : claims'[j] = claims[j]
        /\ DOMAIN claims'[task[t].kind] = DOMAIN claims[task[t].kind] \ {task[t].ip}
    BY <1>3, TaskMoves, ReleaseEffect DEF Free
  <2>2. ip \in DOMAIN claims[k] /\ ~(k = task[t].kind /\ ip = task[t].ip)
    BY <2>1
  <2>3. served' = served
    BY <1>3 DEF Free
  <2>. QED  BY <1>0, <2>2, <2>3, TaskMoves DEF Claiming, Working
<1>4. CASE Announce(t)
  <2>1. UNCHANGED <<claims, served>> /\ task[t].at = "announce"
    BY <1>4 DEF Announce, history
  <2>. QED  BY <1>0, <2>1, TaskMoves DEF Claiming, Working
<1>. QED
  BY <1>1, <1>2, <1>3, <1>4 DEF TaskStep

LEMMA ServedInvariant == Spec => []ServedInv
<1>1. Init => ServedInv
  BY DEF Init, ServedInv
<1>2. TypeInv /\ ServedInv /\ [Next]_vars => ServedInv'
  <2>. SUFFICES ASSUME TypeInv, ServedInv, [Next]_vars
                PROVE  ServedInv'
    OBVIOUS
  <2>1. CASE UNCHANGED <<claims, worker, task, served>>
    BY <2>1 DEF ServedInv, Claiming, Working
  <2>. QED
    BY <2>1, WorkerServed, TaskServed DEF Next, Sweep, Tick, vars, memory, history
<1>. QED  BY TypeInvariant, <1>1, <1>2, PTL DEF Spec

\* No IP is kept from further checks for nothing: whoever fails, finds no slot or
\* counts too few attempts frees it, in every interleaving.
THEOREM ClaimsAreServed == Spec => []ClaimedIsServed
<1>1. TypeInv /\ ServedInv => ClaimedIsServed
  BY DEF ServedInv, ClaimedIsServed, Claiming, Working, UnderWay, TypeInv, ClaimType
<1>. QED  BY TypeInvariant, ServedInvariant, <1>1, PTL

-----------------------------------------------------------------------------
(* One ban at a time.                                                      *)

\* No change of who is at work and of the claims keeps them alone.
LEMMA SameAlone ==
  ASSUME NEW k, NEW ip, Alone(k, ip),
         Claimers(k, ip)' = Claimers(k, ip), Tasks(k, ip)' = Tasks(k, ip),
         ip \in DOMAIN claims[k] => ip \in DOMAIN claims'[k]
  PROVE  Alone(k, ip)'
BY DEF Alone

LEMMA WorkerAlone ==
  ASSUME TypeInv, AloneInv, NEW w \in Worker, WorkerStep(w)
  PROVE  AloneInv'
<1>. SUFFICES ASSUME NEW k \in Kind \ spoilt', NEW ip \in IP
              PROVE  Alone(k, ip)'
  BY DEF AloneInv
<1>0. k \notin spoilt /\ Alone(k, ip)
  BY DEF WorkerStep, Attempt, ClaimIP, Overwrite, NoSlot, StartTask, history, AloneInv
<1>1. ASSUME NEW x \in IP, Attempt(w, x)
      PROVE  Alone(k, ip)'
  <2>1. /\ worker[w].at = "idle" /\ UNCHANGED <<claims, task>> /\ worker'[w].at = "claim"
        /\ \A v \in Worker \ {w} : worker'[v] = worker[v]
    BY <1>1 DEF Attempt, TypeInv, WorkerType
  <2>2. Claimers(k, ip)' = Claimers(k, ip) /\ Tasks(k, ip)' = Tasks(k, ip)
    BY <2>1 DEF Claimers, Tasks
  <2>. QED  BY <1>0, <2>1, <2>2, SameAlone
<1>2. CASE ClaimIP(w)
  <2>1. /\ worker[w].at = "claim" /\ worker[w].at # "idle" /\ worker[w].kind \in Kind /\ worker[w].ip \in IP
        /\ UNCHANGED <<task, clock>> /\ clock \in 0 .. MaxClock /\ clock <= clock
    BY <1>2, WorkerAt, Bounds DEF ClaimIP, Check, TypeInv, RestType
  <2>2. Tasks(k, ip)' = Tasks(k, ip)
    BY <2>1 DEF Tasks
  <2>3. CASE /\ worker[w].ip \notin DOMAIN claims[worker[w].kind]
             /\ Claim(worker[w].kind, worker[w].ip, clock)
             /\ worker' = [worker EXCEPT ![w] = [@ EXCEPT !.at = "slot", !.now = clock]]
    <3>1. /\ worker'[w].at = "slot" /\ worker'[w].kind = worker[w].kind /\ worker'[w].ip = worker[w].ip
          /\ \A v \in Worker \ {w} : worker'[v] = worker[v]
      BY <2>1, <2>3, GotoEffect
    <3>2. /\ \A j \in Kind \ {worker[w].kind} : claims'[j] = claims[j]
          /\ DOMAIN claims'[worker[w].kind] = DOMAIN claims[worker[w].kind] \cup {worker[w].ip}
      BY <2>1, <2>3, ClaimEffect
    <3>3. CASE k = worker[w].kind /\ ip = worker[w].ip
      <4>1. Claimers(k, ip) = {} /\ Tasks(k, ip) = {}
        BY <1>0, <2>3, <3>3 DEF Alone
      <4>2. Claimers(k, ip)' = {w}
        BY <3>1, <3>3, <4>1 DEF Claimers
      <4>. QED  BY <2>2, <3>2, <3>3, <4>1, <4>2 DEF Alone
    <3>4. CASE ~(k = worker[w].kind /\ ip = worker[w].ip)
      <4>1. Claimers(k, ip)' = Claimers(k, ip)
        BY <2>1, <3>1, <3>4 DEF Claimers
      <4>. QED  BY <1>0, <2>2, <3>2, <4>1, SameAlone
    <3>. QED  BY <3>3, <3>4
  <2>4. CASE /\ worker' = [worker EXCEPT ![w] = [@ EXCEPT !.at = "overwrite", !.now = clock]]
             /\ spoilt' = spoilt \cup {worker[w].kind} /\ claims' = claims
    <3>1. /\ worker'[w].at = "overwrite" /\ worker'[w].kind = worker[w].kind
          /\ \A v \in Worker \ {w} : worker'[v] = worker[v]
      BY <2>1, <2>4, GotoEffect
    <3>2. Claimers(k, ip)' = Claimers(k, ip)
      BY <2>1, <2>4, <3>1 DEF Claimers
    <3>. QED  BY <1>0, <2>2, <2>4, <3>2, SameAlone
  <2>5. CASE NextCheck(w) /\ claims' = claims
    <3>1. /\ worker'[w].at \in {"claim", "idle"}
          /\ \A v \in Worker \ {w} : worker'[v] = worker[v]
      BY <2>1, <2>5, NextCheckEffect
    <3>2. Claimers(k, ip)' = Claimers(k, ip)
      BY <2>1, <3>1 DEF Claimers
    <3>. QED  BY <1>0, <2>2, <2>5, <3>2, SameAlone
  <2>6. \/ /\ worker[w].ip \notin DOMAIN claims[worker[w].kind]
           /\ Claim(worker[w].kind, worker[w].ip, clock)
           /\ worker' = [worker EXCEPT ![w] = [@ EXCEPT !.at = "slot", !.now = clock]]
        \/ /\ worker' = [worker EXCEPT ![w] = [@ EXCEPT !.at = "overwrite", !.now = clock]]
           /\ spoilt' = spoilt \cup {worker[w].kind} /\ claims' = claims
        \/ NextCheck(w) /\ claims' = claims
    BY <1>2, Zenon DEF ClaimIP, Cooldown
  <2>. QED  BY <2>3, <2>4, <2>5, <2>6
<1>3. CASE Overwrite(w)
  <2>1. /\ worker[w].at = "overwrite" /\ worker[w].at # "idle" /\ worker[w].kind \in Kind /\ worker[w].ip \in IP
        /\ worker[w].now \in 0 .. MaxClock /\ worker[w].now <= clock
        /\ UNCHANGED <<task, clock>>
    BY <1>3, WorkerAt DEF Overwrite, Check
  <2>2. /\ \A v \in Worker \ {w} : worker'[v] = worker[v]
        /\ worker'[w].at = "slot" /\ worker'[w].kind = worker[w].kind /\ worker'[w].ip = worker[w].ip
    BY <1>3, <2>1, GotoEffect DEF Overwrite
  <2>3. /\ \A j \in Kind \ {worker[w].kind} : claims'[j] = claims[j]
        /\ DOMAIN claims'[worker[w].kind] = DOMAIN claims[worker[w].kind] \cup {worker[w].ip}
    BY <1>3, <2>1, ClaimEffect DEF Overwrite
  <2>4. Claimers(k, ip)' = Claimers(k, ip) /\ Tasks(k, ip)' = Tasks(k, ip)
    BY <2>1, <2>2 DEF Claimers, Tasks
  <2>5. ip \in DOMAIN claims[k] => ip \in DOMAIN claims'[k]
    BY <2>3
  <2>. QED  BY <1>0, <2>4, <2>5, SameAlone
<1>4. CASE NoSlot(w)
  <2>1. /\ worker[w].at = "slot" /\ worker[w].at # "idle" /\ worker[w].kind \in Kind
        /\ UNCHANGED <<task, clock>>
    BY <1>4, WorkerAt DEF NoSlot, Check
  <2>2. /\ worker'[w].at \in {"claim", "idle"}
        /\ \A v \in Worker \ {w} : worker'[v] = worker[v]
    BY <1>4, <2>1, NextCheckEffect DEF NoSlot
  <2>3. /\ \A j \in Kind \ {worker[w].kind} : claims'[j] = claims[j]
        /\ DOMAIN claims'[worker[w].kind] = DOMAIN claims[worker[w].kind] \ {worker[w].ip}
    BY <1>4, <2>1, ReleaseEffect DEF NoSlot
  <2>4. Tasks(k, ip)' = Tasks(k, ip)
    BY <2>1 DEF Tasks
  <2>5. CASE k = worker[w].kind /\ ip = worker[w].ip
    <3>1. w \in Claimers(k, ip)
      BY <2>1, <2>5 DEF Claimers
    <3>2. Claimers(k, ip) = {w} /\ Tasks(k, ip) = {}
      BY <1>0, <3>1 DEF Alone
    <3>3. Claimers(k, ip)' = {}
      BY <2>2, <3>2 DEF Claimers
    <3>. QED  BY <2>4, <3>2, <3>3 DEF Alone
  <2>6. CASE ~(k = worker[w].kind /\ ip = worker[w].ip)
    <3>1. Claimers(k, ip)' = Claimers(k, ip)
      BY <2>1, <2>2, <2>6 DEF Claimers
    <3>. QED  BY <1>0, <2>3, <2>4, <2>6, <3>1, SameAlone
  <2>. QED  BY <2>5, <2>6
<1>5. ASSUME NEW t \in Task, StartTask(w, t)
      PROVE  Alone(k, ip)'
  <2>1. /\ worker[w].at = "slot" /\ worker[w].at # "idle" /\ task[t].at = "idle"
        /\ claims' = claims
    BY <1>5 DEF StartTask
  <2>2. /\ worker'[w].at \in {"claim", "idle"}
        /\ \A v \in Worker \ {w} : worker'[v] = worker[v]
    BY <1>5, <2>1, NextCheckEffect DEF StartTask
  <2>3. /\ \A s \in Task \ {t} : task'[s] = task[s]
        /\ task'[t].at \in {"count", "record"}
        /\ task'[t].kind = worker[w].kind /\ task'[t].ip = worker[w].ip
    BY <1>5, StartTaskEffect
  <2>4. CASE k = worker[w].kind /\ ip = worker[w].ip
    <3>1. w \in Claimers(k, ip)
      BY <2>1, <2>4 DEF Claimers
    <3>2. Claimers(k, ip) = {w} /\ Tasks(k, ip) = {} /\ ip \in DOMAIN claims[k]
      BY <1>0, <3>1 DEF Alone
    <3>3. Claimers(k, ip)' = {} /\ Tasks(k, ip)' = {t}
      BY <2>2, <2>3, <2>4, <3>2 DEF Claimers, Tasks
    <3>. QED  BY <2>1, <3>2, <3>3 DEF Alone
  <2>5. CASE ~(k = worker[w].kind /\ ip = worker[w].ip)
    <3>1. Claimers(k, ip)' = Claimers(k, ip) /\ Tasks(k, ip)' = Tasks(k, ip)
      BY <2>1, <2>2, <2>3, <2>5 DEF Claimers, Tasks
    <3>. QED  BY <1>0, <2>1, <3>1, SameAlone
  <2>. QED  BY <2>4, <2>5
<1>. QED
  BY <1>1, <1>2, <1>3, <1>4, <1>5 DEF WorkerStep

LEMMA TaskAlone ==
  ASSUME TypeInv, AloneInv, NEW t \in Task, TaskStep(t)
  PROVE  AloneInv'
<1>. SUFFICES ASSUME NEW k \in Kind \ spoilt', NEW ip \in IP
              PROVE  Alone(k, ip)'
  BY DEF AloneInv
<1>0. k \notin spoilt /\ Alone(k, ip)
  BY DEF TaskStep, CountAttempts, RecordBan, Block, Free, Announce, history, AloneInv
<1>1. Claimers(k, ip)' = Claimers(k, ip)
  BY TaskMoves DEF Claimers
<1>2. CASE CountAttempts(t) \/ RecordBan(t) \/ Block(t)
  <2>1. claims' = claims
    BY <1>2 DEF CountAttempts, RecordBan, Block
  <2>2. task'[t].at # "idle"
    BY <1>2, TaskMoves, BusyTask, StepEffect DEF TaskStep, CountAttempts, RecordBan, Block, Step, GiveUp
  <2>3. Tasks(k, ip)' = Tasks(k, ip)
    BY <2>2, TaskMoves DEF Tasks
  <2>. QED  BY <1>0, <1>1, <2>1, <2>3, SameAlone
<1>3. CASE Free(t) \/ Announce(t)
  <2>1. task'[t].at = "idle"
    BY <1>3, TaskMoves, EndEffect DEF Free, Announce
  <2>2. Tasks(k, ip)' = Tasks(k, ip) \ {t}
    BY <2>1, TaskMoves DEF Tasks
  <2>3. CASE k = task[t].kind /\ ip = task[t].ip
    <3>1. t \in Tasks(k, ip)
      BY <2>3, TaskMoves DEF Tasks
    <3>2. Claimers(k, ip) = {} /\ Tasks(k, ip) = {t}
      BY <1>0, <3>1 DEF Alone
    <3>. QED  BY <1>1, <2>2, <3>2 DEF Alone
  <2>4. CASE ~(k = task[t].kind /\ ip = task[t].ip)
    <3>1. Tasks(k, ip)' = Tasks(k, ip)
      BY <2>2, <2>4 DEF Tasks
    <3>2. ip \in DOMAIN claims[k] => ip \in DOMAIN claims'[k]
      <4>1. CASE Free(t)
        BY <2>4, <4>1, TaskMoves, ReleaseEffect DEF Free
      <4>2. CASE Announce(t)
        BY <4>2 DEF Announce
      <4>. QED  BY <1>3, <4>1, <4>2
    <3>. QED  BY <1>0, <1>1, <3>1, <3>2, SameAlone
  <2>. QED  BY <2>3, <2>4
<1>. QED
  BY <1>2, <1>3 DEF TaskStep

LEMMA AloneInvariant == Spec => []AloneInv
<1>1. Init => AloneInv
  BY DEF Init, AloneInv, Alone, Claimers, Tasks, Idle
<1>2. TypeInv /\ AloneInv /\ [Next]_vars => AloneInv'
  <2>. SUFFICES ASSUME TypeInv, AloneInv, [Next]_vars
                PROVE  AloneInv'
    OBVIOUS
  <2>1. CASE UNCHANGED <<claims, worker, task, spoilt>>
    BY <2>1 DEF AloneInv, Alone, Claimers, Tasks
  <2>. QED
    BY <2>1, WorkerAlone, TaskAlone DEF Next, Sweep, Tick, vars, memory, history
<1>. QED  BY TypeInvariant, <1>1, <1>2, PTL DEF Spec

\* While the claims of a check have not lapsed, never are two bans under way for
\* one IP, for any workers and tasks: whoever is at work holds its only claim.
THEOREM OneBan == Spec => []OneBanUnderWay
<1>1. AloneInv => OneBanUnderWay
  <2>. SUFFICES ASSUME AloneInv, NEW k \in Kind \ spoilt, NEW ip \in IP
                PROVE  Cardinality(UnderWay(k, ip)) <= 1
    BY DEF OneBanUnderWay
  <2>1. UnderWay(k, ip) = Claimers(k, ip) \cup Tasks(k, ip)
    BY DEF UnderWay, Claimers, Tasks
  <2>2. UnderWay(k, ip) = {} \/ \E x : UnderWay(k, ip) = {x}
    BY <2>1 DEF AloneInv, Alone
  <2>3. CASE UnderWay(k, ip) = {}
    BY <2>3, FS_EmptySet
  <2>4. CASE \E x : UnderWay(k, ip) = {x}
    <3>1. PICK x : UnderWay(k, ip) = {x}
      BY <2>4
    <3>2. Cardinality({x}) = 1
      BY FS_Singleton
    <3>. QED  BY <3>1, <3>2
  <2>. QED  BY <2>2, <2>3, <2>4
<1>. QED  BY AloneInvariant, <1>1, PTL

-----------------------------------------------------------------------------
(* Whoever is on the blocklist gets banned.                                *)

LEMMA ThreatTasksKept ==
  ASSUME TypeInv, ThreatTasks, [Next]_vars
  PROVE  ThreatTasks'
<1>1. ASSUME NEW w \in Worker, WorkerStep(w)
      PROVE  ThreatTasks'
  <2>1. CASE \E t \in Task : StartTask(w, t)
    <3>1. PICK t \in Task : StartTask(w, t)
      BY <2>1
    <3>2. task'[t].at # "count" \/ task'[t].kind = "auto"
      BY <3>1, StartTaskEffect
    <3>3. task'[t].at # "free" /\ \A s \in Task \ {t} : task'[s] = task[s]
      BY <3>1, StartTaskEffect
    <3>. QED  BY <3>2, <3>3 DEF ThreatTasks
  <2>2. CASE UNCHANGED task
    BY <2>2 DEF ThreatTasks
  <2>. QED  BY <1>1, <2>1, <2>2 DEF WorkerStep, Attempt, ClaimIP, Overwrite, NoSlot
<1>2. ASSUME NEW t \in Task, TaskStep(t)
      PROVE  ThreatTasks'
  <2>1. task'[t].at # "idle" /\ task'[t].kind = "threat" =>
          task'[t].at # "count" /\ (task'[t].at = "free" => task'[t].failed)
    <3>1. CASE CountAttempts(t)
      <4>1. task[t].kind # "threat"
        BY <3>1, TaskMoves DEF CountAttempts, ThreatTasks
      <4>. QED  BY <1>2, <4>1, TaskMoves
    <3>2. CASE RecordBan(t) \/ Block(t)
      <4>1. \/ task'[t].at \in {"block", "announce"}
            \/ task'[t].at = "free" /\ task'[t].failed = TRUE
        BY <1>2, <3>2, TaskMoves, BusyTask, StepEffect DEF RecordBan, Block, Step, GiveUp
      <4>. QED  BY <4>1
    <3>3. CASE Free(t) \/ Announce(t)
      BY <1>2, <3>3, TaskMoves, EndEffect DEF Free, Announce
    <3>. QED  BY <1>2, <3>1, <3>2, <3>3 DEF TaskStep
  <2>. QED  BY <1>2, <2>1, TaskMoves DEF ThreatTasks
<1>3. CASE UNCHANGED task
  BY <1>3 DEF ThreatTasks
<1>. QED  BY <1>1, <1>2, <1>3 DEF Next, Sweep, Tick, vars, memory

\* An IP that a step leaves as it is, or for which more is under way than before.
LEMMA Untouched ==
  ASSUME NEW ip, Threatened(ip), UNCHANGED <<banTime, clock>>,
         ip \in DOMAIN claims'["threat"] <=> ip \in DOMAIN claims["threat"],
         ip \in DOMAIN claims["threat"] => claims'["threat"][ip] = claims["threat"][ip],
         ip \in DOMAIN bans' <=> ip \in DOMAIN bans,
         ip \in DOMAIN bans => bans'[ip] = bans[ip],
         ip \in owed'["threat"] => ip \in owed["threat"],
         Claiming("threat", ip) => Claiming("threat", ip)' \/ Preparing(ip)',
         Preparing(ip) => Preparing(ip)',
         Enforcing("threat", ip) => Enforcing("threat", ip)',
         Enforcing("auto", ip) => Enforcing("auto", ip)',
         ip \in Listed /\ Attended(ip) => Attended(ip)' \/ Preparing(ip)'
  PROVE  Threatened(ip)'
<1>1. Backed(ip)'
  BY DEF Threatened, Backed
<1>2. SeenTo(ip)'
  BY DEF Threatened, SeenTo
<1>3. TermFresh(ip)'
  BY DEF Threatened, TermFresh
<1>. QED  BY <1>1, <1>2, <1>3 DEF Threatened

LEMMA AttemptThreat ==
  ASSUME TypeInv, NEW ip \in IP, Threatened(ip), NEW w \in Worker, NEW x \in IP, Attempt(w, x)
  PROVE  Threatened(ip)'
<1>1. /\ worker[w].at = "idle" /\ worker'[w].at = "claim" /\ worker'[w].ip = x
      /\ \A v \in Worker \ {w} : worker'[v] = worker[v]
      /\ UNCHANGED <<banTime, clock, claims, task, bans>>
  BY DEF Attempt, TypeInv, WorkerType
<1>2. /\ Claiming("threat", ip)' <=> Claiming("threat", ip)
      /\ Preparing(ip)' <=> Preparing(ip)
      /\ Enforcing("threat", ip)' <=> Enforcing("threat", ip)
      /\ Enforcing("auto", ip)' <=> Enforcing("auto", ip)
      /\ Attended(ip) => Attended(ip)'
  BY <1>1 DEF Claiming, Preparing, Enforcing, Working, Attended
<1>3. owed'["threat"] = IF x \in DOMAIN bans THEN owed["threat"] ELSE owed["threat"] \cup ({x} \cap Listed)
  BY DEF Attempt, Kind
<1>4. CASE ip \in owed'["threat"] => ip \in owed["threat"]
  BY <1>1, <1>2, <1>4, Untouched
<1>5. CASE ip \in owed'["threat"] /\ ip \notin owed["threat"]
  <2>1. ip = x /\ ip \in Listed /\ ip \notin DOMAIN bans
    BY <1>3, <1>5
  <2>2. Attended(ip)'
    BY <1>1, <2>1 DEF Attended
  <2>3. Backed(ip)'
    BY <1>1, <1>2 DEF Threatened, Backed
  <2>. QED  BY <1>1, <2>1, <2>2, <2>3 DEF Threatened, SeenTo, TermFresh
<1>. QED  BY <1>4, <1>5

\* The threat check that ends at a claim that holds leaves the IP to the one who
\* made the claim, or to its ban.
LEMMA HeldClaim ==
  ASSUME TypeInv, NEW ip \in IP, Threatened(ip),
         ip \in DOMAIN claims["threat"], ~Lapsed("threat", ip)
  PROVE  ip \in owed["threat"] =>
           \/ Claiming("threat", ip) \/ Preparing(ip) \/ Enforcing("threat", ip)
           \/ (ip \in DOMAIN bans /\ bans[ip] = 0) \/ Enforcing("auto", ip)
<1>1. claims["threat"][ip] \in Nat /\ clock \in Nat /\ banTime \in Nat
  <2>1. claims["threat"] \in Book(0 .. MaxClock)
    BY DEF TypeInv, ClaimType, Kind
  <2>2. claims["threat"][ip] \in 0 .. MaxClock
    BY <2>1, BookEntry
  <2>. QED  BY <2>2, Bounds DEF TypeInv, RestType
<1>2. ip \in DOMAIN bans => bans[ip] \in Nat
  BY BookEntry DEF TypeInv, RestType
<1>3. ~(banTime > 0 /\ clock >= claims["threat"][ip] + banTime)
  BY <1>1 DEF Lapsed, Cooldown
<1>4. \/ Claiming("threat", ip) \/ Preparing(ip) \/ ip \in DOMAIN bans
  BY <1>3 DEF Threatened, Backed
<1>5. CASE ip \in DOMAIN bans /\ ~(bans[ip] > 0)
  BY <1>2, <1>5
<1>6. CASE ip \in DOMAIN bans /\ bans[ip] > 0
  BY <1>6 DEF Threatened, TermFresh
<1>. QED  BY <1>4, <1>5, <1>6

LEMMA ClaimIPThreat ==
  ASSUME TypeInv, Clean', NEW ip \in IP, Threatened(ip), NEW w \in Worker, ClaimIP(w)
  PROVE  Threatened(ip)'
<1>1. /\ worker[w].at = "claim" /\ worker[w].at # "idle" /\ worker[w].kind \in Kind /\ worker[w].ip \in IP
      /\ UNCHANGED <<banTime, task, bans, clock, owed>> /\ clock \in 0 .. MaxClock /\ clock <= clock
  BY WorkerAt, Bounds DEF ClaimIP, Check, TypeInv, RestType
<1>2. /\ Preparing(ip)' <=> Preparing(ip)
      /\ Enforcing("threat", ip)' <=> Enforcing("threat", ip)
      /\ Enforcing("auto", ip)' <=> Enforcing("auto", ip)
  BY <1>1 DEF Preparing, Enforcing, Working
<1>3. CASE /\ Claim(worker[w].kind, worker[w].ip, clock)
           /\ worker' = [worker EXCEPT ![w] = [@ EXCEPT !.at = "slot", !.now = clock]]
  <2>1. /\ worker'[w].at = "slot" /\ worker'[w].kind = worker[w].kind /\ worker'[w].ip = worker[w].ip
        /\ \A v \in Worker \ {w} : worker'[v] = worker[v]
    BY <1>1, <1>3, GotoEffect
  <2>2. /\ \A j \in Kind \ {worker[w].kind} : claims'[j] = claims[j]
        /\ DOMAIN claims'[worker[w].kind] = DOMAIN claims[worker[w].kind] \cup {worker[w].ip}
        /\ \A x \in DOMAIN claims[worker[w].kind] \ {worker[w].ip} :
             claims'[worker[w].kind][x] = claims[worker[w].kind][x]
    BY <1>1, <1>3, ClaimEffect
  <2>3. (Claiming("threat", ip) => Claiming("threat", ip)') /\ (Attended(ip) => Attended(ip)')
    BY <1>1, <2>1 DEF Claiming, Attended
  <2>4. CASE worker[w].kind = "threat" /\ worker[w].ip = ip
    <3>1. Claiming("threat", ip)' /\ Attended(ip)'
      BY <2>1, <2>4 DEF Claiming, Attended
    <3>2. SeenTo(ip)'
      BY <1>1, <3>1 DEF Threatened, SeenTo
    <3>. QED  BY <3>1, <3>2 DEF Threatened, Backed, TermFresh
  <2>5. CASE ~(worker[w].kind = "threat" /\ worker[w].ip = ip)
    <3>1. /\ ip \in DOMAIN claims'["threat"] <=> ip \in DOMAIN claims["threat"]
          /\ ip \in DOMAIN claims["threat"] => claims'["threat"][ip] = claims["threat"][ip]
      BY <2>2, <2>5 DEF Kind
    <3>. QED  BY <1>1, <1>2, <2>3, <3>1, Untouched
  <2>. QED  BY <2>4, <2>5
<1>4. CASE /\ worker' = [worker EXCEPT ![w] = [@ EXCEPT !.at = "overwrite", !.now = clock]]
           /\ claims' = claims
  <2>1. /\ worker'[w].at = "overwrite" /\ worker'[w].kind = worker[w].kind /\ worker'[w].ip = worker[w].ip
        /\ \A v \in Worker \ {w} : worker'[v] = worker[v]
    BY <1>1, <1>4, GotoEffect
  <2>2. (Claiming("threat", ip) => Claiming("threat", ip)') /\ (Attended(ip) => Attended(ip)')
    BY <1>1, <2>1 DEF Claiming, Attended
  <2>. QED  BY <1>1, <1>2, <1>4, <2>2, Untouched
<1>5. CASE /\ worker[w].ip \in DOMAIN claims[worker[w].kind] /\ ~Lapsed(worker[w].kind, worker[w].ip)
           /\ NextCheck(w) /\ claims' = claims
  <2>1. /\ \A v \in Worker \ {w} : worker'[v] = worker[v]
        /\ IF worker[w].kind = "auto" /\ worker[w].ip \in Listed
           THEN worker'[w].at = "claim" /\ worker'[w].ip = worker[w].ip
           ELSE worker'[w].at = "idle"
    BY <1>1, <1>5, NextCheckEffect
  <2>2. Claiming("threat", ip) => Claiming("threat", ip)'
    BY <1>1, <2>1 DEF Claiming
  <2>3. CASE ip \in Listed /\ Attended(ip) => Attended(ip)'
    BY <1>1, <1>2, <1>5, <2>2, <2>3, Untouched
  <2>4. CASE ip \in Listed /\ Attended(ip) /\ ~Attended(ip)'
    <3>1. worker[w].kind = "threat" /\ worker[w].ip = ip
      BY <1>1, <2>1, <2>4 DEF Attended, Kind
    <3>2. ip \in owed["threat"] =>
            \/ Claiming("threat", ip) \/ Preparing(ip) \/ Enforcing("threat", ip)
            \/ (ip \in DOMAIN bans /\ bans[ip] = 0) \/ Enforcing("auto", ip)
      BY <1>5, <3>1, HeldClaim
    <3>3. Claiming("threat", ip) => Attended(ip)'
      BY <2>2 DEF Claiming, Attended
    <3>4. SeenTo(ip)'
      BY <1>1, <1>2, <1>5, <2>4, <3>1, <3>2, <3>3 DEF SeenTo
    <3>5. Backed(ip)' /\ TermFresh(ip)'
      BY <1>1, <1>2, <1>5, <2>2 DEF Threatened, Backed, TermFresh
    <3>. QED  BY <3>4, <3>5 DEF Threatened
  <2>. QED  BY <2>3, <2>4
<1>6. \/ /\ Claim(worker[w].kind, worker[w].ip, clock)
         /\ worker' = [worker EXCEPT ![w] = [@ EXCEPT !.at = "slot", !.now = clock]]
      \/ /\ worker' = [worker EXCEPT ![w] = [@ EXCEPT !.at = "overwrite", !.now = clock]]
         /\ claims' = claims
      \/ /\ worker[w].ip \in DOMAIN claims[worker[w].kind] /\ ~Lapsed(worker[w].kind, worker[w].ip)
         /\ NextCheck(w) /\ claims' = claims
  BY Zenon DEF ClaimIP, Cooldown
<1>. QED  BY <1>3, <1>4, <1>5, <1>6

LEMMA OverwriteThreat ==
  ASSUME TypeInv, NEW ip \in IP, Threatened(ip), NEW w \in Worker, Overwrite(w)
  PROVE  Threatened(ip)'
<1>1. /\ worker[w].at = "overwrite" /\ worker[w].at # "idle" /\ worker[w].kind \in Kind /\ worker[w].ip \in IP
      /\ worker[w].now \in 0 .. MaxClock /\ worker[w].now <= clock
      /\ UNCHANGED <<banTime, clock, task, bans, owed>>
  BY WorkerAt DEF Overwrite, Check
<1>2. /\ \A v \in Worker \ {w} : worker'[v] = worker[v]
      /\ worker'[w].at = "slot" /\ worker'[w].kind = worker[w].kind /\ worker'[w].ip = worker[w].ip
  BY <1>1, GotoEffect DEF Overwrite
<1>3. /\ \A j \in Kind \ {worker[w].kind} : claims'[j] = claims[j]
      /\ DOMAIN claims'[worker[w].kind] = DOMAIN claims[worker[w].kind] \cup {worker[w].ip}
      /\ \A x \in DOMAIN claims[worker[w].kind] \ {worker[w].ip} :
           claims'[worker[w].kind][x] = claims[worker[w].kind][x]
  BY <1>1, ClaimEffect DEF Overwrite
<1>4. /\ Preparing(ip)' <=> Preparing(ip)
      /\ Enforcing("threat", ip)' <=> Enforcing("threat", ip)
      /\ Enforcing("auto", ip)' <=> Enforcing("auto", ip)
      /\ Claiming("threat", ip) => Claiming("threat", ip)'
      /\ Attended(ip) => Attended(ip)'
  BY <1>1, <1>2 DEF Preparing, Enforcing, Working, Claiming, Attended
<1>5. CASE worker[w].kind = "threat" /\ worker[w].ip = ip
  <2>1. Claiming("threat", ip)' /\ Attended(ip)'
    BY <1>2, <1>5 DEF Claiming, Attended
  <2>2. SeenTo(ip)'
    BY <1>1, <2>1 DEF Threatened, SeenTo
  <2>. QED  BY <2>1, <2>2 DEF Threatened, Backed, TermFresh
<1>6. CASE ~(worker[w].kind = "threat" /\ worker[w].ip = ip)
  <2>1. /\ ip \in DOMAIN claims'["threat"] <=> ip \in DOMAIN claims["threat"]
        /\ ip \in DOMAIN claims["threat"] => claims'["threat"][ip] = claims["threat"][ip]
    BY <1>3, <1>6 DEF Kind
  <2>. QED  BY <1>1, <1>4, <2>1, Untouched
<1>. QED  BY <1>5, <1>6

LEMMA NoSlotThreat ==
  ASSUME TypeInv, NEW ip \in IP, Threatened(ip), NEW w \in Worker, NoSlot(w)
  PROVE  Threatened(ip)'
<1>1. /\ worker[w].at = "slot" /\ worker[w].at # "idle" /\ worker[w].kind \in Kind
      /\ UNCHANGED <<banTime, clock, task, bans>>
      /\ owed' = [owed EXCEPT ![worker[w].kind] = @ \ {worker[w].ip}]
      /\ owed \in [Kind -> SUBSET IP]
  BY WorkerAt DEF NoSlot, Check, TypeInv, RestType
<1>2. /\ \A v \in Worker \ {w} : worker'[v] = worker[v]
      /\ IF worker[w].kind = "auto" /\ worker[w].ip \in Listed
         THEN worker'[w].at = "claim" /\ worker'[w].ip = worker[w].ip
         ELSE worker'[w].at = "idle"
  BY <1>1, NextCheckEffect DEF NoSlot
<1>3. /\ \A j \in Kind \ {worker[w].kind} : claims'[j] = claims[j]
      /\ DOMAIN claims'[worker[w].kind] = DOMAIN claims[worker[w].kind] \ {worker[w].ip}
      /\ \A x \in DOMAIN claims[worker[w].kind] \ {worker[w].ip} :
           claims'[worker[w].kind][x] = claims[worker[w].kind][x]
  BY <1>1, ReleaseEffect DEF NoSlot
<1>4. CASE worker[w].kind = "threat" /\ worker[w].ip = ip
  BY <1>1, <1>3, <1>4 DEF Threatened, Backed, SeenTo, TermFresh
<1>5. CASE ~(worker[w].kind = "threat" /\ worker[w].ip = ip)
  <2>1. /\ ip \in DOMAIN claims'["threat"] <=> ip \in DOMAIN claims["threat"]
        /\ ip \in DOMAIN claims["threat"] => claims'["threat"][ip] = claims["threat"][ip]
        /\ ip \in owed'["threat"] => ip \in owed["threat"]
    BY <1>1, <1>3, <1>5 DEF Kind
  <2>2. /\ Preparing(ip)' <=> Preparing(ip)
        /\ Enforcing("threat", ip)' <=> Enforcing("threat", ip)
        /\ Enforcing("auto", ip)' <=> Enforcing("auto", ip)
    BY <1>1 DEF Preparing, Enforcing, Working
  <2>3. /\ Claiming("threat", ip) => Claiming("threat", ip)'
        /\ ip \in Listed /\ Attended(ip) => Attended(ip)'
    BY <1>1, <1>2, <1>5 DEF Claiming, Attended, Kind
  <2>. QED  BY <1>1, <2>1, <2>2, <2>3, Untouched
<1>. QED  BY <1>4, <1>5

LEMMA StartTaskThreat ==
  ASSUME TypeInv, NEW ip \in IP, Threatened(ip), NEW w \in Worker, NEW t \in Task, StartTask(w, t)
  PROVE  Threatened(ip)'
<1>1. /\ worker[w].at = "slot" /\ worker[w].at # "idle" /\ worker[w].kind \in Kind /\ task[t].at = "idle"
      /\ UNCHANGED <<banTime, clock, claims, bans, owed>>
  BY WorkerAt DEF StartTask, Check, history
<1>2. /\ \A v \in Worker \ {w} : worker'[v] = worker[v]
      /\ IF worker[w].kind = "auto" /\ worker[w].ip \in Listed
         THEN worker'[w].at = "claim" /\ worker'[w].ip = worker[w].ip
         ELSE worker'[w].at = "idle"
  BY <1>1, NextCheckEffect DEF StartTask
<1>3. /\ \A s \in Task \ {t} : task'[s] = task[s]
      /\ task'[t].at = (IF worker[w].kind = "auto" THEN "count" ELSE "record")
      /\ task'[t].kind = worker[w].kind /\ task'[t].ip = worker[w].ip
  BY StartTaskEffect
<1>4. /\ Preparing(ip) => Preparing(ip)'
      /\ Enforcing("threat", ip) => Enforcing("threat", ip)'
      /\ Enforcing("auto", ip) => Enforcing("auto", ip)'
  BY <1>1, <1>3 DEF Preparing, Enforcing, Working
<1>5. worker[w].kind = "threat" /\ worker[w].ip = ip => Preparing(ip)'
  BY <1>3 DEF Preparing, Working
<1>6. /\ Claiming("threat", ip) => Claiming("threat", ip)' \/ Preparing(ip)'
      /\ ip \in Listed /\ Attended(ip) => Attended(ip)' \/ Preparing(ip)'
  <2>1. CASE worker[w].kind = "threat" /\ worker[w].ip = ip
    BY <1>5, <2>1
  <2>2. CASE ~(worker[w].kind = "threat" /\ worker[w].ip = ip)
    BY <1>1, <1>2, <2>2 DEF Claiming, Attended, Kind
  <2>. QED  BY <2>1, <2>2
<1>. QED  BY <1>1, <1>4, <1>6, Untouched

\* A task that is none of those an IP's ban rests on may do as it likes.
LEMMA OtherTask ==
  ASSUME TypeInv, NEW ip \in IP, NEW t \in Task, TaskStep(t)
  PROVE  /\ Claiming("threat", ip)' <=> Claiming("threat", ip)
         /\ Attended(ip)' <=> Attended(ip)
         /\ task[t].ip # ip \/ task[t].kind # "threat" \/ task[t].at \notin {"record", "free"}
              => (Preparing(ip) => Preparing(ip)')
         /\ task[t].ip # ip \/ task[t].kind # "threat" \/ task[t].at # "block"
              => (Enforcing("threat", ip) => Enforcing("threat", ip)')
         /\ task[t].ip # ip \/ task[t].kind # "auto" \/ task[t].at # "block"
              => (Enforcing("auto", ip) => Enforcing("auto", ip)')
BY TaskMoves DEF Claiming, Attended, Preparing, Enforcing, Working

LEMMA CountThreat ==
  ASSUME TypeInv, ThreatTasks, NEW ip \in IP, Threatened(ip), NEW t \in Task, CountAttempts(t)
  PROVE  Threatened(ip)'
<1>1. TaskStep(t) /\ task[t].at = "count" /\ UNCHANGED <<banTime, clock, claims, bans, owed>>
  BY DEF TaskStep, CountAttempts, history
<1>2. /\ Preparing(ip) => Preparing(ip)'
      /\ Enforcing("threat", ip) => Enforcing("threat", ip)'
      /\ Enforcing("auto", ip) => Enforcing("auto", ip)'
      /\ Claiming("threat", ip) => Claiming("threat", ip)'
      /\ Attended(ip) => Attended(ip)'
  BY <1>1, OtherTask
<1>. QED  BY <1>1, <1>2, Untouched

LEMMA RecordThreat ==
  ASSUME TypeInv, Clean', NEW ip \in IP, Threatened(ip), NEW t \in Task, RecordBan(t)
  PROVE  Threatened(ip)'
<1>1. /\ TaskStep(t) /\ task[t].at = "record" /\ task[t].ip \in IP /\ task[t].kind \in Kind
      /\ task[t].now \in Nat /\ UNCHANGED <<banTime, clock, claims, owed>>
  BY BusyTask DEF TaskStep, RecordBan
<1>2. /\ Enforcing("threat", ip) => Enforcing("threat", ip)'
      /\ Enforcing("auto", ip) => Enforcing("auto", ip)'
      /\ Claiming("threat", ip) => Claiming("threat", ip)'
      /\ Attended(ip) => Attended(ip)'
      /\ task[t].ip # ip \/ task[t].kind # "threat" => (Preparing(ip) => Preparing(ip)')
  BY <1>1, OtherTask
<1>3. CASE GiveUp(t) /\ UNCHANGED bans
  <2>1. task'[t].at = "free" /\ task'[t].kind = task[t].kind /\ task'[t].ip = task[t].ip
    BY <1>1, <1>3, StepEffect DEF GiveUp
  <2>2. Preparing(ip) => Preparing(ip)'
    BY <1>1, <1>2, <2>1 DEF Preparing, Working
  <2>. QED  BY <1>1, <1>2, <1>3, <2>2, Untouched
<1>4. ASSUME NEW e \in Nat, Insert(task[t].ip, e),
             task[t].kind = "threat" => e = IF banTime > 0 THEN clock + banTime ELSE 0,
             Step(t, "block"),
             ~(task[t].ip \in DOMAIN bans /\ bans[task[t].ip] > 0)
      PROVE  Threatened(ip)'
  <2>1. task'[t].at = "block" /\ task'[t].kind = task[t].kind /\ task'[t].ip = task[t].ip
    BY <1>1, <1>4, BusyTask, StepEffect DEF Step
  <2>2. /\ DOMAIN bans' = DOMAIN bans \cup {task[t].ip}
        /\ \A x \in DOMAIN bans : bans'[x] = bans[x]
        /\ task[t].ip \notin DOMAIN bans => bans'[task[t].ip] = e
    BY <1>1, <1>4, InsertEffect
  <2>3. CASE task[t].ip # ip
    <3>1. /\ ip \in DOMAIN bans' <=> ip \in DOMAIN bans
          /\ ip \in DOMAIN bans => bans'[ip] = bans[ip]
      BY <2>2, <2>3
    <3>. QED  BY <1>1, <1>2, <2>3, <3>1, Untouched
  <2>4. CASE task[t].ip = ip /\ task[t].kind = "threat"
    <3>1. Enforcing("threat", ip)'
      BY <2>1, <2>4 DEF Enforcing, Working
    <3>2. SeenTo(ip)' /\ TermFresh(ip)'
      BY <1>1, <3>1 DEF Threatened, SeenTo, TermFresh
    <3>3. ip \in DOMAIN claims["threat"] => claims["threat"][ip] \in Nat /\ claims["threat"][ip] <= clock
      <4>1. claims["threat"] \in Book(0 .. MaxClock)
        BY DEF TypeInv, ClaimType, Kind
      <4>2. ip \in DOMAIN claims["threat"] => claims["threat"][ip] \in 0 .. MaxClock
        BY <4>1, BookEntry
      <4>. QED  BY <4>2, Bounds DEF TypeInv, ClaimType, Kind
    <3>4. clock \in Nat /\ banTime \in Nat
      BY Bounds DEF TypeInv, RestType
    <3>5. ip \in DOMAIN bans' /\ (bans'[ip] > 0 => ip \notin DOMAIN bans /\ bans'[ip] = e /\ e > 0)
      BY <1>4, <2>2, <2>4
    <3>6. e > 0 => banTime > 0 /\ e = clock + banTime
      BY <1>4, <2>4, <3>4
    <3>7. Backed(ip)'
      BY <1>1, <3>3, <3>4, <3>5, <3>6 DEF Backed
    <3>. QED  BY <3>2, <3>7 DEF Threatened
  <2>5. CASE task[t].ip = ip /\ task[t].kind # "threat"
    <3>1. Enforcing("auto", ip)' /\ (Preparing(ip) => Preparing(ip)')
      BY <1>1, <1>2, <2>1, <2>5 DEF Enforcing, Working, Kind
    <3>2. /\ ip \in DOMAIN bans => ip \in DOMAIN bans' /\ bans'[ip] = bans[ip]
      BY <2>2
    <3>3. Backed(ip)'
      BY <1>1, <1>2, <3>1, <3>2 DEF Threatened, Backed
    <3>4. SeenTo(ip)'
      BY <1>1, <1>2, <3>1, <3>2 DEF Threatened, SeenTo
    <3>5. TermFresh(ip)'
      BY <3>1 DEF TermFresh
    <3>. QED  BY <3>3, <3>4, <3>5 DEF Threatened
  <2>. QED  BY <2>3, <2>4, <2>5
<1>5. CASE /\ Insert(task[t].ip, IF banTime > 0
                                 THEN (IF task[t].kind = "auto" THEN task[t].now ELSE clock) + banTime ELSE 0)
           /\ Step(t, "block")
           /\ spoilt' = IF task[t].ip \in DOMAIN bans /\ bans[task[t].ip] > 0
                        THEN spoilt \cup {"shared"} ELSE spoilt
  <2>. DEFINE e == IF banTime > 0
                   THEN (IF task[t].kind = "auto" THEN task[t].now ELSE clock) + banTime ELSE 0
  <2>1. e \in Nat
    BY <1>1, Bounds DEF TypeInv, RestType
  <2>2. task[t].kind = "threat" => e = IF banTime > 0 THEN clock + banTime ELSE 0
    OBVIOUS
  <2>3. ~(task[t].ip \in DOMAIN bans /\ bans[task[t].ip] > 0)
    BY <1>5 DEF Clean
  <2>4. Insert(task[t].ip, e)
    BY <1>5
  <2>. HIDE DEF e
  <2>. QED  BY <1>4, <1>5, <2>1, <2>2, <2>3, <2>4
<1>6. \/ /\ Insert(task[t].ip, IF banTime > 0
                               THEN (IF task[t].kind = "auto" THEN task[t].now ELSE clock) + banTime ELSE 0)
         /\ Step(t, "block")
         /\ spoilt' = IF task[t].ip \in DOMAIN bans /\ bans[task[t].ip] > 0
                      THEN spoilt \cup {"shared"} ELSE spoilt
      \/ GiveUp(t) /\ UNCHANGED bans
  BY DEF RecordBan
<1>. QED  BY <1>3, <1>5, <1>6

LEMMA BlockThreat ==
  ASSUME TypeInv, Clean', NEW ip \in IP, Threatened(ip), NEW t \in Task, Block(t)
  PROVE  Threatened(ip)'
<1>1. /\ TaskStep(t) /\ task[t].at = "block" /\ task[t].ip \in IP /\ task[t].kind \in Kind
      /\ UNCHANGED <<banTime, clock, claims>>
  BY BusyTask DEF TaskStep, Block
<1>2. /\ Preparing(ip) => Preparing(ip)'
      /\ Claiming("threat", ip) => Claiming("threat", ip)'
      /\ Attended(ip) => Attended(ip)'
      /\ task[t].ip # ip \/ task[t].kind # "threat" => (Enforcing("threat", ip) => Enforcing("threat", ip)')
      /\ task[t].ip # ip \/ task[t].kind # "auto" => (Enforcing("auto", ip) => Enforcing("auto", ip)')
  BY <1>1, OtherTask
<1>3. CASE owed' = [k \in Kind |-> owed[k] \ {task[t].ip}] /\ UNCHANGED bans
  <2>1. owed'["threat"] = owed["threat"] \ {task[t].ip}
    BY <1>3 DEF Kind
  <2>2. CASE task[t].ip # ip
    BY <1>1, <1>2, <1>3, <2>1, <2>2, Untouched
  <2>3. CASE task[t].ip = ip
    BY <1>1, <1>2, <1>3, <2>1, <2>3 DEF Threatened, Backed, SeenTo, TermFresh
  <2>. QED  BY <2>2, <2>3
<1>4. CASE /\ GiveUp(t) /\ bans' \in {bans, Without(bans, task[t].ip)} /\ UNCHANGED owed
           /\ spoilt' = IF \E k \in Kind \ {task[t].kind} : task[t].ip \in DOMAIN claims[k]
                        THEN spoilt \cup {"shared"} ELSE spoilt
  <2>1. task'[t].at = "free" /\ task'[t].kind = task[t].kind /\ task'[t].ip = task[t].ip
    BY <1>1, <1>4, StepEffect DEF GiveUp
  <2>2. CASE task[t].ip # ip
    <3>1. /\ ip \in DOMAIN bans' <=> ip \in DOMAIN bans
          /\ ip \in DOMAIN bans => bans'[ip] = bans[ip]
      <4>1. CASE bans' = bans
        BY <4>1
      <4>2. CASE bans' = Without(bans, task[t].ip)
        <5>1. /\ DOMAIN bans' = DOMAIN bans \ {task[t].ip}
              /\ \A x \in DOMAIN bans \ {task[t].ip} : bans'[x] = bans[x]
          BY <4>2, RemoveEffect
        <5>. QED  BY <2>2, <5>1
      <4>. QED  BY <1>4, <4>1, <4>2
    <3>. QED  BY <1>1, <1>2, <1>4, <2>2, <3>1, Untouched
  <2>3. CASE task[t].ip = ip /\ task[t].kind = "threat"
    <3>1. Preparing(ip)'
      BY <2>1, <2>3 DEF Preparing, Working
    <3>. QED  BY <1>4, <3>1 DEF Threatened, Backed, SeenTo, TermFresh
  <2>4. CASE task[t].ip = ip /\ task[t].kind # "threat"
    <3>1. ip \notin DOMAIN claims["threat"]
      BY <1>4, <2>4 DEF Clean, Kind
    <3>2. SeenTo(ip)'
      BY <1>1, <1>2, <1>4, <2>4, <3>1 DEF Threatened, SeenTo
    <3>. QED  BY <1>1, <3>1, <3>2 DEF Threatened, Backed, TermFresh
  <2>. QED  BY <2>2, <2>3, <2>4
<1>. QED  BY <1>3, <1>4 DEF Block

LEMMA FreeThreat ==
  ASSUME TypeInv, ThreatTasks, NEW ip \in IP, Threatened(ip), NEW t \in Task, Free(t)
  PROVE  Threatened(ip)'
<1>1. /\ TaskStep(t) /\ task[t].at = "free" /\ task[t].ip \in IP /\ task[t].kind \in Kind
      /\ task[t].kind = "threat" => task[t].failed
      /\ UNCHANGED <<banTime, clock, bans>> /\ owed \in [Kind -> SUBSET IP]
      /\ owed' = IF task[t].failed
                 THEN [owed EXCEPT ![task[t].kind] = @ \ {task[t].ip}] ELSE owed
  BY BusyTask DEF TaskStep, Free, ThreatTasks, TypeInv, RestType
<1>2. /\ \A j \in Kind \ {task[t].kind} : claims'[j] = claims[j]
      /\ DOMAIN claims'[task[t].kind] = DOMAIN claims[task[t].kind] \ {task[t].ip}
      /\ \A x \in DOMAIN claims[task[t].kind] \ {task[t].ip} :
           claims'[task[t].kind][x] = claims[task[t].kind][x]
  BY <1>1, ReleaseEffect DEF Free
<1>3. CASE task[t].kind = "threat" /\ task[t].ip = ip
  BY <1>1, <1>2, <1>3 DEF Threatened, Backed, SeenTo, TermFresh
<1>4. CASE ~(task[t].kind = "threat" /\ task[t].ip = ip)
  <2>1. /\ ip \in DOMAIN claims'["threat"] <=> ip \in DOMAIN claims["threat"]
        /\ ip \in DOMAIN claims["threat"] => claims'["threat"][ip] = claims["threat"][ip]
        /\ ip \in owed'["threat"] => ip \in owed["threat"]
    BY <1>1, <1>2, <1>4 DEF Kind
  <2>2. /\ Preparing(ip) => Preparing(ip)'
        /\ Enforcing("threat", ip) => Enforcing("threat", ip)'
        /\ Enforcing("auto", ip) => Enforcing("auto", ip)'
        /\ Claiming("threat", ip) => Claiming("threat", ip)'
        /\ Attended(ip) => Attended(ip)'
    BY <1>1, <1>4, OtherTask
  <2>. QED  BY <1>1, <2>1, <2>2, Untouched
<1>. QED  BY <1>3, <1>4

LEMMA AnnounceThreat ==
  ASSUME TypeInv, NEW ip \in IP, Threatened(ip), NEW t \in Task, Announce(t)
  PROVE  Threatened(ip)'
<1>1. /\ TaskStep(t) /\ task[t].at = "announce" /\ task[t].ip \in IP
      /\ UNCHANGED <<banTime, clock, claims, owed>>
      /\ UNCHANGED bans \/ Insert(task[t].ip, 0)
  BY BusyTask DEF TaskStep, Announce, history
<1>2. /\ Preparing(ip) => Preparing(ip)'
      /\ Enforcing("threat", ip) => Enforcing("threat", ip)'
      /\ Enforcing("auto", ip) => Enforcing("auto", ip)'
      /\ Claiming("threat", ip) => Claiming("threat", ip)'
      /\ Attended(ip) => Attended(ip)'
  BY <1>1, OtherTask
<1>3. /\ ip \in DOMAIN bans => ip \in DOMAIN bans' /\ bans'[ip] = bans[ip]
      /\ ip \in DOMAIN bans' => ip \in DOMAIN bans \/ bans'[ip] = 0
  <2>1. CASE UNCHANGED bans
    BY <2>1
  <2>2. CASE Insert(task[t].ip, 0)
    <3>1. /\ DOMAIN bans' = DOMAIN bans \cup {task[t].ip}
          /\ \A x \in DOMAIN bans : bans'[x] = bans[x]
          /\ task[t].ip \notin DOMAIN bans => bans'[task[t].ip] = 0
      BY <1>1, <2>2, InsertEffect
    <3>. QED  BY <3>1
  <2>. QED  BY <1>1, <2>1, <2>2
<1>4. Backed(ip)'
  BY <1>1, <1>2, <1>3 DEF Threatened, Backed
<1>5. SeenTo(ip)'
  BY <1>1, <1>2, <1>3 DEF Threatened, SeenTo
<1>6. TermFresh(ip)'
  BY <1>1, <1>2, <1>3 DEF Threatened, TermFresh
<1>. QED  BY <1>4, <1>5, <1>6 DEF Threatened

\* When the sweeper lifts a ban, the claim it stands for has lapsed.
LEMMA SweepThreat ==
  ASSUME TypeInv, NEW ip \in IP, Threatened(ip), NEW x \in IP, Sweep(x)
  PROVE  Threatened(ip)'
<1>1. /\ x \in DOMAIN bans /\ bans[x] > 0 /\ bans[x] <= clock /\ bans[x] \in Nat
      /\ UNCHANGED <<banTime, clock, claims, task, worker, owed>>
  BY BookEntry DEF Sweep, memory, history, TypeInv, RestType
<1>2. DOMAIN bans' = DOMAIN bans \ {x} /\ \A y \in DOMAIN bans \ {x} : bans'[y] = bans[y]
  BY RemoveEffect DEF Sweep
<1>3. /\ Preparing(ip)' <=> Preparing(ip)
      /\ Enforcing("threat", ip)' <=> Enforcing("threat", ip)
      /\ Enforcing("auto", ip)' <=> Enforcing("auto", ip)
      /\ Claiming("threat", ip)' <=> Claiming("threat", ip)
      /\ Attended(ip)' <=> Attended(ip)
  BY <1>1 DEF Preparing, Enforcing, Working, Claiming, Attended
<1>4. CASE ip # x
  BY <1>1, <1>2, <1>3, <1>4, Untouched
<1>5. CASE ip = x
  <2>1. ip \in DOMAIN claims["threat"] => claims["threat"][ip] \in Nat
    <3>1. claims["threat"] \in Book(0 .. MaxClock)
      BY DEF TypeInv, ClaimType, Kind
    <3>2. ip \in DOMAIN claims["threat"] => claims["threat"][ip] \in 0 .. MaxClock
      BY <3>1, BookEntry
    <3>. QED  BY <3>2, Bounds
  <2>2. clock \in Nat /\ banTime \in Nat
    BY Bounds DEF TypeInv, RestType
  <2>3. Backed(ip)'
    BY <1>1, <1>3, <1>5, <2>1, <2>2 DEF Threatened, Backed
  <2>4. SeenTo(ip)' /\ TermFresh(ip)'
    BY <1>1, <1>2, <1>3, <1>5 DEF Threatened, SeenTo, TermFresh
  <2>. QED  BY <2>3, <2>4 DEF Threatened
<1>. QED  BY <1>4, <1>5

LEMMA TickThreat ==
  ASSUME TypeInv, NEW ip \in IP, Threatened(ip), Tick
  PROVE  Threatened(ip)'
<1>1. /\ clock' = clock + 1 /\ clock \in Nat
      /\ UNCHANGED <<banTime, claims, task, worker, bans, owed>>
  BY Bounds DEF Tick, memory, history, TypeInv, RestType
<1>2. /\ Preparing(ip)' <=> Preparing(ip)
      /\ Enforcing("threat", ip)' <=> Enforcing("threat", ip)
      /\ Enforcing("auto", ip)' <=> Enforcing("auto", ip)
      /\ Claiming("threat", ip)' <=> Claiming("threat", ip)
      /\ Attended(ip)' <=> Attended(ip)
  BY <1>1 DEF Preparing, Enforcing, Working, Claiming, Attended
<1>3. SeenTo(ip)' /\ TermFresh(ip)'
  BY <1>1, <1>2 DEF Threatened, SeenTo, TermFresh
<1>4. ip \in DOMAIN claims["threat"] => claims["threat"][ip] \in Nat
  <2>1. claims["threat"] \in Book(0 .. MaxClock)
    BY DEF TypeInv, ClaimType, Kind
  <2>2. ip \in DOMAIN claims["threat"] => claims["threat"][ip] \in 0 .. MaxClock
    BY <2>1, BookEntry
  <2>. QED  BY <2>2, Bounds
<1>5. banTime \in Nat
  BY Bounds DEF TypeInv, RestType
<1>6. Backed(ip)'
  BY <1>1, <1>2, <1>4, <1>5 DEF Threatened, Backed
<1>. QED  BY <1>3, <1>6 DEF Threatened

LEMMA ThreatInvariant == Spec => []ThreatInv
<1>1. Init => ThreatInv
  <2>. SUFFICES ASSUME Init
                PROVE  ThreatInv
    OBVIOUS
  <2>1. claims["threat"] = << >> /\ owed["threat"] = {}
    BY DEF Init, Kind
  <2>. QED
    BY <2>1, NoEntries DEF Init, ThreatInv, ThreatTasks, Threatened, Backed, SeenTo, TermFresh, Idle
<1>2. TypeInv /\ ThreatInv /\ [Next]_vars => ThreatInv'
  <2>. SUFFICES ASSUME TypeInv, ThreatInv, [Next]_vars
                PROVE  ThreatInv'
    OBVIOUS
  <2>1. ThreatTasks /\ ThreatTasks'
    BY ThreatTasksKept DEF ThreatInv
  <2>2. spoilt \subseteq spoilt'
    BY DEF Next, WorkerStep, TaskStep, Attempt, ClaimIP, Overwrite, NoSlot, StartTask,
           CountAttempts, RecordBan, Block, Free, Announce, Sweep, Tick, vars, history
  <2>3. ASSUME Clean', NEW ip \in IP
        PROVE  Threatened(ip)'
    <3>1. Threatened(ip)
      BY <2>2, <2>3 DEF ThreatInv, Clean
    <3>2. ASSUME NEW w \in Worker, WorkerStep(w)
          PROVE  Threatened(ip)'
      BY <2>3, <3>1, <3>2, AttemptThreat, ClaimIPThreat, OverwriteThreat, NoSlotThreat, StartTaskThreat
      DEF WorkerStep
    <3>3. ASSUME NEW t \in Task, TaskStep(t)
          PROVE  Threatened(ip)'
      BY <2>1, <2>3, <3>1, <3>3, CountThreat, RecordThreat, BlockThreat, FreeThreat, AnnounceThreat
      DEF TaskStep
    <3>4. CASE UNCHANGED vars
      BY <3>1, <3>4 DEF vars, memory, history, Threatened, Backed, SeenTo, TermFresh,
                        Preparing, Enforcing, Working, Claiming, Attended
    <3>. QED  BY <3>1, <3>2, <3>3, <3>4, SweepThreat, TickThreat DEF Next
  <2>. QED  BY <2>1, <2>3 DEF ThreatInv
<1>. QED  BY TypeInvariant, <1>1, <1>2, PTL DEF Spec

\* Once workers and tasks are done, an IP of the blocklist that made an attempt
\* while unbanned is banned, as long as no claim of the threat check has lapsed
\* before its row and no row is relied on by both features.
THEOREM ListedAreBanned == Spec => []ThreatBans
<1>1. ThreatInv /\ TypeInv => ThreatBans
  <2>. SUFFICES ASSUME ThreatInv, TypeInv, Quiet, Clean, NEW ip \in owed["threat"]
                PROVE  ip \in DOMAIN bans
    BY DEF ThreatBans, Clean
  <2>1. ip \in IP
    BY DEF TypeInv, RestType, Kind
  <2>2. ~Attended(ip) /\ ~Preparing(ip) /\ ~Enforcing("threat", ip) /\ ~Enforcing("auto", ip)
    BY DEF Quiet, Attended, Preparing, Enforcing, Working
  <2>. QED  BY <2>1, <2>2 DEF ThreatInv, Threatened, SeenTo
<1>. QED  BY TypeInvariant, ThreatInvariant, <1>1, PTL

-----------------------------------------------------------------------------
(* The ban book: what BanLifecycle promises of the bans table, automatic   *)
(* bans rely on and keep.  The rows of AutoBan do not say who wrote them.  *)

EntryOf(ip) ==
  IF ip \in DOMAIN bans THEN [source |-> "row", expires |-> bans[ip]]
  ELSE [source |-> "none", expires |-> 0]

Promise == INSTANCE BanBook WITH
  Source <- {"row"},
  book   <- [ip \in IP |-> EntryOf(ip)]

\* What a step does to the rows.
RowEntered(ip) ==
  /\ ip \in IP /\ ip \notin DOMAIN bans /\ DOMAIN bans' = DOMAIN bans \cup {ip}
  /\ \A x \in DOMAIN bans : bans'[x] = bans[x]
  /\ bans'[ip] \in Nat
RowLifted(ip) ==
  /\ ip \in DOMAIN bans /\ DOMAIN bans' = DOMAIN bans \ {ip}
  /\ \A x \in DOMAIN bans \ {ip} : bans'[x] = bans[x]

LEMMA InsertEnters ==
  ASSUME TypeInv, NEW ip \in IP, NEW e \in Nat, Insert(ip, e)
  PROVE  bans' = bans \/ RowEntered(ip)
<1>1. CASE ip \in DOMAIN bans
  BY <1>1 DEF Insert
<1>2. CASE ip \notin DOMAIN bans
  BY <1>2, InsertEffect DEF RowEntered
<1>. QED  BY <1>1, <1>2

LEMMA RemoveLifts ==
  ASSUME TypeInv, NEW ip, bans' = Without(bans, ip)
  PROVE  bans' = bans \/ RowLifted(ip)
<1>1. CASE ip \in DOMAIN bans
  BY <1>1, RemoveEffect DEF RowLifted
<1>2. CASE ip \notin DOMAIN bans
  <2>1. bans = [y \in DOMAIN bans |-> bans[y]]
    BY DEF TypeInv, RestType, Book
  <2>2. DOMAIN bans \ {ip} = DOMAIN bans
    BY <1>2
  <2>. QED  BY <2>1, <2>2 DEF Without
<1>. QED  BY <1>1, <1>2

LEMMA StepsOfRows ==
  ASSUME TypeInv, [Next]_vars
  PROVE  bans' = bans \/ \E ip : RowEntered(ip) \/ RowLifted(ip)
<1>1. ASSUME NEW w \in Worker, WorkerStep(w)
      PROVE  bans' = bans
  BY <1>1 DEF WorkerStep, Attempt, ClaimIP, Overwrite, NoSlot, StartTask
<1>2. ASSUME NEW t \in Task, CountAttempts(t) \/ Free(t)
      PROVE  bans' = bans
  BY <1>2 DEF CountAttempts, Free
<1>3. ASSUME NEW t \in Task, RecordBan(t)
      PROVE  bans' = bans \/ \E ip : RowEntered(ip)
  <2>1. task[t].ip \in IP /\ task[t].now \in Nat /\ clock \in Nat /\ banTime \in Nat
    <3>1. task[t] \in Errand
      BY <1>3, TaskAt DEF RecordBan
    <3>. QED  BY <3>1, Bounds DEF Errand, TypeInv, RestType
  <2>. DEFINE from == IF task[t].kind = "auto" THEN task[t].now ELSE clock
              e == IF banTime > 0 THEN from + banTime ELSE 0
  <2>2. e \in Nat
    BY <2>1
  <2>3. bans' = bans \/ Insert(task[t].ip, e)
    BY <1>3 DEF RecordBan
  <2>. QED  BY <2>1, <2>2, <2>3, InsertEnters
<1>4. ASSUME NEW t \in Task, Block(t)
      PROVE  bans' = bans \/ \E ip : RowLifted(ip)
  <2>1. bans' = bans \/ bans' = Without(bans, task[t].ip)
    BY <1>4 DEF Block
  <2>. QED  BY <2>1, RemoveLifts
<1>5. ASSUME NEW t \in Task, Announce(t)
      PROVE  bans' = bans \/ \E ip : RowEntered(ip)
  <2>1. task[t].ip \in IP
    BY <1>5, TaskAt DEF Announce, Errand
  <2>2. bans' = bans \/ Insert(task[t].ip, 0)
    BY <1>5 DEF Announce
  <2>. QED  BY <2>1, <2>2, InsertEnters
<1>6. ASSUME NEW ip \in IP, Sweep(ip)
      PROVE  bans' = bans \/ RowLifted(ip)
  BY <1>6, RemoveLifts DEF Sweep
<1>7. Tick \/ UNCHANGED vars => bans' = bans
  BY DEF Tick, vars
<1>. QED  BY <1>1, <1>2, <1>3, <1>4, <1>5, <1>6, <1>7 DEF Next, TaskStep

LEMMA RowsFollowTheBook ==
  ASSUME TypeInv, [Next]_vars
  PROVE  [Promise!Next]_([ip \in IP |-> EntryOf(ip)])
<1>. DEFINE book == [ip \in IP |-> EntryOf(ip)]
<1>1. CASE bans' = bans
  BY <1>1 DEF EntryOf
<1>2. ASSUME NEW ip, RowEntered(ip)
      PROVE  Promise!Next
  <2>1. ip \in IP /\ EntryOf(ip) = Promise!NoEntry
    BY <1>2 DEF RowEntered, EntryOf, Promise!NoEntry
  <2>2. EntryOf(ip)' = [source |-> "row", expires |-> bans'[ip]] /\ bans'[ip] \in Nat
    BY <1>2 DEF RowEntered, EntryOf
  <2>3. EntryOf(ip)' \in Promise!Entry
    BY <2>2 DEF Promise!Entry
  <2>4. \A x \in IP \ {ip} : EntryOf(x)' = EntryOf(x)
    BY <1>2 DEF RowEntered, EntryOf
  <2>5. book' = [book EXCEPT ![ip] = EntryOf(ip)']
    BY <2>1, <2>4
  <2>. QED  BY <2>1, <2>3, <2>5 DEF Promise!Next, Promise!Enter
<1>3. ASSUME NEW ip, RowLifted(ip)
      PROVE  Promise!Next
  <2>1. ip \in IP
    BY <1>3, BookEntry DEF RowLifted, TypeInv, RestType
  <2>2. EntryOf(ip) # Promise!NoEntry
    <3>1. EntryOf(ip).source = "row" /\ Promise!NoEntry.source = "none"
      BY <1>3 DEF RowLifted, EntryOf, Promise!NoEntry
    <3>. QED  BY <3>1
  <2>3. EntryOf(ip)' = Promise!NoEntry
    BY <1>3 DEF RowLifted, EntryOf, Promise!NoEntry
  <2>4. \A x \in IP \ {ip} : EntryOf(x)' = EntryOf(x)
    BY <1>3 DEF RowLifted, EntryOf
  <2>5. book' = [book EXCEPT ![ip] = Promise!NoEntry]
    BY <2>1, <2>3, <2>4
  <2>. QED  BY <2>1, <2>2, <2>5 DEF Promise!Next, Promise!Lift
<1>. QED  BY <1>1, <1>2, <1>3, StepsOfRows

\* Whatever claims, tasks, rollbacks and the sweeper do, an automatic ban never
\* alters one in force: it enters where there is none, or leaves the row alone
\* (BanIP's INSERT ... WHERE NOT EXISTS).  This is all that the automatic bans and
\* the ban life cycle ask of each other's rows.
THEOREM KeepsTheBook == Spec => Promise!Spec
<1>1. Init => Promise!Init
  <2>1. ASSUME Init, NEW ip \in IP
        PROVE  EntryOf(ip) = Promise!NoEntry
    BY <2>1, NoEntries DEF Init, EntryOf, Promise!NoEntry
  <2>. QED  BY <2>1 DEF Promise!Init
<1>2. TypeInv /\ [Next]_vars => [Promise!Next]_([ip \in IP |-> EntryOf(ip)])
  BY RowsFollowTheBook
<1>. QED  BY <1>1, <1>2, TypeInvariant, PTL DEF Spec, Promise!Spec
=============================================================================
