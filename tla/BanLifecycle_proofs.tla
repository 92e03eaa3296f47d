------------------------ MODULE BanLifecycle_proofs ------------------------
(***************************************************************************)
(* Proofs about BanLifecycle, for every set of addresses and tasks, every  *)
(* term, clock bound and number of errors and crashes; about BanSerial:    *)
(* activities that do not overlap spare each other's rows, and with        *)
(* nftables, no firewall error and the responder left enabled they leave   *)
(* no block without a row.                                                 *)
(***************************************************************************)
EXTENDS BanSerial, TLAPS

-----------------------------------------------------------------------------
(* Type correctness.                                                       *)

\* What a step can do to the active rows.
Insertion == \E ip \in IP, source \in Source, e \in Nat :
               bans' = InsertRow(bans, ip, source, e)
Deletion  == \E ip \in IP : bans' = UnbanIP(bans, ip) \/ bans' = MirrorUnban(bans, ip)
RowsStep  == UNCHANGED bans \/ Insertion \/ Deletion

LEMMA RowsStepType ==
  ASSUME bans \subseteq Row, RowsStep
  PROVE  bans' \subseteq Row
BY DEF RowsStep, Insertion, Deletion, InsertRow, UnbanIP, MirrorUnban, Row

LEMMA InitType == Init => TypeOK
BY ConstantsAssumption DEF Init, TypeOK, NoReq, Request, BanPC, UnbanPC, Source

\* The parts of TypeOK that the control steps and the errors touch.
ControlType ==
  /\ pc \in [Task -> {"idle"} \cup BanPC \cup UnbanPC]
  /\ req \in [Task -> Request]
  /\ \A t \in Task : pc[t] # "idle" => req[t].ip \in IP

LeftType == left \in [fw : Nat, db : Nat, crash : Nat]

LEMMA GotoType ==
  ASSUME ControlType, NEW t \in Task, pc[t] # "idle",
         NEW l \in BanPC \cup UnbanPC, Goto(t, l)
  PROVE  ControlType'
BY DEF ControlType, Goto, BanPC, UnbanPC

LEMMA DoneType ==
  ASSUME ControlType, NEW t \in Task, Done(t)
  PROVE  ControlType'
BY DEF ControlType, Done, NoReq, Request

LEMMA ErrorType == LeftType /\ (FwError \/ DbError) => LeftType'
BY DEF LeftType, FwError, DbError

\* A failing command to the firewall changes at most the address it is about.
LEMMA FailsType ==
  ASSUME NEW ip, FwBanFails(ip) \/ FwUnbanFails(ip)
  PROVE  /\ FwError \/ UNCHANGED left
         /\ fw \ {ip} \subseteq fw' /\ fw' \subseteq fw \cup {ip}
BY DEF FwBanFails, FwUnbanFails, Outcomes

LEMMA UnbanFailsSubset == ASSUME NEW ip, FwUnbanFails(ip) PROVE fw' \subseteq fw
BY DEF FwUnbanFails, Outcomes

LEMMA BanFailsSuperset == ASSUME NEW ip, FwBanFails(ip) PROVE fw \subseteq fw'
BY DEF FwBanFails, Outcomes

\* With nftables, a command that fails has no effect.
LEMMA FailsNothing ==
  ASSUME NEW ip, FwBanFails(ip) \/ FwUnbanFails(ip), backend = "nftables"
  PROVE  fw' = fw
BY DEF FwBanFails, FwUnbanFails, Outcomes, Fail2ban

LEMMA OwnType == TypeOK => Own \in Source /\ Fail2ban \in Source
BY DEF TypeOK, Own, Fail2ban, Source

LEMMA ArriveType ==
  ASSUME TypeOK, NEW t \in Task, Arrive(t)
  PROVE  TypeOK'
<1>. USE DEF TypeOK, Request, BanPC, UnbanPC, table, settings
<1>1. ASSUME NEW ip \in IP, NEW d \in Nat, AdmitBan(t, ip, d)
      PROVE  TypeOK'
  <2>1. ExpiresAt(d) \in Nat
    BY DEF ExpiresAt
  <2>. QED  BY <1>1, <2>1 DEF AdmitBan
<1>2. ASSUME NEW ip \in IP, handleUnbanPost(t, ip)
      PROVE  TypeOK'
  BY <1>2 DEF handleUnbanPost
<1>. QED
  BY <1>1, <1>2, ConstantsAssumption DEF Arrive, handleBanPost, BackgroundBan

LEMMA TaskStepRows ==
  ASSUME TypeOK, NEW t \in Task, TaskStep(t)
  PROVE  RowsStep
<1>1. CASE RecordBan(t)
  <2>1. req[t].ip \in IP /\ req[t].expires \in Nat
    BY <1>1 DEF RecordBan, TypeOK, Request
  <2>. QED
    BY <1>1, <2>1, OwnType DEF RecordBan, BanIP, RowsStep, Insertion
<1>2. CASE LogBan(t)
  <2>1. req[t].ip \in IP
    BY <1>2 DEF LogBan, TypeOK
  <2>. QED
    BY <1>2, <2>1, OwnType DEF LogBan, MirrorBan, RowsStep, Insertion
<1>3. CASE Rollback(t) \/ Clear(t) \/ LogUnban(t)
  <2>1. req[t].ip \in IP
    BY <1>3 DEF Rollback, Clear, LogUnban, TypeOK
  <2>. QED
    BY <1>3, <2>1 DEF Rollback, Clear, LogUnban, RowsStep, Deletion
<1>4. CASE Block(t) \/ Unblock(t)
  BY <1>4 DEF Block, Unblock, RowsStep
<1>. QED
  BY <1>1, <1>2, <1>3, <1>4 DEF TaskStep, BanStep, UnbanStep

LEMMA TaskStepType ==
  ASSUME TypeOK, NEW t \in Task, TaskStep(t)
  PROVE  TypeOK'
<1>1. ControlType /\ LeftType /\ req[t] \in Request
  BY DEF TypeOK, ControlType, LeftType
<1>2. pc[t] # "idle" /\ req[t].ip \in IP /\ req[t].expires \in Nat
  BY <1>1 DEF TaskStep, BanStep, UnbanStep, RecordBan, Block, Rollback, LogBan,
              Unblock, Clear, LogUnban, ControlType, Request
<1>3. ControlType'
  BY <1>1, <1>2, GotoType, DoneType
  DEF TaskStep, BanStep, UnbanStep, RecordBan, Block, Rollback, LogBan,
      Unblock, Clear, LogUnban, BanPC, UnbanPC
<1>4. LeftType'
  BY <1>1, ErrorType, FailsType
  DEF TaskStep, BanStep, UnbanStep, RecordBan, Block, Rollback, LogBan,
      Unblock, Clear, LogUnban, LeftType
<1>5. bans' \subseteq Row
  BY TaskStepRows, RowsStepType DEF TypeOK
<1>6. fw' \subseteq IP /\ reported' \subseteq IP
  BY <1>2, FailsType
  DEF TaskStep, BanStep, UnbanStep, RecordBan, Block, Rollback, LogBan,
      Unblock, Clear, LogUnban, FwBan, FwUnban, TypeOK
<1>7. UNCHANGED <<now, settings, sw, rc>>
  BY DEF TaskStep, BanStep, UnbanStep, RecordBan, Block, Rollback, LogBan,
         Unblock, Clear, LogUnban
<1>. QED
  BY <1>3, <1>4, <1>5, <1>6, <1>7 DEF TypeOK, ControlType, LeftType, settings

LEMMA SweepStepType == TypeOK /\ SweepStep => TypeOK'
<1>. SUFFICES ASSUME TypeOK, SweepStep PROVE TypeOK'
  OBVIOUS
<1>1. LeftType'
  BY ErrorType, FailsType
  DEF SweepStep, SweepList, SweepUnblock, SweepClear, SweepLog, LeftType, TypeOK
<1>2. CASE SweepList
  <2>1. {r.ip : r \in ListExpiredBans} \in SUBSET IP
    BY DEF ListExpiredBans, Row, TypeOK
  <2>. QED  BY <1>2, <2>1 DEF SweepList, TypeOK, table, settings, control
<1>3. ASSUME NEW ip \in IP, SweepUnblock(ip)
      PROVE  TypeOK'
  <2>1. fw' \subseteq IP
    BY <1>3, UnbanFailsSubset DEF SweepUnblock, FwUnban, TypeOK
  <2>2. /\ sw' \in [pc : {"scan", "clear", "log"}, todo : SUBSET IP, ip : IP \cup {NoIP}]
        /\ sw'.pc # "scan" => sw'.ip \in IP
    BY <1>3 DEF SweepUnblock, TypeOK
  <2>. QED
    BY <1>1, <1>3, <2>1, <2>2 DEF SweepUnblock, TypeOK, LeftType, settings, control
<1>4. CASE SweepClear
  BY <1>1, <1>4 DEF SweepClear, UnbanIP, TypeOK, LeftType, settings, control
<1>5. CASE SweepLog
  BY <1>5 DEF SweepLog, MirrorUnban, TypeOK, settings, control
<1>. QED  BY <1>2, <1>3, <1>4, <1>5 DEF SweepStep

LEMMA ReconcileStepType == TypeOK /\ ReconcileStep => TypeOK'
<1>. SUFFICES ASSUME TypeOK, ReconcileStep PROVE TypeOK'
  OBVIOUS
<1>1. LeftType'
  BY ErrorType, FailsType DEF ReconcileStep, ReconcileList, ReconcileBan, LeftType, TypeOK
<1>2. CASE ReconcileList
  <2>1. Restorable \in SUBSET IP
    BY DEF Restorable, Row, TypeOK
  <2>2. reported \subseteq IP
    BY DEF TypeOK
  <2>3. reported' \subseteq IP
    BY <1>2, <2>1, <2>2 DEF ReconcileList
  <2>4. \E S \in SUBSET IP : rc' = [listed |-> TRUE, todo |-> S]
    BY <1>2, <2>1 DEF ReconcileList
  <2>5. rc' \in [listed : BOOLEAN, todo : SUBSET IP]
    BY <2>4
  <2>6. UNCHANGED <<bans, fw, now, extra, enabled, backend, pc, req, sw>>
    BY <1>2 DEF ReconcileList, table, settings, control
  <2>. QED  BY <1>1, <2>3, <2>5, <2>6 DEF TypeOK, LeftType
<1>3. ASSUME NEW ip \in IP, ReconcileBan(ip)
      PROVE  TypeOK'
  <2>1. fw' \subseteq IP
    BY <1>3, FailsType DEF ReconcileBan, FwBan, TypeOK
  <2>2. rc' \in [listed : BOOLEAN, todo : SUBSET IP] /\ reported' \subseteq IP
    BY <1>3 DEF ReconcileBan, TypeOK
  <2>. QED  BY <1>1, <1>3, <2>1, <2>2 DEF ReconcileBan, TypeOK, LeftType, settings, control
<1>. QED  BY <1>2, <1>3 DEF ReconcileStep

LEMMA NextType == TypeOK /\ [Next]_vars => TypeOK'
<1>. SUFFICES ASSUME TypeOK, [Next]_vars PROVE TypeOK'
  OBVIOUS
<1>. USE DEF table, settings, control
<1>1. ASSUME NEW ip \in IP, IngestBanLine(ip) \/ IngestUnbanLine(ip)
      PROVE  TypeOK'
  <2>1. MirrorBan(bans, ip) \in SUBSET Row /\ MirrorUnban(bans, ip) \in SUBSET Row
    BY OwnType DEF MirrorBan, MirrorUnban, InsertRow, TypeOK, Row
  <2>. QED  BY <1>1, <2>1 DEF IngestBanLine, IngestUnbanLine, TypeOK
<1>2. ASSUME NEW s \in SUBSET IP, SetExtra(s)
      PROVE  TypeOK'
  BY <1>2 DEF SetExtra, TypeOK
<1>3. CASE Tick
  BY <1>3 DEF Tick, TypeOK
<1>4. ASSUME NEW reboot \in BOOLEAN, NEW on \in BOOLEAN, Restart(reboot, on)
      PROVE  TypeOK'
  <2>1. rc' \in [listed : BOOLEAN, todo : SUBSET IP]
    BY <1>4 DEF Restart
  <2>. QED
    BY <1>4, <2>1, ConstantsAssumption DEF Restart, TypeOK, Request, NoReq, BanPC, UnbanPC
<1>5. ASSUME NEW ip \in IP, JailActs(ip)
      PROVE  TypeOK'
  BY <1>5 DEF JailActs, TypeOK
<1>6. CASE UNCHANGED vars
  BY <1>6 DEF vars, TypeOK
<1>. QED
  BY <1>1, <1>2, <1>3, <1>4, <1>5, <1>6, ArriveType, TaskStepType, SweepStepType,
     ReconcileStepType DEF Next

\* Every variable keeps its type in every run, whatever the constants.
THEOREM TypeCorrect == Spec => []TypeOK
BY InitType, NextType, PTL DEF Spec

LEMMA NextRows == TypeOK /\ [Next]_vars => RowsStep
<1>. SUFFICES ASSUME TypeOK, [Next]_vars PROVE RowsStep
  OBVIOUS
<1>1. ASSUME NEW t \in Task, Arrive(t)
      PROVE  RowsStep
  BY <1>1 DEF Arrive, handleBanPost, BackgroundBan, AdmitBan, handleUnbanPost, RowsStep,
              table
<1>2. CASE SweepStep
  BY <1>2 DEF SweepStep, SweepList, SweepUnblock, SweepClear, SweepLog, TypeOK,
              RowsStep, Deletion, table
<1>3. CASE ReconcileStep
  BY <1>3 DEF ReconcileStep, ReconcileList, ReconcileBan, RowsStep, table
<1>4. ASSUME NEW ip \in IP, IngestBanLine(ip) \/ IngestUnbanLine(ip) \/ JailActs(ip)
      PROVE  RowsStep
  BY <1>4, OwnType DEF IngestBanLine, IngestUnbanLine, JailActs, MirrorBan, RowsStep,
                       Insertion, Deletion
<1>5. ASSUME NEW s \in SUBSET IP, SetExtra(s)
      PROVE  RowsStep
  BY <1>5 DEF SetExtra, RowsStep, table
<1>6. CASE Tick
  BY <1>6 DEF Tick, RowsStep, table
<1>7. ASSUME NEW reboot \in BOOLEAN, NEW on \in BOOLEAN, Restart(reboot, on)
      PROVE  RowsStep
  BY <1>7 DEF Restart, RowsStep
<1>8. CASE UNCHANGED vars
  BY <1>8 DEF vars, RowsStep
<1>. QED
  BY <1>1, <1>2, <1>3, <1>4, <1>5, <1>6, <1>7, <1>8, TaskStepRows DEF Next

-----------------------------------------------------------------------------
(* One active row per address.                                             *)

LEMMA RowsStepOneRow ==
  ASSUME OneActiveRow, RowsStep
  PROVE  OneActiveRow'
<1>1. CASE Insertion
  BY <1>1 DEF Insertion, InsertRow, Active, OneActiveRow
<1>2. CASE Deletion
  BY <1>2 DEF Deletion, UnbanIP, MirrorUnban, OneActiveRow
<1>. QED  BY <1>1, <1>2 DEF RowsStep, OneActiveRow

\* No interleaving of bans, unbans, sweeps, mirrors and restarts gives an
\* address a second active row.
THEOREM OneRowPerAddress == Spec => []OneActiveRow
<1>1. Init => OneActiveRow
  BY DEF Init, OneActiveRow
<1>2. TypeOK /\ OneActiveRow /\ [Next]_vars => OneActiveRow'
  BY NextRows, RowsStepOneRow
<1>. QED  BY <1>1, <1>2, TypeCorrect, PTL DEF Spec

-----------------------------------------------------------------------------
(* Listed bans are enforced.  The property is inductive as it stands: it   *)
(* names, in InFlight, every activity that may own the discrepancy.        *)

LEMMA TaskStepEnforces ==
  ASSUME TypeOK, ListedBansAreEnforced, NEW t \in Task, TaskStep(t)
  PROVE  ListedBansAreEnforced'
<1>1. UNCHANGED <<now, enabled, backend, sw, rc>>
  BY DEF TaskStep, BanStep, UnbanStep, RecordBan, Block, Rollback, LogBan,
         Unblock, Clear, LogUnban, settings
<1>2. req[t].ip \in IP /\ (pc'[t] # "idle" => req'[t].ip = req[t].ip)
  BY DEF TaskStep, BanStep, UnbanStep, RecordBan, Block, Rollback, LogBan,
         Unblock, Clear, LogUnban, Goto, Done, TypeOK
<1>3. \A u \in Task \ {t} : pc'[u] = pc[u] /\ req'[u] = req[u]
  BY DEF TaskStep, BanStep, UnbanStep, RecordBan, Block, Rollback, LogBan,
         Unblock, Clear, LogUnban, Goto, Done, TypeOK
<1>4. reported \subseteq reported'
  BY DEF TaskStep, BanStep, UnbanStep, RecordBan, Block, Rollback, LogBan,
         Unblock, Clear, LogUnban
<1>5. fw \ {req[t].ip} \subseteq fw'
  BY FailsType DEF TaskStep, BanStep, UnbanStep, RecordBan, Block, Rollback, LogBan,
         Unblock, Clear, LogUnban, FwBan, FwUnban
<1>6. \A r \in bans' : r.ip # req[t].ip => r \in bans
  BY <1>2 DEF TaskStep, BanStep, UnbanStep, RecordBan, Block, Rollback, LogBan,
         Unblock, Clear, LogUnban, BanIP, UnbanIP, MirrorBan, MirrorUnban, InsertRow
<1>7. ASSUME enabled, backend = "nftables", NEW r \in bans', r.ip # req[t].ip, r.source = Own, ~Expired(r)
      PROVE  r.ip \in fw' \/ r.ip \in reported' \/ InFlight(r.ip)'
  <2>1. r.ip \in fw \/ r.ip \in reported \/ InFlight(r.ip)
    BY <1>6, <1>7 DEF ListedBansAreEnforced
  <2>2. InFlight(r.ip) => InFlight(r.ip)'
    BY <1>1, <1>3, <1>7 DEF InFlight
  <2>3. r.ip \in fw => r.ip \in fw'
    BY <1>5, <1>7
  <2>. QED  BY <2>1, <2>2, <2>3, <1>4
<1>8. ASSUME enabled, backend = "nftables", NEW r \in bans', r.ip = req[t].ip, r.source = Own, ~Expired(r)
      PROVE  r.ip \in fw' \/ r.ip \in reported' \/ InFlight(r.ip)'
  <2>1. r \in bans => r.ip \in fw \/ r.ip \in reported \/ InFlight(r.ip)
    BY <1>8 DEF ListedBansAreEnforced
  <2>2. pc'[t] \in {"block", "rollback", "clear"} => InFlight(r.ip)'
    BY <1>2, <1>8 DEF InFlight
  <2>3. pc[t] \notin {"block", "rollback", "clear"} /\ InFlight(r.ip) => InFlight(r.ip)'
    BY <1>1, <1>3 DEF InFlight
  <2>4. CASE RecordBan(t)
    <3>1. pc'[t] = "block" \/ (bans' = bans /\ fw' = fw /\ reported' = reported
                                /\ pc[t] = "record")
      BY <2>4 DEF RecordBan, Goto, Done, TypeOK
    <3>. QED  BY <3>1, <2>1, <2>2, <2>3, <1>8
  <2>5. CASE Block(t)
    <3>1. pc'[t] = "rollback" \/ req[t].ip \in fw'
      BY <2>5, FailsNothing DEF Block, Goto, FwBan, TypeOK
    <3>. QED  BY <3>1, <2>2, <1>8
  <2>6. CASE Rollback(t) \/ Clear(t)
    <3>1. r \notin UnbanIP(bans, req[t].ip)
      BY <1>8 DEF UnbanIP
    <3>. QED  BY <3>1, <2>6, <1>8 DEF Rollback, Clear
  <2>7. CASE LogBan(t) \/ LogUnban(t)
    <3>1. r \in bans
      BY <2>7, <1>8 DEF LogBan, LogUnban, MirrorBan, MirrorUnban, InsertRow, Own, Fail2ban
    <3>2. fw' = fw /\ pc[t] \notin {"block", "rollback", "clear"}
      BY <2>7 DEF LogBan, LogUnban
    <3>. QED  BY <3>1, <3>2, <2>1, <2>3, <1>4
  <2>8. CASE Unblock(t)
    <3>1. pc'[t] = "clear" \/ (fw' = fw /\ bans' = bans /\ pc[t] = "unblock")
      BY <2>8, <1>8, FailsNothing DEF Unblock, Goto, TypeOK
    <3>. QED  BY <3>1, <2>1, <2>2, <2>3, <1>4, <1>8
  <2>. QED
    BY <2>4, <2>5, <2>6, <2>7, <2>8 DEF TaskStep, BanStep, UnbanStep
<1>. QED
  BY <1>1, <1>7, <1>8 DEF ListedBansAreEnforced, Expired, Own

LEMMA SweepStepEnforces == TypeOK /\ ListedBansAreEnforced /\ SweepStep => ListedBansAreEnforced'
<1>. SUFFICES ASSUME TypeOK, ListedBansAreEnforced, SweepStep, enabled',
                     backend' = "nftables",
                     NEW r \in bans', r.source = Own', ~Expired(r)'
              PROVE  r.ip \in fw' \/ r.ip \in reported' \/ InFlight(r.ip)'
  BY DEF ListedBansAreEnforced
<1>1. UNCHANGED <<now, enabled, backend, pc, req, rc>>
  BY DEF SweepStep, SweepList, SweepUnblock, SweepClear, SweepLog, settings, control
<1>2. r \in bans
  BY DEF SweepStep, SweepList, SweepUnblock, SweepClear, SweepLog, UnbanIP, MirrorUnban,
         table
<1>3. r.ip \in fw \/ r.ip \in reported \/ InFlight(r.ip)
  BY <1>1, <1>2 DEF ListedBansAreEnforced, Expired, Own
<1>4. CASE SweepList
  BY <1>1, <1>3, <1>4 DEF SweepList, InFlight, table
<1>5. ASSUME NEW ip \in IP, SweepUnblock(ip)
      PROVE  r.ip \in fw' \/ r.ip \in reported' \/ InFlight(r.ip)'
  <2>1. enabled /\ (FwUnbanFails(ip) => fw' = fw)
    BY <1>1, FailsNothing
  <2>2. CASE sw'.pc = "clear" /\ sw'.ip = ip /\ fw' = fw \ {ip}
    BY <1>1, <1>3, <1>5, <2>2 DEF SweepUnblock, InFlight
  <2>3. CASE sw'.pc = sw.pc /\ sw'.ip = sw.ip /\ fw' = fw
    BY <1>1, <1>3, <1>5, <2>3 DEF SweepUnblock, InFlight
  <2>. QED  BY <1>5, <2>1, <2>2, <2>3 DEF SweepUnblock, FwUnban, TypeOK
<1>6. CASE SweepClear
  <2>1. bans' = UnbanIP(bans, sw.ip) => r.ip # sw.ip
    BY DEF UnbanIP
  <2>2. fw' = fw /\ (r.ip # sw.ip \/ r.ip \in reported') /\ reported \subseteq reported'
    BY <1>6, <2>1 DEF SweepClear
  <2>. QED  BY <1>1, <1>3, <2>2 DEF InFlight
<1>7. CASE SweepLog
  BY <1>1, <1>3, <1>7 DEF SweepLog, InFlight
<1>. QED  BY <1>4, <1>5, <1>6, <1>7 DEF SweepStep

LEMMA ReconcileStepEnforces ==
  TypeOK /\ ListedBansAreEnforced /\ ReconcileStep => ListedBansAreEnforced'
<1>. SUFFICES ASSUME TypeOK, ListedBansAreEnforced, ReconcileStep, enabled',
                     backend' = "nftables",
                     NEW r \in bans', r.source = Own', ~Expired(r)'
              PROVE  r.ip \in fw' \/ r.ip \in reported' \/ InFlight(r.ip)'
  BY DEF ListedBansAreEnforced
<1>1. UNCHANGED <<now, enabled, backend, pc, req, sw, bans>>
  BY DEF ReconcileStep, ReconcileList, ReconcileBan, settings, control, table
<1>2. r.ip \in fw \/ r.ip \in reported \/ InFlight(r.ip)
  BY <1>1 DEF ListedBansAreEnforced, Expired, Own
<1>3. CASE ReconcileList
  <2>1. r.ip \in Restorable
    BY <1>1 DEF Restorable, Expired, Own
  <2>2. r.ip \in rc'.todo \/ r.ip \in reported'
    BY <1>3, <2>1 DEF ReconcileList
  <2>. QED  BY <2>2 DEF InFlight
<1>4. ASSUME NEW ip \in IP, ReconcileBan(ip)
      PROVE  r.ip \in fw' \/ r.ip \in reported' \/ InFlight(r.ip)'
  <2>1. fw \subseteq fw' /\ reported \subseteq reported' /\ (ip \in fw' \/ ip \in reported')
    BY <1>4, BanFailsSuperset DEF ReconcileBan, FwBan
  <2>2. rc' = [rc EXCEPT !.todo = @ \ {ip}]
    BY <1>4 DEF ReconcileBan
  <2>3. rc'.listed = rc.listed /\ rc'.todo = rc.todo \ {ip}
    BY <2>2 DEF TypeOK
  <2>. QED  BY <1>1, <1>2, <2>1, <2>3 DEF InFlight
<1>. QED  BY <1>3, <1>4 DEF ReconcileStep

LEMMA NextEnforces ==
  TypeOK /\ ListedBansAreEnforced /\ [Next]_vars => ListedBansAreEnforced'
<1>. SUFFICES ASSUME TypeOK, ListedBansAreEnforced, [Next]_vars
              PROVE  ListedBansAreEnforced'
  OBVIOUS
<1>1. ASSUME NEW t \in Task, Arrive(t)
      PROVE  ListedBansAreEnforced'
  <2>1. UNCHANGED <<bans, fw, now, enabled, backend, sw, rc, reported>>
    BY <1>1 DEF Arrive, handleBanPost, BackgroundBan, AdmitBan, handleUnbanPost, table,
                settings
  <2>2. pc[t] = "idle" /\ \A u \in Task \ {t} : pc'[u] = pc[u] /\ req'[u] = req[u]
    BY <1>1 DEF Arrive, handleBanPost, BackgroundBan, AdmitBan, handleUnbanPost, TypeOK
  <2>3. \A ip : InFlight(ip) => InFlight(ip)'
    BY <2>1, <2>2 DEF InFlight
  <2>. QED  BY <2>1, <2>3 DEF ListedBansAreEnforced, Expired, Own
<1>2. ASSUME NEW ip \in IP, IngestBanLine(ip) \/ IngestUnbanLine(ip)
      PROVE  ListedBansAreEnforced'
  <2>1. backend = "nftables" => \A r \in bans' : r.source = Own => r \in bans
    BY <1>2 DEF IngestBanLine, IngestUnbanLine, MirrorBan, MirrorUnban, InsertRow, Own,
                Fail2ban
  <2>. QED
    BY <1>2, <2>1 DEF IngestBanLine, IngestUnbanLine, ListedBansAreEnforced, Expired,
                      InFlight, settings, control, Own
<1>3. ASSUME NEW s \in SUBSET IP, SetExtra(s)
      PROVE  ListedBansAreEnforced'
  BY <1>3 DEF SetExtra, ListedBansAreEnforced, Expired, InFlight, table, control, Own
<1>4. CASE Tick
  <2>1. \A r \in bans : ~Expired(r)' => ~Expired(r)
    BY <1>4 DEF Tick, Expired, TypeOK, Row
  <2>. QED  BY <1>4, <2>1 DEF Tick, ListedBansAreEnforced, InFlight, table, settings, control,
                                   Own
<1>5. ASSUME NEW reboot \in BOOLEAN, NEW on \in BOOLEAN, Restart(reboot, on)
      PROVE  ListedBansAreEnforced'
  BY <1>5 DEF Restart, ListedBansAreEnforced, InFlight, Fail2ban
<1>6. ASSUME NEW ip \in IP, JailActs(ip)
      PROVE  ListedBansAreEnforced'
  BY <1>6 DEF JailActs, ListedBansAreEnforced, Fail2ban, settings
<1>7. CASE UNCHANGED vars
  BY <1>7 DEF vars, ListedBansAreEnforced, Expired, InFlight, Own
<1>. QED
  BY <1>1, <1>2, <1>3, <1>4, <1>5, <1>6, <1>7, TaskStepEnforces, SweepStepEnforces,
     ReconcileStepEnforces DEF Next

\* Whatever the interleaving of requests, background bans, sweeps, the boot
\* reconciliation, crashes and host reboots, an active unexpired row of this
\* backend is in the kernel set, or an activity that will settle it is under
\* way, or an error was logged for it.
THEOREM Enforcement == Spec => []ListedBansAreEnforced
<1>1. Init => ListedBansAreEnforced
  BY DEF Init, ListedBansAreEnforced
<1>. QED  BY <1>1, NextEnforces, TypeCorrect, PTL DEF Spec
-----------------------------------------------------------------------------
(* The base allowlist.  Inductively: no ban task and no reconciliation in  *)
(* progress holds an address of it either.                                 *)

BaseInv ==
  backend = "nftables" =>
    /\ BaseAllowlistNeverBanned
    /\ \A t \in Task : pc[t] \in BanPC => req[t].ip \notin BaseAllow
    /\ rc.todo \cap BaseAllow = {}

LEMMA BackendFixed == [Next]_vars => backend' = backend
BY DEF Next, vars, settings, Arrive, handleBanPost, BackgroundBan, AdmitBan, handleUnbanPost,
       TaskStep, BanStep, UnbanStep, RecordBan, Block, Rollback, LogBan, Unblock, Clear,
       LogUnban, SweepStep, SweepList, SweepUnblock, SweepClear, SweepLog, ReconcileStep,
       ReconcileList, ReconcileBan, IngestBanLine, IngestUnbanLine, JailActs, SetExtra,
       Tick, Restart

LEMMA NextBaseInv == TypeOK /\ BaseInv /\ [Next]_vars => BaseInv'
<1>. SUFFICES ASSUME TypeOK, BaseInv, [Next]_vars, backend' = "nftables" PROVE BaseInv'
  BY DEF BaseInv
<1>0. backend = "nftables" /\ Own = "nftables" /\ Own' = "nftables"
  BY BackendFixed DEF Own
<1>. USE <1>0 DEF BaseInv, BaseAllowlistNeverBanned, BanPC
<1>1. ASSUME NEW t \in Task, Arrive(t)
      PROVE  BaseInv'
  <2>1. UNCHANGED <<bans, fw, rc>>
    BY <1>1 DEF Arrive, handleBanPost, BackgroundBan, AdmitBan, handleUnbanPost, table
  <2>2. pc'[t] \in BanPC => req'[t].ip \notin BaseAllow
    BY <1>1 DEF Arrive, handleBanPost, BackgroundBan, AdmitBan, handleUnbanPost,
                Allowlisted, TypeOK
  <2>3. \A u \in Task \ {t} : pc'[u] = pc[u] /\ req'[u] = req[u]
    BY <1>1 DEF Arrive, handleBanPost, BackgroundBan, AdmitBan, handleUnbanPost, TypeOK
  <2>. QED  BY <2>1, <2>2, <2>3
<1>2. ASSUME NEW t \in Task, TaskStep(t)
      PROVE  BaseInv'
  <2>1. UNCHANGED rc
    BY <1>2 DEF TaskStep, BanStep, UnbanStep, RecordBan, Block, Rollback, LogBan,
                Unblock, Clear, LogUnban
  <2>2. \A u \in Task \ {t} : pc'[u] = pc[u] /\ req'[u] = req[u]
    BY <1>2 DEF TaskStep, BanStep, UnbanStep, RecordBan, Block, Rollback, LogBan,
                Unblock, Clear, LogUnban, Goto, Done, TypeOK
  <2>3. pc'[t] \in BanPC => pc[t] \in BanPC /\ req'[t] = req[t]
    BY <1>2 DEF TaskStep, BanStep, UnbanStep, RecordBan, Block, Rollback, LogBan,
                Unblock, Clear, LogUnban, Goto, Done, TypeOK
  <2>4. \A ip \in fw' : ip \in fw \/ (pc[t] \in BanPC /\ ip = req[t].ip)
    BY <1>2, FailsNothing
    DEF TaskStep, BanStep, UnbanStep, RecordBan, Block, Rollback, LogBan,
        Unblock, Clear, LogUnban, FwBan, FwUnban
  <2>5. \A r \in bans' : r.source # Own \/ r \in bans \/ (pc[t] \in BanPC /\ r.ip = req[t].ip)
    BY <1>2 DEF TaskStep, BanStep, UnbanStep, RecordBan, Block, Rollback, LogBan,
                Unblock, Clear, LogUnban, BanIP, UnbanIP, MirrorBan, MirrorUnban, InsertRow,
                Fail2ban
  <2>. QED  BY <2>1, <2>2, <2>3, <2>4, <2>5
<1>3. CASE SweepStep
  <2>1. UNCHANGED <<pc, req, rc>> /\ fw' \subseteq fw /\ bans' \subseteq bans
    BY <1>3, UnbanFailsSubset DEF SweepStep, SweepList, SweepUnblock, SweepClear, SweepLog, FwUnban,
                UnbanIP, MirrorUnban, table, control
  <2>. QED  BY <2>1
<1>4. CASE ReconcileList
  <2>1. Restorable \cap BaseAllow = {}
    BY DEF Restorable
  <2>2. rc'.todo = Restorable \/ rc'.todo = {}
    BY <1>4 DEF ReconcileList
  <2>. QED  BY <1>4, <2>1, <2>2 DEF ReconcileList, table, control
<1>5. ASSUME NEW ip \in IP, ReconcileBan(ip)
      PROVE  BaseInv'
  <2>1. ip \notin BaseAllow /\ fw' \subseteq fw \cup {ip}
    BY <1>5, FailsType DEF ReconcileBan, FwBan
  <2>2. rc'.todo \subseteq rc.todo
    BY <1>5 DEF ReconcileBan, TypeOK
  <2>. QED  BY <1>5, <2>1, <2>2 DEF ReconcileBan, control
<1>6. ASSUME NEW ip \in IP, IngestBanLine(ip) \/ IngestUnbanLine(ip) \/ JailActs(ip)
      PROVE  BaseInv'
  BY <1>6 DEF JailActs, IngestBanLine, IngestUnbanLine, MirrorBan, MirrorUnban, InsertRow,
              Own, Fail2ban, control
<1>7. CASE Tick \/ \E s \in SUBSET IP : SetExtra(s)
  BY <1>7 DEF Tick, SetExtra, table, control
<1>8. ASSUME NEW reboot \in BOOLEAN, NEW on \in BOOLEAN, Restart(reboot, on)
      PROVE  BaseInv'
  BY <1>8 DEF Restart
<1>9. CASE UNCHANGED vars
  BY <1>9 DEF vars
<1>. QED
  BY <1>1, <1>2, <1>3, <1>4, <1>5, <1>6, <1>7, <1>8, <1>9 DEF Next, ReconcileStep

\* No path bans an address of LOGFORT_IGNORE_IPS.
THEOREM BaseAllowlist == Spec => []BaseAllowlistNeverBanned
<1>1. Init => BaseInv
  BY DEF Init, BaseInv, BaseAllowlistNeverBanned, BanPC
<1>2. BaseInv => BaseAllowlistNeverBanned
  BY DEF BaseInv, BaseAllowlistNeverBanned
<1>. QED  BY <1>1, <1>2, NextBaseInv, TypeCorrect, PTL DEF Spec

-----------------------------------------------------------------------------
(* The rows implement the ban book.                                        *)

entry(ip) == EntryIn(Entries(ip))

LEMMA EntryInOne ==
  ASSUME NEW r
  PROVE  EntryIn({r}) = [source |-> r.source, expires |-> r.expires]
<1>1. (CHOOSE x \in {r} : TRUE) = r
  OBVIOUS
<1>. QED  BY <1>1 DEF EntryIn

LEMMA EntryInNone == EntryIn({}) = Book!NoEntry
BY DEF EntryIn, Book!NoEntry

LEMMA RowsStepBook ==
  ASSUME OneActiveRow, bans \subseteq Row, RowsStep
  PROVE  [Book!Next]_([ip \in IP |-> entry(ip)])
<1>. DEFINE book == [ip \in IP |-> entry(ip)]
<1>1. CASE UNCHANGED bans
  BY <1>1 DEF entry, Entries
<1>2. ASSUME NEW ip \in IP, NEW source \in Source, NEW e \in Nat,
             bans' = InsertRow(bans, ip, source, e), ~Active(bans, ip)
      PROVE  Book!Next
  <2>. DEFINE r == [ip |-> ip, source |-> source, expires |-> e]
              n == [source |-> source, expires |-> e]
  <2>1. bans' = bans \cup {r}
    BY <1>2 DEF InsertRow
  <2>2. Entries(ip) = {}
    BY <1>2 DEF Entries, Active
  <2>3. Entries(ip)' = {r}
    BY <2>1, <2>2 DEF Entries
  <2>4. entry(ip) = Book!NoEntry /\ entry(ip)' = n
    BY <2>2, <2>3, EntryInOne, EntryInNone DEF entry
  <2>5. \A j \in IP \ {ip} : Entries(j)' = Entries(j)
    BY <2>1 DEF Entries
  <2>6. \A j \in IP \ {ip} : entry(j)' = entry(j)
    BY <2>5 DEF entry
  <2>7. book' = [book EXCEPT ![ip] = n] /\ book'[ip] = n
    BY <2>4, <2>6
  <2>8. n \in Book!Entry
    BY DEF Book!Entry
  <2>. QED  BY <2>4, <2>7, <2>8 DEF Book!Next, Book!Enter, entry
<1>3. ASSUME NEW ip \in IP, bans' = UnbanIP(bans, ip) \/ bans' = MirrorUnban(bans, ip)
      PROVE  [Book!Next]_book
  <2>1. \A j \in IP \ {ip} : Entries(j)' = Entries(j)
    BY <1>3 DEF Entries, UnbanIP, MirrorUnban
  <2>2. \A j \in IP \ {ip} : entry(j)' = entry(j)
    BY <2>1 DEF entry
  <2>3. Entries(ip)' = {} \/ Entries(ip)' = Entries(ip)
    BY <1>3 DEF Entries, UnbanIP, MirrorUnban, OneActiveRow
  <2>4. CASE Entries(ip)' = Entries(ip)
    BY <2>2, <2>4 DEF entry
  <2>5. CASE Entries(ip)' = {} /\ Entries(ip) # {}
    <3>1. PICK r \in bans : Entries(ip) = {r}
      BY <2>5 DEF Entries, OneActiveRow
    <3>2. entry(ip) = [source |-> r.source, expires |-> r.expires]
      BY <3>1, EntryInOne DEF entry
    <3>3. entry(ip) # Book!NoEntry
      BY <3>2 DEF Book!NoEntry, Row, Source
    <3>4. entry(ip)' = Book!NoEntry
      BY <2>5, EntryInNone DEF entry
    <3>5. book' = [book EXCEPT ![ip] = Book!NoEntry]
      BY <3>4, <2>2
    <3>. QED  BY <3>3, <3>5 DEF Book!Next, Book!Lift, entry
  <2>. QED  BY <2>3, <2>4, <2>5
<1>. QED
  BY <1>1, <1>2, <1>3 DEF RowsStep, Insertion, Deletion, InsertRow

\* The detailed program implements the ban book: an entry in force is never
\* altered in place.
THEOREM Refinement == Spec => ImplementsBanBook
<1>1. Init => Book!Init
  BY EntryInNone DEF Init, Book!Init, Entries, EntryIn
<1>2. TypeOK /\ OneActiveRow /\ [Next]_vars => [Book!Next]_([ip \in IP |-> entry(ip)])
  BY NextRows, RowsStepBook DEF TypeOK
<1>3. TypeOK /\ OneActiveRow /\ [Next]_vars
        => [Book!Next]_([ip \in IP |-> EntryIn(Entries(ip))])
  BY <1>2 DEF entry
<1>. QED
  BY <1>1, <1>3, TypeCorrect, OneRowPerAddress, PTL DEF Spec, ImplementsBanBook, Book!Spec

-----------------------------------------------------------------------------
(* What serial runs are about.                                             *)

Plain == ~F2bLines /\ ~CanDisable /\ Backends = {"nftables"} /\ MaxFw = 0

Serial == \A a, b \in Busy : a = b

\* A ban is recorded before it is blocked and unblocked before it is cleared.
SerialInv ==
  /\ enabled /\ backend = "nftables" /\ left.fw = 0
  /\ Serial
  /\ NoOrphanBlock
  /\ \A t \in Task : /\ pc[t] # "rollback"
                     /\ pc[t] \in {"block", "logBan"} => Active(bans, req[t].ip)
                     /\ pc[t] \in {"clear", "logUnban"} => req[t].ip \notin fw
  /\ sw.pc \in {"clear", "log"} => sw.ip \notin fw
  /\ \A ip \in rc.todo : Active(bans, ip)

\* Until a ban is logged its row is there; what the sweeper has listed stays expired
\* until it clears it.
SparedInv ==
  /\ Serial
  /\ \A t \in Task : pc[t] \in {"block", "logBan"} => Active(bans, req[t].ip)
  /\ \A r \in bans : r.ip \in sw.todo \/ (sw.pc = "clear" /\ r.ip = sw.ip) => Expired(r)

\* What a task that is at work finds the others doing.
LEMMA OthersRest ==
  ASSUME Serial, NEW t \in Task, pc[t] # "idle"
  PROVE  /\ ~SweeperAtWork /\ ~ReconcilerAtWork
         /\ \A u \in Task \ {t} : pc[u] = "idle"
<1>1. <<"task", t>> \in Busy
  BY DEF Busy
<1>2. SweeperAtWork => <<"sweeper">> \in Busy
  BY DEF Busy
<1>3. ReconcilerAtWork => <<"reconciler">> \in Busy
  BY DEF Busy
<1>4. \A u \in Task : pc[u] # "idle" => <<"task", u>> \in Busy
  BY DEF Busy
<1>5. <<"task", t>> # <<"sweeper">> /\ <<"task", t>> # <<"reconciler">>
  OBVIOUS
<1>. QED  BY <1>1, <1>2, <1>3, <1>4, <1>5 DEF Serial

LEMMA SweeperAlone ==
  ASSUME Serial, SweeperAtWork
  PROVE  ~ReconcilerAtWork /\ \A t \in Task : pc[t] = "idle"
<1>1. ReconcilerAtWork => <<"reconciler">> \in Busy /\ <<"sweeper">> \in Busy
  BY DEF Busy
<1>2. <<"reconciler">> # <<"sweeper">>
  OBVIOUS
<1>3. ~ReconcilerAtWork
  BY <1>1, <1>2 DEF Serial
<1>. QED  BY <1>3, OthersRest

LEMMA ReconcilerAlone ==
  ASSUME Serial, ReconcilerAtWork
  PROVE  ~SweeperAtWork /\ \A t \in Task : pc[t] = "idle"
BY SweeperAlone, OthersRest

LEMMA SerialNext == [Next /\ OneAtATime]_vars /\ Serial => Serial'
BY DEF OneAtATime, Serial, vars, Busy, SweeperAtWork, ReconcilerAtWork

LEMMA NoFwError ==
  ASSUME TypeOK, left.fw = 0
  PROVE  /\ ~FwError
         /\ DbError => left'.fw = 0
         /\ \A ip : ~FwBanFails(ip)
BY DEF TypeOK, FwError, DbError, FwBanFails

-----------------------------------------------------------------------------
(* The invariant, one activity at a time.                                  *)

LEMMA SerialArrive ==
  ASSUME TypeOK, SerialInv, Serial', NEW t \in Task, Arrive(t)
  PROVE  SerialInv'
<1>1. /\ UNCHANGED <<bans, fw, now, enabled, backend, sw, rc, left>>
      /\ pc[t] = "idle" /\ pc'[t] \in {"record", "unblock"}
      /\ \A u \in Task \ {t} : pc'[u] = pc[u] /\ req'[u] = req[u]
  BY DEF Arrive, handleBanPost, BackgroundBan, AdmitBan, handleUnbanPost, table, settings, TypeOK
<1>. QED  BY <1>1 DEF SerialInv, NoOrphanBlock, Active

LEMMA InsertedIsActive ==
  ASSUME NEW b, NEW ip, NEW source, NEW expires
  PROVE  Active(InsertRow(b, ip, source, expires), ip)
<1>. DEFINE row == [ip |-> ip, source |-> source, expires |-> expires]
<1>1. CASE Active(b, ip)
  BY <1>1 DEF InsertRow
<1>2. CASE ~Active(b, ip)
  <2>1. InsertRow(b, ip, source, expires) = b \cup {row}
    BY <1>2 DEF InsertRow
  <2>2. row \in b \cup {row} /\ row.ip = ip
    OBVIOUS
  <2>. QED  BY <2>1, <2>2 DEF Active
<1>. QED  BY <1>1, <1>2

LEMMA SerialTask ==
  ASSUME TypeOK, SerialInv, Serial', NEW t \in Task, TaskStep(t)
  PROVE  SerialInv'
<1>1. pc[t] # "idle"
  BY DEF TaskStep, BanStep, UnbanStep, RecordBan, Block, Rollback, LogBan, Unblock, Clear, LogUnban
<1>2. /\ sw.pc = "scan" /\ sw.todo = {} /\ rc.todo = {}
      /\ \A u \in Task \ {t} : pc[u] = "idle"
  BY <1>1, OthersRest DEF SerialInv, SweeperAtWork, ReconcilerAtWork
<1>3. /\ UNCHANGED <<now, enabled, backend, sw, rc>>
      /\ \A u \in Task \ {t} : pc'[u] = "idle"
      /\ pc'[t] # "idle" => req'[t] = req[t]
  BY <1>2 DEF TaskStep, BanStep, UnbanStep, RecordBan, Block, Rollback, LogBan, Unblock, Clear,
              LogUnban, Goto, Done, settings, TypeOK
<1>4. enabled /\ backend = "nftables" /\ left.fw = 0
  BY DEF SerialInv
<1>5. left'.fw = 0
  BY <1>4, NoFwError DEF TaskStep, BanStep, UnbanStep, RecordBan, Block, Rollback, LogBan,
                         Unblock, Clear, LogUnban, FwUnbanFails
<1>6. ASSUME /\ NoOrphanBlock'
             /\ pc'[t] # "rollback"
             /\ pc'[t] \in {"block", "logBan"} => Active(bans', req[t].ip)
             /\ pc'[t] \in {"clear", "logUnban"} => req[t].ip \notin fw'
      PROVE  SerialInv'
  <2>1. sw'.pc = "scan" /\ sw'.todo = {} /\ rc'.todo = {}
    BY <1>2, <1>3
  <2>2. ASSUME NEW u \in Task
        PROVE  /\ pc'[u] # "rollback"
               /\ pc'[u] \in {"block", "logBan"} => Active(bans', req'[u].ip)
               /\ pc'[u] \in {"clear", "logUnban"} => req'[u].ip \notin fw'
    <3>1. CASE u = t
      BY <1>3, <1>6, <3>1
    <3>2. CASE u # t
      BY <1>3, <3>2
    <3>. QED  BY <3>1, <3>2
  <2>3. enabled' /\ backend' = "nftables"
    BY <1>3, <1>4
  <2>. QED  BY <1>5, <1>6, <2>1, <2>2, <2>3 DEF SerialInv
<1>7. CASE RecordBan(t)
  <2>1. fw' = fw /\ \A ip : Active(bans, ip) => Active(bans', ip)
    BY <1>7 DEF RecordBan, BanIP, InsertRow, Active
  <2>2. \/ pc'[t] = "block" /\ Active(bans', req[t].ip)
        \/ pc'[t] = "idle"
    <3>1. CASE bans' = BanIP(bans, req[t].ip, req[t].expires) /\ Goto(t, "block")
      <4>1. pc'[t] = "block"
        BY <3>1 DEF Goto, TypeOK
      <4>2. Active(bans', req[t].ip)
        BY <3>1, InsertedIsActive DEF BanIP
      <4>. QED  BY <4>1, <4>2
    <3>2. CASE Done(t)
      BY <3>2 DEF Done, TypeOK
    <3>. QED  BY <1>7, <3>1, <3>2 DEF RecordBan
  <2>3. NoOrphanBlock'
    BY <2>1 DEF SerialInv, NoOrphanBlock, Active
  <2>. QED  BY <1>6, <2>2, <2>3
<1>8. CASE Block(t)
  <2>1. bans' = bans /\ fw' = fw \cup {req[t].ip} /\ pc'[t] = "logBan" /\ Active(bans, req[t].ip)
    BY <1>4, <1>8, NoFwError DEF Block, FwBan, Goto, SerialInv, TypeOK
  <2>. QED  BY <1>6, <2>1 DEF SerialInv, NoOrphanBlock
<1>9. CASE Rollback(t)
  BY <1>9 DEF Rollback, SerialInv
<1>10. CASE LogBan(t)
  <2>1. bans' = bans /\ fw' = fw /\ pc'[t] = "idle"
    BY <1>10 DEF LogBan, MirrorBan, InsertRow, Done, SerialInv, TypeOK
  <2>. QED  BY <1>6, <2>1 DEF SerialInv, NoOrphanBlock
<1>11. CASE Unblock(t)
  <2>1. bans' = bans /\ fw' \subseteq fw
    BY <1>11, UnbanFailsSubset DEF Unblock, FwUnban
  <2>2. \/ pc'[t] = "clear" /\ req[t].ip \notin fw'
        \/ pc'[t] = "idle"
    BY <1>11 DEF Unblock, FwUnban, Goto, Done, TypeOK
  <2>. QED  BY <1>6, <2>1, <2>2 DEF SerialInv, NoOrphanBlock
<1>12. CASE Clear(t)
  <2>1. req[t].ip \notin fw /\ fw' = fw /\ pc'[t] \in {"idle", "logUnban"}
    BY <1>12 DEF Clear, Goto, Done, SerialInv, TypeOK
  <2>2. bans' = bans \/ bans' = UnbanIP(bans, req[t].ip)
    BY <1>12 DEF Clear
  <2>. QED  BY <1>6, <2>1, <2>2 DEF SerialInv, NoOrphanBlock, Active, UnbanIP
<1>13. CASE LogUnban(t)
  <2>1. req[t].ip \notin fw /\ fw' = fw /\ pc'[t] = "idle"
    BY <1>13 DEF LogUnban, Done, SerialInv, TypeOK
  <2>2. bans' = bans \/ bans' = MirrorUnban(bans, req[t].ip)
    BY <1>13 DEF LogUnban
  <2>. QED  BY <1>6, <2>1, <2>2 DEF SerialInv, NoOrphanBlock, Active, MirrorUnban
<1>. QED
  BY <1>7, <1>8, <1>9, <1>10, <1>11, <1>12, <1>13 DEF TaskStep, BanStep, UnbanStep

\* What the sweeper does finds every task idle and no reconciliation under way.
LEMMA SerialSweep ==
  ASSUME TypeOK, SerialInv, Serial', SweepStep
  PROVE  SerialInv'
<1>1. UNCHANGED <<now, enabled, backend, pc, req, rc>>
  BY DEF SweepStep, SweepList, SweepUnblock, SweepClear, SweepLog, settings, control
<1>2. enabled /\ backend = "nftables" /\ left.fw = 0
  BY DEF SerialInv
<1>3. left'.fw = 0
  BY <1>2, NoFwError DEF SweepStep, SweepList, SweepUnblock, SweepClear, SweepLog, FwUnbanFails
<1>4. CASE SweepList
  <2>1. /\ UNCHANGED <<bans, fw>> /\ sw'.pc = "scan"
    BY <1>4 DEF SweepList, table, TypeOK
  <2>. QED  BY <1>1, <1>2, <1>3, <2>1 DEF SerialInv, NoOrphanBlock
<1>5. CASE SweepClear \/ SweepLog \/ \E ip \in IP : SweepUnblock(ip)
  <2>1. SweeperAtWork
    BY <1>5 DEF SweepClear, SweepLog, SweepUnblock, SweeperAtWork
  <2>2. rc.todo = {} /\ \A t \in Task : pc[t] = "idle"
    BY <2>1, SweeperAlone DEF SerialInv, ReconcilerAtWork
  <2>3. ASSUME /\ NoOrphanBlock'
               /\ sw'.pc \in {"clear", "log"} => sw'.ip \notin fw'
        PROVE  SerialInv'
    <3>2. \A u \in Task : pc'[u] = "idle"
      BY <1>1, <2>2
    <3>3. rc'.todo = {} /\ enabled' /\ backend' = "nftables"
      BY <1>1, <1>2, <2>2
    <3>. QED  BY <1>3, <2>3, <3>2, <3>3 DEF SerialInv
  <2>4. ASSUME NEW ip \in IP, SweepUnblock(ip)
        PROVE  /\ NoOrphanBlock'
               /\ sw'.pc \in {"clear", "log"} => sw'.ip \notin fw'
    <3>1. bans' = bans /\ sw.pc = "scan" /\ ip \in sw.todo
      BY <2>4 DEF SweepUnblock
    <3>2. \/ fw' = fw \ {ip} /\ sw' = [pc |-> "clear", todo |-> sw.todo \ {ip}, ip |-> ip]
          \/ fw' \subseteq fw /\ sw' = [sw EXCEPT !.todo = @ \ {ip}]
      BY <1>2, <2>4, UnbanFailsSubset DEF SweepUnblock, FwUnban
    <3>3. /\ fw' \subseteq fw
          /\ \/ sw'.pc = "clear" /\ sw'.ip = ip /\ ip \notin fw'
             \/ sw'.pc = "scan"
      BY <3>1, <3>2 DEF TypeOK
    <3>4. NoOrphanBlock'
      BY <3>1, <3>3 DEF SerialInv, NoOrphanBlock, Active
    <3>. QED  BY <3>3, <3>4
  <2>5. CASE SweepClear \/ SweepLog
    <3>1. /\ fw' = fw /\ bans' \in {bans, UnbanIP(bans, sw.ip), MirrorUnban(bans, sw.ip)}
          /\ sw.ip \notin fw
          /\ (sw'.pc = "log" /\ sw'.ip = sw.ip) \/ sw'.pc = "scan"
      BY <2>5 DEF SweepClear, SweepLog, SerialInv, TypeOK
    <3>2. bans' \subseteq bans /\ \A ip \in IP \ {sw.ip} : Active(bans, ip) => Active(bans', ip)
      BY <3>1 DEF UnbanIP, MirrorUnban, Active
    <3>3. NoOrphanBlock'
      BY <3>1, <3>2 DEF SerialInv, NoOrphanBlock, Active, TypeOK
    <3>. QED  BY <2>3, <3>1, <3>3
  <2>. QED  BY <1>5, <2>3, <2>4, <2>5
<1>. QED  BY <1>4, <1>5 DEF SweepStep

LEMMA SerialReconcile ==
  ASSUME TypeOK, SerialInv, Serial', ReconcileStep
  PROVE  SerialInv'
<1>1. UNCHANGED <<bans, now, enabled, backend, pc, req, sw>>
  BY DEF ReconcileStep, ReconcileList, ReconcileBan, settings, control, table
<1>2. enabled /\ backend = "nftables" /\ left.fw = 0
  BY DEF SerialInv
<1>3. left'.fw = 0
  BY <1>2, NoFwError DEF ReconcileStep, ReconcileList, ReconcileBan
<1>4. ReconcilerAtWork
  BY DEF ReconcileStep, ReconcileList, ReconcileBan, ReconcilerAtWork
<1>5. sw.pc = "scan" /\ \A t \in Task : pc[t] = "idle"
  BY <1>4, ReconcilerAlone DEF SerialInv, SweeperAtWork
<1>6. NoOrphanBlock' /\ \A ip \in rc'.todo : Active(bans, ip)
  <2>1. CASE ReconcileList
    <3>1. fw' = fw /\ rc'.todo \in {Restorable, {}}
      BY <2>1 DEF ReconcileList, table
    <3>2. \A ip \in Restorable : Active(bans, ip)
      BY DEF Restorable, Active
    <3>. QED  BY <1>1, <3>1, <3>2 DEF SerialInv, NoOrphanBlock
  <2>2. ASSUME NEW ip \in IP, ReconcileBan(ip)
        PROVE  NoOrphanBlock' /\ \A x \in rc'.todo : Active(bans, x)
    <3>1. ip \in rc.todo /\ fw' = fw \cup {ip}
      BY <1>2, <2>2, NoFwError DEF ReconcileBan, FwBan
    <3>2. rc'.todo \subseteq rc.todo
      BY <2>2 DEF ReconcileBan, TypeOK
    <3>. QED  BY <1>1, <3>1, <3>2 DEF SerialInv, NoOrphanBlock
  <2>. QED  BY <2>1, <2>2 DEF ReconcileStep
<1>. QED  BY <1>1, <1>2, <1>3, <1>5, <1>6 DEF SerialInv

LEMMA SerialRestart ==
  ASSUME Plain, TypeOK, SerialInv, Serial', NEW reboot \in BOOLEAN, NEW on \in BOOLEAN,
         Restart(reboot, on)
  PROVE  SerialInv'
<1>1. enabled' /\ backend' = "nftables" /\ left'.fw = 0
  BY DEF Restart, Plain, SerialInv, TypeOK
<1>2. /\ bans' = bans /\ fw' \subseteq fw
      /\ \A t \in Task : pc'[t] = "idle"
      /\ sw'.pc = "scan" /\ sw'.todo = {} /\ rc'.todo = {}
  BY DEF Restart
<1>. QED  BY <1>1, <1>2 DEF SerialInv, NoOrphanBlock

LEMMA SerialElsewhere ==
  ASSUME Plain, TypeOK, SerialInv, Serial',
         \/ \E ip \in IP : IngestBanLine(ip) \/ IngestUnbanLine(ip) \/ JailActs(ip)
         \/ \E s \in SUBSET IP : SetExtra(s)
         \/ Tick \/ UNCHANGED vars
  PROVE  SerialInv'
<1>1. ~\E ip \in IP : IngestBanLine(ip) \/ IngestUnbanLine(ip) \/ JailActs(ip)
  BY DEF Plain, SerialInv, IngestBanLine, IngestUnbanLine, JailActs, Fail2ban
<1>2. UNCHANGED <<bans, fw, enabled, backend, pc, req, sw, rc, left>>
  BY <1>1 DEF SetExtra, Tick, table, settings, control, vars
<1>. QED  BY <1>2 DEF SerialInv, NoOrphanBlock, Active

LEMMA SerialStep ==
  Plain /\ TypeOK /\ SerialInv /\ [Next /\ OneAtATime]_vars => SerialInv'
<1>. SUFFICES ASSUME Plain, TypeOK, SerialInv, [Next /\ OneAtATime]_vars
              PROVE  SerialInv'
  OBVIOUS
<1>1. Serial'
  BY SerialNext DEF SerialInv
<1>. QED
  BY <1>1, SerialArrive, SerialTask, SerialSweep, SerialReconcile, SerialRestart, SerialElsewhere
  DEF Next

LEMMA SerialInit == Plain /\ Init => SerialInv
<1>. SUFFICES ASSUME Plain, Init
              PROVE  SerialInv
  OBVIOUS
<1>1. Serial
  BY DEF Init, Serial, Busy, SweeperAtWork
<1>. QED  BY <1>1 DEF Init, Plain, SerialInv, NoOrphanBlock

LEMMA SerialIsSpec == SerialSpec => Spec
<1>1. [Next /\ OneAtATime]_vars => [Next]_vars
  OBVIOUS
<1>. QED  BY <1>1, PTL DEF SerialSpec, Spec

LEMMA SerialInvariant == Plain /\ SerialSpec => []SerialInv
<1>. SUFFICES ASSUME Plain
              PROVE  SerialSpec => []SerialInv
  OBVIOUS
<1>1. Init => SerialInv
  BY SerialInit
<1>2. TypeOK /\ SerialInv /\ [Next /\ OneAtATime]_vars => SerialInv'
  BY SerialStep
<1>. QED
  BY <1>1, <1>2, SerialIsSpec, TypeCorrect, PTL DEF SerialSpec

-----------------------------------------------------------------------------
(* Sparing the rows of others, whatever the responder and its errors.      *)

LEMMA SparedArrive ==
  ASSUME TypeOK, SparedInv, Serial', NEW t \in Task, Arrive(t)
  PROVE  SparedInv'
<1>1. /\ UNCHANGED <<bans, now, sw>>
      /\ pc'[t] \in {"record", "unblock"}
      /\ \A u \in Task \ {t} : pc'[u] = pc[u] /\ req'[u] = req[u]
  BY DEF Arrive, handleBanPost, BackgroundBan, AdmitBan, handleUnbanPost, table, settings, TypeOK
<1>. QED  BY <1>1 DEF SparedInv, Expired, Active

LEMMA SparedTask ==
  ASSUME TypeOK, SparedInv, Serial', NEW t \in Task, TaskStep(t)
  PROVE  SparedInv'
<1>1. pc[t] # "idle"
  BY DEF TaskStep, BanStep, UnbanStep, RecordBan, Block, Rollback, LogBan, Unblock, Clear, LogUnban
<1>2. /\ sw.pc = "scan" /\ sw.todo = {}
      /\ \A u \in Task \ {t} : pc[u] = "idle"
  BY <1>1, OthersRest DEF SparedInv, SweeperAtWork
<1>3. /\ sw' = sw /\ \A u \in Task \ {t} : pc'[u] = "idle"
  BY <1>2 DEF TaskStep, BanStep, UnbanStep, RecordBan, Block, Rollback, LogBan, Unblock, Clear,
              LogUnban, Goto, Done, TypeOK
<1>4. pc'[t] \in {"block", "logBan"} => Active(bans', req'[t].ip)
  <2>1. CASE RecordBan(t)
    <3>1. CASE bans' = BanIP(bans, req[t].ip, req[t].expires) /\ Goto(t, "block")
      BY <3>1, InsertedIsActive DEF BanIP, Goto
    <3>2. CASE Done(t)
      BY <3>2 DEF Done, TypeOK
    <3>. QED  BY <2>1, <3>1, <3>2 DEF RecordBan
  <2>2. CASE Block(t)
    BY <2>2 DEF Block, Goto, SparedInv, Active, TypeOK
  <2>3. CASE Rollback(t) \/ LogBan(t) \/ UnbanStep(t)
    BY <2>3 DEF Rollback, LogBan, UnbanStep, Unblock, Clear, LogUnban, Goto, Done, TypeOK
  <2>. QED  BY <2>1, <2>2, <2>3 DEF TaskStep, BanStep
<1>. QED  BY <1>2, <1>3, <1>4 DEF SparedInv

LEMMA SparedSweep ==
  ASSUME TypeOK, OneActiveRow, SparedInv, Serial', SweepStep
  PROVE  SparedInv'
<1>1. UNCHANGED <<now, pc, req>> /\ \A r : Expired(r)' <=> Expired(r)
  BY DEF SweepStep, SweepList, SweepUnblock, SweepClear, SweepLog, settings, control, Expired
<1>2. CASE SweepList
  <2>1. bans' = bans /\ sw'.pc = "scan" /\ sw'.todo = {r.ip : r \in ListExpiredBans}
    BY <1>2 DEF SweepList, table, TypeOK
  <2>2. \A r \in bans : r.ip \in sw'.todo => Expired(r)
    BY <2>1 DEF ListExpiredBans, OneActiveRow
  <2>. QED  BY <1>1, <2>1, <2>2 DEF SparedInv, Active
<1>3. CASE SweepClear \/ SweepLog \/ \E ip \in IP : SweepUnblock(ip)
  <2>1. SweeperAtWork
    BY <1>3 DEF SweepClear, SweepLog, SweepUnblock, SweeperAtWork
  <2>2. \A t \in Task : pc'[t] = "idle"
    BY <1>1, <2>1, SweeperAlone DEF SparedInv
  <2>3. /\ bans' \subseteq bans /\ sw'.todo \subseteq sw.todo
        /\ sw'.pc = "clear" => sw'.ip \in sw.todo
    <3>1. CASE SweepClear \/ SweepLog
      BY <3>1 DEF SweepClear, SweepLog, UnbanIP, MirrorUnban, TypeOK
    <3>2. ASSUME NEW ip \in IP, SweepUnblock(ip)
          PROVE  /\ bans' \subseteq bans /\ sw'.todo \subseteq sw.todo
                 /\ sw'.pc = "clear" => sw'.ip \in sw.todo
      BY <3>2 DEF SweepUnblock, TypeOK
    <3>. QED  BY <1>3, <3>1, <3>2
  <2>4. \A r \in bans : r.ip \in sw.todo => Expired(r)
    BY DEF SparedInv
  <2>. QED  BY <1>1, <2>2, <2>3, <2>4 DEF SparedInv
<1>. QED  BY <1>2, <1>3 DEF SweepStep

LEMMA SparedElsewhere ==
  ASSUME ~F2bLines, TypeOK, SparedInv, Serial',
         \/ ReconcileStep
         \/ \E ip \in IP : IngestBanLine(ip) \/ IngestUnbanLine(ip) \/ JailActs(ip)
         \/ \E s \in SUBSET IP : SetExtra(s)
         \/ Tick \/ UNCHANGED vars
  PROVE  SparedInv'
<1>1. UNCHANGED <<bans, pc, req, sw>>
  BY DEF ReconcileStep, ReconcileList, ReconcileBan, IngestBanLine, IngestUnbanLine, JailActs, SetExtra,
         Tick, table, settings, control, vars
<1>2. now' = now \/ now' = now + 1
  BY DEF ReconcileStep, ReconcileList, ReconcileBan, IngestBanLine, IngestUnbanLine, JailActs, SetExtra,
         Tick, vars
<1>3. \A r \in bans : Expired(r) => Expired(r)'
  BY <1>2 DEF Expired, TypeOK, Row
<1>. QED  BY <1>1, <1>3 DEF SparedInv, Active

LEMMA SparedRestart ==
  ASSUME Serial', NEW reboot \in BOOLEAN, NEW on \in BOOLEAN, Restart(reboot, on)
  PROVE  SparedInv'
BY DEF Restart, SparedInv

LEMMA SparedInvariant == ~F2bLines /\ SerialSpec => []SparedInv
<1>. SUFFICES ASSUME ~F2bLines
              PROVE  SerialSpec => []SparedInv
  OBVIOUS
<1>1. Init => SparedInv
  BY DEF Init, SparedInv, Serial, Busy, SweeperAtWork
<1>2. TypeOK /\ OneActiveRow /\ SparedInv /\ [Next /\ OneAtATime]_vars => SparedInv'
  <2>. SUFFICES ASSUME TypeOK, OneActiveRow, SparedInv, [Next /\ OneAtATime]_vars
                PROVE  SparedInv'
    OBVIOUS
  <2>1. Serial'
    BY SerialNext DEF SparedInv
  <2>. QED  BY <2>1, SparedArrive, SparedTask, SparedSweep, SparedElsewhere, SparedRestart DEF Next
<1>. QED
  BY <1>1, <1>2, SerialIsSpec, TypeCorrect, OneRowPerAddress, PTL DEF SerialSpec

-----------------------------------------------------------------------------
(* What follows.                                                           *)

\* Activities that do not overlap never leave an address in the kernel set that
\* no active row lists, wherever they are cut short by store errors, crashes and
\* reboots.
THEOREM NoOrphans == Plain /\ SerialSpec => []NoOrphanBlock
<1>1. SerialInv => NoOrphanBlock
  BY DEF SerialInv
<1>. QED  BY SerialInvariant, <1>1, PTL

\* Nor does the sweeper lift a ban whose term is not over, or the mirror of the
\* program's own ban event add a row: with either responder, enabled or not, and
\* whatever fails, unless lines of fail2ban's log come in between.
THEOREM OthersSpared == ~F2bLines /\ SerialSpec => OthersRowsAreSpared
<1>1. ASSUME TypeOK, SparedInv, [Next]_vars
      PROVE  [/\ sw.pc = "clear" /\ sw'.pc = "log" => \A r \in bans \ bans' : Expired(r)
              /\ \A t \in Task :
                   pc[t] = "logBan" /\ pc'[t] = "idle" /\ left'.crash = left.crash => bans' = bans]_vars
  <2>1. ASSUME sw.pc = "clear", sw'.pc = "log", NEW r \in bans \ bans'
        PROVE  Expired(r)
    <3>1. sw' # sw
      BY <2>1
    <3>2. SweepClear
      BY <1>1, <2>1, <3>1 DEF Next, Arrive, handleBanPost, BackgroundBan, AdmitBan, handleUnbanPost,
         TaskStep, BanStep, UnbanStep, RecordBan, Block, Rollback, LogBan, Unblock, Clear,
         LogUnban, SweepStep, SweepList, SweepUnblock, SweepLog, ReconcileStep,
         ReconcileList, ReconcileBan, IngestBanLine, IngestUnbanLine, JailActs, SetExtra,
         Tick, Restart, vars
    <3>. QED  BY <1>1, <2>1, <3>2 DEF SweepClear, UnbanIP, SparedInv
  <2>2. ASSUME NEW t \in Task, pc[t] = "logBan", pc'[t] = "idle", left'.crash = left.crash
        PROVE  bans' = bans
    <3>1. CASE LogBan(t)
      BY <1>1, <2>2, <3>1 DEF LogBan, MirrorBan, InsertRow, SparedInv
    <3>2. ASSUME NEW u \in Task, TaskStep(u) \/ Arrive(u), ~LogBan(t)
          PROVE  FALSE
      <4>1. CASE u # t
        BY <1>1, <2>2, <3>2, <4>1 DEF Arrive, handleBanPost, BackgroundBan, AdmitBan, handleUnbanPost,
           TaskStep, BanStep, UnbanStep, RecordBan, Block, Rollback, LogBan, Unblock, Clear,
           LogUnban, Goto, Done, TypeOK
      <4>2. CASE u = t
        BY <2>2, <3>2, <4>2 DEF Arrive, handleBanPost, BackgroundBan, AdmitBan, handleUnbanPost,
           TaskStep, BanStep, UnbanStep, RecordBan, Block, Rollback, Unblock, Clear, LogUnban
      <4>. QED  BY <4>1, <4>2
    <3>3. ASSUME NEW reboot \in BOOLEAN, NEW on \in BOOLEAN, Restart(reboot, on)
          PROVE  FALSE
      <4>1. left.crash \in Nat /\ left' = [left EXCEPT !.crash = @ - 1]
        BY <1>1, <3>3 DEF Restart, TypeOK
      <4>2. left'.crash = left.crash - 1
        BY <1>1, <4>1 DEF TypeOK
      <4>. QED  BY <2>2, <4>1, <4>2
    <3>4. pc' # pc
      BY <2>2
    <3>5. \/ \E u \in Task : Arrive(u) \/ TaskStep(u)
          \/ \E reboot, on \in BOOLEAN : Restart(reboot, on)
      BY <1>1, <3>4 DEF Next, SweepStep, SweepList, SweepUnblock, SweepClear, SweepLog, ReconcileStep,
         ReconcileList, ReconcileBan, IngestBanLine, IngestUnbanLine, JailActs, SetExtra,
         Tick, control, vars
    <3>. QED  BY <3>1, <3>2, <3>3, <3>5
  <2>. QED  BY <2>1, <2>2
<1>. QED
  BY SparedInvariant, SerialIsSpec, TypeCorrect, <1>1, PTL DEF Spec, OthersRowsAreSpared
=============================================================================
