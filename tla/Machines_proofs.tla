-------------------------- MODULE Machines_proofs --------------------------
(***************************************************************************)
(* Proofs about the small state machines, for any rates, directories of    *)
(* migrations, targets and ports, and any number of requests, crashes and  *)
(* scans.                                                                  *)
(***************************************************************************)
EXTENDS Machines, SequenceTheorems, FiniteSetTheorems, WellFoundedInduction, TLAPS

-----------------------------------------------------------------------------
(* The statistics cache.                                                   *)

\* A payload of a window, and how long it may be kept.
PayloadOK(e, k) ==
  /\ e.key = k /\ e.at \in Int /\ e.expires \in Int
  /\ e.expires <= e.at + Cache!Ttl(k) + QueryTime

\* A query that has been made is not older than a query may take.
RequestOK(q) ==
  /\ DOMAIN q = {"pc", "key", "got", "end"}
  /\ q.pc \in {"idle", "query", "delete", "store", "answered", "error"}
  /\ q.pc \in {"query", "delete", "store", "answered"} => q.key \in Keys
  /\ q.pc = "store" =>
       /\ DOMAIN q.got = {"at", "key", "expires"}
       /\ q.got.key = q.key /\ q.got.at \in Int /\ now <= q.got.at + QueryTime
  /\ q.pc = "answered" =>
       /\ q.got.key = q.key /\ q.end \in Int /\ q.got.at \in Int
       /\ q.end - q.got.at <= Cache!Ttl(q.key) + QueryTime

CacheInv ==
  /\ now \in Nat /\ DOMAIN statsCache = Keys /\ DOMAIN request = Requests
  /\ \A k \in Keys : statsCache[k] = Cache!Empty \/ PayloadOK(statsCache[k], k)
  /\ \A r \in Requests : RequestOK(request[r])

LEMMA TtlType == TTL \in Nat /\ QueryTime \in Nat /\ \A k \in Keys : Cache!Ttl(k) \in Nat
BY MachinesAssumption DEF Cache!Ttl

LEMMA GoOK ==
  ASSUME NEW r \in Requests, NEW p, NEW got, NEW end, DOMAIN request = Requests,
         RequestOK(request[r]), Cache!Go(r, p, got, end)
  PROVE  /\ DOMAIN request' = Requests
         /\ \A s \in Requests \ {r} : request'[s] = request[s]
         /\ DOMAIN request'[r] = {"pc", "key", "got", "end"}
         /\ request'[r].pc = p /\ request'[r].key = request[r].key
         /\ request'[r].got = got /\ request'[r].end = end
BY DEF Cache!Go, RequestOK

\* One request moves, and with it perhaps one entry.
LEMMA RequestMoves ==
  ASSUME CacheInv, NEW r \in Requests, now' = now,
         DOMAIN request' = Requests, \A s \in Requests \ {r} : request'[s] = request[s],
         RequestOK(request'[r]),
         DOMAIN statsCache' = Keys,
         \A k \in Keys : \/ statsCache'[k] = statsCache[k] \/ statsCache'[k] = Cache!Empty
                         \/ PayloadOK(statsCache'[k], k)
  PROVE  CacheInv'
<1>1. \A s \in Requests : RequestOK(request[s])'
  BY DEF CacheInv, RequestOK
<1>2. \A k \in Keys : (statsCache[k] = Cache!Empty \/ PayloadOK(statsCache[k], k))'
  BY DEF CacheInv, PayloadOK, Cache!Empty
<1>. QED  BY <1>1, <1>2 DEF CacheInv

LEMMA CacheStep ==
  ASSUME CacheInv, NEW r \in Requests,
         \/ \E k \in Keys : Cache!Lookup(r, k)
         \/ Cache!Delete(r) \/ Cache!Query(r) \/ Cache!QueryFails(r)
         \/ Cache!StoreAnswer(r) \/ Cache!Finish(r)
  PROVE  CacheInv'
<1>. DEFINE q == request[r]
<1>1. /\ now \in Nat /\ DOMAIN statsCache = Keys /\ DOMAIN request = Requests
      /\ RequestOK(q) /\ \A k \in Keys : statsCache[k] = Cache!Empty \/ PayloadOK(statsCache[k], k)
  BY DEF CacheInv
<1>2. ASSUME NEW k \in Keys, Cache!Lookup(r, k)
      PROVE  CacheInv'
  <2>. DEFINE e == statsCache[k]
              p == IF Cache!Ttl(k) = 0 \/ e = Cache!Empty THEN "query"
                   ELSE IF Cache!Fresh(e) THEN "answered" ELSE "delete"
              s == [pc |-> p, key |-> k, got |-> IF p = "answered" THEN e ELSE Cache!Empty,
                    end |-> IF p = "answered" THEN now ELSE -1]
  <2>1. request' = [request EXCEPT ![r] = s] /\ UNCHANGED <<now, statsCache>>
    BY <1>2 DEF Cache!Lookup
  <2>2. p \in {"query", "delete", "answered"}
    OBVIOUS
  <2>3. p = "answered" => PayloadOK(e, k) /\ now < e.expires
    BY <1>1 DEF Cache!Fresh
  <2>. HIDE DEF p
  <2>4. RequestOK(s)
    <3>1. CASE p # "answered"
      BY <2>2, <3>1 DEF RequestOK
    <3>2. CASE p = "answered"
      <4>1. now - e.at <= Cache!Ttl(k) + QueryTime /\ e.at \in Int /\ e.key = k
        BY <1>1, <2>3, <3>2, TtlType DEF PayloadOK
      <4>. QED  BY <1>1, <3>2, <4>1 DEF RequestOK
    <3>. QED  BY <3>1, <3>2
  <2>. HIDE DEF s
  <2>5. request'[r] = s /\ DOMAIN request' = Requests
        /\ \A o \in Requests \ {r} : request'[o] = request[o]
    BY <1>1, <2>1
  <2>. QED  BY <1>1, <2>1, <2>4, <2>5, RequestMoves
<1>3. CASE Cache!Delete(r)
  <2>1. /\ q.pc = "delete" /\ UNCHANGED now /\ Cache!Go(r, "query", Cache!Empty, -1)
        /\ statsCache' = [statsCache EXCEPT ![q.key] = Cache!Empty]
    BY <1>3 DEF Cache!Delete
  <2>2. RequestOK(request'[r])
    BY <1>1, <2>1, GoOK DEF RequestOK
  <2>3. /\ DOMAIN statsCache' = Keys
        /\ \A k \in Keys : statsCache'[k] = statsCache[k] \/ statsCache'[k] = Cache!Empty
    BY <1>1, <2>1
  <2>4. DOMAIN request' = Requests /\ \A s \in Requests \ {r} : request'[s] = request[s]
    BY <1>1, <2>1, GoOK
  <2>. QED  BY <2>1, <2>2, <2>3, <2>4, RequestMoves
<1>4. CASE Cache!Query(r)
  <2>. DEFINE got == [at |-> now, key |-> q.key, expires |-> -1]
  <2>1. q.pc = "query" /\ UNCHANGED <<now, statsCache>> /\ Cache!Go(r, "store", got, -1)
    BY <1>4 DEF Cache!Query
  <2>2. /\ DOMAIN request' = Requests /\ \A s \in Requests \ {r} : request'[s] = request[s]
        /\ DOMAIN request'[r] = {"pc", "key", "got", "end"}
        /\ request'[r].pc = "store" /\ request'[r].key = q.key /\ request'[r].got = got
    BY <1>1, <2>1, GoOK
  <2>3. RequestOK(request'[r])
    BY <1>1, <2>1, <2>2, TtlType DEF RequestOK
  <2>. QED  BY <1>1, <2>1, <2>2, <2>3, RequestMoves
<1>5. CASE Cache!QueryFails(r)
  <2>1. q.pc = "store" /\ UNCHANGED <<now, statsCache>> /\ Cache!Go(r, "error", Cache!Empty, now)
    BY <1>5 DEF Cache!QueryFails
  <2>2. /\ DOMAIN request' = Requests /\ \A s \in Requests \ {r} : request'[s] = request[s]
        /\ RequestOK(request'[r])
    BY <1>1, <2>1, GoOK DEF RequestOK
  <2>. QED  BY <1>1, <2>1, <2>2, RequestMoves
<1>6. CASE Cache!StoreAnswer(r)
  <2>. DEFINE k == q.key
              e == [q.got EXCEPT !.expires = now + Cache!Ttl(k)]
  <2>1. /\ q.pc = "store" /\ UNCHANGED now /\ Cache!Go(r, "answered", e, now)
        /\ statsCache' = IF Cache!Ttl(k) > 0 THEN [statsCache EXCEPT ![k] = e] ELSE statsCache
    BY <1>6 DEF Cache!StoreAnswer
  <2>2. /\ k \in Keys /\ DOMAIN q.got = {"at", "key", "expires"}
        /\ q.got.key = k /\ q.got.at \in Int /\ now <= q.got.at + QueryTime
    BY <1>1, <2>1 DEF RequestOK
  <2>3. e.key = k /\ e.at = q.got.at /\ e.expires = now + Cache!Ttl(k)
    BY <2>2
  <2>. HIDE DEF e
  <2>4. PayloadOK(e, k) /\ now - e.at <= Cache!Ttl(k) + QueryTime
    BY <1>1, <2>2, <2>3, TtlType DEF PayloadOK
  <2>5. /\ DOMAIN request' = Requests /\ \A s \in Requests \ {r} : request'[s] = request[s]
        /\ DOMAIN request'[r] = {"pc", "key", "got", "end"}
        /\ request'[r].pc = "answered" /\ request'[r].key = k /\ request'[r].got = e
        /\ request'[r].end = now
    BY <1>1, <2>1, GoOK
  <2>6. RequestOK(request'[r])
    BY <1>1, <2>2, <2>3, <2>4, <2>5 DEF RequestOK
  <2>7. /\ DOMAIN statsCache' = Keys
        /\ \A o \in Keys : statsCache'[o] = statsCache[o] \/ PayloadOK(statsCache'[o], o)
    BY <1>1, <2>1, <2>2, <2>4
  <2>. QED  BY <2>1, <2>5, <2>6, <2>7, RequestMoves
<1>7. CASE Cache!Finish(r)
  <2>1. request' = [request EXCEPT ![r] = Cache!Idle] /\ UNCHANGED <<now, statsCache>>
    BY <1>7 DEF Cache!Finish
  <2>2. RequestOK(Cache!Idle)
    BY DEF RequestOK, Cache!Idle
  <2>3. request'[r] = Cache!Idle /\ DOMAIN request' = Requests
        /\ \A s \in Requests \ {r} : request'[s] = request[s]
    BY <1>1, <2>1
  <2>. QED  BY <1>1, <2>1, <2>2, <2>3, RequestMoves
<1>. QED  BY <1>2, <1>3, <1>4, <1>5, <1>6, <1>7

\* handleStats, handleMap: however requests overlap, an answer is of the window that
\* was asked for, and at most a TTL and a query old.
THEOREM FreshAnswers == Cache!Spec => []AnswersAreFresh
<1>1. Cache!Init => CacheInv
  BY DEF Cache!Init, CacheInv, RequestOK, Cache!Idle
<1>2. CacheInv /\ [Cache!Next]_Cache!vars => CacheInv'
  <2>. SUFFICES ASSUME CacheInv, [Cache!Next]_Cache!vars PROVE CacheInv'
    OBVIOUS
  <2>1. CASE Cache!Tick
    <3>1. /\ now' = now + 1 /\ UNCHANGED <<statsCache, request>>
          /\ \A r \in Requests : request[r].pc = "store" => now < request[r].got.at + QueryTime
      BY <2>1 DEF Cache!Tick
    <3>2. \A r \in Requests : RequestOK(request[r])'
      BY <3>1, TtlType DEF CacheInv, RequestOK
    <3>3. \A k \in Keys : (statsCache[k] = Cache!Empty \/ PayloadOK(statsCache[k], k))'
      BY <3>1 DEF CacheInv, PayloadOK, Cache!Empty
    <3>. QED  BY <3>1, <3>2, <3>3 DEF CacheInv
  <2>2. CASE UNCHANGED Cache!vars
    BY <2>2 DEF Cache!vars, CacheInv, RequestOK, PayloadOK, Cache!Empty
  <2>. QED  BY <2>1, <2>2, CacheStep DEF Cache!Next
<1>3. CacheInv => AnswersAreFresh
  BY DEF CacheInv, RequestOK, AnswersAreFresh, Cache!AnswersAreFresh
<1>. QED  BY <1>1, <1>2, <1>3, PTL DEF Cache!Spec

-----------------------------------------------------------------------------
(* Certificates.                                                           *)

ProbeSet == {<< >>} \cup {<<h>> : h \in HoursLeft}

Low(x) == x # << >> /\ Watchers!DaysLeft(x[1]) <= Watchers!WarnDays

\* After its first n probes a target stands warned: the last that succeeded was low.
Standing(p, n) == \E j \in 1 .. n : Low(p[j].probe) /\ \A k \in j + 1 .. n : p[k].probe = << >>

\* What is remembered of a target is how it stands.
CertInv ==
  /\ DOMAIN probes = Watchers!Target
  /\ \A t \in Watchers!Target :
       /\ probes[t] \in Seq([probe : ProbeSet, alert : BOOLEAN])
       /\ t \in warned <=> Standing(probes[t], Len(probes[t]))
       /\ \A i \in 1 .. Len(probes[t]) :
            probes[t][i].alert <=> Low(probes[t][i].probe) /\ ~Standing(probes[t], i - 1)

LEMMA StandingAfter ==
  ASSUME NEW S, NEW p \in Seq(S), NEW c \in S
  PROVE  /\ \A i \in 0 .. Len(p) : Standing(Append(p, c), i) <=> Standing(p, i)
         /\ Standing(Append(p, c), Len(p) + 1) <=>
              Low(c.probe) \/ (c.probe = << >> /\ Standing(p, Len(p)))
<1>. DEFINE q == Append(p, c)
            n == Len(p)
<1>1. /\ n \in Nat /\ Len(q) = n + 1 /\ q[n + 1] = c
      /\ \A i \in 1 .. n : q[i] = p[i]
  BY AppendProperties
<1>. HIDE DEF q, n
<1>2. \A i \in 0 .. n : Standing(q, i) <=> Standing(p, i)
  BY <1>1 DEF Standing
<1>3. ASSUME Low(c.probe) PROVE Standing(q, n + 1)
  BY <1>1, <1>3 DEF Standing
<1>4. ASSUME c.probe = << >>, Standing(p, n) PROVE Standing(q, n + 1)
  <2>1. PICK j \in 1 .. n : Low(p[j].probe) /\ \A k \in j + 1 .. n : p[k].probe = << >>
    BY <1>4 DEF Standing
  <2>2. \A k \in j + 1 .. n + 1 : q[k].probe = << >>
    BY <1>1, <1>4, <2>1
  <2>. QED  BY <1>1, <2>1, <2>2 DEF Standing
<1>5. ASSUME Standing(q, n + 1), ~Low(c.probe)
      PROVE  c.probe = << >> /\ Standing(p, n)
  <2>1. PICK j \in 1 .. n + 1 : Low(q[j].probe) /\ \A k \in j + 1 .. n + 1 : q[k].probe = << >>
    BY <1>5 DEF Standing
  <2>2. j \in 1 .. n
    BY <1>1, <1>5, <2>1
  <2>3. \A k \in j + 1 .. n : p[k].probe = << >>
    BY <1>1, <2>1, <2>2
  <2>. QED  BY <1>1, <2>1, <2>2, <2>3 DEF Standing
<1>. QED  BY <1>2, <1>3, <1>4, <1>5 DEF q, n

\* A probe moves one target on and leaves the others.
LEMMA ProbeKeeps ==
  ASSUME CertInv, NEW x \in ProbeSet, Watchers!Probe(x)
  PROVE  CertInv'
<1>. DEFINE t == Len(results.list) + 1
            p == probes[t]
            alert == t \in Watchers!WarnedAfter(t, x) \ warned
            c == [probe |-> x, alert |-> alert]
<1>1. /\ t \in Watchers!Target
      /\ warned' = Watchers!WarnedAfter(t, x)
      /\ probes' = [probes EXCEPT ![t] = Append(p, c)]
  BY DEF Watchers!Probe, CertInv
<1>2. /\ p \in Seq([probe : ProbeSet, alert : BOOLEAN])
      /\ t \in warned <=> Standing(p, Len(p))
      /\ \A i \in 1 .. Len(p) : p[i].alert <=> Low(p[i].probe) /\ ~Standing(p, i - 1)
  BY <1>1 DEF CertInv
<1>3. /\ \A s \in Watchers!Target \ {t} : s \in warned' <=> s \in warned
      /\ t \in warned' <=> Low(x) \/ (x = << >> /\ t \in warned)
      /\ alert <=> Low(x) /\ t \notin warned
  BY <1>1 DEF Watchers!WarnedAfter, Low
<1>. HIDE DEF t, alert
<1>4. c \in [probe : ProbeSet, alert : BOOLEAN] /\ c.probe = x /\ c.alert = alert
  BY DEF alert
<1>. HIDE DEF c, p
<1>. DEFINE q == Append(p, c)
            n == Len(p)
<1>5. /\ q \in Seq([probe : ProbeSet, alert : BOOLEAN])
      /\ n \in Nat /\ Len(q) = n + 1 /\ q[n + 1] = c
      /\ \A i \in 1 .. n : q[i] = p[i]
  BY <1>2, <1>4, AppendProperties
<1>6. /\ \A i \in 0 .. n : Standing(q, i) <=> Standing(p, i)
      /\ Standing(q, n + 1) <=> Low(x) \/ (x = << >> /\ Standing(p, n))
  BY <1>2, <1>4, StandingAfter
<1>. HIDE DEF q, n
<1>7. /\ DOMAIN probes' = Watchers!Target /\ probes'[t] = q
      /\ \A s \in Watchers!Target \ {t} : probes'[s] = probes[s]
  BY <1>1 DEF CertInv, q
<1>8. \A i \in 1 .. n + 1 : q[i].alert <=> Low(q[i].probe) /\ ~Standing(q, i - 1)
  <2>. SUFFICES ASSUME NEW i \in 1 .. n + 1
                PROVE  q[i].alert <=> Low(q[i].probe) /\ ~Standing(q, i - 1)
    OBVIOUS
  <2>1. PICK j : j = i - 1
    OBVIOUS
  <2>2. CASE i \in 1 .. n
    <3>1. j \in 0 .. n
      BY <1>5, <2>1
    <3>2. q[i].alert <=> Low(q[i].probe) /\ ~Standing(p, j)
      BY <1>2, <1>5, <2>1, <2>2 DEF n
    <3>. QED  BY <1>6, <2>1, <3>1, <3>2
  <2>3. CASE i = n + 1
    <3>1. j = n /\ j \in 0 .. n
      BY <1>5, <2>1, <2>3
    <3>2. q[i].alert <=> Low(q[i].probe) /\ ~Standing(p, j)
      BY <1>2, <1>3, <1>4, <1>5, <2>3, <3>1 DEF n
    <3>. QED  BY <1>6, <2>1, <3>1, <3>2
  <2>. QED  BY <1>5, <2>2, <2>3
<1>9. t \in warned' <=> Standing(q, Len(q))
  BY <1>2, <1>3, <1>5, <1>6 DEF n
<1>10. ASSUME NEW s \in Watchers!Target
       PROVE  /\ probes'[s] \in Seq([probe : ProbeSet, alert : BOOLEAN])
              /\ s \in warned' <=> Standing(probes'[s], Len(probes'[s]))
              /\ \A i \in 1 .. Len(probes'[s]) :
                   probes'[s][i].alert <=> Low(probes'[s][i].probe) /\ ~Standing(probes'[s], i - 1)
  <2>1. CASE s = t
    BY <1>5, <1>7, <1>8, <1>9, <2>1
  <2>2. CASE s # t
    BY <1>3, <1>7, <2>2 DEF CertInv
  <2>. QED  BY <2>1, <2>2
<1>. QED  BY <1>7, <1>10 DEF CertInv, Standing, Watchers!Target

\* runCertWatch: a target is warned about when it comes within 14 days of its expiry,
\* once, whatever probes fail in between.
THEOREM ExpiryWarnedOnce == Watchers!Spec => []Watchers!WarnsOncePerExpiry
<1>1. Watchers!Init => CertInv
  <2>. SUFFICES ASSUME Watchers!Init PROVE CertInv
    OBVIOUS
  <2>1. /\ warned = {} /\ DOMAIN probes = Watchers!Target
        /\ \A t \in Watchers!Target : probes[t] = << >>
    BY DEF Watchers!Init
  <2>2. \A p : ~Standing(p, 0)
    BY DEF Standing
  <2>3. \A t \in Watchers!Target :
          /\ probes[t] \in Seq([probe : ProbeSet, alert : BOOLEAN])
          /\ Len(probes[t]) = 0 /\ \A i \in 1 .. Len(probes[t]) : FALSE
    <3>1. Len(<< >>) = 0 /\ \A S : << >> \in Seq(S)
      OBVIOUS
    <3>2. \A i \in 1 .. 0 : FALSE
      OBVIOUS
    <3>. QED  BY <2>1, <3>1, <3>2
  <2>4. \A t \in Watchers!Target : ~Standing(probes[t], Len(probes[t]))
    BY <2>2, <2>3
  <2>5. \A t \in Watchers!Target :
          /\ t \in warned <=> Standing(probes[t], Len(probes[t]))
          /\ \A i \in 1 .. Len(probes[t]) :
               probes[t][i].alert <=> Low(probes[t][i].probe) /\ ~Standing(probes[t], i - 1)
    <3>. HIDE DEF Standing
    <3>1. \A t \in Watchers!Target : t \notin warned
      BY <2>1
    <3>2. \A t \in Watchers!Target : \A i \in 1 .. Len(probes[t]) : FALSE
      BY <2>3
    <3>. QED  BY <2>4, <3>1, <3>2
  <2>. QED  BY <2>1, <2>3, <2>5 DEF CertInv
<1>2. CertInv /\ [Watchers!Next]_Watchers!vars => CertInv'
  <2>. SUFFICES ASSUME CertInv, [Watchers!Next]_Watchers!vars PROVE CertInv'
    OBVIOUS
  <2>1. ASSUME warned' = warned, probes' = probes PROVE CertInv'
    BY <2>1 DEF CertInv, Standing, Watchers!Target
  <2>2. CASE Watchers!BeginCheck \/ Watchers!EndCheck \/ UNCHANGED Watchers!vars
    BY <2>1, <2>2 DEF Watchers!BeginCheck, Watchers!EndCheck, Watchers!vars, Watchers!certVars
  <2>3. CASE Watchers!PortsWatch
    BY <2>1, <2>3 DEF Watchers!PortsWatch, Watchers!Scan, Watchers!certVars
  <2>4. ASSUME NEW x \in ProbeSet, Watchers!Probe(x) PROVE CertInv'
    BY <2>4, ProbeKeeps
  <2>. QED  BY <2>2, <2>3, <2>4 DEF Watchers!Next, Watchers!CertWatch, ProbeSet
<1>3. CertInv => Watchers!WarnsOncePerExpiry
  <2>. SUFFICES ASSUME CertInv, NEW t \in Watchers!Target, NEW i \in DOMAIN probes[t]
                PROVE  probes[t][i].alert <=>
                         /\ Low(probes[t][i].probe)
                         /\ ~\E j \in 1 .. i - 1 :
                              /\ Low(probes[t][j].probe)
                              /\ \A k \in j + 1 .. i - 1 : probes[t][k].probe = << >>
    BY DEF Watchers!WarnsOncePerExpiry, Low
  <2>1. i \in 1 .. Len(probes[t])
    BY DEF CertInv
  <2>. QED  BY <2>1 DEF CertInv, Standing
<1>. QED  BY <1>1, <1>2, <1>3, PTL DEF Watchers!Spec

-----------------------------------------------------------------------------
(* Ports.                                                                  *)

\* The ports of the first n scans.
Seen(s, n) == UNION {s[j].ports : j \in 1 .. n}

\* The baseline has every port of the last scan, and none that was never seen.
PortsInv ==
  /\ scans \in Seq([ports : SUBSET TcpPorts, announced : SUBSET TcpPorts])
  /\ \/ Len(scans) = 0 /\ baseline = << >>
     \/ /\ Len(scans) > 0
        /\ \E b \in SUBSET TcpPorts :
             baseline = <<b>> /\ scans[Len(scans)].ports \subseteq b /\ b \subseteq Seen(scans, Len(scans))
  /\ \A i \in 2 .. Len(scans) :
       /\ scans[i].ports \ Seen(scans, i - 1) \subseteq scans[i].announced
       /\ scans[i].announced \cap scans[i - 1].ports = {}

LEMMA ScanKeeps ==
  ASSUME PortsInv, NEW rows \in SUBSET Watchers!Rows, Watchers!Scan(rows)
  PROVE  PortsInv'
<1>. DEFINE cur == Watchers!Listening(rows)
            new == Watchers!Added(cur)
            c == [ports |-> cur, announced |-> new]
            n == Len(scans)
<1>1. scans' = Append(scans, c) /\ baseline' = Watchers!BaselineAfter(cur)
  BY DEF Watchers!Scan
<1>2. cur \in SUBSET TcpPorts
  BY DEF Watchers!Listening, Watchers!Rows
<1>3. new \in SUBSET TcpPorts /\ new = IF baseline = << >> THEN {} ELSE cur \ baseline[1]
  BY <1>2 DEF Watchers!Added
<1>4. baseline' = IF baseline = << >> \/ new # {} THEN <<cur>> ELSE baseline
  BY <1>1 DEF Watchers!BaselineAfter
<1>. HIDE DEF cur, new
<1>5. c \in [ports : SUBSET TcpPorts, announced : SUBSET TcpPorts]
      /\ c.ports = cur /\ c.announced = new
  BY <1>2, <1>3
<1>. HIDE DEF c
<1>6. /\ scans' \in Seq([ports : SUBSET TcpPorts, announced : SUBSET TcpPorts])
      /\ n \in Nat /\ Len(scans') = n + 1 /\ scans'[n + 1] = c
      /\ \A i \in 1 .. n : scans'[i] = scans[i]
  BY <1>1, <1>5, AppendProperties DEF PortsInv
<1>. HIDE DEF n
<1>7. \A i \in 0 .. n : Seen(scans', i) = Seen(scans, i)
  BY <1>6 DEF Seen
<1>8. Seen(scans', n + 1) = Seen(scans, n) \cup cur
  <2>1. \A j : j \in 1 .. n + 1 <=> j \in 1 .. n \/ j = n + 1
    BY <1>6
  <2>. QED  BY <1>5, <1>6, <2>1 DEF Seen
<1>9. CASE n = 0
  <2>1. baseline = << >>
    BY <1>9 DEF PortsInv, n
  <2>2. baseline' = <<cur>>
    BY <1>4, <2>1
  <2>3. /\ Len(scans') > 0 /\ ~\E i \in 2 .. Len(scans') : TRUE
        /\ scans'[Len(scans')].ports \subseteq cur /\ cur \subseteq Seen(scans', Len(scans'))
    BY <1>5, <1>6, <1>8, <1>9
  <2>. QED  BY <1>2, <1>6, <2>2, <2>3 DEF PortsInv, Seen
<1>10. CASE n # 0
  <2>1. PICK b \in SUBSET TcpPorts :
          baseline = <<b>> /\ scans[n].ports \subseteq b /\ b \subseteq Seen(scans, n)
    BY <1>10 DEF PortsInv, n
  <2>2. baseline # << >> /\ baseline[1] = b
    BY <2>1
  <2>3. new = cur \ b
    BY <1>3, <2>2
  <2>4. \E d \in SUBSET TcpPorts :
          baseline' = <<d>> /\ cur \subseteq d /\ d \subseteq Seen(scans', n + 1)
    <3>1. CASE new # {}
      BY <1>2, <1>4, <1>8, <3>1
    <3>2. CASE new = {}
      <4>1. baseline' = <<b>>
        BY <1>4, <2>1, <2>2, <3>2
      <4>. QED  BY <1>8, <2>1, <2>3, <3>2, <4>1
    <3>. QED  BY <3>1, <3>2
  <2>5. scans'[n + 1].ports \ Seen(scans', n) \subseteq scans'[n + 1].announced
    <3>1. n \in 0 .. n
      BY <1>6
    <3>2. Seen(scans', n) = Seen(scans, n)
      BY <1>7, <3>1
    <3>. QED  BY <1>5, <1>6, <2>1, <2>3, <3>2
  <2>6. scans'[n + 1].announced \cap scans'[n].ports = {}
    <3>1. n \in 1 .. n
      BY <1>6, <1>10
    <3>. QED  BY <1>5, <1>6, <2>1, <2>3, <3>1
  <2>7. ASSUME NEW i \in 2 .. n + 1
        PROVE  /\ scans'[i].ports \ Seen(scans', i - 1) \subseteq scans'[i].announced
               /\ scans'[i].announced \cap scans'[i - 1].ports = {}
    <3>. PICK j : j = i - 1
      OBVIOUS
    <3>1. CASE i = n + 1
      <4>1. j = n
        BY <1>6, <3>1
      <4>. QED  BY <2>5, <2>6, <3>1, <4>1
    <3>2. CASE i # n + 1
      <4>1. i \in 2 .. n /\ i \in 1 .. n /\ j \in 1 .. n /\ j \in 0 .. n
        BY <1>6, <3>2
      <4>2. /\ scans[i].ports \ Seen(scans, j) \subseteq scans[i].announced
            /\ scans[i].announced \cap scans[j].ports = {}
        BY <4>1 DEF PortsInv, n
      <4>. QED  BY <1>6, <1>7, <4>1, <4>2
    <3>. QED  BY <3>1, <3>2
  <2>8. Len(scans') > 0 /\ Len(scans') = n + 1 /\ scans'[n + 1].ports = cur
    BY <1>5, <1>6
  <2>. QED  BY <1>6, <2>4, <2>7, <2>8 DEF PortsInv, Seen
<1>. QED  BY <1>9, <1>10

\* runPortsWatch: a port that listens for the first time since the start is announced,
\* and none is that was listening at the scan before, however ports come and go.
THEOREM PortsAnnounced == Watchers!Spec => []Watchers!NewPortsAreAnnounced
<1>1. Watchers!Init => PortsInv
  BY DEF Watchers!Init, PortsInv
<1>2. PortsInv /\ [Watchers!Next]_Watchers!vars => PortsInv'
  <2>. SUFFICES ASSUME PortsInv, [Watchers!Next]_Watchers!vars PROVE PortsInv'
    OBVIOUS
  <2>1. ASSUME scans' = scans, baseline' = baseline PROVE PortsInv'
    BY <2>1 DEF PortsInv, Seen
  <2>2. CASE Watchers!CertWatch \/ UNCHANGED Watchers!vars
    BY <2>1, <2>2 DEF Watchers!CertWatch, Watchers!BeginCheck, Watchers!EndCheck, Watchers!Probe,
                      Watchers!vars, Watchers!portVars
  <2>3. CASE Watchers!PortsWatch
    BY <2>3, ScanKeeps DEF Watchers!PortsWatch
  <2>. QED  BY <2>2, <2>3 DEF Watchers!Next
<1>3. PortsInv => Watchers!NewPortsAreAnnounced
  BY DEF PortsInv, Seen, Watchers!NewPortsAreAnnounced
<1>. QED  BY <1>1, <1>2, <1>3, PTL DEF Watchers!Spec

-----------------------------------------------------------------------------
(* The rate limiter.                                                       *)

Full == Burst * Den

\* What the limit leaves, at t, of the interval from a on.
Room(n, t, a) == Full + Rate * (t - a) - Den * Limiter!Allowed(n, a)

\* The bucket holds what the tightest interval leaves; every answer was right.
LimiterInv ==
  /\ now \in Nat /\ last \in 0 .. now /\ tokens \in Int /\ tokens <= Full
  /\ calls \in Seq([at : Nat, ok : BOOLEAN])
  /\ \A i \in 1 .. Len(calls) : calls[i].at <= last
  /\ \A a \in 0 .. last : tokens <= Room(Len(calls), last, a)
  /\ \E a \in 0 .. last : tokens = Room(Len(calls), last, a)
  /\ \A i \in 1 .. Len(calls) : calls[i].ok <=> Limiter!Conforms(i - 1, calls[i].at)

LEMMA RatesType ==
  /\ Rate \in Nat \ {0} /\ Burst \in Nat \ {0} /\ Den \in Nat \ {0}
  /\ Full \in Nat /\ Full >= Den
<1>1. Rate \in Nat \ {0} /\ Burst \in Nat \ {0} /\ Den \in Nat \ {0}
  BY MachinesAssumption
<1>2. \A b \in Nat \ {0}, d \in Nat \ {0} : b * d \in Nat /\ b * d >= d
  OBVIOUS
<1>. QED  BY <1>1, <1>2 DEF Full

LEMMA Products ==
  /\ \A c \in Nat, x \in Nat : c * x \in Nat
  /\ \A c \in Nat, x \in Int : c * x \in Int
  /\ \A c \in Nat, x \in Int, y \in Int : c * (x + y) = c * x + c * y
  /\ \A c \in Nat, x \in Int, y \in Int : c * (x - y) = c * x - c * y
OBVIOUS

Passing(s, n, a) == {i \in 1 .. n : s[i].ok /\ s[i].at >= a}

\* The calls that passed: a number, none after the last call, and one more for a
\* call that is allowed.
LEMMA PassingType ==
  ASSUME NEW s, NEW n \in Nat, NEW a
  PROVE  IsFiniteSet(Passing(s, n, a)) /\ Cardinality(Passing(s, n, a)) \in Nat
<1>1. IsFiniteSet(1 .. n)
  BY FS_Interval
<1>2. Passing(s, n, a) \subseteq 1 .. n
  BY DEF Passing
<1>. QED  BY <1>1, <1>2, FS_Subset, FS_CardinalityType

LEMMA PassingAfter ==
  ASSUME NEW s \in Seq([at : Nat, ok : BOOLEAN]), NEW c \in [at : Nat, ok : BOOLEAN], NEW a \in Nat
  PROVE  /\ \A n \in 0 .. Len(s) : Passing(Append(s, c), n, a) = Passing(s, n, a)
         /\ Cardinality(Passing(Append(s, c), Len(s) + 1, a)) =
              Cardinality(Passing(s, Len(s), a)) + (IF c.ok /\ c.at >= a THEN 1 ELSE 0)
<1>. DEFINE q == Append(s, c)
            n == Len(s)
<1>1. /\ n \in Nat /\ Len(q) = n + 1 /\ q[n + 1] = c
      /\ \A i \in 1 .. n : q[i] = s[i]
  BY AppendProperties
<1>. HIDE DEF q, n
<1>2. \A m \in 0 .. n : Passing(q, m, a) = Passing(s, m, a)
  BY <1>1 DEF Passing
<1>3. \A i : i \in 1 .. n + 1 <=> i \in 1 .. n \/ i = n + 1
  BY <1>1
<1>4. /\ IsFiniteSet(Passing(s, n, a)) /\ Cardinality(Passing(s, n, a)) \in Nat
      /\ n + 1 \notin Passing(s, n, a)
  <2>1. IsFiniteSet(Passing(s, n, a)) /\ Cardinality(Passing(s, n, a)) \in Nat
    BY <1>1, PassingType
  <2>2. n + 1 \notin Passing(s, n, a)
    BY <1>1 DEF Passing
  <2>. QED  BY <2>1, <2>2
<1>5. CASE c.ok /\ c.at >= a
  <2>1. Passing(q, n + 1, a) = Passing(s, n, a) \cup {n + 1}
    BY <1>1, <1>3, <1>5 DEF Passing
  <2>. QED  BY <1>2, <1>4, <1>5, <2>1, FS_AddElement DEF q, n
<1>6. CASE ~(c.ok /\ c.at >= a)
  <2>1. Passing(q, n + 1, a) = Passing(s, n, a)
    BY <1>1, <1>3, <1>6 DEF Passing
  <2>. QED  BY <1>2, <1>4, <1>6, <2>1 DEF q, n
<1>. QED  BY <1>5, <1>6

LEMMA NonePassing ==
  ASSUME NEW s, NEW n \in Nat, NEW a \in Int, \A i \in 1 .. n : s[i].at \in Int /\ s[i].at < a
  PROVE  Cardinality(Passing(s, n, a)) = 0
<1>1. Passing(s, n, a) = {}
  BY DEF Passing
<1>. QED  BY <1>1, FS_EmptySet

LEMMA AllowedType ==
  ASSUME NEW n \in Nat, NEW a
  PROVE  Limiter!Allowed(n, a) \in Nat /\ Limiter!Allowed(n, a) = Cardinality(Passing(calls, n, a))
<1>1. Limiter!Allowed(n, a) = Cardinality(Passing(calls, n, a))
  BY DEF Limiter!Allowed, Passing, Limiter!Cardinality, Cardinality
<1>. QED  BY <1>1, PassingType

LEMMA RoomType ==
  ASSUME NEW n \in Nat, NEW t \in Int, NEW a \in Int
  PROVE  Room(n, t, a) \in Int
<1>1. Rate \in Nat /\ Den \in Nat /\ Full \in Nat
  BY RatesType
<1>2. Rate * (t - a) \in Int /\ Den * Limiter!Allowed(n, a) \in Int
  BY <1>1, AllowedType, Products
<1>. QED  BY <1>1, <1>2 DEF Room

\* One call more is within the limit when the tightest interval has room for it.
LEMMA ConformsIsRoom ==
  ASSUME NEW n \in Nat, NEW t \in Nat
  PROVE  Limiter!Conforms(n, t) <=> \A a \in 0 .. t : Room(n, t, a) >= Den
<1>1. ASSUME NEW a \in 0 .. t
      PROVE  (Limiter!Allowed(n, a) + 1) * Den <= Burst * Den + Rate * (t - a)
               <=> Room(n, t, a) >= Den
  <2>. DEFINE x == Limiter!Allowed(n, a)
              y == Rate * (t - a)
  <2>1. x \in Nat /\ y \in Int /\ Den \in Nat /\ Full \in Nat
    BY AllowedType, RatesType, Products
  <2>2. Room(n, t, a) = Full + y - Den * x
    BY DEF Room
  <2>. HIDE DEF x, y
  <2>3. Den * x \in Int /\ (x + 1) * Den = Den * x + Den
    BY <2>1, Products
  <2>. QED  BY <2>1, <2>2, <2>3 DEF Full, x, y
<1>. QED  BY <1>1 DEF Limiter!Conforms

Refill == Limiter!Refilled(now - last)

\* The refilled bucket holds what the tightest interval up to now leaves.
LEMMA RefillIsRoom ==
  ASSUME LimiterInv
  PROVE  /\ Refill \in Int /\ Refill <= Full
         /\ \A a \in 0 .. now : Refill <= Room(Len(calls), now, a)
         /\ \E a \in 0 .. now : Refill = Room(Len(calls), now, a)
<1>. DEFINE n == Len(calls)
            gain == Rate * (now - last)
<1>1. /\ now \in Nat /\ last \in 0 .. now /\ last \in Nat /\ n \in Nat
      /\ tokens \in Int /\ tokens <= Full
      /\ \A i \in 1 .. n : calls[i].at \in Nat /\ calls[i].at <= last
      /\ \A a \in 0 .. last : tokens <= Room(n, last, a)
      /\ \E a \in 0 .. last : tokens = Room(n, last, a)
  <2>1. calls \in Seq([at : Nat, ok : BOOLEAN])
    BY DEF LimiterInv
  <2>2. n \in Nat /\ \A i \in 1 .. n : calls[i].at \in Nat
    <3>1. n \in Nat
      BY <2>1, LenProperties
    <3>2. \A i \in 1 .. n : calls[i] \in [at : Nat, ok : BOOLEAN]
      BY <2>1, ElementOfSeq
    <3>3. \A i \in 1 .. n : calls[i].at \in Nat
      BY <3>2
    <3>. QED  BY <3>1, <3>3
  <2>3. now \in Nat /\ last \in 0 .. now /\ last \in Nat
    BY DEF LimiterInv
  <2>4. /\ tokens \in Int /\ tokens <= Full
        /\ \A i \in 1 .. n : calls[i].at <= last
        /\ \A a \in 0 .. last : tokens <= Room(n, last, a)
        /\ \E a \in 0 .. last : tokens = Room(n, last, a)
    BY DEF LimiterInv
  <2>. QED  BY <2>2, <2>3, <2>4
<1>2. Rate \in Nat /\ Den \in Nat /\ Full \in Nat
  BY RatesType
<1>3. gain \in Nat
  BY <1>1, <1>2, Products
<1>4. Refill = IF Full < tokens + gain THEN Full ELSE tokens + gain
  BY <1>1, <1>2 DEF Refill, Limiter!Refilled, Limiter!Smaller, Full
<1>5. ASSUME NEW a \in 0 .. last
      PROVE  Room(n, now, a) = Room(n, last, a) + gain
  <2>1. /\ Rate * (now - a) = Rate * now - Rate * a
        /\ Rate * (last - a) = Rate * last - Rate * a
        /\ gain = Rate * now - Rate * last
    BY <1>1, <1>2, Products
  <2>2. Rate * now \in Int /\ Rate * a \in Int /\ Rate * last \in Int
    BY <1>1, <1>2, Products
  <2>3. Den * Limiter!Allowed(n, a) \in Int
    BY <1>1, <1>2, AllowedType, Products
  <2>. HIDE DEF n, gain
  <2>. QED  BY <1>2, <2>1, <2>2, <2>3 DEF Room
<1>6. ASSUME NEW a \in last + 1 .. now
      PROVE  Room(n, now, a) = Full + Rate * (now - a) /\ Rate * (now - a) \in Nat
  <2>1. Limiter!Allowed(n, a) = 0
    BY <1>1, AllowedType, NonePassing, SMTT(30)
  <2>2. Rate * (now - a) \in Nat /\ Den * 0 = 0
    BY <1>1, <1>2, Products
  <2>. QED  BY <1>2, <2>1, <2>2 DEF Room
<1>. HIDE DEF n, gain
<1>7. Refill \in Int /\ Refill <= Full
  BY <1>1, <1>2, <1>3, <1>4
<1>8. ASSUME NEW a \in 0 .. now
      PROVE  Room(n, now, a) \in Int
  <2>1. now \in Int /\ a \in Int
    BY <1>1
  <2>. QED  BY <1>1, <2>1, RoomType
<1>9. ASSUME NEW a \in 0 .. now
      PROVE  Refill <= Room(n, now, a)
  <2>1. CASE a \in 0 .. last
    <3>1. Room(n, last, a) \in Int /\ tokens <= Room(n, last, a)
      BY <1>1, <2>1, RoomType
    <3>. QED  BY <1>1, <1>2, <1>3, <1>4, <1>5, <2>1, <3>1
  <2>2. CASE a \in last + 1 .. now
    BY <1>1, <1>2, <1>3, <1>4, <1>6, <2>2
  <2>. QED  BY <1>1, <2>1, <2>2
<1>10. \E a \in 0 .. now : Refill = Room(n, now, a)
  <2>1. CASE ~(Full < tokens + gain)
    <3>1. PICK a \in 0 .. last : tokens = Room(n, last, a)
      BY <1>1
    <3>2. a \in 0 .. now /\ Refill = Room(n, now, a)
      BY <1>1, <1>4, <1>5, <2>1, <3>1
    <3>. QED  BY <3>2
  <2>2. CASE Full < tokens + gain /\ last < now
    <3>1. now \in last + 1 .. now /\ now \in 0 .. now
      BY <1>1, <2>2
    <3>2. Room(n, now, now) = Full + Rate * (now - now)
      BY <1>6, <3>1
    <3>3. Rate * (now - now) = 0
      BY <1>1, <1>2
    <3>4. Refill = Room(n, now, now)
      BY <1>2, <1>4, <2>2, <3>2, <3>3
    <3>. QED  BY <3>1, <3>4
  <2>3. CASE Full < tokens + gain /\ last = now
    <3>1. gain = 0
      BY <1>1, <1>2, <2>3 DEF gain
    <3>. QED  BY <1>1, <1>2, <2>3, <3>1
  <2>. QED  BY <1>1, <2>1, <2>2, <2>3
<1>. QED  BY <1>7, <1>9, <1>10 DEF n

\* A call leaves the count of those before it as it was; its own counts from its
\* moment back.
LEMMA AllowedAfter ==
  ASSUME LimiterInv, Limiter!Allow, NEW n \in Nat, n = Len(calls), NEW a \in 0 .. now
  PROVE  /\ \A m \in 0 .. n : Limiter!Allowed(m, a)' = Limiter!Allowed(m, a)
         /\ Len(calls') = n + 1 /\ calls'[n + 1] = [at |-> now, ok |-> Refill >= Den]
         /\ \A i \in 1 .. n : calls'[i] = calls[i]
         /\ calls' \in Seq([at : Nat, ok : BOOLEAN])
         /\ Limiter!Allowed(n + 1, a)' =
              Limiter!Allowed(n, a) + (IF Refill >= Den THEN 1 ELSE 0)
<1>. DEFINE c == [at |-> now, ok |-> Refill >= Den]
<1>1. /\ calls \in Seq([at : Nat, ok : BOOLEAN]) /\ now \in Nat
      /\ Refill \in Int /\ Den \in Nat
  BY RefillIsRoom, RatesType DEF LimiterInv
<1>2. c \in [at : Nat, ok : BOOLEAN] /\ c.ok = (Refill >= Den) /\ c.at = now
  BY <1>1
<1>3. calls' = Append(calls, c)
  BY DEF Limiter!Allow, Refill
<1>. HIDE DEF c
<1>4. /\ Len(calls') = n + 1 /\ calls'[n + 1] = c
      /\ \A i \in 1 .. n : calls'[i] = calls[i]
      /\ calls' \in Seq([at : Nat, ok : BOOLEAN]) /\ Len(calls) \in Nat
  BY <1>1, <1>2, <1>3, AppendProperties
<1>5. a \in Nat /\ c.at >= a
  BY <1>1, <1>2
<1>6. \A m : /\ Limiter!Allowed(m, a) = Cardinality(Passing(calls, m, a))
            /\ Limiter!Allowed(m, a)' = Cardinality(Passing(calls', m, a))
  BY DEF Limiter!Allowed, Passing, Limiter!Cardinality, Cardinality
<1>7. /\ \A m \in 0 .. n : Passing(calls', m, a) = Passing(calls, m, a)
      /\ Cardinality(Passing(calls', n + 1, a)) =
           Cardinality(Passing(calls, n, a)) + (IF c.ok THEN 1 ELSE 0)
  BY <1>1, <1>2, <1>3, <1>5, PassingAfter
<1>. QED  BY <1>2, <1>4, <1>6, <1>7 DEF c

\* The answer of a call takes its token from every interval's room.
LEMMA RoomAfter ==
  ASSUME LimiterInv, Limiter!Allow, NEW n \in Nat, n = Len(calls), NEW a \in 0 .. now
  PROVE  Room(n + 1, now, a)' =
           Room(n, now, a) - (IF Refill >= Den THEN Den ELSE 0)
<1>. DEFINE x == Limiter!Allowed(n, a)
            y == Rate * (now - a)
            z == Limiter!Allowed(n + 1, a)'
<1>1. Rate \in Nat /\ Den \in Nat /\ Full \in Nat /\ now \in Nat /\ n \in Nat
  BY RatesType DEF LimiterInv
<1>2. x \in Nat /\ y \in Int
  BY <1>1, AllowedType, Products
<1>3. z = x + (IF Refill >= Den THEN 1 ELSE 0)
  BY AllowedAfter
<1>4. now' = now
  BY DEF Limiter!Allow
<1>5. Room(n, now, a) = Full + y - Den * x
  BY DEF Room
<1>6. Room(n + 1, now, a)' = Full + y - Den * z
  BY <1>4 DEF Room, Full
<1>. HIDE DEF x, y, z
<1>7. Den * (x + 1) = Den * x + Den /\ Den * x \in Int /\ Den * (x + 0) = Den * x
  BY <1>1, <1>2, Products
<1>. QED  BY <1>1, <1>2, <1>3, <1>5, <1>6, <1>7

\* Before a call, whether it is allowed is whether the limit leaves it room.
LEMMA AnswerIsRight ==
  ASSUME LimiterInv, NEW n \in Nat, n = Len(calls)
  PROVE  Refill >= Den <=> Limiter!Conforms(n, now)
<1>1. now \in Nat /\ Den \in Nat
  BY RatesType DEF LimiterInv
<1>2. Limiter!Conforms(n, now) <=> \A a \in 0 .. now : Room(n, now, a) >= Den
  BY <1>1, ConformsIsRoom
<1>3. /\ Refill \in Int
      /\ \A a \in 0 .. now : Refill <= Room(n, now, a)
      /\ \E a \in 0 .. now : Refill = Room(n, now, a)
  BY RefillIsRoom
<1>4. \A a \in 0 .. now : Room(n, now, a) \in Int
  <2>1. \A a \in 0 .. now : a \in Int /\ now \in Int
    BY <1>1
  <2>. QED  BY <2>1, RoomType
<1>. QED  BY <1>1, <1>2, <1>3, <1>4

LEMMA AllowKeeps ==
  ASSUME LimiterInv, Limiter!Allow
  PROVE  LimiterInv'
<1>. DEFINE Take == IF Refill >= Den THEN Den ELSE 0
<1>1. PICK n \in Nat : n = Len(calls)
  BY LenProperties DEF LimiterInv
<1>2. /\ now \in Nat /\ now' = now /\ last' = now /\ tokens' = Refill - Take
      /\ Den \in Nat /\ Full \in Nat
  <2>1. now \in Nat /\ Den \in Nat /\ Full \in Nat
    BY RatesType DEF LimiterInv
  <2>2. now' = now /\ last' = now
    BY DEF Limiter!Allow
  <2>3. tokens' = IF Refill >= Den THEN Refill - Den ELSE Refill
    BY DEF Limiter!Allow, Refill
  <2>4. Refill \in Int
    BY <1>1, RefillIsRoom
  <2>. QED  BY <2>1, <2>2, <2>3, <2>4
<1>3. /\ Refill \in Int /\ Refill <= Full
      /\ \A a \in 0 .. now : Refill <= Room(n, now, a)
      /\ \E a \in 0 .. now : Refill = Room(n, now, a)
  BY <1>1, RefillIsRoom
<1>4. \A a \in 0 .. now : Room(n, now, a) \in Int
  <2>1. \A a \in 0 .. now : a \in Int /\ now \in Int
    BY <1>2
  <2>. QED  BY <2>1, RoomType
<1>5. \A a \in 0 .. now : Room(n + 1, now, a)' = Room(n, now, a) - Take
  BY <1>1, RoomAfter
<1>6. 0 \in 0 .. now
  BY <1>2
<1>7. /\ Len(calls') = n + 1 /\ calls'[n + 1] = [at |-> now, ok |-> Refill >= Den]
      /\ \A i \in 1 .. n : calls'[i] = calls[i]
      /\ calls' \in Seq([at : Nat, ok : BOOLEAN])
  BY <1>1, <1>6, AllowedAfter
<1>8. /\ \A i \in 1 .. n : calls[i].at \in 0 .. now
      /\ \A i \in 1 .. n : calls[i].ok <=> Limiter!Conforms(i - 1, calls[i].at)
  <2>1. \A i \in 1 .. n : calls[i] \in [at : Nat, ok : BOOLEAN]
    BY <1>1, ElementOfSeq DEF LimiterInv
  <2>2. \A i \in 1 .. n : calls[i].at \in Nat
    BY <2>1
  <2>3. /\ last \in 0 .. now
        /\ \A i \in 1 .. n : calls[i].at <= last
        /\ \A i \in 1 .. n : calls[i].ok <=> Limiter!Conforms(i - 1, calls[i].at)
    BY <1>1 DEF LimiterInv
  <2>. QED  BY <1>2, <2>2, <2>3
<1>. HIDE DEF Take
<1>9. ASSUME NEW m \in 0 .. n, NEW t \in 0 .. now
      PROVE  Limiter!Conforms(m, t)' <=> Limiter!Conforms(m, t)
  <2>1. \A a \in 0 .. t : a \in 0 .. now
    BY <1>2
  <2>2. \A a \in 0 .. t : Limiter!Allowed(m, a)' = Limiter!Allowed(m, a)
    BY <1>1, <2>1, AllowedAfter
  <2>. QED  BY <2>2 DEF Limiter!Conforms
<1>10. \A i \in 1 .. n + 1 : (calls[i].ok <=> Limiter!Conforms(i - 1, calls[i].at))'
  <2>1. ASSUME NEW i \in 1 .. n
        PROVE  (calls[i].ok <=> Limiter!Conforms(i - 1, calls[i].at))'
    <3>1. i - 1 \in 0 .. n /\ calls[i].at \in 0 .. now
      BY <1>8
    <3>2. PICK m \in 0 .. n, t \in 0 .. now : m = i - 1 /\ t = calls[i].at
      BY <3>1
    <3>3. calls[i].ok <=> Limiter!Conforms(m, t)
      BY <1>8, <3>2
    <3>4. t = calls'[i].at /\ calls'[i].ok = calls[i].ok
      BY <1>7, <3>2
    <3>5. Limiter!Conforms(m, t)' <=> Limiter!Conforms(m, t)
      BY <1>9
    <3>. QED  BY <3>2, <3>3, <3>4, <3>5
  <2>2. (calls[n + 1].ok <=> Limiter!Conforms(n, calls[n + 1].at))'
    <3>1. PICK t \in 0 .. now : t = now
      BY <1>2
    <3>2. n \in 0 .. n
      OBVIOUS
    <3>3. calls'[n + 1].at = t /\ (calls'[n + 1].ok <=> Refill >= Den)
      BY <1>7, <3>1
    <3>4. Refill >= Den <=> Limiter!Conforms(n, t)
      BY <1>1, <3>1, AnswerIsRight
    <3>5. Limiter!Conforms(n, t)' <=> Limiter!Conforms(n, t)
      BY <1>9, <3>2
    <3>. QED  BY <3>3, <3>4, <3>5
  <2>3. \A i \in 1 .. n + 1 : i \in 1 .. n \/ (i = n + 1 /\ i - 1 = n)
    OBVIOUS
  <2>. QED  BY <2>1, <2>2, <2>3
<1>11. /\ tokens' \in Int /\ tokens' <= Full
       /\ \A a \in 0 .. now : tokens' <= Room(n + 1, now, a)'
       /\ \E a \in 0 .. now : tokens' = Room(n + 1, now, a)'
  <2>1. Take \in Int /\ Take >= 0
    BY <1>2 DEF Take
  <2>. QED  BY <1>2, <1>3, <1>4, <1>5, <2>1
<1>12. \A i \in 1 .. n + 1 : calls'[i].at <= now
  <2>1. \A i \in 1 .. n + 1 : i \in 1 .. n \/ i = n + 1
    OBVIOUS
  <2>. QED  BY <1>2, <1>7, <1>8, <2>1
<1>13. /\ now' \in Nat /\ last' \in 0 .. now'
       /\ \A i \in 1 .. Len(calls') : calls'[i].at <= last'
       /\ \A i \in 1 .. Len(calls') : (calls[i].ok <=> Limiter!Conforms(i - 1, calls[i].at))'
  BY <1>2, <1>7, <1>10, <1>12
<1>14. /\ \A a \in 0 .. last' : tokens' <= Room(Len(calls), last, a)'
       /\ \E a \in 0 .. last' : tokens' = Room(Len(calls), last, a)'
  <2>1. \A a : Room(Len(calls), last, a)' = Room(n + 1, now, a)'
    BY <1>2, <1>7
  <2>. QED  BY <1>2, <1>11, <2>1
<1>15. tokens' <= Full'
  BY <1>11 DEF Full
<1>. QED  BY <1>7, <1>11, <1>13, <1>14, <1>15 DEF LimiterInv

LEMMA TickKeeps ==
  ASSUME LimiterInv, Limiter!Tick
  PROVE  LimiterInv'
<1>1. /\ now' \in Nat /\ last' \in 0 .. now' /\ last' = last /\ tokens' = tokens
      /\ calls' = calls
  BY DEF LimiterInv, Limiter!Tick
<1>2. /\ \A n, t, a : Room(n, t, a)' = Room(n, t, a)
      /\ \A n, t : Limiter!Conforms(n, t)' = Limiter!Conforms(n, t)
  BY <1>1 DEF Room, Full, Limiter!Conforms, Limiter!Allowed
<1>. QED  BY <1>1, <1>2 DEF LimiterInv, Full

\* A call is allowed exactly when the burst and the rate leave room for it, over
\* every interval that ends with it (rateLimiter.Allow).
THEOREM NoMoreNoLess == Limiter!Spec => []AllowsWhatTheRateAdmits
<1>1. Limiter!Init => LimiterInv
  <2>. SUFFICES ASSUME Limiter!Init  PROVE LimiterInv
    OBVIOUS
  <2>1. /\ now = 0 /\ last = 0 /\ tokens = Full /\ calls = << >> /\ Full \in Nat
        /\ Rate \in Nat /\ Den \in Nat
    BY RatesType DEF Limiter!Init, Full
  <2>2. Len(calls) = 0 /\ calls \in Seq([at : Nat, ok : BOOLEAN])
    BY <2>1
  <2>3. Limiter!Allowed(0, 0) = 0
    <3>1. \A i \in 1 .. 0 : FALSE
      OBVIOUS
    <3>2. \A i \in 1 .. 0 : calls[i].at \in Int /\ calls[i].at < 0
      BY <3>1
    <3>3. 0 \in Nat /\ 0 \in Int
      OBVIOUS
    <3>. QED  BY <3>2, <3>3, AllowedType, NonePassing
  <2>4. Room(0, 0, 0) = Full
    <3>1. Rate * (0 - 0) = 0 /\ Den * 0 = 0
      BY <2>1
    <3>. QED  BY <2>1, <2>3, <3>1 DEF Room
  <2>5. \A a \in 0 .. 0 : a = 0
    OBVIOUS
  <2>6. 0 \in 0 .. 0 /\ \A i \in 1 .. 0 : FALSE
    OBVIOUS
  <2>7. /\ \A a \in 0 .. last : tokens <= Room(Len(calls), last, a)
        /\ \E a \in 0 .. last : tokens = Room(Len(calls), last, a)
    BY <2>1, <2>2, <2>4, <2>5, <2>6
  <2>. QED  BY <2>1, <2>2, <2>6, <2>7 DEF LimiterInv
<1>2. LimiterInv /\ [Limiter!Next]_(Limiter!vars) => LimiterInv'
  <2>1. CASE Limiter!Allow
    BY <2>1, AllowKeeps
  <2>2. CASE Limiter!Tick
    BY <2>2, TickKeeps
  <2>3. CASE UNCHANGED Limiter!vars
    BY <2>3 DEF Limiter!vars, LimiterInv, Room, Limiter!Conforms, Limiter!Allowed, Full
  <2>. QED  BY <2>1, <2>2, <2>3 DEF Limiter!Next
<1>3. LimiterInv => AllowsWhatTheRateAdmits
  <2>1. LimiterInv => DOMAIN calls = 1 .. Len(calls)
    BY LenProperties DEF LimiterInv
  <2>. QED  BY <2>1 DEF LimiterInv, AllowsWhatTheRateAdmits, Limiter!AllowsWhatTheRateAdmits
<1>. QED  BY <1>1, <1>2, <1>3, PTL DEF Limiter!Spec

-----------------------------------------------------------------------------
(* The migrations.                                                         *)

\* Induction over the naturals, from their order.
LEMMA Least ==
  ASSUME NEW T \in SUBSET Nat, T # {}
  PROVE  \E m \in T : \A k \in T : m <= k
<1>1. IsWellFoundedOn(OpToRel(<, Nat), Nat)
  BY NatLessThanWellFounded, Zenon
<1>2. PICK m \in T : \A k \in T : <<k, m>> \notin OpToRel(<, Nat)
  BY <1>1, WFMin, Zenon
<1>3. \A k \in T : ~(k < m)
  BY <1>2, Zenon DEF OpToRel
<1>. QED  BY <1>3

\* What Upto says of f, for the first m files.
Joins(f, m) ==
  f = [n \in 0 .. m |-> IF n = 0 THEN << >> ELSE f[n - 1] \o Files[n].statements]

LEMMA JoinsExists ==
  ASSUME NEW m \in Nat
  PROVE  \E f : Joins(f, m)
<1>1. SUFFICES ASSUME ~\E f : Joins(f, m)  PROVE FALSE
  OBVIOUS
<1>. DEFINE T == {k \in Nat : ~\E f : Joins(f, k)}
<1>2. T \in SUBSET Nat /\ T # {}
  BY <1>1
<1>3. PICK k \in T : \A j \in T : k <= j
  BY <1>2, Least
<1>4. k \in Nat /\ ~\E f : Joins(f, k)
  OBVIOUS
<1>5. CASE k = 0
  <2>. DEFINE f == [n \in 0 .. 0 |-> << >>]
  <2>1. \A n \in 0 .. 0 : n = 0
    OBVIOUS
  <2>2. f = [n \in 0 .. 0 |-> IF n = 0 THEN << >> ELSE f[n - 1] \o Files[n].statements]
    BY <2>1
  <2>. QED  BY <1>4, <1>5, <2>2 DEF Joins
<1>6. CASE k # 0
  <2>1. PICK j \in Nat : k = j + 1
    <3>1. k - 1 \in Nat /\ k = (k - 1) + 1
      BY <1>4, <1>6
    <3>. QED  BY <3>1
  <2>2. PICK f : Joins(f, j)
    <3>1. ~(k <= j)
      BY <2>1
    <3>. QED  BY <1>3, <3>1
  <2>. DEFINE g == [n \in 0 .. k |-> IF n = k THEN f[j] \o Files[k].statements ELSE f[n]]
  <2>3. \A n \in 0 .. j : f[n] = IF n = 0 THEN << >> ELSE f[n - 1] \o Files[n].statements
    BY <2>2 DEF Joins
  <2>4. ASSUME NEW n \in 0 .. k
        PROVE  g[n] = IF n = 0 THEN << >> ELSE g[n - 1] \o Files[n].statements
    <3>1. CASE n = k
      <4>1. n # 0 /\ n - 1 = j /\ j \in 0 .. k /\ j # k
        BY <2>1, <3>1
      <4>2. g[n] = f[j] \o Files[n].statements /\ g[j] = f[j]
        BY <3>1, <4>1
      <4>. QED  BY <4>1, <4>2
    <3>2. CASE n = 0 /\ n # k
      <4>1. n \in 0 .. j
        BY <2>1, <3>2
      <4>. QED  BY <2>3, <3>2, <4>1
    <3>3. CASE n # 0 /\ n # k
      <4>1. n \in 0 .. j /\ n - 1 \in 0 .. k /\ n - 1 # k
        BY <2>1, <3>3
      <4>2. g[n] = f[n] /\ g[n - 1] = f[n - 1]
        BY <3>3, <4>1
      <4>. QED  BY <2>3, <3>3, <4>1, <4>2
    <3>. QED  BY <3>1, <3>2, <3>3
  <2>5. g = [n \in 0 .. k |-> g[n]]
    OBVIOUS
  <2>. HIDE DEF g
  <2>6. g = [n \in 0 .. k |-> IF n = 0 THEN << >> ELSE g[n - 1] \o Files[n].statements]
    BY <2>4, <2>5
  <2>. QED  BY <1>4, <2>6 DEF Joins
<1>. QED  BY <1>5, <1>6

\* The recursive definition means what it says.
LEMMA UptoStep ==
  /\ Len(Files) \in Nat
  /\ Schema!Upto[0] = << >>
  /\ \A n \in 1 .. Len(Files) : Schema!Upto[n] = Schema!Upto[n - 1] \o Files[n].statements
<1>1. Len(Files) \in Nat
  BY MachinesAssumption, LenProperties
<1>2. \E f : Joins(f, Len(Files))
  BY <1>1, JoinsExists
<1>3. Schema!Upto = CHOOSE f : Joins(f, Len(Files))
  BY DEF Schema!Upto, Joins
<1>4. Joins(Schema!Upto, Len(Files))
  BY <1>2, <1>3
<1>5. \A n \in 0 .. Len(Files) :
        Schema!Upto[n] = IF n = 0 THEN << >> ELSE Schema!Upto[n - 1] \o Files[n].statements
  BY <1>4 DEF Joins
<1>6. 0 \in 0 .. Len(Files) /\ \A n \in 1 .. Len(Files) : n \in 0 .. Len(Files) /\ n # 0
  BY <1>1
<1>. QED  BY <1>1, <1>5, <1>6

Versions(n) == {Files[i].version : i \in 1 .. n}
TxOK(t)     == DOMAIN t = {"statements", "versions"} /\ t.statements \in Seq(STRING)

\* The open transaction holds the first statements of file m, and no row yet.
Begun(t, m) ==
  /\ m \in 1 .. Len(Files) /\ TxOK(t) /\ t.versions = {}
  /\ Len(t.statements) <= Len(Files[m].statements)
  /\ \A i \in 1 .. Len(t.statements) : t.statements[i] = Files[m].statements[i]

\* The first n files are committed, and the first a of them were at the start: a
\* file in hand is the first that is not committed.
SchemaAt(n, a) ==
  /\ n \in 0 .. Len(Files) /\ a \in 0 .. n
  /\ recorded = Versions(n) /\ schema = Schema!Upto[n]
  /\ file \in 1 .. Len(Files) + 1
  /\ pc \in {"down", "next", "exec", "commit", "up"}
  /\ pc \in {"down", "next"} => tx = Schema!NoTx
  /\ pc # "down" => applied = Versions(a)
  /\ pc = "next" => file <= n + 1 /\ (a = n \/ file = n + 1)
  /\ pc = "exec" => file = n + 1 /\ Begun(tx, n + 1)
  /\ pc = "commit" => /\ file = n + 1 /\ file <= Len(Files)
                      /\ tx.versions = {Files[n + 1].version}
                      /\ tx.statements = Files[n + 1].statements
  /\ pc = "up" => n = Len(Files)

SchemaInv == \E n \in 0 .. Len(Files) : \E a \in 0 .. n : SchemaAt(n, a)

LEMMA FilesType ==
  /\ Len(Files) \in Nat
  /\ \A i \in 1 .. Len(Files) : Files[i].version \in Nat /\ Files[i].statements \in Seq(STRING)
  /\ \A i, j \in 1 .. Len(Files) : Files[i].version = Files[j].version => i = j
<1>1. Files \in Seq([version : Nat, statements : Seq(STRING)])
  BY MachinesAssumption
<1>2. Len(Files) \in Nat /\ DOMAIN Files = 1 .. Len(Files)
  BY <1>1, LenProperties
<1>3. \A i \in 1 .. Len(Files) : Files[i] \in [version : Nat, statements : Seq(STRING)]
  BY <1>1, ElementOfSeq
<1>4. \A i, j \in DOMAIN Files : Files[i].version = Files[j].version => i = j
  BY MachinesAssumption
<1>. QED  BY <1>2, <1>3, <1>4

\* A version is among the first n exactly when its file is.
LEMMA VersionsExact ==
  ASSUME NEW n \in 0 .. Len(Files), NEW i \in 1 .. Len(Files)
  PROVE  Files[i].version \in Versions(n) <=> i <= n
<1>1. \A j \in 1 .. n : j \in 1 .. Len(Files)
  BY FilesType
<1>2. i <= n => i \in 1 .. n
  BY FilesType
<1>3. \A j \in 1 .. n : j <= n
  OBVIOUS
<1>. QED  BY <1>1, <1>2, <1>3, FilesType DEF Versions

LEMMA VersionsAfter ==
  ASSUME NEW n \in Nat
  PROVE  Versions(n + 1) = Versions(n) \cup {Files[n + 1].version}
<1>1. \A i : i \in 1 .. n + 1 <=> i \in 1 .. n \/ i = n + 1
  OBVIOUS
<1>. QED  BY <1>1 DEF Versions

LEMMA StartKeeps ==
  ASSUME SchemaInv, Schema!Start
  PROVE  SchemaInv'
<1>1. PICK n \in 0 .. Len(Files) : \E a \in 0 .. n : SchemaAt(n, a)
  BY DEF SchemaInv
<1>2. PICK a \in 0 .. n : SchemaAt(n, a)
  BY <1>1
<1>3. n \in Nat /\ n \in 0 .. n /\ 1 \in 1 .. Len(Files) + 1 /\ 1 <= n + 1
  BY FilesType
<1>4. /\ recorded' = Versions(n) /\ schema' = Schema!Upto[n] /\ pc' = "next" /\ file' = 1
      /\ tx' = Schema!NoTx /\ applied' = Versions(n)
  BY <1>2 DEF SchemaAt, Schema!Start
<1>5. SchemaAt(n, n)'
  BY <1>3, <1>4 DEF SchemaAt, Versions, Schema!Upto, Schema!NoTx
<1>. QED  BY <1>3, <1>5 DEF SchemaInv

LEMMA StopKeeps ==
  ASSUME SchemaInv, pc' = "down", tx' = Schema!NoTx,
         UNCHANGED <<schema, recorded, file, applied>>
  PROVE  SchemaInv'
<1>1. PICK n \in 0 .. Len(Files) : \E a \in 0 .. n : SchemaAt(n, a)
  BY DEF SchemaInv
<1>2. PICK a \in 0 .. n : SchemaAt(n, a)
  BY <1>1
<1>3. SchemaAt(n, a)'
  BY <1>2 DEF SchemaAt, Versions, Schema!Upto, Schema!NoTx
<1>. QED  BY <1>3 DEF SchemaInv

LEMMA NextFileKeeps ==
  ASSUME SchemaInv, Schema!NextFile
  PROVE  SchemaInv'
<1>1. PICK n \in 0 .. Len(Files) : \E a \in 0 .. n : SchemaAt(n, a)
  BY DEF SchemaInv
<1>2. PICK a \in 0 .. n : SchemaAt(n, a)
  BY <1>1
<1>3. /\ pc = "next" /\ file \in 1 .. Len(Files) + 1 /\ file <= n + 1
      /\ (a = n \/ file = n + 1) /\ tx = Schema!NoTx /\ applied = Versions(a)
      /\ recorded = Versions(n) /\ schema = Schema!Upto[n]
      /\ UNCHANGED <<schema, recorded, applied, tx>>
  BY <1>2 DEF SchemaAt, Schema!NextFile
<1>4. Len(Files) \in Nat /\ n \in Nat /\ n <= Len(Files) /\ a \in Nat /\ a <= n
  BY FilesType
<1>5. CASE file > Len(Files)
  <2>1. n = Len(Files) /\ pc' = "up" /\ file' = file
    BY <1>3, <1>4, <1>5 DEF Schema!NextFile
  <2>. QED  BY <1>2, <1>3, <2>1 DEF SchemaInv, SchemaAt, Versions, Schema!Upto, Schema!NoTx
<1>6. CASE file <= Len(Files) /\ Files[file].version \in applied
  <2>1. pc' = "next" /\ file' = file + 1 /\ file \in 1 .. Len(Files)
    BY <1>3, <1>4, <1>6 DEF Schema!NextFile
  <2>2. file <= a
    <3>1. a \in 0 .. Len(Files)
      BY <1>4
    <3>. QED  BY <1>3, <1>6, <2>1, <3>1, VersionsExact
  <2>3. a = n /\ file' <= n + 1 /\ file' \in 1 .. Len(Files) + 1
    BY <1>3, <1>4, <2>1, <2>2
  <2>. QED  BY <1>2, <1>3, <2>1, <2>3 DEF SchemaInv, SchemaAt, Versions, Schema!Upto, Schema!NoTx
<1>7. CASE file <= Len(Files) /\ Files[file].version \notin applied
  <2>1. pc' = "exec" /\ file' = file /\ file \in 1 .. Len(Files)
    BY <1>3, <1>4, <1>7 DEF Schema!NextFile
  <2>2. ~(file <= a)
    <3>1. a \in 0 .. Len(Files)
      BY <1>4
    <3>. QED  BY <1>3, <1>7, <2>1, <3>1, VersionsExact
  <2>3. file = n + 1
    BY <1>3, <1>4, <2>1, <2>2
  <2>4. Begun(tx, n + 1)
    <3>1. tx.statements = << >> /\ tx.versions = {} /\ DOMAIN tx = {"statements", "versions"}
      BY <1>3 DEF Schema!NoTx
    <3>2. << >> \in Seq(STRING) /\ Len(<< >>) = 0
      BY EmptySeq
    <3>3. n + 1 \in 1 .. Len(Files) /\ \A i \in 1 .. 0 : FALSE
      BY <2>1, <2>3
    <3>4. Len(Files[n + 1].statements) \in Nat
      BY <3>3, FilesType, LenProperties
    <3>. QED  BY <3>1, <3>2, <3>3, <3>4 DEF Begun, TxOK
  <2>5. Begun(tx, n + 1)'
    BY <1>3, <2>4 DEF Begun, TxOK
  <2>. QED  BY <1>2, <1>3, <2>1, <2>3, <2>5 DEF SchemaInv, SchemaAt, Versions, Schema!Upto
<1>. QED  BY <1>3, <1>4, <1>5, <1>6, <1>7

\* What is left of file m when k of its statements have been executed.
LEMMA LeftOver ==
  ASSUME NEW m \in 1 .. Len(Files), NEW k \in Nat, k <= Len(Files[m].statements)
  PROVE  LET s == Files[m].statements  rest == SubSeq(s, k + 1, Len(s)) IN
         /\ rest = << >> <=> k = Len(s)
         /\ rest # << >> => Head(rest) = s[k + 1] /\ k + 1 \in 1 .. Len(s)
<1>. DEFINE s == Files[m].statements
            rest == SubSeq(s, k + 1, Len(s))
<1>1. s \in Seq(STRING)
  BY FilesType
<1>. HIDE DEF s
<1>2. Len(s) \in Nat /\ k <= Len(s)
  BY <1>1, LenProperties DEF s
<1>3. CASE k = Len(s)
  <2>1. rest = << >>
    BY <1>2, <1>3, SubSeqEmpty
  <2>. QED  BY <1>3, <2>1 DEF s
<1>4. CASE k # Len(s)
  <2>1. k + 1 \in 1 .. Len(s) /\ Len(s) \in k + 1 .. Len(s)
    BY <1>2, <1>4
  <2>2. Head(rest) = s[k + 1]
    BY <1>1, <2>1, HeadTailOfSubSeq
  <2>3. rest # << >>
    <3>1. \A i \in k + 1 .. Len(s) : i \in 1 .. Len(s)
      BY <1>2
    <3>2. \A i \in k + 1 .. Len(s) : s[i] \in STRING
      BY <1>1, <3>1, ElementOfSeq
    <3>3. k + 1 \in Int /\ Len(s) \in Int /\ k + 1 <= Len(s)
      BY <1>2, <2>1
    <3>4. Len(rest) = Len(s) - (k + 1) + 1
      BY <3>2, <3>3, SubSeqProperties
    <3>5. Len(s) - (k + 1) + 1 # 0
      BY <1>2, <3>3
    <3>6. Len(<< >>) = 0
      OBVIOUS
    <3>. HIDE DEF rest
    <3>. QED  BY <3>4, <3>5, <3>6
  <2>. QED  BY <1>4, <2>1, <2>2, <2>3 DEF s
<1>. QED  BY <1>3, <1>4

\* Executing a statement of the file keeps the transaction a beginning of it.
LEMMA StatementKeeps ==
  ASSUME SchemaInv, Schema!ExecStatement,
         tx' = [tx EXCEPT !.statements = Append(@, Head(Schema!Left))],
         UNCHANGED <<schema, recorded, pc, file, applied>>
  PROVE  SchemaInv'
<1>1. PICK n \in 0 .. Len(Files) : \E a \in 0 .. n : SchemaAt(n, a)
  BY DEF SchemaInv
<1>2. PICK a \in 0 .. n : SchemaAt(n, a)
  BY <1>1
<1>3. pc = "exec" /\ file = n + 1 /\ Begun(tx, n + 1) /\ Schema!Left # << >>
  BY <1>2 DEF SchemaAt, Schema!ExecStatement
<1>4. PICK m \in 1 .. Len(Files) : m = n + 1
  BY <1>3 DEF Begun
<1>5. PICK t : t = tx
  OBVIOUS
<1>6. PICK k \in Nat : k = Len(t.statements) /\ k <= Len(Files[m].statements)
  BY <1>3, <1>4, <1>5, LenProperties DEF Begun, TxOK
<1>7. /\ TxOK(t) /\ t.versions = {}
      /\ \A i \in 1 .. k : t.statements[i] = Files[m].statements[i]
  BY <1>3, <1>4, <1>5, <1>6 DEF Begun
<1>8. /\ Head(Schema!Left) = Files[m].statements[k + 1]
      /\ k + 1 \in 1 .. Len(Files[m].statements)
  <2>1. Schema!Left = SubSeq(Files[m].statements, k + 1, Len(Files[m].statements))
    BY <1>3, <1>4, <1>5, <1>6 DEF Schema!Left
  <2>. QED  BY <1>3, <1>6, <2>1, LeftOver
<1>9. PICK h \in STRING : h = Files[m].statements[k + 1]
  BY <1>8, FilesType, ElementOfSeq
<1>10. /\ tx'.statements = Append(t.statements, h) /\ tx'.versions = {}
       /\ DOMAIN tx' = {"statements", "versions"}
  <2>1. tx' = [t EXCEPT !.statements = Append(@, h)]
    BY <1>5, <1>8, <1>9
  <2>2. DOMAIN t = {"statements", "versions"} /\ t.versions = {}
    BY <1>7 DEF TxOK
  <2>. QED  BY <2>1, <2>2
<1>11. /\ tx'.statements \in Seq(STRING) /\ Len(tx'.statements) = k + 1
       /\ tx'.statements[k + 1] = h
       /\ \A i \in 1 .. k : tx'.statements[i] = t.statements[i]
  <2>1. t.statements \in Seq(STRING)
    BY <1>7 DEF TxOK
  <2>. DEFINE u == Append(t.statements, h)
  <2>2. /\ u \in Seq(STRING) /\ Len(u) = k + 1 /\ u[k + 1] = h
        /\ \A i \in 1 .. k : u[i] = t.statements[i]
    BY <1>6, <2>1, AppendProperties
  <2>. HIDE DEF u
  <2>. QED  BY <1>10, <2>2 DEF u
<1>12. \A i \in 1 .. k + 1 : i \in 1 .. k \/ i = k + 1
  OBVIOUS
<1>13. k + 1 <= Len(Files[m].statements)
  BY <1>8
<1>14. Begun(tx', m)
  BY <1>7, <1>9, <1>10, <1>11, <1>12, <1>13 DEF Begun, TxOK
<1>15. SchemaAt(n, a)'
  BY <1>2, <1>3, <1>4, <1>14 DEF SchemaAt, Versions, Schema!Upto, Begun, TxOK
<1>. QED  BY <1>15 DEF SchemaInv

\* Once the file is through, its row joins the transaction.
LEMMA RowKeeps ==
  ASSUME SchemaInv, Schema!Record,
         tx' = [tx EXCEPT !.versions = {Files[file].version}], pc' = "commit",
         UNCHANGED <<schema, recorded, file, applied>>
  PROVE  SchemaInv'
<1>1. PICK n \in 0 .. Len(Files) : \E a \in 0 .. n : SchemaAt(n, a)
  BY DEF SchemaInv
<1>2. PICK a \in 0 .. n : SchemaAt(n, a)
  BY <1>1
<1>3. pc = "exec" /\ file = n + 1 /\ Begun(tx, n + 1) /\ Schema!Left = << >>
  BY <1>2 DEF SchemaAt, Schema!Record
<1>4. PICK m \in 1 .. Len(Files) : m = n + 1
  BY <1>3 DEF Begun
<1>5. PICK t : t = tx
  OBVIOUS
<1>6. PICK k \in Nat : k = Len(t.statements) /\ k <= Len(Files[m].statements)
  BY <1>3, <1>4, <1>5, LenProperties DEF Begun, TxOK
<1>7. TxOK(t) /\ \A i \in 1 .. k : t.statements[i] = Files[m].statements[i]
  BY <1>3, <1>4, <1>5, <1>6 DEF Begun
<1>8. k = Len(Files[m].statements)
  <2>1. Schema!Left = SubSeq(Files[m].statements, k + 1, Len(Files[m].statements))
    BY <1>3, <1>4, <1>5, <1>6 DEF Schema!Left
  <2>. QED  BY <1>3, <1>6, <2>1, LeftOver
<1>9. t.statements = Files[m].statements
  <2>1. t.statements \in Seq(STRING) /\ Files[m].statements \in Seq(STRING)
    BY <1>7, FilesType DEF TxOK
  <2>. QED  BY <1>6, <1>7, <1>8, <2>1, SeqEqual
<1>10. tx'.statements = Files[m].statements /\ tx'.versions = {Files[m].version}
  BY <1>3, <1>4, <1>5, <1>7, <1>9 DEF TxOK
<1>11. SchemaAt(n, a)'
  BY <1>2, <1>3, <1>4, <1>10, FilesType DEF SchemaAt, Versions, Schema!Upto
<1>. QED  BY <1>11 DEF SchemaInv

\* The commit adds the file and its row at once.
LEMMA CommittedKeeps ==
  ASSUME SchemaInv, pc = "commit", pc' = "next",
         schema' = schema \o tx.statements, recorded' = recorded \cup tx.versions,
         tx' = Schema!NoTx, file' = file + 1, applied' = applied
  PROVE  SchemaInv'
<1>1. PICK n \in 0 .. Len(Files) : \E a \in 0 .. n : SchemaAt(n, a)
  BY DEF SchemaInv
<1>2. PICK a \in 0 .. n : SchemaAt(n, a)
  BY <1>1
<1>3. /\ file = n + 1 /\ file <= Len(Files) /\ applied = Versions(a)
      /\ recorded = Versions(n) /\ schema = Schema!Upto[n]
      /\ tx.versions = {Files[n + 1].version} /\ tx.statements = Files[n + 1].statements
  BY <1>2 DEF SchemaAt
<1>4. Len(Files) \in Nat /\ n \in Nat
  BY FilesType
<1>5. PICK m \in 1 .. Len(Files) : m = n + 1 /\ m - 1 = n
  BY <1>3, <1>4
<1>6. recorded' = Versions(m)
  BY <1>3, <1>4, <1>5, VersionsAfter
<1>7. schema' = Schema!Upto[m]
  BY <1>3, <1>5, UptoStep
<1>8. /\ m \in 0 .. Len(Files) /\ a \in 0 .. m /\ file' = m + 1
      /\ file' \in 1 .. Len(Files) + 1 /\ file' <= m + 1
  BY <1>3, <1>4, <1>5
<1>9. SchemaAt(m, a)'
  BY <1>3, <1>6, <1>7, <1>8 DEF SchemaAt, Versions, Schema!Upto, Schema!NoTx
<1>. QED  BY <1>8, <1>9 DEF SchemaInv

\* Whatever fails and wherever the process dies, the schema is that of the
\* recorded versions, and a store that is open has them all (migrate).
THEOREM SchemaFollowsRows == Schema!Spec => []SchemaIsRecorded
<1>1. Schema!Init => SchemaInv
  <2>. SUFFICES ASSUME Schema!Init  PROVE SchemaInv
    OBVIOUS
  <2>1. 0 \in 0 .. Len(Files) /\ 0 \in 0 .. 0 /\ 1 \in 1 .. Len(Files) + 1
    BY FilesType
  <2>2. Versions(0) = {}
    <3>1. \A i \in 1 .. 0 : FALSE
      OBVIOUS
    <3>. QED  BY <3>1 DEF Versions
  <2>3. SchemaAt(0, 0)
    BY <2>1, <2>2, UptoStep DEF SchemaAt, Schema!Init
  <2>. QED  BY <2>1, <2>3 DEF SchemaInv
<1>2. SchemaInv /\ [Schema!Next]_(Schema!vars) => SchemaInv'
  <2>. SUFFICES ASSUME SchemaInv, [Schema!Next]_(Schema!vars)  PROVE SchemaInv'
    OBVIOUS
  <2>1. CASE Schema!Start
    BY <2>1, StartKeeps
  <2>2. CASE Schema!NextFile
    BY <2>2, NextFileKeeps
  <2>3. ASSUME Schema!Abort, UNCHANGED <<schema, recorded, file, applied>>  PROVE SchemaInv'
    BY <2>3, StopKeeps DEF Schema!Abort
  <2>4. CASE Schema!ExecStatement
    BY <2>3, <2>4, StatementKeeps DEF Schema!ExecStatement, Schema!Abort
  <2>5. CASE Schema!Record
    BY <2>3, <2>5, RowKeeps DEF Schema!Record, Schema!Abort
  <2>6. CASE Schema!Commit
    BY <2>3, <2>6, CommittedKeeps DEF Schema!Commit, Schema!Abort
  <2>7. CASE Schema!Crash
    BY <2>7, StopKeeps DEF Schema!Crash
  <2>8. CASE UNCHANGED Schema!vars
    BY <2>8, ZenonT(30) DEF Schema!vars, SchemaInv, SchemaAt, Versions, Schema!Upto, Schema!NoTx, Begun, TxOK
  <2>. QED  BY <2>1, <2>2, <2>4, <2>5, <2>6, <2>7, <2>8 DEF Schema!Next
<1>3. SchemaInv => SchemaIsRecorded
  BY DEF SchemaInv, SchemaAt, Versions, SchemaIsRecorded, Schema!SchemaIsRecorded
<1>. QED  BY <1>1, <1>2, <1>3, PTL DEF Schema!Spec

-----------------------------------------------------------------------------
(* The host's vitals.                                                      *)

LEMMA Quotient ==
  ASSUME NEW x \in Int, NEW c \in Nat \ {0}
  PROVE  x \div c \in Int
OBVIOUS

LEMMA Remainder ==
  ASSUME NEW x \in Int
  PROVE  x % Counters \in Nat
<1>1. Counters \in Nat \ {0}
  BY MachinesAssumption
<1>. QED  BY <1>1

LEMMA Share ==
  ASSUME NEW w \in Nat \ {0}, NEW part \in 0 .. w
  PROVE  Host!Percent(part, w) \in 0 .. 1000
<1>1. (2000 * part + w) \div (2 * w) \in 0 .. 1000
  OBVIOUS
<1>. QED  BY <1>1 DEF Host!Percent

\* Some tick saw the disk critical, and none since has seen it under the mark.
Filled(s) == \E j \in 1 .. Len(s) : s[j].percent >= 900 /\ \A k \in j .. Len(s) : s[k].percent >= 850

\* The samples are numbers, the CPU's share a percentage; the flag says that the
\* disk is filled, and the ticks alerted as they should.
HostInv ==
  /\ DOMAIN prev = {"total", "idle", "have"} /\ prev.total \in Nat /\ prev.idle \in Nat
  /\ snap.cpu \in 0 .. 1000 /\ snap.disk.percent \in Int
  /\ alerted \in BOOLEAN
  /\ ticks \in Seq([percent : Int, alert : BOOLEAN])
  /\ alerted <=> Filled(ticks)
  /\ Host!DiskAlertsOncePerFilling

\* The share of the CPU is a percentage, whatever the counters did.
LEMMA CpuInRange ==
  ASSUME HostInv, NEW total \in Nat, NEW idle \in Nat
  PROVE  Host!CpuPercent(total, idle) \in 0 .. 1000
<1>. DEFINE dt == total - prev.total
            di == (idle - prev.idle) % Counters
<1>1. dt \in Int /\ di \in Nat
  <2>1. prev.total \in Nat /\ prev.idle \in Nat
    BY DEF HostInv
  <2>2. idle - prev.idle \in Int
    BY <2>1
  <2>. QED  BY <2>1, <2>2, Remainder
<1>2. Host!CpuPercent(total, idle) =
        IF prev.have /\ total > prev.total /\ di <= dt THEN Host!Percent(dt - di, dt) ELSE 0
  BY DEF Host!CpuPercent
<1>3. ASSUME total > prev.total, di <= dt
      PROVE  Host!Percent(dt - di, dt) \in 0 .. 1000
  <2>1. prev.total \in Nat
    BY DEF HostInv
  <2>2. dt \in Nat \ {0}
    BY <1>3, <2>1
  <2>. HIDE DEF dt, di
  <2>3. dt - di \in 0 .. dt
    BY <1>1, <1>3, <2>2
  <2>. QED  BY <2>2, <2>3, Share, ZenonT(30)
<1>. HIDE DEF dt, di
<1>. QED  BY <1>2, <1>3

LEMMA SampleKeeps ==
  ASSUME HostInv,
         NEW c \in {<< >>} \cup {<<x>> : x \in Host!Cpu},
         NEW d \in Disk \cup {[total |-> 0, free |-> 0]},
         Host!Sample(c, d)
  PROVE  HostInv'
<1>1. d.total \in Nat /\ d.free \in Nat
  BY MachinesAssumption
<1>2. snap'.disk.percent \in Int
  <2>1. snap'.disk.percent = IF d.total = 0 THEN 0 ELSE Host!Percent(d.total - d.free, d.total)
    BY DEF Host!Sample
  <2>2. ASSUME d.total # 0  PROVE Host!Percent(d.total - d.free, d.total) \in Int
    <3>1. 2 * d.total \in Nat \ {0} /\ 2000 * (d.total - d.free) + d.total \in Int
      BY <1>1, <2>2
    <3>2. (2000 * (d.total - d.free) + d.total) \div (2 * d.total) \in Int
      BY <3>1, Quotient
    <3>. QED  BY <3>2 DEF Host!Percent
  <2>. QED  BY <2>1, <2>2
<1>3. /\ snap'.cpu \in 0 .. 1000
      /\ DOMAIN prev' = {"total", "idle", "have"} /\ prev'.total \in Nat /\ prev'.idle \in Nat
  <2>1. CASE c = << >>
    <3>1. snap'.cpu = 0 /\ prev' = prev
      BY <2>1 DEF Host!Sample
    <3>. QED  BY <3>1 DEF HostInv
  <2>2. CASE c # << >>
    <3>1. PICK x \in Host!Cpu : c = <<x>>
      BY <2>2
    <3>2. c[1] = x
      BY <3>1
    <3>3. x.busy \in Nat /\ x.idle \in Nat /\ x.iowait \in Nat
      BY MachinesAssumption DEF Host!Cpu
    <3>4. Host!Total(x) \in Nat /\ Host!Idle(x) \in Nat
      <4>1. x.busy + x.idle + x.iowait \in Int /\ x.idle + x.iowait \in Int
        BY <3>3
      <4>2. /\ (x.busy + x.idle + x.iowait) % Counters \in Nat
            /\ (x.idle + x.iowait) % Counters \in Nat
        BY <4>1, Remainder
      <4>. QED  BY <4>2 DEF Host!Total, Host!Idle
    <3>5. /\ snap'.cpu = Host!CpuPercent(Host!Total(x), Host!Idle(x))
          /\ prev' = [total |-> Host!Total(x), idle |-> Host!Idle(x), have |-> TRUE]
      BY <2>2, <3>2 DEF Host!Sample
    <3>6. snap'.cpu \in 0 .. 1000
      <4>1. Host!CpuPercent(Host!Total(x), Host!Idle(x)) \in 0 .. 1000
        BY <3>4, CpuInRange, ZenonT(30)
      <4>. QED  BY <3>5, <4>1
    <3>. QED  BY <3>4, <3>5, <3>6
  <2>. QED  BY <2>1, <2>2
<1>4. alerted' = alerted /\ ticks' = ticks
  BY DEF Host!Sample
<1>. QED  BY <1>2, <1>3, <1>4 DEF HostInv, Filled, Host!DiskAlertsOncePerFilling

LEMMA WatchKeeps ==
  ASSUME HostInv, Host!Tick
  PROVE  HostInv'
<1>1. PICK p \in Int : p = snap.disk.percent
  BY DEF HostInv
<1>2. PICK n \in Nat : n = Len(ticks)
  BY LenProperties DEF HostInv
<1>3. PICK alert \in BOOLEAN : alert <=> p >= 900 /\ ~alerted
  OBVIOUS
<1>4. alerted' = IF alert THEN TRUE ELSE IF p < 850 THEN FALSE ELSE alerted
  <2>1. p < Host!Critical - 50 <=> p < 850
    BY DEF Host!Critical
  <2>2. Host!Critical = 900
    BY DEF Host!Critical
  <2>3. alerted' = IF snap.disk.percent >= Host!Critical /\ ~alerted THEN TRUE
                   ELSE IF snap.disk.percent < Host!Critical - 50 THEN FALSE ELSE alerted
    BY Zenon DEF Host!Tick, Host!Rearmed
  <2>4. p >= Host!Critical <=> p >= 900
    BY <2>2
  <2>5. CASE alert
    BY <1>1, <1>3, <2>3, <2>4, <2>5, Zenon
  <2>6. CASE ~alert
    BY <1>1, <1>3, <2>1, <2>3, <2>4, <2>6, ZenonT(30)
  <2>. QED  BY <2>5, <2>6, Zenon
<1>5. ticks' = Append(ticks, [percent |-> p, alert |-> alert])
  BY <1>1, <1>3, ZenonT(30) DEF Host!Tick, Host!Critical
<1>6. ticks \in Seq([percent : Int, alert : BOOLEAN])
  BY DEF HostInv
<1>7. [percent |-> p, alert |-> alert] \in [percent : Int, alert : BOOLEAN]
  OBVIOUS
<1>8. /\ ticks' \in Seq([percent : Int, alert : BOOLEAN]) /\ Len(ticks') = n + 1
      /\ ticks'[n + 1] = [percent |-> p, alert |-> alert]
      /\ \A i \in 1 .. n : ticks'[i] = ticks[i]
  BY <1>2, <1>5, <1>6, <1>7, AppendProperties
<1>9. ticks'[n + 1].percent = p /\ (ticks'[n + 1].alert <=> alert)
  BY <1>8
<1>10. PICK f : f = [i \in 1 .. n + 1 |-> ticks'[i].percent]
  OBVIOUS
<1>11. /\ \A i \in 1 .. n + 1 : f[i] = ticks'[i].percent
       /\ \A i \in 1 .. n : f[i] = ticks[i].percent
       /\ f[n + 1] = p
  BY <1>8, <1>9, <1>10
<1>12. \A i \in 1 .. n + 1 : f[i] \in Int
  <2>1. \A i \in 1 .. n : ticks[i] \in [percent : Int, alert : BOOLEAN]
    BY <1>2, <1>6, ElementOfSeq
  <2>2. \A i \in 1 .. n : ticks[i].percent \in Int
    BY <2>1
  <2>3. \A i \in 1 .. n + 1 : i \in 1 .. n \/ i = n + 1
    OBVIOUS
  <2>. QED  BY <1>11, <2>2, <2>3
<1>13. alerted <=> \E j \in 1 .. n : f[j] >= 900 /\ \A k \in j .. n : f[k] >= 850
  <2>1. \A j \in 1 .. n : \A k \in j .. n : k \in 1 .. n
    OBVIOUS
  <2>2. alerted <=> \E j \in 1 .. n : ticks[j].percent >= 900 /\ \A k \in j .. n : ticks[k].percent >= 850
    BY <1>2 DEF HostInv, Filled
  <2>. QED  BY <1>11, <2>1, <2>2
<1>14. alerted' <=> \E j \in 1 .. n + 1 : f[j] >= 900 /\ \A k \in j .. n + 1 : f[k] >= 850
  <2>1. \A j \in 1 .. n + 1 : \A k : k \in j .. n + 1 <=> k \in j .. n \/ k = n + 1
    OBVIOUS
  <2>2. \A j : j \in 1 .. n + 1 <=> j \in 1 .. n \/ j = n + 1
    OBVIOUS
  <2>3. \A k \in n + 1 .. n : FALSE
    OBVIOUS
  <2>4. CASE p < 850
    <3>1. ~alert /\ ~alerted'
      BY <1>3, <1>4, <2>4
    <3>. QED  BY <1>11, <2>1, <2>4, <3>1
  <2>5. CASE p >= 900
    <3>1. alerted'
      BY <1>3, <1>4, <2>5
    <3>2. f[n + 1] >= 900 /\ \A k \in n + 1 .. n + 1 : f[k] >= 850
      BY <1>11, <2>5
    <3>. QED  BY <3>1, <3>2
  <2>6. CASE p >= 850 /\ p < 900
    <3>1. alerted' <=> alerted
      BY <1>3, <1>4, <2>6
    <3>2. ~(f[n + 1] >= 900) /\ f[n + 1] >= 850
      BY <1>11, <2>6
    <3>. QED  BY <1>13, <2>1, <2>2, <3>1, <3>2
  <2>. QED  BY <2>4, <2>5, <2>6
<1>15. Filled(ticks)' <=> alerted'
  <2>1. \A j \in 1 .. n + 1 : \A k \in j .. n + 1 : k \in 1 .. n + 1
    OBVIOUS
  <2>2. Filled(ticks)' <=> \E j \in 1 .. n + 1 : f[j] >= 900 /\ \A k \in j .. n + 1 : f[k] >= 850
    BY <1>8, <1>11, <2>1 DEF Filled
  <2>. QED  BY <1>14, <2>2
<1>16. alert <=> p >= 900 /\ \A j \in 1 .. n : f[j] >= 900 => \E k \in j .. n + 1 : f[k] < 850
  <2>1. \A j \in 1 .. n : \A k : k \in j .. n + 1 <=> k \in j .. n \/ k = n + 1
    OBVIOUS
  <2>2. \A j \in 1 .. n : \A k \in j .. n : k \in 1 .. n + 1
    OBVIOUS
  <2>. QED  BY <1>3, <1>11, <1>12, <1>13, <2>1, <2>2
<1>17. Host!DiskAlertsOncePerFilling'
  <2>1. ASSUME NEW i \in 1 .. n + 1
        PROVE  ticks'[i].alert <=>
                 /\ ticks'[i].percent >= 900
                 /\ \A j \in 1 .. i - 1 : ticks'[j].percent >= 900 =>
                                            \E k \in j .. i : ticks'[k].percent < 850
    <3>1. \A j \in 1 .. i - 1 : j \in 1 .. n + 1 /\ j \in 1 .. n /\ \A k \in j .. i : k \in 1 .. n + 1
      OBVIOUS
    <3>2. CASE i = n + 1
      <4>1. i - 1 = n
        BY <3>2
      <4>. QED  BY <1>9, <1>11, <1>16, <3>1, <3>2, <4>1
    <3>3. CASE i \in 1 .. n
      <4>1. \A j \in 1 .. i - 1 : j \in 1 .. n /\ \A k \in j .. i : k \in 1 .. n
        BY <3>3
      <4>2. i \in DOMAIN ticks
        BY <1>2, <1>6, <3>3, LenProperties
      <4>3. ticks[i].alert <=>
              /\ ticks[i].percent >= 900
              /\ \A j \in 1 .. i - 1 : ticks[j].percent >= 900 =>
                                         \E k \in j .. i : ticks[k].percent < 850
        BY <4>2 DEF HostInv, Host!DiskAlertsOncePerFilling
      <4>4. ticks[i].alert <=>
              /\ f[i] >= 900
              /\ \A j \in 1 .. i - 1 : f[j] >= 900 => \E k \in j .. i : f[k] < 850
        BY <1>11, <3>3, <4>1, <4>3
      <4>5. ticks'[i] = ticks[i]
        BY <1>8, <3>3
      <4>. QED  BY <1>11, <3>1, <4>4, <4>5
    <3>. QED  BY <3>2, <3>3
  <2>2. DOMAIN ticks' = 1 .. n + 1
    BY <1>8, LenProperties
  <2>. QED  BY <2>1, <2>2 DEF Host!DiskAlertsOncePerFilling
<1>18. prev' = prev /\ snap' = snap
  BY DEF Host!Tick
<1>19. alerted' \in BOOLEAN
  BY <1>4, ZenonT(30) DEF HostInv
<1>. QED  BY <1>8, <1>15, <1>17, <1>18, <1>19 DEF HostInv

\* From any samples and at any pace of the ticks, one alert per filling of the
\* disk, and never a share of the CPU that is not one.
LEMMA HostHolds == Host!Spec => []HostInv
<1>1. Host!Init => HostInv
  <2>. SUFFICES ASSUME Host!Init  PROVE HostInv
    OBVIOUS
  <2>1. ticks = << >> /\ ticks \in Seq([percent : Int, alert : BOOLEAN]) /\ Len(ticks) = 0
    BY DEF Host!Init
  <2>2. \A i \in 1 .. 0 : FALSE
    OBVIOUS
  <2>3. DOMAIN ticks = 1 .. 0
    BY <2>1, LenProperties
  <2>4. ~Filled(ticks) /\ Host!DiskAlertsOncePerFilling
    BY <2>1, <2>2, <2>3 DEF Filled, Host!DiskAlertsOncePerFilling
  <2>5. /\ DOMAIN prev = {"total", "idle", "have"} /\ prev.total \in Nat /\ prev.idle \in Nat
        /\ snap.cpu \in 0 .. 1000 /\ snap.disk.percent \in Int /\ alerted = FALSE
    BY DEF Host!Init, Host!NoSample
  <2>. QED  BY <2>1, <2>4, <2>5 DEF HostInv
<1>2. HostInv /\ [Host!Next]_(Host!vars) => HostInv'
  <2>. SUFFICES ASSUME HostInv, [Host!Next]_(Host!vars)  PROVE HostInv'
    OBVIOUS
  <2>1. ASSUME NEW c \in {<< >>} \cup {<<x>> : x \in Host!Cpu},
               NEW d \in Disk \cup {[total |-> 0, free |-> 0]}, Host!Sample(c, d)
        PROVE  HostInv'
    BY <2>1, SampleKeeps
  <2>2. CASE Host!Tick
    BY <2>2, WatchKeeps
  <2>3. CASE UNCHANGED Host!vars
    <3>1. prev' = prev /\ snap' = snap /\ alerted' = alerted /\ ticks' = ticks
      BY <2>3 DEF Host!vars
    <3>2. Filled(ticks)' <=> Filled(ticks)
      BY <3>1 DEF Filled
    <3>3. Host!DiskAlertsOncePerFilling' <=> Host!DiskAlertsOncePerFilling
      BY <3>1 DEF Host!DiskAlertsOncePerFilling
    <3>. QED  BY <3>1, <3>2, <3>3 DEF HostInv
  <2>. QED  BY <2>1, <2>2, <2>3 DEF Host!Next
<1>. QED  BY <1>1, <1>2, PTL DEF Host!Spec

\* Whatever the kernel's counters do, the CPU share is a percentage
\* (cpuSample.percent).
THEOREM CpuShare == Host!Spec => []Host!CpuIsAPercentage
<1>1. HostInv => Host!CpuIsAPercentage
  BY DEF HostInv, Host!CpuIsAPercentage
<1>. QED  BY <1>1, HostHolds, PTL

\* The watcher alerts once per filling of the disk (runVitalsAlerts).
THEOREM OneAlertPerFilling == Host!Spec => []Host!DiskAlertsOncePerFilling
<1>1. HostInv => Host!DiskAlertsOncePerFilling
  BY DEF HostInv
<1>. QED  BY <1>1, HostHolds, PTL

\* The watchers side by side: whatever samples, probes and scans find or fail to
\* find, each reports rightly and once (runVitals, runVitalsAlerts, runCertWatch,
\* runPortsWatch).
THEOREM Reports == Host!Spec /\ Watchers!Spec => []WatchersReportOnce
<1>1. /\ Host!CpuIsAPercentage /\ Host!DiskAlertsOncePerFilling
      /\ Watchers!WarnsOncePerExpiry /\ Watchers!NewPortsAreAnnounced
      => WatchersReportOnce
  BY DEF WatchersReportOnce
<1>. QED  BY <1>1, CpuShare, OneAlertPerFilling, ExpiryWarnedOnce, PortsAnnounced, PTL
=============================================================================
