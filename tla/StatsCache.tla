---------------------------- MODULE StatsCache ----------------------------
(***************************************************************************)
(* The cache of /api/stats and /api/map (internal/api/api.go): concurrent  *)
(* requests look a window up, query the store when they find nothing       *)
(* fresh, and store what they got for a minute.  A payload is the moment   *)
(* its query began and the key it is for.                                  *)
(***************************************************************************)
EXTENDS Integers

CONSTANTS
  Requests,    \* requests that run at the same time
  Keys,        \* "stats:7d", "map:7d", ...
  CachedKeys,  \* those of the long windows
  TTL,         \* how long a payload is kept
  QueryTime,   \* how long a query takes at most
  LastTick     \* bound on the clock

VARIABLES
  now,         \* the clock
  statsCache,  \* per key, the payload and when it expires, or Empty
  request      \* per request, where it is, its key, and what it has

vars == <<now, statsCache, request>>

Empty == [at |-> -1, key |-> "none", expires |-> -1]
Idle  == [pc |-> "idle", key |-> "none", got |-> Empty, end |-> -1]

Init ==
  /\ now = 0
  /\ statsCache = [k \in Keys |-> Empty]
  /\ request = [r \in Requests |-> Idle]

Go(r, pc, got, end) == request' = [request EXCEPT ![r].pc = pc, ![r].got = got, ![r].end = end]

\* cacheTTLForWindow
Ttl(k) == IF k \in CachedKeys THEN TTL ELSE 0

\* Mutant: an entry never expires.
FreshAlways(e) == e # Empty

Fresh(e) == e # Empty /\ now < e.expires

\* handleStats and handleMap, up to the answer from the cache or the query.
\* An entry that has expired is deleted in a step of its own.
Lookup(r, k) ==
  /\ request[r].pc = "idle"
  /\ LET e == statsCache[k]
         pc == IF Ttl(k) = 0 \/ e = Empty THEN "query" ELSE IF Fresh(e) THEN "answered" ELSE "delete"
     IN  request' = [request EXCEPT ![r] = [pc |-> pc, key |-> k, got |-> IF pc = "answered" THEN e ELSE Empty,
                                            end |-> IF pc = "answered" THEN now ELSE -1]]
  /\ UNCHANGED <<now, statsCache>>

Delete(r) ==
  /\ request[r].pc = "delete"
  /\ statsCache' = [statsCache EXCEPT ![request[r].key] = Empty]
  /\ Go(r, "query", Empty, -1)
  /\ UNCHANGED now

\* The query sees the store as of now.
Query(r) ==
  /\ request[r].pc = "query"
  /\ Go(r, "store", [at |-> now, key |-> request[r].key, expires |-> -1], -1)
  /\ UNCHANGED <<now, statsCache>>

\* A query that fails is answered with an error and leaves the cache alone.
QueryFails(r) ==
  /\ request[r].pc = "store"
  /\ Go(r, "error", Empty, now)
  /\ UNCHANGED <<now, statsCache>>

StoreAnswer(r) ==
  LET k == request[r].key  e == [request[r].got EXCEPT !.expires = now + Ttl(k)] IN
  /\ request[r].pc = "store"
  /\ statsCache' = IF Ttl(k) > 0 THEN [statsCache EXCEPT ![k] = e] ELSE statsCache
  /\ Go(r, "answered", e, now)
  /\ UNCHANGED now

\* The connection takes the next request.
Finish(r) ==
  /\ request[r].pc \in {"answered", "error"}
  /\ request' = [request EXCEPT ![r] = Idle]
  /\ UNCHANGED <<now, statsCache>>

\* Time passes; a query does not take longer than QueryTime.
Tick ==
  /\ now < LastTick
  /\ \A r \in Requests : request[r].pc = "store" => now < request[r].got.at + QueryTime
  /\ now' = now + 1
  /\ UNCHANGED <<statsCache, request>>

Next ==
  \/ \E r \in Requests, k \in Keys : Lookup(r, k)
  \/ \E r \in Requests : Delete(r) \/ Query(r) \/ QueryFails(r) \/ StoreAnswer(r) \/ Finish(r)
  \/ Tick

Spec == Init /\ [][Next]_vars

-----------------------------------------------------------------------------
(* Properties.                                                             *)

\* However the requests overlap, an answer is of the window that was asked for
\* and says what the store held at most a TTL and a query ago; for a short
\* window, at most a query ago (cacheTTLForWindow's "stay uncached so the live
\* dashboard reflects new events immediately").
AnswersAreFresh ==
  \A r \in Requests : request[r].pc = "answered" =>
    /\ request[r].got.key = request[r].key
    /\ request[r].end - request[r].got.at <= Ttl(request[r].key) + QueryTime

=============================================================================
