----------------------------- MODULE Machines -----------------------------
(***************************************************************************)
(* The small state machines side by side: the rate limiter, the statistics *)
(* cache, the migrations, the host's vitals, and the certificate and port  *)
(* watchers.  They share nothing; the limiter and the cache read one clock. *)
(***************************************************************************)
EXTENDS Integers, Sequences

CONSTANTS
  Rate, Burst, Den, LastTick, MaxCalls,      \* RateLimiter
  Requests, Keys, CachedKeys, TTL, QueryTime,\* StatsCache
  Files, MaxErrors, MaxCrashes,              \* Migrate
  Counters, Disk, MaxJiffy, MaxTicks,        \* Vitals
  Targets, HoursLeft, TcpPorts, MaxChecks, MaxScans  \* NetWatch

\* The refill is no fraction of the unit; a file's version is in its name, and no
\* two files have the same.
ASSUME MachinesAssumption ==
  /\ {Rate, Burst, Den} \subseteq Nat \ {0}
  /\ {LastTick, MaxCalls, TTL, QueryTime} \subseteq Nat
  /\ Files \in Seq([version : Nat, statements : Seq(STRING)])
  /\ \A i, j \in DOMAIN Files : Files[i].version = Files[j].version => i = j
  /\ Counters \in Nat \ {0} /\ MaxJiffy \in Nat
  /\ Disk \subseteq [total : Nat, free : Nat]
  /\ Targets \in Seq(STRING) /\ HoursLeft \subseteq Int

VARIABLES
  now, tokens, last, calls,
  statsCache, request,
  schema, recorded, pc, file, applied, tx, errors, crashes,
  prev, snap, alerted, ticks,
  results, warned, certStatus, probes, checks, baseline, scans

Limiter  == INSTANCE RateLimiter
Cache    == INSTANCE StatsCache
Schema   == INSTANCE Migrate
Host     == INSTANCE Vitals
Watchers == INSTANCE NetWatch WITH Ports <- TcpPorts

-----------------------------------------------------------------------------
(* Properties: those of the machines.                                      *)

\* The token bucket admits what its rate admits, no less and no more (RateLimiter).
AllowsWhatTheRateAdmits == Limiter!AllowsWhatTheRateAdmits

\* Cached statistics are fresh, and of the window that was asked for (StatsCache).
AnswersAreFresh == Cache!AnswersAreFresh

\* The schema is that of the recorded versions (Migrate).
SchemaIsRecorded == Schema!SchemaIsRecorded

\* What the host's watchers report, they report once and rightly: CPU shares that
\* are percentages and one alert for each filling of the disk (Vitals), one warning
\* for each expiry of a certificate and one announcement for each new port (NetWatch).
WatchersReportOnce ==
  /\ Host!CpuIsAPercentage /\ Host!DiskAlertsOncePerFilling
  /\ Watchers!WarnsOncePerExpiry /\ Watchers!NewPortsAreAnnounced

=============================================================================
