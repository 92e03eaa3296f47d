----------------------------- MODULE NetWatch -----------------------------
(***************************************************************************)
(* The certificate and port watchers: runCertWatch and runPortsWatch       *)
(* (cmd/logfort/main.go) over internal/netwatch.  A certificate check      *)
(* probes the targets one after the other; the two watchers run beside     *)
(* each other and share nothing but the server they report to.             *)
(***************************************************************************)
EXTENDS Integers, Sequences, FiniteSets

CONSTANTS
  Targets,    \* the configured endpoints, a sequence
  HoursLeft,  \* how long a certificate may still be valid
  Ports,      \* TCP ports
  MaxChecks,  \* bound on the rounds of the certificate watcher
  MaxScans    \* bound on the scans of the port watcher

VARIABLES
  results,    \* the probes of the running check; Resting between two checks
  warned,     \* targets that have been warned about
  certStatus, \* what SetCertStatus was given last
  probes,     \* history: per target, the probes and whether they alerted
  checks,     \* checks begun
  baseline,   \* of the port watcher: a set of ports, or none yet
  scans       \* history: the ports of every scan, and those it announced

certVars == <<results, warned, certStatus, probes, checks>>
portVars == <<baseline, scans>>
vars == <<certVars, portVars>>

Target  == 1 .. Len(Targets)
Resting == [running |-> FALSE, list |-> << >>]

Init ==
  /\ results = Resting /\ warned = {} /\ certStatus = << >>
  /\ probes = [t \in Target |-> << >>] /\ checks = 0
  /\ baseline = << >> /\ scans = << >>

-----------------------------------------------------------------------------
(* Certificates.                                                           *)

WarnDays == 14

\* CheckCert: whole days, towards zero.
DaysLeft(h) == IF h >= 0 THEN h \div 24 ELSE -((-h) \div 24)

BeginCheck ==
  /\ ~results.running /\ checks < MaxChecks
  /\ results' = [running |-> TRUE, list |-> << >>]
  /\ checks' = checks + 1
  /\ UNCHANGED <<warned, certStatus, probes, portVars>>

\* Mutant: a failing probe forgets that its target was warned about.
WarnedForgetful(t, probe) == IF probe # << >> /\ DaysLeft(probe[1]) <= WarnDays THEN warned \cup {t} ELSE warned \ {t}

\* What is remembered of a target: a probe that fails says nothing.
WarnedAfter(t, probe) ==
  CASE probe = << >> -> warned
    [] probe # << >> /\ DaysLeft(probe[1]) <= WarnDays -> warned \cup {t}
    [] OTHER -> warned \ {t}

\* The probe of the next target: an error, or the hours that are left.
Probe(probe) ==
  LET t == Len(results.list) + 1 IN
  /\ results.running /\ t \in Target
  /\ results' = [results EXCEPT !.list = Append(@, probe)]
  /\ warned' = WarnedAfter(t, probe)
  /\ probes' = [probes EXCEPT ![t] = Append(@, [probe |-> probe, alert |-> t \in WarnedAfter(t, probe) \ warned])]
  /\ UNCHANGED <<certStatus, checks, portVars>>

EndCheck ==
  /\ results.running /\ Len(results.list) = Len(Targets)
  /\ certStatus' = results.list
  /\ results' = Resting
  /\ UNCHANGED <<warned, probes, checks, portVars>>

-----------------------------------------------------------------------------
(* Ports.  A row of /proc/net/tcp or tcp6 has a port and a state.           *)

\* ListeningPorts, over both files.
Listening(rows) == {r.port : r \in {x \in rows : x.state = "0A"}}

Added(cur) == IF baseline = << >> THEN {} ELSE cur \ baseline[1]

\* The first scan is the baseline, and so is one that announced something.
BaselineAfter(cur) == IF baseline = << >> \/ Added(cur) # {} THEN <<cur>> ELSE baseline

Scan(rows) ==
  LET cur == Listening(rows) IN
  /\ Len(scans) < MaxScans
  /\ scans' = Append(scans, [ports |-> cur, announced |-> Added(cur)])
  /\ baseline' = BaselineAfter(cur)
  /\ UNCHANGED certVars

Rows == [port : Ports, state : {"0A", "01"}]

\* runCertWatch and runPortsWatch.  A scan that fails changes nothing.
CertWatch == BeginCheck \/ EndCheck \/ \E probe \in {<< >>} \cup {<<h>> : h \in HoursLeft} : Probe(probe)
PortsWatch == \E rows \in SUBSET Rows : Scan(rows)

Next == CertWatch \/ PortsWatch

Spec == Init /\ [][Next]_vars

-----------------------------------------------------------------------------
(* Properties.                                                             *)

\* A target is warned about when a probe finds at most 14 days and the last
\* probe before it that succeeded, if any, found more: a failing probe neither
\* hides a warning nor repeats it (runCertWatch).
WarnsOncePerExpiry ==
  \A t \in Target : \A i \in DOMAIN probes[t] :
    LET p == probes[t]
        short(k) == p[k].probe # << >> /\ DaysLeft(p[k].probe[1]) <= WarnDays
        fails(k) == p[k].probe = << >>
    IN  p[i].alert <=>
          short(i) /\ ~\E j \in 1 .. i - 1 : short(j) /\ \A k \in j + 1 .. i - 1 : fails(k)

\* A port that listens for the first time since the start is announced, unless
\* it did so at the first scan; and none is announced that was listening at
\* the scan before, however ports came and went (runPortsWatch's baseline).
NewPortsAreAnnounced ==
  \A i \in 2 .. Len(scans) :
    /\ scans[i].ports \ UNION {scans[j].ports : j \in 1 .. i - 1} \subseteq scans[i].announced
    /\ scans[i].announced \cap scans[i - 1].ports = {}

=============================================================================
