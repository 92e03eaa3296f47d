------------------------------ MODULE Vitals ------------------------------
(***************************************************************************)
(* Host vitals: the sampler (internal/hostinfo) and the watcher of the     *)
(* data volume, runVitalsAlerts (cmd/logfort/main.go).  Percentages are in *)
(* tenths, as round1 leaves them; the kernel's counters have Counters      *)
(* values, and they are not all monotonic: iowait may go back.             *)
(***************************************************************************)
EXTENDS Integers, Sequences

CONSTANTS
  Counters,  \* values of a counter: 2^64 in the code
  MaxJiffy,  \* bound on the busy time of /proc/stat
  Disk,      \* total and free bytes that statfs can report
  MaxTicks   \* bound on the ticks of the watcher

VARIABLES
  prev,      \* the counters of the previous sample; havePrev is that there are some
  snap,      \* the snapshot: CPU and disk, and whether there has been a sample
  alerted,   \* the watcher's flag
  ticks      \* history: what each tick saw, and whether it alerted

vars == <<prev, snap, alerted, ticks>>

NoSample == [total |-> 0, idle |-> 0, have |-> FALSE]

Init ==
  /\ prev = NoSample
  /\ snap = [available |-> FALSE, cpu |-> 0, disk |-> [total |-> 0, percent |-> 0]]
  /\ alerted = FALSE /\ ticks = << >>

\* round1(100 * part / whole), in tenths.
Percent(part, whole) == (2000 * part + whole) \div (2 * whole)

\* The busy share since the previous sample, with unsigned subtraction.
CpuPercent(total, idle) ==
  LET dt == total - prev.total  di == (idle - prev.idle) % Counters
  IN  IF prev.have /\ total > prev.total /\ di <= dt THEN Percent(dt - di, dt) ELSE 0

\* parseCPUStat: idle counts iowait too.
Total(cpu) == (cpu.busy + cpu.idle + cpu.iowait) % Counters
Idle(cpu)  == (cpu.idle + cpu.iowait) % Counters

\* A reader that fails leaves its part of the snapshot at zero.
Sample(cpu, disk) ==
  /\ prev' = IF cpu = << >> THEN prev
             ELSE [total |-> Total(cpu[1]), idle |-> Idle(cpu[1]), have |-> TRUE]
  /\ snap' = [available |-> TRUE,
              cpu  |-> IF cpu = << >> THEN 0 ELSE CpuPercent(Total(cpu[1]), Idle(cpu[1])),
              disk |-> [total |-> disk.total,
                        percent |-> IF disk.total = 0 THEN 0
                                    ELSE Percent(disk.total - disk.free, disk.total)]]
  /\ UNCHANGED <<alerted, ticks>>

Critical == 900

\* The hysteresis of five points.
Rearmed(percent) == percent < Critical - 50

Tick ==
  LET p == snap.disk.percent  alert == p >= Critical /\ ~alerted IN
  /\ Len(ticks) < MaxTicks
  /\ snap.available /\ snap.disk.total > 0
  /\ alerted' = IF alert THEN TRUE ELSE IF Rearmed(p) THEN FALSE ELSE alerted
  /\ ticks' = Append(ticks, [percent |-> p, alert |-> alert])
  /\ UNCHANGED <<prev, snap>>

Cpu == [busy : 0 .. MaxJiffy, idle : 0 .. 1, iowait : 0 .. 1]

Next ==
  \/ \E c \in {<< >>} \cup {<<x>> : x \in Cpu}, d \in Disk \cup {[total |-> 0, free |-> 0]} : Sample(c, d)
  \/ Tick

Spec == Init /\ [][Next]_vars

-----------------------------------------------------------------------------
(* Properties.                                                             *)

\* Whatever the counters do, even going back, the CPU share is a percentage
\* (hostinfo.go:89-93).
CpuIsAPercentage == snap.cpu \in 0 .. 1000

\* The first tick at 90 % or more alerts, and then none does until a tick has
\* seen the disk under 85 % (runVitalsAlerts).
DiskAlertsOncePerFilling ==
  \A i \in DOMAIN ticks :
    ticks[i].alert <=>
      /\ ticks[i].percent >= 900
      /\ \A j \in 1 .. i - 1 : ticks[j].percent >= 900 => \E k \in j .. i : ticks[k].percent < 850

=============================================================================
