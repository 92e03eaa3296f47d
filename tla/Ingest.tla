------------------------------ MODULE Ingest ------------------------------
(***************************************************************************)
(* The ingest pipeline (internal/ingest) with the part of the store it     *)
(* writes to (InsertEvent of internal/store/sqlite.go): sources that read  *)
(* logs and are restarted when they fail, a bounded channel of lines, and  *)
(* workers that parse, store, mirror and publish.                          *)
(*                                                                         *)
(* A line is a source and its number in that source's log.  fail2ban's log *)
(* is read from the start every time; the others from where their source   *)
(* opens them.  The lines of fail2ban's log are the bans and unbans of one *)
(* IP in turn (IPs do not interact here); all other lines are attempts.    *)
(* Every line parses and no two lines are duplicates of each other: the    *)
(* dedup index tells them apart.                                           *)
(***************************************************************************)
EXTENDS Naturals, Sequences, FiniteSets

CONSTANTS
  Source,
  Replayed,     \* sources made by NewFileSourceFromStart
  Worker,       \* 4 in the code
  Cap,          \* capacity of the channel of lines, 1000 in the code
  MaxLine,      \* lines per log
  MaxFail, MaxError, MaxRestart, MaxPrune, MaxStop
                \* source failures, store errors, restarts, retention passes, stops

ASSUME IngestAssumption ==
  /\ Replayed \subseteq Source
  /\ IsFiniteSet(Worker)
  /\ Cap \in Nat \ {0}
  /\ {MaxLine, MaxFail, MaxError, MaxRestart, MaxPrune, MaxStop} \subseteq Nat

VARIABLES
  written,    \* [Source -> lines in its log]
  reader,     \* [Source -> the goroutine that keeps the source running]
  lines,      \* the channel
  worker,     \* [Worker -> where it is and with which line]
  stopping,   \* the context of the program is cancelled
  events,     \* lines in the events table
  active,     \* the bans table has an active row mirrored from fail2ban
  published,  \* history: [Line -> times the publish hook ran for it]
  left        \* what is left of the bounds

process == <<reader, lines, worker, stopping>>
store   == <<events, active>>
vars    == <<written, process, store, published, left>>

Line == Source \X (1 .. MaxLine)
None == <<>>
Idle == [at |-> "idle", line |-> None]

\* Odd lines of fail2ban's log are bans, even ones unbans.
Kind(l) == IF l[1] \notin Replayed THEN "attempt" ELSE IF l[2] % 2 = 1 THEN "ban" ELSE "unban"

TypeOK ==
  /\ written \in [Source -> 0 .. MaxLine]
  /\ reader \in [Source -> [at : {"start", "running", "backoff", "done"}, pos : 0 .. MaxLine]]
  /\ lines \in Seq(Line) /\ Len(lines) <= Cap
  /\ worker \in [Worker -> [at : {"idle", "insert", "mirror", "publish"}, line : Line \cup {None}]]
  /\ stopping \in BOOLEAN
  /\ events \subseteq Line
  /\ active \in BOOLEAN
  /\ published \in [Line -> Nat]
  /\ left \in [fail : 0 .. MaxFail, error : 0 .. MaxError, restart : 0 .. MaxRestart,
               prune : 0 .. MaxPrune, stop : 0 .. MaxStop]

Starting == [s \in Source |-> [at |-> "start", pos |-> 0]]

Init ==
  /\ written = [s \in Source |-> 0]
  /\ reader = Starting
  /\ lines = << >>
  /\ worker = [w \in Worker |-> Idle]
  /\ stopping = FALSE
  /\ events = {} /\ active = FALSE
  /\ published = [l \in Line |-> 0]
  /\ left = [fail |-> MaxFail, error |-> MaxError, restart |-> MaxRestart,
             prune |-> MaxPrune, stop |-> MaxStop]

Use(what) == left[what] > 0 /\ left' = [left EXCEPT ![what] = @ - 1]

-----------------------------------------------------------------------------
(* Sources.                                                                *)

\* sshd, fail2ban and the rest write their logs.
Write(s) ==
  /\ written[s] < MaxLine
  /\ written' = [written EXCEPT ![s] = @ + 1]
  /\ UNCHANGED <<process, store, published, left>>

\* Start succeeds.  journalctl follows from the end; a file opened without a
\* location is the tail library's to place (file.go:57 takes it for the end, the
\* library documents the start), so both are allowed.
Open(s) ==
  /\ reader[s].at = "start"
  /\ \E pos \in IF s \in Replayed THEN {0} ELSE {0, written[s]} :
       reader' = [reader EXCEPT ![s] = [at |-> "running", pos |-> pos]]
  /\ UNCHANGED <<written, lines, worker, stopping, store, published, left>>

\* Start fails at once, or later: the file is missing, journalctl exits.
Fail(s) ==
  /\ reader[s].at \in {"start", "running"}
  /\ ~stopping
  /\ Use("fail")
  /\ reader' = [reader EXCEPT ![s].at = "backoff"]
  /\ UNCHANGED <<written, lines, worker, stopping, store, published>>

Retry(s) ==
  /\ reader[s].at = "backoff"
  /\ reader' = [reader EXCEPT ![s].at = "start"]
  /\ UNCHANGED <<written, lines, worker, stopping, store, published, left>>

\* Mutant: the source does not wait for room in the channel.
ReadUnbounded(s) ==
  LET next == reader[s].pos + 1 IN
  /\ reader[s].at = "running"
  /\ next <= written[s]
  /\ lines' = Append(lines, <<s, next>>)
  /\ reader' = [reader EXCEPT ![s].pos = next]
  /\ UNCHANGED <<written, worker, stopping, store, published, left>>

\* Mutant: a line that finds the channel full is dropped.
ReadDropping(s) ==
  LET next == reader[s].pos + 1 IN
  /\ reader[s].at = "running"
  /\ next <= written[s]
  /\ lines' = IF Len(lines) < Cap THEN Append(lines, <<s, next>>) ELSE lines
  /\ reader' = [reader EXCEPT ![s].pos = next]
  /\ UNCHANGED <<written, worker, stopping, store, published, left>>

Read(s) ==
  LET next == reader[s].pos + 1 IN
  /\ reader[s].at = "running"
  /\ next <= written[s]
  /\ Len(lines) < Cap
  /\ lines' = Append(lines, <<s, next>>)
  /\ reader' = [reader EXCEPT ![s].pos = next]
  /\ UNCHANGED <<written, worker, stopping, store, published, left>>

\* The context is done: Start returns, and so does the wait between tries.
Leave(s) ==
  /\ stopping
  /\ reader[s].at \in {"start", "running", "backoff"}
  /\ reader' = [reader EXCEPT ![s].at = "done"]
  /\ UNCHANGED <<written, lines, worker, stopping, store, published, left>>

-----------------------------------------------------------------------------
(* Workers.                                                                *)

Goto(w, l) == worker' = [worker EXCEPT ![w].at = l]
Drop(w)    == worker' = [worker EXCEPT ![w] = Idle]

Take(w) ==
  /\ worker[w].at = "idle"
  /\ lines # << >>
  /\ worker' = [worker EXCEPT ![w] = [at |-> "insert", line |-> Head(lines)]]
  /\ lines' = Tail(lines)
  /\ UNCHANGED <<written, reader, stopping, store, published, left>>

\* Mutant: a worker tries a failed statement again, whatever the error.
StoreErrorRetrying(w) ==
  /\ worker[w].at \in {"insert", "mirror"}
  /\ \/ stopping /\ UNCHANGED left
     \/ Use("error")
  /\ UNCHANGED <<written, process, store, published>>

\* A statement fails for good once the context is cancelled.
StoreError(w) ==
  /\ worker[w].at \in {"insert", "mirror"}
  /\ \/ stopping /\ UNCHANGED left
     \/ Use("error")
  /\ Drop(w)
  /\ UNCHANGED <<written, reader, lines, stopping, store, published>>

AfterInsert(w, l) == Goto(w, IF Kind(l) = "attempt" THEN "publish" ELSE "mirror")

\* Mutant: a line stored before is mirrored and published again.
InsertAgain(w) ==
  LET l == worker[w].line IN
  /\ worker[w].at = "insert"
  /\ ~stopping
  /\ events' = events \cup {l}
  /\ AfterInsert(w, l)
  /\ UNCHANGED <<written, reader, lines, stopping, active, published, left>>

\* InsertEvent's first statement, INSERT OR IGNORE: a duplicate ends the line.
Insert(w) ==
  LET l == worker[w].line IN
  /\ worker[w].at = "insert"
  /\ ~stopping
  /\ events' = events \cup {l}
  /\ IF l \in events THEN Drop(w) ELSE AfterInsert(w, l)
  /\ UNCHANGED <<written, reader, lines, stopping, active, published, left>>

\* InsertEvent's second statement: the bans table follows fail2ban.
Mirror(w) ==
  /\ worker[w].at = "mirror"
  /\ ~stopping
  /\ active' = (Kind(worker[w].line) = "ban")
  /\ Goto(w, "publish")
  /\ UNCHANGED <<written, reader, lines, stopping, events, published, left>>

Publish(w) ==
  /\ worker[w].at = "publish"
  /\ published' = [published EXCEPT ![worker[w].line] = @ + 1]
  /\ Drop(w)
  /\ UNCHANGED <<written, reader, lines, stopping, store, left>>

-----------------------------------------------------------------------------
(* The program around the pipeline.                                        *)

\* SIGTERM.  main does not wait for the pipeline, so it may be restarted before
\* the pipeline has drained, as after a crash.
Stop ==
  /\ ~stopping
  /\ Use("stop")
  /\ stopping' = TRUE
  /\ UNCHANGED <<written, reader, lines, worker, store, published>>

Restart ==
  /\ Use("restart")
  /\ reader' = Starting
  /\ lines' = << >>
  /\ worker' = [w \in Worker |-> Idle]
  /\ stopping' = FALSE
  /\ UNCHANGED <<written, store, published>>

\* DeleteOldEvents: events before the cutoff go, an active row of bans stays.
Prune ==
  /\ ~stopping
  /\ Use("prune")
  /\ \E cutoff \in 1 .. MaxLine : events' = {l \in events : l[2] >= cutoff}
  /\ UNCHANGED <<written, process, active, published>>

SourceStep(s) == Open(s) \/ Retry(s) \/ Read(s) \/ Leave(s)

WorkerStep(w) == Take(w) \/ StoreError(w) \/ Insert(w) \/ Mirror(w) \/ Publish(w)

Next ==
  \/ \E s \in Source : Write(s) \/ Fail(s) \/ SourceStep(s)
  \/ \E w \in Worker : WorkerStep(w)
  \/ Stop \/ Restart \/ Prune

Spec == Init /\ [][Next]_vars

\* The goroutines run.  Logs need not grow; failures, stops and restarts need
\* not happen.
Fairness ==
  /\ \A s \in Source : WF_vars(Open(s)) /\ WF_vars(Retry(s)) /\ WF_vars(Read(s)) /\ WF_vars(Leave(s))
  /\ \A w \in Worker : WF_vars(WorkerStep(w))

FairSpec == Spec /\ Fairness

-----------------------------------------------------------------------------
(* Properties.                                                             *)

\* Retention passes so far.
Passes == MaxPrune - left.prune

\* However often its log is read again, no line is published twice: streams,
\* notifications and auto-ban see an attempt once, and "never act on an event the
\* DB rejected" (pipeline.go:155-156).  Only retention, which takes a stored event
\* out of the dedup index, can have a line published once more.
PublishedOnceAndStored ==
  \A l \in Line :
    /\ published[l] <= 1 + Passes
    /\ published[l] > 0 => l \in events \/ Passes > 0

Quiet ==
  /\ ~stopping
  /\ lines = << >>
  /\ \A w \in Worker : worker[w].at = "idle"
  /\ \A s \in Source : reader[s].at = "running" /\ reader[s].pos = written[s]

\* Once everything written has been handled, the bans table says of the IP what
\* the last line of fail2ban's log says (file.go:26-28).
BansFollowLog ==
  Quiet => \A s \in Replayed :
             active = (written[s] > 0 /\ Kind(<<s, written[s]>>) = "ban")

\* Every line of fail2ban's log gets stored, through failures of the source and
\* restarts, unless a store error, a stop or retention has come for it.
ReplayCatchesUp ==
  \A s \in Replayed, n \in 1 .. MaxLine :
    written[s] >= n ~> <<s, n>> \in events \/ stopping \/ Passes > 0 \/ left.error < MaxError

Drained ==
  /\ \A s \in Source : reader[s].at = "done"
  /\ lines = << >>
  /\ \A w \in Worker : worker[w].at = "idle"

\* Told to stop, the sources return, the channel is closed and the workers end.
StopDrains == stopping ~> Drained \/ ~stopping
=============================================================================
