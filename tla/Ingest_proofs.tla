--------------------------- MODULE Ingest_proofs ---------------------------
(***************************************************************************)
(* Proofs about Ingest, for every set of sources and workers, every length *)
(* of the logs and of the channel, and any number of failures, restarts    *)
(* and retention passes.                                                   *)
(***************************************************************************)
EXTENDS Ingest, SequenceTheorems, FiniteSetTheorems, TLAPS

-----------------------------------------------------------------------------
(* Type correctness.                                                       *)

\* A worker that is at work has a line.
TypeInv == TypeOK /\ \A w \in Worker : worker[w].at # "idle" => worker[w].line \in Line

Left == [fail : 0 .. MaxFail, error : 0 .. MaxError, restart : 0 .. MaxRestart,
         prune : 0 .. MaxPrune, stop : 0 .. MaxStop]

LEMMA Bounds ==
  /\ Cap \in Nat \ {0}
  /\ MaxLine \in Nat /\ MaxFail \in Nat /\ MaxError \in Nat
  /\ MaxRestart \in Nat /\ MaxPrune \in Nat /\ MaxStop \in Nat
BY IngestAssumption

\* The state of the goroutines at a start.
LEMMA StartingType ==
  /\ Starting \in [Source -> [at : {"start", "running", "backoff", "done"}, pos : 0 .. MaxLine]]
  /\ [w \in Worker |-> Idle] \in
       [Worker -> [at : {"idle", "insert", "mirror", "publish"}, line : Line \cup {None}]]
  /\ \A w \in Worker : [v \in Worker |-> Idle][w].at = "idle"
  /\ << >> \in Seq(Line) /\ Len(<< >>) <= Cap
BY Bounds, EmptySeq DEF Starting, Idle

LEMMA InitType == Init => TypeInv
<1>. SUFFICES ASSUME Init
              PROVE  TypeInv
  OBVIOUS
<1>1. /\ written \in [Source -> 0 .. MaxLine]
      /\ left \in Left
  BY Bounds DEF Init, Left
<1>2. published \in [Line -> Nat] /\ stopping \in BOOLEAN /\ active \in BOOLEAN /\ events \subseteq Line
  BY DEF Init
<1>3. /\ reader = Starting /\ lines = << >> /\ worker = [w \in Worker |-> Idle]
  BY DEF Init
<1>. QED
  BY <1>1, <1>2, <1>3, StartingType DEF TypeInv, TypeOK, Left

\* Using one of the bounds leaves a legal rest.
LEMMA UseType ==
  ASSUME TypeOK, NEW what \in {"fail", "error", "restart", "prune", "stop"}, Use(what)
  PROVE  left' \in Left /\ left'.prune = IF what = "prune" THEN left.prune - 1 ELSE left.prune
<1>1. left \in Left
  BY DEF TypeOK, Left
<1>2. \/ left.fail > 0 /\ left' = [left EXCEPT !.fail = @ - 1] /\ what = "fail"
      \/ left.error > 0 /\ left' = [left EXCEPT !.error = @ - 1] /\ what = "error"
      \/ left.restart > 0 /\ left' = [left EXCEPT !.restart = @ - 1] /\ what = "restart"
      \/ left.prune > 0 /\ left' = [left EXCEPT !.prune = @ - 1] /\ what = "prune"
      \/ left.stop > 0 /\ left' = [left EXCEPT !.stop = @ - 1] /\ what = "stop"
  BY DEF Use
<1>. QED  BY <1>1, <1>2, Bounds DEF Left

\* The channel with one more line, and with one less.
LEMMA QueueType ==
  ASSUME NEW q \in Seq(Line), NEW l \in Line
  PROVE  /\ Append(q, l) \in Seq(Line)
         /\ Len(q) \in Nat /\ Len(Append(q, l)) = Len(q) + 1
         /\ q # << >> => Head(q) \in Line /\ Tail(q) \in Seq(Line) /\ Len(Tail(q)) = Len(q) - 1
BY HeadTailProperties

LEMMA SourceType ==
  ASSUME TypeInv, NEW s \in Source, Write(s) \/ Fail(s) \/ SourceStep(s)
  PROVE  TypeInv'
<1>. USE IngestAssumption DEF TypeInv, TypeOK, process, store
<1>1. CASE Write(s)
  BY <1>1, SMTT(30) DEF Write
<1>2. CASE Fail(s)
  BY <1>2, UseType DEF Left, Fail
<1>3. CASE Open(s)
  BY <1>3, SMTT(30) DEF Open
<1>4. CASE Retry(s)
  BY <1>4 DEF Retry
<1>5. CASE Read(s)
  <2>1. /\ reader[s].pos + 1 \in 1 .. MaxLine
        /\ <<s, reader[s].pos + 1>> \in Line
    BY <1>5, Bounds, SMTT(30) DEF Read, Line
  <2>2. lines' \in Seq(Line) /\ Len(lines') <= Cap
    <3>1. /\ lines' = Append(lines, <<s, reader[s].pos + 1>>)
          /\ lines \in Seq(Line) /\ Len(lines) < Cap /\ Cap \in Nat
      BY <1>5, Bounds DEF Read
    <3>. HIDE DEF TypeInv, TypeOK
    <3>2. /\ Append(lines, <<s, reader[s].pos + 1>>) \in Seq(Line)
          /\ Len(lines) \in Nat
          /\ Len(Append(lines, <<s, reader[s].pos + 1>>)) = Len(lines) + 1
      BY <2>1, <3>1, QueueType
    <3>. QED  BY <3>1, <3>2
  <2>3. reader' \in [Source -> [at : {"start", "running", "backoff", "done"}, pos : 0 .. MaxLine]]
    BY <1>5, <2>1, SMTT(30) DEF Read
  <2>. QED  BY <1>5, <2>2, <2>3 DEF Read
<1>6. CASE Leave(s)
  BY <1>6, ZenonT(30) DEF Leave
<1>. QED
  BY <1>1, <1>2, <1>3, <1>4, <1>5, <1>6 DEF SourceStep

LEMMA WorkerType ==
  ASSUME TypeInv, NEW w \in Worker, WorkerStep(w)
  PROVE  TypeInv'
<1>. USE IngestAssumption DEF TypeInv, TypeOK, process, store
<1>1. CASE Take(w)
  <2>1. Head(lines) \in Line /\ lines' \in Seq(Line) /\ Len(lines') <= Cap
    <3>1. lines \in Seq(Line) /\ Len(lines) <= Cap /\ Cap \in Nat /\ lines # << >> /\ lines' = Tail(lines)
      BY <1>1, Bounds DEF Take
    <3>. HIDE DEF TypeInv, TypeOK
    <3>. QED  BY <3>1, QueueType, HeadTailProperties
  <2>2. worker' = [worker EXCEPT ![w] = [at |-> "insert", line |-> Head(lines)]]
    BY <1>1 DEF Take
  <2>3. /\ worker' \in [Worker -> [at : {"idle", "insert", "mirror", "publish"}, line : Line \cup {None}]]
        /\ \A v \in Worker : worker'[v].at # "idle" => worker'[v].line \in Line
    BY <2>1, <2>2
  <2>. HIDE DEF TypeInv
  <2>. QED  BY <1>1, <2>1, <2>3 DEF Take, TypeInv
<1>2. CASE StoreError(w)
  BY <1>2, UseType DEF Left, StoreError, Drop, Idle
<1>3. CASE Insert(w)
  <2>1. \/ worker' = [worker EXCEPT ![w] = Idle]
        \/ worker' = [worker EXCEPT ![w].at = "mirror"]
        \/ worker' = [worker EXCEPT ![w].at = "publish"]
    BY <1>3 DEF Insert, AfterInsert, Goto, Drop
  <2>2. /\ worker' \in [Worker -> [at : {"idle", "insert", "mirror", "publish"}, line : Line \cup {None}]]
        /\ \A v \in Worker : worker'[v].at # "idle" => worker'[v].line \in Line
    <3>1. worker[w].at = "insert"
      BY <1>3 DEF Insert
    <3>2. CASE worker' = [worker EXCEPT ![w] = Idle]
      BY <3>2 DEF Idle
    <3>3. CASE worker' = [worker EXCEPT ![w].at = "mirror"]
      BY <3>1, <3>3
    <3>4. CASE worker' = [worker EXCEPT ![w].at = "publish"]
      BY <3>1, <3>4
    <3>. QED  BY <2>1, <3>2, <3>3, <3>4
  <2>3. events' \subseteq Line
    BY <1>3 DEF Insert
  <2>. QED  BY <1>3, <2>2, <2>3 DEF Insert
<1>4. CASE Mirror(w)
  BY <1>4 DEF Mirror, Goto
<1>5. CASE Publish(w)
  BY <1>5, SMTT(30) DEF Publish, Drop, Idle
<1>. QED
  BY <1>1, <1>2, <1>3, <1>4, <1>5 DEF WorkerStep

LEMMA ProgramType ==
  ASSUME TypeInv, Stop \/ Restart \/ Prune \/ UNCHANGED vars
  PROVE  TypeInv'
<1>. USE DEF TypeInv, TypeOK, process, store
<1>1. CASE Stop
  BY <1>1, UseType DEF Left, Stop
<1>2. CASE Restart
  <2>1. Use("restart") /\ reader' = Starting /\ lines' = << >> /\ worker' = [w \in Worker |-> Idle]
    BY <1>2 DEF Restart
  <2>. QED  BY <1>2, <2>1, UseType, StartingType DEF Restart, Left
<1>3. CASE Prune
  BY <1>3, UseType DEF Left, Prune
<1>4. CASE UNCHANGED vars
  BY <1>4 DEF vars
<1>. QED
  BY <1>1, <1>2, <1>3, <1>4

LEMMA TypeInvariant == Spec => []TypeInv
<1>1. TypeInv /\ [Next]_vars => TypeInv'
  BY SourceType, WorkerType, ProgramType DEF Next
<1>. QED  BY InitType, <1>1, PTL DEF Spec

\* Every variable keeps its type: the channel holds no more than its capacity,
\* and no reader is beyond the end of its log.
THEOREM TypeCorrect == Spec => []TypeOK
<1>1. TypeInv => TypeOK
  BY DEF TypeInv
<1>. QED  BY TypeInvariant, <1>1, PTL

-----------------------------------------------------------------------------
(* No line is published twice.  What a line may be published for is the one *)
(* time it entered the events table and the passes that took it out again;  *)
(* a worker between the insert and the publish hook has used one of these.  *)

\* The workers that have stored a line and will publish it.
Carrying(l) ==
  {w \in Worker : worker[w].at \in {"mirror", "publish"} /\ worker[w].line = l}

OnceInv ==
  \A l \in Line :
    published[l] + Cardinality(Carrying(l)) <= Passes + (IF l \in events THEN 1 ELSE 0)

LEMMA CarryingFinite ==
  ASSUME NEW l
  PROVE  IsFiniteSet(Carrying(l)) /\ Cardinality(Carrying(l)) \in Nat
BY IngestAssumption, FS_Subset, FS_CardinalityType DEF Carrying

\* A step that stores no line and publishes none keeps the count.
LEMMA OnceKept ==
  ASSUME TypeInv, OnceInv, published' = published, events' = events, Passes' = Passes,
         \A l \in Line : Carrying(l)' \subseteq Carrying(l)
  PROVE  OnceInv'
<1>1. ASSUME NEW l \in Line
      PROVE  /\ published[l] \in Nat /\ Passes \in Int
             /\ Cardinality(Carrying(l)) \in Nat /\ Cardinality(Carrying(l)') \in Nat
             /\ Cardinality(Carrying(l)') <= Cardinality(Carrying(l))
  <2>1. published[l] \in Nat /\ Passes \in Int
    BY Bounds DEF TypeInv, TypeOK, Passes
  <2>. QED  BY <2>1, CarryingFinite, FS_Subset, FS_CardinalityType
<1>2. ASSUME NEW l \in Line
      PROVE  published[l] + Cardinality(Carrying(l)') <= Passes + (IF l \in events THEN 1 ELSE 0)
  BY <1>1 DEF OnceInv
<1>. QED  BY <1>2 DEF OnceInv

LEMMA OnceTypes ==
  ASSUME TypeInv
  PROVE  /\ worker \in [Worker -> [at : {"idle", "insert", "mirror", "publish"},
                                   line : Line \cup {None}]]
         /\ \A w \in Worker : worker[w].at # "idle" => worker[w].line \in Line
         /\ published \in [Line -> Nat]
         /\ Passes \in Int
BY Bounds DEF TypeInv, TypeOK, Passes

\* A worker that moves from the insert to the statements after it carries its line.
LEMMA CarryMore ==
  ASSUME TypeInv, NEW w \in Worker, NEW line, worker[w].line = line,
         worker[w].at = "insert", NEW at \in {"mirror", "publish"},
         worker' = [worker EXCEPT ![w].at = at]
  PROVE  /\ Cardinality(Carrying(line)') = Cardinality(Carrying(line)) + 1
         /\ \A l \in Line \ {line} : Carrying(l)' = Carrying(l)
<1>1. /\ worker'[w].at = at /\ worker'[w].line = worker[w].line
      /\ \A v \in Worker \ {w} : worker'[v] = worker[v]
  BY OnceTypes
<1>2. /\ Carrying(line)' = Carrying(line) \cup {w}
      /\ w \notin Carrying(line)
      /\ \A l \in Line \ {line} : Carrying(l)' = Carrying(l)
  BY <1>1 DEF Carrying
<1>. QED  BY <1>2, CarryingFinite, FS_AddElement

LEMMA CarryLess ==
  ASSUME TypeInv, NEW w \in Worker, NEW line, worker[w].line = line,
         worker[w].at = "publish",
         worker' = [worker EXCEPT ![w] = Idle]
  PROVE  /\ Cardinality(Carrying(line)') = Cardinality(Carrying(line)) - 1
         /\ \A l \in Line \ {line} : Carrying(l)' = Carrying(l)
<1>1. worker'[w].at = "idle" /\ \A v \in Worker \ {w} : worker'[v] = worker[v]
  BY OnceTypes DEF Idle
<1>2. /\ Carrying(line)' = Carrying(line) \ {w}
      /\ w \in Carrying(line)
      /\ \A l \in Line \ {line} : Carrying(l)' = Carrying(l)
  BY <1>1 DEF Carrying
<1>. QED  BY <1>2, CarryingFinite, FS_RemoveElement

LEMMA OnceInsert ==
  ASSUME TypeInv, OnceInv, NEW w \in Worker, Insert(w)
  PROVE  OnceInv'
<1>. PICK line : line = worker[w].line
  OBVIOUS
<1>1. /\ worker[w].at = "insert" /\ line \in Line
      /\ published' = published /\ events' = events \cup {line} /\ Passes' = Passes
  BY OnceTypes DEF Insert, Passes
<1>2. CASE line \in events
  <2>1. worker' = [worker EXCEPT ![w] = Idle]
    BY <1>2 DEF Insert, Drop
  <2>2. \A l \in Line : Carrying(l)' \subseteq Carrying(l)
    BY <2>1, OnceTypes DEF Idle, Carrying
  <2>3. events' = events
    BY <1>1, <1>2
  <2>. QED  BY <1>1, <2>2, <2>3, OnceKept
<1>3. CASE line \notin events
  <2>1. \/ worker' = [worker EXCEPT ![w].at = "mirror"]
        \/ worker' = [worker EXCEPT ![w].at = "publish"]
    BY <1>3 DEF Insert, AfterInsert, Goto
  <2>2. /\ Cardinality(Carrying(line)') = Cardinality(Carrying(line)) + 1
        /\ \A l \in Line \ {line} : Carrying(l)' = Carrying(l)
    BY <1>1, <2>1, CarryMore
  <2>3. ASSUME NEW l \in Line
        PROVE  published[l] + Cardinality(Carrying(l)') <= Passes + (IF l \in events' THEN 1 ELSE 0)
    <3>1. published[l] \in Nat /\ Passes \in Int /\ Cardinality(Carrying(l)) \in Nat
      BY OnceTypes, CarryingFinite
    <3>2. published[l] + Cardinality(Carrying(l)) <= Passes + (IF l \in events THEN 1 ELSE 0)
      BY DEF OnceInv
    <3>3. CASE l = line
      <4>1. l \notin events /\ l \in events'
        BY <3>3, <1>3, <1>1
      <4>2. Cardinality(Carrying(l)') = Cardinality(Carrying(l)) + 1
        BY <3>3, <2>2
      <4>. QED  BY <3>1, <3>2, <4>1, <4>2
    <3>4. CASE l # line
      <4>1. Carrying(l)' = Carrying(l) /\ (l \in events' <=> l \in events)
        BY <3>4, <2>2, <1>1
      <4>. QED  BY <3>2, <4>1
    <3>. QED  BY <3>3, <3>4
  <2>4. published' = published /\ Passes' = Passes
    BY <1>1
  <2>. QED  BY <2>3, <2>4 DEF OnceInv
<1>. QED  BY <1>2, <1>3

LEMMA OncePublish ==
  ASSUME TypeInv, OnceInv, NEW w \in Worker, Publish(w)
  PROVE  OnceInv'
<1>. PICK line : line = worker[w].line
  OBVIOUS
<1>1. /\ worker[w].at = "publish" /\ line \in Line
      /\ published' = [published EXCEPT ![line] = @ + 1]
      /\ events' = events /\ Passes' = Passes
      /\ worker' = [worker EXCEPT ![w] = Idle]
  BY OnceTypes DEF Publish, Drop, store, Passes
<1>2. /\ Cardinality(Carrying(line)') = Cardinality(Carrying(line)) - 1
      /\ \A l \in Line \ {line} : Carrying(l)' = Carrying(l)
  BY <1>1, CarryLess
<1>3. ASSUME NEW l \in Line
      PROVE  published'[l] + Cardinality(Carrying(l)') <= Passes + (IF l \in events THEN 1 ELSE 0)
  <2>1. published[l] \in Nat /\ Passes \in Int /\ Cardinality(Carrying(l)) \in Nat
    BY OnceTypes, CarryingFinite
  <2>2. published[l] + Cardinality(Carrying(l)) <= Passes + (IF l \in events THEN 1 ELSE 0)
    BY DEF OnceInv
  <2>3. CASE l = line
    <3>1. published'[l] = published[l] + 1
      BY <2>3, <1>1, OnceTypes
    <3>2. Cardinality(Carrying(l)') = Cardinality(Carrying(l)) - 1
      BY <2>3, <1>2
    <3>. QED  BY <2>1, <2>2, <3>1, <3>2
  <2>4. CASE l # line
    <3>1. published'[l] = published[l] /\ Carrying(l)' = Carrying(l)
      BY <2>4, <1>1, <1>2, OnceTypes
    <3>. QED  BY <2>2, <3>1
  <2>. QED  BY <2>3, <2>4
<1>4. events' = events /\ Passes' = Passes
  BY <1>1
<1>. QED  BY <1>3, <1>4 DEF OnceInv

LEMMA OnceWorker ==
  ASSUME TypeInv, OnceInv, NEW w \in Worker, WorkerStep(w)
  PROVE  OnceInv'
<1>1. CASE Take(w)
  <2>1. published' = published /\ events' = events /\ Passes' = Passes
    BY <1>1 DEF Take, store, Passes
  <2>2. \A l \in Line : Carrying(l)' \subseteq Carrying(l)
    BY <1>1, OnceTypes DEF Take, Carrying
  <2>. QED  BY <2>1, <2>2, OnceKept
<1>2. CASE StoreError(w)
  <2>1. published' = published /\ events' = events /\ Passes' = Passes
    BY <1>2, UseType DEF StoreError, store, Passes, TypeInv
  <2>2. \A l \in Line : Carrying(l)' \subseteq Carrying(l)
    BY <1>2, OnceTypes DEF StoreError, Drop, Idle, Carrying
  <2>. QED  BY <2>1, <2>2, OnceKept
<1>3. CASE Mirror(w)
  <2>1. published' = published /\ events' = events /\ Passes' = Passes
    BY <1>3 DEF Mirror, Passes
  <2>2. \A l \in Line : Carrying(l)' \subseteq Carrying(l)
    BY <1>3, OnceTypes DEF Mirror, Goto, Carrying
  <2>. QED  BY <2>1, <2>2, OnceKept
<1>4. CASE Insert(w)
  BY <1>4, OnceInsert
<1>5. CASE Publish(w)
  BY <1>5, OncePublish
<1>. QED
  BY <1>1, <1>2, <1>3, <1>4, <1>5 DEF WorkerStep

LEMMA OnceElsewhere ==
  ASSUME TypeInv, OnceInv,
         \/ \E s \in Source : Write(s) \/ Fail(s) \/ SourceStep(s)
         \/ Stop \/ Restart \/ UNCHANGED vars
  PROVE  OnceInv'
<1>1. published' = published /\ events' = events /\ Passes' = Passes
  BY UseType DEF TypeInv, Passes, Write, Fail, SourceStep, Open, Retry, Read, Leave, Stop, Restart,
                 process, store, vars
<1>2. worker' = worker \/ worker' = [w \in Worker |-> Idle]
  BY DEF Write, Fail, SourceStep, Open, Retry, Read, Leave, Stop, Restart, process, store, vars
<1>3. \A l \in Line : Carrying(l)' \subseteq Carrying(l)
  BY <1>2 DEF Carrying, Idle
<1>. QED  BY <1>1, <1>3, OnceKept

\* A retention pass may take lines out of the table, and is counted.
LEMMA OncePrune ==
  ASSUME TypeInv, OnceInv, Prune
  PROVE  OnceInv'
<1>1. /\ published' = published /\ Passes' = Passes + 1 /\ \A l \in Line : Carrying(l)' = Carrying(l)
  BY UseType, Bounds, SMTT(30) DEF TypeInv, TypeOK, Prune, process, Passes, Carrying
<1>2. ASSUME NEW l \in Line
      PROVE  published[l] + Cardinality(Carrying(l)) <= Passes + 1 + (IF l \in events' THEN 1 ELSE 0)
  <2>1. published[l] \in Nat /\ Passes \in Int /\ Cardinality(Carrying(l)) \in Nat
    BY Bounds, CarryingFinite DEF TypeInv, TypeOK, Passes
  <2>2. published[l] + Cardinality(Carrying(l)) <= Passes + (IF l \in events THEN 1 ELSE 0)
    BY DEF OnceInv
  <2>. QED  BY <2>1, <2>2
<1>. QED  BY <1>1, <1>2 DEF OnceInv

LEMMA OnceInit == Init => OnceInv
<1>. SUFFICES ASSUME Init
              PROVE  OnceInv
  OBVIOUS
<1>1. ASSUME NEW l \in Line
      PROVE  published[l] = 0 /\ Carrying(l) = {} /\ Passes = 0 /\ l \notin events
  BY Bounds DEF Init, Carrying, Idle, Passes
<1>. QED  BY <1>1, FS_EmptySet DEF OnceInv

\* No line is published twice, or without being stored, but for what retention
\* has taken out of the dedup index: for any logs, workers, failures and restarts.
THEOREM PublishedOnce == Spec => []PublishedOnceAndStored
<1>1. TypeInv /\ OnceInv /\ [Next]_vars => OnceInv'
  BY OnceWorker, OnceElsewhere, OncePrune DEF Next
<1>2. TypeInv /\ OnceInv => PublishedOnceAndStored
  <2>. SUFFICES ASSUME TypeInv, OnceInv, NEW l \in Line
                PROVE  /\ published[l] <= 1 + Passes
                       /\ published[l] > 0 => l \in events \/ Passes > 0
    BY DEF PublishedOnceAndStored
  <2>1. published[l] \in Nat /\ Passes \in Nat /\ Cardinality(Carrying(l)) \in Nat
    BY Bounds, CarryingFinite DEF TypeInv, TypeOK, Passes
  <2>2. published[l] + Cardinality(Carrying(l)) <= Passes + (IF l \in events THEN 1 ELSE 0)
    BY DEF OnceInv
  <2>. QED  BY <2>1, <2>2
<1>. QED  BY TypeInvariant, OnceInit, <1>1, <1>2, PTL DEF Spec

-----------------------------------------------------------------------------
(* Only what was written is in the pipeline.                               *)

\* No line is anywhere in the pipeline, or stored, that was not written.
WrittenInv ==
  /\ \A l \in events : l[2] <= written[l[1]]
  /\ \A i \in 1 .. Len(lines) : lines[i][2] <= written[lines[i][1]]
  /\ \A w \in Worker : worker[w].at # "idle" => worker[w].line[2] <= written[worker[w].line[1]]
  /\ \A s \in Source : reader[s].at = "running" => reader[s].pos <= written[s]

\* What the steps below need of the types.
LEMMA FlowTypes ==
  ASSUME TypeInv
  PROVE  /\ written \in [Source -> 0 .. MaxLine]
         /\ reader \in [Source -> [at : {"start", "running", "backoff", "done"}, pos : 0 .. MaxLine]]
         /\ lines \in Seq(Line) /\ Len(lines) \in Nat
         /\ \A i \in 1 .. Len(lines) : lines[i] \in Line
         /\ events \subseteq Line
         /\ MaxLine \in Nat
         /\ \A l \in Line : l[1] \in Source /\ l[2] \in 1 .. MaxLine /\ l = <<l[1], l[2]>>
<1>1. MaxLine \in Nat
  BY Bounds
<1>2. \A l \in Line : l[1] \in Source /\ l[2] \in 1 .. MaxLine /\ l = <<l[1], l[2]>>
  BY DEF Line
<1>3. lines \in Seq(Line) /\ Len(lines) \in Nat /\ \A i \in 1 .. Len(lines) : lines[i] \in Line
  BY DEF TypeInv, TypeOK
<1>. QED  BY <1>1, <1>2, <1>3 DEF TypeInv, TypeOK

\* The channel after a line has been taken from it, and after one was added.
LEMMA QueueMoves ==
  ASSUME NEW q \in Seq(Line), NEW l \in Line
  PROVE  /\ q # << >> => /\ Len(q) \in Nat \ {0} /\ Head(q) = q[1]
                         /\ Len(Tail(q)) = Len(q) - 1
                         /\ \A i \in 1 .. Len(Tail(q)) : Tail(q)[i] = q[i + 1]
         /\ Len(Append(q, l)) = Len(q) + 1
         /\ \A i \in 1 .. Len(q) : Append(q, l)[i] = q[i]
         /\ Append(q, l)[Len(q) + 1] = l
<1>1. q # << >> => /\ Len(q) \in Nat \ {0} /\ Head(q) = q[1]
                   /\ Len(Tail(q)) = Len(q) - 1
                   /\ \A i \in 1 .. Len(Tail(q)) : Tail(q)[i] = q[i + 1]
  BY HeadTailProperties, EmptySeq
<1>. QED  BY <1>1, AppendProperties

\* Of n + 1 places, all but the last are among the first n.
LEMMA OneLess ==
  ASSUME NEW n \in Nat, NEW i \in 1 .. n + 1, i # n + 1
  PROVE  i \in 1 .. n
OBVIOUS

\* A source delivers lines that its log has.
LEMMA WrittenSource ==
  ASSUME TypeInv, WrittenInv, NEW s \in Source, Write(s) \/ Fail(s) \/ SourceStep(s)
  PROVE  WrittenInv'
<1>. USE FlowTypes
<1>1. CASE Write(s)
  <2>1. /\ \A t \in Source : written[t] \in Nat /\ written'[t] \in Nat /\ written[t] <= written'[t]
        /\ UNCHANGED <<events, lines, worker, reader>>
    BY <1>1 DEF Write, process, store
  <2>2. \A l \in Line : l[2] <= written[l[1]] => l[2] <= written'[l[1]]
    BY <2>1
  <2>3. \A w \in Worker : worker[w].at # "idle" => worker[w].line \in Line
    BY OnceTypes
  <2>4. \A t \in Source : reader[t].at = "running" => reader[t].pos <= written'[t]
    BY <2>1 DEF WrittenInv
  <2>. QED  BY <2>1, <2>2, <2>3, <2>4 DEF WrittenInv
<1>2. CASE Read(s)
  <2>. DEFINE n == reader[s].pos + 1
  <2>1. /\ n \in 1 .. MaxLine /\ n <= written[s] /\ <<s, n>> \in Line
        /\ lines' = Append(lines, <<s, n>>)
        /\ reader' = [reader EXCEPT ![s].pos = n]
        /\ UNCHANGED <<written, worker, events>>
    BY <1>2, SMTT(30) DEF Read, Line, store
  <2>2. \A t \in Source : reader'[t].at = "running" => reader'[t].pos <= written[t]
    BY <2>1 DEF WrittenInv
  <2>3. \A i \in 1 .. Len(lines') : lines'[i][2] <= written[lines'[i][1]]
    <3>1. /\ Len(lines') = Len(lines) + 1
          /\ \A i \in 1 .. Len(lines) : lines'[i] = lines[i]
          /\ lines'[Len(lines) + 1] = <<s, n>>
      <4>. HIDE DEF n
      <4>. QED  BY <2>1, QueueMoves
    <3>2. ASSUME NEW i \in 1 .. Len(lines')
          PROVE  lines'[i][2] <= written[lines'[i][1]]
      <4>1. CASE i = Len(lines) + 1
        BY <4>1, <3>1, <2>1
      <4>2. CASE i # Len(lines) + 1
        <5>1. i \in 1 .. Len(lines)
          BY <4>2, <3>1, FlowTypes, OneLess
        <5>2. \A k \in 1 .. Len(lines) : lines[k][2] <= written[lines[k][1]]
          BY DEF WrittenInv
        <5>. QED  BY <5>1, <5>2, <3>1
      <4>. QED  BY <4>1, <4>2
    <3>. QED  BY <3>2
  <2>. HIDE DEF n
  <2>. QED  BY <2>1, <2>2, <2>3 DEF WrittenInv
<1>3. CASE Fail(s) \/ Open(s) \/ Retry(s) \/ Leave(s)
  <2>1. UNCHANGED <<written, worker, events, lines>>
    BY <1>3 DEF Fail, Open, Retry, Leave, store
  <2>2. \A t \in Source \ {s} : reader'[t] = reader[t]
    BY <1>3 DEF Fail, Open, Retry, Leave
  <2>3. reader'[s].at = "running" => reader'[s].pos \in {0, written[s]}
    <3>1. CASE Open(s)
      <4>1. PICK p \in {0, written[s]} : reader' = [reader EXCEPT ![s] = [at |-> "running", pos |-> p]]
        BY <3>1 DEF Open
      <4>. QED  BY <4>1
    <3>2. CASE Fail(s) \/ Retry(s) \/ Leave(s)
      BY <3>2 DEF Fail, Retry, Leave
    <3>. QED  BY <1>3, <3>1, <3>2
  <2>4. \A t \in Source : reader'[t].at = "running" => reader'[t].pos <= written[t]
    BY <2>2, <2>3 DEF WrittenInv
  <2>. QED  BY <2>1, <2>4 DEF WrittenInv
<1>. QED  BY <1>1, <1>2, <1>3 DEF SourceStep

\* Workers, stops, restarts and retention bring in no line of their own.
LEMMA WrittenElsewhere ==
  ASSUME TypeInv, WrittenInv,
         \/ \E w \in Worker : WorkerStep(w)
         \/ Stop \/ Restart \/ Prune \/ UNCHANGED vars
  PROVE  WrittenInv'
<1>1. ASSUME NEW w \in Worker, Take(w)
      PROVE  WrittenInv'
  <2>1. /\ lines # << >> /\ lines' = Tail(lines) /\ UNCHANGED <<written, events, reader>>
        /\ worker' = [worker EXCEPT ![w] = [at |-> "insert", line |-> Head(lines)]]
    BY <1>1 DEF Take, store
  <2>2. /\ lines \in Seq(Line) /\ Len(lines) \in Nat \ {0} /\ Head(lines) = lines[1]
        /\ Len(lines') = Len(lines) - 1 /\ \A i \in 1 .. Len(lines') : lines'[i] = lines[i + 1]
    <3>1. lines \in Seq(Line) /\ lines[1] \in Line
      BY <2>1, FlowTypes, EmptySeq
    <3>. QED  BY <2>1, <3>1, QueueMoves
  <2>3. \A v \in Worker : worker'[v].at # "idle" => worker'[v].line[2] <= written[worker'[v].line[1]]
    BY <2>1, <2>2, OnceTypes DEF WrittenInv
  <2>4. \A i \in 1 .. Len(lines') : lines'[i][2] <= written[lines'[i][1]]
    BY <2>2 DEF WrittenInv
  <2>. QED  BY <2>1, <2>3, <2>4 DEF WrittenInv
<1>2. ASSUME NEW w \in Worker, StoreError(w) \/ Insert(w) \/ Mirror(w) \/ Publish(w)
      PROVE  WrittenInv'
  <2>1. /\ worker[w].at # "idle" /\ events' \subseteq events \cup {worker[w].line}
        /\ UNCHANGED <<written, reader, lines>>
    BY <1>2 DEF StoreError, Insert, Mirror, Publish, store
  <2>2. \A v \in Worker : worker'[v].at # "idle" => worker[v].at # "idle" /\ worker'[v].line = worker[v].line
    BY <1>2, OnceTypes, SMTT(30) DEF StoreError, Insert, AfterInsert, Mirror, Publish, Goto, Drop, Idle
  <2>. QED  BY <2>1, <2>2 DEF WrittenInv
<1>3. CASE Stop \/ Prune \/ UNCHANGED vars
  BY <1>3 DEF Stop, Prune, vars, process, store, WrittenInv
<1>4. CASE Restart
  BY <1>4 DEF Restart, Starting, Idle, store, WrittenInv
<1>. QED  BY <1>1, <1>2, <1>3, <1>4 DEF WorkerStep

\* No line is handled or stored before it is written.
LEMMA WrittenInvariant == Spec => []WrittenInv
<1>1. Init => WrittenInv
  BY DEF Init, Starting, Idle, WrittenInv
<1>2. TypeInv /\ WrittenInv /\ [Next]_vars => WrittenInv'
  BY WrittenSource, WrittenElsewhere DEF Next
<1>. QED  BY TypeInvariant, <1>1, <1>2, PTL DEF Spec

-----------------------------------------------------------------------------
(* When the workers take fail2ban's log in turn, the bans table follows it. *)

\* At most one worker is at a line of fail2ban's log before its two statements.
Writing(w) == worker[w].at \in {"insert", "mirror"} /\ worker[w].line[1] \in Replayed
Serial     == \A v, w \in Worker : Writing(v) /\ Writing(w) => v = w

\* A step in which no statement fails but for a stop, retention takes nothing
\* out, and no stop or restart comes between the two statements of InsertEvent.
NothingLost ==
  /\ left'.error = left.error /\ left'.prune = left.prune
  /\ \A w \in Worker : worker[w].at = "mirror" => worker'[w].at # "idle"

Stored(f, n) == n = 0 \/ <<f, n>> \in events

\* Line n is the last line of f that is stored.
Top(f, n) == Stored(f, n) /\ \A m \in 1 .. MaxLine : m > n => <<f, m>> \notin events

\* Line n of f is stored, in the hands of a worker, or among the first i in the channel.
Ahead(f, n, i) ==
  \/ Stored(f, n)
  \/ \E w \in Worker : worker[w].at = "insert" /\ worker[w].line = <<f, n>>
  \/ \E j \in 1 .. i : lines[j] = <<f, n>>

NoGap(f) == \A m, n \in 1 .. MaxLine : m < n /\ <<f, n>> \in events => <<f, m>> \in events

\* While the program runs, no line of f overtakes the one before it.
InOrder(f) ==
  ~stopping =>
    /\ reader[f].at = "running" => Ahead(f, reader[f].pos, Len(lines))
    /\ \A i \in 1 .. Len(lines) : lines[i][1] = f => Ahead(f, lines[i][2] - 1, i - 1)
    /\ \A w \in Worker :
         worker[w].at = "insert" /\ worker[w].line[1] = f => Stored(f, worker[w].line[2] - 1)

\* The bans table says what the last stored line says, or a worker is about to.
Follows(f) ==
  /\ \A w \in Worker :
       worker[w].at = "mirror" => worker[w].line[1] = f /\ Top(f, worker[w].line[2])
  /\ (\A w \in Worker : worker[w].at # "mirror") =>
       \A n \in 0 .. MaxLine : Top(f, n) => active = (n > 0 /\ Kind(<<f, n>>) = "ban")

FollowInv(f) == NoGap(f) /\ InOrder(f) /\ Follows(f)

\* A line is stored once the one before it is: it becomes the last one.
LEMMA NewTop ==
  ASSUME TypeInv, NEW f \in Source, NoGap(f), NEW n \in 1 .. MaxLine,
         Stored(f, n - 1), <<f, n>> \notin events, events' = events \cup {<<f, n>>}
  PROVE  NoGap(f)' /\ Top(f, n)'
<1>1. MaxLine \in Nat
  BY Bounds
<1>2. \A m \in 1 .. MaxLine : m < n => <<f, m>> \in events
  BY <1>1 DEF NoGap, Stored
<1>3. \A m \in 1 .. MaxLine : m > n => <<f, m>> \notin events
  BY <1>1 DEF NoGap
<1>4. NoGap(f)'
  <2>. SUFFICES ASSUME NEW m \in 1 .. MaxLine, NEW k \in 1 .. MaxLine, m < k, <<f, k>> \in events'
                PROVE  <<f, m>> \in events'
    BY DEF NoGap
  <2>1. CASE k = n
    BY <2>1, <1>2
  <2>2. CASE k # n
    <3>1. <<f, k>> \in events
      BY <2>2
    <3>. QED  BY <3>1 DEF NoGap
  <2>. QED  BY <2>1, <2>2
<1>5. Top(f, n)'
  <2>1. \A m \in 1 .. MaxLine : m > n => <<f, m>> # <<f, n>>
    BY <1>1
  <2>. QED  BY <1>3, <2>1 DEF Top, Stored
<1>. QED  BY <1>4, <1>5

\* There is one last line.
LEMMA OneTop ==
  ASSUME NEW f, NEW m \in 0 .. MaxLine, NEW n \in 0 .. MaxLine, Top(f, m), Top(f, n)
  PROVE  m = n
<1>. MaxLine \in Nat
  BY Bounds
<1>. QED  BY DEF Top, Stored

\* A source adds line n + 1 only behind line n, and starts again from the first.
LEMMA FollowSource ==
  ASSUME TypeInv, NEW f \in Source, Replayed = {f}, FollowInv(f),
         NEW s \in Source, Write(s) \/ Fail(s) \/ SourceStep(s)
  PROVE  FollowInv(f)'
<1>. USE FlowTypes
<1>1. UNCHANGED <<events, active, worker, stopping>>
  BY DEF Write, Fail, SourceStep, Open, Retry, Read, Leave, process, store
<1>2. NoGap(f)' /\ Follows(f)'
  BY <1>1 DEF FollowInv, NoGap, Follows, Top, Stored
<1>3. CASE Write(s) \/ Fail(s) \/ Open(s) \/ Retry(s) \/ Leave(s)
  <2>1. UNCHANGED lines
    BY <1>3 DEF Write, Fail, Open, Retry, Leave, process
  <2>2. \/ reader'[f] = reader[f]
        \/ reader'[f].at # "running"
        \/ reader'[f].at = "running" /\ reader'[f].pos = 0
    <3>1. CASE Write(s)
      BY <3>1 DEF Write, process
    <3>2. CASE Open(s)
      BY <3>2 DEF Open
    <3>3. CASE Fail(s) \/ Retry(s) \/ Leave(s)
      BY <3>3 DEF Fail, Retry, Leave
    <3>. QED  BY <1>3, <3>1, <3>2, <3>3
  <2>3. InOrder(f)'
    BY <1>1, <2>1, <2>2 DEF FollowInv, InOrder, Ahead, Stored
  <2>. QED  BY <1>2, <2>3 DEF FollowInv
<1>4. CASE Read(s)
  <2>. DEFINE n == reader[s].pos + 1
  <2>1. /\ n \in 1 .. MaxLine /\ <<s, n>> \in Line /\ n - 1 = reader[s].pos
        /\ reader[s].at = "running" /\ lines' = Append(lines, <<s, n>>)
        /\ reader' = [reader EXCEPT ![s].pos = n]
    BY <1>4, SMTT(30) DEF Read, Line
  <2>2. /\ Len(lines') = Len(lines) + 1 /\ Len(lines) \in Nat
        /\ \A i \in 1 .. Len(lines) : lines'[i] = lines[i]
        /\ lines'[Len(lines) + 1] = <<s, n>>
    <3>. HIDE DEF n
    <3>. QED  BY <2>1, QueueMoves
  <2>. HIDE DEF n
  <2>4. ASSUME ~stopping, reader'[f].at = "running"
        PROVE  (Ahead(f, reader[f].pos, Len(lines)))'
    <3>1. CASE s = f
      <4>1. reader'[f].pos = n /\ Len(lines') \in 1 .. Len(lines') /\ lines'[Len(lines')] = <<f, n>>
        BY <2>1, <2>2, <3>1
      <4>. QED  BY <4>1 DEF Ahead
    <3>2. CASE s # f
      <4>1. reader'[f] = reader[f]
        BY <2>1, <3>2
      <4>2. Ahead(f, reader[f].pos, Len(lines))
        BY <2>4, <4>1 DEF FollowInv, InOrder
      <4>3. \A j \in 1 .. Len(lines) : j \in 1 .. Len(lines')
        BY <2>2
      <4>. QED  BY <1>1, <2>2, <4>1, <4>2, <4>3 DEF Ahead, Stored
    <3>. QED  BY <3>1, <3>2
  <2>5. ASSUME ~stopping, NEW i \in 1 .. Len(lines'), lines'[i][1] = f
        PROVE  (Ahead(f, lines[i][2] - 1, i - 1))'
    <3>1. CASE i = Len(lines) + 1
      <4>1. lines'[i][2] - 1 = reader[f].pos /\ reader[f].at = "running" /\ i - 1 = Len(lines)
        BY <3>1, <2>1, <2>2, <2>5
      <4>2. Ahead(f, reader[f].pos, Len(lines))
        BY <2>5, <4>1 DEF FollowInv, InOrder
      <4>3. \A j \in 1 .. Len(lines) : lines'[j] = lines[j]
        BY <2>2
      <4>. QED  BY <1>1, <4>1, <4>2, <4>3 DEF Ahead, Stored
    <3>2. CASE i # Len(lines) + 1
      <4>1. i \in 1 .. Len(lines) /\ lines'[i] = lines[i]
        <5>1. i \in 1 .. Len(lines)
          BY <3>2, <2>2, OneLess
        <5>. QED  BY <5>1, <2>2
      <4>2. Ahead(f, lines[i][2] - 1, i - 1)
        BY <2>5, <4>1 DEF FollowInv, InOrder
      <4>3. \A j \in 1 .. i - 1 : lines'[j] = lines[j]
        BY <2>2, <4>1
      <4>. QED  BY <1>1, <4>1, <4>2, <4>3 DEF Ahead, Stored
    <3>. QED  BY <3>1, <3>2
  <2>6. ~stopping => \A w \in Worker :
          worker'[w].at = "insert" /\ worker'[w].line[1] = f => (Stored(f, worker[w].line[2] - 1))'
    BY <1>1 DEF FollowInv, InOrder, Stored
  <2>7. InOrder(f)'
    BY <1>1, <2>4, <2>5, <2>6 DEF InOrder
  <2>. QED  BY <1>2, <2>7 DEF FollowInv
<1>. QED  BY <1>3, <1>4 DEF SourceStep

\* A line taken from the channel is in the worker's hands.
LEMMA FollowTake ==
  ASSUME TypeInv, NEW f \in Source, Replayed = {f}, FollowInv(f), Serial',
         NEW w \in Worker, Take(w)
  PROVE  FollowInv(f)'
<1>1. /\ lines # << >> /\ lines' = Tail(lines)
      /\ worker' = [worker EXCEPT ![w] = [at |-> "insert", line |-> Head(lines)]]
      /\ UNCHANGED <<events, active, reader, stopping>>
  BY DEF Take, store
<1>2. /\ Len(lines) \in Nat \ {0} /\ Head(lines) = lines[1] /\ lines[1] \in Line
      /\ Len(lines') = Len(lines) - 1 /\ \A i \in 1 .. Len(lines') : lines'[i] = lines[i + 1]
  <2>1. lines[1] \in Line
    BY <1>1, FlowTypes, EmptySeq
  <2>. QED  BY <1>1, <2>1, FlowTypes, QueueMoves
<1>3. /\ worker'[w].at = "insert" /\ worker'[w].line = lines[1] /\ worker[w].at = "idle"
      /\ \A v \in Worker \ {w} : worker'[v] = worker[v]
  BY <1>1, <1>2, OnceTypes DEF Take
<1>4. ASSUME NEW n, NEW i \in 1 .. Len(lines), Ahead(f, n, i)
      PROVE  (Ahead(f, n, i - 1))'
  <2>1. CASE Stored(f, n)
    BY <2>1, <1>1 DEF Ahead, Stored
  <2>2. CASE \E v \in Worker : worker[v].at = "insert" /\ worker[v].line = <<f, n>>
    BY <2>2, <1>3 DEF Ahead
  <2>3. ASSUME NEW j \in 1 .. i, lines[j] = <<f, n>>
        PROVE  (Ahead(f, n, i - 1))'
    <3>1. CASE j = 1
      BY <3>1, <2>3, <1>3 DEF Ahead
    <3>2. CASE j # 1
      <4>1. j - 1 \in 1 .. i - 1 /\ j - 1 \in 1 .. Len(lines')
        BY <3>2, <1>2
      <4>2. lines'[j - 1] = lines[(j - 1) + 1] /\ (j - 1) + 1 = j
        BY <4>1, <1>2
      <4>3. lines'[j - 1] = <<f, n>>
        BY <4>2, <2>3
      <4>. QED  BY <4>1, <4>3 DEF Ahead
    <3>. QED  BY <3>1, <3>2
  <2>. QED  BY <1>4, <2>1, <2>2, <2>3 DEF Ahead
<1>5. NoGap(f)' /\ Follows(f)'
  BY <1>1, <1>3 DEF FollowInv, NoGap, Follows, Top, Stored
<1>6. ASSUME ~stopping, reader[f].at = "running"
      PROVE  (Ahead(f, reader[f].pos, Len(lines)))'
  <2>1. /\ Ahead(f, reader[f].pos, Len(lines)) /\ Len(lines) \in 1 .. Len(lines)
        /\ Len(lines) - 1 = Len(lines')
    <3>1. Len(lines) \in 1 .. Len(lines) /\ Len(lines) - 1 = Len(lines')
      BY <1>2
    <3>. QED  BY <3>1, <1>6 DEF FollowInv, InOrder
  <2>. QED  BY <1>1, <1>4, <2>1 DEF Ahead, Stored
<1>7. ASSUME ~stopping, NEW i \in 1 .. Len(lines'), lines'[i][1] = f
      PROVE  (Ahead(f, lines[i][2] - 1, i - 1))'
  <2>1. i + 1 \in 1 .. Len(lines) /\ lines'[i] = lines[i + 1] /\ (i + 1) - 1 = i /\ i \in 1 .. Len(lines)
    BY <1>2
  <2>2. Ahead(f, lines[i + 1][2] - 1, i)
    BY <1>7, <2>1 DEF FollowInv, InOrder
  <2>. QED  BY <1>4, <2>1, <2>2 DEF Ahead, Stored
<1>8. ASSUME ~stopping, NEW v \in Worker, worker'[v].at = "insert", worker'[v].line[1] = f
      PROVE  (Stored(f, worker[v].line[2] - 1))'
  <2>1. CASE v = w
    <3>1. lines[1][1] = f /\ 1 \in 1 .. Len(lines) /\ 1 - 1 = 0
      BY <1>2, <1>3, <1>8, <2>1
    <3>2. Ahead(f, lines[1][2] - 1, 0)
      BY <1>8, <3>1 DEF FollowInv, InOrder
    <3>3. \A u \in Worker : ~(worker[u].at = "insert" /\ worker[u].line[1] = f)
      <4>1. \A u \in Worker : worker'[u].at = "insert" /\ worker'[u].line[1] = f => u = w
        BY <1>3, <1>8, <2>1 DEF Serial, Writing
      <4>. QED  BY <4>1, <1>3
    <3>4. Stored(f, lines[1][2] - 1)
      BY <3>2, <3>3 DEF Ahead
    <3>. QED  BY <1>1, <1>3, <2>1, <3>4 DEF Stored
  <2>2. CASE v # w
    <3>1. worker'[v] = worker[v]
      BY <1>3, <2>2
    <3>2. Stored(f, worker[v].line[2] - 1)
      BY <1>8, <3>1 DEF FollowInv, InOrder
    <3>3. events' = events
      BY <1>1
    <3>. QED  BY <3>1, <3>2, <3>3 DEF Stored
  <2>. QED  BY <2>1, <2>2
<1>. QED  BY <1>1, <1>5, <1>6, <1>7, <1>8 DEF FollowInv, InOrder

\* Storing the next line makes it the last one, and its worker is to mirror it.
LEMMA FollowInsert ==
  ASSUME TypeInv, NEW f \in Source, Replayed = {f}, FollowInv(f), Serial,
         NEW w \in Worker, Insert(w)
  PROVE  FollowInv(f)'
<1>. USE FlowTypes, OnceTypes
<1>. PICK l : l = worker[w].line
  OBVIOUS
<1>1. /\ l \in Line /\ worker[w].at = "insert" /\ ~stopping
      /\ events' = events \cup {l}
      /\ UNCHANGED <<active, reader, stopping, lines>>
  BY DEF Insert
<1>2. /\ \A v \in Worker \ {w} : worker'[v] = worker[v]
      /\ worker'[w].at # "insert"
      /\ l \in events => worker'[w].at = "idle"
      /\ l \notin events => worker'[w].line = l
      /\ l \notin events => worker'[w].at = IF Kind(l) = "attempt" THEN "publish" ELSE "mirror"
  BY DEF Insert, AfterInsert, Goto, Drop, Idle
<1>3. ASSUME NEW n, Stored(f, n)
      PROVE  Stored(f, n)'
  BY <1>1, <1>3 DEF Stored
<1>4. ASSUME NEW n, NEW i, Ahead(f, n, i)
      PROVE  Ahead(f, n, i)'
  <2>1. CASE \E v \in Worker : worker[v].at = "insert" /\ worker[v].line = <<f, n>>
    <3>1. PICK v \in Worker : worker[v].at = "insert" /\ worker[v].line = <<f, n>>
      BY <2>1
    <3>2. CASE v = w
      BY <3>1, <3>2, <1>1 DEF Ahead, Stored
    <3>3. CASE v # w
      BY <3>1, <3>3, <1>2 DEF Ahead
    <3>. QED  BY <3>2, <3>3
  <2>. QED  BY <1>1, <1>4, <2>1 DEF Ahead, Stored
<1>5. InOrder(f)'
  <2>1. reader[f].at = "running" => (Ahead(f, reader[f].pos, Len(lines)))'
    <3>1. reader[f].at = "running" => Ahead(f, reader[f].pos, Len(lines))
      BY <1>1 DEF FollowInv, InOrder
    <3>. QED  BY <1>1, <1>4, <3>1, ZenonT(30) DEF Ahead, Stored
  <2>2. ASSUME NEW i \in 1 .. Len(lines), lines[i][1] = f
        PROVE  (Ahead(f, lines[i][2] - 1, i - 1))'
    <3>1. Ahead(f, lines[i][2] - 1, i - 1)
      BY <1>1, <2>2 DEF FollowInv, InOrder
    <3>. QED  BY <1>1, <1>4, <3>1 DEF Ahead, Stored
  <2>3. ASSUME NEW v \in Worker, worker'[v].at = "insert", worker'[v].line[1] = f
        PROVE  (Stored(f, worker[v].line[2] - 1))'
    <3>1. worker'[v] = worker[v] /\ Stored(f, worker[v].line[2] - 1)
      BY <1>1, <1>2, <2>3 DEF FollowInv, InOrder
    <3>. QED  BY <1>1, <3>1 DEF Stored
  <2>. QED  BY <1>1, <2>1, <2>2, <2>3 DEF InOrder
<1>6. CASE l[1] = f /\ l \notin events
  <2>. PICK n \in 1 .. MaxLine : l = <<f, n>>
    BY <1>1, <1>6
  <2>1. Stored(f, n - 1)
    BY <1>1, <1>6 DEF FollowInv, InOrder
  <2>2. NoGap(f)' /\ Top(f, n)'
    BY <1>1, <1>6, <2>1, NewTop DEF FollowInv
  <2>3. worker'[w].at = "mirror" /\ worker'[w].line = <<f, n>>
    BY <1>2, <1>6 DEF Kind
  <2>4. \A v \in Worker \ {w} : worker'[v].at # "mirror"
    <3>1. ASSUME NEW v \in Worker \ {w}, worker[v].at = "mirror"
          PROVE  FALSE
      <4>1. Writing(v) /\ Writing(w)
        BY <1>1, <1>6, <3>1 DEF Writing, FollowInv, Follows
      <4>. QED  BY <4>1 DEF Serial
    <3>. QED  BY <3>1, <1>2
  <2>5. Follows(f)'
    BY <2>2, <2>3, <2>4 DEF Follows
  <2>. QED  BY <1>5, <2>2, <2>5 DEF FollowInv
<1>7. CASE l[1] # f \/ l \in events
  <2>1. \A m \in Nat : <<f, m>> \in events' <=> <<f, m>> \in events
    BY <1>1, <1>7
  <2>2. worker'[w].at # "mirror"
    BY <1>2, <1>7 DEF Kind
  <2>3. NoGap(f)'
    BY <2>1 DEF FollowInv, NoGap
  <2>4. \A n \in 0 .. MaxLine : Top(f, n)' <=> Top(f, n)
    BY <2>1 DEF Top, Stored
  <2>5. \A v \in Worker : worker'[v].at = "mirror" <=> worker[v].at = "mirror"
    BY <1>1, <1>2, <2>2
  <2>6. \A v \in Worker : worker'[v].at = "mirror" => worker'[v] = worker[v] /\ worker[v].line[2] \in 0 .. MaxLine
    BY <1>2, <2>2, <2>5
  <2>7. Follows(f)'
    BY <1>1, <2>4, <2>5, <2>6 DEF FollowInv, Follows
  <2>. QED  BY <1>5, <2>3, <2>7 DEF FollowInv
<1>. QED  BY <1>6, <1>7

\* The worker at fail2ban's last stored line brings the bans table up to it.
LEMMA FollowMirror ==
  ASSUME TypeInv, NEW f \in Source, Replayed = {f}, FollowInv(f),
         NEW w \in Worker, Mirror(w)
  PROVE  FollowInv(f)'
<1>1. /\ worker[w].at = "mirror" /\ active' = (Kind(worker[w].line) = "ban")
      /\ UNCHANGED <<events, reader, stopping, lines>>
  BY DEF Mirror
<1>2. /\ \A v \in Worker \ {w} : worker'[v] = worker[v]
      /\ worker'[w].at = "publish"
  BY OnceTypes DEF Mirror, Goto
<1>3. PICK n \in 1 .. MaxLine : worker[w].line = <<f, n>> /\ Top(f, n)
  <2>1. worker[w].line \in Line /\ worker[w].line[1] = f /\ Top(f, worker[w].line[2])
    BY <1>1, OnceTypes DEF FollowInv, Follows
  <2>. QED  BY <2>1, FlowTypes
<1>4. NoGap(f)' /\ InOrder(f)'
  <2>1. \A v \in Worker :
          worker'[v].at = "insert" \/ worker[v].at = "insert" => worker'[v] = worker[v]
    BY <1>1, <1>2
  <2>2. NoGap(f)'
    BY <1>1 DEF FollowInv, NoGap
  <2>3. InOrder(f)'
    BY <1>1, <2>1, ZenonT(30) DEF FollowInv, InOrder, Ahead, Stored
  <2>. QED  BY <2>2, <2>3
<1>5. \A m \in 0 .. MaxLine : Top(f, m)' => m = n
  <2>1. n \in 0 .. MaxLine
    BY Bounds
  <2>2. \A m \in 0 .. MaxLine : Top(f, m) => m = n
    BY <1>3, <2>1, OneTop
  <2>. QED  BY <1>1, <2>2 DEF Top, Stored
<1>6. Follows(f)'
  <2>1. active' = (n > 0 /\ Kind(<<f, n>>) = "ban")
    BY <1>1, <1>3
  <2>2. \A v \in Worker : worker'[v].at = "mirror" =>
          worker[v].at = "mirror" /\ worker'[v] = worker[v]
    BY <1>2
  <2>3. \A v \in Worker : worker'[v].at = "mirror" =>
          worker'[v].line[1] = f /\ (Top(f, worker[v].line[2]))'
    BY <1>1, <2>2 DEF FollowInv, Follows, Top, Stored
  <2>. QED  BY <1>5, <2>1, <2>3 DEF Follows
<1>. QED  BY <1>4, <1>6 DEF FollowInv

\* A worker's step, when nothing is lost, keeps the order and what the table says.
LEMMA FollowWorker ==
  ASSUME TypeInv, NEW f \in Source, Replayed = {f}, FollowInv(f), Serial, Serial', NothingLost,
         NEW w \in Worker, WorkerStep(w)
  PROVE  FollowInv(f)'
<1>1. CASE StoreError(w) \/ Publish(w)
  <2>1. /\ UNCHANGED <<events, active, reader, stopping, lines>>
        /\ worker' = [worker EXCEPT ![w] = Idle]
    BY <1>1 DEF StoreError, Publish, Drop, store
  <2>2. worker'[w].at = "idle" /\ \A v \in Worker \ {w} : worker'[v] = worker[v]
    BY <2>1, OnceTypes DEF Idle
  <2>3. worker[w].at # "mirror"
    BY <2>2 DEF NothingLost
  <2>4. NoGap(f)' /\ Follows(f)'
    BY <2>1, <2>2, <2>3 DEF FollowInv, NoGap, Follows, Top, Stored
  <2>5. CASE stopping
    BY <2>1, <2>4, <2>5 DEF FollowInv, InOrder
  <2>6. CASE Publish(w)
    <3>1. worker[w].at = "publish"
      BY <2>6 DEF Publish
    <3>2. \A v \in Worker : (worker'[v].at = "insert" \/ worker[v].at = "insert") => worker'[v] = worker[v]
      BY <2>2, <3>1
    <3>3. UNCHANGED <<events, reader, stopping, lines>>
      BY <2>1
    <3>4. InOrder(f)'
      BY <3>2, <3>3, ZenonT(30) DEF FollowInv, InOrder, Ahead, Stored
    <3>. QED  BY <2>4, <3>4 DEF FollowInv
  <2>7. CASE StoreError(w) /\ ~stopping
    <3>1. left'.error = left.error /\ Use("error")
      BY <2>7 DEF StoreError, NothingLost
    <3>2. left.error \in Nat /\ left'.error = left.error - 1
      BY <3>1, Bounds DEF Use, TypeInv, TypeOK
    <3>. QED  BY <3>1, <3>2
  <2>. QED  BY <1>1, <2>5, <2>6, <2>7
<1>. QED
  BY <1>1, FollowTake, FollowInsert, FollowMirror DEF WorkerStep

\* A stop or a restart between two lines loses nothing: the log is read again.
LEMMA FollowProgram ==
  ASSUME TypeInv, NEW f \in Source, FollowInv(f), NothingLost, Stop \/ Restart \/ Prune
  PROVE  FollowInv(f)'
<1>1. CASE Stop
  BY <1>1 DEF Stop, store, FollowInv, NoGap, InOrder, Follows, Top, Stored
<1>2. CASE Restart
  <2>1. /\ UNCHANGED <<events, active>>
        /\ reader' = Starting /\ lines' = << >> /\ worker' = [w \in Worker |-> Idle]
    BY <1>2 DEF Restart, store
  <2>2. /\ reader'[f].at = "start" /\ \A w \in Worker : worker'[w].at = "idle"
        /\ Len(lines') = 0
    BY <2>1, EmptySeq DEF Starting, Idle
  <2>3. \A w \in Worker : worker[w].at # "mirror"
    BY <2>2 DEF NothingLost
  <2>4. NoGap(f)' /\ Follows(f)'
    BY <2>1, <2>2, <2>3 DEF FollowInv, NoGap, Follows, Top, Stored
  <2>5. InOrder(f)'
    BY <2>2 DEF InOrder
  <2>. QED  BY <2>4, <2>5 DEF FollowInv
<1>3. CASE Prune
  <2>1. left'.prune = left.prune /\ Use("prune")
    BY <1>3 DEF Prune, NothingLost
  <2>2. left.prune \in Nat /\ left'.prune = left.prune - 1
    BY <2>1, Bounds DEF Use, TypeInv, TypeOK
  <2>. QED  BY <2>1, <2>2
<1>. QED  BY <1>1, <1>2, <1>3

\* Every step keeps the order, one worker at a time.
LEMMA FollowStep ==
  ASSUME NEW f \in Source, Replayed = {f},
         TypeInv, FollowInv(f), Serial, Serial', [Next]_vars, [NothingLost]_vars
  PROVE  FollowInv(f)'
<1>1. CASE UNCHANGED vars
  BY <1>1 DEF vars, process, store, FollowInv, NoGap, InOrder, Follows, Ahead, Top, Stored
<1>2. CASE Next /\ NothingLost
  BY <1>2, FollowSource, FollowWorker, FollowProgram DEF Next
<1>. QED  BY <1>1, <1>2

\* Once everything is handled, the last line written is the last one stored.
LEMMA FollowQuiet ==
  ASSUME NEW f \in Source, Replayed = {f}, TypeInv, WrittenInv, FollowInv(f)
  PROVE  BansFollowLog
<1>. SUFFICES ASSUME Quiet
              PROVE  active = (written[f] > 0 /\ Kind(<<f, written[f]>>) = "ban")
  BY DEF BansFollowLog
<1>. DEFINE n == written[f]
<1>1. n \in 0 .. MaxLine /\ MaxLine \in Nat
  BY FlowTypes
<1>2. /\ \A w \in Worker : worker[w].at = "idle"
      /\ reader[f].at = "running" /\ reader[f].pos = n /\ ~stopping /\ lines = << >>
  BY DEF Quiet
<1>3. Stored(f, n)
  <2>1. Ahead(f, n, Len(lines)) /\ Len(lines) = 0
    BY <1>2, EmptySeq DEF FollowInv, InOrder
  <2>. QED  BY <1>2, <2>1 DEF Ahead
<1>4. \A m \in 1 .. MaxLine : m > n => <<f, m>> \notin events
  BY <1>1 DEF WrittenInv
<1>5. Top(f, n)
  BY <1>3, <1>4 DEF Top
<1>. QED  BY <1>1, <1>2, <1>5 DEF FollowInv, Follows

\* If no two workers are at lines of fail2ban's log at a time, and none of its
\* lines is lost between its two statements, the bans table says what the log says
\* whenever everything is handled: through failures of the sources, stops and
\* restarts, for any number of workers and any length of the logs.
THEOREM SerialFollowsLog ==
  ASSUME NEW f \in Source, Replayed = {f}
  PROVE  Spec /\ []Serial /\ [][NothingLost]_vars => []BansFollowLog
<1>1. Init => FollowInv(f)
  <2>. SUFFICES ASSUME Init
                PROVE  FollowInv(f)
    OBVIOUS
  <2>1. /\ events = {} /\ active = FALSE /\ reader[f].at = "start" /\ lines = << >>
        /\ \A w \in Worker : worker[w].at = "idle"
    BY DEF Init, Starting, Idle
  <2>2. \A n \in 0 .. MaxLine : Top(f, n) => ~(n > 0)
    BY <2>1 DEF Top, Stored
  <2>3. Len(lines) = 0
    BY <2>1, EmptySeq
  <2>4. NoGap(f) /\ InOrder(f)
    BY <2>1, <2>3 DEF NoGap, InOrder
  <2>5. Follows(f)
    BY <2>1, <2>2 DEF Follows
  <2>. QED  BY <2>4, <2>5 DEF FollowInv
<1>2. TypeInv /\ FollowInv(f) /\ Serial /\ Serial' /\ [Next]_vars /\ [NothingLost]_vars => FollowInv(f)'
  BY FollowStep
<1>3. TypeInv /\ WrittenInv /\ FollowInv(f) => BansFollowLog
  BY FollowQuiet
<1>. QED  BY TypeInvariant, WrittenInvariant, <1>1, <1>2, <1>3, PTL DEF Spec
=============================================================================
