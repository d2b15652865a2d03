---------------------------- MODULE NetCaptureProof ----------------------------
(***************************************************************************)
(* Proofs about the capture program, for any number of sources of any      *)
(* kinds, any clock and any failures.                                      *)
(***************************************************************************)
EXTENDS NetCapture, TLAPS, FiniteSetTheorems

USE SourcesAssumption, BoundsAssumption

(***************************************************************************)
(* The inductive invariant.                                                *)
(***************************************************************************)
\* Who holds the mutex.
MutexInv ==
  /\ \A t \in Workers : pc[t] = "write" => writeMutex = "worker"
  /\ \A t, u \in Workers : pc[t] = "write" /\ pc[u] = "write" => t = u
  /\ main = "annotateEnd" => writeMutex = "main"

\* What the main thread's progress says of the workers and the session.
PhaseInv ==
  /\ main \in {"open", "annotate"} => log = <<>> /\ \A t \in Workers : pc[t] = "new"
  /\ main \in {"end", "annotateEnd", "close", "done"} => \A t \in Workers : pc[t] = "exit"
  /\ main = "failed" => \A t \in Workers : pc[t] \in {"new", "exit"}
  /\ \A t \in 1..joined : pc[t] = "exit"
  /\ main \in MainSteps \ {"open", "done", "failed"} => session = "open"

\* The log is in the past, and its end annotation at its end.
LogInv ==
  /\ \A k \in DOMAIN log : log[k].ts <= now
  /\ main \in {"end", "annotateEnd"} => \A k \in DOMAIN log : log[k].ts <= endTs
  /\ \A k \in DOMAIN log : log[k].what = "recording_end" =>
       main \in {"close", "done", "failed"} /\ k = Len(log) /\ \A j \in 1..k : log[j].ts <= log[k].ts

\* lastWriteTs covers the log but for what threads are about to add to it.
LatestInv ==
  /\ \A t \in Workers : cur[t] <= lastWriteTs
  /\ \A k \in DOMAIN log : log[k].by \in Workers =>
       \/ log[k].ts <= lastWriteTs
       \/ pc[log[k].by] \in {"load", "cas"} /\ log[k].ts = ts[log[k].by]
  /\ lastWriteTs = 0 \/ \E k \in DOMAIN log : log[k].by \in Workers /\ log[k].ts = lastWriteTs
  /\ \A t \in Workers : pc[t] \in {"load", "cas", "count"} =>
       \E k \in DOMAIN log : log[k].by = t /\ log[k].ts = ts[t]

\* A worker has counted what it recorded, but for the latest.
Uncounted(t) == IF pc[t] \in {"load", "cas", "count"} THEN 1 ELSE 0
InHand(t) == IF pc[t] \in {"lock", "write", "load", "cas", "count"} THEN 1 ELSE 0
CountInv ==
  \A t \in Workers :
    /\ Cardinality(Recorded(t)) = stats[t] + Uncounted(t)
    /\ stats[t] + InHand(t) <= payloads
    /\ \A k \in Recorded(t) : log[k].ts <= ts[t]
    /\ \A j, k \in Recorded(t) : j < k => log[j].ts <= log[k].ts

IInv == TypeOK /\ MutexInv /\ PhaseInv /\ LogInv /\ LatestInv /\ CountInv

-----------------------------------------------------------------------------
(***************************************************************************)
(* Data: the workers, the log, the set of a worker's entries.              *)
(***************************************************************************)
LEMMA WorkersFinite ==
  /\ Workers = 1..Len(Sources) /\ Len(Sources) \in Nat
  /\ MainThread \notin Workers
  /\ \A S \in SUBSET Workers : IsFiniteSet(S) /\ Cardinality(S) \in Nat
<1>1. Workers = 1..Len(Sources) /\ Len(Sources) \in Nat
  BY DEF Workers
<1>2. IsFiniteSet(1..Len(Sources))
  BY <1>1, FS_Interval
<1>3. \A S \in SUBSET Workers : IsFiniteSet(S) /\ Cardinality(S) \in Nat
  BY <1>1, <1>2, FS_Subset, FS_CardinalityType
<1>4. QED
  BY <1>1, <1>3 DEF MainThread

LEMMA MaxIs ==
  ASSUME NEW S \in SUBSET Int, NEW m \in S, \A x \in S : x <= m
  PROVE  Max(S) = m
<1>1. \A x \in S : (\A y \in S : x >= y) => x = m
  OBVIOUS
<1>2. \A y \in S : m >= y
  OBVIOUS
<1>3. QED
  BY <1>1, <1>2 DEF Max

LEMMA MaxOfTwo ==
  ASSUME NEW a \in Int, NEW b \in Int
  PROVE  Max({a, b}) \in {a, b} /\ Max({a, b}) >= a /\ Max({a, b}) >= b
<1>1. {a, b} \in SUBSET Int /\ a \in {a, b} /\ b \in {a, b}
  OBVIOUS
<1>2. a <= b => \A x \in {a, b} : x <= b
  OBVIOUS
<1>3. b <= a => \A x \in {a, b} : x <= a
  OBVIOUS
<1>4. a <= b => Max({a, b}) = b
  BY <1>1, <1>2, MaxIs
<1>5. b <= a => Max({a, b}) = a
  BY <1>1, <1>3, MaxIs
<1>6. QED
  BY <1>4, <1>5

\* What Taken does to a log.
LEMMA TakenLog ==
  ASSUME NEW S, log \in Seq(S), NEW by, NEW what, NEW at,
         [by |-> by, what |-> what, ts |-> at] \in S
  PROVE  /\ Taken(by, what, at) \in Seq(S)
         /\ Len(Taken(by, what, at)) = Len(log) + 1
         /\ DOMAIN Taken(by, what, at) = DOMAIN log \cup {Len(log) + 1}
         /\ \A k \in DOMAIN log : Taken(by, what, at)[k] = log[k]
         /\ Taken(by, what, at)[Len(log) + 1] = [by |-> by, what |-> what, ts |-> at]
  BY DEF Taken

\* What AnnotateStart adds to the log.
StartEntries ==
  [by: {MainThread}, what: {"capture_started", "can_peak_stub"}, ts: {now}]

LEMMA StartNotesType ==
  /\ StartNotes \in Seq(StartEntries)
  /\ \A k \in DOMAIN StartNotes : RemoveAt(StartNotes, k) \in Seq(StartEntries)
<1> DEFINE n == 1 + Cardinality({t \in Workers : Sources[t] = "can"})
<1>1. n \in Nat
  <2>1. {t \in Workers : Sources[t] = "can"} \in SUBSET Workers
    OBVIOUS
  <2>2. QED
    BY <2>1, WorkersFinite
<1>2. StartNotes \in [1..n -> StartEntries]
  BY DEF StartNotes, StartEntries
<1>3. StartNotes \in Seq(StartEntries)
  <2> HIDE DEF n
  <2>1. QED
    BY <1>1, <1>2
<1>4. ASSUME NEW k \in DOMAIN StartNotes
      PROVE  RemoveAt(StartNotes, k) \in Seq(StartEntries)
  <2>1. k \in 1..Len(StartNotes) /\ Len(StartNotes) \in Nat
    BY <1>3
  <2>2. SubSeq(StartNotes, 1, k - 1) \in Seq(StartEntries)
    BY <1>3, <2>1
  <2>3. SubSeq(StartNotes, k + 1, Len(StartNotes)) \in Seq(StartEntries)
    BY <1>3, <2>1
  <2>4. QED
    BY <2>2, <2>3 DEF RemoveAt
<1>5. QED
  BY <1>3, <1>4

\* The log after AnnotateStart, which finds it empty.
LEMMA StartLog ==
  ASSUME IInv, AnnotateStart
  PROVE  log' \in Seq(StartEntries)
<1>1. log = <<>>
  BY DEF IInv, PhaseInv, AnnotateStart, GoMain
<1>2. \A s \in Seq(StartEntries) : <<>> \o s = s
  OBVIOUS
<1>3. QED
  BY <1>1, <1>2, StartNotesType DEF AnnotateStart

-----------------------------------------------------------------------------
(***************************************************************************)
(* Types.                                                                  *)
(***************************************************************************)
LEMMA WorkerTypes ==
  ASSUME IInv, NEW t \in Workers, Worker(t)
  PROVE  TypeOK'
<1> USE DEF TypeOK, Go, InWorker, Quiet, flags, mainVars
<1>1. stats[t] + InHand(t) <= payloads /\ stats[t] \in Nat /\ payloads \in Nat /\ now \in Nat
  BY DEF IInv, CountInv
<1>2. CASE Bind(t)
  BY <1>2 DEF IInv, Bind, WorkerSteps
<1>3. CASE BindFails(t)
  BY <1>3 DEF IInv, BindFails, WorkerSteps
<1>4. CASE Outer(t)
  BY <1>4 DEF IInv, Outer, WorkerSteps
<1>5. CASE Connect(t)
  BY <1>5 DEF IInv, Connect, WorkerSteps
<1>6. CASE ConnectFails(t)
  BY <1>6 DEF IInv, ConnectFails, WorkerSteps
<1>7. CASE Check(t)
  BY <1>7 DEF IInv, Check, WorkerSteps, AfterLoop
<1>8. CASE Timeout(t)
  BY <1>8 DEF IInv, Timeout, WorkerSteps
<1>9. CASE Disconnect(t)
  BY <1>9 DEF IInv, Disconnect, WorkerSteps, AfterLoop
<1>10. CASE Receive(t)
  <2>1. stats \in [Workers -> 0..payloads'] /\ payloads' \in 0..MaxPayloads
    BY <1>1, <1>10 DEF IInv, Receive
  <2>2. ts' \in [Workers -> 0..now]
    BY <1>10 DEF IInv, Receive
  <2>3. QED
    BY <1>10, <2>1, <2>2 DEF IInv, Receive, WorkerSteps
<1>11. CASE Lock(t)
  BY <1>11 DEF IInv, Lock, WorkerSteps
<1>12. CASE Write(t)
  <2>1. [by |-> t, what |-> "data", ts |-> ts[t]] \in Entries
    BY DEF IInv, Entries
  <2>2. log' \in Seq(Entries)
    BY <1>12, <2>1, TakenLog DEF IInv, Write
  <2>3. QED
    BY <1>12, <2>2 DEF IInv, Write, WorkerSteps
<1>13. CASE WriteFails(t)
  BY <1>13 DEF IInv, WriteFails, Faulty, AfterFailedWrite, WorkerSteps
<1>14. CASE Load(t)
  BY <1>14 DEF IInv, Load, WorkerSteps
<1>15. CASE Exchange(t)
  BY <1>15 DEF IInv, Exchange, WorkerSteps
<1>16. CASE ExchangeFails(t)
  BY <1>16 DEF IInv, ExchangeFails
<1>17. CASE LeaveLast(t)
  BY <1>17 DEF IInv, LeaveLast, WorkerSteps
<1>18. CASE Count(t)
  <2>1. stats[t] + 1 <= payloads
    BY <1>1, <1>18 DEF Count, InHand
  <2>2. stats' \in [Workers -> 0..payloads]
    BY <1>1, <1>18, <2>1 DEF IInv, Count
  <2>3. QED
    BY <1>18, <2>2 DEF IInv, Count, WorkerSteps
<1>19. QED
  BY <1>2, <1>3, <1>4, <1>5, <1>6, <1>7, <1>8, <1>9, <1>10, <1>11, <1>12, <1>13, <1>14, <1>15,
     <1>16, <1>17, <1>18 DEF Worker

LEMMA MainTypes ==
  ASSUME IInv, Main
  PROVE  TypeOK'
<1> USE DEF TypeOK, GoMain, InMain, flags
<1>1. CASE OpenSession
  BY <1>1 DEF IInv, OpenSession, MainSteps
<1>2. CASE OpenFails
  BY <1>2 DEF IInv, OpenFails, Faulty, MainSteps
<1>3. CASE AnnotateStart
  <2>1. log' \in Seq(StartEntries)
    BY <1>3, StartLog
  <2>2. StartEntries \subseteq Entries
    BY DEF IInv, StartEntries, Entries
  <2>3. log' \in Seq(Entries)
    BY <2>1, <2>2
  <2>4. faults' \in 0..MaxFaults
    BY <1>3 DEF IInv, AnnotateStart, Faulty
  <2>5. QED
    BY <1>3, <2>3, <2>4 DEF IInv, AnnotateStart, MainSteps
<1>4. CASE Spawn
  <2>1. \A t \in Workers : Started(Sources[t]) \in WorkerSteps
    BY DEF Started, WorkerSteps
  <2>2. pc' \in [Workers -> WorkerSteps]
    BY <1>4, <2>1 DEF IInv, Spawn
  <2>3. QED
    BY <1>4, <2>2 DEF IInv, Spawn
<1>5. CASE AllSpawned
  BY <1>5 DEF IInv, AllSpawned, MainSteps
<1>6. CASE Wait \/ Stop
  BY <1>6 DEF IInv, Wait, Stop, MainSteps
<1>7. CASE Join
  BY <1>7, WorkersFinite DEF IInv, Join
<1>8. CASE TakeEnd
  <2>1. lastWriteTs \in Int /\ now \in Int /\ lastWriteTs \in 0..now
    BY DEF IInv
  <2>2. Max({lastWriteTs, now}) \in {lastWriteTs, now}
    BY <2>1, MaxOfTwo
  <2>3. Max({lastWriteTs, now}) \in 0..now
    BY <2>1, <2>2
  <2>4. QED
    BY <1>8, <2>3 DEF IInv, TakeEnd, MainSteps
<1>9. CASE LockForEnd
  BY <1>9 DEF IInv, LockForEnd, MainSteps
<1>10. CASE AnnotateEnd
  <2>1. [by |-> MainThread, what |-> "recording_end", ts |-> endTs] \in Entries
    BY DEF IInv, Entries
  <2>2. Taken(MainThread, "recording_end", endTs) \in Seq(Entries)
    BY <2>1, TakenLog DEF IInv
  <2>3. log' \in Seq(Entries) /\ faults' \in 0..MaxFaults
    BY <1>10, <2>2 DEF IInv, AnnotateEnd, Faulty
  <2>4. QED
    BY <1>10, <2>3 DEF IInv, AnnotateEnd, MainSteps
<1>11. CASE Close
  BY <1>11 DEF IInv, Close, Faulty, MainSteps
<1>12. QED
  BY <1>1, <1>2, <1>3, <1>4, <1>5, <1>6, <1>7, <1>8, <1>9, <1>10, <1>11 DEF Main

LEMMA OthersTypes ==
  ASSUME IInv, Tick \/ Signal \/ Enter
  PROVE  TypeOK'
<1> USE DEF TypeOK, recorder, flags, mainVars, worker
<1>1. CASE Tick
  <2>1. now' \in 1..MaxTime /\ 0..now \subseteq 0..now'
    BY <1>1 DEF IInv, Tick
  <2>2. ts' \in [Workers -> 0..now'] /\ cur' \in [Workers -> 0..now']
    BY <1>1, <2>1 DEF IInv, Tick
  <2>3. QED
    BY <1>1, <2>1, <2>2 DEF IInv, Tick
<1>2. CASE Signal
  BY <1>2 DEF IInv, Signal
<1>3. CASE Enter
  BY <1>3 DEF IInv, Enter
<1>4. QED
  BY <1>1, <1>2, <1>3

-----------------------------------------------------------------------------
(***************************************************************************)
(* A worker's step preserves the invariant.                                *)
(***************************************************************************)
\* The steps of a worker that is neither receiving nor recording anything.
IdleSteps == {"bind", "outer", "connect", "check", "recv"}

Idle(t) ==
  /\ pc[t] \in IdleSteps
  /\ \E next \in IdleSteps \cup {"exit"} : pc' = [pc EXCEPT ![t] = next]
  /\ Quiet

LEMMA WorkerSplit ==
  ASSUME NEW t \in Workers, Worker(t)
  PROVE  \/ Idle(t) \/ Receive(t) \/ Lock(t) \/ Write(t) \/ WriteFails(t)
         \/ Load(t) \/ Exchange(t) \/ ExchangeFails(t) \/ LeaveLast(t) \/ Count(t)
<1> USE DEF Go, Idle, IdleSteps
<1>1. ASSUME Bind(t) \/ BindFails(t) \/ Outer(t) PROVE Idle(t)
  BY <1>1 DEF Bind, BindFails, Outer
<1>2. ASSUME Connect(t) \/ ConnectFails(t) PROVE Idle(t)
  BY <1>2 DEF Connect, ConnectFails
<1>3. ASSUME Check(t) PROVE Idle(t)
  BY <1>3 DEF Check, AfterLoop
<1>4. ASSUME Timeout(t) \/ Disconnect(t) PROVE Idle(t)
  BY <1>4 DEF Timeout, Disconnect, AfterLoop
<1>5. QED
  BY <1>1, <1>2, <1>3, <1>4 DEF Worker

\* A worker that takes a step is alive, so the session is open and main has
\* neither joined it nor gone past the join.
LEMMA Alive ==
  ASSUME IInv, NEW t \in Workers, Worker(t)
  PROVE  /\ pc[t] \notin {"new", "exit"} /\ pc'[t] # "new"
         /\ pc' = [pc EXCEPT ![t] = pc'[t]]
         /\ main \in {"spawn", "wait", "stop", "join"} /\ t \notin 1..joined
         /\ UNCHANGED <<now, session, main, joined, endTs>>
<1> USE DEF Go, InWorker, Quiet, mainVars
<1>1. /\ pc[t] \notin {"new", "exit"} /\ pc'[t] # "new" /\ pc' = [pc EXCEPT ![t] = pc'[t]]
      /\ UNCHANGED <<now, session, main, joined, endTs>>
  <2>1. pc \in [Workers -> WorkerSteps]
    BY DEF IInv, TypeOK
  <2>2. CASE Idle(t)
    BY <2>1, <2>2 DEF Idle, IdleSteps
  <2>3. CASE Receive(t) \/ Lock(t)
    BY <2>1, <2>3 DEF Receive, Lock
  <2>4. CASE Write(t) \/ WriteFails(t)
    BY <2>1, <2>4 DEF Write, WriteFails, AfterFailedWrite
  <2>5. CASE Load(t) \/ Exchange(t)
    BY <2>1, <2>5 DEF Load, Exchange
  <2>6. CASE ExchangeFails(t) \/ LeaveLast(t) \/ Count(t)
    BY <2>1, <2>6 DEF ExchangeFails, LeaveLast, Count
  <2>7. QED
    BY <2>2, <2>3, <2>4, <2>5, <2>6, WorkerSplit
<1>2. main \in {"spawn", "wait", "stop", "join"} /\ t \notin 1..joined
  BY <1>1 DEF IInv, TypeOK, MainSteps, PhaseInv
<1>3. QED
  BY <1>1, <1>2

LEMMA WorkerMutex ==
  ASSUME IInv, NEW t \in Workers, Worker(t)
  PROVE  MutexInv'
<1> USE DEF Go, InWorker, Quiet, mainVars, MutexInv
<1>1. pc \in [Workers -> WorkerSteps] /\ MutexInv
  BY DEF IInv, TypeOK
<1>2. CASE Idle(t)
  BY <1>1, <1>2 DEF Idle, IdleSteps
<1>3. CASE Receive(t)
  BY <1>1, <1>3 DEF Receive
<1>4. CASE Lock(t)
  BY <1>1, <1>4 DEF Lock
<1>5. CASE Write(t)
  BY <1>1, <1>5, Alive DEF Write
<1>6. CASE WriteFails(t)
  BY <1>1, <1>6, Alive DEF WriteFails, AfterFailedWrite
<1>7. CASE Load(t)
  BY <1>1, <1>7 DEF Load
<1>8. CASE Exchange(t)
  BY <1>1, <1>8 DEF Exchange
<1>9. CASE ExchangeFails(t)
  BY <1>1, <1>9 DEF ExchangeFails
<1>10. CASE LeaveLast(t) \/ Count(t)
  BY <1>1, <1>10 DEF LeaveLast, Count
<1>11. QED
  BY <1>2, <1>3, <1>4, <1>5, <1>6, <1>7, <1>8, <1>9, <1>10, WorkerSplit

LEMMA WorkerPhase ==
  ASSUME IInv, NEW t \in Workers, Worker(t)
  PROVE  PhaseInv'
<1>1. pc \in [Workers -> WorkerSteps] /\ PhaseInv
  BY DEF IInv, TypeOK
<1>2. \A u \in Workers \ {t} : pc'[u] = pc[u]
  BY <1>1, Alive
<1>3. 1..joined \subseteq Workers
  BY WorkersFinite DEF IInv, TypeOK
<1>4. \A u \in 1..joined' : pc'[u] = "exit"
  BY <1>1, <1>2, <1>3, Alive DEF PhaseInv
<1>5. QED
  BY <1>1, <1>4, Alive DEF PhaseInv

\* Only Write changes the log, and adds to it.
LEMMA WorkerAdds ==
  ASSUME NEW t \in Workers, Worker(t)
  PROVE  Write(t) \/ log' = log
<1> USE DEF Quiet
<1>1. CASE Idle(t)
  BY <1>1 DEF Idle
<1>2. CASE Receive(t) \/ Lock(t) \/ WriteFails(t) \/ Load(t)
  BY <1>2 DEF Receive, Lock, WriteFails, Load
<1>3. CASE Exchange(t) \/ ExchangeFails(t) \/ LeaveLast(t) \/ Count(t)
  BY <1>3 DEF Exchange, ExchangeFails, LeaveLast, Count
<1>4. QED
  BY <1>1, <1>2, <1>3, WorkerSplit

\* What Write does to the log.
LEMMA WriteLog ==
  ASSUME IInv, NEW t \in Workers, Write(t)
  PROVE  /\ log \in Seq(Entries) /\ Len(log') = Len(log) + 1
         /\ DOMAIN log' = DOMAIN log \cup {Len(log) + 1}
         /\ \A k \in DOMAIN log : log'[k] = log[k]
         /\ log'[Len(log) + 1] = [by |-> t, what |-> "data", ts |-> ts[t]]
<1>1. log \in Seq(Entries) /\ [by |-> t, what |-> "data", ts |-> ts[t]] \in Entries
  BY DEF IInv, TypeOK, Entries
<1>2. log' = Taken(t, "data", ts[t])
  BY DEF Write
<1>3. QED
  BY <1>1, <1>2 DEF Taken

LEMMA WorkerLog ==
  ASSUME IInv, NEW t \in Workers, Worker(t)
  PROVE  LogInv'
<1>1. LogInv /\ main' \in {"spawn", "wait", "stop", "join"} /\ now' = now
  BY Alive DEF IInv
<1>2. CASE log' = log
  BY <1>1, <1>2, Alive DEF LogInv
<1>3. CASE Write(t)
  <2>1. ts[t] <= now
    BY DEF IInv, TypeOK
  <2>2. ASSUME NEW k \in DOMAIN log'
        PROVE  log'[k].ts <= now' /\ log'[k].what # "recording_end"
    <3>1. CASE k \in DOMAIN log
      <4>1. log'[k] = log[k]
        BY <1>3, <3>1, WriteLog
      <4>2. QED
        BY <1>1, <3>1, <4>1, Alive DEF LogInv
    <3>2. CASE k = Len(log) + 1
      <4>1. log'[k] = [by |-> t, what |-> "data", ts |-> ts[t]]
        BY <1>3, <3>2, WriteLog
      <4>2. QED
        BY <1>1, <2>1, <4>1
    <3>3. DOMAIN log' = DOMAIN log \cup {Len(log) + 1}
      BY <1>3, WriteLog
    <3>4. QED
      BY <3>1, <3>2, <3>3
  <2>3. QED
    BY <1>1, <2>2 DEF LogInv
<1>4. QED
  BY <1>2, <1>3, WorkerAdds

\* What the typed state gives each step.
LEMMA Types ==
  ASSUME IInv
  PROVE  /\ pc \in [Workers -> WorkerSteps] /\ ts \in [Workers -> Int] /\ cur \in [Workers -> Int]
         /\ stats \in [Workers -> Int] /\ payloads \in Int
         /\ lastWriteTs \in Int /\ now \in Int /\ now >= 0 /\ log \in Seq(Entries)
         /\ \A k \in DOMAIN log : log[k].ts \in Int
         /\ \A t \in Workers : ts[t] >= 0 /\ ts[t] <= now
<1>1. TypeOK
  BY DEF IInv
<1>2. /\ lastWriteTs \in Int /\ now \in Int /\ now >= 0 /\ log \in Seq(Entries)
      /\ payloads \in Int /\ pc \in [Workers -> WorkerSteps]
      /\ \A t \in Workers : ts[t] \in 0..now
  BY <1>1 DEF TypeOK
<1>3. ts \in [Workers -> Int] /\ cur \in [Workers -> Int] /\ stats \in [Workers -> Int]
  BY <1>1 DEF TypeOK
<1>4. \A k \in DOMAIN log : log[k] \in Entries
  BY <1>2
<1>5. \A k \in DOMAIN log : log[k].ts \in Int
  BY <1>4 DEF Entries
<1>6. QED
  BY <1>2, <1>3, <1>5

LEMMA WorkerLatest ==
  ASSUME IInv, NEW t \in Workers, Worker(t)
  PROVE  LatestInv'
<1> USE DEF Go, InWorker, Quiet, LatestInv
<1>1. LatestInv
  BY DEF IInv
<1>2. CASE Idle(t)
  BY <1>1, <1>2, Types DEF Idle, IdleSteps
<1>3. CASE Receive(t)
  BY <1>1, <1>3, Types DEF Receive
<1>4. CASE Lock(t)
  BY <1>1, <1>4, Types DEF Lock
<1>5. CASE Write(t)
  <2>1. /\ pc' = [pc EXCEPT ![t] = "load"] /\ pc[t] = "write"
        /\ UNCHANGED <<lastWriteTs, ts, cur>>
    BY <1>5 DEF Write
  <2>2. DOMAIN log' = DOMAIN log \cup {Len(log) + 1}
    BY <1>5, WriteLog
  <2>3. \A k \in DOMAIN log : log'[k] = log[k]
    BY <1>5, WriteLog
  <2>4. log'[Len(log) + 1] = [by |-> t, what |-> "data", ts |-> ts[t]]
    BY <1>5, WriteLog
  <2>5. \A u \in Workers : cur'[u] <= lastWriteTs'
    BY <1>1, <2>1
  <2>6. ASSUME NEW k \in DOMAIN log', log'[k].by \in Workers
        PROVE  \/ log'[k].ts <= lastWriteTs'
               \/ pc'[log'[k].by] \in {"load", "cas"} /\ log'[k].ts = ts'[log'[k].by]
    <3>1. CASE k \in DOMAIN log
      <4>1. log'[k] = log[k]
        BY <2>3, <3>1
      <4>2. QED
        BY <1>1, <2>1, <2>6, <3>1, <4>1, Types
    <3>2. CASE k = Len(log) + 1
      <4>1. log'[k].by = t /\ log'[k].ts = ts[t]
        BY <2>4, <3>2
      <4>2. QED
        BY <2>1, <4>1, Types
    <3>3. QED
      BY <2>2, <3>1, <3>2
  <2>7. lastWriteTs' = 0 \/ \E k \in DOMAIN log' : log'[k].by \in Workers /\ log'[k].ts = lastWriteTs'
    BY <1>1, <2>1, <2>2, <2>3
  <2>8. ASSUME NEW u \in Workers, pc'[u] \in {"load", "cas", "count"}
        PROVE  \E k \in DOMAIN log' : log'[k].by = u /\ log'[k].ts = ts'[u]
    <3>1. CASE u = t
      <4>1. log'[Len(log) + 1].by = t /\ log'[Len(log) + 1].ts = ts[t]
        BY <2>4
      <4>2. QED
        BY <2>1, <2>2, <3>1, <4>1
    <3>2. CASE u # t
      <4>1. pc[u] \in {"load", "cas", "count"}
        BY <2>1, <2>8, <3>2, Types
      <4>2. PICK k \in DOMAIN log : log[k].by = u /\ log[k].ts = ts[u]
        BY <1>1, <4>1
      <4>3. QED
        BY <2>1, <2>2, <2>3, <4>2
    <3>3. QED
      BY <3>1, <3>2
  <2>9. QED
    BY <2>5, <2>6, <2>7, <2>8
<1>6. CASE WriteFails(t)
  BY <1>1, <1>6, Types DEF WriteFails, AfterFailedWrite
<1>7. CASE Load(t)
  BY <1>1, <1>7, Types DEF Load
<1>8. CASE Exchange(t)
  <2>1. PICK k \in DOMAIN log : log[k].by = t /\ log[k].ts = ts[t]
    BY <1>1, <1>8 DEF Exchange
  <2>2. lastWriteTs < ts[t]
    BY <1>1, <1>8, Types DEF Exchange, Expected
  <2>3. QED
    BY <1>1, <1>8, <2>1, <2>2, Types DEF Exchange
<1>9. CASE ExchangeFails(t)
  BY <1>1, <1>9, Types DEF ExchangeFails
<1>10. CASE LeaveLast(t)
  <2>1. ts[t] <= lastWriteTs
    BY <1>1, <1>10, Types DEF LeaveLast
  <2>2. QED
    BY <1>1, <1>10, <2>1, Types DEF LeaveLast
<1>11. CASE Count(t)
  BY <1>1, <1>11, Types DEF Count
<1>12. QED
  BY <1>2, <1>3, <1>4, <1>5, <1>6, <1>7, <1>8, <1>9, <1>10, <1>11, WorkerSplit

\* A worker's entries: finitely many of the log's.
LEMMA RecordedFinite ==
  ASSUME IInv, NEW t \in Workers
  PROVE  IsFiniteSet(Recorded(t)) /\ Cardinality(Recorded(t)) \in Nat
<1>1. Recorded(t) \in SUBSET (1..Len(log)) /\ Len(log) \in Nat
  BY Types DEF Recorded
<1>2. IsFiniteSet(1..Len(log))
  BY <1>1, FS_Interval
<1>3. QED
  BY <1>1, <1>2, FS_Subset, FS_CardinalityType

LEMMA WorkerCount ==
  ASSUME IInv, NEW t \in Workers, Worker(t)
  PROVE  CountInv'
<1> USE DEF Go, InWorker, Quiet, CountInv, Uncounted, InHand
<1>1. CountInv
  BY DEF IInv
<1> DEFINE SameLog == log' = log /\ \A u \in Workers : Recorded(u)' = Recorded(u)
<1>0. \A u \in Workers : \A k \in Recorded(u) : k \in DOMAIN log
  BY DEF Recorded
<1>13. log' = log => SameLog
  BY DEF Recorded
<1>2. CASE Idle(t)
  <2>1. SameLog
    BY <1>2, <1>13 DEF Idle
  <2>2. QED
    BY <1>1, <1>2, <2>1, Types DEF Idle, IdleSteps
<1>3. CASE Receive(t)
  <2>1. SameLog
    BY <1>3, <1>13 DEF Receive
  <2>2. \A u \in Workers : \A k \in Recorded(u) : log[k].ts <= now
    BY <1>0 DEF IInv, LogInv
  <2>3. QED
    BY <1>0, <1>1, <1>3, <2>1, <2>2, Types DEF Receive
<1>4. CASE Lock(t)
  <2>1. SameLog
    BY <1>4, <1>13 DEF Lock
  <2>2. QED
    BY <1>1, <1>4, <2>1, Types DEF Lock
<1>5. CASE Write(t)
  <2>1. /\ pc' = [pc EXCEPT ![t] = "load"] /\ pc[t] = "write"
        /\ UNCHANGED <<ts, stats, payloads>>
    BY <1>5 DEF Write
  <2>2. DOMAIN log' = DOMAIN log \cup {Len(log) + 1}
    BY <1>5, WriteLog
  <2>3. \A k \in DOMAIN log : log'[k] = log[k]
    BY <1>5, WriteLog
  <2>4. log'[Len(log) + 1] = [by |-> t, what |-> "data", ts |-> ts[t]]
    BY <1>5, WriteLog
  <2>5. DOMAIN log = 1..Len(log) /\ Len(log) \in Nat
    BY Types
  <2>6. Recorded(t)' = Recorded(t) \cup {Len(log) + 1}
    BY <2>2, <2>3, <2>4 DEF Recorded
  <2>7. \A u \in Workers \ {t} : Recorded(u)' = Recorded(u)
    BY <2>2, <2>3, <2>4 DEF Recorded
  <2>8. ASSUME NEW u \in Workers
        PROVE  /\ Cardinality(Recorded(u)') = stats'[u] + Uncounted(u)'
               /\ stats'[u] + InHand(u)' <= payloads'
    <3>1. CASE u = t
      <4>1. Len(log) + 1 \notin Recorded(t)
        BY <2>5 DEF Recorded
      <4>2. Cardinality(Recorded(t)') = Cardinality(Recorded(t)) + 1
        BY <2>6, <4>1, RecordedFinite, FS_AddElement
      <4>3. Uncounted(t) = 0 /\ Uncounted(t)' = 1 /\ InHand(t) = 1 /\ InHand(t)' = 1
        BY <2>1, Types
      <4>4. Cardinality(Recorded(t)) = stats[t] + Uncounted(t) /\ stats[t] + InHand(t) <= payloads
        BY <1>1
      <4>5. QED
        BY <2>1, <3>1, <4>2, <4>3, <4>4, Types
    <3>2. CASE u # t
      BY <1>1, <2>1, <2>7, <3>2, Types
    <3>3. QED
      BY <3>1, <3>2
  <2>9. ASSUME NEW u \in Workers
        PROVE  /\ \A k \in Recorded(u)' : log'[k].ts <= ts'[u]
               /\ \A j, k \in Recorded(u)' : j < k => log'[j].ts <= log'[k].ts
    <3>1. \A k \in Recorded(u) : k \in DOMAIN log /\ log'[k].ts = log[k].ts /\ log[k].ts <= ts[u]
      BY <1>0, <1>1, <2>3
    <3>2. CASE u = t
      <4>1. log'[Len(log) + 1].ts = ts[t]
        BY <2>4
      <4>2. \A k \in Recorded(t) : k \in Int /\ k < Len(log) + 1
        BY <1>0, <2>5
      <4>3. ASSUME NEW k \in Recorded(t)'
            PROVE  log'[k].ts <= ts[t]
        <5>1. CASE k = Len(log) + 1
          BY <4>1, <5>1, Types
        <5>2. CASE k \in Recorded(t)
          BY <3>1, <3>2, <5>2
        <5>3. QED
          BY <2>6, <5>1, <5>2
      <4>4. ASSUME NEW j \in Recorded(t)', NEW k \in Recorded(t)', j < k
            PROVE  log'[j].ts <= log'[k].ts
        <5>1. CASE k = Len(log) + 1
          BY <4>1, <4>3, <5>1
        <5>2. CASE k \in Recorded(t)
          <6>1. j # Len(log) + 1
            BY <2>5, <4>2, <4>4, <5>2
          <6>2. j \in Recorded(t)
            BY <2>6, <6>1
          <6>3. QED
            BY <1>1, <3>1, <3>2, <4>4, <5>2, <6>2
        <5>3. QED
          BY <2>6, <5>1, <5>2
      <4>5. QED
        BY <2>1, <3>2, <4>3, <4>4
    <3>3. CASE u # t
      BY <1>1, <2>1, <2>7, <3>1, <3>3, Types
    <3>4. QED
      BY <3>2, <3>3
  <2>10. QED
    BY <2>8, <2>9
<1>6. CASE WriteFails(t)
  <2>1. SameLog
    BY <1>6, <1>13 DEF WriteFails
  <2>2. QED
    BY <1>1, <1>6, <2>1, Types DEF WriteFails, AfterFailedWrite
<1>7. CASE Load(t)
  <2>1. SameLog
    BY <1>7, <1>13 DEF Load
  <2>2. QED
    BY <1>1, <1>7, <2>1, Types DEF Load
<1>8. CASE Exchange(t)
  <2>1. SameLog
    BY <1>8, <1>13 DEF Exchange
  <2>2. QED
    BY <1>1, <1>8, <2>1, Types DEF Exchange
<1>9. CASE ExchangeFails(t)
  <2>1. SameLog
    BY <1>9, <1>13 DEF ExchangeFails
  <2>2. QED
    BY <1>1, <1>9, <2>1, Types DEF ExchangeFails
<1>10. CASE LeaveLast(t)
  <2>1. SameLog
    BY <1>10, <1>13 DEF LeaveLast
  <2>2. QED
    BY <1>1, <1>10, <2>1, Types DEF LeaveLast
<1>11. CASE Count(t)
  <2>1. SameLog
    BY <1>11, <1>13 DEF Count
  <2>2. QED
    BY <1>1, <1>11, <2>1, Types DEF Count
<1>12. QED
  BY <1>2, <1>3, <1>4, <1>5, <1>6, <1>7, <1>8, <1>9, <1>10, <1>11, WorkerSplit

-----------------------------------------------------------------------------
(***************************************************************************)
(* A step of the main thread preserves the invariant.                      *)
(***************************************************************************)
\* What AnnotateStart leaves: entries of the main thread.
LEMMA StartedLog ==
  ASSUME IInv, AnnotateStart
  PROVE  /\ log = <<>> /\ (\A t \in Workers : pc[t] = "new" /\ pc'[t] = "new")
         /\ \A k \in DOMAIN log' :
              /\ log'[k].by = MainThread /\ log'[k].ts = now
              /\ log'[k].what # "recording_end"
         /\ \A t \in Workers : Recorded(t) = {} /\ Recorded(t)' = {}
<1>1. log = <<>> /\ \A t \in Workers : pc[t] = "new" /\ pc'[t] = "new"
  BY DEF IInv, PhaseInv, AnnotateStart, GoMain
<1>2. \A k \in DOMAIN log' : log'[k] \in StartEntries
  BY StartLog
<1>3. \A k \in DOMAIN log' :
        log'[k].by = MainThread /\ log'[k].ts = now /\ log'[k].what # "recording_end"
  BY <1>2 DEF StartEntries
<1>4. \A t \in Workers : Recorded(t) = {}
  BY <1>1 DEF Recorded
<1>5. \A t \in Workers : Recorded(t)' = {}
  BY <1>3, WorkersFinite DEF Recorded
<1>6. QED
  BY <1>1, <1>3, <1>4, <1>5

\* What AnnotateEnd leaves: the log as it is, or longer by its entry.
LEMMA EndedLog ==
  ASSUME IInv, AnnotateEnd, log' # log
  PROVE  /\ Len(log') = Len(log) + 1
         /\ DOMAIN log' = DOMAIN log \cup {Len(log) + 1}
         /\ \A k \in DOMAIN log : log'[k] = log[k]
         /\ log'[Len(log) + 1] = [by |-> MainThread, what |-> "recording_end", ts |-> endTs]
<1>1. log' = Taken(MainThread, "recording_end", endTs)
  BY DEF AnnotateEnd
<1>2. log \in Seq(Entries)
  BY Types
<1>3. [by |-> MainThread, what |-> "recording_end", ts |-> endTs] \in Entries
  BY DEF IInv, TypeOK, Entries
<1>4. QED
  BY <1>1, <1>2, <1>3 DEF Taken

\* Whatever main does, a worker's entries are the same.
LEMMA MainRecorded ==
  ASSUME IInv, Main
  PROVE  \A t \in Workers : Recorded(t)' = Recorded(t)
<1>1. CASE log' = log
  BY <1>1 DEF Recorded
<1>2. CASE AnnotateStart
  BY <1>2, StartedLog
<1>3. CASE AnnotateEnd /\ log' # log
  <2>1. DOMAIN log' = DOMAIN log \cup {Len(log) + 1}
    BY <1>3, EndedLog
  <2>2. \A k \in DOMAIN log : log'[k] = log[k]
    BY <1>3, EndedLog
  <2>3. log'[Len(log) + 1].by \notin Workers
    <3>1. log'[Len(log) + 1] = [by |-> MainThread, what |-> "recording_end", ts |-> endTs]
      BY <1>3, EndedLog
    <3>2. QED
      BY <3>1, WorkersFinite
  <2>4. QED
    BY <2>1, <2>2, <2>3 DEF Recorded
<1>4. Main => log' = log \/ AnnotateStart \/ AnnotateEnd
  BY DEF Main, OpenSession, OpenFails, Spawn, AllSpawned, Wait, Stop, Join, TakeEnd, LockForEnd, Close
<1>5. QED
  BY <1>1, <1>2, <1>3, <1>4

\* The workers' program counters change only in Spawn, from "new".
LEMMA SpawnStarts ==
  ASSUME IInv, Spawn
  PROVE  /\ main = "spawn" /\ UNCHANGED <<main, session, writeMutex, log, joined>>
         /\ \E t \in Workers, s \in {"bind", "outer", "check"} :
              pc[t] = "new" /\ pc' = [pc EXCEPT ![t] = s]
<1>1. PICK t \in Workers \ Spawned : pc' = [pc EXCEPT ![t] = Started(Sources[t])]
  BY DEF Spawn
<1>2. pc[t] = "new" /\ Started(Sources[t]) \in {"bind", "outer", "check"}
  BY <1>1 DEF Spawned, Started
<1>3. QED
  BY <1>1, <1>2 DEF Spawn

LEMMA MainSpawns ==
  ASSUME Main
  PROVE  Spawn \/ pc' = pc
BY DEF Main, OpenSession, OpenFails, AnnotateStart, AllSpawned, Wait, Stop, Join, TakeEnd, LockForEnd,
       AnnotateEnd, Close

LEMMA MainMutex ==
  ASSUME IInv, Main
  PROVE  MutexInv'
<1> USE DEF MutexInv, GoMain
<1>1. MutexInv /\ pc \in [Workers -> WorkerSteps]
  BY Types DEF IInv
<1>2. CASE Spawn
  BY <1>1, <1>2, SpawnStarts
<1>3. CASE OpenSession \/ OpenFails \/ AnnotateStart
  BY <1>1, <1>3 DEF OpenSession, OpenFails, AnnotateStart
<1>4. CASE AllSpawned \/ Wait \/ Stop \/ Join \/ TakeEnd
  BY <1>1, <1>4 DEF AllSpawned, Wait, Stop, Join, TakeEnd
<1>5. CASE LockForEnd
  BY <1>1, <1>5 DEF LockForEnd
<1>6. CASE AnnotateEnd
  <2>1. \A t \in Workers : pc'[t] = "exit"
    BY <1>6 DEF IInv, PhaseInv, AnnotateEnd
  <2>2. main' # "annotateEnd"
    BY <1>6 DEF AnnotateEnd
  <2>3. QED
    BY <2>1, <2>2
<1>7. CASE Close
  BY <1>1, <1>7 DEF Close
<1>8. QED
  BY <1>2, <1>3, <1>4, <1>5, <1>6, <1>7 DEF Main

LEMMA MainPhase ==
  ASSUME IInv, Main
  PROVE  PhaseInv'
<1> USE DEF PhaseInv, GoMain, MainSteps
<1>1. PhaseInv /\ pc \in [Workers -> WorkerSteps] /\ 1..joined \subseteq Workers
  BY Types, WorkersFinite DEF IInv, TypeOK
<1>2. CASE OpenSession
  BY <1>1, <1>2 DEF OpenSession
<1>3. CASE OpenFails
  BY <1>1, <1>3 DEF OpenFails
<1>4. CASE AnnotateStart
  BY <1>1, <1>4 DEF AnnotateStart
<1>5. CASE Spawn
  <2>1. /\ main = "spawn" /\ UNCHANGED <<main, session, joined>>
        /\ \E t \in Workers : pc[t] = "new" /\ \A u \in Workers \ {t} : pc'[u] = pc[u]
    BY <1>1, <1>5, SpawnStarts
  <2>2. \A u \in 1..joined : pc'[u] = "exit"
    BY <1>1, <2>1
  <2>3. QED
    BY <1>1, <2>1, <2>2
<1>6. CASE AllSpawned \/ Wait \/ Stop
  BY <1>1, <1>6 DEF AllSpawned, Wait, Stop
<1>7. CASE Join
  BY <1>1, <1>7 DEF IInv, TypeOK, Join, Joinable
<1>8. CASE TakeEnd
  <2>1. \A t \in Workers : pc'[t] = "exit"
    BY <1>1, <1>8, WorkersFinite DEF TakeEnd
  <2>2. QED
    BY <1>1, <1>8, <2>1 DEF TakeEnd
<1>9. CASE LockForEnd
  BY <1>1, <1>9 DEF LockForEnd
<1>10. CASE AnnotateEnd
  BY <1>1, <1>10 DEF AnnotateEnd
<1>11. CASE Close
  BY <1>1, <1>11 DEF Close
<1>12. QED
  BY <1>2, <1>3, <1>4, <1>5, <1>6, <1>7, <1>8, <1>9, <1>10, <1>11 DEF Main

LEMMA MainLog ==
  ASSUME IInv, Main
  PROVE  LogInv'
<1> USE DEF LogInv, GoMain, InMain
<1>1. LogInv /\ now \in Int /\ main \in MainSteps
  BY Types DEF IInv, TypeOK
<1>2. CASE OpenSession \/ OpenFails
  BY <1>1, <1>2 DEF OpenSession, OpenFails
<1>3. CASE AnnotateStart
  <2>1. \A k \in DOMAIN log' : log'[k].ts = now /\ log'[k].what # "recording_end"
    BY <1>3, StartedLog
  <2>2. now' = now /\ main' = "spawn"
    BY <1>3 DEF AnnotateStart
  <2>3. QED
    BY <1>1, <2>1, <2>2
<1>4. CASE Spawn \/ AllSpawned \/ Wait \/ Stop
  BY <1>1, <1>4 DEF Spawn, AllSpawned, Wait, Stop
<1>5. CASE Join
  BY <1>1, <1>5 DEF Join
<1>6. CASE TakeEnd
  <2>1. lastWriteTs \in Int /\ \A k \in DOMAIN log : log[k].ts \in Int
    BY Types
  <2>2. Max({lastWriteTs, now}) >= now /\ Max({lastWriteTs, now}) \in Int
    BY <1>1, <2>1, MaxOfTwo
  <2>3. \A k \in DOMAIN log : log[k].ts <= endTs'
    BY <1>1, <1>6, <2>1, <2>2 DEF TakeEnd
  <2>4. QED
    BY <1>1, <1>6, <2>3 DEF TakeEnd
<1>7. CASE LockForEnd
  BY <1>1, <1>7 DEF LockForEnd
<1>8. CASE AnnotateEnd /\ log' = log
  BY <1>1, <1>8 DEF AnnotateEnd
<1>9. CASE AnnotateEnd /\ log' # log
  <2>1. /\ DOMAIN log' = DOMAIN log \cup {Len(log) + 1} /\ Len(log') = Len(log) + 1
        /\ DOMAIN log = 1..Len(log) /\ Len(log) \in Nat
    BY <1>9, EndedLog, Types
  <2>2. \A k \in DOMAIN log : log'[k] = log[k]
    BY <1>9, EndedLog
  <2>3. log'[Len(log) + 1] = [by |-> MainThread, what |-> "recording_end", ts |-> endTs]
    BY <1>9, EndedLog
  <2>4. log'[Len(log) + 1].ts = endTs
    BY <2>3
  <2>5. endTs \in Int /\ endTs <= now /\ now' = now
    BY <1>9 DEF IInv, TypeOK, AnnotateEnd
  <2>6. \A k \in DOMAIN log : log[k].ts <= endTs /\ log[k].what # "recording_end"
    BY <1>1, <1>9 DEF AnnotateEnd
  <2>7. \A k \in DOMAIN log' : log'[k].ts <= endTs
    BY <2>1, <2>2, <2>4, <2>5, <2>6
  <2>8. \A k \in DOMAIN log' : log'[k].ts <= now'
    BY <1>1, <2>1, <2>2, <2>4, <2>5
  <2>9. \A k \in DOMAIN log' : log'[k].what = "recording_end" => k = Len(log')
    BY <2>1, <2>2, <2>6
  <2>10. \A j \in 1..Len(log') : log'[j].ts <= log'[Len(log')].ts
    BY <2>1, <2>4, <2>7
  <2>11. main' = "close"
    BY <1>9 DEF AnnotateEnd
  <2>12. QED
    BY <2>8, <2>9, <2>10, <2>11
<1>10. CASE Close
  BY <1>1, <1>10 DEF Close
<1>11. QED
  BY <1>2, <1>3, <1>4, <1>5, <1>6, <1>7, <1>8, <1>9, <1>10 DEF Main

LEMMA MainLatest ==
  ASSUME IInv, Main
  PROVE  LatestInv'
<1> USE DEF LatestInv, InMain
<1>1. LatestInv /\ pc \in [Workers -> WorkerSteps]
  BY Types DEF IInv
<1>2. CASE Spawn
  <2>1. /\ UNCHANGED <<log, ts, cur, lastWriteTs>>
        /\ \E t \in Workers, s \in {"bind", "outer", "check"} :
             pc[t] = "new" /\ pc' = [pc EXCEPT ![t] = s]
    BY <1>2, SpawnStarts DEF Spawn
  <2>2. \A u \in Workers :
          /\ pc'[u] \in {"load", "cas", "count"} => pc'[u] = pc[u]
          /\ pc[u] \in {"load", "cas", "count"} => pc'[u] = pc[u]
    BY <1>1, <2>1
  <2>3. QED
    BY <1>1, <2>1, <2>2
<1>3. CASE OpenSession \/ OpenFails
  BY <1>1, <1>3 DEF OpenSession, OpenFails
<1>4. CASE AnnotateStart
  <2>1. lastWriteTs = 0
    BY <1>1, <1>4, StartedLog
  <2>2. UNCHANGED <<cur, lastWriteTs>>
    BY <1>4 DEF AnnotateStart
  <2>3. QED
    BY <1>1, <1>4, <2>1, <2>2, StartedLog, WorkersFinite
<1>5. CASE AllSpawned \/ Wait \/ Stop \/ Join
  BY <1>1, <1>5 DEF AllSpawned, Wait, Stop, Join
<1>6. CASE TakeEnd \/ LockForEnd \/ Close
  BY <1>1, <1>6 DEF TakeEnd, LockForEnd, Close
<1>7. CASE AnnotateEnd /\ log' = log
  BY <1>1, <1>7 DEF AnnotateEnd
<1>8. CASE AnnotateEnd /\ log' # log
  <2>1. DOMAIN log' = DOMAIN log \cup {Len(log) + 1}
    BY <1>8, EndedLog
  <2>2. \A k \in DOMAIN log : log'[k] = log[k]
    BY <1>8, EndedLog
  <2>3. log'[Len(log) + 1] = [by |-> MainThread, what |-> "recording_end", ts |-> endTs]
    BY <1>8, EndedLog
  <2>4. log'[Len(log) + 1].by \notin Workers
    BY <2>3, WorkersFinite
  <2>5. UNCHANGED <<pc, ts, cur, lastWriteTs>>
    BY <1>8 DEF AnnotateEnd
  <2>6. QED
    BY <1>1, <2>1, <2>2, <2>4, <2>5
<1>9. QED
  BY <1>2, <1>3, <1>4, <1>5, <1>6, <1>7, <1>8 DEF Main

LEMMA MainCount ==
  ASSUME IInv, Main
  PROVE  CountInv'
<1>1. CountInv /\ pc \in [Workers -> WorkerSteps]
  BY Types DEF IInv
<1>2. UNCHANGED <<stats, payloads, ts>>
  BY DEF Main, InMain, OpenSession, OpenFails, AnnotateStart, Spawn, AllSpawned, Wait, Stop, Join,
         TakeEnd, LockForEnd, AnnotateEnd, Close
<1>3. \A t \in Workers : Recorded(t)' = Recorded(t)
  BY MainRecorded
<1>4. \A t \in Workers : Uncounted(t)' = Uncounted(t) /\ InHand(t)' = InHand(t)
  <2>1. CASE pc' = pc
    BY <2>1 DEF Uncounted, InHand
  <2>2. CASE Spawn
    BY <1>1, <2>2, SpawnStarts DEF Uncounted, InHand
  <2>3. QED
    BY <2>1, <2>2, MainSpawns
<1>5. \A t \in Workers : \A k \in Recorded(t) : log'[k] = log[k]
  <2>1. CASE AnnotateStart
    BY <2>1, StartedLog
  <2>2. CASE AnnotateEnd /\ log' # log
    BY <2>2, EndedLog DEF Recorded
  <2>3. Main => log' = log \/ AnnotateStart \/ AnnotateEnd
    BY DEF Main, OpenSession, OpenFails, Spawn, AllSpawned, Wait, Stop, Join, TakeEnd, LockForEnd, Close
  <2>4. QED
    BY <2>1, <2>2, <2>3
<1>6. QED
  BY <1>1, <1>2, <1>3, <1>4, <1>5 DEF CountInv

-----------------------------------------------------------------------------
(***************************************************************************)
(* The invariant.                                                          *)
(***************************************************************************)
LEMMA InitInv ==
  ASSUME Init
  PROVE  IInv
<1> USE DEF Init
<1>1. TypeOK
  <2>1. log \in Seq(Entries)
    OBVIOUS
  <2>2. joined \in 0..Len(Sources)
    BY WorkersFinite
  <2>3. /\ pc \in [Workers -> WorkerSteps] /\ ts \in [Workers -> 0..now]
        /\ cur \in [Workers -> 0..now] /\ stats \in [Workers -> 0..payloads]
    BY DEF WorkerSteps
  <2>4. /\ now \in 1..MaxTime /\ lastWriteTs \in 0..now /\ endTs \in 0..now
        /\ payloads \in 0..MaxPayloads /\ faults \in 0..MaxFaults
    OBVIOUS
  <2>5. QED
    BY <2>1, <2>2, <2>3, <2>4 DEF TypeOK, MainSteps
<1>2. MutexInv /\ LogInv
  BY DEF MutexInv, LogInv
<1>3. PhaseInv
  BY DEF PhaseInv, MainSteps
<1>4. LatestInv
  BY DEF LatestInv
<1>5. CountInv
  <2>1. \A t \in Workers : Recorded(t) = {}
    BY DEF Recorded
  <2>2. Cardinality({}) = 0
    BY FS_EmptySet
  <2>3. \A t \in Workers : Uncounted(t) = 0 /\ InHand(t) = 0 /\ stats[t] = 0 /\ payloads = 0
    BY DEF Uncounted, InHand
  <2>4. \A t \in Workers : Cardinality(Recorded(t)) = 0
    BY <2>1, <2>2
  <2> HIDE DEF Init
  <2>5. QED
    BY <2>1, <2>3, <2>4 DEF CountInv
<1>6. QED
  BY <1>1, <1>2, <1>3, <1>4, <1>5 DEF IInv

\* The clock, a signal and ENTER.
LEMMA OthersInv ==
  ASSUME IInv, Tick \/ Signal \/ Enter
  PROVE  IInv'
<1>1. UNCHANGED <<recorder, mainVars, worker, payloads>> /\ now' >= now /\ now' \in Int
  BY Types DEF Tick, Signal, Enter
<1>2. LogInv'
  BY <1>1, Types DEF IInv, LogInv, recorder, mainVars
<1>3. MutexInv' /\ PhaseInv'
  BY <1>1 DEF IInv, MutexInv, PhaseInv, recorder, mainVars, worker
<1>4. LatestInv'
  BY <1>1 DEF IInv, LatestInv, recorder, worker
<1>5. CountInv'
  BY <1>1 DEF IInv, CountInv, Uncounted, InHand, Recorded, recorder, worker
<1>6. QED
  BY <1>2, <1>3, <1>4, <1>5, OthersTypes DEF IInv

LEMMA StutterInv ==
  ASSUME IInv, UNCHANGED vars
  PROVE  IInv'
<1> USE DEF vars, flags, recorder, mainVars, worker
<1>1. TypeOK'
  BY DEF IInv, TypeOK
<1>2. MutexInv' /\ PhaseInv' /\ LogInv'
  BY DEF IInv, MutexInv, PhaseInv, LogInv
<1>3. LatestInv' /\ CountInv'
  BY DEF IInv, LatestInv, CountInv, Uncounted, InHand, Recorded
<1>4. QED
  BY <1>1, <1>2, <1>3 DEF IInv

LEMMA NextInv ==
  ASSUME IInv, [Next]_vars
  PROVE  IInv'
<1>1. ASSUME Main PROVE IInv'
  BY <1>1, MainTypes, MainMutex, MainPhase, MainLog, MainLatest, MainCount DEF IInv
<1>2. ASSUME NEW t \in Workers, Worker(t) PROVE IInv'
  BY <1>2, WorkerTypes, WorkerMutex, WorkerPhase, WorkerLog, WorkerLatest, WorkerCount DEF IInv
<1>3. QED
  BY <1>1, <1>2, OthersInv, StutterInv DEF Next

THEOREM Invariance == Spec => []IInv
BY InitInv, NextInv, PTL DEF Spec

\* No timestamp the workers share or record is later than the clock, the
\* counters stay in their bounds, and a worker never counts a payload that has
\* not come, for any sources and bounds.
THEOREM TypesHold == Spec => []TypeOK
<1>1. IInv => TypeOK
  BY DEF IInv
<1>2. QED
  BY <1>1, Invariance, PTL

\* The mutex, and the joins before the close, keep the recorder to one thread
\* at a time, and to the time the session is open: SharedState::write_mutex
\* around every WriteOwned, Close without it.
THEOREM OneAtATime == Spec => []OneInRecorder
<1>1. IInv => OneInRecorder
  <2> SUFFICES ASSUME IInv
               PROVE  OneInRecorder
    OBVIOUS
  <2>1. CASE main \in {"annotateEnd", "close"}
    <3>1. InRecorder = {MainThread}
      BY <2>1, WorkersFinite DEF IInv, PhaseInv, InRecorder
    <3>2. session = "open"
      BY <2>1 DEF IInv, PhaseInv, MainSteps
    <3>3. Cardinality(InRecorder) = 1
      BY <3>1, FS_Singleton
    <3>4. QED
      BY <3>2, <3>3 DEF OneInRecorder
  <2>2. CASE main \notin {"annotateEnd", "close"} /\ \A t \in Workers : pc[t] # "write"
    <3>1. InRecorder = {}
      BY <2>2 DEF InRecorder
    <3>2. QED
      BY <3>1, FS_EmptySet DEF OneInRecorder
  <2>3. ASSUME main \notin {"annotateEnd", "close"}, NEW t \in Workers, pc[t] = "write"
        PROVE  OneInRecorder
    <3>1. InRecorder = {t}
      BY <2>3 DEF IInv, MutexInv, InRecorder
    <3>2. session = "open"
      BY <2>3 DEF IInv, PhaseInv, TypeOK, MainSteps
    <3>3. Cardinality(InRecorder) = 1
      BY <3>1, FS_Singleton
    <3>4. QED
      BY <3>2, <3>3 DEF OneInRecorder
  <2>4. QED
    BY <2>1, <2>2, <2>3
<1>2. QED
  BY <1>1, Invariance, PTL

\* recording_end, annotated after the joins at the later of the clock and the
\* last write, is the last entry and none before it is later.
THEOREM EndStaysLast == Spec => []EndIsLast
<1>1. IInv => EndIsLast
  BY DEF IInv, LogInv, EndIsLast
<1>2. QED
  BY <1>1, Invariance, PTL

\* update_last_ts loses no update: once the workers are gone, lastWriteTs is
\* the latest timestamp they recorded.
THEOREM NoUpdateLost == Spec => []LastWriteIsLatest
<1>1. IInv => LastWriteIsLatest
  <2> SUFFICES ASSUME IInv, Exited
               PROVE  LastWriteIsLatest
    BY DEF LastWriteIsLatest
  <2> DEFINE K == UNION {Recorded(t) : t \in Workers}
             S == {0} \cup {log[k].ts : k \in K}
  <2>1. K = {k \in DOMAIN log : log[k].by \in Workers}
    BY DEF Recorded
  <2>2. S \in SUBSET Int
    BY <2>1, Types
  <2>3. lastWriteTs \in S
    BY <2>1 DEF IInv, LatestInv
  <2>4. ASSUME NEW k \in K
        PROVE  log[k].ts <= lastWriteTs
    <3>1. k \in DOMAIN log /\ log[k].by \in Workers
      BY <2>1
    <3>2. pc[log[k].by] \notin {"load", "cas"}
      BY <3>1 DEF Exited
    <3>3. QED
      BY <3>1, <3>2 DEF IInv, LatestInv
  <2>5. lastWriteTs >= 0 /\ lastWriteTs \in Int
    BY DEF IInv, TypeOK
  <2>6. \A x \in S : x <= lastWriteTs
    BY <2>4, <2>5
  <2>7. Max(S) = lastWriteTs
    <3> HIDE DEF S
    <3>1. QED
      BY <2>2, <2>3, <2>6, MaxIs
  <2>8. QED
    BY <2>7 DEF LastWriteIsLatest
<1>2. QED
  BY <1>1, Invariance, PTL

\* The summary the program prints is right: each worker counted exactly the
\* writes the recorder took, and these are in the order of their timestamps.
THEOREM StatsAreRight == Spec => []StatsMatch
<1>1. IInv => StatsMatch
  <2> SUFFICES ASSUME IInv, NEW t \in Workers
               PROVE  /\ pc[t] = "exit" => stats[t] = Cardinality(Recorded(t))
                      /\ \A j, k \in Recorded(t) : j < k => log[j].ts <= log[k].ts
    BY DEF StatsMatch
  <2>1. pc[t] = "exit" => Uncounted(t) = 0
    BY DEF Uncounted
  <2>2. QED
    BY <2>1, Types DEF IInv, CountInv
<1>2. QED
  BY <1>1, Invariance, PTL
===============================================================================
