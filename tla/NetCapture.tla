------------------------------ MODULE NetCapture ------------------------------
(***************************************************************************)
(* The network capture program (examples/record_net_streams/main.cpp): one *)
(* worker thread per source writes to a RecorderSession they share under a *)
(* mutex, and the main thread starts them, waits for the end of the        *)
(* capture, stops and joins them, and closes the session.  The recorder is *)
(* the sequence of what its calls were given.                              *)
(***************************************************************************)
EXTENDS Integers, FiniteSetsExt, SequencesExt

CONSTANTS Sources,      \* SourceKind of each worker: "udp", "tcp" or "can"
          MaxTime,      \* bound: the clock
          MaxPayloads,  \* bound: payloads received
          MaxFaults     \* bound: calls on the recorder that fail

Workers == DOMAIN Sources
MainThread == 0
ASSUME SourcesAssumption == Sources \in Seq({"udp", "tcp", "can"})
ASSUME BoundsAssumption == MaxTime \in Nat \ {0} /\ MaxPayloads \in Nat /\ MaxFaults \in Nat

VARIABLES
  timed,       \* a duration was given; otherwise ENTER ends the capture
  entered,     \* ENTER was pressed
  now,         \* now_ns(): a steady clock
  g_stop, running, lastWriteTs,    \* the atomics
  writeMutex,  \* "free" or who holds it
  session,     \* "new", "open" or "closed"
  log,         \* the calls the recorder took: [by, what, ts]
  main,        \* the main thread's next step
  joined,      \* the workers it has joined are 1..joined
  endTs,
  pc,          \* per worker, its next step
  ts,          \* per worker, the timestamp it took
  cur,         \* per worker, what it last saw of lastWriteTs
  stats,       \* per worker, the messages it counted
  payloads, faults

flags   == <<g_stop, running>>
worker  == <<pc, ts, cur, stats>>
mainVars == <<main, joined, endTs>>
recorder == <<lastWriteTs, writeMutex, session, log>>
vars == <<timed, entered, now, flags, recorder, mainVars, worker, payloads, faults>>

Init ==
  /\ timed \in BOOLEAN /\ entered = FALSE /\ now = 1
  /\ g_stop = FALSE /\ running = TRUE /\ lastWriteTs = 0
  /\ writeMutex = "free" /\ session = "new" /\ log = <<>>
  /\ main = "open" /\ joined = 0 /\ endTs = 0
  /\ pc = [t \in Workers |-> "new"] /\ ts = [t \in Workers |-> 0]
  /\ cur = [t \in Workers |-> 0] /\ stats = [t \in Workers |-> 0]
  /\ payloads = 0 /\ faults = 0

Faulty == faults < MaxFaults /\ faults' = faults + 1
Taken(by, what, at) == Append(log, [by |-> by, what |-> what, ts |-> at])

-----------------------------------------------------------------------------
(***************************************************************************)
(* A worker.                                                               *)
(***************************************************************************)
Go(t, from, next) == pc[t] = from /\ pc' = [pc EXCEPT ![t] = next]
InWorker == UNCHANGED <<timed, entered, now, flags, session, mainVars>>
Quiet    == InWorker /\ UNCHANGED <<lastWriteTs, writeMutex, log, ts, cur, stats, payloads, faults>>

Started(kind) == CASE kind = "udp" -> "bind" [] kind = "tcp" -> "outer" [] OTHER -> "check"

KeepsReceiving == TRUE                     \* mutant: the loop does not look at the flags
Continues == running /\ ~g_stop

\* run_udp: the socket cannot be made or bound.
Bind(t)      == Go(t, "bind", "check") /\ Quiet
BindFails(t) == Go(t, "bind", "exit") /\ Quiet

\* run_tcp: the outer loop, which connects again and again.
Outer(t)        == Go(t, "outer", IF running /\ ~g_stop THEN "connect" ELSE "exit") /\ Quiet
Connect(t)      == Go(t, "connect", "check") /\ Quiet
ConnectFails(t) == Go(t, "connect", "outer") /\ Quiet

\* The loop that receives; run_can_peak_stub only sleeps in it.
AfterLoop(t) == IF Sources[t] = "tcp" THEN "outer" ELSE "exit"
Check(t) ==
  /\ Go(t, "check", IF ~Continues THEN AfterLoop(t)
                    ELSE IF Sources[t] = "can" THEN "check" ELSE "recv")
  /\ Quiet

Timeout(t)    == Go(t, "recv", "check") /\ Quiet
\* recv fails, or the peer has closed the connection.
Disconnect(t) == Go(t, "recv", AfterLoop(t)) /\ Quiet

\* write_payload takes its timestamp before the lock.
Receive(t) ==
  /\ payloads < MaxPayloads /\ payloads' = payloads + 1
  /\ Go(t, "recv", "lock")
  /\ ts' = [ts EXCEPT ![t] = now]
  /\ InWorker /\ UNCHANGED <<lastWriteTs, writeMutex, log, cur, stats, faults>>

Lock(t) ==
  /\ Go(t, "lock", "write")
  /\ writeMutex = "free" /\ writeMutex' = "worker"
  /\ InWorker /\ UNCHANGED <<lastWriteTs, log, ts, cur, stats, payloads, faults>>

Write(t) ==
  /\ Go(t, "write", "load")
  /\ writeMutex' = "free"
  /\ log' = Taken(t, "data", ts[t])
  /\ InWorker /\ UNCHANGED <<lastWriteTs, ts, cur, stats, payloads, faults>>

AfterFailedWriteCounts == "load"           \* mutant: the status is not looked at
AfterFailedWrite == "check"

WriteFails(t) ==
  /\ Go(t, "write", AfterFailedWrite)
  /\ Faulty
  /\ writeMutex' = "free"
  /\ InWorker /\ UNCHANGED <<lastWriteTs, log, ts, cur, stats, payloads>>

\* update_last_ts: a load, and compare_exchange_weak until it succeeds or the
\* value is not smaller; a failure although the value is as expected changes
\* nothing.
Load(t) ==
  /\ Go(t, "load", "cas")
  /\ cur' = [cur EXCEPT ![t] = lastWriteTs]
  /\ InWorker /\ UNCHANGED <<lastWriteTs, writeMutex, log, ts, stats, payloads, faults>>

ExpectedAnything(t) == TRUE                \* mutant: a store instead of the exchange
Expected(t) == lastWriteTs = cur[t]

Exchange(t) ==
  /\ ts[t] > cur[t] /\ Expected(t)
  /\ Go(t, "cas", "count")
  /\ lastWriteTs' = ts[t]
  /\ InWorker /\ UNCHANGED <<writeMutex, log, ts, cur, stats, payloads, faults>>

ExchangeFails(t) ==
  /\ ts[t] > cur[t] /\ lastWriteTs # cur[t]
  /\ pc[t] = "cas"
  /\ cur' = [cur EXCEPT ![t] = lastWriteTs]
  /\ InWorker /\ UNCHANGED <<pc, lastWriteTs, writeMutex, log, ts, stats, payloads, faults>>

LeaveLast(t) == ts[t] <= cur[t] /\ Go(t, "cas", "count") /\ Quiet

Count(t) ==
  /\ Go(t, "count", "check")
  /\ stats' = [stats EXCEPT ![t] = @ + 1]
  /\ InWorker /\ UNCHANGED <<lastWriteTs, writeMutex, log, ts, cur, payloads, faults>>

Worker(t) ==
  \/ Bind(t) \/ BindFails(t) \/ Outer(t) \/ Connect(t) \/ ConnectFails(t) \/ Check(t)
  \/ Timeout(t) \/ Disconnect(t) \/ Receive(t) \/ Lock(t) \/ Write(t) \/ WriteFails(t)
  \/ Load(t) \/ Exchange(t) \/ ExchangeFails(t) \/ LeaveLast(t) \/ Count(t)

-----------------------------------------------------------------------------
(***************************************************************************)
(* The main thread.                                                        *)
(***************************************************************************)
GoMain(from, next) == main = from /\ main' = next
InMain == UNCHANGED <<timed, entered, now, lastWriteTs, ts, cur, stats, payloads>>

\* Open the session and define a channel for each source.
OpenSession ==
  /\ GoMain("open", "annotate")
  /\ session' = "open"
  /\ InMain /\ UNCHANGED <<flags, writeMutex, log, joined, endTs, pc, faults>>

\* One of these calls fails; the session is closed if it was open.
OpenFails ==
  /\ GoMain("open", "failed") /\ Faulty
  /\ session' \in {"new", "closed"}
  /\ InMain /\ UNCHANGED <<flags, writeMutex, log, joined, endTs, pc>>

\* The annotations of the start: one, and one for each CAN source.
StartNotes ==
  [k \in 1..(1 + Cardinality({t \in Workers : Sources[t] = "can"})) |->
     [by |-> MainThread, what |-> IF k = 1 THEN "capture_started" ELSE "can_peak_stub", ts |-> now]]

\* Annotate's status is not looked at, here and at the end.
AnnotateStart ==
  /\ GoMain("annotate", "spawn")
  /\ \/ log' = log \o StartNotes /\ UNCHANGED faults
     \/ Faulty /\ \E k \in DOMAIN StartNotes : log' = log \o RemoveAt(StartNotes, k)
  /\ InMain /\ UNCHANGED <<flags, writeMutex, session, joined, endTs, pc>>

Spawned == {t \in Workers : pc[t] # "new"}

Spawn ==
  /\ main = "spawn"
  /\ \E t \in Workers \ Spawned :
       /\ t = Cardinality(Spawned) + 1
       /\ pc' = [pc EXCEPT ![t] = Started(Sources[t])]
  /\ InMain /\ UNCHANGED <<main, flags, writeMutex, session, log, joined, endTs, faults>>

AllSpawned ==
  /\ GoMain("spawn", "wait") /\ Spawned = Workers
  /\ InMain /\ UNCHANGED <<flags, writeMutex, session, log, joined, endTs, pc, faults>>

\* The duration is over or a signal came, which getline does not return for.
\* The two stores are relaxed: a worker may see either first.
Wait ==
  /\ timed \/ entered
  /\ GoMain("wait", "stop")
  /\ \/ g_stop' = TRUE /\ UNCHANGED running
     \/ running' = FALSE /\ UNCHANGED g_stop
  /\ InMain /\ UNCHANGED <<writeMutex, session, log, joined, endTs, pc, faults>>

Stop ==
  /\ GoMain("stop", "join")
  /\ g_stop' = TRUE /\ running' = FALSE
  /\ InMain /\ UNCHANGED <<writeMutex, session, log, joined, endTs, pc, faults>>

JoinableAtOnce(t) == TRUE                  \* mutant: a detach instead of the join
Joinable(t) == pc[t] = "exit"

Join ==
  /\ main = "join" /\ joined < Len(Sources) /\ Joinable(joined + 1)
  /\ joined' = joined + 1
  /\ InMain /\ UNCHANGED <<main, flags, writeMutex, session, log, endTs, pc, faults>>

TakeEnd ==
  /\ GoMain("join", "end") /\ joined = Len(Sources)
  /\ endTs' = Max({lastWriteTs, now})
  /\ InMain /\ UNCHANGED <<flags, writeMutex, session, log, joined, pc, faults>>

LockForEnd ==
  /\ GoMain("end", "annotateEnd")
  /\ writeMutex = "free" /\ writeMutex' = "main"
  /\ InMain /\ UNCHANGED <<flags, session, log, joined, endTs, pc, faults>>

AnnotateEnd ==
  /\ GoMain("annotateEnd", "close")
  /\ writeMutex' = "free"
  /\ \/ log' = Taken(MainThread, "recording_end", endTs) /\ UNCHANGED faults
     \/ Faulty /\ UNCHANGED log
  /\ InMain /\ UNCHANGED <<flags, session, joined, endTs, pc>>

\* Close is called without the mutex.
Close ==
  /\ \/ GoMain("close", "done") /\ UNCHANGED faults
     \/ GoMain("close", "failed") /\ Faulty
  /\ session' = "closed"
  /\ InMain /\ UNCHANGED <<flags, writeMutex, log, joined, endTs, pc>>

Main ==
  \/ OpenSession \/ OpenFails \/ AnnotateStart \/ Spawn \/ AllSpawned \/ Wait \/ Stop
  \/ Join \/ TakeEnd \/ LockForEnd \/ AnnotateEnd \/ Close

-----------------------------------------------------------------------------
Tick ==
  /\ now < MaxTime /\ now' = now + 1
  /\ UNCHANGED <<timed, entered, flags, recorder, mainVars, worker, payloads, faults>>

\* SIGINT or SIGTERM.
Signal ==
  /\ ~g_stop /\ g_stop' = TRUE
  /\ UNCHANGED <<timed, entered, now, running, recorder, mainVars, worker, payloads, faults>>

Enter ==
  /\ ~timed /\ ~entered /\ entered' = TRUE
  /\ UNCHANGED <<timed, now, flags, recorder, mainVars, worker, payloads, faults>>

Next == Main \/ (\E t \in Workers : Worker(t)) \/ Tick \/ Signal \/ Enter

Spec == Init /\ [][Next]_vars

\* The scheduler runs every thread that can go on.  Nobody has to press ENTER
\* or send a signal, and no payload has to arrive.
FairSpec == Spec /\ WF_vars(Main) /\ \A t \in Workers : WF_vars(Worker(t))

-----------------------------------------------------------------------------
WorkerSteps == {"new", "bind", "outer", "connect", "check", "recv", "lock", "write", "load", "cas",
                "count", "exit"}
MainSteps   == {"open", "annotate", "spawn", "wait", "stop", "join", "end", "annotateEnd", "close",
                "done", "failed"}
Entries     == [by: Workers \cup {MainThread},
                what: {"data", "capture_started", "can_peak_stub", "recording_end"},
                ts: 0..MaxTime]

\* No timestamp, taken or shared, is later than the clock, and no worker has
\* counted more payloads than have come.
TypeOK ==
  /\ timed \in BOOLEAN /\ entered \in BOOLEAN /\ g_stop \in BOOLEAN /\ running \in BOOLEAN
  /\ now \in 1..MaxTime /\ lastWriteTs \in 0..now /\ endTs \in 0..now
  /\ writeMutex \in {"free", "worker", "main"} /\ session \in {"new", "open", "closed"}
  /\ log \in Seq(Entries)
  /\ main \in MainSteps /\ joined \in 0..Len(Sources)
  /\ pc \in [Workers -> WorkerSteps]
  /\ ts \in [Workers -> 0..now] /\ cur \in [Workers -> 0..now]
  /\ payloads \in 0..MaxPayloads /\ stats \in [Workers -> 0..payloads]
  /\ faults \in 0..MaxFaults

\* The threads in a call of the recorder.
InRecorder ==
  {t \in Workers : pc[t] = "write"}
  \cup IF main \in {"annotateEnd", "close"} THEN {MainThread} ELSE {}

\* The recorder is not thread-safe, and Close is called without the mutex: at
\* most one thread is in the recorder, and only while the session is open.
OneInRecorder ==
  /\ Cardinality(InRecorder) <= 1
  /\ InRecorder # {} => session = "open"

\* The annotation recording_end is the last thing recorded and later than, or
\* as late as, everything before it.
EndIsLast ==
  \A k \in DOMAIN log : log[k].what = "recording_end" =>
    /\ k = Len(log)
    /\ \A j \in 1..k : log[j].ts <= log[k].ts

Recorded(t) == {k \in DOMAIN log : log[k].by = t}
Exited == \A t \in Workers : pc[t] \in {"new", "exit"}

\* With the workers gone, lastWriteTs is the latest timestamp any of them
\* recorded: no update of another thread is overwritten by an earlier one.
LastWriteIsLatest ==
  Exited => lastWriteTs = Max({0} \cup {log[k].ts : k \in UNION {Recorded(t) : t \in Workers}})

\* The program reports for each source the number of messages it recorded, a
\* worker's messages are in order, and calls that failed are not counted.
StatsMatch ==
  \A t \in Workers :
    /\ pc[t] = "exit" => stats[t] = Cardinality(Recorded(t))
    /\ \A j, k \in Recorded(t) : j < k => log[j].ts <= log[k].ts

\* A timed capture ends, and any other after ENTER, with the session closed if
\* it was ever open, whatever the sources and the network do meanwhile.
Finished == main \in {"done", "failed"} /\ session # "open"
CaptureEnds == (timed \/ entered) ~> Finished
==============================================================================
