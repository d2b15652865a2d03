---------------------------- MODULE SessionFiles ----------------------------
(***************************************************************************)
(* Recorded sessions as the code that reads them sees them: segment files  *)
(* as the recorder leaves them, closed or cut short by a crash, with their *)
(* records, seek points and messages.  An offset is the number of a record *)
(* in its file, which keeps the order of the byte offsets.  Sizes, names   *)
(* and payloads are left out.  A zero tail, a truncated last record and    *)
(* the FileFooter hold no record any reader gets past, so they are the end *)
(* of the record sequence.                                                 *)
(***************************************************************************)
EXTENDS SeekIndex, SequencesExt

FirstOffset == 1                       \* sizeof(format::FileHeader)
NoChannel   == 0                       \* INVALID_CHANNEL_ID; channels are 1, 2, ...

\* A record: its envelope, its messages, the chunk header's RecordCount (1 for a
\* message that is no chunk) and its state.  "crc": the payload fails its
\* checksum.  "packed": written without a checksum, and its payload does not
\* decompress.
Rec(op, ch, ts, msgs) ==
  [op |-> op, ch |-> ch, ts |-> ts, msgs |-> msgs, cnt |-> Len(msgs), state |-> "ok"]

Message(ch, ts, n) == [ch |-> ch, ts |-> ts, n |-> n]
DataOf(m)          == Rec("Data", m.ch, m.ts, <<m>>)
ChunkOf(msgs)      == Rec("Chunk", msgs[1].ch, msgs[1].ts, msgs)
AnnotationOf(ts)   == Rec("Annotation", NoChannel, ts, <<>>)
DefOf(ch)          == Rec("ChannelDef", ch, 0, <<>>)
StartRecord        == Rec("SessionStart", NoChannel, 0, <<>>)
IndexRecord        == Rec("Index", NoChannel, 0, <<>>)
EndRecord          == Rec("SessionEnd", NoChannel, 0, <<>>)

IsData(r) == r.op \in {"Data", "Chunk"}

\* What the recorder can have written, damaged or not: a chunk holds messages of
\* its channel and has the time of the first, its header may promise more of
\* them, and only a chunk is packed.
AnyMessage == [ch: Nat, ts: Nat, n: Nat]
RecordOps ==
  {"SessionStart", "ChannelDef", "Data", "Chunk", "Annotation", "Index", "SessionEnd", "Zeros"}
RecordShapes == [op: RecordOps, ch: Nat, ts: Nat, msgs: Seq(AnyMessage), cnt: Nat,
                 state: {"ok", "crc", "packed"}]
Records ==
  {r \in RecordShapes :
     /\ r.op = "Data" => Len(r.msgs) = 1 /\ r.cnt = 1
     /\ r.op = "Chunk" => r.msgs # <<>> /\ Len(r.msgs) <= r.cnt
     /\ IsData(r) => r.ts = r.msgs[1].ts
     /\ ~IsData(r) => r.msgs = <<>>
     /\ r.state = "packed" => r.op = "Chunk"
     /\ \A m \in ToSet(r.msgs) : m.ch = r.ch}

\* The points of the data records: MaybeAdd over the records in file order.
PointsOfRecords(recs) ==
  FoldLeftDomain(LAMBDA points, k :
                   IF IsData(recs[k]) THEN MaybeAdd(points, recs[k].ch, recs[k].ts, k) ELSE points,
                 <<>>, recs)

\* A segment file: its header is intact, its records, the points of its last
\* INDEX record, and the RecordCount of its footer, NoFooter without one.
NoFooter == 0
CutFile(chans, body) ==
  [header |-> TRUE, recs |-> <<StartRecord>> \o [k \in DOMAIN chans |-> DefOf(chans[k])] \o body,
   points |-> <<>>, footer |-> NoFooter]

ClosedFile(chans, body) ==
  LET cut == CutFile(chans, body)
  IN  [cut EXCEPT !.recs = @ \o <<IndexRecord, EndRecord>>, !.points = PointsOfRecords(cut.recs),
                  !.footer = Len(cut.recs) + 2]

\* A recorder that failed to write a file's header, or a file damaged there.
BadFile == [header |-> FALSE, recs |-> <<>>, points |-> <<>>, footer |-> NoFooter]

\* The footer counts no records that are not there, no point is past them, and
\* a channel is defined before its data, as Recorder's DefinedBeforeUse has it.
DefinedAt(recs, k) ==
  \E d \in 1..(k - 1) : recs[d].op = "ChannelDef" /\ recs[d].ch = recs[k].ch

SegmentFileShapes ==
  [header: BOOLEAN, recs: Seq(Records), points: Seq([ch: Nat, ts: Nat, off: Nat]), footer: Nat]
IsSegmentFile(f) ==
  /\ f \in SegmentFileShapes /\ f.footer <= Len(f.recs)
  /\ \A p \in DOMAIN f.points : f.points[p].off \in DOMAIN f.recs
  /\ \A k \in DOMAIN f.recs : IsData(f.recs[k]) => DefinedAt(f.recs, k)

\* The time range a scan of the records finds; 0 where there is no data.
DataTimes(recs) == {recs[k].ts : k \in {k \in DOMAIN recs : IsData(recs[k])}}
ScanStart(recs) == IF DataTimes(recs) = {} THEN 0 ELSE Min(DataTimes(recs))
ScanEnd(recs)   == IF DataTimes(recs) = {} THEN 0 ELSE Max(DataTimes(recs))

\* The messages of the readable records, in file order.
MessagesOf(recs) ==
  FlattenSeq([k \in DOMAIN recs |-> IF recs[k].state = "ok" THEN recs[k].msgs ELSE <<>>])
From(s, k) == SubSeq(s, k, Len(s))
=============================================================================
