---------------------------- MODULE RecorderProof ----------------------------
(***************************************************************************)
(* Proofs about the recorder, for every configuration, every client and    *)
(* every sequence of failing writes: its state, then the messages in the   *)
(* segment files and the buffers, and then the files, their list in the    *)
(* manifest, their indexes, time ranges, definitions and sizes.            *)
(***************************************************************************)
EXTENDS RecorderProperties, SequenceFacts

USE LimitsAssumption, InputsAssumption, WordAssumption, IntervalAssumption

(***************************************************************************)
(* The types of what the operators return.                                 *)
(***************************************************************************)
LEMMA RoundUpType ==
  ASSUME NEW b \in Nat
  PROVE  RoundUpToGrow(b) \in Nat
<1> DEFINE q == (b + GrowBytes - 1) \div GrowBytes
<1>1. GrowBytes \in Nat /\ GrowBytes > 0
  BY GrowBytesAssumption
<1>2. q \in Int /\ q >= 0
  BY <1>1
<1>3. q * GrowBytes \in Nat
  BY <1>1, <1>2
<1>4. QED
  BY <1>3 DEF RoundUpToGrow

\* Whatever EnsureAvailable returns, the MappedFile keeps its type.
LEMMA MappedTypes ==
  ASSUME NEW f \in MappedFiles, NEW n \in Nat
  PROVE  /\ GrowFailed(f) \in MappedFiles
         /\ Grow(f, n) \in MappedFiles
         /\ Ensured(f, n) \in MappedFiles
         /\ Advance(f, n) \in MappedFiles
<1>1. f.cursor + n \in Nat
  BY DEF MappedFiles
<1>2. GrowFailed(f) \in MappedFiles
  BY DEF GrowFailed, MappedFiles
<1>3. Grow(f, n) \in MappedFiles
  BY <1>1, RoundUpType DEF Grow, MappedFiles
<1>4. Ensured(f, n) \in MappedFiles
  BY <1>3 DEF Ensured
<1>5. Advance(f, n) \in MappedFiles
  BY <1>1 DEF Advance, MappedFiles
<1>6. QED
  BY <1>2, <1>3, <1>4, <1>5

LEMMA WriteBytesType ==
  ASSUME SegFile \in MappedFiles, NEW n \in Nat, WriteBytes(n)
  PROVE  SegFile' \in MappedFiles
<1>1. Ensured(SegFile, n) \in MappedFiles
  BY MappedTypes
<1>2. QED
  BY <1>1, MappedTypes DEF WriteBytes

LEMMA ConstantFiles == ClosedFile \in MappedFiles /\ OpenedFile \in MappedFiles
<1>1. GrowBytes \in Nat
  BY GrowBytesAssumption
<1>2. QED
  BY <1>1, RoundUpType DEF ClosedFile, OpenedFile, MappedFiles

\* A record at the cursor of the segment file.
LEMMA RecType ==
  ASSUME SegFile \in MappedFiles, NEW op \in RecordOps, NEW ch \in Nat, NEW ts \in Nat,
         NEW payload \in Nat, NEW msgs \in Seq(Messages)
  PROVE  /\ Rec(op, ch, ts, payload, msgs) \in Records
         /\ Rec(op, ch, ts, payload, msgs).size \in Nat
<1>1. SegFile.cursor \in Nat /\ EnvelopeSize + payload \in Nat \ {0}
  BY DEF MappedFiles, EnvelopeSize
<1>2. QED
  BY <1>1 DEF Rec, Records

\* Replacing the current file by another keeps the files well-typed.
LEMMA EditFile ==
  ASSUME NEW S, NEW s \in Seq(S), NEW k, NEW e, k \in DOMAIN s => e \in S
  PROVE  /\ [s EXCEPT ![k] = e] \in Seq(S)
         /\ Len([s EXCEPT ![k] = e]) = Len(s)
<1>1. s \in [1..Len(s) -> S] /\ Len(s) \in Nat
  OBVIOUS
<1>2. [s EXCEPT ![k] = e] \in [1..Len(s) -> S]
  BY <1>1
<1>3. QED
  BY <1>1, <1>2

\* Appending a record to the current file keeps the files well-typed.
LEMMA AppendRecordType ==
  ASSUME files \in Seq(SegmentFiles), NEW r \in Records
  PROVE  AppendRecord(r) \in Seq(SegmentFiles)
<1> DEFINE e == [files[Cur] EXCEPT !.recs = Append(@, r)]
<1>1. ASSUME Cur \in DOMAIN files PROVE e \in SegmentFiles
  <2>1. files[Cur] \in SegmentFiles
    BY <1>1
  <2>2. Append(files[Cur].recs, r) \in Seq(Records)
    BY <2>1 DEF SegmentFiles
  <2>3. QED
    BY <2>1, <2>2 DEF SegmentFiles
<1>2. AppendRecord(r) = [files EXCEPT ![Cur] = e]
  BY DEF AppendRecord
<1> HIDE DEF e
<1>3. QED
  BY <1>1, <1>2, EditFile

\* MaybeAdd gives the points it got, or those and one more.
LEMMA MaybeAddType ==
  ASSUME NEW points \in Seq(SeekPoints), NEW ch \in Nat, NEW ts \in Nat, NEW off \in Nat
  PROVE  MaybeAdd(points, ch, ts, off) \in Seq(SeekPoints)
<1>1. [ch |-> ch, ts |-> ts, off |-> off] \in SeekPoints
  BY DEF SeekPoints
<1>2. QED
  BY <1>1 DEF MaybeAdd

LEMMA NoteDataRangeType ==
  ASSUME NEW s \in SegmentStates, NEW a \in Nat, NEW b \in Nat
  PROVE  NoteDataRange(s, a, b) \in SegmentStates
BY DEF NoteDataRange, SegmentStates

LEMMA CountedType ==
  ASSUME seg \in SegmentStates
  PROVE  Counted \in SegmentStates
<1>1. seg.count + 1 \in Nat
  BY DEF SegmentStates
<1>2. QED
  BY <1>1 DEF Counted, SegmentStates

LEMMA FreshSegType ==
  ASSUME NEW k \in Nat
  PROVE  FreshSeg(k) \in SegmentStates
BY DEF FreshSeg, SegmentStates

LEMMA DataNotedType ==
  ASSUME seg \in SegmentStates, SegFile \in MappedFiles,
         NEW ch \in Nat, NEW a \in Nat, NEW b \in Nat
  PROVE  DataNoted(ch, a, b) \in SegmentStates
<1> DEFINE s == [Counted EXCEPT !.points = MaybeAdd(@, ch, a, SegFile.cursor)]
<1>1. SegFile.cursor \in Nat
  BY DEF MappedFiles
<1>2. Counted \in SegmentStates /\ Counted.points \in Seq(SeekPoints)
  BY CountedType DEF SegmentStates
<1>3. MaybeAdd(Counted.points, ch, a, SegFile.cursor) \in Seq(SeekPoints)
  BY <1>1, <1>2, MaybeAddType
<1>4. s \in SegmentStates
  BY <1>2, <1>3 DEF SegmentStates
<1>5. QED
  BY <1>4, NoteDataRangeType DEF DataNoted

LEMMA ChunkPayloadType ==
  ASSUME TypeOK, NEW c \in ChannelIds
  PROVE  ChunkPayload(c) \in Nat
<1> DEFINE n == accum[c].bytes * PackedPercent
<1>1. accum[c].bytes \in Nat /\ PackedPercent \in Nat
  BY DEF TypeOK, Accums
<1>2. n \in Nat
  BY <1>1
<1> HIDE DEF n
<1>3. n \div 100 \in Nat
  BY <1>2
<1>4. QED
  BY <1>3 DEF ChunkPayload, ChunkHeaderSize, n

LEMMA WriteRecordType ==
  ASSUME TypeOK, NEW r \in Records, WriteRecord(r)
  PROVE  SegFile' \in MappedFiles /\ files' \in Seq(SegmentFiles)
<1>1. SegFile \in MappedFiles /\ files \in Seq(SegmentFiles)
  BY DEF TypeOK
<1>2. r.size \in Nat
  BY DEF Records
<1>3. QED
  BY <1>1, <1>2, WriteBytesType, AppendRecordType DEF WriteRecord

\* An accumulator after a flush, and after a push.
LEMMA AccumTypes ==
  ASSUME TypeOK, NEW c \in ChannelIds, NEW m \in Messages
  PROVE  /\ Flushed(c) \in [ChannelIds -> Accums]
         /\ Buffered(c, m) \in [ChannelIds -> Accums]
<1>1. accum \in [ChannelIds -> Accums] /\ accum[c] \in Accums
  BY DEF TypeOK
<1>2. EmptyAccum \in Accums
  BY DEF EmptyAccum, Accums
<1>3. Flushed(c) \in [ChannelIds -> Accums]
  BY <1>1, <1>2 DEF Flushed
<1> DEFINE a == accum[c]
           b == [buf |-> Append(a.buf, m), bytes |-> PushedBytes(c, m), has |-> TRUE,
                 first |-> IF a.has THEN a.first ELSE m.ts, last |-> m.ts]
<1>4. m.ts \in Nat /\ m.len \in Nat
  BY DEF Messages
<1>5. Append(a.buf, m) \in Seq(Messages)
  BY <1>1 DEF Accums
<1>6. PushedBytes(c, m) \in Nat
  BY <1>1, <1>4 DEF PushedBytes, InnerHeaderSize, Accums
<1>7. (IF a.has THEN a.first ELSE m.ts) \in Nat
  BY <1>1, <1>4 DEF Accums
<1>8. b \in Accums
  BY <1>4, <1>5, <1>6, <1>7 DEF Accums
<1>9. Buffered(c, m) = [accum EXCEPT ![c] = b]
  BY DEF Buffered
<1> HIDE DEF b
<1>10. QED
  BY <1>1, <1>3, <1>8, <1>9

LEMMA ChunkRecordType ==
  ASSUME TypeOK, NEW c \in ChannelIds
  PROVE  ChunkRecord(c) \in Records
<1>1. SegFile \in MappedFiles /\ accum[c] \in Accums
  BY DEF TypeOK
<1>2. accum[c].first \in Nat /\ accum[c].buf \in Seq(Messages)
  BY <1>1 DEF Accums
<1>3. c \in Nat /\ "Chunk" \in RecordOps
  BY DEF ChannelIds, RecordOps
<1>4. QED
  BY <1>1, <1>2, <1>3, ChunkPayloadType, RecType DEF ChunkRecord

LEMMA AccFlushType ==
  ASSUME TypeOK, NEW c \in ChannelIds, AccFlush(c)
  PROVE  /\ SegFile' \in MappedFiles /\ files' \in Seq(SegmentFiles)
         /\ seg' \in SegmentStates /\ accum' \in [ChannelIds -> Accums]
<1>1. accum' \in [ChannelIds -> Accums]
  <2>1. [n |-> 0, ts |-> 0, len |-> 0] \in Messages
    BY DEF Messages
  <2>2. QED
    BY <2>1, AccumTypes DEF AccFlush
<1>2. CASE accum[c].has
  <2>1. WriteRecord(ChunkRecord(c)) /\ seg' = DataNoted(c, accum[c].first, accum[c].last)
    BY <1>2 DEF AccFlush
  <2>2. SegFile \in MappedFiles /\ seg \in SegmentStates /\ accum[c] \in Accums
    BY DEF TypeOK
  <2>3. accum[c].first \in Nat /\ accum[c].last \in Nat /\ c \in Nat
    BY <2>2 DEF Accums, ChannelIds
  <2>4. seg' \in SegmentStates
    BY <2>1, <2>2, <2>3, DataNotedType
  <2>5. QED
    BY <1>1, <2>1, <2>4, ChunkRecordType, WriteRecordType
<1>3. CASE ~accum[c].has
  BY <1>1, <1>3 DEF AccFlush, TypeOK
<1>4. QED
  BY <1>2, <1>3

(***************************************************************************)
(* Type correctness.                                                       *)
(***************************************************************************)
LEMMA InputTypes ==
  /\ \A cfg \in ChannelConfigs : cfg \in Channels
  /\ \A ts \in Timestamps \cup AnnotationTimes : ts \in Nat
  /\ \A len \in Lengths : len \in Nat
BY DEF Channels

LEMMA TypeInit == Init => TypeOK
<1> SUFFICES ASSUME Init PROVE TypeOK
  OBVIOUS
<1>1. FreshSeg(0) \in SegmentStates
  BY FreshSegType
<1>2. EmptyAccum \in Accums
  BY DEF EmptyAccum, Accums
<1>3. SegFile \in MappedFiles
  BY ConstantFiles DEF Init
<1>4. manifest \in [saved: BOOLEAN, chans: Seq(Channels), segs: Seq(SegmentInfos)]
  BY DEF Init, NoManifest
<1>5. call \in [op: Ops, ch: Nat, ts: Nat, len: Nat]
  BY DEF Init, NoCall, Ops, NoChannel
<1>6. pushed \in [ChannelIds -> Seq(Messages)] /\ accum \in [ChannelIds -> Accums]
  BY <1>2 DEF Init
<1>7. /\ chans \in Seq(Channels) /\ Len(chans) <= MaxChannels
      /\ Segments \in Seq(SegmentInfos) /\ files \in Seq(SegmentFiles)
  BY DEF Init
<1>8. single \in BOOLEAN /\ inner \in BOOLEAN
  BY DEF Init
<1>9. QED
  BY <1>1, <1>3, <1>4, <1>5, <1>6, <1>7, <1>8 DEF Init, TypeOK, PCs, Statuses

\* The calls of the client.
LEMMA TypeClient == TypeOK /\ Client => TypeOK'
<1> SUFFICES ASSUME TypeOK, Client PROVE TypeOK'
  OBVIOUS
<1> USE DEF control, memory, disk, Call, NoChannel
<1>1. CASE Open
  BY <1>1 DEF Open, TypeOK, PCs, Ops
<1>2. ASSUME NEW op \in Ops, NEW s \in Statuses, Refuse(op, s) PROVE TypeOK'
  BY <1>2 DEF Refuse, Return, TypeOK, PCs
<1>3. ASSUME NEW cfg \in ChannelConfigs, DefineChannel(cfg) PROVE TypeOK'
  <2>1. cfg \in Channels
    BY InputTypes
  <2>2. chans' \in Seq(Channels) /\ Len(chans') <= MaxChannels
    BY <1>3, <2>1 DEF DefineChannel, ChannelSlotsLeft, TypeOK
  <2>3. QED
    BY <1>3, <2>2 DEF DefineChannel, TypeOK, PCs, Ops
<1>4. ASSUME NEW cfg \in ChannelConfigs, DefineRefused(cfg) PROVE TypeOK'
  BY <1>2, <1>4 DEF DefineRefused, Ops, Statuses
<1>5. ASSUME NEW c \in ChannelIds, WriteUnknown(c) PROVE TypeOK'
  BY <1>2, <1>5 DEF WriteUnknown, Ops, Statuses
<1>6. ASSUME NEW c \in ChannelIds, NEW ts \in Timestamps, NEW len \in Lengths,
             WriteRaw(c, ts, len)
      PROVE  TypeOK'
  <2>1. c \in Nat /\ ts \in Nat /\ len \in Nat
    BY InputTypes DEF ChannelIds
  <2>2. pc' \in PCs
    BY <1>6 DEF WriteRaw, EnterClose, AfterClose, PCs
  <2>3. call' \in [op: Ops, ch: Nat, ts: Nat, len: Nat] /\ calls' \in Nat /\ i' = 1
    BY <1>6, <2>1 DEF WriteRaw, Counting, TypeOK, Ops
  <2>4. UNCHANGED <<st, inner, memory, disk, pushed, partial, faults>>
    BY <1>6 DEF WriteRaw
  <2>5. i' \in Nat \ {0}
    BY <2>3
  <2>6. QED
    BY <2>2, <2>3, <2>4, <2>5, Zenon DEF TypeOK
<1>7. ASSUME NEW c \in ChannelIds, NEW ts \in Timestamps, NEW len \in Lengths,
             WriteCompressed(c, ts, len)
      PROVE  TypeOK'
  <2> DEFINE m == [n |-> calls', ts |-> ts, len |-> len]
  <2>1. c \in Nat /\ ts \in Nat /\ len \in Nat /\ calls' \in Nat
    BY <1>7, InputTypes DEF ChannelIds, WriteCompressed, Counting, TypeOK
  <2>2. m \in Messages
    BY <2>1 DEF Messages
  <2>3. accum' \in [ChannelIds -> Accums]
    BY <1>7, <2>2, AccumTypes DEF WriteCompressed
  <2>4. pushed' \in [ChannelIds -> Seq(Messages)]
    <3>1. pushed' = [pushed EXCEPT ![c] = Append(@, m)]
      BY <1>7 DEF WriteCompressed
    <3> HIDE DEF m
    <3>2. Append(pushed[c], m) \in Seq(Messages)
      BY <2>2 DEF TypeOK
    <3>3. QED
      BY <3>1, <3>2 DEF TypeOK
  <2>5. written' \in [ChannelIds -> Nat]
    <3>1. written \in [ChannelIds -> Nat]
      BY DEF TypeOK
    <3>2. written' = written \/ written' = [written EXCEPT ![c] = @ + 1]
      BY <1>7 DEF WriteCompressed
    <3>3. QED
      BY <3>1, <3>2
  <2>6. pc' \in PCs /\ st' \in Statuses
    BY <1>7 DEF WriteCompressed, Return, TypeOK, PCs, Statuses
  <2>7. QED
    BY <1>7, <2>1, <2>3, <2>4, <2>5, <2>6 DEF WriteCompressed, TypeOK, Ops
<1>8. ASSUME NEW ts \in AnnotationTimes, NEW len \in Lengths, Annotate(ts, len)
      PROVE  TypeOK'
  <2>1. ts \in Nat /\ len \in Nat
    BY InputTypes
  <2>2. QED
    BY <1>8, <2>1 DEF Annotate, Counting, TypeOK, PCs, Ops
<1>9. CASE Flush
  BY <1>9 DEF Flush, Counting, TypeOK, PCs, Ops
<1>10. CASE RotateSegment
  <2>1. pc' \in PCs
    BY <1>10 DEF RotateSegment, EnterClose, AfterClose, PCs
  <2>2. QED
    BY <1>10, <2>1 DEF RotateSegment, Counting, TypeOK, Ops
<1>11. CASE RotateRefused
  BY <1>2, <1>11 DEF RotateRefused, Ops, Statuses
<1>12. CASE Close
  <2>1. pc' \in PCs
    BY <1>12 DEF Close, EnterClose, AfterClose, PCs
  <2>2. QED
    BY <1>12, <2>1 DEF Close, TypeOK, Ops, Statuses
<1>13. CASE Discard
  BY <1>13 DEF Discard, TypeOK, PCs, Ops
<1>14. QED
  BY <1>1, <1>3, <1>4, <1>5, <1>6, <1>7, <1>8, <1>9, <1>10, <1>11, <1>12, <1>13 DEF Client

\* Editing a field of the current file.
LEMMA EditFields ==
  ASSUME NEW s \in Seq(SegmentFiles), NEW k, NEW b \in BOOLEAN, NEW n \in Nat,
         NEW points \in Seq(SeekPoints), NEW foot \in Footers
  PROVE  /\ [s EXCEPT ![k].header = b] \in Seq(SegmentFiles)
         /\ [s EXCEPT ![k].tail = b] \in Seq(SegmentFiles)
         /\ [s EXCEPT ![k].indexOff = n] \in Seq(SegmentFiles)
         /\ [s EXCEPT ![k].endTotal = n] \in Seq(SegmentFiles)
         /\ [s EXCEPT ![k].points = points] \in Seq(SegmentFiles)
         /\ [s EXCEPT ![k].footer = foot] \in Seq(SegmentFiles)
<1>1. ASSUME k \in DOMAIN s
      PROVE  /\ [s[k] EXCEPT !.header = b] \in SegmentFiles
             /\ [s[k] EXCEPT !.tail = b] \in SegmentFiles
             /\ [s[k] EXCEPT !.indexOff = n] \in SegmentFiles
             /\ [s[k] EXCEPT !.endTotal = n] \in SegmentFiles
             /\ [s[k] EXCEPT !.points = points] \in SegmentFiles
             /\ [s[k] EXCEPT !.footer = foot] \in SegmentFiles
  <2>1. s[k] \in SegmentFiles
    BY <1>1
  <2>2. QED
    BY <2>1 DEF SegmentFiles
<1>2. QED
  BY <1>1, EditFile

\* What closing a mapped file can do to it.
LEMMA CutTailType ==
  ASSUME files \in Seq(SegmentFiles), faults \in Nat, CutTail
  PROVE  /\ files' \in Seq(SegmentFiles) /\ faults' \in Nat
         /\ \E left \in BOOLEAN :
               /\ files' = [files EXCEPT ![Cur].tail = left]
               /\ left => faults' > 0
<1>1. PICK left \in BOOLEAN : /\ files' = [files EXCEPT ![Cur].tail = left]
                              /\ faults' = IF left THEN faults + 1 ELSE faults
  BY DEF CutTail
<1> DEFINE e == [files[Cur] EXCEPT !.tail = left]
<1>2. ASSUME Cur \in DOMAIN files PROVE e \in SegmentFiles
  <2>1. files[Cur] \in SegmentFiles
    BY <1>2
  <2>2. QED
    BY <2>1 DEF SegmentFiles
<1>3. files' = [files EXCEPT ![Cur] = e]
  BY <1>1
<1> HIDE DEF e
<1>4. files' \in Seq(SegmentFiles)
  BY <1>2, <1>3, EditFile
<1>5. faults' \in Nat /\ (left => faults' > 0)
  BY <1>1
<1>6. QED
  BY <1>1, <1>4, <1>5

LEMMA CreateFileType ==
  ASSUME files \in Seq(SegmentFiles), NEW idx \in Nat, NEW b \in BOOLEAN
  PROVE  CreateFile(idx, b) \in Seq(SegmentFiles)
<1>1. NewSegmentFile(idx, b) \in SegmentFiles
  BY DEF NewSegmentFile, NoFooter, SegmentFiles, Footers
<1>2. QED
  BY <1>1, EditFile DEF CreateFile

LEMMA FailType ==
  ASSUME NEW s \in Statuses, Fail(s)
  PROVE  pc' \in PCs /\ st' \in Statuses
BY DEF Fail, PCs

LEMMA AfterCloseType == \A op \in Ops : AfterClose(op) \in PCs
BY DEF AfterClose, PCs

\* The records of a segment other than chunks.
LEMMA FixedRecordTypes ==
  ASSUME TypeOK
  PROVE  /\ StartRecord \in Records /\ EndRecord \in Records /\ IndexRecord \in Records
         /\ AnnotationRecord \in Records
         /\ call.ch \in Nat /\ DataRecord \in Records
         /\ \A c \in Nat : DefRecord(c) \in Records
<1>1. SegFile \in MappedFiles /\ NoChannel \in Nat /\ <<>> \in Seq(Messages)
  BY DEF TypeOK, NoChannel
<1>2. seg.last \in Nat /\ seg.points \in Seq(SeekPoints)
  BY DEF TypeOK, SegmentStates
<1>3. {"SessionStart", "SessionEnd", "Index", "Annotation", "Data", "ChannelDef"} \subseteq RecordOps
  BY DEF RecordOps
<1>4. call.ch \in Nat /\ call.ts \in Nat /\ call.len \in Nat
  BY DEF TypeOK
<1>5. CallMessage \in Messages
  BY <1>4 DEF CallMessage, Messages, TypeOK
<1>6. <<CallMessage>> \in Seq(Messages)
  BY <1>5
<1>7. IndexPayload(seg.points) \in Nat
  BY <1>2 DEF IndexPayload, IndexHeaderSize, IndexEntrySize
<1>8. LabelFields + call.len \in Nat
  BY <1>4 DEF LabelFields
<1>9. StartPayload \in Nat /\ EndPayloadSize \in Nat /\ DefPayload \in Nat
  BY DEF StartPayload, EndPayloadSize, DefPayload
<1>10. StartRecord \in Records
  BY <1>1, <1>3, <1>9, RecType DEF StartRecord
<1>11. EndRecord \in Records
  BY <1>1, <1>2, <1>3, <1>9, RecType DEF EndRecord
<1>12. IndexRecord \in Records
  BY <1>1, <1>2, <1>3, <1>7, RecType DEF IndexRecord
<1>13. AnnotationRecord \in Records
  BY <1>1, <1>3, <1>4, <1>6, <1>8, RecType DEF AnnotationRecord
<1>14. DataRecord \in Records
  BY <1>1, <1>3, <1>4, <1>6, RecType DEF DataRecord
<1>15. \A c \in Nat : DefRecord(c) \in Records
  BY <1>1, <1>3, <1>9, RecType DEF DefRecord
<1>16. QED
  BY <1>4, <1>10, <1>11, <1>12, <1>13, <1>14, <1>15

\* OpenSegment.
LEMMA TypeOpenSegment ==
  ASSUME TypeOK,
         OpenFile \/ OpenFileFails \/ WriteFileHeader \/ WriteSessionStart
           \/ ReemitChannelDef \/ OpenSegmentReturns
  PROVE  TypeOK'
<1> USE DEF control, memory, disk
<1>1. NextIdx \in Nat /\ FreshSeg(NextIdx) \in SegmentStates
  <2>1. NextIdx \in Nat
    BY DEF NextIdx, TypeOK, SegmentStates
  <2>2. QED
    BY <2>1, FreshSegType
<1>2. files \in Seq(SegmentFiles) /\ SegFile \in MappedFiles /\ seg \in SegmentStates
  BY DEF TypeOK
<1>3. CASE OpenFile
  <2>1. files' \in Seq(SegmentFiles) /\ SegFile' \in MappedFiles /\ seg' \in SegmentStates
    BY <1>1, <1>2, <1>3, ConstantFiles, CreateFileType DEF OpenFile
  <2>2. QED
    BY <1>3, <2>1 DEF OpenFile, TypeOK, PCs
<1>4. CASE OpenFileFails
  <2>1. SegFile' \in MappedFiles /\ seg' \in SegmentStates
    BY <1>1, <1>4, ConstantFiles DEF OpenFileFails
  <2>2. files' \in Seq(SegmentFiles)
    BY <1>1, <1>2, <1>4, CreateFileType DEF OpenFileFails
  <2>3. pc' \in PCs /\ st' \in Statuses
    BY <1>4, FailType DEF OpenFileFails, Statuses
  <2>4. faults' \in Nat
    BY <1>4 DEF OpenFileFails, TypeOK
  <2>5. /\ inner' = FALSE
        /\ UNCHANGED <<call, i, single, chans, accum, written, dropped, Segments, manifest,
                       pushed, partial, calls>>
    BY <1>4 DEF OpenFileFails
  <2>6. QED
    BY <2>1, <2>2, <2>3, <2>4, <2>5 DEF TypeOK
<1>5. CASE WriteFileHeader
  <2>1. files' \in Seq(SegmentFiles)
    <3>1. NoFooter \in Footers /\ <<>> \in Seq(SeekPoints)
      BY DEF NoFooter, Footers
    <3>2. QED
      BY <1>2, <1>5, <3>1, EditFields DEF WriteFileHeader
  <2>2. SegFile' \in MappedFiles
    BY <1>2, <1>5, WriteBytesType DEF WriteFileHeader, FileHeaderSize
  <2>3. QED
    BY <1>5, <2>1, <2>2 DEF WriteFileHeader, TypeOK, PCs
<1>6. CASE WriteSessionStart
  <2>1. files' \in Seq(SegmentFiles) /\ SegFile' \in MappedFiles
    BY <1>6, FixedRecordTypes, WriteRecordType DEF WriteSessionStart
  <2>2. seg' \in SegmentStates
    BY <1>2, <1>6, CountedType DEF WriteSessionStart
  <2>3. pc' \in PCs /\ st' \in Statuses
    BY <1>6 DEF WriteSessionStart, Return, PCs, Statuses, TypeOK
  <2>4. QED
    BY <1>6, <2>1, <2>2, <2>3 DEF WriteSessionStart, TypeOK
<1>7. CASE ReemitChannelDef
  <2>1. seg.count \in Nat
    BY <1>2 DEF SegmentStates
  <2>2. files' \in Seq(SegmentFiles) /\ SegFile' \in MappedFiles
    BY <1>7, <2>1, FixedRecordTypes, WriteRecordType DEF ReemitChannelDef
  <2>3. seg' \in SegmentStates
    BY <1>2, <1>7, CountedType DEF ReemitChannelDef
  <2>4. QED
    BY <1>7, <2>2, <2>3 DEF ReemitChannelDef, TypeOK
<1>8. CASE OpenSegmentReturns
  <2>1. pc' \in PCs
    BY <1>8 DEF OpenSegmentReturns, PCs
  <2>2. st' \in Statuses /\ inner' \in BOOLEAN
    BY <1>8 DEF OpenSegmentReturns, Statuses, TypeOK
  <2>3. QED
    BY <1>8, <2>1, <2>2 DEF OpenSegmentReturns, TypeOK
<1>9. QED
  BY <1>3, <1>4, <1>5, <1>6, <1>7, <1>8

\* FlushAllAccumulators.
LEMMA TypeFlushAll ==
  ASSUME TypeOK,
         FlushLoopReturns \/ SkipChannel \/ FlushChannel \/ RotateForChannel
  PROVE  TypeOK'
<1> USE DEF control, memory, disk
<1>1. CASE FlushLoopReturns
  <2>1. pc' \in PCs /\ st' \in Statuses
    BY <1>1 DEF FlushLoopReturns, PCs, Statuses, TypeOK
  <2>2. QED
    BY <1>1, <2>1 DEF FlushLoopReturns, TypeOK
<1>2. CASE SkipChannel
  <2>1. i' \in Nat \ {0}
    BY <1>2 DEF SkipChannel, TypeOK
  <2>2. QED
    BY <1>2, <2>1 DEF SkipChannel, TypeOK
<1>3. CASE FlushChannel
  <2>1. i \in ChannelIds /\ i' \in Nat \ {0}
    BY <1>3 DEF FlushChannel, AllFlushed, TypeOK, ChannelIds
  <2>2. /\ SegFile' \in MappedFiles /\ files' \in Seq(SegmentFiles)
        /\ seg' \in SegmentStates /\ accum' \in [ChannelIds -> Accums]
    BY <1>3, <2>1, AccFlushType DEF FlushChannel
  <2>3. QED
    BY <1>3, <2>1, <2>2 DEF FlushChannel, TypeOK
<1>4. CASE RotateForChannel
  <2>1. pc' \in PCs
    BY <1>4 DEF RotateForChannel, PCs
  <2>2. QED
    BY <1>4, <2>1 DEF RotateForChannel, TypeOK
<1>5. QED
  BY <1>1, <1>2, <1>3, <1>4

\* A Write works on a channel that was defined.
LEMMA WriteTarget ==
  ASSUME TypeOK, CallInv, pc \in {"data", "push", "reflush"}
  PROVE  call.ch \in ChannelIds /\ call.ch \in Nat
<1>1. call.op = "Write"
  BY DEF CallInv
<1>2. call.ch \in DOMAIN chans
  BY <1>1 DEF CallInv
<1>3. chans \in Seq(Channels) /\ Len(chans) <= MaxChannels
  BY DEF TypeOK
<1>4. QED
  BY <1>2, <1>3 DEF ChannelIds

\* The rest of DefineChannel, Write and Annotate.
LEMMA TypeRecords ==
  ASSUME TypeOK, CallInv,
         WriteChannelDef \/ WriteData \/ FlushWritten \/ RotateForWrite \/ WriteAnnotation
  PROVE  TypeOK'
<1> USE DEF control, memory, disk
<1>1. SegFile \in MappedFiles /\ seg \in SegmentStates /\ call.ts \in Nat
  BY DEF TypeOK
<1>2. pc \in {"data", "push", "reflush"} => call.ch \in ChannelIds /\ call.ch \in Nat
  BY WriteTarget
<1>3. ASSUME call.ch \in ChannelIds, written' = [written EXCEPT ![call.ch] = @ + 1]
      PROVE  written' \in [ChannelIds -> Nat]
  <2>1. written \in [ChannelIds -> Nat]
    BY DEF TypeOK
  <2>2. QED
    BY <1>3, <2>1
<1>4. ASSUME Return("Ok") PROVE pc' \in PCs /\ st' \in Statuses
  BY <1>4 DEF Return, PCs, Statuses
<1>5. CASE WriteChannelDef
  <2>1. files' \in Seq(SegmentFiles) /\ SegFile' \in MappedFiles
    BY <1>5, FixedRecordTypes, WriteRecordType DEF WriteChannelDef, TypeOK
  <2>2. seg' \in SegmentStates
    BY <1>1, <1>5, CountedType DEF WriteChannelDef
  <2>3. QED
    BY <1>4, <1>5, <2>1, <2>2 DEF WriteChannelDef, TypeOK
<1>6. CASE WriteData
  <2>1. files' \in Seq(SegmentFiles) /\ SegFile' \in MappedFiles
    BY <1>6, FixedRecordTypes, WriteRecordType DEF WriteData
  <2>2. seg' \in SegmentStates
    BY <1>1, <1>2, <1>6, DataNotedType DEF WriteData
  <2>3. written' \in [ChannelIds -> Nat]
    BY <1>2, <1>3, <1>6 DEF WriteData
  <2>4. pushed' \in [ChannelIds -> Seq(Messages)]
    <3>1. CallMessage \in Messages
      BY DEF CallMessage, Messages, TypeOK
    <3>2. pushed \in [ChannelIds -> Seq(Messages)]
      BY DEF TypeOK
    <3>3. pushed' = [pushed EXCEPT ![call.ch] = Append(@, CallMessage)]
      BY <1>6 DEF WriteData
    <3>4. QED
      BY <1>2, <1>6, <3>1, <3>2, <3>3 DEF WriteData
  <2>5. QED
    BY <1>4, <1>6, <2>1, <2>2, <2>3, <2>4 DEF WriteData, TypeOK
<1>7. CASE FlushWritten
  <2>1. call.ch \in ChannelIds
    BY <1>2, <1>7 DEF FlushWritten
  <2>2. /\ SegFile' \in MappedFiles /\ files' \in Seq(SegmentFiles)
        /\ seg' \in SegmentStates /\ accum' \in [ChannelIds -> Accums]
    BY <1>7, <2>1, AccFlushType DEF FlushWritten
  <2>3. written' \in [ChannelIds -> Nat]
    BY <1>3, <1>7, <2>1 DEF FlushWritten
  <2>4. QED
    BY <1>4, <1>7, <2>2, <2>3 DEF FlushWritten, TypeOK
<1>8. CASE RotateForWrite
  <2>1. pc' \in PCs /\ st' \in Statuses
    BY <1>8 DEF RotateForWrite, Return, PCs, Statuses, TypeOK
  <2>2. QED
    BY <1>8, <2>1 DEF RotateForWrite, TypeOK
<1>9. CASE WriteAnnotation
  <2>1. files' \in Seq(SegmentFiles) /\ SegFile' \in MappedFiles
    BY <1>9, FixedRecordTypes, WriteRecordType DEF WriteAnnotation
  <2>2. seg' \in SegmentStates
    BY <1>1, <1>9, CountedType DEF WriteAnnotation
  <2>3. QED
    BY <1>4, <1>9, <2>1, <2>2 DEF WriteAnnotation, TypeOK
<1>10. QED
  BY <1>5, <1>6, <1>7, <1>8, <1>9

\* The tail of CloseSegment.
LEMMA TypeCloseSegment ==
  ASSUME TypeOK, WriteIndex \/ WriteSessionEnd \/ WriteFooter \/ SealSegment
  PROVE  TypeOK'
<1> USE DEF control, memory, disk
<1>1. SegFile \in MappedFiles /\ seg \in SegmentStates /\ files \in Seq(SegmentFiles)
  BY DEF TypeOK
<1>2. /\ SegFile.cursor \in Nat /\ seg.count \in Nat /\ seg.points \in Seq(SeekPoints)
      /\ seg.idx \in Nat /\ seg.start \in Nat /\ seg.last \in Nat
  BY <1>1 DEF MappedFiles, SegmentStates
<1>3. NoFooter \in Footers
  BY DEF NoFooter, Footers
<1>4. CASE WriteIndex
  <2>1. IndexRecord \in Records /\ IndexRecord.size \in Nat
    BY FixedRecordTypes DEF Records
  <2> DEFINE f == AppendRecord(IndexRecord)
             g == [f EXCEPT ![Cur].points = seg.points]
  <2>2. f \in Seq(SegmentFiles)
    BY <1>1, <2>1, AppendRecordType
  <2>3. files' = [g EXCEPT ![Cur].indexOff = SegFile.cursor]
    BY <1>4 DEF WriteIndex
  <2> HIDE DEF f
  <2>4. g \in Seq(SegmentFiles)
    BY <1>2, <1>3, <2>2, EditFields
  <2> HIDE DEF g
  <2>5. files' \in Seq(SegmentFiles)
    BY <1>2, <1>3, <2>3, <2>4, EditFields
  <2>6. SegFile' \in MappedFiles /\ seg' \in SegmentStates
    BY <1>1, <1>4, <2>1, WriteBytesType, CountedType DEF WriteIndex
  <2>7. QED
    BY <1>4, <2>5, <2>6 DEF WriteIndex, TypeOK, PCs
<1>5. CASE WriteSessionEnd
  <2>1. EndRecord \in Records /\ EndRecord.size \in Nat
    BY FixedRecordTypes DEF Records
  <2>2. AppendRecord(EndRecord) \in Seq(SegmentFiles)
    BY <1>1, <2>1, AppendRecordType
  <2>3. files' = [AppendRecord(EndRecord) EXCEPT ![Cur].endTotal = seg.count]
    BY <1>5 DEF WriteSessionEnd
  <2>4. files' \in Seq(SegmentFiles)
    BY <1>2, <1>3, <2>2, <2>3, EditFields
  <2>5. SegFile' \in MappedFiles /\ seg' \in SegmentStates
    BY <1>1, <1>5, <2>1, WriteBytesType, CountedType DEF WriteSessionEnd
  <2>6. QED
    BY <1>5, <2>4, <2>5 DEF WriteSessionEnd, TypeOK, PCs
<1>6. CASE WriteFooter
  <2>1. SegFile' \in MappedFiles
    BY <1>1, <1>6, WriteBytesType DEF WriteFooter, FileFooterSize
  <2>2. files' \in Seq(SegmentFiles)
    <3> DEFINE e == [files[Cur] EXCEPT !.footer = FooterNow]
    <3>1. files' = [files EXCEPT ![Cur] = e]
      BY <1>6 DEF WriteFooter
    <3>2. ASSUME Cur \in DOMAIN files PROVE e \in SegmentFiles
      <4>1. files[Cur] \in SegmentFiles
        BY <1>1, <3>2
      <4>2. FooterNow \in Footers
        BY <1>2, <4>1 DEF FooterNow, Footers, SegmentFiles
      <4>3. QED
        BY <4>1, <4>2 DEF SegmentFiles
    <3> HIDE DEF e
    <3>3. QED
      BY <1>1, <3>1, <3>2, EditFile
  <2>3. QED
    BY <1>6, <2>1, <2>2 DEF WriteFooter, TypeOK, PCs
<1>7. CASE SealSegment
  <2>1. SegFile' \in MappedFiles
    BY <1>7, ConstantFiles DEF SealSegment
  <2>2. files' \in Seq(SegmentFiles) /\ faults' \in Nat
    BY <1>1, <1>7, CutTailType DEF SealSegment, TypeOK
  <2>3. SegmentInfo \in SegmentInfos
    BY <1>2 DEF SegmentInfo, SegmentInfos
  <2>4. Segments' \in Seq(SegmentInfos)
    BY <1>7, <2>3 DEF SealSegment, TypeOK
  <2>5. pc' \in PCs
    BY <1>7, AfterCloseType DEF SealSegment, TypeOK
  <2>6. QED
    BY <1>7, <2>1, <2>2, <2>4, <2>5 DEF SealSegment, TypeOK
<1>8. QED
  BY <1>4, <1>5, <1>6, <1>7

\* The manifest, the end of the session and what can go wrong in a write.
LEMMA TypeEnd ==
  ASSUME TypeOK,
         WriteManifest \/ WriteManifestFails \/ Destroy \/ WriteFails \/ MemoryFault
  PROVE  TypeOK'
<1> USE DEF control, memory, disk
<1>1. \A ok \in BOOLEAN : AfterManifest(ok) \in PCs
  BY DEF AfterManifest, PCs
<1>2. CASE WriteManifest
  <2>1. manifest' \in [saved: BOOLEAN, chans: Seq(Channels), segs: Seq(SegmentInfos)]
    BY <1>2 DEF WriteManifest, ManifestNow, TypeOK
  <2>2. pc' \in PCs
    BY <1>1, <1>2 DEF WriteManifest
  <2>3. QED
    BY <1>2, <2>1, <2>2 DEF WriteManifest, TypeOK
<1>3. CASE WriteManifestFails
  <2>1. pc' \in PCs
    BY <1>1, <1>3 DEF WriteManifestFails
  <2>2. st' \in Statuses
    BY <1>3 DEF WriteManifestFails, TypeOK, Statuses
  <2>3. faults' \in Nat
    BY <1>3 DEF WriteManifestFails, TypeOK
  <2>4. UNCHANGED <<call, inner, i, memory, disk, pushed, partial, calls>>
    BY <1>3 DEF WriteManifestFails
  <2>5. QED
    BY <2>1, <2>2, <2>3, <2>4 DEF TypeOK
<1>4. CASE Destroy
  <2>1. SegFile' \in MappedFiles
    BY <1>4, ConstantFiles DEF Destroy
  <2>2. accum' \in [ChannelIds -> Accums]
    <3>1. EmptyAccum \in Accums
      BY DEF EmptyAccum, Accums
    <3>2. QED
      BY <1>4, <3>1 DEF Destroy
  <2>3. files' \in Seq(SegmentFiles) /\ faults' \in Nat
    BY <1>4, CutTailType DEF Destroy, TypeOK
  <2>4. QED
    BY <1>4, <2>1, <2>2, <2>3 DEF Destroy, TypeOK, PCs
<1>5. CASE WriteFails
  <2>1. SegFile' \in MappedFiles
    BY <1>5, MappedTypes DEF WriteFails, TypeOK
  <2>2. chans' \in Seq(Channels) /\ Len(chans') <= MaxChannels
    <3>1. chans \in Seq(Channels) /\ Len(chans) <= MaxChannels
      BY DEF TypeOK
    <3>2. chans' = chans \/ chans' = SubSeq(chans, 1, Len(chans) - 1)
      BY <1>5 DEF WriteFails
    <3>3. QED
      BY <3>1, <3>2
  <2>3. dropped' \in [ChannelIds -> Nat]
    <3>1. dropped \in [ChannelIds -> Nat]
      BY DEF TypeOK
    <3>2. dropped' = dropped \/ dropped' = [dropped EXCEPT ![call.ch] = @ + 1]
      BY <1>5 DEF WriteFails
    <3>3. QED
      BY <3>1, <3>2
  <2>4. pc' \in PCs /\ st' \in Statuses
    BY <1>5, FailType DEF WriteFails, Statuses
  <2>5. faults' \in Nat /\ partial' \subseteq Nat
    <3>1. partial' = partial \/ partial' = partial \cup {Cur}
      BY <1>5 DEF WriteFails
    <3>2. Cur \in Nat
      BY DEF TypeOK, Cur
    <3>3. QED
      BY <1>5, <3>1, <3>2 DEF WriteFails, TypeOK
  <2>6. /\ inner' = FALSE
        /\ UNCHANGED <<call, i, single, seg, accum, written, Segments, disk, pushed, calls>>
    BY <1>5 DEF WriteFails
  <2>7. QED
    BY <2>1, <2>2, <2>3, <2>4, <2>5, <2>6 DEF TypeOK
<1>6. CASE MemoryFault
  BY <1>6 DEF MemoryFault, TypeOK, PCs
<1>7. QED
  BY <1>2, <1>3, <1>4, <1>5, <1>6

LEMMA TypeNext == TypeOK /\ CallInv /\ [Next]_vars => TypeOK'
<1> SUFFICES ASSUME TypeOK, CallInv, [Next]_vars PROVE TypeOK'
  OBVIOUS
<1>1. CASE Client
  BY <1>1, TypeClient
<1>2. CASE Step
  BY <1>2, TypeOpenSegment, TypeFlushAll, TypeRecords, TypeCloseSegment, TypeEnd DEF Step
<1>3. CASE UNCHANGED vars
  BY <1>3 DEF vars, control, memory, disk, TypeOK
<1>4. QED
  BY <1>1, <1>2, <1>3 DEF Next

(***************************************************************************)
(* Which calls can be at which step.                                       *)
(***************************************************************************)
LEMMA CallInit == Init => CallInv
BY DEF Init, CallInv, NoCall

LEMMA CallClient == TypeOK /\ CallInv /\ Client => CallInv'
<1> SUFFICES ASSUME TypeOK, CallInv, Client PROVE CallInv'
  OBVIOUS
<1> USE DEF control, memory, disk, Call, CallInv, Flushers, EnterClose, AfterClose
<1>1. CASE Open
  BY <1>1 DEF Open
<1>2. ASSUME NEW op, NEW s, Refuse(op, s) PROVE CallInv'
  BY <1>2 DEF Refuse, Return
<1>3. ASSUME NEW cfg \in ChannelConfigs, DefineChannel(cfg) PROVE CallInv'
  BY <1>3 DEF DefineChannel
<1>4. ASSUME NEW cfg \in ChannelConfigs, DefineRefused(cfg) PROVE CallInv'
  BY <1>2, <1>4 DEF DefineRefused
<1>5. ASSUME NEW c \in ChannelIds, WriteUnknown(c) PROVE CallInv'
  BY <1>2, <1>5 DEF WriteUnknown
<1>6. ASSUME NEW c \in ChannelIds, NEW ts \in Timestamps, NEW len \in Lengths,
             WriteRaw(c, ts, len)
      PROVE  CallInv'
  BY <1>6 DEF WriteRaw, Counting
<1>7. ASSUME NEW c \in ChannelIds, NEW ts \in Timestamps, NEW len \in Lengths,
             WriteCompressed(c, ts, len)
      PROVE  CallInv'
  BY <1>7 DEF WriteCompressed, Return, Counting
<1>8. ASSUME NEW ts \in AnnotationTimes, NEW len \in Lengths, Annotate(ts, len)
      PROVE  CallInv'
  BY <1>8 DEF Annotate
<1>9. CASE Flush
  BY <1>9 DEF Flush
<1>10. CASE RotateSegment
  BY <1>10 DEF RotateSegment
<1>11. CASE RotateRefused
  BY <1>2, <1>11 DEF RotateRefused
<1>12. CASE Close
  BY <1>12 DEF Close
<1>13. CASE Discard
  BY <1>13 DEF Discard
<1>14. QED
  BY <1>1, <1>3, <1>4, <1>5, <1>6, <1>7, <1>8, <1>9, <1>10, <1>11, <1>12, <1>13 DEF Client

LEMMA CallStep == TypeOK /\ CallInv /\ Step => CallInv'
<1> SUFFICES ASSUME TypeOK, CallInv, Step PROVE CallInv'
  OBVIOUS
<1> USE DEF control, memory, disk, CallInv, Flushers, Return, Fail, AfterClose, AfterManifest
<1>1. CASE OpenFile
  BY <1>1 DEF OpenFile
<1>2. CASE OpenFileFails
  BY <1>2 DEF OpenFileFails
<1>3. CASE WriteFileHeader
  BY <1>3 DEF WriteFileHeader
<1>4. CASE WriteSessionStart
  BY <1>4 DEF WriteSessionStart
<1>5. CASE ReemitChannelDef
  BY <1>5 DEF ReemitChannelDef
<1>6. CASE OpenSegmentReturns
  BY <1>6 DEF OpenSegmentReturns
<1>7. CASE FlushLoopReturns
  BY <1>7 DEF FlushLoopReturns
<1>8. CASE SkipChannel
  BY <1>8 DEF SkipChannel
<1>9. CASE FlushChannel
  BY <1>9 DEF FlushChannel
<1>10. CASE RotateForChannel
  BY <1>10 DEF RotateForChannel
<1>11. CASE WriteChannelDef
  BY <1>11 DEF WriteChannelDef
<1>12. CASE WriteData
  BY <1>12 DEF WriteData
<1>13. CASE FlushWritten
  BY <1>13 DEF FlushWritten
<1>14. CASE RotateForWrite
  BY <1>14 DEF RotateForWrite
<1>15. CASE WriteAnnotation
  BY <1>15 DEF WriteAnnotation
<1>16. CASE WriteIndex
  BY <1>16 DEF WriteIndex
<1>17. CASE WriteSessionEnd
  BY <1>17 DEF WriteSessionEnd
<1>18. CASE WriteFooter
  BY <1>18 DEF WriteFooter
<1>19. CASE SealSegment
  BY <1>19 DEF SealSegment
<1>20. CASE WriteManifest
  BY <1>20 DEF WriteManifest
<1>21. CASE WriteManifestFails
  BY <1>21 DEF WriteManifestFails
<1>22. CASE Destroy
  BY <1>22 DEF Destroy
<1>23. CASE WriteFails
  BY <1>23 DEF WriteFails
<1>24. CASE MemoryFault
  BY <1>24 DEF MemoryFault, Writing
<1>25. QED
  BY <1>1, <1>2, <1>3, <1>4, <1>5, <1>6, <1>7, <1>8, <1>9, <1>10, <1>11, <1>12, <1>13,
     <1>14, <1>15, <1>16, <1>17, <1>18, <1>19, <1>20, <1>21, <1>22, <1>23, <1>24 DEF Step

(***************************************************************************)
(* Results.                                                                *)
(***************************************************************************)
LEMMA CallAndType == Spec => [](TypeOK /\ CallInv)
<1>1. Init => TypeOK /\ CallInv
  BY TypeInit, CallInit
<1>2. TypeOK /\ CallInv /\ [Next]_vars => (TypeOK /\ CallInv)'
  <2>1. TypeOK /\ CallInv /\ UNCHANGED vars => CallInv'
    BY DEF vars, control, memory, CallInv, Flushers
  <2>2. QED
    BY <2>1, TypeNext, CallClient, CallStep DEF Next
<1>3. QED
  BY <1>1, <1>2, PTL DEF Spec

\* Whatever the client calls and whatever fails, every variable of the writer
\* keeps its type: no call is left half-way at a step of another call, and no
\* flush works on a channel that was not defined.
THEOREM TypesAlwaysCorrect == Spec => []TypeOK
<1>1. QED
  BY CallAndType, PTL

\* Write and the flush callback keep AccumHasData and the time range of an
\* accumulator in step with its buffer, for every chunk size, rotation limit and
\* sequence of failing writes.
THEOREM MarksAlwaysMatch == Spec => []MarksMatchBuffer
<1> DEFINE Matches(a) == /\ a.has <=> a.buf # <<>>
                         /\ a.has => a.first = Head(a.buf).ts /\ a.last = Last(a.buf).ts
<1>1. Init => MarksMatchBuffer
  BY DEF Init, MarksMatchBuffer, EmptyAccum
<1>2. Matches(EmptyAccum)
  BY DEF EmptyAccum
<1>3. ASSUME TypeOK, MarksMatchBuffer, NEW c \in ChannelIds, accum' = Flushed(c)
      PROVE  MarksMatchBuffer'
  <2>1. accum' = [accum EXCEPT ![c] = EmptyAccum]
    BY <1>3 DEF Flushed
  <2>2. \A d \in ChannelIds : accum'[d] = accum[d] \/ accum'[d] = EmptyAccum
    BY <2>1 DEF TypeOK
  <2>3. QED
    BY <1>2, <1>3, <2>2 DEF MarksMatchBuffer
<1>4. ASSUME TypeOK, MarksMatchBuffer, NEW c \in ChannelIds, NEW m \in Messages,
             accum' = Buffered(c, m)
      PROVE  MarksMatchBuffer'
  <2> DEFINE b == accum[c].buf
  <2>1. accum \in [ChannelIds -> Accums] /\ b \in Seq(Messages)
    <3>1. accum \in [ChannelIds -> Accums]
      BY <1>4 DEF TypeOK
    <3>2. QED
      BY <3>1 DEF Accums
  <2>2. Append(b, m) # <<>> /\ Last(Append(b, m)) = m
    BY <2>1 DEF Last
  <2>3. b # <<>> => Head(Append(b, m)) = Head(b)
    BY <2>1
  <2>4. b = <<>> => Head(Append(b, m)) = m
    BY <2>1
  <2>5. Matches(accum[c])
    BY <1>4 DEF MarksMatchBuffer
  <2>6. /\ accum'[c].buf = Append(b, m) /\ accum'[c].has = TRUE
        /\ accum'[c].first = IF accum[c].has THEN accum[c].first ELSE m.ts
        /\ accum'[c].last = m.ts
    BY <1>4, <2>1 DEF Buffered
  <2>7. Matches(accum'[c])
    BY <2>2, <2>3, <2>4, <2>5, <2>6
  <2>8. \A d \in ChannelIds \ {c} : accum'[d] = accum[d]
    BY <1>4, <2>1 DEF Buffered
  <2>9. QED
    BY <1>4, <2>7, <2>8 DEF MarksMatchBuffer
<1>5. ASSUME TypeOK, CallInv, MarksMatchBuffer, [Next]_vars
      PROVE  MarksMatchBuffer'
  <2>1. ASSUME UNCHANGED accum PROVE MarksMatchBuffer'
    BY <1>5, <2>1 DEF MarksMatchBuffer
  <2>2. ASSUME NEW c \in ChannelIds, NEW ts \in Timestamps, NEW len \in Lengths,
               WriteCompressed(c, ts, len)
        PROVE  MarksMatchBuffer'
    <3>1. [n |-> calls', ts |-> ts, len |-> len] \in Messages
      BY <1>5, <2>2, InputTypes DEF WriteCompressed, Counting, Messages, TypeOK
    <3>2. QED
      BY <1>4, <1>5, <2>2, <3>1 DEF WriteCompressed
  <2>3. CASE FlushChannel
    <3>1. i \in ChannelIds
      BY <1>5, <2>3 DEF FlushChannel, AllFlushed, TypeOK, ChannelIds
    <3>2. QED
      BY <1>3, <1>5, <2>3, <3>1 DEF FlushChannel, AccFlush
  <2>4. CASE FlushWritten
    <3>1. call.ch \in ChannelIds
      BY <1>5, <2>4, WriteTarget DEF FlushWritten
    <3>2. QED
      BY <1>3, <1>5, <2>4, <3>1 DEF FlushWritten, AccFlush
  <2>5. CASE Destroy
    BY <1>2, <2>5 DEF Destroy, MarksMatchBuffer
  <2>6. ASSUME Client,
               ~ \E c \in ChannelIds, ts \in Timestamps, len \in Lengths :
                    WriteCompressed(c, ts, len)
        PROVE  UNCHANGED accum
    BY <2>6 DEF Client, Open, DefineChannel, DefineRefused, WriteUnknown, WriteRaw, Annotate,
                Flush, RotateSegment, RotateRefused, Close, Discard, Refuse, memory
  <2>7. ASSUME Step, ~FlushChannel, ~FlushWritten, ~Destroy PROVE UNCHANGED accum
    BY <2>7 DEF Step, OpenFile, OpenFileFails, WriteFileHeader, WriteSessionStart,
                ReemitChannelDef, OpenSegmentReturns, FlushLoopReturns, SkipChannel,
                RotateForChannel, WriteChannelDef, WriteData, RotateForWrite, WriteAnnotation,
                WriteIndex, WriteSessionEnd, WriteFooter, SealSegment, WriteManifest,
                WriteManifestFails, WriteFails, MemoryFault, memory
  <2>8. UNCHANGED vars => UNCHANGED accum
    BY DEF vars, memory
  <2>9. QED
    BY <1>5, <2>1, <2>2, <2>3, <2>4, <2>5, <2>6, <2>7, <2>8 DEF Next
<1>6. QED
  BY <1>1, <1>5, CallAndType, PTL DEF Spec

(***************************************************************************)
(* Segment files.                                                          *)
(***************************************************************************)
LEMMA PrefixFacts ==
  ASSUME NEW S, NEW s \in Seq(S), NEW r \in S
  PROVE  IsPrefix(s, s) /\ IsPrefix(s, Append(s, r)) /\ Len(Append(s, r)) = Len(s) + 1
BY DEF IsPrefix

LEMMA SamePrefix ==
  ASSUME NEW fs \in Seq(SegmentFiles), NEW k \in DOMAIN fs
  PROVE  IsPrefix(fs[k].recs, fs[k].recs)
<1>1. fs[k] \in SegmentFiles
  OBVIOUS
<1>2. fs[k].recs \in Seq(Records)
  BY <1>1 DEF SegmentFiles
<1>3. QED
  BY <1>2 DEF IsPrefix

\* Bytes are only ever written to a file that is open, which it stays.
LEMMA WriteBytesOpen ==
  ASSUME TypeOK, FileInv, NEW n \in Nat, n > 0, WriteBytes(n)
  PROVE  SegFile.open /\ SegFile'.open
<1>1. SegFile \in MappedFiles
  BY DEF TypeOK
<1>2. SegFile.open
  <2>1. SUFFICES ASSUME ~SegFile.open PROVE FALSE
    OBVIOUS
  <2>2. SegFile.reserved = 0 /\ SegFile.cursor \in Nat
    BY <1>1, <2>1 DEF FileInv, MappedFiles
  <2>3. ~Fits(SegFile, n)
    BY <2>2 DEF Fits, Available
  <2>4. QED
    BY <2>1, <2>3 DEF WriteBytes, CanEnsure
<1>3. Ensured(SegFile, n).open
  BY <1>1, <1>2 DEF Ensured, Grow, MappedFiles
<1>4. Ensured(SegFile, n) \in MappedFiles
  BY <1>1, MappedTypes
<1>5. SegFile'.open
  BY <1>3, <1>4 DEF WriteBytes, Advance, MappedFiles
<1>6. QED
  BY <1>2, <1>5

\* The current file, when one is open.
LEMMA CurrentFile ==
  ASSUME TypeOK, FileInv, SegFile.open
  PROVE  /\ Cur \in DOMAIN files /\ files[Cur] \in SegmentFiles
         /\ files[Cur].recs \in Seq(Records)
<1>1. files \in Seq(SegmentFiles) /\ files # <<>>
  BY DEF TypeOK, FileInv
<1>2. Cur \in DOMAIN files
  BY <1>1 DEF Cur
<1>3. files[Cur] \in SegmentFiles
  BY <1>1, <1>2
<1>4. QED
  BY <1>2, <1>3 DEF SegmentFiles

\* A step that changes the current file, and keeps it open.
LEMMA CurrentFileStep ==
  ASSUME Inv, SegFile.open, SegFile'.open, pc # "seal",
         NEW e, files' = [files EXCEPT ![Cur] = e],
         e.idx = files[Cur].idx, e.tail,
         IsPrefix(files[Cur].recs, e.recs), seg'.count = Len(e.recs),
         HasFooter(e) <=> pc' = "seal",
         HasFooter(e) => e.footer.count = Len(e.recs),
         seg'.idx = seg.idx, pc' \notin {"new", "open"}
  PROVE  FileInv' /\ CountsMatchRecords' /\ FilesGrow
<1>1. files \in Seq(SegmentFiles) /\ Cur \in DOMAIN files /\ Cur = Len(files)
  BY CurrentFile DEF Inv, TypeOK, Cur
<1>2. /\ DOMAIN files' = DOMAIN files /\ Len(files') = Len(files)
      /\ files'[Cur] = e /\ \A k \in DOMAIN files \ {Cur} : files'[k] = files[k]
  <2> HIDE DEF Cur
  <2>1. QED
    BY <1>1
<1>3. Cur' = Cur /\ files' # <<>>
  BY <1>1, <1>2 DEF Cur
<1>4. FileInv'
  <2>1. \A k \in DOMAIN files' : files'[k].idx <= seg'.idx
    BY <1>2 DEF Inv, FileInv
  <2>2. files'[Cur'] = e
    BY <1>2, <1>3
  <2>3. QED
    BY <1>3, <2>1, <2>2 DEF FileInv, HasFooter
<1>5. CountsMatchRecords'
  <2>1. \A k \in DOMAIN files' : HasFooter(files'[k])
           => files'[k].footer.count = Len(files'[k].recs)
    BY <1>2 DEF Inv, CountsMatchRecords
  <2>2. seg'.count = Len(files'[Cur'].recs)
    BY <1>2, <1>3
  <2>3. QED
    BY <2>1, <2>2 DEF CountsMatchRecords, HasFooter
<1>6. FilesGrow
  <2>1. \A k \in DOMAIN files : IsPrefix(files[k].recs, files[k].recs)
    BY <1>1, SamePrefix
  <2>2. QED
    BY <1>2, <2>1 DEF FilesGrow
<1>7. QED
  BY <1>4, <1>5, <1>6

\* A step that leaves the files alone, and the segment file open or closed.
LEMMA QuietStep ==
  ASSUME Inv, UNCHANGED <<files, seg>>,
         SegFile'.open = SegFile.open, SegFile'.reserved = SegFile.reserved,
         pc # "seal", pc' \notin {"new", "seal"},
         pc' = "open" => call'.op \notin {"None", "Open"} \/ files = <<>>
  PROVE  FileInv' /\ CountsMatchRecords' /\ FilesGrow
<1>1. FileInv'
  BY DEF Inv, FileInv, Cur, HasFooter
<1>2. CountsMatchRecords'
  BY DEF Inv, CountsMatchRecords, Cur, HasFooter
<1>3. FilesGrow
  BY SamePrefix DEF Inv, TypeOK, FilesGrow
<1>4. QED
  BY <1>1, <1>2, <1>3

\* A step that appends a record and counts it.
LEMMA AppendStep ==
  ASSUME Inv, NEW r \in Records, WriteRecord(r),
         seg'.count = seg.count + 1, seg'.idx = seg.idx,
         pc # "seal", pc' \notin {"new", "open", "seal"}
  PROVE  FileInv' /\ CountsMatchRecords' /\ FilesGrow
<1> DEFINE e == [files[Cur] EXCEPT !.recs = Append(@, r)]
<1>1. SegFile.open /\ SegFile'.open
  BY WriteBytesOpen DEF Inv, WriteRecord, Records
<1>2. files[Cur] \in SegmentFiles /\ files[Cur].recs \in Seq(Records)
  BY <1>1, CurrentFile DEF Inv
<1>3. files' = [files EXCEPT ![Cur] = e]
  BY DEF WriteRecord, AppendRecord
<1>4. e.recs = Append(files[Cur].recs, r)
  BY <1>2 DEF SegmentFiles
<1>5. e.idx = files[Cur].idx /\ e.tail = files[Cur].tail /\ e.footer = files[Cur].footer
  BY <1>2 DEF SegmentFiles
<1>6. seg.count = Len(files[Cur].recs) /\ files[Cur].tail /\ ~HasFooter(files[Cur])
  BY <1>1 DEF Inv, FileInv, CountsMatchRecords
<1>7. IsPrefix(files[Cur].recs, e.recs) /\ seg'.count = Len(e.recs)
  BY <1>2, <1>4, <1>6, PrefixFacts
<1>8. e.tail /\ ~HasFooter(e)
  BY <1>5, <1>6 DEF HasFooter
<1> HIDE DEF e
<1>9. QED
  BY <1>1, <1>3, <1>5, <1>7, <1>8, CurrentFileStep

LEMMA CountedFacts ==
  ASSUME TypeOK, NEW c \in Nat, NEW a \in Nat, NEW b \in Nat
  PROVE  /\ Counted.count = seg.count + 1 /\ Counted.idx = seg.idx
         /\ DataNoted(c, a, b).count = seg.count + 1 /\ DataNoted(c, a, b).idx = seg.idx
<1> DEFINE s == [Counted EXCEPT !.points = MaybeAdd(@, c, a, SegFile.cursor)]
<1>1. seg \in SegmentStates
  BY DEF TypeOK
<1>2. Counted.count = seg.count + 1 /\ Counted.idx = seg.idx
  BY <1>1 DEF Counted, SegmentStates
<1>3. Counted \in SegmentStates
  BY <1>1, CountedType
<1>4. s.count = Counted.count /\ s.idx = Counted.idx
  BY <1>3 DEF SegmentStates
<1>5. SegFile.cursor \in Nat /\ Counted.points \in Seq(SeekPoints)
  BY <1>3 DEF TypeOK, MappedFiles, SegmentStates
<1>6. s \in SegmentStates
  <2>1. MaybeAdd(Counted.points, c, a, SegFile.cursor) \in Seq(SeekPoints)
    BY <1>5, MaybeAddType
  <2>2. QED
    BY <1>3, <2>1 DEF SegmentStates
<1> HIDE DEF s
<1>7. NoteDataRange(s, a, b).count = s.count /\ NoteDataRange(s, a, b).idx = s.idx
  BY <1>6 DEF NoteDataRange, SegmentStates
<1>8. QED
  BY <1>2, <1>4, <1>7 DEF DataNoted, s

\* A flush of an accumulator appends its chunk, or nothing.
LEMMA AccFlushStep ==
  ASSUME Inv, NEW c \in ChannelIds, AccFlush(c),
         pc # "seal", pc' \notin {"new", "open", "seal"}
  PROVE  FileInv' /\ CountsMatchRecords' /\ FilesGrow
<1>1. CASE accum[c].has
  <2>1. accum[c].first \in Nat /\ accum[c].last \in Nat /\ c \in Nat
    <3>1. accum[c] \in Accums
      BY DEF Inv, TypeOK
    <3>2. QED
      BY <3>1 DEF Accums, ChannelIds
  <2>2. WriteRecord(ChunkRecord(c)) /\ seg' = DataNoted(c, accum[c].first, accum[c].last)
    BY <1>1 DEF AccFlush
  <2>3. ChunkRecord(c) \in Records
    BY ChunkRecordType DEF Inv
  <2>4. seg'.count = seg.count + 1 /\ seg'.idx = seg.idx
    BY <2>1, <2>2, CountedFacts DEF Inv
  <2>5. QED
    BY <2>2, <2>3, <2>4, AppendStep
<1>2. CASE ~accum[c].has
  <2>1. UNCHANGED <<SegFile, files, seg>>
    BY <1>2 DEF AccFlush
  <2>2. QED
    BY <2>1, QuietStep
<1>3. QED
  BY <1>1, <1>2

\* An API call only picks the first step of its work.
LEMMA FileClient == Inv /\ Client => FileInv' /\ CountsMatchRecords' /\ FilesGrow
<1> SUFFICES ASSUME Inv, Client PROVE FileInv' /\ CountsMatchRecords' /\ FilesGrow
  OBVIOUS
<1> DEFINE Begins == /\ UNCHANGED <<files, seg, SegFile>> /\ pc \in {"new", "ready"}
                     /\ pc' \notin {"new", "seal"}
                     /\ pc' = "open" => call'.op \notin {"None", "Open"} \/ pc = "new"
<1> USE DEF memory, disk, Call, EnterClose, AfterClose, Return, Counting
<1>1. ASSUME Open PROVE Begins
  BY <1>1 DEF Open
<1>2. ASSUME NEW op, NEW s, Refuse(op, s) PROVE Begins
  BY <1>2 DEF Refuse
<1>3. ASSUME NEW cfg \in ChannelConfigs, DefineChannel(cfg) PROVE Begins
  BY <1>3 DEF DefineChannel
<1>4. ASSUME NEW cfg \in ChannelConfigs, DefineRefused(cfg) PROVE Begins
  BY <1>2, <1>4 DEF DefineRefused
<1>5. ASSUME NEW c \in ChannelIds, WriteUnknown(c) PROVE Begins
  BY <1>2, <1>5 DEF WriteUnknown
<1>6. ASSUME NEW c \in ChannelIds, NEW ts \in Timestamps, NEW len \in Lengths,
             WriteRaw(c, ts, len)
      PROVE  Begins
  BY <1>6 DEF WriteRaw
<1>7. ASSUME NEW c \in ChannelIds, NEW ts \in Timestamps, NEW len \in Lengths,
             WriteCompressed(c, ts, len)
      PROVE  Begins
  BY <1>7 DEF WriteCompressed
<1>8. ASSUME NEW ts \in AnnotationTimes, NEW len \in Lengths, Annotate(ts, len)
      PROVE  Begins
  BY <1>8 DEF Annotate
<1>9. ASSUME Flush PROVE Begins
  BY <1>9 DEF Flush
<1>10. ASSUME RotateSegment PROVE Begins
  BY <1>10 DEF RotateSegment
<1>11. ASSUME RotateRefused PROVE Begins
  BY <1>2, <1>11 DEF RotateRefused
<1>12. ASSUME Close PROVE Begins
  BY <1>12 DEF Close
<1>13. ASSUME Discard PROVE Begins
  BY <1>13 DEF Discard
<1>14. Begins
  <2> HIDE DEF Begins
  <2>1. Open \/ Flush \/ RotateSegment \/ RotateRefused \/ Close \/ Discard => Begins
    BY <1>1, <1>9, <1>10, <1>11, <1>12, <1>13
  <2>2. QED
    BY <1>3, <1>4, <1>5, <1>6, <1>7, <1>8, <2>1 DEF Client
<1>15. pc = "new" => files = <<>>
  BY DEF Inv, FileInv, CallInv
<1>16. QED
  BY <1>14, <1>15, QuietStep

\* OpenSegment never truncates a segment file of the session.
LEMMA CreateAppends ==
  ASSUME Inv, pc = "open", NEW b \in BOOLEAN
  PROVE  /\ CreateFile(NextIdx, b) = Append(files, NewSegmentFile(NextIdx, b))
         /\ NextIdx \in Nat
         /\ \A k \in DOMAIN files : files[k].idx <= NextIdx
<1>1. seg.idx \in Nat /\ files \in Seq(SegmentFiles)
  BY DEF Inv, TypeOK, SegmentStates
<1>2. \A k \in DOMAIN files : files[k].idx \in Nat /\ files[k].idx <= seg.idx
  <2>1. \A k \in DOMAIN files : files[k] \in SegmentFiles
    BY <1>1
  <2>2. QED
    BY <2>1 DEF Inv, FileInv, SegmentFiles
<1>3. call.op = "Open" => files = <<>>
  BY DEF Inv, FileInv
<1>4. NextIdx \in Nat /\ \A k \in DOMAIN files : files[k].idx < NextIdx
  <2>1. CASE call.op = "Open"
    BY <1>3, <2>1 DEF NextIdx
  <2>2. CASE call.op # "Open"
    <3>1. NextIdx = seg.idx + 1
      BY <2>2 DEF NextIdx
    <3>2. QED
      BY <1>1, <1>2, <3>1
  <2>3. QED
    BY <2>1, <2>2
<1>5. ~ \E k \in DOMAIN files : files[k].idx = NextIdx
  BY <1>2, <1>4
<1>6. QED
  BY <1>2, <1>4, <1>5 DEF CreateFile

\* A step of OpenSegment that may create the next file.
LEMMA NewFileStep ==
  ASSUME Inv, pc = "open", NEW b \in BOOLEAN, seg' = FreshSeg(NextIdx),
         \/ files' = CreateFile(NextIdx, b) /\ (SegFile'.open => b)
         \/ files' = files /\ ~SegFile'.open,
         ~SegFile'.open => SegFile'.reserved = 0,
         pc' \notin {"new", "open", "seal"}
  PROVE  FileInv' /\ CountsMatchRecords' /\ FilesGrow
<1> DEFINE f == NewSegmentFile(NextIdx, b)
<1>1. files \in Seq(SegmentFiles)
  BY DEF Inv, TypeOK
<1>2. seg'.idx = NextIdx /\ seg'.count = 0
  BY DEF FreshSeg
<1>3. \A k \in DOMAIN files : files[k].idx <= NextIdx
  BY CreateAppends
<1>4. /\ f.idx = NextIdx /\ f.recs = <<>> /\ ~HasFooter(f) /\ f.tail = b
      /\ NextIdx <= NextIdx
  <2>1. f.idx = NextIdx /\ f.recs = <<>> /\ f.footer = NoFooter /\ f.tail = b
    BY DEF NewSegmentFile
  <2>2. ~HasFooter(f)
    BY <2>1 DEF HasFooter, NoFooter
  <2>3. NextIdx <= NextIdx
    BY CreateAppends
  <2>4. QED
    BY <2>1, <2>2, <2>3
<1> HIDE DEF f
<1>5. \A k \in DOMAIN files : HasFooter(files[k]) => files[k].footer.count = Len(files[k].recs)
  BY DEF Inv, CountsMatchRecords
<1>6. \A k \in DOMAIN files : IsPrefix(files[k].recs, files[k].recs)
  BY <1>1, SamePrefix
<1>7. CASE files' = files /\ ~SegFile'.open
  <2>1. FileInv'
    BY <1>2, <1>3, <1>7 DEF FileInv
  <2>2. CountsMatchRecords'
    BY <1>5, <1>7 DEF CountsMatchRecords, HasFooter
  <2>3. FilesGrow
    BY <1>6, <1>7 DEF FilesGrow
  <2>4. QED
    BY <2>1, <2>2, <2>3
<1>8. CASE files' = CreateFile(NextIdx, b) /\ (SegFile'.open => b)
  <2>1. files' = Append(files, f)
    BY <1>8, CreateAppends DEF f
  <2>2. /\ Len(files') = Len(files) + 1 /\ DOMAIN files' = DOMAIN files \cup {Len(files')}
        /\ files'[Len(files')] = f /\ \A k \in DOMAIN files : files'[k] = files[k]
        /\ files' # <<>>
    BY <1>1, <2>1
  <2>3. \A k \in DOMAIN files' : files'[k].idx <= seg'.idx
    BY <1>2, <1>3, <1>4, <2>2
  <2>4. files'[Cur'] = f
    BY <2>2 DEF Cur
  <2>5. FileInv'
    BY <1>4, <1>8, <2>2, <2>3, <2>4 DEF FileInv, HasFooter
  <2>6. CountsMatchRecords'
    <3>1. Len(f.recs) = 0
      BY <1>4
    <3>2. \A k \in DOMAIN files' : HasFooter(files'[k])
             => files'[k].footer.count = Len(files'[k].recs)
      BY <1>4, <1>5, <2>2
    <3>3. QED
      BY <1>2, <2>4, <3>1, <3>2 DEF CountsMatchRecords, HasFooter
  <2>7. FilesGrow
    BY <1>6, <2>2 DEF FilesGrow
  <2>8. QED
    BY <2>5, <2>6, <2>7
<1>9. QED
  BY <1>7, <1>8

\* The three writes of CloseSegment and the file header: fields of the file
\* other than its records.
LEMMA FileTailSteps ==
  ASSUME Inv, WriteFileHeader \/ WriteIndex \/ WriteSessionEnd \/ WriteFooter
  PROVE  FileInv' /\ CountsMatchRecords' /\ FilesGrow
<1>1. /\ IndexRecord \in Records /\ IndexRecord.size \in Nat \ {0}
      /\ EndRecord \in Records /\ EndRecord.size \in Nat \ {0}
  BY FixedRecordTypes DEF Inv, Records
<1>2. pc # "seal" /\ pc' \notin {"new", "open"}
  BY DEF WriteFileHeader, WriteIndex, WriteSessionEnd, WriteFooter
<1>3. SegFile.open /\ SegFile'.open
  BY <1>1, WriteBytesOpen
  DEF Inv, WriteFileHeader, WriteIndex, WriteSessionEnd, WriteFooter, FileHeaderSize,
      FileFooterSize
<1>4. /\ Cur \in DOMAIN files /\ files[Cur] \in SegmentFiles
      /\ files[Cur].recs \in Seq(Records) /\ files \in Seq(SegmentFiles)
  BY <1>3, CurrentFile DEF Inv, TypeOK
<1>5. /\ seg.count = Len(files[Cur].recs) /\ files[Cur].tail /\ ~files[Cur].footer.written
  BY <1>2, <1>3 DEF Inv, FileInv, CountsMatchRecords, HasFooter
<1>6. IsPrefix(files[Cur].recs, files[Cur].recs)
  BY <1>4, SamePrefix
<1>7. CASE WriteFileHeader
  <2> DEFINE e == [files[Cur] EXCEPT !.header = TRUE]
  <2>1. files' = [files EXCEPT ![Cur] = e] /\ UNCHANGED seg /\ pc' # "seal"
    BY <1>7 DEF WriteFileHeader
  <2>2. e.idx = files[Cur].idx /\ e.tail /\ e.recs = files[Cur].recs /\ ~e.footer.written
    BY <1>4, <1>5 DEF SegmentFiles
  <2> HIDE DEF e
  <2>3. QED
    BY <1>2, <1>3, <1>5, <1>6, <2>1, <2>2, CurrentFileStep DEF HasFooter
<1>8. ASSUME NEW r \in Records, NEW e \in SegmentFiles,
             files' = [files EXCEPT ![Cur] = e],
             e.idx = files[Cur].idx, e.tail, e.recs = Append(files[Cur].recs, r),
             ~e.footer.written, seg' = Counted, pc' # "seal"
      PROVE  FileInv' /\ CountsMatchRecords' /\ FilesGrow
  <2>1. seg'.count = Len(e.recs) /\ seg'.idx = seg.idx
    BY <1>4, <1>5, <1>8, CountedFacts, PrefixFacts DEF Inv
  <2>2. IsPrefix(files[Cur].recs, e.recs)
    BY <1>4, <1>8, PrefixFacts
  <2>3. QED
    BY <1>2, <1>3, <1>8, <2>1, <2>2, CurrentFileStep DEF HasFooter
<1>9. ASSUME NEW r \in Records
      PROVE  LET a == [files[Cur] EXCEPT !.recs = Append(@, r)] IN
             /\ a \in SegmentFiles /\ a.recs = Append(files[Cur].recs, r)
             /\ a.idx = files[Cur].idx /\ a.tail /\ ~a.footer.written
             /\ AppendRecord(r) = [files EXCEPT ![Cur] = a]
  <2>1. Append(files[Cur].recs, r) \in Seq(Records)
    BY <1>4
  <2>2. QED
    BY <1>4, <1>5, <2>1 DEF SegmentFiles, AppendRecord
<1>10. CASE WriteIndex
  <2> DEFINE a == [files[Cur] EXCEPT !.recs = Append(@, IndexRecord)]
             e == [a EXCEPT !.points = seg.points, !.indexOff = SegFile.cursor]
  <2>1. /\ a \in SegmentFiles /\ a.recs = Append(files[Cur].recs, IndexRecord)
        /\ a.idx = files[Cur].idx /\ a.tail /\ ~a.footer.written
        /\ AppendRecord(IndexRecord) = [files EXCEPT ![Cur] = a]
    BY <1>1, <1>9
  <2> HIDE DEF a
  <2>2. files' = [[files EXCEPT ![Cur] = a] EXCEPT ![Cur].points = seg.points,
                                                   ![Cur].indexOff = SegFile.cursor]
    BY <1>10, <2>1 DEF WriteIndex
  <2>3. files' = [files EXCEPT ![Cur] = e]
    BY <1>4, <2>2
  <2>4. seg.points \in Seq(SeekPoints) /\ SegFile.cursor \in Nat
    BY DEF Inv, TypeOK, SegmentStates, MappedFiles
  <2>5. /\ e \in SegmentFiles /\ e.recs = a.recs /\ e.idx = a.idx /\ e.tail = a.tail
        /\ e.footer = a.footer
    BY <2>1, <2>4 DEF SegmentFiles
  <2> HIDE DEF e
  <2>6. seg' = Counted /\ pc' # "seal"
    BY <1>10 DEF WriteIndex
  <2>7. QED
    BY <1>1, <1>8, <2>1, <2>3, <2>5, <2>6
<1>11. CASE WriteSessionEnd
  <2> DEFINE a == [files[Cur] EXCEPT !.recs = Append(@, EndRecord)]
             e == [a EXCEPT !.endTotal = seg.count]
  <2>1. /\ a \in SegmentFiles /\ a.recs = Append(files[Cur].recs, EndRecord)
        /\ a.idx = files[Cur].idx /\ a.tail /\ ~a.footer.written
        /\ AppendRecord(EndRecord) = [files EXCEPT ![Cur] = a]
    BY <1>1, <1>9
  <2> HIDE DEF a
  <2>2. files' = [[files EXCEPT ![Cur] = a] EXCEPT ![Cur].endTotal = seg.count]
    BY <1>11, <2>1 DEF WriteSessionEnd
  <2>3. files' = [files EXCEPT ![Cur] = e]
    BY <1>4, <2>2
  <2>4. seg.count \in Nat
    BY DEF Inv, TypeOK, SegmentStates
  <2>5. /\ e \in SegmentFiles /\ e.recs = a.recs /\ e.idx = a.idx /\ e.tail = a.tail
        /\ e.footer = a.footer
    BY <2>1, <2>4 DEF SegmentFiles
  <2> HIDE DEF e
  <2>6. seg' = Counted /\ pc' # "seal"
    BY <1>11 DEF WriteSessionEnd
  <2>7. QED
    BY <1>1, <1>8, <2>1, <2>3, <2>5, <2>6
<1>12. CASE WriteFooter
  <2> DEFINE e == [files[Cur] EXCEPT !.footer = FooterNow]
  <2>1. files' = [files EXCEPT ![Cur] = e] /\ UNCHANGED seg /\ pc' = "seal"
    BY <1>12 DEF WriteFooter
  <2>2. e.idx = files[Cur].idx /\ e.tail /\ e.recs = files[Cur].recs /\ e.footer = FooterNow
    BY <1>4, <1>5 DEF SegmentFiles
  <2> HIDE DEF e
  <2>3. e.footer.written = TRUE /\ e.footer.count = seg.count
    BY <2>2 DEF FooterNow
  <2>4. QED
    BY <1>2, <1>3, <1>5, <1>6, <2>1, <2>2, <2>3, CurrentFileStep DEF HasFooter
<1>13. QED
  BY <1>7, <1>10, <1>11, <1>12

\* The segment file is closed, with or without its tail.
LEMMA ClosedFileStep ==
  ASSUME Inv, SegFile.open, SegFile' = ClosedFile, NEW b \in BOOLEAN,
         files' = [files EXCEPT ![Cur].tail = b], UNCHANGED seg,
         pc' \notin {"new", "seal"}, pc' = "open" => call'.op \notin {"None", "Open"}
  PROVE  FileInv' /\ CountsMatchRecords' /\ FilesGrow
<1> DEFINE e == [files[Cur] EXCEPT !.tail = b]
<1>1. /\ Cur \in DOMAIN files /\ files[Cur] \in SegmentFiles /\ files \in Seq(SegmentFiles)
  BY CurrentFile DEF Inv, TypeOK
<1>2. files' = [files EXCEPT ![Cur] = e]
  OBVIOUS
<1>3. e.idx = files[Cur].idx /\ e.recs = files[Cur].recs /\ e.footer = files[Cur].footer
  BY <1>1 DEF SegmentFiles
<1> HIDE DEF e
<1>4. /\ DOMAIN files' = DOMAIN files /\ Len(files') = Len(files)
      /\ files'[Cur] = e /\ \A k \in DOMAIN files \ {Cur} : files'[k] = files[k]
  <2> HIDE DEF Cur
  <2>1. QED
    BY <1>1, <1>2
<1>5. ~SegFile'.open /\ SegFile'.reserved = 0
  BY DEF ClosedFile
<1>6. FileInv'
  <2>1. \A k \in DOMAIN files' : files'[k].idx <= seg'.idx
    BY <1>3, <1>4 DEF Inv, FileInv
  <2>2. QED
    BY <1>5, <2>1 DEF FileInv
<1>7. CountsMatchRecords'
  <2>1. \A k \in DOMAIN files' : files'[k].footer.written
           => files'[k].footer.count = Len(files'[k].recs)
    BY <1>1, <1>3, <1>4 DEF Inv, CountsMatchRecords, HasFooter
  <2>2. QED
    BY <1>5, <2>1 DEF CountsMatchRecords, HasFooter
<1>8. FilesGrow
  <2>1. \A k \in DOMAIN files : IsPrefix(files[k].recs, files[k].recs)
    BY <1>1, SamePrefix
  <2>2. QED
    BY <1>1, <1>3, <1>4, <2>1 DEF FilesGrow
<1>9. QED
  BY <1>6, <1>7, <1>8

\* The destructor closes an open file that nothing was written to as it is.
LEMMA DestroyCuts ==
  ASSUME Inv, Destroy, SegFile.open
  PROVE  \E left \in BOOLEAN : files' = [files EXCEPT ![Cur].tail = left]
<1>1. Cur \in DOMAIN files /\ files[Cur] \in SegmentFiles /\ files \in Seq(SegmentFiles)
  BY CurrentFile DEF Inv, TypeOK
<1>2. files = [files EXCEPT ![Cur].tail = files[Cur].tail] /\ files[Cur].tail \in BOOLEAN
  <2>1. [files[Cur] EXCEPT !.tail = files[Cur].tail] = files[Cur] /\ files[Cur].tail \in BOOLEAN
    BY <1>1 DEF SegmentFiles
  <2> HIDE DEF Cur
  <2>2. QED
    BY <1>1, <2>1
<1>3. CASE UNCHANGED files
  BY <1>2, <1>3
<1>4. CASE CutTail
  BY <1>4 DEF CutTail
<1>5. QED
  BY <1>3, <1>4 DEF Destroy

LEMMA FileStep == Inv /\ Step => FileInv' /\ CountsMatchRecords' /\ FilesGrow
<1> SUFFICES ASSUME Inv, Step PROVE FileInv' /\ CountsMatchRecords' /\ FilesGrow
  OBVIOUS
<1> USE DEF control, memory, disk
<1>1. TypeOK /\ CallInv /\ FileInv
  BY DEF Inv
<1>2. ASSUME NEW r \in Records, WriteRecord(r), seg' = Counted,
             pc # "seal", pc' \notin {"new", "open", "seal"}
      PROVE  FileInv' /\ CountsMatchRecords' /\ FilesGrow
  <2>1. seg'.count = seg.count + 1 /\ seg'.idx = seg.idx
    BY <1>1, <1>2, CountedFacts
  <2>2. QED
    BY <1>2, <2>1, AppendStep
<1>3. CASE OpenFile
  <2>1. SegFile'.open
    BY <1>3 DEF OpenFile, OpenedFile
  <2>2. QED
    BY <1>3, <2>1, NewFileStep DEF OpenFile
<1>4. CASE OpenFileFails
  <2>1. ~SegFile'.open /\ SegFile'.reserved = 0
    BY <1>4 DEF OpenFileFails, ClosedFile
  <2>2. pc' \notin {"new", "open", "seal"}
    BY <1>4 DEF OpenFileFails, Fail
  <2>3. QED
    BY <1>4, <2>1, <2>2, NewFileStep DEF OpenFileFails
<1>5. CASE WriteFileHeader \/ WriteIndex \/ WriteSessionEnd \/ WriteFooter
  BY <1>5, FileTailSteps
<1>6. CASE WriteSessionStart
  BY <1>1, <1>2, <1>6, FixedRecordTypes DEF WriteSessionStart, Return
<1>7. CASE ReemitChannelDef
  <2>1. seg.count \in Nat
    BY <1>1 DEF TypeOK, SegmentStates
  <2>2. pc = "defs" /\ pc' = "defs"
    BY <1>7 DEF ReemitChannelDef
  <2>3. QED
    BY <1>1, <1>2, <1>7, <2>1, <2>2, FixedRecordTypes DEF ReemitChannelDef
<1>8. CASE OpenSegmentReturns
  BY <1>8, QuietStep DEF OpenSegmentReturns
<1>9. CASE FlushLoopReturns
  BY <1>9, QuietStep DEF FlushLoopReturns
<1>10. CASE SkipChannel
  BY <1>10, QuietStep DEF SkipChannel
<1>11. CASE FlushChannel
  <2>1. i \in ChannelIds
    BY <1>1, <1>11 DEF FlushChannel, AllFlushed, TypeOK, ChannelIds
  <2>2. QED
    BY <1>11, <2>1, AccFlushStep DEF FlushChannel
<1>12. CASE RotateForChannel
  <2>1. call.op \in Flushers /\ call' = call
    BY <1>1, <1>12 DEF RotateForChannel, CallInv
  <2>2. QED
    BY <1>12, <2>1, QuietStep DEF RotateForChannel, Flushers
<1>13. CASE WriteChannelDef
  <2>1. DefRecord(Len(chans)) \in Records
    BY <1>1, FixedRecordTypes DEF TypeOK
  <2>2. QED
    BY <1>2, <1>13, <2>1 DEF WriteChannelDef, Return
<1>14. CASE WriteData
  <2>1. call.ch \in Nat /\ call.ts \in Nat /\ DataRecord \in Records
    BY <1>1, FixedRecordTypes DEF TypeOK
  <2>2. seg'.count = seg.count + 1 /\ seg'.idx = seg.idx
    BY <1>1, <1>14, <2>1, CountedFacts DEF WriteData
  <2>3. QED
    BY <1>14, <2>1, <2>2, AppendStep DEF WriteData, Return
<1>15. CASE FlushWritten
  <2>1. call.ch \in ChannelIds
    BY <1>1, <1>15, WriteTarget DEF FlushWritten
  <2>2. QED
    BY <1>15, <2>1, AccFlushStep DEF FlushWritten, Return
<1>16. CASE RotateForWrite
  BY <1>16, QuietStep DEF RotateForWrite, Return
<1>17. CASE WriteAnnotation
  BY <1>1, <1>2, <1>17, FixedRecordTypes DEF WriteAnnotation, Return
<1>18. CASE SealSegment
  <2>1. SegFile.open
    BY <1>1, <1>18 DEF SealSegment, FileInv
  <2>2. call' = call /\ call.op \notin {"None", "Open"}
    BY <1>1, <1>18 DEF SealSegment, CallInv, Flushers
  <2>3. pc' \notin {"new", "seal"}
    BY <1>18 DEF SealSegment, AfterClose
  <2>4. PICK left \in BOOLEAN : files' = [files EXCEPT ![Cur].tail = left]
    BY <1>18 DEF SealSegment, CutTail
  <2>5. QED
    BY <1>18, <2>1, <2>2, <2>3, <2>4, ClosedFileStep DEF SealSegment
<1>19. CASE WriteManifest \/ WriteManifestFails
  <2>1. pc = "manifest" /\ pc' \in {"ready", "destroy", "open"}
    BY <1>19 DEF WriteManifest, WriteManifestFails, AfterManifest
  <2>2. pc' = "open" => call.op \notin {"None", "Open"}
    BY <1>1, <1>19 DEF WriteManifest, WriteManifestFails, AfterManifest, CallInv
  <2>3. UNCHANGED <<call, files, seg, SegFile>>
    BY <1>19 DEF WriteManifest, WriteManifestFails
  <2>4. QED
    BY <2>1, <2>2, <2>3, QuietStep
<1>20. CASE Destroy
  <2>1. pc = "destroy" /\ pc' = "closed" /\ UNCHANGED seg /\ SegFile' = ClosedFile
    BY <1>20 DEF Destroy
  <2>2. CASE SegFile.open
    <3>1. PICK left \in BOOLEAN : files' = [files EXCEPT ![Cur].tail = left]
      BY <1>20, <2>2, DestroyCuts DEF Inv
    <3>2. QED
      BY <2>1, <2>2, <3>1, ClosedFileStep
  <2>3. CASE ~SegFile.open
    <3>1. files' = files /\ SegFile.reserved = 0
      BY <1>1, <1>20, <2>3 DEF Destroy, FileInv
    <3>2. SegFile'.open = FALSE /\ SegFile'.reserved = 0
      BY <2>1 DEF ClosedFile
    <3>3. SegFile.open \in BOOLEAN
      BY <1>1 DEF TypeOK, MappedFiles
    <3>4. QED
      BY <2>1, <2>3, <3>1, <3>2, <3>3, QuietStep
  <2>4. QED
    BY <2>2, <2>3
<1>21. CASE WriteFails
  <2>1. SegFile'.open = SegFile.open /\ SegFile'.reserved = SegFile.reserved
    BY <1>1, <1>21 DEF WriteFails, GrowFailed, TypeOK, MappedFiles
  <2>2. pc # "seal"
    BY <1>21 DEF WriteFails, Writing
  <2>3. pc' \notin {"new", "open", "seal"}
    BY <1>21 DEF WriteFails, Fail
  <2>4. UNCHANGED <<files, seg>>
    BY <1>21 DEF WriteFails
  <2>5. QED
    BY <2>1, <2>2, <2>3, <2>4, QuietStep
<1>22. CASE MemoryFault
  <2>1. pc # "seal"
    BY <1>22 DEF MemoryFault, Writing
  <2>2. QED
    BY <1>22, <2>1, QuietStep DEF MemoryFault
<1>23. QED
  BY <1>3, <1>4, <1>5, <1>6, <1>7, <1>8, <1>9, <1>10, <1>11, <1>12, <1>13, <1>14, <1>15,
     <1>16, <1>17, <1>18, <1>19, <1>20, <1>21, <1>22 DEF Step

LEMMA FileInit == Init => FileInv /\ CountsMatchRecords
BY DEF Init, FileInv, CountsMatchRecords, ClosedFile, HasFooter

LEMMA FileStutter ==
  Inv /\ UNCHANGED vars => FileInv' /\ CountsMatchRecords' /\ FilesGrow
<1> SUFFICES ASSUME Inv, UNCHANGED vars
             PROVE  FileInv' /\ CountsMatchRecords' /\ FilesGrow
  OBVIOUS
<1>1. UNCHANGED <<pc, call, files, seg, SegFile>>
  BY DEF vars, control, memory, disk
<1>2. FileInv' /\ CountsMatchRecords'
  BY <1>1 DEF Inv, FileInv, CountsMatchRecords, Cur, HasFooter
<1>3. FilesGrow
  BY <1>1, SamePrefix DEF Inv, TypeOK, FilesGrow
<1>4. QED
  BY <1>2, <1>3

LEMMA InvAlways == Spec => []Inv /\ [][FilesGrow]_vars
<1>1. Init => Inv
  BY TypeInit, CallInit, FileInit DEF Inv
<1>2. Inv /\ [Next]_vars => FileInv' /\ CountsMatchRecords' /\ FilesGrow
  BY FileClient, FileStep, FileStutter DEF Next
<1>3. Inv /\ [Next]_vars => TypeOK' /\ CallInv'
  <2>1. TypeOK /\ CallInv /\ UNCHANGED vars => CallInv'
    BY DEF vars, control, memory, CallInv, Flushers
  <2>2. QED
    BY <2>1, TypeNext, CallClient, CallStep DEF Inv, Next
<1>4. Inv /\ [Next]_vars => Inv'
  BY <1>2, <1>3 DEF Inv
<1>5. Inv /\ [Next]_vars => [FilesGrow]_vars
  BY <1>2
<1>6. QED
  BY <1>1, <1>4, <1>5, PTL DEF Spec

\* RecordCount and the record counts in the footers agree with the records in the
\* files, also after a close that failed half-way and was tried again, for every
\* configuration and every sequence of failing writes.
THEOREM CountsAlwaysMatch == Spec => []CountsMatchRecords
<1>1. Inv => CountsMatchRecords
  BY DEF Inv
<1>2. QED
  BY <1>1, InvAlways, PTL

\* A finished segment file is never written again, and every other one only grows.
THEOREM FinishedFilesNeverChange == Spec => FilesOnlyGrow
BY InvAlways DEF FilesOnlyGrow

(***************************************************************************)
(* The ways a step can change the records on disk.                         *)
(***************************************************************************)
SameElsewhere == \A k \in DOMAIN files \ {Cur} : files'[k] = files[k]

RecsSame ==
  /\ DOMAIN files' = DOMAIN files
  /\ \A k \in DOMAIN files : files'[k].recs = files[k].recs /\ files'[k].idx = files[k].idx

RecsGrow(r) ==
  /\ files # <<>> /\ DOMAIN files' = DOMAIN files
  /\ files'[Cur].recs = Append(files[Cur].recs, r) /\ files'[Cur].idx = files[Cur].idx
  /\ SameElsewhere

RecsNew == \E f \in SegmentFiles : f.recs = <<>> /\ files' = Append(files, f)

LEMMA RecordFields ==
  \A r \in Records : /\ r.msgs \in Seq(Messages) /\ r.op \in RecordOps /\ r.ch \in Nat
                     /\ r.ts \in Nat /\ r.off \in Nat /\ r.size \in Nat \ {0}
BY DEF Records

LEMMA FilesTyped ==
  ASSUME files \in Seq(SegmentFiles)
  PROVE  \A k \in DOMAIN files : /\ files[k] \in SegmentFiles
                                 /\ files[k].recs \in Seq(Records)
                                 /\ \A j \in DOMAIN files[k].recs :
                                      /\ files[k].recs[j] \in Records
                                      /\ files[k].recs[j].msgs \in Seq(Messages)
<1> TAKE k \in DOMAIN files
<1>1. files[k] \in SegmentFiles
  OBVIOUS
<1>2. files[k].recs \in Seq(Records)
  BY <1>1 DEF SegmentFiles
<1>3. \A j \in DOMAIN files[k].recs : files[k].recs[j] \in Records
  BY <1>2
<1>4. QED
  BY <1>1, <1>2, <1>3, RecordFields

\* Joined only keeps TLC from joining the pieces again and again.
LEMMA JoinedIs == \A pieces : Joined(pieces) = FlattenSeq(pieces)
BY DEF Joined

LEMMA InFileIs ==
  \A f, c : InFile(f, c) = FlattenSeq([j \in DOMAIN f.recs |-> MessagesOf(f.recs[j], c)])
BY JoinedIs DEF InFile

LEMMA StoredIs ==
  \A c : /\ Stored(c) = FlattenSeq([k \in DOMAIN files |-> InFile(files[k], c)])
         /\ Stored(c)' = FlattenSeq([k \in DOMAIN files' |-> InFile(files'[k], c)])
<1> TAKE c
<1>1. Stored(c) = Joined([k \in DOMAIN files |-> InFile(files[k], c)])
  BY DEF Stored
<1>2. Stored(c)' = Joined([k \in DOMAIN files' |-> InFile(files'[k], c)])
  BY DEF Stored, InFile, Joined
<1>3. QED
  BY <1>1, <1>2, JoinedIs

LEMMA InFileType ==
  ASSUME NEW f \in SegmentFiles, NEW c
  PROVE  /\ [j \in DOMAIN f.recs |-> MessagesOf(f.recs[j], c)] \in Seq(Seq(Messages))
         /\ InFile(f, c) \in Seq(Messages)
<1> DEFINE s == [j \in DOMAIN f.recs |-> MessagesOf(f.recs[j], c)]
<1>1. f.recs \in Seq(Records)
  BY DEF SegmentFiles
<1>2. \A j \in DOMAIN f.recs : MessagesOf(f.recs[j], c) \in Seq(Messages)
  <2> TAKE j \in DOMAIN f.recs
  <2>1. f.recs[j].msgs \in Seq(Messages)
    BY <1>1, RecordFields
  <2>2. QED
    BY <2>1 DEF MessagesOf
<1>3. DOMAIN f.recs = 1..Len(f.recs) /\ Len(f.recs) \in Nat
  BY <1>1
<1>4. s \in Seq(Seq(Messages))
  BY <1>2, <1>3
<1>5. FlattenSeq(s) \in Seq(Messages)
  BY <1>4, FlattenType
<1>6. QED
  BY <1>4, <1>5, InFileIs

LEMMA StoredType ==
  ASSUME files \in Seq(SegmentFiles), NEW c
  PROVE  /\ [k \in DOMAIN files |-> InFile(files[k], c)] \in Seq(Seq(Messages))
         /\ Stored(c) \in Seq(Messages)
<1> DEFINE s == [k \in DOMAIN files |-> InFile(files[k], c)]
<1>1. \A k \in DOMAIN files : InFile(files[k], c) \in Seq(Messages)
  BY InFileType, FilesTyped
<1>2. DOMAIN files = 1..Len(files) /\ Len(files) \in Nat
  OBVIOUS
<1>3. s \in Seq(Seq(Messages))
  BY <1>1, <1>2
<1>4. FlattenSeq(s) \in Seq(Messages)
  BY <1>3, FlattenType
<1>5. QED
  BY <1>3, <1>4, StoredIs

\* A file's messages with one record more.
LEMMA InFileGrows ==
  ASSUME NEW f \in SegmentFiles, NEW g, NEW r \in Records, NEW c,
         g.recs = Append(f.recs, r)
  PROVE  InFile(g, c) = InFile(f, c) \o MessagesOf(r, c)
<1> DEFINE s == [j \in DOMAIN f.recs |-> MessagesOf(f.recs[j], c)]
           t == [j \in DOMAIN g.recs |-> MessagesOf(g.recs[j], c)]
           m == MessagesOf(r, c)
<1>1. f.recs \in Seq(Records)
  BY DEF SegmentFiles
<1>2. s \in Seq(Seq(Messages))
  BY InFileType
<1>3. m \in Seq(Messages)
  BY RecordFields DEF MessagesOf
<1>4. t = Append(s, m)
  <2>1. /\ DOMAIN g.recs = 1..(Len(f.recs) + 1) /\ g.recs[Len(f.recs) + 1] = r
        /\ \A j \in 1..Len(f.recs) : g.recs[j] = f.recs[j]
    BY <1>1
  <2>2. Len(s) = Len(f.recs) /\ \A j \in 1..Len(s) : s[j] = MessagesOf(f.recs[j], c)
    BY <1>1, <1>2
  <2>3. DOMAIN t = 1..(Len(s) + 1) /\ t = [j \in DOMAIN t |-> t[j]]
    BY <2>1, <2>2
  <2>4. \A j \in 1..Len(s) : t[j] = s[j]
    BY <1>1, <2>1, <2>2
  <2>5. t[Len(s) + 1] = m
    BY <1>1, <2>1, <2>2
  <2> HIDE DEF s, t, m
  <2>6. QED
    BY <1>2, <1>3, <2>3, <2>4, <2>5, IsAppend
<1> HIDE DEF s, t, m
<1>5. FlattenSeq(Append(s, m)) = FlattenSeq(s) \o m
  BY <1>2, <1>3, FlattenAppend
<1>6. QED
  BY <1>4, <1>5, InFileIs DEF s, t, m

LEMMA StoredSame ==
  ASSUME RecsSame, NEW c
  PROVE  Stored(c)' = Stored(c)
<1>1. \A k \in DOMAIN files : InFile(files'[k], c) = InFile(files[k], c)
  BY DEF RecsSame, InFile
<1>2. [k \in DOMAIN files' |-> InFile(files'[k], c)] = [k \in DOMAIN files |-> InFile(files[k], c)]
  BY <1>1 DEF RecsSame
<1>3. Stored(c)' = FlattenSeq([k \in DOMAIN files' |-> InFile(files'[k], c)])
  BY StoredIs
<1>4. QED
  BY <1>2, <1>3, StoredIs

LEMMA StoredGrows ==
  ASSUME files \in Seq(SegmentFiles), NEW r \in Records, RecsGrow(r), NEW c
  PROVE  Stored(c)' = Stored(c) \o MessagesOf(r, c)
<1> DEFINE s == [k \in DOMAIN files |-> InFile(files[k], c)]
           t == [k \in DOMAIN files' |-> InFile(files'[k], c)]
           m == MessagesOf(r, c)
<1>1. Cur = Len(files) /\ Cur \in DOMAIN files
  BY DEF RecsGrow, Cur
<1>2. s \in Seq(Seq(Messages)) /\ m \in Seq(Messages)
  <2>1. s \in Seq(Seq(Messages))
    BY StoredType
  <2>2. m \in Seq(Messages)
    BY RecordFields DEF MessagesOf
  <2>3. QED
    BY <2>1, <2>2
<1>3. s # <<>> /\ Len(s) = Len(files) /\ DOMAIN s = DOMAIN files
  BY <1>1
<1>4. InFile(files'[Cur], c) = InFile(files[Cur], c) \o m
  BY <1>1, FilesTyped, InFileGrows DEF RecsGrow
<1>5. \A k \in DOMAIN files \ {Cur} : InFile(files'[k], c) = InFile(files[k], c)
  BY DEF RecsGrow, SameElsewhere, InFile
<1>6. t = [s EXCEPT ![Len(s)] = @ \o m]
  <2>1. DOMAIN t = DOMAIN s
    BY <1>3 DEF RecsGrow
  <2>2. t[Cur] = s[Cur] \o m
    BY <1>1, <1>4 DEF RecsGrow
  <2>3. \A k \in DOMAIN s \ {Cur} : t[k] = s[k]
    BY <1>3, <1>5 DEF RecsGrow
  <2>4. t = [k \in DOMAIN t |-> t[k]] /\ s = [k \in DOMAIN s |-> s[k]]
    OBVIOUS
  <2> HIDE DEF s, t, m
  <2>5. QED
    BY <1>1, <1>3, <2>1, <2>2, <2>3, <2>4
<1>7. FlattenSeq([s EXCEPT ![Len(s)] = @ \o m]) = FlattenSeq(s) \o m
  <2> HIDE DEF s, t, m
  <2>1. QED
    BY <1>2, <1>3, FlattenGrow
<1>8. Stored(c)' = FlattenSeq(t)
  BY StoredIs
<1> HIDE DEF s, t, m
<1>9. QED
  BY <1>6, <1>7, <1>8, StoredIs DEF s, m

LEMMA StoredNew ==
  ASSUME files \in Seq(SegmentFiles), RecsNew, NEW c
  PROVE  Stored(c)' = Stored(c)
<1> PICK f \in SegmentFiles : f.recs = <<>> /\ files' = Append(files, f)
  BY DEF RecsNew
<1> DEFINE s == [k \in DOMAIN files |-> InFile(files[k], c)]
           t == [k \in DOMAIN files' |-> InFile(files'[k], c)]
<1>1. InFile(f, c) = <<>>
  <2>1. [j \in DOMAIN f.recs |-> MessagesOf(f.recs[j], c)] = <<>>
    OBVIOUS
  <2>2. QED
    BY <2>1, FlattenEmpty, InFileIs
<1>2. s \in Seq(Seq(Messages)) /\ <<>> \in Seq(Messages)
  <2>1. s \in Seq(Seq(Messages))
    BY StoredType
  <2>2. <<>> \in Seq(Messages)
    OBVIOUS
  <2>3. QED
    BY <2>1, <2>2
<1>3. t = Append(s, <<>>)
  <2>1. /\ Len(s) = Len(files) /\ DOMAIN files' = 1..(Len(files) + 1) /\ Len(files) \in Nat
        /\ files'[Len(files) + 1] = f /\ \A k \in 1..Len(files) : files'[k] = files[k]
    OBVIOUS
  <2>2. DOMAIN t = 1..(Len(s) + 1) /\ t = [k \in DOMAIN t |-> t[k]]
    BY <2>1
  <2>3. \A k \in 1..Len(s) : t[k] = s[k]
    BY <2>1
  <2>4. t[Len(s) + 1] = <<>>
    BY <1>1, <2>1
  <2> HIDE DEF s, t
  <2>5. QED
    BY <1>2, <2>2, <2>3, <2>4, IsAppend
<1>4. Stored(c)' = FlattenSeq(t)
  BY StoredIs
<1> HIDE DEF s, t
<1>5. FlattenSeq(Append(s, <<>>)) = FlattenSeq(s) \o <<>>
  BY <1>2, FlattenAppend
<1>6. FlattenSeq(s) \in Seq(Messages)
  BY <1>2, FlattenType
<1>7. FlattenSeq(s) \o <<>> = FlattenSeq(s)
  BY <1>6
<1>8. QED
  BY <1>3, <1>4, <1>5, <1>7, StoredIs DEF s

(***************************************************************************)
(* What each step does to the records, the buffers and what was pushed.    *)
(***************************************************************************)
Plain(r) == r.op \notin {"Data", "Chunk", "Annotation"} /\ r.msgs = <<>>

QuietLogStep ==
  /\ RecsSame \/ RecsNew \/ (\E r \in Records : Plain(r) /\ RecsGrow(r))
  /\ UNCHANGED <<accum, pushed>>

AnnotationStep ==
  WriteAnnotation /\ RecsGrow(AnnotationRecord) /\ UNCHANGED <<accum, pushed>>

BufferStep ==
  /\ RecsSame
  /\ \E c \in ChannelIds, ts \in Timestamps, len \in Lengths : WriteCompressed(c, ts, len)

DataStep == WriteData /\ RecsGrow(DataRecord) /\ UNCHANGED accum

FlushStep(c) ==
  /\ AccFlush(c) /\ accum[c].has /\ RecsGrow(ChunkRecord(c)) /\ UNCHANGED pushed
  /\ (FlushChannel /\ c = i) \/ (FlushWritten /\ c = call.ch)

DestroyStep == Destroy /\ RecsSame /\ UNCHANGED pushed

LogStep ==
  \/ QuietLogStep \/ AnnotationStep \/ BufferStep \/ DataStep \/ DestroyStep
  \/ \E c \in ChannelIds : FlushStep(c)

LEMMA EditRecs ==
  ASSUME files \in Seq(SegmentFiles), files # <<>>, NEW e, files' = [files EXCEPT ![Cur] = e],
         e.idx = files[Cur].idx
  PROVE  /\ e.recs = files[Cur].recs => RecsSame
         /\ \A r : e.recs = Append(files[Cur].recs, r) => RecsGrow(r)
<1>1. Cur \in DOMAIN files
  BY DEF Cur
<1> HIDE DEF Cur
<1>2. /\ DOMAIN files' = DOMAIN files /\ files'[Cur] = e
      /\ \A k \in DOMAIN files \ {Cur} : files'[k] = files[k]
  BY <1>1
<1>3. e.recs = files[Cur].recs => RecsSame
  BY <1>2 DEF RecsSame
<1>4. QED
  BY <1>2, <1>3 DEF RecsGrow, SameElsewhere

\* The cursor moves by what is written.
LEMMA WriteBytesMoves ==
  ASSUME TypeOK, FileInv, NEW n \in Nat, n > 0, WriteBytes(n)
  PROVE  SegFile'.open /\ SegFile'.cursor = SegFile.cursor + n
<1>1. SegFile \in MappedFiles
  BY DEF TypeOK
<1>2. Ensured(SegFile, n) \in MappedFiles /\ Ensured(SegFile, n).cursor = SegFile.cursor
  <2>1. Ensured(SegFile, n) \in MappedFiles
    BY <1>1, MappedTypes
  <2>2. Ensured(SegFile, n).cursor = SegFile.cursor
    BY <1>1 DEF Ensured, Grow, MappedFiles
  <2>3. QED
    BY <2>1, <2>2
<1>3. SegFile'.cursor = SegFile.cursor + n
  BY <1>2 DEF WriteBytes, Advance, MappedFiles
<1>4. QED
  BY <1>3, WriteBytesOpen

\* Writing a record of a well-typed segment.
LEMMA WriteRecordGrows ==
  ASSUME Inv, NEW r \in Records, WriteRecord(r)
  PROVE  /\ SegFile.open /\ SegFile'.open /\ RecsGrow(r)
         /\ SegFile'.cursor = SegFile.cursor + r.size
<1>1. SegFile.open
  BY WriteBytesOpen, RecordFields DEF Inv, WriteRecord
<1>2. files \in Seq(SegmentFiles) /\ files # <<>> /\ files[Cur] \in SegmentFiles
  BY <1>1, CurrentFile DEF Inv, TypeOK, FileInv
<1> DEFINE e == [files[Cur] EXCEPT !.recs = Append(@, r)]
<1>3. files' = [files EXCEPT ![Cur] = e]
  BY DEF WriteRecord, AppendRecord
<1>4. e.recs = Append(files[Cur].recs, r) /\ e.idx = files[Cur].idx
  BY <1>2 DEF SegmentFiles
<1> HIDE DEF e
<1>5. RecsGrow(r)
  BY <1>2, <1>3, <1>4, EditRecs
<1>6. QED
  BY <1>1, <1>5, WriteBytesMoves, RecordFields DEF WriteRecord, Inv

\* INDEX and SESSION_END set a field of the file besides.
LEMMA TailRecordsGrow ==
  ASSUME Inv, WriteIndex \/ WriteSessionEnd
  PROVE  /\ SegFile.open /\ SegFile'.open
         /\ WriteIndex => /\ RecsGrow(IndexRecord)
                          /\ SegFile'.cursor = SegFile.cursor + IndexRecord.size
         /\ WriteSessionEnd => /\ RecsGrow(EndRecord)
                               /\ SegFile'.cursor = SegFile.cursor + EndRecord.size
<1>1. IndexRecord \in Records /\ EndRecord \in Records
  BY FixedRecordTypes DEF Inv
<1>2. SegFile.open
  BY <1>1, WriteBytesOpen, RecordFields DEF Inv, WriteIndex, WriteSessionEnd
<1>3. files \in Seq(SegmentFiles) /\ files # <<>> /\ Cur \in DOMAIN files /\ files[Cur] \in SegmentFiles
  BY <1>2, CurrentFile DEF Inv, TypeOK, FileInv
<1>4. ASSUME WriteIndex PROVE RecsGrow(IndexRecord)
  <2> DEFINE f == [files[Cur] EXCEPT !.recs = Append(@, IndexRecord)]
             g == [f EXCEPT !.points = seg.points]
             e == [g EXCEPT !.indexOff = SegFile.cursor]
  <2>1. files' = [files EXCEPT ![Cur] = e]
    <3>1. files' = [AppendRecord(IndexRecord) EXCEPT ![Cur].points = seg.points,
                                                     ![Cur].indexOff = SegFile.cursor]
      BY <1>4 DEF WriteIndex
    <3> HIDE DEF Cur
    <3>2. QED
      BY <1>3, <3>1 DEF AppendRecord
  <2>2. e.recs = Append(files[Cur].recs, IndexRecord) /\ e.idx = files[Cur].idx
    BY <1>3 DEF SegmentFiles
  <2> HIDE DEF e, f, g
  <2>3. QED
    BY <1>3, <2>1, <2>2, EditRecs
<1>5. ASSUME WriteSessionEnd PROVE RecsGrow(EndRecord)
  <2> DEFINE f == [files[Cur] EXCEPT !.recs = Append(@, EndRecord)]
             e == [f EXCEPT !.endTotal = seg.count]
  <2>1. files' = [files EXCEPT ![Cur] = e]
    <3>1. files' = [AppendRecord(EndRecord) EXCEPT ![Cur].endTotal = seg.count]
      BY <1>5 DEF WriteSessionEnd
    <3> HIDE DEF Cur
    <3>2. QED
      BY <1>3, <3>1 DEF AppendRecord
  <2>2. e.recs = Append(files[Cur].recs, EndRecord) /\ e.idx = files[Cur].idx
    BY <1>3 DEF SegmentFiles
  <2> HIDE DEF e, f
  <2>3. QED
    BY <1>3, <2>1, <2>2, EditRecs
<1>6. /\ SegFile'.open
      /\ WriteIndex => SegFile'.cursor = SegFile.cursor + IndexRecord.size
      /\ WriteSessionEnd => SegFile'.cursor = SegFile.cursor + EndRecord.size
  BY <1>1, WriteBytesMoves, RecordFields DEF Inv, WriteIndex, WriteSessionEnd
<1>7. QED
  BY <1>2, <1>4, <1>5, <1>6

\* Steps that only set a field of the current file, if anything.
LEMMA FieldSteps ==
  ASSUME Inv, WriteFileHeader \/ WriteFooter \/ SealSegment \/ Destroy
  PROVE  RecsSame
<1>1. files \in Seq(SegmentFiles)
  BY DEF Inv, TypeOK
<1>2. WriteFileHeader \/ WriteFooter \/ SealSegment => SegFile.open
  BY WriteBytesOpen
  DEF Inv, FileInv, WriteFileHeader, WriteFooter, SealSegment, FileHeaderSize, FileFooterSize
<1>3. SegFile.open => files # <<>> /\ files[Cur] \in SegmentFiles
  BY CurrentFile DEF Inv, FileInv
<1>4. CASE files' = files
  BY <1>4 DEF RecsSame
<1>5. ASSUME NEW b, SegFile.open, files' = [files EXCEPT ![Cur].header = b]
      PROVE  RecsSame
  <2>1. /\ [files[Cur] EXCEPT !.header = b].recs = files[Cur].recs
        /\ [files[Cur] EXCEPT !.header = b].idx = files[Cur].idx
    BY <1>3, <1>5 DEF SegmentFiles
  <2>2. QED
    BY <1>1, <1>3, <1>5, <2>1, EditRecs
<1>6. ASSUME NEW b, SegFile.open, files' = [files EXCEPT ![Cur].tail = b]
      PROVE  RecsSame
  <2>1. /\ [files[Cur] EXCEPT !.tail = b].recs = files[Cur].recs
        /\ [files[Cur] EXCEPT !.tail = b].idx = files[Cur].idx
    BY <1>3, <1>6 DEF SegmentFiles
  <2>2. QED
    BY <1>1, <1>3, <1>6, <2>1, EditRecs
<1>7. ASSUME NEW b, SegFile.open, files' = [files EXCEPT ![Cur].footer = b]
      PROVE  RecsSame
  <2>1. /\ [files[Cur] EXCEPT !.footer = b].recs = files[Cur].recs
        /\ [files[Cur] EXCEPT !.footer = b].idx = files[Cur].idx
    BY <1>3, <1>7 DEF SegmentFiles
  <2>2. QED
    BY <1>1, <1>3, <1>7, <2>1, EditRecs
<1>8. CASE WriteFileHeader
  BY <1>2, <1>5, <1>8 DEF WriteFileHeader
<1>9. CASE WriteFooter
  BY <1>2, <1>7, <1>9 DEF WriteFooter
<1>10. CASE SealSegment
  BY <1>2, <1>6, <1>10 DEF SealSegment, CutTail
<1>11. CASE Destroy
  <2>1. CASE SegFile.open
    BY <1>6, <1>11, <2>1, DestroyCuts
  <2>2. CASE ~SegFile.open
    BY <1>4, <1>11, <2>2 DEF Destroy
  <2>3. QED
    BY <2>1, <2>2
<1>12. QED
  BY <1>8, <1>9, <1>10, <1>11

\* A flush: the marks agree with the buffer, so the chunk is always written.
LEMMA FlushWritesChunk ==
  ASSUME Inv, MarksMatchBuffer, NEW c \in ChannelIds, AccFlush(c)
  PROVE  /\ accum[c].has /\ RecsGrow(ChunkRecord(c)) /\ SegFile.open
         /\ WriteRecord(ChunkRecord(c)) /\ seg' = DataNoted(c, accum[c].first, accum[c].last)
<1>1. accum[c].has
  BY DEF AccFlush, NothingToFlush, MarksMatchBuffer
<1>2. WriteRecord(ChunkRecord(c)) /\ seg' = DataNoted(c, accum[c].first, accum[c].last)
  BY <1>1 DEF AccFlush
<1>3. ChunkRecord(c) \in Records
  BY ChunkRecordType DEF Inv
<1>4. QED
  BY <1>1, <1>2, <1>3, WriteRecordGrows

LEMMA LoopChannel ==
  ASSUME TypeOK, ~AllFlushed
  PROVE  i \in ChannelIds /\ i \in DOMAIN chans
<1>1. i \in Nat \ {0} /\ chans \in Seq(Channels) /\ Len(chans) <= MaxChannels
  BY DEF TypeOK
<1>2. QED
  BY <1>1, LimitsAssumption DEF AllFlushed, ChannelIds

LEMMA ClientLogStep ==
  ASSUME Client
  PROVE  LogStep
<1> USE DEF control, memory, disk, Counting
<1>1. ASSUME UNCHANGED <<files, accum, pushed>> PROVE LogStep
  BY <1>1 DEF LogStep, QuietLogStep, RecsSame
<1>2. ASSUME NEW op, NEW s, Refuse(op, s) PROVE LogStep
  BY <1>1, <1>2 DEF Refuse
<1>3. CASE Open
  BY <1>1, <1>3 DEF Open
<1>4. ASSUME NEW cfg \in ChannelConfigs, DefineChannel(cfg) PROVE LogStep
  BY <1>1, <1>4 DEF DefineChannel
<1>5. ASSUME NEW cfg \in ChannelConfigs, DefineRefused(cfg) PROVE LogStep
  BY <1>2, <1>5 DEF DefineRefused
<1>6. ASSUME NEW c \in ChannelIds, WriteUnknown(c) PROVE LogStep
  BY <1>2, <1>6 DEF WriteUnknown
<1>7. ASSUME NEW c \in ChannelIds, NEW ts \in Timestamps, NEW len \in Lengths,
             WriteRaw(c, ts, len)
      PROVE  LogStep
  BY <1>1, <1>7 DEF WriteRaw
<1>8. ASSUME NEW c \in ChannelIds, NEW ts \in Timestamps, NEW len \in Lengths,
             WriteCompressed(c, ts, len)
      PROVE  LogStep
  <2>1. UNCHANGED files
    BY <1>8 DEF WriteCompressed
  <2>2. BufferStep
    BY <1>8, <2>1 DEF BufferStep, RecsSame
  <2>3. QED
    BY <2>2 DEF LogStep
<1>9. ASSUME NEW ts \in AnnotationTimes, NEW len \in Lengths, Annotate(ts, len)
      PROVE  LogStep
  BY <1>1, <1>9 DEF Annotate
<1>10. CASE Flush
  BY <1>1, <1>10 DEF Flush
<1>11. CASE RotateSegment
  BY <1>1, <1>11 DEF RotateSegment
<1>12. CASE RotateRefused
  BY <1>2, <1>12 DEF RotateRefused
<1>13. CASE Close
  BY <1>1, <1>13 DEF Close
<1>14. CASE Discard
  BY <1>1, <1>14 DEF Discard
<1>15. QED
  BY <1>3, <1>4, <1>5, <1>6, <1>7, <1>8, <1>9, <1>10, <1>11, <1>12, <1>13, <1>14 DEF Client

LEMMA StepLogStep ==
  ASSUME Inv, MarksMatchBuffer, Step
  PROVE  LogStep
<1> USE DEF control, memory, disk
<1>1. ASSUME UNCHANGED <<files, accum, pushed>> PROVE LogStep
  BY <1>1 DEF LogStep, QuietLogStep, RecsSame
<1>2. ASSUME RecsSame, UNCHANGED <<accum, pushed>> PROVE LogStep
  BY <1>2 DEF LogStep, QuietLogStep
<1>3. ASSUME NEW r \in Records, Plain(r), RecsGrow(r), UNCHANGED <<accum, pushed>> PROVE LogStep
  BY <1>3 DEF LogStep, QuietLogStep
<1>4. /\ StartRecord \in Records /\ Plain(StartRecord)
      /\ EndRecord \in Records /\ Plain(EndRecord)
      /\ IndexRecord \in Records /\ Plain(IndexRecord)
      /\ \A c \in Nat : DefRecord(c) \in Records /\ Plain(DefRecord(c))
  BY FixedRecordTypes DEF Inv, Plain, StartRecord, EndRecord, IndexRecord, DefRecord, Rec
<1>5. ASSUME pc = "open", NEW b \in BOOLEAN, files' = CreateFile(NextIdx, b),
             UNCHANGED <<accum, pushed>>
      PROVE  LogStep
  <2>1. files' = Append(files, NewSegmentFile(NextIdx, b)) /\ NextIdx \in Nat
    BY <1>5, CreateAppends
  <2>2. NewSegmentFile(NextIdx, b) \in SegmentFiles /\ NewSegmentFile(NextIdx, b).recs = <<>>
    BY <2>1 DEF NewSegmentFile, NoFooter, SegmentFiles, Footers
  <2>3. RecsNew
    BY <2>1, <2>2 DEF RecsNew
  <2>4. QED
    BY <1>5, <2>3 DEF LogStep, QuietLogStep
<1>6. CASE OpenFile
  BY <1>5, <1>6 DEF OpenFile
<1>7. CASE OpenFileFails
  BY <1>1, <1>5, <1>7 DEF OpenFileFails
<1>8. CASE WriteFileHeader
  BY <1>2, <1>8, FieldSteps DEF WriteFileHeader
<1>9. CASE WriteSessionStart
  BY <1>3, <1>4, <1>9, WriteRecordGrows DEF WriteSessionStart
<1>10. CASE ReemitChannelDef
  <2>1. seg.count \in Nat
    BY DEF Inv, TypeOK, SegmentStates
  <2>2. QED
    BY <1>3, <1>4, <1>10, <2>1, WriteRecordGrows DEF ReemitChannelDef
<1>11. CASE OpenSegmentReturns
  BY <1>1, <1>11 DEF OpenSegmentReturns
<1>12. CASE FlushLoopReturns
  BY <1>1, <1>12 DEF FlushLoopReturns
<1>13. CASE SkipChannel
  BY <1>1, <1>13 DEF SkipChannel
<1>14. CASE FlushChannel
  <2>1. i \in ChannelIds
    BY <1>14, LoopChannel DEF FlushChannel, Inv
  <2>2. FlushStep(i)
    BY <1>14, <2>1, FlushWritesChunk DEF FlushStep, FlushChannel
  <2>3. QED
    BY <2>1, <2>2 DEF LogStep
<1>15. CASE RotateForChannel
  BY <1>1, <1>15 DEF RotateForChannel
<1>16. CASE WriteChannelDef
  <2>1. Len(chans) \in Nat
    BY DEF Inv, TypeOK
  <2>2. QED
    BY <1>3, <1>4, <1>16, <2>1, WriteRecordGrows DEF WriteChannelDef
<1>17. CASE WriteData
  <2>1. DataRecord \in Records
    BY FixedRecordTypes DEF Inv
  <2>2. DataStep
    BY <1>17, <2>1, WriteRecordGrows DEF DataStep, WriteData
  <2>3. QED
    BY <2>2 DEF LogStep
<1>18. CASE FlushWritten
  <2>1. call.ch \in ChannelIds
    BY <1>18, WriteTarget DEF FlushWritten, Inv
  <2>2. FlushStep(call.ch)
    BY <1>18, <2>1, FlushWritesChunk DEF FlushStep, FlushWritten
  <2>3. QED
    BY <2>1, <2>2 DEF LogStep
<1>19. CASE RotateForWrite
  BY <1>1, <1>19 DEF RotateForWrite
<1>20. CASE WriteAnnotation
  <2>1. AnnotationRecord \in Records
    BY FixedRecordTypes DEF Inv
  <2>2. AnnotationStep
    BY <1>20, <2>1, WriteRecordGrows DEF AnnotationStep, WriteAnnotation
  <2>3. QED
    BY <2>2 DEF LogStep
<1>21. CASE WriteIndex
  BY <1>3, <1>4, <1>21, TailRecordsGrow DEF WriteIndex
<1>22. CASE WriteSessionEnd
  BY <1>3, <1>4, <1>22, TailRecordsGrow DEF WriteSessionEnd
<1>23. CASE WriteFooter
  BY <1>2, <1>23, FieldSteps DEF WriteFooter
<1>24. CASE SealSegment
  BY <1>2, <1>24, FieldSteps DEF SealSegment
<1>25. CASE WriteManifest
  BY <1>1, <1>25 DEF WriteManifest
<1>26. CASE WriteManifestFails
  BY <1>1, <1>26 DEF WriteManifestFails
<1>27. CASE Destroy
  <2>1. DestroyStep
    BY <1>27, FieldSteps DEF DestroyStep, Destroy
  <2>2. QED
    BY <2>1 DEF LogStep
<1>28. CASE WriteFails
  BY <1>1, <1>28 DEF WriteFails
<1>29. CASE MemoryFault
  BY <1>1, <1>29 DEF MemoryFault
<1>30. QED
  BY <1>6, <1>7, <1>8, <1>9, <1>10, <1>11, <1>12, <1>13, <1>14, <1>15, <1>16, <1>17, <1>18,
     <1>19, <1>20, <1>21, <1>22, <1>23, <1>24, <1>25, <1>26, <1>27, <1>28, <1>29 DEF Step

LEMMA EveryStepLogs ==
  ASSUME Inv, MarksMatchBuffer, [Next]_vars
  PROVE  LogStep
<1>1. UNCHANGED vars => UNCHANGED <<files, accum, pushed>>
  BY DEF vars, memory, disk
<1>2. UNCHANGED vars => LogStep
  BY <1>1 DEF LogStep, QuietLogStep, RecsSame
<1>3. QED
  BY <1>2, ClientLogStep, StepLogStep DEF Next

(***************************************************************************)
(* Buffers and flushes: the second inductive invariant.                    *)
(***************************************************************************)
\* Only compressed channels whose definition was written have a buffer, and a
\* DATA record is only written for the others.
BufferInv ==
  /\ \A c \in ChannelIds :
        accum[c].buf # <<>> => /\ c \in DOMAIN chans /\ chans[c].comp
                               /\ pc = "define" => c # Len(chans)
  /\ pc = "data" => ~chans[call.ch].comp

\* A rotation inside the flush loop returns to the loop, and only happens in a
\* session of several files.
InnerInv ==
  inner => /\ ~single
           /\ pc \in {"index", "end", "footer", "seal", "open", "header", "start", "defs", "dead"}

EmptyBefore(n) == \A c \in ChannelIds : c < n => accum[c].buf = <<>>

\* The loop leaves no buffer behind it, also over a rotation inside it.
LoopInv ==
  /\ pc = "loop" \/ inner => EmptyBefore(i)
  /\ pc = "annot" => \A c \in ChannelIds : accum[c].buf = <<>>
  /\ FlushEmptiesBuffers

FlushInv == BufferInv /\ InnerInv /\ LoopInv

LEMMA FlushClient == TypeOK /\ FlushInv /\ Client => FlushInv'
<1> SUFFICES ASSUME TypeOK, FlushInv, Client PROVE FlushInv'
  OBVIOUS
<1> USE DEF control, memory, disk, Call, EnterClose, AfterClose, Return, Counting
<1>1. ASSUME UNCHANGED <<single, chans, accum, inner>>, pc \in {"new", "ready"},
             pc' \notin {"define", "annot"}, pc' = "data" => ~chans[call'.ch].comp,
             pc' = "loop" => i' = 1,
             pc' = "ready" => call'.op \notin {"Flush", "Annotate"}
      PROVE  FlushInv'
  <2>1. BufferInv'
    BY <1>1 DEF FlushInv, BufferInv
  <2>2. ~inner
    BY <1>1 DEF FlushInv, InnerInv
  <2>3. InnerInv'
    BY <1>1, <2>2 DEF InnerInv
  <2>4. LoopInv'
    <3>1. \A c \in ChannelIds : ~ (c < 1)
      BY DEF ChannelIds
    <3>2. QED
      BY <1>1, <2>2, <3>1 DEF LoopInv, EmptyBefore, FlushEmptiesBuffers
  <2>5. QED
    BY <2>1, <2>3, <2>4 DEF FlushInv
<1>2. ASSUME NEW op, op \notin {"Flush", "Annotate"}, NEW s, Refuse(op, s) PROVE FlushInv'
  BY <1>1, <1>2 DEF Refuse
<1>3. CASE Open
  BY <1>1, <1>3 DEF Open
<1>4. ASSUME NEW cfg \in ChannelConfigs, DefineChannel(cfg) PROVE FlushInv'
  <2>1. UNCHANGED <<accum, inner, single>> /\ pc = "ready" /\ pc' = "define"
    BY <1>4 DEF DefineChannel
  <2>2. chans \in Seq(Channels) /\ cfg \in Channels /\ chans' = Append(chans, cfg)
    BY <1>4, InputTypes DEF DefineChannel, TypeOK
  <2>3. BufferInv'
    <3>1. \A c \in DOMAIN chans : /\ c \in DOMAIN chans' /\ chans'[c] = chans[c]
                                  /\ c # Len(chans')
      BY <2>2
    <3>2. QED
      BY <2>1, <3>1 DEF FlushInv, BufferInv
  <2>4. ~inner
    BY <2>1 DEF FlushInv, InnerInv
  <2>5. QED
    BY <2>1, <2>3, <2>4 DEF FlushInv, InnerInv, LoopInv, FlushEmptiesBuffers
<1>5. ASSUME NEW cfg \in ChannelConfigs, DefineRefused(cfg) PROVE FlushInv'
  BY <1>2, <1>5 DEF DefineRefused
<1>6. ASSUME NEW c \in ChannelIds, WriteUnknown(c) PROVE FlushInv'
  BY <1>2, <1>6 DEF WriteUnknown
<1>7. ASSUME NEW c \in ChannelIds, NEW ts \in Timestamps, NEW len \in Lengths,
             WriteRaw(c, ts, len)
      PROVE  FlushInv'
  <2>1. pc' \in {"data", "loop", "manifest", "open"}
    BY <1>7 DEF WriteRaw
  <2>2. i' = 1 /\ call'.ch = c /\ ~chans[c].comp
    BY <1>7 DEF WriteRaw
  <2>3. UNCHANGED <<single, chans, accum, inner>> /\ pc = "ready"
    BY <1>7 DEF WriteRaw
  <2>4. QED
    BY <1>1, <2>1, <2>2, <2>3
<1>8. ASSUME NEW c \in ChannelIds, NEW ts \in Timestamps, NEW len \in Lengths,
             WriteCompressed(c, ts, len)
      PROVE  FlushInv'
  <2>1. /\ UNCHANGED <<single, chans, inner>> /\ pc = "ready" /\ call'.op = "Write"
        /\ pc' \in {"push", "ready"} /\ c \in DOMAIN chans /\ chans[c].comp
    BY <1>8 DEF WriteCompressed
  <2>2. \A d \in ChannelIds \ {c} : accum'[d] = accum[d]
    BY <1>8 DEF WriteCompressed, Buffered, TypeOK
  <2>3. BufferInv'
    BY <2>1, <2>2 DEF FlushInv, BufferInv
  <2>4. ~inner
    BY <2>1 DEF FlushInv, InnerInv
  <2>5. QED
    BY <2>1, <2>3, <2>4 DEF FlushInv, InnerInv, LoopInv, FlushEmptiesBuffers
<1>9. ASSUME NEW ts \in AnnotationTimes, NEW len \in Lengths, Annotate(ts, len)
      PROVE  FlushInv'
  BY <1>1, <1>9 DEF Annotate
<1>10. CASE Flush
  BY <1>1, <1>10 DEF Flush
<1>11. CASE RotateSegment
  <2>1. pc' \in {"loop", "manifest", "open", "destroy"} /\ i' = 1
    BY <1>11 DEF RotateSegment
  <2>2. QED
    BY <1>1, <1>11, <2>1 DEF RotateSegment
<1>12. CASE RotateRefused
  BY <1>2, <1>12 DEF RotateRefused
<1>13. CASE Close
  <2>1. pc' \in {"loop", "manifest", "open", "destroy"} /\ i' = 1
    BY <1>13 DEF Close
  <2>2. QED
    BY <1>1, <1>13, <2>1 DEF Close
<1>14. CASE Discard
  BY <1>1, <1>14 DEF Discard
<1>15. QED
  BY <1>3, <1>4, <1>5, <1>6, <1>7, <1>8, <1>9, <1>10, <1>11, <1>12, <1>13, <1>14 DEF Client

LEMMA FlushInnerSteps ==
  ASSUME Inv, FlushInv, Step
  PROVE  FlushInv'
<1> USE DEF control, memory, disk, Return
<1>1. TypeOK /\ CallInv /\ BufferInv /\ InnerInv /\ LoopInv
  BY DEF Inv, FlushInv
<1>2. ASSUME UNCHANGED <<chans, accum>>, pc' # "define", pc' = "data" => ~chans'[call'.ch].comp
      PROVE  BufferInv'
  BY <1>1, <1>2 DEF BufferInv
<1>3. ASSUME UNCHANGED accum, UNCHANGED <<single, i, call>>, pc' # "annot",
             inner' => inner /\ pc' \in {"index", "end", "footer", "seal", "open", "header",
                                         "start", "defs", "dead"},
             pc' = "loop" => pc = "loop" \/ inner,
             pc' = "ready" => call.op \notin {"Flush", "Annotate"} \/ st' # "Ok"
      PROVE  InnerInv' /\ LoopInv'
  <2>1. InnerInv'
    BY <1>1, <1>3 DEF InnerInv
  <2>2. LoopInv'
    BY <1>1, <1>3 DEF LoopInv, EmptyBefore, FlushEmptiesBuffers
  <2>3. QED
    BY <2>1, <2>2
<1>4. inner => pc \in {"index", "end", "footer", "seal", "open", "header", "start", "defs", "dead"}
  BY <1>1 DEF InnerInv
<1> DEFINE Bufs(d) == \A c \in ChannelIds \ {d} : accum'[c] = accum[c]
<1>5. ASSUME NEW d \in ChannelIds, accum' = Flushed(d)
      PROVE  accum'[d].buf = <<>> /\ Bufs(d)
  BY <1>1, <1>5 DEF Flushed, EmptyAccum, TypeOK
<1>6. ASSUME NEW s, Fail(s) PROVE pc' \in {"destroy", "manifest", "ready"} /\ st' = s
  BY <1>6 DEF Fail
<1>7. CASE OpenFile
  BY <1>2, <1>3, <1>4, <1>7 DEF OpenFile, FlushInv
<1>8. CASE OpenFileFails
  BY <1>2, <1>3, <1>6, <1>8 DEF OpenFileFails, FlushInv
<1>9. CASE WriteFileHeader
  BY <1>2, <1>3, <1>4, <1>9 DEF WriteFileHeader, FlushInv
<1>10. CASE WriteSessionStart
  <2>1. pc = "start" /\ (pc' = "defs" \/ (single /\ pc' = "ready"))
    BY <1>10 DEF WriteSessionStart
  <2>2. single => ~inner /\ call.op \in {"Open", "Rotate", "Write"}
    BY <1>1, <2>1 DEF InnerInv, CallInv
  <2>3. UNCHANGED <<chans, accum, single, i, call, inner>>
    BY <1>10 DEF WriteSessionStart
  <2>4. BufferInv'
    BY <1>2, <2>1, <2>3
  <2>5. InnerInv' /\ LoopInv'
    BY <1>3, <1>4, <2>1, <2>2, <2>3
  <2>6. QED
    BY <2>4, <2>5 DEF FlushInv
<1>11. CASE ReemitChannelDef
  BY <1>2, <1>3, <1>4, <1>11 DEF ReemitChannelDef, FlushInv
<1>12. CASE OpenSegmentReturns
  <2>1. ~inner => call.op \in {"Open", "Rotate", "Write"}
    BY <1>1, <1>12 DEF OpenSegmentReturns, CallInv
  <2>2. /\ pc' \in {"loop", "manifest", "ready", "reflush", "data"} /\ ~inner'
        /\ pc' = "loop" => inner
        /\ pc' = "ready" => ~inner
        /\ pc' = "data" => ~chans[call.ch].comp
    BY <1>12 DEF OpenSegmentReturns
  <2>3. UNCHANGED <<chans, accum, single, i, call>>
    BY <1>12 DEF OpenSegmentReturns
  <2>4. BufferInv'
    BY <1>2, <2>2, <2>3
  <2>5. InnerInv' /\ LoopInv'
    BY <1>3, <2>1, <2>2, <2>3
  <2>6. QED
    BY <2>4, <2>5 DEF FlushInv
<1>13. CASE FlushLoopReturns
  <2>1. UNCHANGED <<chans, accum, single, i, call, inner>> /\ ~inner
    BY <1>4, <1>13 DEF FlushLoopReturns
  <2>2. BufferInv'
    BY <1>2, <1>13, <2>1 DEF FlushLoopReturns
  <2>3. \A c \in ChannelIds : accum[c].buf = <<>>
    <3> SUFFICES ASSUME NEW c \in ChannelIds, accum[c].buf # <<>> PROVE FALSE
      OBVIOUS
    <3>1. c \in DOMAIN chans
      BY <1>1 DEF BufferInv
    <3>2. c < i
      <4>1. i \in Nat /\ chans \in Seq(Channels) /\ i > Len(chans)
        BY <1>1, <1>13 DEF FlushLoopReturns, AllFlushed, TypeOK
      <4>2. QED
        BY <3>1, <4>1
    <3>3. QED
      BY <1>1, <1>13, <3>2 DEF FlushLoopReturns, LoopInv, EmptyBefore
  <2>4. InnerInv' /\ LoopInv'
    BY <1>13, <2>1, <2>3
    DEF FlushLoopReturns, InnerInv, LoopInv, EmptyBefore, FlushEmptiesBuffers
  <2>5. QED
    BY <2>2, <2>4 DEF FlushInv
<1>14. ASSUME pc = "loop", ~AllFlushed, i' = i + 1, UNCHANGED <<pc, inner, single>>,
              accum'[i].buf = <<>>, Bufs(i)
       PROVE  InnerInv' /\ LoopInv'
  <2>1. ~inner /\ EmptyBefore(i)
    BY <1>1, <1>4, <1>14 DEF LoopInv
  <2>2. \A c \in ChannelIds : c < i + 1 => c < i \/ c = i
    BY <1>1 DEF ChannelIds, TypeOK
  <2>3. EmptyBefore(i)' /\ LoopInv'
    BY <1>14, <2>1, <2>2 DEF EmptyBefore, LoopInv, FlushEmptiesBuffers
  <2>4. QED
    BY <1>14, <2>1, <2>3 DEF InnerInv
<1>15. CASE SkipChannel
  <2>1. i \in ChannelIds /\ accum[i].buf = <<>>
    BY <1>1, <1>15, LoopChannel DEF SkipChannel, NothingToFlush, BufferInv
  <2>2. BufferInv'
    BY <1>2, <1>15 DEF SkipChannel
  <2>3. QED
    BY <1>14, <1>15, <2>1, <2>2 DEF SkipChannel, FlushInv
<1>16. CASE FlushChannel
  <2>1. i \in ChannelIds /\ accum' = Flushed(i)
    BY <1>1, <1>16, LoopChannel DEF FlushChannel, AccFlush
  <2>2. accum'[i].buf = <<>> /\ Bufs(i)
    BY <1>5, <2>1
  <2>3. BufferInv'
    BY <1>1, <1>16, <2>2 DEF FlushChannel, BufferInv
  <2>4. QED
    BY <1>14, <1>16, <2>2, <2>3 DEF FlushChannel, FlushInv
<1>17. CASE RotateForChannel
  <2>1. ~single
    BY <1>17 DEF RotateForChannel, FlushFull, ChunkFull, NeedsRotation
  <2>2. QED
    BY <1>1, <1>2, <1>17, <2>1
    DEF RotateForChannel, FlushInv, InnerInv, LoopInv, EmptyBefore, FlushEmptiesBuffers
<1>18. CASE WriteChannelDef
  <2>1. call.op = "DefineChannel"
    BY <1>1, <1>18 DEF WriteChannelDef, CallInv
  <2>2. QED
    BY <1>2, <1>3, <1>4, <1>18, <2>1 DEF WriteChannelDef, FlushInv
<1>19. CASE WriteData
  <2>1. call.op = "Write"
    BY <1>1, <1>19 DEF WriteData, CallInv
  <2>2. QED
    BY <1>2, <1>3, <1>4, <1>19, <2>1 DEF WriteData, FlushInv
<1>20. CASE FlushWritten
  <2>1. call.op = "Write" /\ call.ch \in ChannelIds /\ accum' = Flushed(call.ch)
    BY <1>1, <1>20, WriteTarget DEF FlushWritten, AccFlush, CallInv
  <2>2. accum'[call.ch].buf = <<>> /\ Bufs(call.ch)
    BY <1>5, <2>1
  <2>3. BufferInv'
    BY <1>1, <1>20, <2>2 DEF FlushWritten, BufferInv
  <2>4. ~inner /\ ~inner'
    BY <1>4, <1>20 DEF FlushWritten
  <2>5. InnerInv' /\ LoopInv'
    BY <1>20, <2>1, <2>4 DEF FlushWritten, InnerInv, LoopInv, FlushEmptiesBuffers
  <2>6. QED
    BY <2>3, <2>5 DEF FlushInv
<1>21. CASE RotateForWrite
  <2>1. call.op = "Write"
    BY <1>1, <1>21 DEF RotateForWrite, CallInv
  <2>2. pc' \in {"index", "manifest", "ready"}
    BY <1>21 DEF RotateForWrite
  <2>3. QED
    BY <1>2, <1>3, <1>4, <1>21, <2>1, <2>2 DEF RotateForWrite, FlushInv
<1>22. CASE WriteAnnotation
  <2>1. UNCHANGED <<chans, accum, single, i, call, inner>> /\ ~inner /\ pc' = "ready"
    BY <1>4, <1>22 DEF WriteAnnotation
  <2>2. \A c \in ChannelIds : accum[c].buf = <<>>
    BY <1>1, <1>22 DEF WriteAnnotation, LoopInv
  <2>3. QED
    BY <1>2, <2>1, <2>2 DEF FlushInv, InnerInv, LoopInv, FlushEmptiesBuffers
<1>23. CASE WriteIndex
  BY <1>2, <1>3, <1>4, <1>23 DEF WriteIndex, FlushInv
<1>24. CASE WriteSessionEnd
  BY <1>2, <1>3, <1>4, <1>24 DEF WriteSessionEnd, FlushInv
<1>25. CASE WriteFooter
  BY <1>2, <1>3, <1>4, <1>25 DEF WriteFooter, FlushInv
<1>26. CASE SealSegment
  <2>1. pc' \in {"open", "destroy", "manifest"} /\ (inner => pc' = "open")
    BY <1>1, <1>26 DEF SealSegment, AfterClose, InnerInv
  <2>2. QED
    BY <1>2, <1>3, <1>26, <2>1 DEF SealSegment, FlushInv
<1>27. ASSUME NEW b, pc' = AfterManifest(b), call.op = "Open" => (b \/ st' # "Ok"),
              UNCHANGED <<chans, accum, single, i, call, inner>>, pc = "manifest"
       PROVE  FlushInv'
  <2>1. pc' \in {"ready", "destroy", "open"} /\ (pc' = "ready" => call.op = "Open") /\ ~inner
    BY <1>4, <1>27 DEF AfterManifest
  <2>2. QED
    BY <1>2, <1>3, <1>27, <2>1 DEF FlushInv
<1>28. CASE WriteManifest
  BY <1>27, <1>28 DEF WriteManifest
<1>29. CASE WriteManifestFails
  <2>1. call.op = "Open" => st' # "Ok"
    BY <1>29 DEF WriteManifestFails
  <2>2. QED
    BY <1>27, <1>29, <2>1 DEF WriteManifestFails
<1>30. CASE Destroy
  <2>1. \A c \in ChannelIds : accum'[c].buf = <<>>
    BY <1>30 DEF Destroy, EmptyAccum
  <2>2. ~inner' /\ pc' = "closed"
    BY <1>4, <1>30 DEF Destroy
  <2>3. QED
    BY <2>1, <2>2 DEF FlushInv, BufferInv, InnerInv, LoopInv, EmptyBefore, FlushEmptiesBuffers
<1>31. CASE WriteFails
  <2>1. /\ pc' \in {"destroy", "manifest", "ready"} /\ st' = "ErrorIO" /\ ~inner'
        /\ UNCHANGED <<accum, single, i, call>>
    BY <1>6, <1>31 DEF WriteFails
  <2>2. InnerInv' /\ LoopInv'
    BY <1>3, <2>1
  <2>3. CASE pc = "define"
    <3>1. chans' = SubSeq(chans, 1, Len(chans) - 1) /\ chans \in Seq(Channels)
      BY <1>1, <1>31, <2>3 DEF WriteFails, TypeOK
    <3>2. \A c \in DOMAIN chans : c # Len(chans) => c \in DOMAIN chans' /\ chans'[c] = chans[c]
      BY <3>1
    <3>3. BufferInv'
      BY <1>1, <2>1, <2>3, <3>2 DEF BufferInv
    <3>4. QED
      BY <2>2, <3>3 DEF FlushInv
  <2>4. CASE pc # "define"
    <3>1. chans' = chans
      BY <1>31, <2>4 DEF WriteFails
    <3>2. QED
      BY <1>2, <2>1, <2>2, <3>1 DEF FlushInv
  <2>5. QED
    BY <2>3, <2>4
<1>32. CASE MemoryFault
  BY <1>2, <1>3, <1>32 DEF MemoryFault, FlushInv
<1>33. QED
  BY <1>7, <1>8, <1>9, <1>10, <1>11, <1>12, <1>13, <1>15, <1>16, <1>17, <1>18, <1>19, <1>20,
     <1>21, <1>22, <1>23, <1>24, <1>25, <1>26, <1>28, <1>29, <1>30, <1>31, <1>32 DEF Step

(***************************************************************************)
(* No message is lost, doubled or overtaken.                               *)
(***************************************************************************)
\* What the disk and the buffer of a channel hold together.
Held(c) == Stored(c) \o accum[c].buf

LEMMA HeldInStep ==
  ASSUME Inv, MarksMatchBuffer, BufferInv, [Next]_vars, pc' # "closed",
         NEW c \in ChannelIds, Held(c) = pushed[c]
  PROVE  Held(c)' = pushed'[c]
<1> DEFINE st0 == Stored(c)
           b == accum[c].buf
<1>1. /\ files \in Seq(SegmentFiles) /\ st0 \in Seq(Messages) /\ b \in Seq(Messages)
      /\ accum \in [ChannelIds -> Accums] /\ pushed \in [ChannelIds -> Seq(Messages)]
  BY StoredType DEF Inv, TypeOK, Accums
<1>2. Held(c)' = Stored(c)' \o accum'[c].buf
  BY DEF Held
<1>3. LogStep
  BY EveryStepLogs
<1>4. CASE QuietLogStep
  <2>1. ASSUME NEW r \in Records, Plain(r), RecsGrow(r) PROVE Stored(c)' = Stored(c)
    <3>1. MessagesOf(r, c) = <<>>
      BY <2>1 DEF Plain, MessagesOf, HoldsData, IsData
    <3>2. Stored(c)' = Stored(c) \o <<>>
      BY <1>1, <2>1, <3>1, StoredGrows
    <3>3. QED
      BY <1>1, <3>2
  <2>2. Stored(c)' = Stored(c)
    BY <1>1, <1>4, <2>1, StoredSame, StoredNew DEF QuietLogStep
  <2>3. QED
    BY <1>2, <1>4, <2>2 DEF QuietLogStep, Held
<1>5. CASE AnnotationStep
  <2>1. AnnotationRecord \in Records /\ MessagesOf(AnnotationRecord, c) = <<>>
    BY FixedRecordTypes DEF Inv, AnnotationRecord, Rec, MessagesOf, HoldsData, IsData
  <2>2. Stored(c)' = Stored(c) \o <<>>
    BY <1>1, <1>5, <2>1, StoredGrows DEF AnnotationStep
  <2>3. Stored(c)' = Stored(c)
    BY <1>1, <2>2
  <2>4. QED
    BY <1>2, <1>5, <2>3 DEF AnnotationStep, Held
<1>6. CASE BufferStep
  <2>1. PICK d \in ChannelIds, ts \in Timestamps, len \in Lengths : WriteCompressed(d, ts, len)
    BY <1>6 DEF BufferStep
  <2> DEFINE m == [n |-> calls', ts |-> ts, len |-> len]
  <2>2. /\ accum' = Buffered(d, m)
        /\ pushed' = [pushed EXCEPT ![d] = Append(@, m)]
    BY <2>1 DEF WriteCompressed
  <2>3. m \in Messages
    <3>1. calls' \in Nat
      BY <2>1 DEF WriteCompressed, Counting, Inv, TypeOK
    <3>2. QED
      BY <3>1, InputTypes DEF Messages
  <2> HIDE DEF m
  <2>4. Stored(c)' = Stored(c)
    BY <1>6, StoredSame DEF BufferStep
  <2>5. CASE c = d
    <3>1. accum'[c].buf = Append(b, m)
      BY <1>1, <2>2, <2>5 DEF Buffered
    <3>2. pushed'[c] = Append(pushed[c], m)
      BY <1>1, <2>2, <2>5
    <3>3. st0 \o Append(b, m) = Append(st0 \o b, m)
      <4> HIDE DEF st0, b
      <4>1. \A s, t \in Seq(Messages) : s \o Append(t, m) = Append(s \o t, m)
        BY <2>3
      <4>2. QED
        BY <1>1, <4>1
    <3>4. QED
      BY <1>2, <2>4, <3>1, <3>2, <3>3 DEF Held
  <2>6. CASE c # d
    <3>1. accum'[c] = accum[c] /\ pushed'[c] = pushed[c]
      BY <1>1, <2>2, <2>6 DEF Buffered
    <3>2. QED
      BY <1>2, <2>4, <3>1 DEF Held
  <2>7. QED
    BY <2>5, <2>6
<1>7. CASE DataStep
  <2>1. DataRecord \in Records /\ call.ch \in ChannelIds
    BY <1>7, FixedRecordTypes, WriteTarget DEF Inv, DataStep, WriteData
  <2>2. /\ Stored(c)' = st0 \o MessagesOf(DataRecord, c)
        /\ pushed' = [pushed EXCEPT ![call.ch] = Append(@, CallMessage)]
        /\ accum' = accum
    BY <1>1, <1>7, <2>1, StoredGrows DEF DataStep, WriteData
  <2>3. CASE c = call.ch
    <3>1. MessagesOf(DataRecord, c) = <<CallMessage>>
      BY <2>3 DEF DataRecord, Rec, MessagesOf, HoldsData, IsData
    <3>2. CallMessage \in Messages
      BY DEF CallMessage, Messages, Inv, TypeOK
    <3>3. b = <<>>
      BY <1>7, <2>1, <2>3 DEF DataStep, WriteData, BufferInv
    <3>4. Held(c)' = (st0 \o <<CallMessage>>) \o <<>> /\ pushed[c] = st0 \o <<>>
      BY <1>2, <2>2, <3>1, <3>3 DEF Held
    <3>5. pushed'[c] = Append(pushed[c], CallMessage)
      BY <1>1, <2>2, <2>3
    <3> HIDE DEF st0
    <3>6. \A s \in Seq(Messages), m \in Messages :
             (s \o <<m>>) \o <<>> = Append(s \o <<>>, m)
      OBVIOUS
    <3>7. QED
      BY <1>1, <3>2, <3>4, <3>5, <3>6
  <2>4. CASE c # call.ch
    <3>1. MessagesOf(DataRecord, c) = <<>>
      BY <2>4 DEF DataRecord, Rec, MessagesOf, HoldsData, IsData
    <3>2. pushed'[c] = pushed[c] /\ Stored(c)' = st0
      BY <1>1, <2>2, <2>4, <3>1
    <3>3. QED
      BY <1>2, <2>2, <3>2 DEF Held
  <2>5. QED
    BY <2>3, <2>4
<1>8. ASSUME NEW d \in ChannelIds, FlushStep(d) PROVE Held(c)' = pushed'[c]
  <2>1. ChunkRecord(d) \in Records /\ accum' = [accum EXCEPT ![d] = EmptyAccum]
    BY <1>8, ChunkRecordType DEF Inv, FlushStep, AccFlush, Flushed
  <2>2. Stored(c)' = st0 \o MessagesOf(ChunkRecord(d), c) /\ pushed' = pushed
    BY <1>1, <1>8, <2>1, StoredGrows DEF FlushStep
  <2>3. CASE c = d
    <3>1. MessagesOf(ChunkRecord(d), c) = b
      BY <2>3 DEF ChunkRecord, Rec, MessagesOf, HoldsData, IsData
    <3>2. accum'[c].buf = <<>>
      BY <1>1, <2>1, <2>3 DEF EmptyAccum
    <3>3. (st0 \o b) \o <<>> = st0 \o b
      <4> HIDE DEF st0, b
      <4>1. st0 \o b \in Seq(Messages)
        BY <1>1
      <4>2. QED
        BY <4>1
    <3>4. QED
      BY <1>2, <2>2, <3>1, <3>2, <3>3 DEF Held
  <2>4. CASE c # d
    <3>1. MessagesOf(ChunkRecord(d), c) = <<>>
      BY <2>4 DEF ChunkRecord, Rec, MessagesOf, HoldsData, IsData
    <3>2. accum'[c] = accum[c]
      BY <1>1, <2>1, <2>4
    <3>3. Stored(c)' = st0
      BY <1>1, <2>2, <3>1
    <3>4. QED
      BY <1>2, <2>2, <3>2, <3>3 DEF Held
  <2>5. QED
    BY <2>3, <2>4
<1>9. CASE DestroyStep
  BY <1>9 DEF DestroyStep, Destroy
<1>10. QED
  BY <1>3, <1>4, <1>5, <1>6, <1>7, <1>8, <1>9 DEF LogStep

\* The invariants of this module, over those of RecorderProof.
LogInv == FlushInv /\ NothingLostOrReordered

LEMMA LogInit == Init => LogInv
<1> SUFFICES ASSUME Init PROVE LogInv
  OBVIOUS
<1>1. \A c \in ChannelIds : accum[c].buf = <<>> /\ pushed[c] = <<>>
  BY DEF Init, EmptyAccum
<1>2. FlushInv
  BY <1>1 DEF Init, FlushInv, BufferInv, InnerInv, LoopInv, FlushEmptiesBuffers
<1>3. \A c : Stored(c) = <<>>
  <2> TAKE c
  <2>1. files = <<>>
    BY DEF Init
  <2>2. [k \in DOMAIN files |-> InFile(files[k], c)] = <<>>
    BY <2>1
  <2>3. QED
    BY <2>2, FlattenEmpty, StoredIs
<1>4. NothingLostOrReordered
  <2>1. \A c \in ChannelIds : <<>> \o accum[c].buf = pushed[c]
    BY <1>1
  <2>2. QED
    BY <1>3, <2>1 DEF NothingLostOrReordered
<1>5. QED
  BY <1>2, <1>4 DEF LogInv

LEMMA ClosedIsLast == pc = "closed" /\ [Next]_vars => UNCHANGED vars
BY DEF Next, Client, Step, Open, DefineChannel, DefineRefused, Refuse, WriteUnknown,
       WriteRaw, WriteCompressed, Counting, Annotate, Flush, RotateSegment, RotateRefused,
       Close, Discard, OpenFile, OpenFileFails, WriteFileHeader, WriteSessionStart,
       ReemitChannelDef, OpenSegmentReturns, FlushLoopReturns, SkipChannel, FlushChannel,
       RotateForChannel, WriteChannelDef, WriteData, FlushWritten, RotateForWrite,
       WriteAnnotation, WriteIndex, WriteSessionEnd, WriteFooter, SealSegment,
       WriteManifest, WriteManifestFails, Destroy, WriteFails, MemoryFault, Writing

LEMMA LogNext ==
  ASSUME Inv, MarksMatchBuffer, LogInv, [Next]_vars
  PROVE  LogInv'
<1>1. FlushInv'
  <2>1. ASSUME UNCHANGED vars PROVE FlushInv'
    BY <2>1
    DEF LogInv, vars, control, memory, FlushInv, BufferInv, InnerInv, LoopInv, EmptyBefore,
        FlushEmptiesBuffers
  <2>2. QED
    BY <2>1, FlushClient, FlushInnerSteps DEF Inv, LogInv, Next
<1>2. NothingLostOrReordered'
  <2> SUFFICES ASSUME pc' # "closed", NEW c \in ChannelIds PROVE Held(c)' = pushed'[c]
    BY DEF NothingLostOrReordered, Held, Stored, InFile
  <2>2. pc # "closed"
    BY ClosedIsLast DEF vars, control
  <2>3. Held(c) = pushed[c]
    BY <2>2 DEF LogInv, NothingLostOrReordered, Held
  <2>4. QED
    BY <2>3, HeldInStep DEF LogInv, FlushInv
<1>3. QED
  BY <1>1, <1>2 DEF LogInv

LEMMA LogAlways == Spec => [](Inv /\ MarksMatchBuffer /\ LogInv)
<1>1. Inv /\ MarksMatchBuffer /\ LogInv /\ [Next]_vars => LogInv'
  BY LogNext
<1>2. QED
  BY <1>1, LogInit, InvAlways, MarksAlwaysMatch, PTL DEF Spec

\* Through rotations, failed writes and retries, the segment files followed by
\* the buffer hold each channel's messages once each and in the order of Write,
\* until the session is destroyed.
THEOREM NeverLostOrReordered == Spec => []NothingLostOrReordered
<1>1. LogInv => NothingLostOrReordered
  BY DEF LogInv
<1>2. QED
  BY <1>1, LogAlways, PTL

\* When Flush or Annotate returns Ok the loop over the accumulators, with the
\* rotations inside it, has left no message in any of them.
THEOREM FlushAlwaysEmpties == Spec => []FlushEmptiesBuffers
<1>1. LogInv => FlushEmptiesBuffers
  BY DEF LogInv, FlushInv, LoopInv
<1>2. QED
  BY <1>1, LogAlways, PTL

(***************************************************************************)
(* The recorder implements ChannelLog.                                     *)
(***************************************************************************)
LogMessages == [n: 1..MaxCalls, ts: Timestamps, len: Lengths]

\* The arguments of a Write, while it is under way.
ArgsInv ==
  call.op = "Write" /\ pc # "ready" =>
     call.ts \in Timestamps /\ call.len \in Lengths /\ calls \in 1..MaxCalls

LEMMA ArgsNext ==
  ASSUME Inv, ArgsInv, [Next]_vars
  PROVE  ArgsInv'
<1> USE DEF control, memory, disk, Call, Return, Counting
<1>1. ASSUME UNCHANGED <<call, calls>>, pc # "ready" PROVE ArgsInv'
  BY <1>1 DEF ArgsInv
<1>2. ASSUME call'.op # "Write" \/ pc' = "ready" PROVE ArgsInv'
  BY <1>2 DEF ArgsInv
<1>3. ASSUME calls < MaxCalls, calls' = calls + 1 PROVE calls' \in 1..MaxCalls
  BY <1>3, LimitsAssumption DEF Inv, TypeOK
<1>4. ASSUME NEW c \in ChannelIds, NEW ts \in Timestamps, NEW len \in Lengths,
             WriteRaw(c, ts, len) \/ WriteCompressed(c, ts, len)
      PROVE  ArgsInv'
  <2>1. call' = [op |-> "Write", ch |-> c, ts |-> ts, len |-> len]
    BY <1>4 DEF WriteRaw, WriteCompressed
  <2>2. calls' \in 1..MaxCalls
    BY <1>3, <1>4 DEF WriteRaw, WriteCompressed
  <2>3. QED
    BY <2>1, <2>2 DEF ArgsInv
<1>5. CASE Client
  <2>1. ASSUME NEW op, NEW s, Refuse(op, s) PROVE pc' = "ready"
    BY <2>1 DEF Refuse
  <2>2. (\E c \in ChannelIds, ts \in Timestamps, len \in Lengths :
            WriteRaw(c, ts, len) \/ WriteCompressed(c, ts, len))
         \/ call'.op # "Write" \/ pc' = "ready"
    BY <1>5, <2>1
    DEF Client, Open, DefineChannel, DefineRefused, WriteUnknown, Annotate, Flush,
        RotateSegment, RotateRefused, Close, Discard
  <2>3. QED
    BY <1>2, <1>4, <2>2
<1>6. CASE Step
  <2>1. UNCHANGED <<call, calls>> /\ pc # "ready"
    BY <1>6
    DEF Step, OpenFile, OpenFileFails, WriteFileHeader, WriteSessionStart, ReemitChannelDef,
        OpenSegmentReturns, FlushLoopReturns, SkipChannel, FlushChannel, RotateForChannel,
        WriteChannelDef, WriteData, FlushWritten, RotateForWrite, WriteAnnotation, WriteIndex,
        WriteSessionEnd, WriteFooter, SealSegment, WriteManifest, WriteManifestFails, Destroy,
        WriteFails, MemoryFault, Writing
  <2>2. QED
    BY <1>1, <2>1
<1>7. CASE UNCHANGED vars
  BY <1>7 DEF vars, ArgsInv
<1>8. QED
  BY <1>5, <1>6, <1>7 DEF Next

\* Each step maps to a step of ChannelLog, or to none.
LEMMA StepImplementsLog ==
  ASSUME Inv, Inv', MarksMatchBuffer, LogInv, LogInv', ArgsInv, [Next]_vars
  PROVE  [Log!Next]_(Log!logVars)
<1> DEFINE stored == [c \in ChannelIds |-> Stored(c)]
           Unmoved == stored' = stored /\ pushed' = pushed
<1>1. /\ files \in Seq(SegmentFiles) /\ \A c : Stored(c) \in Seq(Messages)
      /\ accum \in [ChannelIds -> Accums] /\ pushed \in [ChannelIds -> Seq(Messages)]
      /\ \A c \in ChannelIds : accum[c].buf \in Seq(Messages)
  BY StoredType DEF Inv, TypeOK, Accums
<1>2. FlushSucceeded \in BOOLEAN /\ FlushSucceeded' \in BOOLEAN
  BY DEF FlushSucceeded
<1>3. LogStep
  BY EveryStepLogs
<1>4. CASE UNCHANGED vars
  <2>1. UNCHANGED <<pc, call, st, files, pushed>>
    BY <1>4 DEF vars, control, disk
  <2>2. stored' = stored /\ FlushSucceeded' = FlushSucceeded
    BY <2>1 DEF FlushSucceeded, Stored, InFile
  <2>3. QED
    BY <2>1, <2>2 DEF Log!logVars
<1>5. CASE pc # "closed" /\ [Next]_vars
  <2>1. \A c \in ChannelIds : Stored(c) \o accum[c].buf = pushed[c]
    BY <1>5 DEF LogInv, NothingLostOrReordered
  <2>2. ASSUME Unmoved PROVE Log!Next
    <3>1. CASE FlushSucceeded'
      <4>1. \A c \in ChannelIds : accum'[c].buf = <<>> /\ pc' # "closed"
        BY <3>1 DEF LogInv, FlushInv, LoopInv, FlushEmptiesBuffers, FlushSucceeded
      <4>2. \A c \in ChannelIds : Stored(c)' \o <<>> = pushed'[c]
        BY <4>1 DEF LogInv, NothingLostOrReordered
      <4>3. \A c \in ChannelIds : Stored(c)' = Stored(c)
        BY <2>2
      <4>4. \A c \in ChannelIds : Stored(c) = pushed[c]
        BY <1>1, <2>2, <4>2, <4>3
      <4>5. stored = pushed
        BY <1>1, <4>4
      <4>6. QED
        BY <2>2, <3>1, <4>5, <1>2 DEF Log!Next, Log!Sync
    <3>2. CASE ~FlushSucceeded'
      BY <1>2, <2>2, <3>2 DEF Log!Next, Log!Act
    <3>3. QED
      BY <3>1, <3>2
  <2>3. CASE QuietLogStep
    <3>1. ASSUME NEW r \in Records, Plain(r), RecsGrow(r), NEW c PROVE Stored(c)' = Stored(c)
      <4>1. MessagesOf(r, c) = <<>>
        BY <3>1 DEF Plain, MessagesOf, HoldsData, IsData
      <4>2. Stored(c)' = Stored(c) \o <<>>
        BY <1>1, <3>1, <4>1, StoredGrows
      <4>3. QED
        BY <1>1, <4>2
    <3>2. \A c : Stored(c)' = Stored(c)
      BY <1>1, <2>3, <3>1, StoredSame, StoredNew DEF QuietLogStep
    <3>3. Unmoved
      BY <2>3, <3>2 DEF QuietLogStep
    <3>4. QED
      BY <2>2, <3>3
  <2>4. CASE AnnotationStep
    <3>1. AnnotationRecord \in Records /\ \A c : MessagesOf(AnnotationRecord, c) = <<>>
      BY FixedRecordTypes DEF Inv, AnnotationRecord, Rec, MessagesOf, HoldsData, IsData
    <3>2. \A c : Stored(c)' = Stored(c) \o <<>>
      BY <1>1, <2>4, <3>1, StoredGrows DEF AnnotationStep
    <3>3. Unmoved
      BY <1>1, <2>4, <3>2 DEF AnnotationStep
    <3>4. QED
      BY <2>2, <3>3
  <2>5. CASE BufferStep
    <3>1. PICK d \in ChannelIds, ts \in Timestamps, len \in Lengths : WriteCompressed(d, ts, len)
      BY <2>5 DEF BufferStep
    <3> DEFINE m == [n |-> calls', ts |-> ts, len |-> len]
    <3>2. calls' \in 1..MaxCalls /\ m \in LogMessages
      <4>1. calls' \in 1..MaxCalls
        BY <3>1, LimitsAssumption DEF WriteCompressed, Counting, Inv, TypeOK
      <4>2. QED
        BY <4>1 DEF LogMessages
    <3>3. pushed' = [pushed EXCEPT ![d] = Append(@, m)] /\ ~FlushSucceeded'
      BY <3>1 DEF WriteCompressed, FlushSucceeded, Call
    <3>4. stored' = stored
      BY <2>5, StoredSame DEF BufferStep
    <3> HIDE DEF m, stored
    <3>5. Log!Take(d, m)
      BY <1>2, <3>3, <3>4 DEF Log!Take, stored
    <3>6. QED
      BY <3>2, <3>5 DEF Log!Next, LogMessages
  <2>6. CASE DataStep
    <3>1. DataRecord \in Records /\ call.ch \in ChannelIds
      BY <2>6, FixedRecordTypes, WriteTarget DEF Inv, DataStep, WriteData
    <3>2. \A c : Stored(c)' = Stored(c) \o MessagesOf(DataRecord, c)
      BY <1>1, <2>6, <3>1, StoredGrows DEF DataStep
    <3>3. \A c : MessagesOf(DataRecord, c) = IF c = call.ch THEN <<CallMessage>> ELSE <<>>
      BY DEF DataRecord, Rec, MessagesOf, HoldsData, IsData
    <3>4. call.op = "Write" /\ call' = call /\ pc = "data"
      BY <2>6 DEF DataStep, WriteData, Inv, CallInv
    <3>5. CallMessage \in LogMessages /\ CallMessage \in Messages
      BY <3>4 DEF ArgsInv, CallMessage, LogMessages, Messages, Inv, TypeOK
    <3>6. pushed' = [pushed EXCEPT ![call.ch] = Append(@, CallMessage)] /\ ~FlushSucceeded'
      BY <2>6, <3>4 DEF DataStep, WriteData, FlushSucceeded
    <3>7. Stored(call.ch) = pushed[call.ch]
      <4>1. accum[call.ch].buf = <<>>
        BY <3>1, <3>4 DEF LogInv, FlushInv, BufferInv
      <4>2. Stored(call.ch) \o <<>> = pushed[call.ch]
        BY <2>1, <3>1, <4>1
      <4>3. QED
        BY <1>1, <4>2
    <3>8. stored' = [stored EXCEPT ![call.ch] = Append(@, CallMessage)]
      <4> PICK d \in ChannelIds : d = call.ch
        BY <3>1
      <4>1. \A c \in ChannelIds \ {d} : Stored(c)' = Stored(c)
        <5>1. \A c \in ChannelIds \ {d} : Stored(c)' = Stored(c) \o <<>>
          BY <3>2, <3>3
        <5>2. QED
          BY <1>1, <5>1
      <4>2. Stored(d)' = Append(Stored(d), CallMessage)
        <5>1. Stored(d)' = Stored(d) \o <<CallMessage>>
          BY <3>2, <3>3
        <5> HIDE DEF CallMessage
        <5>2. \A s \in Seq(Messages) : s \o <<CallMessage>> = Append(s, CallMessage)
          BY <3>5
        <5>3. QED
          BY <1>1, <5>1, <5>2
      <4>3. stored' = [stored EXCEPT ![d] = Append(@, CallMessage)]
        BY <4>1, <4>2
      <4>4. QED
        BY <4>3
    <3>9. stored[call.ch] = pushed[call.ch]
      BY <3>1, <3>7
    <3> HIDE DEF stored
    <3>10. Log!TakeAndStore(call.ch, CallMessage)
      BY <1>2, <3>6, <3>8, <3>9 DEF Log!TakeAndStore, stored
    <3>11. QED
      BY <3>1, <3>5, <3>10 DEF Log!Next, LogMessages
  <2>7. ASSUME NEW d \in ChannelIds, FlushStep(d) PROVE Log!Next
    <3>1. ChunkRecord(d) \in Records /\ pushed' = pushed /\ accum[d].buf # <<>>
      BY <2>7, ChunkRecordType DEF Inv, FlushStep, AccFlush, NothingToFlush
    <3>2. \A c : Stored(c)' = Stored(c) \o MessagesOf(ChunkRecord(d), c)
      BY <1>1, <2>7, <3>1, StoredGrows DEF FlushStep
    <3>3. \A c : MessagesOf(ChunkRecord(d), c) = IF c = d THEN accum[d].buf ELSE <<>>
      BY DEF ChunkRecord, Rec, MessagesOf, HoldsData, IsData
    <3>4. Stored(d)' = pushed[d] /\ \A c \in ChannelIds \ {d} : Stored(c)' = Stored(c)
      <4>1. \A c \in ChannelIds \ {d} : Stored(c)' = Stored(c) \o <<>>
        BY <3>2, <3>3
      <4>2. Stored(d)' = Stored(d) \o accum[d].buf
        BY <3>2, <3>3
      <4>3. QED
        BY <1>1, <2>1, <4>1, <4>2
    <3>5. Len(pushed[d]) \in (Len(Stored(d)) + 1)..Len(pushed[d])
      <4>1. \A s, t \in Seq(Messages) :
               t # <<>> => Len(s) + 1 <= Len(s \o t) /\ Len(s \o t) \in Nat /\ Len(s) \in Nat
        OBVIOUS
      <4>2. QED
        BY <1>1, <2>1, <3>1, <4>1
    <3>6. pushed[d] = SubSeq(pushed[d], 1, Len(pushed[d]))
      BY <1>1
    <3>7. FlushSucceeded' = FlushSucceeded
      BY <2>7 DEF FlushStep, FlushChannel, FlushWritten, FlushSucceeded, Inv, CallInv
    <3>8. stored' = [stored EXCEPT ![d] = SubSeq(pushed[d], 1, Len(pushed[d]))]
      BY <3>4, <3>6
    <3>9. stored[d] = Stored(d)
      OBVIOUS
    <3> HIDE DEF stored
    <3>10. Log!Store(d)
      BY <3>1, <3>5, <3>7, <3>8, <3>9 DEF Log!Store, stored
    <3>11. QED
      BY <3>10 DEF Log!Next
  <2>8. CASE DestroyStep
    <3>1. Unmoved
      BY <2>8, StoredSame DEF DestroyStep
    <3>2. QED
      BY <2>2, <3>1
  <2>9. QED
    BY <1>3, <2>3, <2>4, <2>5, <2>6, <2>7, <2>8 DEF LogStep
<1>6. QED
  BY <1>4, <1>5, ClosedIsLast

LEMMA InitImplementsLog == Init /\ LogInv => Log!Init
<1> SUFFICES ASSUME Init, LogInv PROVE Log!Init
  OBVIOUS
<1>1. pc = "new" /\ \A c \in ChannelIds : accum[c].buf = <<>> /\ pushed[c] = <<>>
  BY DEF Init, EmptyAccum
<1>2. \A c \in ChannelIds : Stored(c) \o <<>> = <<>>
  BY <1>1 DEF LogInv, NothingLostOrReordered
<1>3. \A c : Stored(c) \in Seq(Messages)
  BY StoredType, TypeInit DEF TypeOK
<1>4. \A c \in ChannelIds : Stored(c) = <<>>
  BY <1>2, <1>3
<1>5. pushed = [c \in ChannelIds |-> <<>>] /\ FlushSucceeded = FALSE
  BY <1>1 DEF Init, FlushSucceeded
<1>6. QED
  BY <1>4, <1>5 DEF Log!Init

\* The writer with its segments, chunks, rotations and failures implements one
\* log per channel: messages are taken in order, what is stored is a prefix of
\* what was taken, and a flush that reports success leaves nothing to be stored.
THEOREM RecorderImplementsLogs == Spec => ImplementsChannelLog
<1>1. Init => ArgsInv
  BY DEF Init, ArgsInv, NoCall
<1>2. Inv /\ ArgsInv /\ [Next]_vars => ArgsInv'
  BY ArgsNext
<1>3. /\ Inv /\ MarksMatchBuffer /\ LogInv /\ ArgsInv
      /\ (Inv /\ MarksMatchBuffer /\ LogInv)' /\ [Next]_vars
      => [Log!Next]_(Log!logVars)
  BY StepImplementsLog
<1>4. QED
  BY <1>1, <1>2, <1>3, LogAlways, InitImplementsLog, PTL DEF Spec, ImplementsChannelLog, Log!Spec

(***************************************************************************)
(* Annotations.                                                            *)
(***************************************************************************)
\* The step a call with a number of its own, which no message has yet, is in.
Unnumbered ==
  pc # "ready" /\ (call.op = "Annotate" \/ (call.op = "Write" /\ ~chans[call.ch].comp))

Newest == IF Unnumbered THEN calls - 1 ELSE calls

\* Messages and annotations carry the numbers of calls that were made before.
NumbersInv ==
  /\ \A c \in ChannelIds : \A m \in ToSet(pushed[c]) : m.n <= Newest
  /\ \A p \in Places : \A m \in ToSet(RecordAt(p).msgs) : m.n <= Newest

AnnotCall == pc = "annot" => call.op = "Annotate"

AnnotationInv == AnnotationsInOrder /\ NumbersInv /\ AnnotCall

\* A call takes a new number when it starts, and only then.
LEMMA CallNumbers ==
  ASSUME TypeOK, CallInv, [Next]_vars
  PROVE  \/ pc = "ready" /\ calls' = calls + 1
         \/ calls' = calls /\ (Unnumbered' => Unnumbered)
<1> USE DEF control, memory, disk, Call
<1>1. CASE UNCHANGED vars
  BY <1>1 DEF vars, Unnumbered
<1>2. CASE Client
  <2>1. ASSUME calls' = calls, pc' = "ready" \/ call'.op \notin {"Annotate", "Write"}
        PROVE  calls' = calls /\ (Unnumbered' => Unnumbered)
    BY <2>1 DEF Unnumbered
  <2>2. ASSUME NEW op, NEW s, Refuse(op, s) PROVE calls' = calls /\ pc' = "ready"
    BY <2>2 DEF Refuse, Return
  <2>3. CASE \E cfg \in ChannelConfigs : DefineRefused(cfg)
    BY <2>1, <2>2, <2>3 DEF DefineRefused
  <2>4. CASE \E c \in ChannelIds : WriteUnknown(c)
    BY <2>1, <2>2, <2>4 DEF WriteUnknown
  <2>5. CASE RotateRefused
    BY <2>1, <2>2, <2>5 DEF RotateRefused
  <2>6. CASE Open \/ (\E cfg \in ChannelConfigs : DefineChannel(cfg)) \/ Close \/ Discard
    BY <2>1, <2>6 DEF Open, DefineChannel, Close, Discard
  <2>7. CASE \E c \in ChannelIds, ts \in Timestamps, len \in Lengths :
                WriteRaw(c, ts, len) \/ WriteCompressed(c, ts, len)
    BY <2>7 DEF WriteRaw, WriteCompressed, Counting
  <2>8. CASE (\E ts \in AnnotationTimes, len \in Lengths : Annotate(ts, len)) \/ Flush \/ RotateSegment
    BY <2>8 DEF Annotate, Flush, RotateSegment, Counting
  <2>9. QED
    BY <1>2, <2>3, <2>4, <2>5, <2>6, <2>7, <2>8 DEF Client
<1>3. ASSUME Step PROVE UNCHANGED <<call, calls>> /\ pc # "ready"
  BY <1>3 DEF Step, OpenFile, OpenFileFails, WriteFileHeader, WriteSessionStart,
       ReemitChannelDef, OpenSegmentReturns, FlushLoopReturns, SkipChannel, FlushChannel,
       RotateForChannel, WriteChannelDef, WriteData, FlushWritten, RotateForWrite,
       WriteAnnotation, WriteIndex, WriteSessionEnd, WriteFooter, SealSegment,
       WriteManifest, WriteManifestFails, Destroy, WriteFails, MemoryFault, Writing
<1>4. ASSUME Step, ~WriteFails PROVE UNCHANGED chans
  BY <1>4 DEF Step, OpenFile, OpenFileFails, WriteFileHeader, WriteSessionStart,
       ReemitChannelDef, OpenSegmentReturns, FlushLoopReturns, SkipChannel, FlushChannel,
       RotateForChannel, WriteChannelDef, WriteData, FlushWritten, RotateForWrite,
       WriteAnnotation, WriteIndex, WriteSessionEnd, WriteFooter, SealSegment,
       WriteManifest, WriteManifestFails, Destroy, MemoryFault
<1>5. ASSUME WriteFails PROVE call.op = "DefineChannel" \/ UNCHANGED chans
  BY <1>5 DEF WriteFails, CallInv
<1>6. CASE Step
  BY <1>3, <1>4, <1>5, <1>6 DEF Unnumbered
<1>7. QED
  BY <1>1, <1>2, <1>6 DEF Next

LEMMA NewestGrows ==
  ASSUME TypeOK, TypeOK', CallInv, [Next]_vars
  PROVE  Newest \in Int /\ Newest' \in Int /\ Newest <= Newest' /\ Newest <= calls
<1>1. calls \in Nat /\ calls' \in Nat
  BY DEF TypeOK
<1>2. CASE pc = "ready" /\ calls' = calls + 1
  <2>1. Newest = calls
    BY <1>2 DEF Newest, Unnumbered
  <2>2. Newest' = calls' - 1 \/ Newest' = calls'
    BY DEF Newest
  <2>3. QED
    BY <1>1, <1>2, <2>1, <2>2
<1>3. CASE calls' = calls /\ (Unnumbered' => Unnumbered)
  <2>1. Newest = (IF Unnumbered THEN calls - 1 ELSE calls) /\ Newest' = (IF Unnumbered' THEN calls' - 1 ELSE calls')
    BY DEF Newest
  <2> HIDE DEF Unnumbered
  <2>2. QED
    BY <1>1, <1>3, <2>1
<1>4. QED
  BY <1>2, <1>3, CallNumbers

\* Places of records.
LEMMA PlacesDef ==
  \A p : p \in Places <=> \E k \in DOMAIN files : \E j \in DOMAIN files[k].recs : p = <<k, j>>
BY DEF Places

NextPlace == <<Cur, Len(files[Cur].recs) + 1>>

LEMMA PlacesStep ==
  ASSUME files \in Seq(SegmentFiles)
  PROVE  /\ RecsSame \/ RecsNew => /\ Places' = Places
                                   /\ \A p \in Places : RecordAt(p)' = RecordAt(p)
         /\ \A r \in Records :
               RecsGrow(r) => /\ Places' = Places \cup {NextPlace}
                              /\ \A p \in Places : RecordAt(p)' = RecordAt(p) /\ Before(p, NextPlace)
                              /\ files'[NextPlace[1]].recs[NextPlace[2]] = r
<1>1. /\ Len(files) \in Nat /\ DOMAIN files = 1..Len(files)
      /\ \A k \in DOMAIN files : /\ files[k].recs \in Seq(Records)
                                 /\ DOMAIN files[k].recs = 1..Len(files[k].recs)
                                 /\ Len(files[k].recs) \in Nat
  <2>1. \A k \in DOMAIN files : files[k].recs \in Seq(Records)
    BY FilesTyped
  <2>2. QED
    BY <2>1
<1>2. \A p : p \in Places' <=> \E k \in DOMAIN files' : \E j \in DOMAIN files'[k].recs : p = <<k, j>>
  BY DEF Places
<1>3. ASSUME DOMAIN files \subseteq DOMAIN files',
             \A k \in DOMAIN files : files'[k].recs = files[k].recs,
             \A k \in DOMAIN files' \ DOMAIN files : files'[k].recs = <<>>
      PROVE  Places' = Places /\ \A p \in Places : RecordAt(p)' = RecordAt(p)
  <2>1. \A p : p \in Places' <=> p \in Places
    BY <1>2, <1>3, PlacesDef
  <2>2. \A p \in Places : RecordAt(p)' = RecordAt(p)
    BY <1>3, PlacesDef DEF RecordAt
  <2>3. QED
    BY <2>1, <2>2
<1>4. ASSUME RecsSame PROVE Places' = Places /\ \A p \in Places : RecordAt(p)' = RecordAt(p)
  BY <1>3, <1>4 DEF RecsSame
<1>5. ASSUME RecsNew PROVE Places' = Places /\ \A p \in Places : RecordAt(p)' = RecordAt(p)
  <2>1. PICK f \in SegmentFiles : f.recs = <<>> /\ files' = Append(files, f)
    BY <1>5 DEF RecsNew
  <2>2. /\ DOMAIN files' = 1..(Len(files) + 1) /\ files'[Len(files) + 1] = f
        /\ \A k \in DOMAIN files : files'[k] = files[k]
    BY <2>1
  <2>3. QED
    BY <1>1, <1>3, <2>1, <2>2
<1>6. ASSUME NEW r \in Records, RecsGrow(r)
      PROVE  /\ Places' = Places \cup {NextPlace}
             /\ \A p \in Places : RecordAt(p)' = RecordAt(p) /\ Before(p, NextPlace)
             /\ files'[NextPlace[1]].recs[NextPlace[2]] = r
  <2> DEFINE n == Len(files[Cur].recs)
  <2>1. Cur \in DOMAIN files /\ \A k \in DOMAIN files : k = Cur \/ k < Cur
    BY <1>1, <1>6 DEF RecsGrow, Cur
  <2> HIDE DEF Cur
  <2>2. /\ n \in Nat /\ DOMAIN files[Cur].recs = 1..n
        /\ files'[Cur].recs = Append(files[Cur].recs, r) /\ DOMAIN files' = DOMAIN files
        /\ \A k \in DOMAIN files : k # Cur => files'[k].recs = files[k].recs
    BY <1>1, <1>6, <2>1 DEF RecsGrow, SameElsewhere
  <2>3. /\ DOMAIN files'[Cur].recs = 1..(n + 1) /\ files'[Cur].recs[n + 1] = r
        /\ \A j \in 1..n : files'[Cur].recs[j] = files[Cur].recs[j]
    BY <1>1, <2>1, <2>2
  <2>4. NextPlace = <<Cur, n + 1>>
    BY DEF NextPlace
  <2> HIDE DEF n
  <2>5. ASSUME NEW p \in Places
        PROVE  p \in Places' /\ RecordAt(p)' = RecordAt(p) /\ Before(p, NextPlace)
    <3>0. PICK k \in DOMAIN files : \E j \in DOMAIN files[k].recs : p = <<k, j>>
      BY PlacesDef
    <3>1. PICK j \in DOMAIN files[k].recs : p = <<k, j>>
      BY <3>0
    <3>2. CASE k # Cur
      <4>1. k < Cur
        BY <2>1, <3>2
      <4>2. QED
        BY <1>2, <2>2, <2>4, <3>1, <3>2, <4>1 DEF RecordAt, Before
    <3>3. CASE k = Cur
      <4>1. j \in 1..n /\ j \in 1..(n + 1) /\ j < n + 1
        BY <2>2, <3>1, <3>3
      <4>2. QED
        BY <1>2, <2>1, <2>2, <2>3, <2>4, <3>1, <3>3, <4>1 DEF RecordAt, Before
    <3>4. QED
      BY <3>2, <3>3
  <2>6. NextPlace \in Places'
    <3>1. n + 1 \in 1..(n + 1)
      BY <2>2
    <3>2. QED
      BY <1>2, <2>1, <2>2, <2>3, <2>4, <3>1
  <2>7. ASSUME NEW p \in Places' PROVE p \in Places \/ p = NextPlace
    <3>0. PICK k \in DOMAIN files' : \E j \in DOMAIN files'[k].recs : p = <<k, j>>
      BY <1>2
    <3>1. PICK j \in DOMAIN files'[k].recs : p = <<k, j>>
      BY <3>0
    <3>2. CASE k # Cur
      BY <2>2, <3>1, <3>2, PlacesDef
    <3>3. CASE k = Cur
      <4>1. j \in 1..n \/ j = n + 1
        BY <2>2, <2>3, <3>1, <3>3
      <4>2. QED
        BY <2>1, <2>2, <2>4, <3>1, <3>3, <4>1, PlacesDef
    <3>4. QED
      BY <3>2, <3>3
  <2>8. Places' = Places \cup {NextPlace}
    BY <2>5, <2>6, <2>7
  <2>9. files'[NextPlace[1]].recs[NextPlace[2]] = r
    BY <2>3, <2>4
  <2>10. QED
    BY <2>5, <2>8, <2>9
<1>7. QED
  BY <1>4, <1>5, <1>6

LEMMA NumbersNext ==
  ASSUME Inv, Inv', MarksMatchBuffer, LogInv, LogStep, [Next]_vars, NumbersInv
  PROVE  NumbersInv'
<1>1. files \in Seq(SegmentFiles) /\ \A c \in ChannelIds : pushed[c] \in Seq(Messages)
  BY DEF Inv, TypeOK
<1>2. Newest \in Int /\ Newest' \in Int /\ Newest <= Newest' /\ Newest <= calls
  BY NewestGrows DEF Inv
<1>3. \A m \in Messages : m.n \in Int
  BY DEF Messages
<1>4. ASSUME NEW c \in ChannelIds, NEW m \in ToSet(pushed[c]) PROVE m.n <= Newest'
  <2>1. m \in Messages /\ m.n <= Newest
    BY <1>1, <1>4 DEF ToSet, NumbersInv
  <2>2. QED
    BY <1>2, <1>3, <2>1
<1>5. ASSUME NEW p \in Places, NEW m \in ToSet(RecordAt(p).msgs) PROVE m.n <= Newest'
  <2>0. PICK k \in DOMAIN files : \E j \in DOMAIN files[k].recs : p = <<k, j>>
    BY PlacesDef
  <2>1. PICK j \in DOMAIN files[k].recs : p = <<k, j>>
    BY <2>0
  <2>2. RecordAt(p).msgs \in Seq(Messages)
    BY <1>1, <2>1, FilesTyped DEF RecordAt
  <2>3. m \in Messages /\ m.n <= Newest
    BY <2>2 DEF ToSet, NumbersInv
  <2>4. QED
    BY <1>2, <1>3, <2>3
\* What a step has to add to the messages and to the records.
<1>6. ASSUME \/ pushed' = pushed
             \/ \E d \in ChannelIds, m \in Messages :
                   pushed' = [pushed EXCEPT ![d] = Append(@, m)] /\ m.n <= Newest',
             \/ RecsSame \/ RecsNew
             \/ \E r \in Records : RecsGrow(r) /\ \A m \in ToSet(r.msgs) : m.n <= Newest'
      PROVE  NumbersInv'
  <2>1. ASSUME NEW c \in ChannelIds, NEW x \in ToSet(pushed'[c]) PROVE x.n <= Newest'
    <3>1. CASE pushed' = pushed
      BY <1>4, <2>1, <3>1
    <3>2. ASSUME NEW d \in ChannelIds, NEW m \in Messages,
                 pushed' = [pushed EXCEPT ![d] = Append(@, m)], m.n <= Newest'
          PROVE  x.n <= Newest'
      <4>1. pushed'[c] = IF c = d THEN Append(pushed[c], m) ELSE pushed[c]
        BY <3>2 DEF Inv, TypeOK
      <4>2. x \in ToSet(pushed[c]) \/ x = m
        BY <1>1, <2>1, <4>1, AppendSet
      <4>3. QED
        BY <1>4, <3>2, <4>2
    <3>3. QED
      BY <1>6, <3>1, <3>2
  <2>2. ASSUME NEW p \in Places', NEW x \in ToSet(RecordAt(p)'.msgs) PROVE x.n <= Newest'
    <3>1. CASE RecsSame \/ RecsNew
      BY <1>1, <1>5, <2>2, <3>1, PlacesStep
    <3>2. ASSUME NEW r \in Records, RecsGrow(r), \A m \in ToSet(r.msgs) : m.n <= Newest'
          PROVE  x.n <= Newest'
      <4>1. p \in Places \/ p = NextPlace
        BY <1>1, <3>2, PlacesStep
      <4>2. CASE p \in Places
        BY <1>1, <1>5, <2>2, <3>2, <4>2, PlacesStep
      <4>3. CASE p = NextPlace
        BY <1>1, <2>2, <3>2, <4>3, PlacesStep DEF RecordAt
      <4>4. QED
        BY <4>1, <4>2, <4>3
    <3>3. QED
      BY <1>6, <3>1, <3>2
  <2>3. QED
    BY <2>1, <2>2 DEF NumbersInv, RecordAt, Places
<1>7. CASE QuietLogStep
  <2>1. ToSet(<<>>) = {}
    BY DEF ToSet
  <2>2. QED
    BY <1>6, <1>7, <2>1 DEF QuietLogStep, Plain
<1>8. CASE DestroyStep
  BY <1>6, <1>8 DEF DestroyStep
<1>9. pc' = "ready" => Newest' = calls'
  BY DEF Newest, Unnumbered
<1>10. CallMessage \in Messages /\ CallMessage.n = calls /\ AnnotationRecord \in Records /\ DataRecord \in Records
  BY FixedRecordTypes DEF Inv, CallMessage, Messages, TypeOK
<1>11. \A m \in ToSet(<<CallMessage>>) : m = CallMessage
  BY DEF ToSet
<1>12. CASE AnnotationStep
  <2>1. pc' = "ready" /\ calls' = calls /\ calls \in Nat
    BY <1>12 DEF AnnotationStep, WriteAnnotation, Return, Inv, TypeOK
  <2>2. AnnotationRecord.msgs = <<CallMessage>>
    BY DEF AnnotationRecord, Rec
  <2>3. \A m \in ToSet(AnnotationRecord.msgs) : m.n <= Newest'
    BY <1>9, <1>10, <1>11, <2>1, <2>2
  <2>4. QED
    BY <1>6, <1>10, <1>12, <2>3 DEF AnnotationStep
<1>13. CASE DataStep
  <2>1. pc' = "ready" /\ calls' = calls /\ calls \in Nat
    BY <1>13 DEF DataStep, WriteData, Return, Inv, TypeOK
  <2>2. DataRecord.msgs = <<CallMessage>>
    BY DEF DataRecord, Rec
  <2>3. CallMessage.n <= Newest'
    BY <1>9, <1>10, <2>1
  <2>4. \A m \in ToSet(DataRecord.msgs) : m.n <= Newest'
    BY <1>11, <2>2, <2>3
  <2>5. call.ch \in ChannelIds
    BY <1>13, WriteTarget DEF DataStep, WriteData, Inv
  <2>6. pushed' = [pushed EXCEPT ![call.ch] = Append(@, CallMessage)] /\ RecsGrow(DataRecord)
    BY <1>13 DEF DataStep, WriteData
  <2>7. QED
    BY <1>6, <1>10, <2>3, <2>4, <2>5, <2>6
<1>14. CASE BufferStep
  <2>1. PICK c \in ChannelIds, ts \in Timestamps, len \in Lengths : WriteCompressed(c, ts, len)
    BY <1>14 DEF BufferStep
  <2> DEFINE m == [n |-> calls', ts |-> ts, len |-> len]
  <2>2. pushed' = [pushed EXCEPT ![c] = Append(@, m)]
    BY <2>1 DEF WriteCompressed
  <2>3. m \in Messages /\ m.n = calls'
    BY InputTypes DEF Messages, Inv, TypeOK
  <2>4. call'.op = "Write" /\ call'.ch = c /\ chans'[c].comp
    BY <2>1 DEF WriteCompressed, Call
  <2>5. Newest' = calls'
    BY <2>4 DEF Newest, Unnumbered
  <2> HIDE DEF m
  <2>6. m.n <= Newest'
    BY <1>2, <2>3, <2>5
  <2>7. QED
    BY <1>6, <1>14, <2>2, <2>3, <2>6 DEF BufferStep
<1>15. ASSUME NEW c \in ChannelIds, FlushStep(c) PROVE NumbersInv'
  <2>1. pc # "closed"
    BY <1>15 DEF FlushStep, FlushChannel, FlushWritten
  <2>2. accum[c].buf \in Seq(Messages) /\ Stored(c) \in Seq(Messages)
    <3>1. accum[c] \in Accums
      BY DEF Inv, TypeOK
    <3>2. QED
      BY <1>1, <3>1, StoredType DEF Accums
  <2>3. Stored(c) \o accum[c].buf = pushed[c]
    BY <2>1 DEF LogInv, NothingLostOrReordered
  <2>4. ASSUME NEW m \in ToSet(accum[c].buf) PROVE m.n <= Newest'
    <3>1. PICK j \in DOMAIN accum[c].buf : m = accum[c].buf[j]
      BY DEF ToSet
    <3> DEFINE s == Stored(c)
               b == accum[c].buf
    <3>2. s \in Seq(Messages) /\ b \in Seq(Messages) /\ j \in DOMAIN b /\ m = b[j]
      BY <2>2, <3>1
    <3> HIDE DEF s, b
    <3>3. Len(s) + j \in DOMAIN (s \o b) /\ (s \o b)[Len(s) + j] = m
      BY <3>2
    <3>4. m \in ToSet(s \o b)
      BY <3>3 DEF ToSet
    <3>5. QED
      BY <1>4, <2>3, <3>4 DEF s, b
  <2>5. ChunkRecord(c) \in Records /\ ChunkRecord(c).msgs = accum[c].buf
    BY ChunkRecordType DEF Inv, ChunkRecord, Rec
  <2>6. QED
    BY <1>6, <1>15, <2>4, <2>5 DEF FlushStep
<1>16. QED
  BY <1>7, <1>8, <1>12, <1>13, <1>14, <1>15 DEF LogStep

\* A message that is stored is in some data record.
LEMMA StoredPlaced ==
  ASSUME files \in Seq(SegmentFiles), NEW c, NEW m \in ToSet(Stored(c))
  PROVE  \E q \in Place(m.n, {"Data", "Chunk"}) : TRUE
<1> DEFINE s == [k \in DOMAIN files |-> InFile(files[k], c)]
<1>1. s \in Seq(Seq(Messages)) /\ m \in ToSet(FlattenSeq(s))
  BY StoredType, StoredIs
<1>2. PICK k \in DOMAIN s : m \in ToSet(s[k])
  <2> HIDE DEF s
  <2>1. QED
    BY <1>1, FlattenMember
<1>3. k \in DOMAIN files /\ files[k] \in SegmentFiles /\ m \in ToSet(InFile(files[k], c))
  BY <1>2
<1> DEFINE t == [j \in DOMAIN files[k].recs |-> MessagesOf(files[k].recs[j], c)]
<1>4. t \in Seq(Seq(Messages)) /\ m \in ToSet(FlattenSeq(t))
  BY <1>3, InFileType, InFileIs
<1>5. PICK j \in DOMAIN t : m \in ToSet(t[j])
  <2> HIDE DEF t
  <2>1. QED
    BY <1>4, FlattenMember
<1>6. j \in DOMAIN files[k].recs /\ m \in ToSet(MessagesOf(files[k].recs[j], c))
  BY <1>5
<1>7. HoldsData(files[k].recs[j], c) /\ m \in ToSet(files[k].recs[j].msgs)
  <2>1. ToSet(<<>>) = {}
    BY DEF ToSet
  <2>2. QED
    BY <1>6, <2>1 DEF MessagesOf
<1> DEFINE q == <<k, j>>
<1>8. q \in Places /\ RecordAt(q) = files[k].recs[j]
  BY <1>3, <1>6, PlacesDef DEF RecordAt
<1>9. q \in Place(m.n, {"Data", "Chunk"})
  BY <1>7, <1>8 DEF Place, HoldsData, IsData
<1>10. QED
  BY <1>9

\* The places of a message or an annotation after a step.
LEMMA PlaceStep ==
  ASSUME files \in Seq(SegmentFiles), NEW n, NEW ops
  PROVE  /\ RecsSame \/ RecsNew => Place(n, ops)' = Place(n, ops)
         /\ \A r \in Records :
               RecsGrow(r) =>
                  /\ \A p \in Place(n, ops)' : p \in Place(n, ops) \/ p = NextPlace
                  /\ Place(n, ops) \subseteq Place(n, ops)'
                  /\ NextPlace \in Place(n, ops)' => r.op \in ops /\ \E m \in ToSet(r.msgs) : m.n = n
<1>1. Place(n, ops)' =
        {p \in Places' : RecordAt(p)'.op \in ops /\ \E m \in ToSet(RecordAt(p)'.msgs) : m.n = n}
  BY DEF Place, RecordAt
<1>2. ASSUME RecsSame \/ RecsNew PROVE Place(n, ops)' = Place(n, ops)
  <2>1. Places' = Places /\ \A p \in Places : RecordAt(p)' = RecordAt(p)
    BY <1>2, PlacesStep
  <2>2. QED
    BY <1>1, <2>1 DEF Place
<1>3. ASSUME NEW r \in Records, RecsGrow(r)
      PROVE  /\ \A p \in Place(n, ops)' : p \in Place(n, ops) \/ p = NextPlace
             /\ Place(n, ops) \subseteq Place(n, ops)'
             /\ NextPlace \in Place(n, ops)' => r.op \in ops /\ \E m \in ToSet(r.msgs) : m.n = n
  <2>1. /\ Places' = Places \cup {NextPlace}
        /\ \A p \in Places : RecordAt(p)' = RecordAt(p)
        /\ files'[NextPlace[1]].recs[NextPlace[2]] = r
    BY <1>3, PlacesStep
  <2> HIDE DEF NextPlace
  <2>2. \A p \in Places : p \in Place(n, ops)' <=> p \in Place(n, ops)
    BY <1>1, <2>1 DEF Place
  <2>3. NextPlace \in Place(n, ops)' => r.op \in ops /\ \E m \in ToSet(r.msgs) : m.n = n
    BY <2>1 DEF Place, RecordAt
  <2>4. \A p \in Place(n, ops)' : p \in Places'
    BY <1>1
  <2>5. \A p \in Place(n, ops) : p \in Places
    BY DEF Place
  <2>6. QED
    BY <2>1, <2>2, <2>3, <2>4, <2>5
<1> HIDE DEF NextPlace
<1>4. QED
  BY <1>2, <1>3

LEMMA AnnotCallNext ==
  ASSUME CallInv, AnnotCall, [Next]_vars
  PROVE  AnnotCall'
<1> USE DEF control, memory, disk, Call, Return, Counting
<1>1. CASE UNCHANGED vars
  BY <1>1 DEF vars, AnnotCall
<1>2. CASE Client
  <2> SUFFICES pc' # "annot"
    BY DEF AnnotCall
  <2>1. ASSUME NEW op, NEW s, Refuse(op, s) PROVE pc' # "annot"
    BY <2>1 DEF Refuse
  <2>2. CASE \/ \E cfg \in ChannelConfigs : DefineRefused(cfg)
             \/ \E c \in ChannelIds : WriteUnknown(c)
             \/ RotateRefused
    BY <2>1, <2>2 DEF DefineRefused, WriteUnknown, RotateRefused
  <2>3. CASE \E c \in ChannelIds, ts \in Timestamps, len \in Lengths :
                WriteRaw(c, ts, len) \/ WriteCompressed(c, ts, len)
    BY <2>3 DEF WriteRaw, WriteCompressed, EnterClose, AfterClose
  <2>4. CASE \/ Open \/ (\E cfg \in ChannelConfigs : DefineChannel(cfg))
             \/ (\E ts \in AnnotationTimes, len \in Lengths : Annotate(ts, len))
             \/ Flush \/ RotateSegment \/ Close \/ Discard
    BY <2>4
    DEF Open, DefineChannel, Annotate, Flush, RotateSegment, Close, Discard, EnterClose,
        AfterClose
  <2>5. QED
    BY <1>2, <2>2, <2>3, <2>4 DEF Client
<1>3. CASE FlushLoopReturns
  BY <1>3 DEF FlushLoopReturns, AnnotCall
<1>4. CASE Step /\ ~FlushLoopReturns
  <2>1. pc' # "annot"
    BY <1>4
    DEF Step, OpenFile, OpenFileFails, WriteFileHeader, WriteSessionStart, ReemitChannelDef,
        OpenSegmentReturns, SkipChannel, FlushChannel, RotateForChannel, WriteChannelDef,
        WriteData, FlushWritten, RotateForWrite, WriteAnnotation, WriteIndex,
        WriteSessionEnd, WriteFooter, SealSegment, WriteManifest, WriteManifestFails,
        Destroy, WriteFails, MemoryFault, Fail, AfterClose, AfterManifest
  <2>2. QED
    BY <2>1 DEF AnnotCall
<1>5. QED
  BY <1>1, <1>2, <1>3, <1>4 DEF Next

LEMMA AnnotationsNext ==
  ASSUME Inv, Inv', MarksMatchBuffer, LogInv, LogStep, [Next]_vars, AnnotationInv
  PROVE  AnnotationsInOrder'
<1> DEFINE Ann(n) == Place(n, {"Annotation"})
           Dat(n) == Place(n, {"Data", "Chunk"})
<1>1. files \in Seq(SegmentFiles) /\ \A c \in ChannelIds : pushed[c] \in Seq(Messages)
  BY DEF Inv, TypeOK
<1>2. Newest \in Int /\ Newest' \in Int /\ Newest <= Newest' /\ Newest <= calls /\ calls \in Nat
  BY NewestGrows DEF Inv, TypeOK
<1> SUFFICES ASSUME NEW a \in 1..calls', NEW p \in Ann(a)',
                      NEW c \in ChannelIds, NEW m \in ToSet(pushed'[c])
               PROVE  IF m.n < a THEN \E q \in Dat(m.n)' : Before(q, p)
                                 ELSE \A q \in Dat(m.n)' : Before(p, q)
  BY DEF AnnotationsInOrder, Place, RecordAt, Places, Before
<1>4. ASSUME NEW n, NEW ops, NEW q \in Place(n, ops) PROVE n <= Newest /\ q \in Places
  BY DEF Place, AnnotationInv, NumbersInv
<1>5. a \in Nat /\ a >= 1
  BY <1>2
<1>6. ASSUME p \in Ann(a), m \in ToSet(pushed[c])
      PROVE  IF m.n < a THEN \E q \in Dat(m.n) : Before(q, p)
                        ELSE \A q \in Dat(m.n) : Before(p, q)
  <2>1. a \in 1..calls
    BY <1>2, <1>4, <1>5, <1>6
  <2>2. QED
    BY <1>6, <2>1 DEF AnnotationInv, AnnotationsInOrder
<1>7. ASSUME RecsSame \/ RecsNew, m \in ToSet(pushed[c])
      PROVE  IF m.n < a THEN \E q \in Dat(m.n)' : Before(q, p)
                        ELSE \A q \in Dat(m.n)' : Before(p, q)
  BY <1>1, <1>6, <1>7, PlaceStep
\* A record that is not an annotation comes after every annotation.
<1>8. ASSUME NEW r \in Records, RecsGrow(r), r.op # "Annotation", m \in ToSet(pushed[c])
      PROVE  IF m.n < a THEN \E q \in Dat(m.n)' : Before(q, p)
                        ELSE \A q \in Dat(m.n)' : Before(p, q)
  <2>1. p \in Ann(a) /\ p \in Places
    <3>1. p \in Ann(a)
      BY <1>1, <1>8, PlaceStep
    <3>2. QED
      BY <1>4, <3>1
  <2>2. Before(p, NextPlace)
    BY <1>1, <1>8, <2>1, PlacesStep
  <2>3. /\ \A q \in Dat(m.n)' : q \in Dat(m.n) \/ q = NextPlace
        /\ Dat(m.n) \subseteq Dat(m.n)'
    BY <1>1, <1>8, PlaceStep
  <2> HIDE DEF NextPlace, Ann, Dat
  <2>4. QED
    BY <1>6, <1>8, <2>1, <2>2, <2>3
<1>9. CASE QuietLogStep
  BY <1>7, <1>8, <1>9 DEF QuietLogStep, Plain
<1>10. CASE DestroyStep
  BY <1>7, <1>10 DEF DestroyStep
<1>11. CASE BufferStep
  <2>1. PICK d \in ChannelIds, ts \in Timestamps, len \in Lengths : WriteCompressed(d, ts, len)
    BY <1>11 DEF BufferStep
  <2> DEFINE x == [n |-> calls', ts |-> ts, len |-> len]
  <2>2. pushed' = [pushed EXCEPT ![d] = Append(@, x)] /\ calls' = calls + 1
    BY <2>1 DEF WriteCompressed, Counting
  <2>3. x \in Messages /\ x.n = calls + 1
    BY <2>2, InputTypes DEF Messages, Inv, TypeOK
  <2> HIDE DEF x
  <2>4. pushed'[c] = IF c = d THEN Append(pushed[c], x) ELSE pushed[c]
    BY <2>2 DEF Inv, TypeOK
  <2>5. m \in ToSet(pushed[c]) \/ m = x
    BY <1>1, <2>3, <2>4, AppendSet
  <2>6. CASE m = x
    <3>1. p \in Ann(a) /\ \A q \in Dat(m.n)' : q \in Dat(m.n)
      BY <1>1, <1>11, PlaceStep DEF BufferStep
    <3>2. ~(m.n < a)
      BY <1>2, <1>4, <1>5, <2>3, <2>6, <3>1
    <3>3. Dat(m.n) = {}
      BY <1>2, <1>4, <2>3, <2>6
    <3>4. QED
      BY <3>1, <3>2, <3>3
  <2>7. QED
    BY <1>7, <1>11, <2>5, <2>6 DEF BufferStep
<1>12. ASSUME NEW d \in ChannelIds, FlushStep(d)
       PROVE  IF m.n < a THEN \E q \in Dat(m.n)' : Before(q, p)
                         ELSE \A q \in Dat(m.n)' : Before(p, q)
  <2>1. ChunkRecord(d) \in Records /\ ChunkRecord(d).op # "Annotation"
    BY ChunkRecordType DEF Inv, ChunkRecord, Rec
  <2>2. QED
    BY <1>8, <1>12, <2>1 DEF FlushStep
<1>13. CASE DataStep
  <2>1. /\ DataRecord \in Records /\ DataRecord.op # "Annotation" /\ RecsGrow(DataRecord)
        /\ CallMessage \in Messages /\ CallMessage.n = calls
    BY <1>13, FixedRecordTypes DEF Inv, DataRecord, Rec, DataStep, CallMessage, Messages, TypeOK
  <2>2. call.ch \in ChannelIds /\ pushed' = [pushed EXCEPT ![call.ch] = Append(@, CallMessage)]
    BY <1>13, WriteTarget DEF DataStep, WriteData, Inv
  <2>3. m \in ToSet(pushed[c]) \/ m = CallMessage
    <3> PICK d : d = call.ch
      OBVIOUS
    <3>1. pushed'[c] = IF c = d THEN Append(pushed[c], CallMessage) ELSE pushed[c]
      BY <2>2 DEF Inv, TypeOK
    <3>2. QED
      BY <1>1, <2>1, <3>1, AppendSet
  <2>4. CASE m = CallMessage
    <3>1. pc = "data" /\ call.op = "Write" /\ ~chans[call.ch].comp
      BY <1>13 DEF DataStep, WriteData, Inv, CallInv, LogInv, FlushInv, BufferInv
    <3>2. Newest = calls - 1
      BY <3>1 DEF Newest, Unnumbered
    <3>3. p \in Ann(a)
      BY <1>1, <2>1, PlaceStep
    <3>4. ~(m.n < a) /\ a < calls
      BY <1>2, <1>4, <1>5, <2>1, <2>4, <3>2, <3>3
    <3>5. Dat(m.n) = {}
      BY <1>2, <1>4, <2>1, <2>4, <3>2
    <3>6. \A q \in Dat(m.n)' : q = NextPlace
      BY <1>1, <2>1, <3>5, PlaceStep
    <3>7. Before(p, NextPlace)
      BY <1>1, <1>4, <2>1, <3>3, PlacesStep
    <3> HIDE DEF NextPlace, Dat, Ann
    <3>8. QED
      BY <3>4, <3>6, <3>7
  <2>5. QED
    BY <1>8, <2>1, <2>3, <2>4
<1>14. CASE AnnotationStep
  <2>1. /\ AnnotationRecord \in Records /\ RecsGrow(AnnotationRecord) /\ pushed' = pushed
        /\ AnnotationRecord.op = "Annotation" /\ AnnotationRecord.msgs = <<CallMessage>>
        /\ CallMessage.n = calls /\ pc = "annot"
    BY <1>14, FixedRecordTypes
    DEF Inv, AnnotationRecord, Rec, AnnotationStep, CallMessage, WriteAnnotation
  <2>2. Dat(m.n)' = Dat(m.n)
    <3>1. NextPlace \notin Dat(m.n)'
      BY <1>1, <2>1, PlaceStep
    <3>2. /\ \A q \in Dat(m.n)' : q \in Dat(m.n) \/ q = NextPlace
          /\ Dat(m.n) \subseteq Dat(m.n)'
      BY <1>1, <2>1, PlaceStep
    <3>3. QED
      BY <3>1, <3>2
  <2>3. CASE p \in Ann(a)
    BY <1>6, <2>1, <2>2, <2>3
  <2>4. CASE p = NextPlace
    <3>1. a = calls
      BY <1>1, <2>1, <2>4, PlaceStep DEF ToSet
    <3>2. m \in ToSet(pushed[c])
      BY <2>1
    <3>3. accum[c].buf = <<>> /\ Stored(c) \o accum[c].buf = pushed[c] /\ Stored(c) \in Seq(Messages)
      BY <1>1, <2>1, StoredType DEF LogInv, FlushInv, LoopInv, NothingLostOrReordered
    <3>4. m \in ToSet(Stored(c))
      <4> DEFINE s == Stored(c)
      <4>1. s \o <<>> = pushed[c] /\ s \in Seq(Messages)
        BY <3>3
      <4> HIDE DEF s
      <4>2. s = pushed[c]
        BY <4>1
      <4>3. QED
        BY <3>2, <4>2 DEF s
    <3>5. PICK q \in Dat(m.n) : TRUE
      BY <1>1, <3>4, StoredPlaced
    <3>6. q \in Places /\ m.n <= Newest
      BY <1>4
    <3>7. Newest = calls - 1
      BY <2>1 DEF Newest, Unnumbered, AnnotationInv, AnnotCall
    <3>8. m.n < a
      <4>1. m \in Messages
        BY <1>1, <3>2 DEF ToSet
      <4>2. m.n \in Nat
        BY <4>1 DEF Messages
      <4>3. QED
        BY <1>2, <3>1, <3>6, <3>7, <4>2
    <3>9. Before(q, p)
      BY <1>1, <2>1, <2>4, <3>6, PlacesStep
    <3>10. QED
      BY <2>2, <3>5, <3>8, <3>9
  <2>5. QED
    BY <1>1, <2>1, <2>3, <2>4, PlaceStep
<1>15. QED
  BY <1>9, <1>10, <1>11, <1>12, <1>13, <1>14 DEF LogStep

\* In every session an annotation is on disk after everything that was written
\* before it, buffered or not, and before everything that is written later,
\* whatever rotations and failures lie between.
THEOREM AnnotationsAlwaysInOrder == Spec => []AnnotationsInOrder
<1>1. Init => AnnotationInv
  <2> SUFFICES ASSUME Init PROVE AnnotationInv
    OBVIOUS
  <2>1. files = <<>> /\ calls = 0 /\ pc = "new" /\ \A c \in ChannelIds : pushed[c] = <<>>
    BY DEF Init
  <2>2. ToSet(<<>>) = {} /\ Places = {}
    BY <2>1 DEF ToSet, Places
  <2>3. QED
    BY <2>1, <2>2 DEF AnnotationInv, AnnotationsInOrder, NumbersInv, AnnotCall
<1>2. /\ Inv /\ MarksMatchBuffer /\ LogInv /\ AnnotationInv
      /\ (Inv /\ MarksMatchBuffer /\ LogInv)' /\ [Next]_vars
      => AnnotationInv'
  BY AnnotationsNext, NumbersNext, AnnotCallNext, EveryStepLogs DEF AnnotationInv, Inv
<1>3. AnnotationInv => AnnotationsInOrder
  BY DEF AnnotationInv
<1>4. QED
  BY <1>1, <1>2, <1>3, LogAlways, PTL DEF Spec

-----------------------------------------------------------------------------
(***************************************************************************)
(* What each step does to the segment file and to the list of segments.    *)
(***************************************************************************)
IdleStep ==
  /\ UNCHANGED <<files, seg, Segments>>
  /\ SegFile'.open = SegFile.open /\ SegFile'.cursor = SegFile.cursor
  /\ pc' = pc \/ (pc # "seal" /\ pc' \notin {"header", "end", "footer", "seal"})

\* What the segment state notes of a record.
SegNoted(r) ==
  \/ ~IsData(r) /\ seg' = Counted
  \/ WriteData /\ r = DataRecord /\ seg' = DataNoted(call.ch, call.ts, call.ts)
  \/ \E c \in ChannelIds : /\ AccFlush(c) /\ r = ChunkRecord(c)
                           /\ seg' = DataNoted(c, accum[c].first, accum[c].last)

RecordStep(r) ==
  /\ RecsGrow(r) /\ r.off = SegFile.cursor
  /\ SegFile.open /\ SegFile'.open /\ SegFile'.cursor = SegFile.cursor + r.size
  /\ seg'.idx = seg.idx /\ UNCHANGED Segments /\ SegNoted(r)
  /\ pc \notin {"open", "header", "seal", "closed"} /\ pc' \notin {"header", "seal"}

DiskStep ==
  \/ IdleStep
  \/ \E r \in Records : RecordStep(r)
  \/ WriteFileHeader \/ WriteFooter \/ SealSegment \/ Destroy \/ OpenFile \/ OpenFileFails

LEMMA ClientIdle ==
  ASSUME Client
  PROVE  IdleStep
<1> USE DEF control, memory, disk, Counting, IdleStep, EnterClose, AfterClose, Return
<1>1. ASSUME NEW op, NEW s, Refuse(op, s) PROVE IdleStep
  BY <1>1 DEF Refuse
<1>2. CASE Open
  BY <1>2 DEF Open
<1>3. ASSUME NEW cfg \in ChannelConfigs, DefineChannel(cfg) PROVE IdleStep
  BY <1>3 DEF DefineChannel
<1>4. ASSUME NEW cfg \in ChannelConfigs, DefineRefused(cfg) PROVE IdleStep
  BY <1>1, <1>4 DEF DefineRefused
<1>5. ASSUME NEW c \in ChannelIds, WriteUnknown(c) PROVE IdleStep
  BY <1>1, <1>5 DEF WriteUnknown
<1>6. ASSUME NEW c \in ChannelIds, NEW ts \in Timestamps, NEW len \in Lengths,
             WriteRaw(c, ts, len)
      PROVE  IdleStep
  BY <1>6 DEF WriteRaw
<1>7. ASSUME NEW c \in ChannelIds, NEW ts \in Timestamps, NEW len \in Lengths,
             WriteCompressed(c, ts, len)
      PROVE  IdleStep
  BY <1>7 DEF WriteCompressed
<1>8. ASSUME NEW ts \in AnnotationTimes, NEW len \in Lengths, Annotate(ts, len)
      PROVE  IdleStep
  BY <1>8 DEF Annotate
<1>9. CASE Flush
  BY <1>9 DEF Flush
<1>10. CASE RotateSegment
  BY <1>10 DEF RotateSegment
<1>11. CASE RotateRefused
  BY <1>1, <1>11 DEF RotateRefused
<1>12. CASE Close
  BY <1>12 DEF Close
<1>13. CASE Discard
  BY <1>13 DEF Discard
<1>14. QED
  BY <1>2, <1>3, <1>4, <1>5, <1>6, <1>7, <1>8, <1>9, <1>10, <1>11, <1>12, <1>13 DEF Client

LEMMA StepDisk ==
  ASSUME Inv, MarksMatchBuffer, Step
  PROVE  DiskStep
<1> USE DEF control, memory, disk, Return
<1>1. TypeOK /\ FileInv /\ CallInv
  BY DEF Inv
<1>2. ASSUME NEW r \in Records, r.off = SegFile.cursor, WriteRecord(r), seg'.idx = seg.idx,
             SegNoted(r), UNCHANGED Segments, pc \notin {"open", "header", "seal", "closed"},
             pc' \notin {"header", "seal"}
      PROVE  DiskStep
  BY <1>2, WriteRecordGrows DEF DiskStep, RecordStep
<1>3. Counted.idx = seg.idx
  <2>1. 0 \in Nat
    OBVIOUS
  <2>2. QED
    BY <1>1, <2>1, CountedFacts
<1>4. /\ StartRecord \in Records /\ StartRecord.off = SegFile.cursor
      /\ EndRecord \in Records /\ EndRecord.off = SegFile.cursor
      /\ IndexRecord \in Records /\ IndexRecord.off = SegFile.cursor
      /\ DataRecord \in Records /\ DataRecord.off = SegFile.cursor
      /\ AnnotationRecord \in Records /\ AnnotationRecord.off = SegFile.cursor
      /\ \A c \in Nat : DefRecord(c) \in Records /\ DefRecord(c).off = SegFile.cursor
  BY <1>1, FixedRecordTypes
  DEF StartRecord, EndRecord, IndexRecord, DataRecord, AnnotationRecord, DefRecord, Rec
<1> DEFINE quiet == {StartRecord, EndRecord, IndexRecord, AnnotationRecord}
<1>25. /\ \A r \in quiet : ~IsData(r)
       /\ \A c : ~IsData(DefRecord(c))
  BY DEF IsData, StartRecord, EndRecord, IndexRecord, AnnotationRecord, DefRecord, Rec
<1>26. /\ \A r \in quiet : seg' = Counted => SegNoted(r)
       /\ \A c : seg' = Counted => SegNoted(DefRecord(c))
  BY <1>25 DEF SegNoted
<1> HIDE DEF quiet
<1>27. /\ seg' = Counted => /\ SegNoted(StartRecord) /\ SegNoted(EndRecord)
                            /\ SegNoted(IndexRecord) /\ SegNoted(AnnotationRecord)
       /\ \A c : seg' = Counted => SegNoted(DefRecord(c))
  BY <1>26 DEF quiet
<1>5. ASSUME NEW c \in ChannelIds, AccFlush(c), UNCHANGED Segments,
             pc \notin {"open", "header", "seal", "closed"}, pc' \notin {"header", "seal"}
      PROVE  DiskStep
  <2>1. WriteRecord(ChunkRecord(c)) /\ seg' = DataNoted(c, accum[c].first, accum[c].last)
    BY <1>5, FlushWritesChunk
  <2>2. ChunkRecord(c) \in Records /\ ChunkRecord(c).off = SegFile.cursor
    BY <1>1, ChunkRecordType DEF ChunkRecord, Rec
  <2>3. seg'.idx = seg.idx
    <3>1. accum[c] \in Accums
      BY <1>1 DEF TypeOK
    <3>2. c \in Nat /\ accum[c].first \in Nat /\ accum[c].last \in Nat
      BY <3>1 DEF ChannelIds, Accums
    <3>3. QED
      BY <1>1, <2>1, <3>2, CountedFacts
  <2>4. SegNoted(ChunkRecord(c))
    BY <1>5, <2>1 DEF SegNoted
  <2>5. QED
    BY <1>2, <1>5, <2>1, <2>2, <2>3, <2>4
<1>6. CASE WriteSessionStart
  BY <1>2, <1>3, <1>4, <1>6, <1>27 DEF WriteSessionStart
<1>7. CASE ReemitChannelDef
  <2>1. seg.count \in Nat
    BY <1>1 DEF TypeOK, SegmentStates
  <2>2. QED
    BY <1>2, <1>3, <1>4, <1>7, <1>27, <2>1 DEF ReemitChannelDef
<1>8. CASE WriteChannelDef
  <2>1. Len(chans) \in Nat
    BY <1>1 DEF TypeOK
  <2>2. QED
    BY <1>2, <1>3, <1>4, <1>8, <1>27, <2>1 DEF WriteChannelDef
<1>9. CASE WriteAnnotation
  BY <1>2, <1>3, <1>4, <1>9, <1>27 DEF WriteAnnotation
<1>10. CASE WriteData
  <2>1. call.ch \in Nat /\ call.ts \in Nat
    BY <1>1 DEF TypeOK
  <2>2. seg'.idx = seg.idx
    BY <1>1, <1>10, <2>1, CountedFacts DEF WriteData
  <2>3. SegNoted(DataRecord)
    BY <1>10 DEF SegNoted, WriteData
  <2>4. QED
    BY <1>2, <1>4, <1>10, <2>2, <2>3 DEF WriteData
<1>11. CASE FlushChannel
  <2>1. i \in ChannelIds
    BY <1>1, <1>11, LoopChannel DEF FlushChannel
  <2>2. QED
    BY <1>5, <1>11, <2>1 DEF FlushChannel
<1>12. CASE FlushWritten
  <2>1. call.ch \in ChannelIds
    BY <1>1, <1>12, WriteTarget DEF FlushWritten
  <2>2. QED
    BY <1>5, <1>12, <2>1 DEF FlushWritten
<1>13. CASE WriteIndex
  BY <1>3, <1>4, <1>13, <1>27, TailRecordsGrow DEF WriteIndex, DiskStep, RecordStep
<1>14. CASE WriteSessionEnd
  BY <1>3, <1>4, <1>14, <1>27, TailRecordsGrow DEF WriteSessionEnd, DiskStep, RecordStep
<1>15. ASSUME UNCHANGED <<files, seg, Segments, SegFile>>, pc # "seal",
              pc' \notin {"header", "end", "footer", "seal"} \/ pc' = pc
       PROVE  DiskStep
  BY <1>15 DEF DiskStep, IdleStep
<1>16. CASE OpenSegmentReturns
  <2>1. pc' \in {"loop", "manifest", "ready", "reflush", "data"}
    BY <1>16 DEF OpenSegmentReturns
  <2>2. QED
    BY <1>15, <1>16, <2>1 DEF OpenSegmentReturns
<1>17. CASE FlushLoopReturns
  <2>1. pc' \in {"annot", "ready", "index"}
    BY <1>17 DEF FlushLoopReturns
  <2>2. QED
    BY <1>15, <1>17, <2>1 DEF FlushLoopReturns
<1>18. CASE SkipChannel
  BY <1>15, <1>18 DEF SkipChannel
<1>19. CASE RotateForChannel
  BY <1>15, <1>19 DEF RotateForChannel
<1>20. CASE RotateForWrite
  BY <1>15, <1>20 DEF RotateForWrite
<1>21. CASE WriteManifest \/ WriteManifestFails
  <2>1. pc' \in {"ready", "destroy", "open"}
    BY <1>21 DEF WriteManifest, WriteManifestFails, AfterManifest
  <2>2. QED
    BY <1>15, <1>21, <2>1 DEF WriteManifest, WriteManifestFails
<1>22. CASE MemoryFault
  BY <1>15, <1>22 DEF MemoryFault, Writing
<1>23. CASE WriteFails
  <2>1. pc' \in {"destroy", "manifest", "ready"} /\ pc # "seal"
    BY <1>23 DEF WriteFails, Fail, Writing
  <2>2. SegFile'.open = SegFile.open /\ SegFile'.cursor = SegFile.cursor
    BY <1>1, <1>23 DEF WriteFails, GrowFailed, TypeOK, MappedFiles
  <2>3. QED
    BY <1>23, <2>1, <2>2 DEF WriteFails, DiskStep, IdleStep
<1>24. QED
  BY <1>6, <1>7, <1>8, <1>9, <1>10, <1>11, <1>12, <1>13, <1>14, <1>16, <1>17, <1>18, <1>19,
     <1>20, <1>21, <1>22, <1>23 DEF Step, DiskStep

LEMMA EveryStepOnDisk ==
  ASSUME Inv, MarksMatchBuffer, [Next]_vars
  PROVE  DiskStep
<1>1. UNCHANGED vars => IdleStep
  BY DEF vars, control, memory, disk, IdleStep
<1>2. QED
  BY <1>1, ClientIdle, StepDisk DEF Next, DiskStep

(***************************************************************************)
(* The list of segments names the sealed files.                            *)
(***************************************************************************)
SealedPieces ==
  [k \in DOMAIN files |-> IF Sealed(k) THEN <<files[k]>> ELSE <<>>]

LEMMA PiecesType ==
  ASSUME files \in Seq(SegmentFiles)
  PROVE  /\ SealedPieces \in Seq(Seq(SegmentFiles)) /\ Len(SealedPieces) = Len(files)
         /\ SealedFiles \in Seq(SegmentFiles)
<1>1. \A k \in DOMAIN files :
         (IF Sealed(k) THEN <<files[k]>> ELSE <<>>) \in Seq(SegmentFiles)
  OBVIOUS
<1>2. DOMAIN files = 1..Len(files) /\ Len(files) \in Nat
  OBVIOUS
<1>3. SealedPieces \in Seq(Seq(SegmentFiles)) /\ Len(SealedPieces) = Len(files)
  BY <1>1, <1>2 DEF SealedPieces
<1>4. SealedFiles = FlattenSeq(SealedPieces)
  BY DEF SealedFiles, SealedPieces
<1>5. QED
  BY <1>3, <1>4, FlattenType

\* The pieces of files that are sealed before a step and after it.
LEMMA PiecesKept ==
  ASSUME DOMAIN files' = DOMAIN files,
         \A k \in DOMAIN files : Sealed(k)' <=> Sealed(k),
         \A k \in DOMAIN files : Sealed(k) => files'[k] = files[k]
  PROVE  SealedFiles' = SealedFiles
<1>1. \A k \in DOMAIN files :
         (IF Sealed(k)' THEN <<files'[k]>> ELSE <<>>)
           = IF Sealed(k) THEN <<files[k]>> ELSE <<>>
  OBVIOUS
<1>2. SealedPieces' = SealedPieces
  BY <1>1 DEF SealedPieces
<1>3. SealedFiles = FlattenSeq(SealedPieces) /\ SealedFiles' = FlattenSeq(SealedPieces')
  BY DEF SealedFiles, SealedPieces
<1>4. QED
  BY <1>2, <1>3

LEMMA PiecesNew ==
  ASSUME files \in Seq(SegmentFiles), NEW f \in SegmentFiles, ~HasFooter(f),
         files' = Append(files, f), \A k \in DOMAIN files : Sealed(k)' <=> Sealed(k)
  PROVE  SealedFiles' = SealedFiles
<1>1. /\ DOMAIN files' = 1..(Len(files) + 1) /\ files'[Len(files) + 1] = f
      /\ DOMAIN files = 1..Len(files) /\ Len(files) \in Nat
      /\ \A k \in 1..Len(files) : files'[k] = files[k]
  OBVIOUS
<1>2. SealedPieces \in Seq(Seq(SegmentFiles)) /\ Len(SealedPieces) = Len(files)
  BY PiecesType
<1> DEFINE t == SealedPieces'
<1>4. t = Append(SealedPieces, <<>>)
  <2>0. t = [k \in 1..(Len(files) + 1) |-> IF Sealed(k)' THEN <<files'[k]>> ELSE <<>>]
    BY <1>1 DEF SealedPieces
  <2>1. DOMAIN t = 1..(Len(SealedPieces) + 1) /\ t = [k \in DOMAIN t |-> t[k]]
    BY <1>2, <2>0
  <2>2. \A k \in 1..Len(SealedPieces) : t[k] = SealedPieces[k]
    BY <1>1, <1>2, <2>0 DEF SealedPieces
  <2>3. t[Len(SealedPieces) + 1] = <<>> /\ <<>> \in Seq(SegmentFiles)
    <3>1. ASSUME NEW n, n = Len(files) + 1 PROVE t[n] = <<>>
      BY <1>1, <2>0, <3>1 DEF Sealed, HasFooter
    <3>2. QED
      BY <1>2, <3>1
  <2> HIDE DEF t
  <2>4. QED
    BY <1>2, <2>1, <2>2, <2>3, IsAppend
<1>5. SealedFiles' = FlattenSeq(t)
  BY DEF SealedFiles, SealedPieces
<1> HIDE DEF t
<1>6. FlattenSeq(Append(SealedPieces, <<>>)) = FlattenSeq(SealedPieces) \o <<>>
  <2>1. <<>> \in Seq(SegmentFiles)
    OBVIOUS
  <2>2. QED
    BY <1>2, <2>1, FlattenAppend
<1>7. SealedFiles = FlattenSeq(SealedPieces) /\ SealedFiles \in Seq(SegmentFiles)
  BY PiecesType DEF SealedFiles, SealedPieces
<1>8. QED
  BY <1>4, <1>5, <1>6, <1>7

LEMMA PiecesSealed ==
  ASSUME files \in Seq(SegmentFiles), files # <<>>, NEW e \in SegmentFiles,
         files' = [files EXCEPT ![Cur] = e],
         \A k \in DOMAIN files :
            IF k = Cur THEN ~Sealed(k) /\ Sealed(k)' ELSE Sealed(k)' <=> Sealed(k)
  PROVE  SealedFiles' = Append(SealedFiles, e)
<1>1. Cur = Len(files) /\ Cur \in DOMAIN files
  BY DEF Cur
<1>2. DOMAIN files' = DOMAIN files /\ files'[Cur] = e
      /\ \A k \in DOMAIN files \ {Cur} : files'[k] = files[k]
  <2> HIDE DEF Cur
  <2>1. QED
    BY <1>1
<1>3. SealedPieces \in Seq(Seq(SegmentFiles)) /\ Len(SealedPieces) = Len(files)
  BY PiecesType
<1> DEFINE s == SealedPieces
           t == SealedPieces'
<1>4. DOMAIN s = DOMAIN files /\ s # <<>> /\ s[Cur] = <<>>
  BY <1>1, <1>3 DEF SealedPieces
<1>5. t = [s EXCEPT ![Len(s)] = @ \o <<e>>]
  <2>0. t = [k \in DOMAIN files |-> IF Sealed(k)' THEN <<files'[k]>> ELSE <<>>]
    BY <1>2 DEF SealedPieces
  <2>1. DOMAIN t = DOMAIN s /\ t = [k \in DOMAIN t |-> t[k]]
    BY <1>4, <2>0
  <2>2. t[Cur] = <<e>> /\ \A k \in DOMAIN s \ {Cur} : t[k] = s[k]
    BY <1>1, <1>2, <1>4, <2>0 DEF SealedPieces
  <2>3. <<>> \o <<e>> = <<e>>
    OBVIOUS
  <2> HIDE DEF s, t
  <2>4. s = [k \in DOMAIN s |-> s[k]]
    BY <1>3 DEF s
  <2>5. QED
    BY <1>1, <1>3, <1>4, <2>1, <2>2, <2>3, <2>4 DEF s
<1>6. SealedFiles' = FlattenSeq(t)
  BY DEF SealedFiles, SealedPieces
<1> HIDE DEF t
<1>7. FlattenSeq([s EXCEPT ![Len(s)] = @ \o <<e>>]) = FlattenSeq(s) \o <<e>>
  <2>1. <<e>> \in Seq(SegmentFiles)
    OBVIOUS
  <2> HIDE DEF s
  <2>2. QED
    BY <1>3, <1>4, <2>1, FlattenGrow DEF s
<1>8. SealedFiles = FlattenSeq(s) /\ SealedFiles \in Seq(SegmentFiles)
  BY PiecesType DEF SealedFiles, SealedPieces
<1> HIDE DEF s
<1>9. SealedFiles \o <<e>> = Append(SealedFiles, e)
  BY <1>8
<1>10. QED
  BY <1>5, <1>6, <1>7, <1>8, <1>9

LEMMA SameLength ==
  ASSUME NEW S, NEW s \in Seq(S), NEW t \in Seq(S), DOMAIN s = DOMAIN t
  PROVE  Len(s) = Len(t)
OBVIOUS

LEMMA AppendLonger ==
  ASSUME NEW S, NEW s \in Seq(S), NEW e \in S
  PROVE  Len(Append(s, e)) = Len(s) + 1 /\ DOMAIN Append(s, e) # DOMAIN s
<1>1. Len(s) + 1 \in DOMAIN Append(s, e) /\ Len(s) + 1 \notin DOMAIN s
  OBVIOUS
<1>2. QED
  BY <1>1

\* A step other than SealSegment seals no file; it may create one.
LEMMA SealedStep ==
  ASSUME Inv, Inv', FilesGrow, DiskStep
  PROVE  /\ ~SealSegment =>
              /\ \A k \in DOMAIN files : Sealed(k)' <=> Sealed(k)
              /\ \/ DOMAIN files' = DOMAIN files
                 \/ \E f \in SegmentFiles : ~HasFooter(f) /\ files' = Append(files, f)
         /\ SealSegment =>
              /\ SegFile.open /\ DOMAIN files' = DOMAIN files
              /\ \A k \in DOMAIN files :
                    IF k = Cur THEN ~Sealed(k) /\ Sealed(k)' ELSE Sealed(k)' <=> Sealed(k)
<1>0. files \in Seq(SegmentFiles) /\ files' \in Seq(SegmentFiles)
  BY DEF Inv, TypeOK
<1>1. /\ files \in Seq(SegmentFiles) /\ files' \in Seq(SegmentFiles)
      /\ DOMAIN files = 1..Len(files) /\ DOMAIN files' = 1..Len(files')
      /\ Len(files) \in Nat /\ Len(files') \in Nat /\ Cur = Len(files) /\ Cur' = Len(files')
  BY DEF Inv, TypeOK, Cur
<1>2. SegFile.open => files # <<>> /\ files[Cur] \in SegmentFiles /\ Cur \in DOMAIN files
  BY CurrentFile DEF Inv, FileInv
<1>3. SegFile.open => (HasFooter(files[Cur]) <=> pc = "seal")
  BY DEF Inv, FileInv
<1> DEFINE Created == \E f \in SegmentFiles : ~HasFooter(f) /\ files' = Append(files, f)
           Same == DOMAIN files' = DOMAIN files
<1>4. ASSUME pc = "open", NEW b \in BOOLEAN, files' = CreateFile(NextIdx, b) PROVE Created
  <2> DEFINE f == NewSegmentFile(NextIdx, b)
  <2>1. files' = Append(files, f) /\ NextIdx \in Nat
    BY <1>4, CreateAppends
  <2>2. f \in SegmentFiles /\ ~HasFooter(f)
    BY <2>1 DEF NewSegmentFile, NoFooter, SegmentFiles, Footers, HasFooter
  <2> HIDE DEF f
  <2>3. QED
    BY <2>1, <2>2
<1>5. Same \/ (Created /\ ~SealSegment)
  <2>1. CASE IdleStep
    BY <2>1 DEF IdleStep
  <2>2. ASSUME NEW r \in Records, RecordStep(r) PROVE Same
    BY <2>2 DEF RecordStep, RecsGrow
  <2>3. CASE WriteFileHeader \/ WriteFooter
    BY <2>3, FieldSteps DEF RecsSame
  <2>4. CASE SealSegment
    BY <2>4 DEF SealSegment, CutTail
  <2>5. CASE Destroy
    BY <2>5 DEF Destroy, CutTail
  <2>6. CASE OpenFile
    BY <1>4, <2>6 DEF OpenFile, SealSegment
  <2>7. CASE OpenFileFails
    BY <1>4, <2>7 DEF OpenFileFails, SealSegment
  <2>8. QED
    BY <2>1, <2>2, <2>3, <2>4, <2>5, <2>6, <2>7 DEF DiskStep
<1>11. Same => Cur' = Cur
  <2>1. ASSUME Same PROVE Len(files') = Len(files)
    <3>1. files' \in Seq(SegmentFiles) /\ files \in Seq(SegmentFiles) /\ DOMAIN files' = DOMAIN files
      BY <1>0, <2>1
    <3>2. QED
      BY <3>1, SameLength, Zenon
  <2>2. QED
    BY <1>1, <2>1
\* A file that is reopened does not exist.
<1>6. SegFile'.open /\ Same => SegFile.open
  <2> SUFFICES ASSUME SegFile'.open, Same PROVE SegFile.open
    OBVIOUS
  <2>1. CASE IdleStep
    BY <2>1 DEF IdleStep
  <2>6. ASSUME NEW r \in Records, RecordStep(r) PROVE SegFile.open
    BY <2>6 DEF RecordStep
  <2>2. (WriteFileHeader \/ WriteFooter) => SegFile.open
    BY WriteBytesOpen DEF Inv, WriteFileHeader, WriteFooter, FileHeaderSize, FileFooterSize
  <2>3. (SealSegment \/ Destroy \/ OpenFileFails) => ~SegFile'.open
    BY DEF SealSegment, Destroy, OpenFileFails, ClosedFile
  <2>4. OpenFile => ~Same
    <3>1. OpenFile => Created
      BY <1>4 DEF OpenFile
    <3>2. ASSUME NEW f \in SegmentFiles, files' = Append(files, f) PROVE ~Same
      <4>1. files \in Seq(SegmentFiles) /\ f \in SegmentFiles
        BY <1>0, <3>2
      <4>2. DOMAIN Append(files, f) # DOMAIN files
        BY <4>1, AppendLonger, Zenon
      <4>3. QED
        BY <3>2, <4>2
    <3>3. QED
      BY <3>1, <3>2
  <2>5. QED
    BY <2>1, <2>2, <2>3, <2>4, <2>6 DEF DiskStep
\* The files other than the open one.
<1>7. ASSUME NEW k \in DOMAIN files, ~(SegFile.open /\ k = Cur) PROVE Sealed(k)' <=> Sealed(k)
  <2>1. files'[k] = files[k]
    BY <1>7 DEF FilesGrow
  <2>2. ~(SegFile'.open /\ k = Cur')
    <3>1. ASSUME k = Cur' PROVE Same /\ Cur' = Cur
      <4>1. ASSUME NEW f, files' = Append(files, f) PROVE FALSE
        <5>1. Len(files') = Len(files) + 1 /\ k <= Len(files) /\ k = Len(files')
          BY <1>1, <3>1, <4>1
        <5>2. QED
          BY <1>1, <5>1
      <4>2. Same
        BY <1>5, <4>1
      <4>3. QED
        BY <1>11, <4>2
    <3>2. QED
      BY <1>6, <1>7, <3>1
  <2>3. QED
    BY <1>7, <2>1, <2>2 DEF Sealed, HasFooter
\* The open one.
<1>8. ASSUME SegFile.open, ~SealSegment PROVE ~Sealed(Cur) /\ \A k \in DOMAIN files : k = Cur => ~Sealed(k)'
  <2>1. ~Sealed(Cur)
    BY <1>8 DEF Sealed
  <2> SUFFICES ASSUME NEW k \in DOMAIN files, k = Cur PROVE ~Sealed(k)'
    BY <2>1
  <2>2. ASSUME SegFile'.open, Same PROVE ~Sealed(k)'
    BY <1>1, <2>2 DEF Sealed
  <2>3. ASSUME pc # "seal", ~HasFooter(files[Cur]) => ~HasFooter(files'[k]) PROVE ~Sealed(k)'
    BY <1>3, <1>8, <2>3 DEF Sealed, HasFooter
  <2>4. CASE IdleStep
    BY <1>8, <2>2, <2>4 DEF IdleStep
  <2>5. ASSUME NEW r \in Records, RecordStep(r) PROVE ~Sealed(k)'
    BY <2>2, <2>5 DEF RecordStep, RecsGrow
  <2>6. CASE WriteFileHeader \/ WriteFooter
    <3>1. SegFile'.open
      BY <2>6, WriteBytesOpen DEF Inv, WriteFileHeader, WriteFooter, FileHeaderSize, FileFooterSize
    <3>2. Same
      BY <2>6, FieldSteps DEF RecsSame
    <3>3. QED
      BY <2>2, <3>1, <3>2
  <2>7. CASE Destroy
    <3>1. PICK left \in BOOLEAN : files' = [files EXCEPT ![Cur].tail = left]
      BY <1>8, <2>7, DestroyCuts
    <3> DEFINE e == [files[Cur] EXCEPT !.tail = left]
    <3>2. e.footer = files[Cur].footer
      BY <1>2, <1>8 DEF SegmentFiles
    <3>3. files' = [files EXCEPT ![Cur] = e]
      BY <3>1
    <3> HIDE DEF e, Cur
    <3>4. files'[k] = e
      BY <3>3
    <3>5. QED
      BY <2>3, <2>7, <3>2, <3>4 DEF Destroy, HasFooter
  <2>8. CASE OpenFile \/ OpenFileFails
    <3>1. pc = "open"
      BY <2>8 DEF OpenFile, OpenFileFails
    <3>2. files'[k] = files[k]
      <4>1. Created \/ files' = files
        BY <1>4, <2>8 DEF OpenFile, OpenFileFails
      <4>2. ASSUME NEW f, files' = Append(files, f) PROVE files'[k] = files[k]
        BY <1>1, <4>2
      <4>3. QED
        BY <4>1, <4>2
    <3>3. QED
      BY <2>3, <3>1, <3>2
  <2>9. QED
    BY <1>8, <2>4, <2>5, <2>6, <2>7, <2>8 DEF DiskStep
<1>9. ASSUME SealSegment PROVE /\ SegFile.open /\ ~Sealed(Cur) /\ Same
                               /\ \A k \in DOMAIN files : k = Cur => Sealed(k)'
  <2>1. SegFile.open /\ ~SegFile'.open /\ HasFooter(files[Cur])
    BY <1>9 DEF SealSegment, Inv, FileInv, ClosedFile
  <2>2. PICK left \in BOOLEAN : files' = [files EXCEPT ![Cur].tail = left]
    BY <1>9 DEF SealSegment, CutTail
  <2> DEFINE e == [files[Cur] EXCEPT !.tail = left]
  <2>3. e.footer = files[Cur].footer
    BY <1>2, <2>1 DEF SegmentFiles
  <2>4. files' = [files EXCEPT ![Cur] = e]
    BY <2>2
  <2>5. Same
    BY <2>4
  <2> HIDE DEF e, Cur
  <2>6. files'[Cur] = e
    BY <1>2, <2>1, <2>4
  <2>7. QED
    BY <2>1, <2>3, <2>5, <2>6 DEF Sealed, HasFooter
<1>10. QED
  <2>1. ASSUME ~SealSegment PROVE \A k \in DOMAIN files : Sealed(k)' <=> Sealed(k)
    BY <1>7, <1>8, <2>1 DEF Sealed
  <2>2. ASSUME SealSegment
        PROVE  \A k \in DOMAIN files :
                  IF k = Cur THEN ~Sealed(k) /\ Sealed(k)' ELSE Sealed(k)' <=> Sealed(k)
    BY <1>7, <1>9, <2>2
  <2>3. QED
    BY <1>5, <1>9, <2>1, <2>2

\* Sealing adds the current file to the sealed ones; no other step adds or
\* changes one.
LEMMA SealedInStep ==
  ASSUME Inv, Inv', FilesGrow, DiskStep
  PROVE  \/ ~SealSegment /\ SealedFiles' = SealedFiles /\ Segments' = Segments
         \/ /\ SealSegment /\ SegFile.open
            /\ \E e \in SegmentFiles :
                  /\ SealedFiles' = Append(SealedFiles, e)
                  /\ e.recs = files[Cur].recs /\ e.idx = files[Cur].idx
            /\ Segments' = Append(Segments, SegmentInfo)
<1>1. files \in Seq(SegmentFiles)
  BY DEF Inv, TypeOK
<1>2. SegFile.open => files # <<>> /\ files[Cur] \in SegmentFiles /\ Cur \in DOMAIN files
  BY CurrentFile DEF Inv, FileInv
<1>3. CASE ~SealSegment
  <2>1. Segments' = Segments
    BY <1>3 DEF DiskStep, IdleStep, RecordStep, WriteFileHeader, WriteFooter, Destroy, OpenFile,
                OpenFileFails
  <2>2. \A k \in DOMAIN files : Sealed(k) => files'[k] = files[k]
    BY DEF FilesGrow, Sealed
  <2>3. \A k \in DOMAIN files : Sealed(k)' <=> Sealed(k)
    BY <1>3, SealedStep
  <2>4. SealedFiles' = SealedFiles
    BY <1>1, <1>3, <2>2, <2>3, SealedStep, PiecesKept, PiecesNew
  <2>5. QED
    BY <1>3, <2>1, <2>4
<1>4. CASE SealSegment
  <2>1. SegFile.open
    BY <1>4, SealedStep
  <2>2. PICK left \in BOOLEAN : files' = [files EXCEPT ![Cur].tail = left]
    BY <1>4 DEF SealSegment, CutTail
  <2> DEFINE e == [files[Cur] EXCEPT !.tail = left]
  <2>3. e \in SegmentFiles /\ e.recs = files[Cur].recs /\ e.idx = files[Cur].idx
    BY <1>2, <2>1 DEF SegmentFiles
  <2>4. files' = [files EXCEPT ![Cur] = e]
    BY <2>2
  <2> HIDE DEF e
  <2>5. \A k \in DOMAIN files :
           IF k = Cur THEN ~Sealed(k) /\ Sealed(k)' ELSE Sealed(k)' <=> Sealed(k)
    BY <1>4, SealedStep
  <2>6. SealedFiles' = Append(SealedFiles, e)
    BY <1>1, <1>2, <2>1, <2>3, <2>4, <2>5, PiecesSealed
  <2>7. QED
    BY <1>4, <2>1, <2>3, <2>6 DEF SealSegment
<1>5. QED
  BY <1>3, <1>4

\* Where the next record goes.
CursorInv ==
  /\ SegFile.open => seg.idx = files[Cur].idx
  /\ SegFile.open /\ files[Cur].recs # <<>> =>
        SegFile.cursor = RecordsEnd(files[Cur]) + IF pc = "seal" THEN FileFooterSize ELSE 0
  /\ pc = "header" => files[Cur].recs = <<>>
  /\ pc \in {"end", "footer", "seal"} => SegFile.open /\ files[Cur].recs # <<>>

ListInv == ManifestListsSealedFiles /\ CursorInv

LEMMA CursorNext ==
  ASSUME Inv, Inv', FilesGrow, DiskStep, CursorInv
  PROVE  CursorInv'
<1>1. files \in Seq(SegmentFiles) /\ files' \in Seq(SegmentFiles)
  BY DEF Inv, TypeOK
<1>2. SegFile.open => files # <<>> /\ files[Cur] \in SegmentFiles /\ Cur \in DOMAIN files
  BY CurrentFile DEF Inv, FileInv
<1>3. DOMAIN files' = DOMAIN files => Cur' = Cur
  BY <1>1 DEF Cur
<1>4. CASE IdleStep
  <2>1. Cur' = Cur /\ files' = files
    BY <1>4 DEF IdleStep, Cur
  <2>2. QED
    BY <1>4, <2>1 DEF IdleStep, CursorInv, RecordsEnd
<1>5. ASSUME NEW r \in Records, RecordStep(r)
      PROVE  CursorInv'
  <2>1. /\ SegFile.open /\ SegFile'.open /\ RecsGrow(r) /\ r.off = SegFile.cursor
        /\ SegFile'.cursor = SegFile.cursor + r.size /\ seg'.idx = seg.idx
        /\ pc' \notin {"header", "seal"}
    BY <1>5 DEF RecordStep
  <2>2. /\ Cur' = Cur /\ files'[Cur].recs = Append(files[Cur].recs, r)
        /\ files'[Cur].idx = files[Cur].idx /\ files[Cur].recs \in Seq(Records)
    BY <1>2, <1>3, <2>1 DEF RecsGrow, SegmentFiles
  <2>3. files'[Cur].recs # <<>> /\ Last(files'[Cur].recs) = r
    BY <2>2 DEF Last
  <2>4. RecordsEnd(files'[Cur]) = r.off + r.size
    BY <2>3 DEF RecordsEnd
  <2>5. (SegFile.cursor + r.size) + 0 = SegFile.cursor + r.size
    <3>1. SegFile.cursor \in Nat /\ r.size \in Nat
      BY RecordFields DEF Inv, TypeOK, MappedFiles
    <3>2. QED
      BY <3>1
  <2>6. SegFile'.cursor = RecordsEnd(files'[Cur]) + 0
    BY <2>1, <2>4, <2>5
  <2>7. RecordsEnd(files[Cur])' = RecordsEnd(files'[Cur'])
    BY DEF RecordsEnd
  <2> HIDE DEF Cur
  <2>8. seg.idx = files[Cur].idx
    BY <2>1 DEF CursorInv
  <2>9. QED
    BY <2>1, <2>2, <2>3, <2>6, <2>7, <2>8 DEF CursorInv
<1>6. CASE WriteFileHeader
  <2>1. SegFile.open /\ SegFile'.open /\ RecsSame
    BY <1>6, FieldSteps, WriteBytesOpen DEF Inv, WriteFileHeader, FileHeaderSize
  <2>2. Cur' = Cur /\ files'[Cur].recs = <<>> /\ files'[Cur].idx = seg'.idx
    BY <1>2, <1>3, <1>6, <2>1 DEF RecsSame, CursorInv, WriteFileHeader
  <2>3. QED
    BY <1>6, <2>1, <2>2 DEF CursorInv, WriteFileHeader
<1>7. CASE WriteFooter
  <2>1. /\ SegFile.open /\ SegFile'.open /\ RecsSame
        /\ SegFile'.cursor = SegFile.cursor + FileFooterSize
    BY <1>7, FieldSteps, WriteBytesMoves, WriteBytesOpen DEF Inv, WriteFooter, FileFooterSize
  <2>2. /\ Cur' = Cur /\ files'[Cur].recs = files[Cur].recs /\ files'[Cur].idx = seg'.idx
        /\ files[Cur].recs # <<>> /\ SegFile.cursor = RecordsEnd(files[Cur]) + 0
    BY <1>2, <1>3, <1>7, <2>1 DEF RecsSame, CursorInv, WriteFooter
  <2>3. SegFile.cursor = RecordsEnd(files[Cur])
    <3>1. files[Cur].recs \in Seq(Records)
      BY <1>2, <2>1 DEF SegmentFiles
    <3>2. Last(files[Cur].recs) \in Records
      BY <2>2, <3>1 DEF Last
    <3>3. RecordsEnd(files[Cur]) \in Nat
      BY <2>2, <3>2, RecordFields DEF RecordsEnd
    <3>4. QED
      BY <2>2, <3>3
  <2>4. RecordsEnd(files[Cur])' = RecordsEnd(files[Cur])
    BY <2>2 DEF RecordsEnd
  <2>5. QED
    BY <1>7, <2>1, <2>2, <2>3, <2>4 DEF CursorInv, WriteFooter
<1>8. ASSUME SegFile' = ClosedFile, pc' \notin {"header", "end", "footer", "seal"}
      PROVE  CursorInv'
  BY <1>8 DEF CursorInv, ClosedFile
<1>9. CASE SealSegment
  BY <1>8, <1>9 DEF SealSegment, AfterClose
<1>10. CASE Destroy
  BY <1>8, <1>10 DEF Destroy
<1>11. CASE OpenFileFails
  BY <1>8, <1>11 DEF OpenFileFails, Fail
<1>12. CASE OpenFile
  <2> DEFINE f == NewSegmentFile(NextIdx, TRUE)
  <2>1. files' = Append(files, f)
    BY <1>12, CreateAppends DEF OpenFile
  <2>2. f.recs = <<>> /\ f.idx = seg'.idx
    BY <1>12 DEF OpenFile, NewSegmentFile, FreshSeg
  <2> HIDE DEF f
  <2>3. files'[Cur'] = f
    BY <1>1, <2>1 DEF Cur
  <2>4. QED
    BY <1>12, <2>2, <2>3 DEF OpenFile, CursorInv
<1>13. QED
  BY <1>4, <1>5, <1>6, <1>7, <1>9, <1>10, <1>11, <1>12 DEF DiskStep

\* The manifest is only ever replaced by the list as it is.
LEMMA ManifestStep ==
  ASSUME [Next]_vars
  PROVE  manifest' = manifest \/ (manifest' = ManifestNow /\ Segments' = Segments)
<1> USE DEF vars, control, memory, disk
<1>1. ASSUME Client PROVE manifest' = manifest
  BY <1>1 DEF Client, Open, DefineChannel, DefineRefused, WriteUnknown, WriteRaw, WriteCompressed,
              Annotate, Flush, RotateSegment, RotateRefused, Close, Discard, Refuse
<1>2. ASSUME Step, ~WriteManifest PROVE manifest' = manifest
  BY <1>2 DEF Step, OpenFile, OpenFileFails, WriteFileHeader, WriteSessionStart,
       ReemitChannelDef, OpenSegmentReturns, FlushLoopReturns, SkipChannel, FlushChannel,
       RotateForChannel, WriteChannelDef, WriteData, FlushWritten, RotateForWrite,
       WriteAnnotation, WriteIndex, WriteSessionEnd, WriteFooter, SealSegment,
       WriteManifestFails, Destroy, WriteFails, MemoryFault
<1>3. CASE WriteManifest
  BY <1>3 DEF WriteManifest
<1>4. QED
  BY <1>1, <1>2, <1>3 DEF Next

LEMMA PrefixSteps ==
  ASSUME NEW S, NEW s \in Seq(S), NEW t \in Seq(S), NEW e \in S
  PROVE  /\ IsPrefix(s, s)
         /\ IsPrefix(s, t) => IsPrefix(s, Append(t, e))
<1>1. IsPrefix(s, s)
  BY DEF IsPrefix
<1>2. ASSUME IsPrefix(s, t) PROVE IsPrefix(s, Append(t, e))
  BY <1>2 DEF IsPrefix
<1>3. QED
  BY <1>1, <1>2

\* No step takes a fault back.
LEMMA FaultsGrow ==
  ASSUME TypeOK, [Next]_vars
  PROVE  faults' \in Nat /\ faults' >= faults
<1>0. faults \in Nat
  BY DEF TypeOK
<1> USE DEF vars, control, memory, disk
<1>1. ASSUME faults' = faults \/ faults' = faults + 1 PROVE faults' \in Nat /\ faults' >= faults
  BY <1>0, <1>1
<1>2. CASE UNCHANGED vars
  BY <1>1, <1>2
<1>3. CASE Client
  BY <1>1, <1>3
  DEF Client, Open, DefineChannel, DefineRefused, WriteUnknown, WriteRaw, WriteCompressed,
      Annotate, Flush, RotateSegment, RotateRefused, Close, Discard, Refuse
<1>4. CASE Step
  <2>1. faults' = faults \/ faults' = faults + 1
    BY <1>4
    DEF Step, OpenFile, OpenFileFails, WriteFileHeader, WriteSessionStart, ReemitChannelDef,
        OpenSegmentReturns, FlushLoopReturns, SkipChannel, FlushChannel, RotateForChannel,
        WriteChannelDef, WriteData, FlushWritten, RotateForWrite, WriteAnnotation, WriteIndex,
        WriteSessionEnd, WriteFooter, SealSegment, CutTail, WriteManifest, WriteManifestFails,
        Destroy, WriteFails, MemoryFault
  <2>2. QED
    BY <1>1, <2>1
<1>5. QED
  BY <1>2, <1>3, <1>4 DEF Next

\* A sealed file keeps its tail only when the cut failed.
LEMMA UncutNext ==
  ASSUME Inv, Inv', FilesGrow, DiskStep, [Next]_vars,
         \A k \in DOMAIN files : Sealed(k) /\ files[k].tail => faults > 0
  PROVE  (\A k \in DOMAIN files : Sealed(k) /\ files[k].tail => faults > 0)'
<1>1. faults \in Nat /\ faults' \in Nat /\ faults' >= faults
  BY FaultsGrow DEF Inv, TypeOK
<1>2. files \in Seq(SegmentFiles)
  BY DEF Inv, TypeOK
<1> SUFFICES ASSUME NEW k \in DOMAIN files', Sealed(k)', files'[k].tail
             PROVE  faults' > 0
  OBVIOUS
<1>3. k \in DOMAIN files
  <2>1. ASSUME NEW f \in SegmentFiles, ~HasFooter(f), files' = Append(files, f), k \notin DOMAIN files
        PROVE  FALSE
    <3>1. files'[k] = f
      BY <1>2, <2>1
    <3>2. QED
      BY <2>1, <3>1 DEF Sealed, HasFooter
  <2>2. QED
    BY <2>1, SealedStep
<1>4. CASE Sealed(k)
  <2>1. files'[k] = files[k]
    BY <1>3, <1>4 DEF FilesGrow, Sealed
  <2>2. QED
    BY <1>1, <1>3, <1>4, <2>1
<1>5. CASE ~Sealed(k)
  <2>1. SealSegment /\ SegFile.open /\ k = Cur
    BY <1>3, <1>5, SealedStep
  <2>2. PICK left \in BOOLEAN : files' = [files EXCEPT ![Cur].tail = left] /\ (left => faults' > 0)
    <3>1. CutTail /\ files \in Seq(SegmentFiles) /\ faults \in Nat
      BY <2>1 DEF SealSegment, Inv, TypeOK
    <3>2. QED
      BY <3>1, CutTailType
  <2> DEFINE e == [files[Cur] EXCEPT !.tail = left]
  <2>3. e.tail = left
    BY <2>1, CurrentFile DEF Inv, FileInv, SegmentFiles
  <2>4. files' = [files EXCEPT ![Cur] = e]
    BY <2>2
  <2> HIDE DEF e, Cur
  <2>5. files'[k] = e
    BY <1>3, <2>1, <2>4
  <2>6. QED
    BY <2>2, <2>3, <2>5
<1>6. QED
  BY <1>4, <1>5

LEMMA ListNext ==
  ASSUME Inv, Inv', FilesGrow, DiskStep, [Next]_vars, ListInv
  PROVE  ListInv'
<1>1. CursorInv'
  BY CursorNext DEF ListInv
<1>6. (\A k \in DOMAIN files : Sealed(k) /\ files[k].tail => faults > 0)'
  BY UncutNext DEF ListInv, ManifestListsSealedFiles
<1>2. /\ Segments \in Seq(SegmentInfos) /\ manifest.segs \in Seq(SegmentInfos)
      /\ SealedFiles \in Seq(SegmentFiles)
  BY PiecesType DEF Inv, TypeOK
<1>3. CASE SealedFiles' = SealedFiles /\ Segments' = Segments
  <2>1. IsPrefix(manifest.segs, Segments)'
    BY <1>2, <1>3, ManifestStep, PrefixSteps DEF ListInv, ManifestListsSealedFiles, ManifestNow
  <2>2. /\ Len(Segments') = Len(SealedFiles')
        /\ \A k \in DOMAIN Segments' :
              /\ Segments'[k].idx = SealedFiles'[k].idx
              /\ Segments'[k].size = RecordsEnd(SealedFiles'[k]) + FileFooterSize
    BY <1>3 DEF ListInv, ManifestListsSealedFiles
  <2>3. QED
    BY <1>1, <1>6, <2>1, <2>2 DEF ListInv, ManifestListsSealedFiles, RecordsEnd
<1>4. ASSUME SealSegment, SegFile.open, NEW e \in SegmentFiles,
             SealedFiles' = Append(SealedFiles, e),
             e.recs = files[Cur].recs, e.idx = files[Cur].idx,
             Segments' = Append(Segments, SegmentInfo)
      PROVE  ListInv'
  <2> DEFINE x == SegmentInfo
  <2>1. /\ files[Cur].recs # <<>> /\ seg.idx = files[Cur].idx
        /\ SegFile.cursor = RecordsEnd(files[Cur]) + FileFooterSize
    BY <1>4 DEF ListInv, CursorInv, SealSegment
  <2>2. x.idx = e.idx /\ x.size = RecordsEnd(e) + FileFooterSize
    BY <1>4, <2>1 DEF SegmentInfo, RecordsEnd
  <2>3. x \in SegmentInfos
    <3>1. Segments' \in Seq(SegmentInfos) /\ Segments'[Len(Segments) + 1] = x
      BY <1>2, <1>4 DEF Inv, TypeOK
    <3>2. Len(Segments) + 1 \in DOMAIN Segments'
      BY <1>2, <1>4
    <3>3. QED
      BY <3>1, <3>2
  <2>4. manifest' = manifest
    BY <1>4 DEF SealSegment
  <2> HIDE DEF x
  <2>5. Segments' = Append(Segments, x)
    BY <1>4 DEF x
  <2>6. IsPrefix(manifest.segs, Segments)'
    BY <1>2, <2>3, <2>4, <2>5, PrefixSteps DEF ListInv, ManifestListsSealedFiles
  <2>7. Len(Segments) = Len(SealedFiles)
    BY DEF ListInv, ManifestListsSealedFiles
  <2>8. /\ DOMAIN Segments' = 1..(Len(Segments) + 1) /\ Len(Segments') = Len(Segments) + 1
        /\ Segments'[Len(Segments) + 1] = x
        /\ \A k \in 1..Len(Segments) : Segments'[k] = Segments[k] /\ k \in DOMAIN Segments
    BY <1>2, <2>3, <2>5
  <2>9. /\ Len(SealedFiles') = Len(SealedFiles) + 1
        /\ SealedFiles'[Len(SealedFiles) + 1] = e
        /\ \A k \in 1..Len(SealedFiles) : SealedFiles'[k] = SealedFiles[k]
    BY <1>2, <1>4
  <2>10. ASSUME NEW k \in DOMAIN Segments'
         PROVE  /\ Segments'[k].idx = SealedFiles'[k].idx
                /\ Segments'[k].size = RecordsEnd(SealedFiles'[k]) + FileFooterSize
    <3>1. CASE k = Len(Segments) + 1
      BY <2>2, <2>7, <2>8, <2>9, <3>1
    <3>2. CASE k \in 1..Len(Segments)
      BY <2>7, <2>8, <2>9, <3>2 DEF ListInv, ManifestListsSealedFiles
    <3>3. Len(Segments) \in Nat
      BY <1>2
    <3>4. QED
      BY <2>8, <3>1, <3>2, <3>3
  <2>11. QED
    BY <1>1, <1>6, <2>6, <2>7, <2>8, <2>9, <2>10 DEF ListInv, ManifestListsSealedFiles, RecordsEnd
<1>5. QED
  BY <1>3, <1>4, SealedInStep

LEMMA ListInit == Init => ListInv
<1> SUFFICES ASSUME Init PROVE ListInv
  OBVIOUS
<1>1. files = <<>> /\ Segments = <<>> /\ manifest.segs = <<>> /\ pc = "new" /\ ~SegFile.open
  BY DEF Init, NoManifest, ClosedFile
<1>2. SealedFiles = <<>>
  <2>1. [k \in DOMAIN files |-> IF Sealed(k) THEN <<files[k]>> ELSE <<>>] = <<>>
    BY <1>1
  <2>2. QED
    BY <2>1, FlattenEmpty DEF SealedFiles
<1>3. IsPrefix(manifest.segs, Segments)
  BY <1>1 DEF IsPrefix
<1>4. QED
  BY <1>1, <1>2, <1>3 DEF ListInv, ManifestListsSealedFiles, CursorInv

\* What the invariants known so far give for one step.
LEMMA StepFacts ==
  ASSUME Inv, MarksMatchBuffer, [Next]_vars
  PROVE  FilesGrow /\ DiskStep
<1>1. FilesGrow
  BY FileClient, FileStep, FileStutter DEF Next
<1>2. QED
  BY <1>1, EveryStepOnDisk

LEMMA ListAlways == Spec => []ListInv
<1>1. Inv /\ Inv' /\ MarksMatchBuffer /\ ListInv /\ [Next]_vars => ListInv'
  BY StepFacts, ListNext
<1>2. QED
  BY <1>1, ListInit, InvAlways, MarksAlwaysMatch, PTL DEF Spec

\* The manifest names exactly the segment files that were finished, with their
\* index and the bytes that were written to them, whatever fails; and a listed
\* file is longer than that only when a system call failed.
THEOREM ManifestAlwaysLists == Spec => []ManifestListsSealedFiles
<1>1. ListInv => ManifestListsSealedFiles
  BY DEF ListInv
<1>2. QED
  BY <1>1, ListAlways, PTL

(***************************************************************************)
(* Seek points.                                                            *)
(***************************************************************************)
LEMMA LatestPoint ==
  ASSUME NEW points \in Seq(SeekPoints), NEW ch, PointsOf(points, ch) # {}
  PROVE  \E p \in ToSet(points) : p.ch = ch /\ p.ts = LastIndexed(points, ch)
<1> DEFINE k == Max(PointsOf(points, ch))
<1>1. DOMAIN points = 1..Len(points) /\ Len(points) \in Nat
  OBVIOUS
<1>2. PointsOf(points, ch) \in SUBSET (1..Len(points))
  BY <1>1 DEF PointsOf
<1>3. k \in PointsOf(points, ch)
  BY <1>1, <1>2, Largest
<1> HIDE DEF k
<1>4. k \in DOMAIN points /\ points[k].ch = ch
  BY <1>3 DEF PointsOf
<1>5. points[k] \in ToSet(points)
  BY <1>4 DEF ToSet
<1>6. LastIndexed(points, ch) = points[k].ts
  BY DEF LastIndexed, k
<1>7. QED
  BY <1>4, <1>5, <1>6

\* One record more, noted as MaybeAdd does.
LEMMA ServeAppend ==
  ASSUME NEW f \in SegmentFiles, NEW g, NEW points \in Seq(SeekPoints), NEW r \in Records,
         g.recs = Append(f.recs, r), SeekPointsServe(f, points),
         \A j \in DOMAIN f.recs : f.recs[j].off <= r.off
  PROVE  /\ ~IsData(r) => SeekPointsServe(g, points)
         /\ IsData(r) => SeekPointsServe(g, MaybeAdd(points, r.ch, r.ts, r.off))
<1>1. f.recs \in Seq(Records)
  BY DEF SegmentFiles
<1> DEFINE n == Len(f.recs) + 1
<1>2. /\ DOMAIN f.recs = 1..(n - 1) /\ DOMAIN g.recs = 1..n /\ n \in Nat /\ n >= 1
      /\ g.recs[n] = r /\ \A j \in DOMAIN f.recs : g.recs[j] = f.recs[j]
  BY <1>1
<1> HIDE DEF n
<1>3. \A c : /\ DataOf(f, c) \subseteq DataOf(g, c)
             /\ \A j \in DataOf(g, c) : j \in DataOf(f, c) \/ (j = n /\ IsData(r) /\ r.ch = c)
             /\ IsData(r) /\ r.ch = c => n \in DataOf(g, c)
  BY <1>2 DEF DataOf, HoldsData
<1>4. \A c : \A j \in DataOf(f, c) : g.recs[j] = f.recs[j] /\ f.recs[j] \in Records
  BY <1>1, <1>2 DEF DataOf
<1>5. \A p \in ToSet(points) : \E j \in DataOf(g, p.ch) : g.recs[j].off = p.off /\ g.recs[j].ts = p.ts
  <2> TAKE p \in ToSet(points)
  <2>1. PICK j \in DataOf(f, p.ch) : f.recs[j].off = p.off /\ f.recs[j].ts = p.ts
    BY DEF SeekPointsServe
  <2>2. j \in DataOf(g, p.ch) /\ g.recs[j] = f.recs[j]
    BY <1>3, <1>4
  <2>3. QED
    BY <2>1, <2>2
<1>6. \A c \in ChannelIds : \A j \in DataOf(f, c) :
         \E p \in ToSet(points) :
            /\ p.ch = c /\ p.off <= g.recs[j].off
            /\ p.off = g.recs[j].off \/ (g.recs[j].ts - p.ts) % Word < IndexIntervalNs
  <2> TAKE c \in ChannelIds
  <2> TAKE j \in DataOf(f, c)
  <2>1. PICK p \in ToSet(points) :
           /\ p.ch = c /\ p.off <= f.recs[j].off
           /\ p.off = f.recs[j].off \/ (f.recs[j].ts - p.ts) % Word < IndexIntervalNs
    BY DEF SeekPointsServe
  <2>2. g.recs[j] = f.recs[j]
    BY <1>4
  <2>3. QED
    BY <2>1, <2>2
<1>7. ASSUME ~IsData(r) PROVE SeekPointsServe(g, points)
  BY <1>3, <1>5, <1>6, <1>7 DEF SeekPointsServe
<1>8. CASE IsData(r) /\ WantsPoint(points, r.ch, r.ts)
  <2> DEFINE p == [ch |-> r.ch, ts |-> r.ts, off |-> r.off]
             more == Append(points, p)
  <2>1. p \in SeekPoints
    BY RecordFields DEF SeekPoints
  <2>2. ToSet(more) = ToSet(points) \cup {p}
    BY <2>1, AppendSet
  <2>3. p.ch = r.ch /\ p.ts = r.ts /\ p.off = r.off /\ p.off <= r.off
    BY RecordFields
  <2>4. MaybeAdd(points, r.ch, r.ts, r.off) = more
    BY <1>8 DEF MaybeAdd
  <2> HIDE DEF p, more
  <2>5. \A q \in ToSet(more) : \E j \in DataOf(g, q.ch) : g.recs[j].off = q.off /\ g.recs[j].ts = q.ts
    BY <1>2, <1>3, <1>5, <1>8, <2>2, <2>3
  <2>6. ASSUME NEW c \in ChannelIds, NEW j \in DataOf(g, c)
        PROVE  \E q \in ToSet(more) :
                  /\ q.ch = c /\ q.off <= g.recs[j].off
                  /\ q.off = g.recs[j].off \/ (g.recs[j].ts - q.ts) % Word < IndexIntervalNs
    <3>1. CASE j \in DataOf(f, c)
      <4>1. PICK q \in ToSet(points) :
               /\ q.ch = c /\ q.off <= g.recs[j].off
               /\ q.off = g.recs[j].off \/ (g.recs[j].ts - q.ts) % Word < IndexIntervalNs
        BY <1>6, <3>1, Zenon
      <4>2. q \in ToSet(more)
        BY <2>2
      <4>3. QED
        BY <4>1, <4>2, Zenon
    <3>2. CASE j = n /\ r.ch = c
      BY <1>2, <2>2, <2>3, <3>2
    <3>3. QED
      BY <1>3, <3>1, <3>2
  <2>7. QED
    BY <1>8, <2>4, <2>5, <2>6 DEF SeekPointsServe
<1>9. CASE IsData(r) /\ ~WantsPoint(points, r.ch, r.ts)
  <2>1. MaybeAdd(points, r.ch, r.ts, r.off) = points
    BY <1>9 DEF MaybeAdd
  <2>2. /\ PointsOf(points, r.ch) # {}
        /\ ~ ((r.ts - LastIndexed(points, r.ch)) % Word >= IndexIntervalNs)
    BY <1>9 DEF WantsPoint
  <2>3. PICK p \in ToSet(points) : p.ch = r.ch /\ p.ts = LastIndexed(points, r.ch)
    BY <2>2, LatestPoint
  <2>4. p \in SeekPoints
    BY <2>3 DEF ToSet
  <2>5. PICK j \in DataOf(f, p.ch) : f.recs[j].off = p.off
    BY <2>3 DEF SeekPointsServe
  <2>6. p.off <= r.off
    BY <2>5 DEF DataOf
  <2>7. (r.ts - p.ts) % Word < IndexIntervalNs
    <3>1. r.ts \in Int /\ p.ts \in Int
      BY <2>4, RecordFields DEF SeekPoints
    <3>2. (r.ts - p.ts) % Word \in Int
      BY <3>1, WordAssumption
    <3>3. QED
      BY <2>2, <2>3, <3>2, IntervalAssumption
  <2>8. ASSUME NEW c \in ChannelIds, NEW k \in DataOf(g, c)
        PROVE  \E q \in ToSet(points) :
                  /\ q.ch = c /\ q.off <= g.recs[k].off
                  /\ q.off = g.recs[k].off \/ (g.recs[k].ts - q.ts) % Word < IndexIntervalNs
    <3>1. CASE k \in DataOf(f, c)
      BY <1>6, <3>1
    <3>2. CASE k = n /\ r.ch = c
      BY <1>2, <2>3, <2>6, <2>7, <3>2
    <3>3. QED
      BY <1>3, <3>1, <3>2
  <2>9. QED
    BY <1>5, <1>9, <2>1, <2>8 DEF SeekPointsServe
<1>10. QED
  BY <1>7, <1>8, <1>9

\* A file gets its footer from WriteFooter, and keeps it with its records and points.
LEMMA FooterStep ==
  ASSUME Inv, Inv', FilesGrow, DiskStep, NEW k \in DOMAIN files', HasFooter(files'[k])
  PROVE  /\ \/ k \in DOMAIN files /\ HasFooter(files[k])
            \/ WriteFooter /\ SegFile.open /\ k = Cur
         /\ files'[k].recs = files[k].recs /\ files'[k].points = files[k].points
<1> DEFINE HadFooter == k \in DOMAIN files /\ HasFooter(files[k])
           SameData == files'[k].recs = files[k].recs /\ files'[k].points = files[k].points
<1>1. files \in Seq(SegmentFiles) /\ files' \in Seq(SegmentFiles)
  BY DEF Inv, TypeOK
<1>2. SegFile.open => files # <<>> /\ files[Cur] \in SegmentFiles /\ Cur \in DOMAIN files
  BY CurrentFile DEF Inv, FileInv
<1>3. k \in DOMAIN files /\ ~(SegFile.open /\ k = Cur) => HadFooter /\ SameData
  BY DEF FilesGrow
\* While the current file stays open it has a footer only at "seal".
<1>4. ASSUME SegFile.open, SegFile'.open, DOMAIN files' = DOMAIN files, pc' # "seal"
      PROVE  HadFooter /\ SameData
  <2>1. Cur' = Cur
    BY <1>1, <1>4 DEF Cur
  <2>2. ~HasFooter(files'[Cur])
    BY <1>4, <2>1 DEF Inv, FileInv, HasFooter
  <2>3. QED
    BY <1>3, <1>4, <2>2
<1>5. CASE IdleStep
  BY <1>5 DEF IdleStep
<1>6. CASE \E r \in Records : RecordStep(r)
  BY <1>4, <1>6 DEF RecordStep, RecsGrow
<1>7. CASE WriteFileHeader
  <2>1. SegFile.open /\ SegFile'.open /\ pc' # "seal"
    BY <1>7, WriteBytesOpen DEF Inv, WriteFileHeader, FileHeaderSize
  <2>2. DOMAIN files' = DOMAIN files
    BY <1>7, FieldSteps DEF RecsSame
  <2>3. QED
    BY <1>4, <2>1, <2>2
<1>8. CASE WriteFooter
  <2>1. SegFile.open
    BY <1>8, WriteBytesOpen DEF Inv, WriteFooter, FileFooterSize
  <2>2. DOMAIN files' = DOMAIN files
    BY <1>8, FieldSteps DEF RecsSame
  <2> DEFINE e == [files[Cur] EXCEPT !.footer = FooterNow]
  <2>3. files' = [files EXCEPT ![Cur] = e]
    BY <1>8 DEF WriteFooter
  <2>4. e.points = files[Cur].points /\ e.recs = files[Cur].recs
    BY <1>2, <2>1 DEF SegmentFiles
  <2> HIDE DEF e
  <2>5. files'[Cur] = e
    <3> HIDE DEF Cur
    <3>1. QED
      BY <1>2, <2>1, <2>3
  <2>6. k # Cur => HadFooter /\ SameData
    BY <1>3, <2>2
  <2>7. k = Cur => SameData
    BY <2>4, <2>5
  <2>8. QED
    BY <1>8, <2>1, <2>6, <2>7
<1>9. ASSUME SegFile.open, NEW left, files' = [files EXCEPT ![Cur].tail = left]
      PROVE  HadFooter /\ SameData
  <2> DEFINE e == [files[Cur] EXCEPT !.tail = left]
  <2>1. files' = [files EXCEPT ![Cur] = e]
    BY <1>9
  <2>2. e.points = files[Cur].points /\ e.recs = files[Cur].recs /\ e.footer = files[Cur].footer
    BY <1>2, <1>9 DEF SegmentFiles
  <2> HIDE DEF e
  <2>3. files'[Cur] = e /\ DOMAIN files' = DOMAIN files
    <3> HIDE DEF Cur
    <3>1. QED
      BY <1>2, <1>9, <2>1
  <2>4. CASE k = Cur
    BY <1>2, <1>9, <2>2, <2>3, <2>4 DEF HasFooter
  <2>5. CASE k # Cur
    BY <1>3, <2>3, <2>5
  <2>6. QED
    BY <2>4, <2>5
<1>10. CASE SealSegment
  <2>1. SegFile.open
    BY <1>10 DEF SealSegment, Inv, FileInv
  <2>2. QED
    BY <1>9, <1>10, <2>1 DEF SealSegment, CutTail
<1>11. CASE Destroy
  <2>1. CASE SegFile.open
    BY <1>9, <1>11, <2>1, DestroyCuts
  <2>2. CASE ~SegFile.open
    BY <1>11, <2>2 DEF Destroy
  <2>3. QED
    BY <2>1, <2>2
<1>12. ASSUME pc = "open", NEW b \in BOOLEAN, files' = CreateFile(NextIdx, b)
       PROVE  HadFooter /\ SameData
  <2> DEFINE f == NewSegmentFile(NextIdx, b)
  <2>1. files' = Append(files, f)
    BY <1>12, CreateAppends
  <2>2. ~HasFooter(f)
    BY DEF NewSegmentFile, NoFooter, HasFooter
  <2> HIDE DEF f
  <2>3. files'[Len(files) + 1] = f /\ \A n \in DOMAIN files : files'[n] = files[n]
    BY <1>1, <2>1
  <2>4. k \in DOMAIN files \/ k = Len(files) + 1
    BY <1>1, <2>1
  <2>5. QED
    BY <2>2, <2>3, <2>4
<1>13. CASE OpenFile
  BY <1>12, <1>13 DEF OpenFile
<1>14. CASE OpenFileFails
  BY <1>12, <1>14 DEF OpenFileFails
<1>15. QED
  BY <1>5, <1>6, <1>7, <1>8, <1>10, <1>11, <1>13, <1>14 DEF DiskStep

\* The points in the file are those of the segment once INDEX is written, and
\* the records of a segment lie before the cursor.
PointsInv ==
  /\ pc \in {"end", "footer", "seal"} => SegFile.open /\ files[Cur].points = seg.points
  /\ SegFile.open => \A j \in DOMAIN files[Cur].recs : files[Cur].recs[j].off <= SegFile.cursor

IndexInv == IndexServesSeeks /\ PointsInv

LEMMA TailSteps ==
  ASSUME [Next]_vars, pc' \in {"end", "footer", "seal"}
  PROVE  UNCHANGED vars \/ WriteIndex \/ WriteSessionEnd \/ WriteFooter
<1>1. ~Client
  BY DEF Client, Open, DefineChannel, DefineRefused, WriteUnknown, WriteRaw, WriteCompressed,
         Annotate, Flush, RotateSegment, RotateRefused, Close, Discard, Refuse, Return,
         EnterClose, AfterClose
<1>2. Step => WriteIndex \/ WriteSessionEnd \/ WriteFooter
  BY DEF Step, OpenFile, OpenFileFails, WriteFileHeader, WriteSessionStart,
       ReemitChannelDef, OpenSegmentReturns, FlushLoopReturns, SkipChannel, FlushChannel,
       RotateForChannel, WriteChannelDef, WriteData, FlushWritten, RotateForWrite,
       WriteAnnotation, SealSegment, WriteManifest, WriteManifestFails, Destroy, WriteFails,
       MemoryFault, Return, Fail, AfterClose, AfterManifest, control
<1>3. QED
  BY <1>1, <1>2 DEF Next

LEMMA PointsNext ==
  ASSUME Inv, Inv', FilesGrow, DiskStep, [Next]_vars, PointsInv, CursorInv
  PROVE  PointsInv'
<1>1. files \in Seq(SegmentFiles) /\ files' \in Seq(SegmentFiles)
  BY DEF Inv, TypeOK
<1>2. SegFile.open => files # <<>> /\ files[Cur] \in SegmentFiles /\ Cur \in DOMAIN files
  BY CurrentFile DEF Inv, FileInv
<1>3. DOMAIN files' = DOMAIN files => Cur' = Cur
  BY <1>1 DEF Cur
<1>4. ASSUME pc' \in {"end", "footer", "seal"}
      PROVE  SegFile'.open /\ files'[Cur'].points = seg'.points
  <2>1. CASE UNCHANGED vars
    BY <1>4, <2>1 DEF vars, control, memory, disk, PointsInv, Cur
  <2>2. CASE WriteIndex
    <3> DEFINE f == [files[Cur] EXCEPT !.recs = Append(@, IndexRecord)]
               g == [f EXCEPT !.points = seg.points]
               e == [g EXCEPT !.indexOff = SegFile.cursor]
    <3>1. SegFile.open /\ SegFile'.open /\ Cur' = Cur
      BY <1>3, <2>2, TailRecordsGrow DEF RecsGrow
    <3>2. files' = [files EXCEPT ![Cur] = e]
      <4>1. files' = [AppendRecord(IndexRecord) EXCEPT ![Cur].points = seg.points,
                                                       ![Cur].indexOff = SegFile.cursor]
        BY <2>2 DEF WriteIndex
      <4> HIDE DEF Cur
      <4>2. QED
        BY <1>2, <3>1, <4>1 DEF AppendRecord
    <3>3. e.points = seg.points
      BY <1>2, <3>1 DEF SegmentFiles
    <3>4. seg'.points = seg.points
      BY <2>2 DEF WriteIndex, Counted, Inv, TypeOK, SegmentStates
    <3> HIDE DEF e, f, g
    <3>5. files'[Cur] = e
      <4> HIDE DEF Cur
      <4>1. QED
        BY <1>2, <3>1, <3>2
    <3>6. QED
      BY <3>1, <3>3, <3>4, <3>5
  <2>3. CASE WriteSessionEnd
    <3> DEFINE f == [files[Cur] EXCEPT !.recs = Append(@, EndRecord)]
               e == [f EXCEPT !.endTotal = seg.count]
    <3>1. SegFile.open /\ SegFile'.open /\ Cur' = Cur
      BY <1>3, <2>3, TailRecordsGrow DEF RecsGrow
    <3>2. files' = [files EXCEPT ![Cur] = e]
      <4>1. files' = [AppendRecord(EndRecord) EXCEPT ![Cur].endTotal = seg.count]
        BY <2>3 DEF WriteSessionEnd
      <4> HIDE DEF Cur
      <4>2. QED
        BY <1>2, <3>1, <4>1 DEF AppendRecord
    <3>3. e.points = files[Cur].points
      BY <1>2, <3>1 DEF SegmentFiles
    <3>4. seg'.points = seg.points
      BY <2>3 DEF WriteSessionEnd, Counted, Inv, TypeOK, SegmentStates
    <3>5. files[Cur].points = seg.points
      BY <2>3 DEF WriteSessionEnd, PointsInv
    <3> HIDE DEF e, f
    <3>6. files'[Cur] = e
      <4> HIDE DEF Cur
      <4>1. QED
        BY <1>2, <3>1, <3>2
    <3>7. QED
      BY <3>1, <3>3, <3>4, <3>5, <3>6
  <2>4. CASE WriteFooter
    <3> DEFINE e == [files[Cur] EXCEPT !.footer = FooterNow]
    <3>1. SegFile.open /\ SegFile'.open /\ Cur' = Cur
      BY <1>3, <2>4, FieldSteps, WriteBytesOpen DEF RecsSame, Inv, WriteFooter, FileFooterSize
    <3>2. files' = [files EXCEPT ![Cur] = e]
      BY <2>4 DEF WriteFooter
    <3>3. e.points = files[Cur].points
      BY <1>2, <3>1 DEF SegmentFiles
    <3>4. files[Cur].points = seg.points /\ seg' = seg
      BY <2>4 DEF WriteFooter, PointsInv
    <3> HIDE DEF e
    <3>5. files'[Cur] = e
      <4> HIDE DEF Cur
      <4>1. QED
        BY <1>2, <3>1, <3>2
    <3>6. QED
      BY <3>1, <3>3, <3>4, <3>5
  <2>5. QED
    BY <1>4, <2>1, <2>2, <2>3, <2>4, TailSteps
<1>5. ASSUME SegFile'.open, NEW j \in DOMAIN files'[Cur'].recs
      PROVE  files'[Cur'].recs[j].off <= SegFile'.cursor
  <2>1. CASE IdleStep
    BY <1>5, <2>1 DEF IdleStep, PointsInv, Cur
  <2>2. ASSUME NEW r \in Records, RecordStep(r)
        PROVE  files'[Cur'].recs[j].off <= SegFile'.cursor
    <3>1. /\ SegFile.open /\ RecsGrow(r) /\ r.off = SegFile.cursor
          /\ SegFile'.cursor = SegFile.cursor + r.size
      BY <2>2 DEF RecordStep
    <3>2. Cur' = Cur /\ files'[Cur].recs = Append(files[Cur].recs, r) /\ files[Cur].recs \in Seq(Records)
      BY <1>2, <1>3, <3>1 DEF RecsGrow, SegmentFiles
    <3>3. SegFile.cursor \in Nat /\ r.size \in Nat
      BY RecordFields DEF Inv, TypeOK, MappedFiles
    <3>4. CASE j \in DOMAIN files[Cur].recs
      <4>1. files[Cur].recs[j] \in Records /\ files'[Cur].recs[j] = files[Cur].recs[j]
        BY <3>2, <3>4
      <4>2. files[Cur].recs[j].off \in Nat /\ files[Cur].recs[j].off <= SegFile.cursor
        BY <3>1, <3>4, <4>1, RecordFields DEF PointsInv
      <4>3. QED
        BY <3>1, <3>2, <3>3, <4>1, <4>2
    <3>5. CASE j = Len(files[Cur].recs) + 1
      <4>1. files'[Cur].recs[j] = r
        BY <3>2, <3>5
      <4>2. QED
        BY <3>1, <3>2, <3>3, <4>1
    <3>6. QED
      BY <1>5, <3>2, <3>4, <3>5
  <2>3. CASE WriteFileHeader \/ WriteFooter
    <3>1. SegFile.open /\ RecsSame
      BY <2>3, FieldSteps, WriteBytesOpen DEF Inv, WriteFileHeader, WriteFooter, FileHeaderSize, FileFooterSize
    <3>2. Cur' = Cur /\ files'[Cur].recs = files[Cur].recs /\ files[Cur].recs \in Seq(Records)
      BY <1>2, <1>3, <3>1 DEF RecsSame, SegmentFiles
    <3>3. PICK n \in Nat : SegFile'.cursor = SegFile.cursor + n
      BY <2>3, WriteBytesMoves DEF Inv, WriteFileHeader, WriteFooter, FileHeaderSize, FileFooterSize
    <3>4. files[Cur].recs[j] \in Records /\ SegFile.cursor \in Nat
      <4>1. SegFile.cursor \in Nat
        BY DEF Inv, TypeOK, MappedFiles
      <4>2. j \in DOMAIN files[Cur].recs
        BY <1>5, <3>2
      <4> HIDE DEF Cur
      <4>3. QED
        BY <3>2, <4>1, <4>2
    <3>5. files[Cur].recs[j].off \in Nat /\ files[Cur].recs[j].off <= SegFile.cursor
      BY <1>5, <3>1, <3>2, <3>4, RecordFields DEF PointsInv
    <3>6. QED
      BY <3>2, <3>3, <3>4, <3>5
  <2>4. CASE OpenFile
    <3> DEFINE f == NewSegmentFile(NextIdx, TRUE)
    <3>1. files' = Append(files, f) /\ f.recs = <<>>
      BY <2>4, CreateAppends DEF OpenFile, NewSegmentFile
    <3> HIDE DEF f
    <3>2. files'[Cur'] = f
      BY <1>1, <3>1 DEF Cur
    <3>3. QED
      BY <1>5, <3>1, <3>2
  <2>5. SealSegment \/ Destroy \/ OpenFileFails => SegFile' = ClosedFile
    <3>1. SealSegment => SegFile' = ClosedFile
      BY DEF SealSegment
    <3>2. Destroy => SegFile' = ClosedFile
      BY DEF Destroy
    <3>3. OpenFileFails => SegFile' = ClosedFile
      BY DEF OpenFileFails
    <3>4. QED
      BY <3>1, <3>2, <3>3
  <2>6. SealSegment \/ Destroy \/ OpenFileFails => ~SegFile'.open
    BY <2>5 DEF ClosedFile
  <2>7. QED
    BY <1>5, <2>1, <2>2, <2>3, <2>4, <2>6 DEF DiskStep
<1>6. QED
  BY <1>4, <1>5 DEF PointsInv

\* What DataNoted sets.
LEMMA NotedFields ==
  ASSUME seg \in SegmentStates, NEW c, NEW a, NEW b
  PROVE  /\ Counted.points = seg.points
         /\ Counted.start = seg.start /\ Counted.last = seg.last /\ Counted.hasData = seg.hasData
         /\ DataNoted(c, a, b).points = MaybeAdd(seg.points, c, a, SegFile.cursor)
         /\ DataNoted(c, a, b).hasData
         /\ ~seg.hasData => DataNoted(c, a, b).start = a /\ DataNoted(c, a, b).last = b
         /\ seg.hasData =>
              /\ DataNoted(c, a, b).start = IF a < seg.start THEN a ELSE seg.start
              /\ DataNoted(c, a, b).last = IF b > seg.last THEN b ELSE seg.last
<1> DEFINE s == [Counted EXCEPT !.points = MaybeAdd(@, c, a, SegFile.cursor)]
<1>1. /\ Counted.points = seg.points /\ Counted.start = seg.start /\ Counted.last = seg.last
      /\ Counted.hasData = seg.hasData
      /\ Counted = [idx |-> seg.idx, count |-> seg.count + 1, start |-> seg.start,
                    last |-> seg.last, hasData |-> seg.hasData, points |-> seg.points]
  <2> DEFINE g == [idx |-> seg.idx, count |-> seg.count, start |-> seg.start,
                   last |-> seg.last, hasData |-> seg.hasData, points |-> seg.points]
  <2>1. seg = g
    BY DEF SegmentStates
  <2>2. [g EXCEPT !.count = seg.count + 1] =
          [idx |-> seg.idx, count |-> seg.count + 1, start |-> seg.start,
           last |-> seg.last, hasData |-> seg.hasData, points |-> seg.points]
    OBVIOUS
  <2>3. Counted = [g EXCEPT !.count = seg.count + 1]
    <3> HIDE DEF g
    <3>1. QED
      BY <2>1 DEF Counted
  <2>4. QED
    BY <2>2, <2>3
<1>2. s = [idx |-> seg.idx, count |-> seg.count + 1, start |-> seg.start, last |-> seg.last,
           hasData |-> seg.hasData, points |-> MaybeAdd(seg.points, c, a, SegFile.cursor)]
  BY <1>1
<1> HIDE DEF s
<1>3. seg.hasData \in BOOLEAN
  BY DEF SegmentStates
<1>4. QED
  BY <1>1, <1>2, <1>3 DEF DataNoted, NoteDataRange, s

LEMMA IndexNext ==
  ASSUME Inv, Inv', MarksMatchBuffer, FilesGrow, DiskStep, [Next]_vars, IndexInv, CursorInv
  PROVE  IndexInv'
<1>1. PointsInv'
  BY PointsNext DEF IndexInv
<1>2. files \in Seq(SegmentFiles) /\ files' \in Seq(SegmentFiles) /\ seg \in SegmentStates
  BY DEF Inv, TypeOK
<1>3. SegFile.open => files # <<>> /\ files[Cur] \in SegmentFiles /\ Cur \in DOMAIN files
  BY CurrentFile DEF Inv, FileInv
<1>4. DOMAIN files' = DOMAIN files => Cur' = Cur
  BY <1>2 DEF Cur
<1>5. \A f, g, points : g.recs = f.recs /\ SeekPointsServe(f, points) => SeekPointsServe(g, points)
  BY DEF SeekPointsServe, DataOf
<1>6. ASSUME SegFile'.open
      PROVE  SeekPointsServe(files'[Cur'], seg'.points)
  <2>1. CASE IdleStep
    BY <1>6, <2>1 DEF IdleStep, IndexInv, IndexServesSeeks, Cur
  <2>2. ASSUME NEW r \in Records, RecordStep(r)
        PROVE  SeekPointsServe(files'[Cur'], seg'.points)
    <3>1. SegFile.open /\ RecsGrow(r) /\ r.off = SegFile.cursor /\ SegNoted(r)
      BY <2>2 DEF RecordStep
    <3>2. Cur' = Cur /\ files'[Cur].recs = Append(files[Cur].recs, r)
      BY <1>4, <3>1 DEF RecsGrow
    <3>3. /\ SeekPointsServe(files[Cur], seg.points) /\ seg.points \in Seq(SeekPoints)
          /\ \A j \in DOMAIN files[Cur].recs : files[Cur].recs[j].off <= r.off
      BY <1>2, <3>1 DEF IndexInv, IndexServesSeeks, PointsInv, SegmentStates
    <3>4. /\ ~IsData(r) => SeekPointsServe(files'[Cur], seg.points)
          /\ IsData(r) => SeekPointsServe(files'[Cur], MaybeAdd(seg.points, r.ch, r.ts, r.off))
      BY <1>3, <3>1, <3>2, <3>3, ServeAppend
    <3>5. \/ ~IsData(r) /\ seg'.points = seg.points
          \/ IsData(r) /\ seg'.points = MaybeAdd(seg.points, r.ch, r.ts, r.off)
      <4>1. CASE ~IsData(r) /\ seg' = Counted
        BY <1>2, <4>1, NotedFields
      <4>2. CASE r = DataRecord /\ seg' = DataNoted(call.ch, call.ts, call.ts)
        <5>1. IsData(r) /\ r.ch = call.ch /\ r.ts = call.ts
          BY <4>2 DEF DataRecord, Rec, IsData
        <5>2. QED
          BY <1>2, <3>1, <4>2, <5>1, NotedFields
      <4>3. ASSUME NEW c \in ChannelIds, r = ChunkRecord(c),
                   seg' = DataNoted(c, accum[c].first, accum[c].last)
            PROVE  IsData(r) /\ seg'.points = MaybeAdd(seg.points, r.ch, r.ts, r.off)
        <5>1. IsData(r) /\ r.ch = c /\ r.ts = accum[c].first
          BY <4>3 DEF ChunkRecord, Rec, IsData
        <5>2. QED
          BY <1>2, <3>1, <4>3, <5>1, NotedFields
      <4>4. QED
        BY <3>1, <4>1, <4>2, <4>3 DEF SegNoted
    <3>6. QED
      BY <3>2, <3>4, <3>5
  <2>3. CASE WriteFileHeader \/ WriteFooter
    <3>1. SegFile.open /\ RecsSame
      BY <2>3, FieldSteps, WriteBytesOpen DEF Inv, WriteFileHeader, WriteFooter, FileHeaderSize, FileFooterSize
    <3>2. Cur' = Cur /\ files'[Cur].recs = files[Cur].recs
      BY <1>3, <1>4, <3>1 DEF RecsSame
    <3>3. seg' = seg
      BY <2>3 DEF WriteFileHeader, WriteFooter
    <3>4. QED
      BY <1>5, <3>1, <3>2, <3>3 DEF IndexInv, IndexServesSeeks
  <2>4. CASE OpenFile
    <3> DEFINE f == NewSegmentFile(NextIdx, TRUE)
    <3>1. files' = Append(files, f) /\ f.recs = <<>>
      BY <2>4, CreateAppends DEF OpenFile, NewSegmentFile
    <3> HIDE DEF f
    <3>2. files'[Cur'] = f
      BY <1>2, <3>1 DEF Cur
    <3>3. seg'.points = <<>>
      BY <2>4 DEF OpenFile, FreshSeg
    <3>4. ToSet(<<>>) = {} /\ \A c : DataOf(f, c) = {}
      BY <3>1 DEF ToSet, DataOf
    <3>5. QED
      BY <3>2, <3>3, <3>4 DEF SeekPointsServe
  <2>5. SealSegment \/ Destroy \/ OpenFileFails => SegFile' = ClosedFile
    BY DEF SealSegment, Destroy, OpenFileFails
  <2>6. SegFile' # ClosedFile
    BY <1>6 DEF ClosedFile
  <2>7. QED
    BY <1>6, <2>1, <2>2, <2>3, <2>4, <2>5, <2>6 DEF DiskStep
<1>7. ASSUME NEW k \in DOMAIN files', HasFooter(files'[k])
      PROVE  SeekPointsServe(files'[k], files'[k].points)
  <2>1. files'[k].recs = files[k].recs /\ files'[k].points = files[k].points
    BY <1>7, FooterStep
  <2>2. SeekPointsServe(files[k], files[k].points)
    <3>1. CASE k \in DOMAIN files /\ HasFooter(files[k])
      BY <3>1 DEF IndexInv, IndexServesSeeks
    <3>2. CASE WriteFooter /\ SegFile.open /\ k = Cur
      BY <3>2 DEF WriteFooter, IndexInv, PointsInv, IndexServesSeeks
    <3>3. QED
      BY <1>7, <3>1, <3>2, FooterStep
  <2>3. QED
    BY <1>5, <2>1, <2>2
<1>8. IndexServesSeeks'
  BY <1>6, <1>7 DEF IndexServesSeeks, SeekPointsServe, DataOf, HasFooter
<1>9. QED
  BY <1>1, <1>8 DEF IndexInv

\* The seek points of a finished segment, and those collected for the current
\* one, refer to data records of their channel, and every data record has a
\* point at most an interval before it.
THEOREM IndexAlwaysServes == Spec => []IndexServesSeeks
<1>1. Init => IndexInv
  <2> SUFFICES ASSUME Init PROVE IndexInv
    OBVIOUS
  <2>1. files = <<>> /\ pc = "new" /\ ~SegFile.open
    BY DEF Init, ClosedFile
  <2>2. QED
    BY <2>1 DEF IndexInv, IndexServesSeeks, PointsInv
<1>2. Inv /\ Inv' /\ MarksMatchBuffer /\ ListInv /\ IndexInv /\ [Next]_vars => IndexInv'
  BY StepFacts, IndexNext DEF ListInv
<1>3. IndexInv => IndexServesSeeks
  BY DEF IndexInv
<1>4. QED
  BY <1>1, <1>2, <1>3, InvAlways, MarksAlwaysMatch, ListAlways, PTL DEF Spec

(***************************************************************************)
(* Time ranges.                                                            *)
(***************************************************************************)
AllMonotone == \A c \in ChannelIds : Monotone(pushed[c])

Covered(r, lo, hi) == IsData(r) => \A m \in ToSet(r.msgs) : lo <= m.ts /\ m.ts <= hi

\* The range of the current segment covers what is in it.
SegRangeInv ==
  AllMonotone /\ SegFile.open =>
     \A j \in DOMAIN files[Cur].recs :
        /\ IsData(files[Cur].recs[j]) => seg.hasData
        /\ Covered(files[Cur].recs[j], seg.start, seg.last)

RangeInv == RangesCoverMessages /\ SegRangeInv

\* Messages are only appended, so that timestamps that are in order now were
\* before.
LEMMA MonotoneBefore ==
  ASSUME Inv, LogStep, AllMonotone'
  PROVE  AllMonotone
<1>1. \A c \in ChannelIds : pushed[c] \in Seq(Messages)
  BY DEF Inv, TypeOK
<1>2. ASSUME NEW d \in ChannelIds, NEW m, pushed' = [pushed EXCEPT ![d] = Append(@, m)]
      PROVE  AllMonotone
  <2>1. SUFFICES ASSUME NEW c \in ChannelIds PROVE Monotone(pushed[c])
    BY DEF AllMonotone
  <2>2. Monotone(pushed'[c])
    BY DEF AllMonotone, Monotone
  <2>3. CASE c # d
    <3>1. pushed'[c] = pushed[c]
      BY <1>2, <2>3 DEF Inv, TypeOK
    <3>2. QED
      BY <2>2, <3>1
  <2>4. CASE c = d
    <3>1. pushed'[c] = Append(pushed[c], m)
      BY <1>2, <2>4 DEF Inv, TypeOK
    <3>2. \A k \in DOMAIN pushed[c] : k \in DOMAIN pushed'[c] /\ pushed'[c][k] = pushed[c][k]
      BY <1>1, <3>1
    <3>3. QED
      BY <2>2, <3>2 DEF Monotone
  <2>5. QED
    BY <2>3, <2>4
<1>3. CASE pushed' = pushed
  BY <1>3 DEF AllMonotone, Monotone
<1>4. CASE BufferStep
  <2>1. PICK c \in ChannelIds, ts \in Timestamps, len \in Lengths : WriteCompressed(c, ts, len)
    BY <1>4 DEF BufferStep
  <2>2. pushed' = [pushed EXCEPT ![c] = Append(@, [n |-> calls', ts |-> ts, len |-> len])]
    BY <2>1 DEF WriteCompressed
  <2>3. QED
    BY <1>2, <2>2
<1>5. CASE DataStep
  <2>1. pushed' = [pushed EXCEPT ![call.ch] = Append(@, CallMessage)]
    BY <1>5 DEF DataStep, WriteData
  <2>2. call.ch \in ChannelIds
    BY <1>5, WriteTarget DEF DataStep, WriteData, Inv
  <2>3. QED
    BY <1>2, <2>1, <2>2
<1>6. QED
  BY <1>3, <1>4, <1>5 DEF LogStep, QuietLogStep, AnnotationStep, FlushStep, DestroyStep

\* A buffer is a suffix of the channel's messages, so its first and last
\* timestamps are its least and greatest.
LEMMA ChunkCovered ==
  ASSUME Inv, MarksMatchBuffer, LogInv, pc # "closed", NEW c \in ChannelIds, accum[c].has,
         Monotone(pushed[c]), NEW m \in ToSet(accum[c].buf)
  PROVE  accum[c].first <= m.ts /\ m.ts <= accum[c].last
<1> DEFINE b == accum[c].buf
           s == Stored(c)
<1>1. b \in Seq(Messages) /\ s \in Seq(Messages)
  <2>1. accum[c] \in Accums /\ files \in Seq(SegmentFiles)
    BY DEF Inv, TypeOK
  <2>2. QED
    BY <2>1, StoredType DEF Accums
<1>2. s \o b = pushed[c]
  BY DEF LogInv, NothingLostOrReordered
<1>3. b # <<>> /\ accum[c].first = Head(b).ts /\ accum[c].last = Last(b).ts
  BY DEF MarksMatchBuffer
<1>4. PICK j \in DOMAIN b : m = b[j]
  BY DEF ToSet
<1> HIDE DEF b, s
<1>5. /\ Len(s) \in Nat /\ Len(b) \in Nat /\ DOMAIN b = 1..Len(b) /\ Len(b) >= 1
      /\ Head(b) = b[1] /\ Last(b) = b[Len(b)]
  BY <1>1, <1>3 DEF Last
<1>6. \A k \in 1..Len(b) : Len(s) + k \in DOMAIN pushed[c] /\ pushed[c][Len(s) + k] = b[k]
  <2> TAKE k \in 1..Len(b)
  <2>1. Len(s) + k \in DOMAIN (s \o b) /\ (s \o b)[Len(s) + k] = b[k]
    BY <1>1, <1>5
  <2>2. QED
    BY <1>2, <2>1
<1>7. \A k, l \in 1..Len(b) : k < l => b[k].ts <= b[l].ts
  <2> TAKE k, l \in 1..Len(b)
  <2> HAVE k < l
  <2>1. Len(s) + k < Len(s) + l
    BY <1>5
  <2>2. QED
    BY <1>6, <2>1 DEF Monotone
<1>8. \A k \in 1..Len(b) : b[k].ts \in Nat
  <2>1. \A k \in 1..Len(b) : b[k] \in Messages
    BY <1>1, <1>5
  <2>2. QED
    BY <2>1 DEF Messages
<1>9. j \in 1..Len(b) /\ 1 \in 1..Len(b) /\ Len(b) \in 1..Len(b)
  BY <1>4, <1>5
<1>10. (j = 1 \/ 1 < j) /\ (j = Len(b) \/ j < Len(b))
  BY <1>5, <1>9
<1>11. b[1].ts <= m.ts
  BY <1>4, <1>7, <1>8, <1>9, <1>10
<1>12. m.ts <= b[Len(b)].ts
  <2>1. CASE j = Len(b)
    BY <1>4, <1>8, <1>9, <2>1
  <2>2. CASE j < Len(b)
    BY <1>4, <1>7, <1>9, <2>2
  <2>3. QED
    BY <1>10, <2>1, <2>2
<1>13. QED
  BY <1>3, <1>5, <1>11, <1>12

\* The range noted for a data record covers the messages in it.
LEMMA NotedRange ==
  ASSUME Inv, MarksMatchBuffer, LogInv, AllMonotone, NEW r \in Records, RecordStep(r), IsData(r)
  PROVE  \E a, b \in Nat : /\ seg' = DataNoted(r.ch, a, b)
                           /\ \A m \in ToSet(r.msgs) : a <= m.ts /\ m.ts <= b
<1>1. CASE WriteData /\ r = DataRecord /\ seg' = DataNoted(call.ch, call.ts, call.ts)
  <2>1. r.ch = call.ch /\ r.msgs = <<CallMessage>> /\ call.ts \in Nat
    BY <1>1 DEF DataRecord, Rec, Inv, TypeOK
  <2>2. \A m \in ToSet(r.msgs) : m.ts = call.ts
    BY <2>1 DEF ToSet, CallMessage
  <2>3. QED
    BY <1>1, <2>1, <2>2
<1>2. ASSUME NEW c \in ChannelIds, AccFlush(c), r = ChunkRecord(c),
             seg' = DataNoted(c, accum[c].first, accum[c].last)
      PROVE  \E a, b \in Nat : /\ seg' = DataNoted(r.ch, a, b)
                               /\ \A m \in ToSet(r.msgs) : a <= m.ts /\ m.ts <= b
  <2>1. accum[c].has
    BY <1>2, FlushWritesChunk
  <2>2. r.ch = c /\ r.msgs = accum[c].buf
    BY <1>2 DEF ChunkRecord, Rec
  <2>3. pc # "closed" /\ Monotone(pushed[c])
    BY DEF RecordStep, AllMonotone
  <2>4. \A m \in ToSet(r.msgs) : accum[c].first <= m.ts /\ m.ts <= accum[c].last
    BY <2>1, <2>2, <2>3, ChunkCovered
  <2>5. accum[c].first \in Nat /\ accum[c].last \in Nat
    <3>1. accum[c] \in Accums
      BY DEF Inv, TypeOK
    <3>2. QED
      BY <3>1 DEF Accums
  <2>6. QED
    BY <1>2, <2>2, <2>4, <2>5
<1>3. QED
  BY <1>1, <1>2 DEF RecordStep, SegNoted

LEMMA SegRangeNext ==
  ASSUME Inv, Inv', MarksMatchBuffer, LogInv, LogStep, DiskStep, CursorInv, SegRangeInv
  PROVE  SegRangeInv'
<1> SUFFICES ASSUME AllMonotone', SegFile'.open, NEW j \in DOMAIN files'[Cur'].recs
             PROVE  /\ IsData(files'[Cur'].recs[j]) => seg'.hasData
                    /\ Covered(files'[Cur'].recs[j], seg'.start, seg'.last)
  BY DEF SegRangeInv, AllMonotone, Monotone, Covered, IsData
<1>1. files \in Seq(SegmentFiles) /\ files' \in Seq(SegmentFiles) /\ seg \in SegmentStates
  BY DEF Inv, TypeOK
<1>2. SegFile.open => files # <<>> /\ files[Cur] \in SegmentFiles /\ Cur \in DOMAIN files
  BY CurrentFile DEF Inv, FileInv
<1>3. DOMAIN files' = DOMAIN files => Cur' = Cur
  BY <1>1 DEF Cur
<1>4. AllMonotone
  BY MonotoneBefore
<1>5. SegFile.open => \A k \in DOMAIN files[Cur].recs :
                         /\ IsData(files[Cur].recs[k]) => seg.hasData
                         /\ Covered(files[Cur].recs[k], seg.start, seg.last)
  BY <1>4 DEF SegRangeInv
<1>6. CASE IdleStep
  BY <1>5, <1>6 DEF IdleStep, Cur
<1>7. ASSUME NEW r \in Records, RecordStep(r)
      PROVE  /\ IsData(files'[Cur'].recs[j]) => seg'.hasData
             /\ Covered(files'[Cur'].recs[j], seg'.start, seg'.last)
  <2>1. SegFile.open /\ RecsGrow(r) /\ SegNoted(r)
    BY <1>7 DEF RecordStep
  <2>2. Cur' = Cur /\ files'[Cur].recs = Append(files[Cur].recs, r) /\ files[Cur].recs \in Seq(Records)
    BY <1>2, <1>3, <2>1 DEF RecsGrow, SegmentFiles
  <2>3. \/ j \in DOMAIN files[Cur].recs /\ files'[Cur].recs[j] = files[Cur].recs[j]
        \/ files'[Cur].recs[j] = r
    BY <2>2
  <2>4. CASE ~IsData(r)
    <3>1. seg' = Counted
      BY <2>1, <2>4 DEF SegNoted, DataRecord, ChunkRecord, Rec, IsData
    <3>2. seg'.hasData = seg.hasData /\ seg'.start = seg.start /\ seg'.last = seg.last
      BY <1>1, <3>1, NotedFields
    <3>3. QED
      BY <1>5, <2>1, <2>2, <2>3, <2>4, <3>2 DEF Covered
  <2>5. CASE IsData(r)
    <3>1. PICK a, b \in Nat : /\ seg' = DataNoted(r.ch, a, b)
                              /\ \A m \in ToSet(r.msgs) : a <= m.ts /\ m.ts <= b
      BY <1>4, <1>7, <2>5, NotedRange
    <3>2. /\ seg'.hasData
          /\ ~seg.hasData => seg'.start = a /\ seg'.last = b
          /\ seg.hasData => /\ seg'.start = IF a < seg.start THEN a ELSE seg.start
                            /\ seg'.last = IF b > seg.last THEN b ELSE seg.last
      BY <1>1, <3>1, NotedFields
    <3>3. seg.start \in Nat /\ seg.last \in Nat
      BY <1>1 DEF SegmentStates
    <3>4. /\ seg'.start \in Nat /\ seg'.last \in Nat /\ seg'.start <= a /\ b <= seg'.last
          /\ seg.hasData => seg'.start <= seg.start /\ seg.last <= seg'.last
      BY <3>2, <3>3
    <3>5. \A m \in Messages : m.ts \in Nat
      BY DEF Messages
    <3>6. \A x \in Records : ToSet(x.msgs) \subseteq Messages
      BY RecordFields DEF ToSet
    <3>7. CASE files'[Cur].recs[j] = r
      <4>1. ASSUME NEW m \in ToSet(r.msgs) PROVE seg'.start <= m.ts /\ m.ts <= seg'.last
        <5>1. m.ts \in Nat /\ a <= m.ts /\ m.ts <= b
          BY <3>1, <3>5, <3>6
        <5>2. QED
          BY <3>4, <5>1
      <4>2. QED
        BY <2>2, <3>2, <3>7, <4>1 DEF Covered
    <3>8. CASE j \in DOMAIN files[Cur].recs /\ files'[Cur].recs[j] = files[Cur].recs[j]
      <4>1. files[Cur].recs[j] \in Records
        BY <2>2, <3>8
      <4>2. ASSUME IsData(files[Cur].recs[j]), NEW m \in ToSet(files[Cur].recs[j].msgs)
            PROVE  seg'.start <= m.ts /\ m.ts <= seg'.last
        <5>1. seg.hasData /\ seg.start <= m.ts /\ m.ts <= seg.last
          BY <1>5, <2>1, <3>8, <4>2 DEF Covered
        <5>2. m.ts \in Nat
          BY <3>5, <3>6, <4>1
        <5>3. QED
          BY <3>3, <3>4, <5>1, <5>2
      <4>3. QED
        BY <2>2, <3>2, <3>8, <4>2 DEF Covered
    <3>9. QED
      BY <2>3, <3>7, <3>8
  <2>6. QED
    BY <2>4, <2>5
<1>8. CASE WriteFileHeader \/ WriteFooter
  <2>1. SegFile.open /\ RecsSame
    BY <1>8, FieldSteps, WriteBytesOpen DEF Inv, WriteFileHeader, WriteFooter, FileHeaderSize, FileFooterSize
  <2>2. Cur' = Cur /\ files'[Cur].recs = files[Cur].recs
    BY <1>2, <1>3, <2>1 DEF RecsSame
  <2>3. seg' = seg
    BY <1>8 DEF WriteFileHeader, WriteFooter
  <2>4. QED
    BY <1>5, <2>1, <2>2, <2>3
<1>9. CASE OpenFile
  <2> DEFINE f == NewSegmentFile(NextIdx, TRUE)
  <2>1. files' = Append(files, f) /\ f.recs = <<>>
    BY <1>9, CreateAppends DEF OpenFile, NewSegmentFile
  <2> HIDE DEF f
  <2>2. files'[Cur'] = f
    BY <1>1, <2>1 DEF Cur
  <2>3. QED
    BY <2>1, <2>2
<1>10. SealSegment \/ Destroy \/ OpenFileFails => SegFile' = ClosedFile
  BY DEF SealSegment, Destroy, OpenFileFails
<1>11. SegFile' # ClosedFile
  BY DEF ClosedFile
<1>12. QED
  BY <1>6, <1>7, <1>8, <1>9, <1>10, <1>11 DEF DiskStep

LEMMA RangeNext ==
  ASSUME Inv, Inv', MarksMatchBuffer, LogInv, LogStep, FilesGrow, DiskStep, ListInv, RangeInv
  PROVE  RangeInv'
<1>1. SegRangeInv'
  BY SegRangeNext DEF ListInv, RangeInv
<1> SUFFICES ASSUME AllMonotone', NEW k \in DOMAIN Segments',
                    NEW j \in DOMAIN SealedFiles'[k].recs
             PROVE  Covered(SealedFiles'[k].recs[j], Segments'[k].start, Segments'[k].end)
  BY <1>1 DEF RangeInv, RangesCoverMessages, AllMonotone, Monotone, Covered, IsData
<1>3. AllMonotone
  BY MonotoneBefore
<1>4. \A n \in DOMAIN Segments : \A l \in DOMAIN SealedFiles[n].recs :
         Covered(SealedFiles[n].recs[l], Segments[n].start, Segments[n].end)
  BY <1>3 DEF RangeInv, RangesCoverMessages, AllMonotone, Covered
<1>5. /\ Segments \in Seq(SegmentInfos) /\ SealedFiles \in Seq(SegmentFiles)
      /\ Segments' \in Seq(SegmentInfos) /\ Len(Segments) = Len(SealedFiles)
  BY PiecesType DEF Inv, TypeOK, ListInv, ManifestListsSealedFiles
<1>6. CASE SealedFiles' = SealedFiles /\ Segments' = Segments
  BY <1>4, <1>6
<1>7. ASSUME SealSegment, SegFile.open, NEW e \in SegmentFiles,
             SealedFiles' = Append(SealedFiles, e), e.recs = files[Cur].recs,
             Segments' = Append(Segments, SegmentInfo)
      PROVE  Covered(SealedFiles'[k].recs[j], Segments'[k].start, Segments'[k].end)
  <2> DEFINE x == SegmentInfo
  <2>1. x.start = seg.start /\ x.end = seg.last
    BY DEF SegmentInfo
  <2>2. Segments' = Append(Segments, x)
    BY <1>7
  <2> HIDE DEF x
  <2>3. /\ DOMAIN Segments' = 1..(Len(Segments) + 1)
        /\ Segments'[Len(Segments) + 1] = x
        /\ \A n \in 1..Len(Segments) : Segments'[n] = Segments[n] /\ n \in DOMAIN Segments
    BY <1>5, <2>2
  <2>4. /\ SealedFiles'[Len(Segments) + 1] = e
        /\ \A n \in 1..Len(Segments) : SealedFiles'[n] = SealedFiles[n]
    BY <1>5, <1>7
  <2>5. CASE k = Len(Segments) + 1
    <3>1. \A l \in DOMAIN e.recs : Covered(e.recs[l], seg.start, seg.last)
      BY <1>3, <1>7 DEF RangeInv, SegRangeInv
    <3>2. QED
      BY <2>1, <2>3, <2>4, <2>5, <3>1
  <2>6. CASE k \in 1..Len(Segments)
    BY <1>4, <2>3, <2>4, <2>6
  <2>7. k = Len(Segments) + 1 \/ k \in 1..Len(Segments)
    BY <1>5, <2>3
  <2>8. QED
    BY <2>5, <2>6, <2>7
<1>8. QED
  BY <1>6, <1>7, SealedInStep

\* While the timestamps of each channel do not decrease, the time range that the
\* manifest gives for a segment covers every message in it, for every interleaving
\* of channels and however the buffers were flushed.
THEOREM RangesAlwaysCover == Spec => []RangesCoverMessages
<1>1. Init => RangeInv
  <2> SUFFICES ASSUME Init PROVE RangeInv
    OBVIOUS
  <2>1. Segments = <<>> /\ ~SegFile.open
    BY DEF Init, ClosedFile
  <2>2. QED
    BY <2>1 DEF RangeInv, RangesCoverMessages, SegRangeInv
<1>2. Inv /\ Inv' /\ MarksMatchBuffer /\ LogInv /\ ListInv /\ RangeInv /\ [Next]_vars => RangeInv'
  BY StepFacts, EveryStepLogs, RangeNext
<1>3. RangeInv => RangesCoverMessages
  BY DEF RangeInv
<1>4. QED
  BY <1>1, <1>2, <1>3, LogAlways, InvAlways, ListAlways, PTL DEF Spec

(***************************************************************************)
(* Definitions.                                                            *)
(***************************************************************************)
HasDef(f, c) == \E d \in DOMAIN f.recs : f.recs[d].op = "ChannelDef" /\ f.recs[d].ch = c

\* A single-file session never opens a second segment.
SingleInv ==
  single =>
    /\ pc \in {"new", "open", "header", "start"} => chans = <<>>
    /\ pc \notin {"ready", "closed", "dead"} => call.op # "Rotate"
    /\ call.op = "Write" => pc \in {"ready", "push", "data", "dead"}

\* RecordCount while OpenSegment writes.
Opening == pc \in {"header", "start", "defs"}

OpeningInv ==
  /\ pc \in {"header", "start"} => seg.count = 0
  /\ pc = "defs" => seg.count > 0

\* The open segment file, when OpenSegment succeeded, defines the channels that
\* can be written to it.
KnownInv ==
  /\ pc = "defs" => \A c \in DOMAIN chans : c < seg.count => HasDef(files[Cur], c)
  /\ SegFile.open /\ ~Opening /\ pc # "dead" /\ Cur \notin partial =>
       \A c \in DOMAIN chans : (pc = "define" => c # Len(chans)) => HasDef(files[Cur], c)

DefinedInv == DefinedBeforeUse /\ SingleInv /\ OpeningInv /\ KnownInv

LEMMA SingleNext ==
  ASSUME TypeOK, CallInv, InnerInv, SingleInv, [Next]_vars
  PROVE  SingleInv'
<1> USE DEF control, memory, disk, Call, Return, Counting, SingleInv
<1>1. CASE UNCHANGED vars
  BY <1>1 DEF vars
<1>2. CASE Client
  <2>1. ASSUME NEW op, NEW s, Refuse(op, s) PROVE SingleInv'
    BY <2>1 DEF Refuse
  <2>2. ASSUME \/ \E cfg \in ChannelConfigs : DefineRefused(cfg)
               \/ \E c \in ChannelIds : WriteUnknown(c)
               \/ RotateRefused
        PROVE  SingleInv'
    BY <2>1, <2>2 DEF DefineRefused, WriteUnknown, RotateRefused
  <2>3. ASSUME NEW c \in ChannelIds, NEW ts \in Timestamps, NEW len \in Lengths,
               WriteRaw(c, ts, len)
        PROVE  SingleInv'
    <3>1. single => pc' = "data"
      BY <2>3 DEF WriteRaw, NeedsRotation
    <3>2. QED
      BY <2>3, <3>1 DEF WriteRaw
  <2>4. ASSUME NEW c \in ChannelIds, NEW ts \in Timestamps, NEW len \in Lengths,
               WriteCompressed(c, ts, len)
        PROVE  SingleInv'
    <3>1. /\ pc' \in {"ready", "push"} /\ single' = single /\ call'.op = "Write"
      BY <2>4 DEF WriteCompressed
    <3>2. QED
      BY <3>1
  <2>5. ASSUME call'.op \notin {"Rotate", "Write"}, pc' \notin {"new", "open", "header", "start"}
        PROVE  SingleInv'
    BY <2>5
  <2>6. CASE Open
    BY <2>6 DEF Open
  <2>7. CASE Discard \/ (\E cfg \in ChannelConfigs : DefineChannel(cfg))
    <3>1. call'.op \in {"DefineChannel", "Discard"} /\ pc' \in {"define", "destroy"}
      BY <2>7 DEF DefineChannel, Discard
    <3>2. QED
      BY <2>5, <3>1
  <2>8. CASE (\E ts \in AnnotationTimes, len \in Lengths : Annotate(ts, len)) \/ Flush
    <3>1. call'.op \in {"Annotate", "Flush"} /\ pc' = "loop"
      BY <2>8 DEF Annotate, Flush
    <3>2. QED
      BY <2>5, <3>1
  <2>9. CASE RotateSegment
    BY <2>9 DEF RotateSegment
  <2>10. CASE Close
    <3>1. ~inner
      BY <2>10 DEF Close, InnerInv
    <3>2. pc' \in {"loop", "destroy", "manifest"} /\ call'.op = "Close"
      BY <2>10, <3>1 DEF Close, EnterClose, AfterClose
    <3>3. QED
      BY <2>5, <3>2
  <2>11. QED
    BY <1>2, <2>2, <2>3, <2>4, <2>6, <2>7, <2>8, <2>9, <2>10 DEF Client
<1>3. CASE OpenFile \/ OpenFileFails \/ WriteFileHeader \/ WriteSessionStart
           \/ ReemitChannelDef \/ OpenSegmentReturns
  BY <1>3
  DEF OpenFile, OpenFileFails, WriteFileHeader, WriteSessionStart, ReemitChannelDef,
      OpenSegmentReturns, Fail, CallInv, InnerInv
<1>4. CASE FlushLoopReturns \/ SkipChannel \/ FlushChannel
  BY <1>4 DEF FlushLoopReturns, SkipChannel, FlushChannel
<1>5. CASE RotateForChannel \/ RotateForWrite
  BY <1>5 DEF RotateForChannel, RotateForWrite, FlushFull, ChunkFull, NeedsRotation
<1>6. CASE WriteChannelDef \/ WriteData \/ FlushWritten \/ WriteAnnotation
  BY <1>6 DEF WriteChannelDef, WriteData, FlushWritten, WriteAnnotation
<1>7. CASE WriteIndex \/ WriteSessionEnd \/ WriteFooter \/ SealSegment
  BY <1>7 DEF WriteIndex, WriteSessionEnd, WriteFooter, SealSegment, AfterClose, InnerInv, CallInv
<1>8. CASE WriteManifest \/ WriteManifestFails \/ Destroy
  BY <1>8 DEF WriteManifest, WriteManifestFails, Destroy, AfterManifest, CallInv
<1>9. CASE WriteFails \/ MemoryFault
  BY <1>9 DEF WriteFails, MemoryFault, Fail, Writing, CallInv, InnerInv
<1>10. QED
  BY <1>1, <1>2, <1>3, <1>4, <1>5, <1>6, <1>7, <1>8, <1>9 DEF Next, Step

\* Only a write of OpenSegment that fails leaves a segment half-opened.
LEMMA PartialStep ==
  ASSUME [Next]_vars
  PROVE  partial' = partial \/ (WriteFails /\ Opening /\ partial' = partial \cup {Cur})
<1>1. CASE UNCHANGED vars
  BY <1>1 DEF vars
<1>2. CASE Client
  <2>1. ASSUME NEW op, NEW s, Refuse(op, s) PROVE partial' = partial
    BY <2>1 DEF Refuse
  <2>2. QED
    BY <1>2, <2>1
    DEF Client, Open, DefineChannel, DefineRefused, WriteUnknown, WriteRaw, WriteCompressed,
        Annotate, Flush, RotateSegment, RotateRefused, Close, Discard
<1>3. CASE Step
  BY <1>3
  DEF Step, OpenFile, OpenFileFails, WriteFileHeader, WriteSessionStart, ReemitChannelDef,
      OpenSegmentReturns, FlushLoopReturns, SkipChannel, FlushChannel, RotateForChannel,
      WriteChannelDef, WriteData, FlushWritten, RotateForWrite, WriteAnnotation, WriteIndex,
      WriteSessionEnd, WriteFooter, SealSegment, WriteManifest, WriteManifestFails, Destroy,
      WriteFails, MemoryFault, Opening
<1>4. QED
  BY <1>1, <1>2, <1>3 DEF Next

LEMMA OpeningNext ==
  ASSUME Inv, OpeningInv, [Next]_vars
  PROVE  OpeningInv'
<1> USE DEF control, memory, disk, Return, Counting
<1>1. ASSUME ~Opening', pc' # "header" PROVE OpeningInv'
  BY <1>1 DEF OpeningInv, Opening
<1>2. CASE UNCHANGED vars
  BY <1>2 DEF vars, OpeningInv, Opening
<1>3. CASE Client
  <2>1. ASSUME NEW op, NEW s, Refuse(op, s) PROVE OpeningInv'
    BY <1>1, <2>1 DEF Refuse, Opening
  <2>2. ASSUME \/ \E cfg \in ChannelConfigs : DefineRefused(cfg)
               \/ \E c \in ChannelIds : WriteUnknown(c)
               \/ RotateRefused
        PROVE  OpeningInv'
    BY <2>1, <2>2 DEF DefineRefused, WriteUnknown, RotateRefused
  <2>3. ASSUME NEW c \in ChannelIds, NEW ts \in Timestamps, NEW len \in Lengths,
               WriteRaw(c, ts, len) \/ WriteCompressed(c, ts, len)
        PROVE  OpeningInv'
    BY <1>1, <2>3 DEF WriteRaw, WriteCompressed, EnterClose, AfterClose, Opening
  <2>4. ASSUME \/ Open \/ (\E cfg \in ChannelConfigs : DefineChannel(cfg))
               \/ (\E ts \in AnnotationTimes, len \in Lengths : Annotate(ts, len))
               \/ Flush \/ RotateSegment \/ Close \/ Discard
        PROVE  OpeningInv'
    BY <1>1, <2>4
    DEF Open, DefineChannel, Annotate, Flush, RotateSegment, Close, Discard, EnterClose,
        AfterClose, Opening
  <2>5. QED
    BY <1>3, <2>2, <2>3, <2>4 DEF Client
<1>4. seg.count \in Nat /\ Counted.count = seg.count + 1
  BY DEF Inv, TypeOK, SegmentStates, Counted
<1>5. CASE OpenFile
  BY <1>5 DEF OpenFile, FreshSeg, OpeningInv
<1>6. CASE WriteFileHeader
  BY <1>6 DEF WriteFileHeader, OpeningInv
<1>7. CASE WriteSessionStart
  BY <1>4, <1>7 DEF WriteSessionStart, OpeningInv
<1>8. CASE ReemitChannelDef
  BY <1>4, <1>8 DEF ReemitChannelDef, OpeningInv
<1>9. CASE Step /\ ~OpenFile /\ ~WriteFileHeader /\ ~WriteSessionStart /\ ~ReemitChannelDef
  <2>1. ~Opening'
    BY <1>9
    DEF Step, OpenFileFails, OpenSegmentReturns, FlushLoopReturns, SkipChannel, FlushChannel,
        RotateForChannel, WriteChannelDef, WriteData, FlushWritten, RotateForWrite,
        WriteAnnotation, WriteIndex, WriteSessionEnd, WriteFooter, SealSegment,
        WriteManifest, WriteManifestFails, Destroy, WriteFails, MemoryFault, Opening,
        Fail, AfterClose, AfterManifest
  <2>2. QED
    BY <1>1, <2>1 DEF Opening
<1>10. QED
  BY <1>2, <1>3, <1>5, <1>6, <1>7, <1>8, <1>9 DEF Next

\* A definition stays in the open file.
LEMMA DefsKept ==
  ASSUME files \in Seq(SegmentFiles), files # <<>>, NEW c, HasDef(files[Cur], c)
  PROVE  /\ RecsSame => HasDef(files'[Cur'], c)
         /\ \A r \in Records : RecsGrow(r) => HasDef(files'[Cur'], c)
<1>1. Cur \in DOMAIN files /\ Len(files) \in Nat
  BY DEF Cur
<1>2. DOMAIN files' = DOMAIN files /\ (RecsSame \/ \E r \in Records : RecsGrow(r)) => Cur' = Cur
  <2>1. CASE RecsSame
    BY <2>1 DEF RecsSame, Cur
  <2>2. CASE \E r \in Records : RecsGrow(r)
    BY <2>2 DEF RecsGrow, Cur
  <2>3. QED
    BY <2>1, <2>2
<1>3. PICK d \in DOMAIN files[Cur].recs :
         files[Cur].recs[d].op = "ChannelDef" /\ files[Cur].recs[d].ch = c
  BY DEF HasDef
<1>4. files[Cur].recs \in Seq(Records)
  BY <1>1, FilesTyped
<1> HIDE DEF Cur
<1>5. ASSUME RecsSame PROVE HasDef(files'[Cur'], c)
  BY <1>1, <1>2, <1>3, <1>5 DEF RecsSame, HasDef
<1>6. ASSUME NEW r \in Records, RecsGrow(r) PROVE HasDef(files'[Cur'], c)
  <2>1. Cur' = Cur /\ files'[Cur].recs = Append(files[Cur].recs, r)
    BY <1>2, <1>6 DEF RecsGrow
  <2>2. d \in DOMAIN files'[Cur].recs /\ files'[Cur].recs[d] = files[Cur].recs[d]
    BY <1>3, <1>4, <2>1
  <2>3. QED
    BY <1>3, <2>1, <2>2 DEF HasDef
<1>7. QED
  BY <1>5, <1>6

\* A definition that was written is in the file.
LEMMA DefWritten ==
  ASSUME Inv, NEW c \in Nat, WriteRecord(DefRecord(c))
  PROVE  /\ HasDef(files'[Cur'], c) /\ SegFile.open
         /\ \A d : HasDef(files[Cur], d) => HasDef(files'[Cur'], d)
<1>1. DefRecord(c) \in Records
  BY FixedRecordTypes DEF Inv
<1>2. SegFile.open /\ RecsGrow(DefRecord(c))
  BY <1>1, WriteRecordGrows
<1>3. files \in Seq(SegmentFiles) /\ files # <<>> /\ Cur \in DOMAIN files
      /\ files[Cur].recs \in Seq(Records)
  BY <1>2, CurrentFile DEF Inv, TypeOK, FileInv
<1>4. Cur' = Cur
  BY <1>2, <1>3 DEF RecsGrow, Cur
<1> HIDE DEF Cur
<1>5. files'[Cur].recs = Append(files[Cur].recs, DefRecord(c))
  BY <1>2 DEF RecsGrow
<1>6. /\ Len(files[Cur].recs) + 1 \in DOMAIN files'[Cur].recs
      /\ files'[Cur].recs[Len(files[Cur].recs) + 1] = DefRecord(c)
  BY <1>3, <1>5
<1>7. DefRecord(c).op = "ChannelDef" /\ DefRecord(c).ch = c
  BY DEF DefRecord, Rec
<1>8. HasDef(files'[Cur'], c)
  BY <1>4, <1>6, <1>7 DEF HasDef
<1>9. QED
  BY <1>1, <1>2, <1>3, <1>8, DefsKept

LEMMA KnownNext ==
  ASSUME Inv, Inv', MarksMatchBuffer, LogStep, DiskStep, SingleInv, OpeningInv, KnownInv, [Next]_vars
  PROVE  KnownInv'
<1> USE DEF control, memory, disk, Return, Counting
<1>1. files \in Seq(SegmentFiles) /\ (SegFile.open => files # <<>>) /\ chans \in Seq(Channels)
      /\ chans' \in Seq(Channels)
  BY DEF Inv, TypeOK, FileInv
<1>0. ~WriteFails \/ ~Opening => partial' = partial
  BY PartialStep
<1>2. ASSUME SegFile.open, ~Opening, pc # "dead", Cur \notin partial PROVE
        \A c \in DOMAIN chans : (pc = "define" => c # Len(chans)) => HasDef(files[Cur], c)
  BY <1>2 DEF KnownInv
\* Nothing is written, or something that is no definition.
<1>3. ASSUME SegFile'.open => SegFile.open, ~Opening, ~Opening', pc # "dead",
             pc \notin {"define"} \/ pc' \in {"define", "dead"}, pc' # "define" \/ pc = "define",
             UNCHANGED chans,
             RecsSame \/ \E r \in Records : RecsGrow(r)
      PROVE  KnownInv'
  <2> SUFFICES ASSUME SegFile'.open, pc' # "dead", NEW c \in DOMAIN chans',
                      pc' = "define" => c # Len(chans'), Cur' \notin partial'
               PROVE  HasDef(files'[Cur'], c)
    BY <1>3 DEF KnownInv, HasDef, Opening
  <2>0. Cur' = Cur
    BY <1>1, <1>3 DEF RecsSame, RecsGrow, Cur
  <2>1. HasDef(files[Cur], c)
    <3>1. Cur \notin partial
      BY <1>0, <1>3, <2>0
    <3>2. QED
      BY <1>2, <1>3, <3>1
  <2>2. QED
    BY <1>1, <1>3, <2>1, DefsKept
<1>4. ASSUME ~SegFile'.open \/ pc' \in {"header", "start", "dead"}, pc' # "defs" PROVE KnownInv'
  BY <1>4 DEF KnownInv, Opening
<1>5. ASSUME UNCHANGED files PROVE RecsSame
  BY <1>5 DEF RecsSame
<1>6. ASSUME UNCHANGED vars PROVE KnownInv'
  <2>1. /\ files' = files /\ pc' = pc /\ chans' = chans /\ SegFile' = SegFile /\ seg' = seg
        /\ partial' = partial
    BY <1>6 DEF vars
  <2>2. QED
    BY <2>1 DEF KnownInv, Opening, HasDef, Cur
<1>7. CASE Client
  <2>0. pc \in {"ready", "new"} /\ UNCHANGED <<SegFile, files>> /\ ~Opening' /\ pc' # "dead"
    <3>1. ASSUME NEW op, NEW s, Refuse(op, s) PROVE
            pc = "ready" /\ UNCHANGED <<SegFile, files, chans>> /\ pc' = "ready"
      BY <3>1 DEF Refuse
    <3>2. ASSUME \/ \E cfg \in ChannelConfigs : DefineRefused(cfg)
                 \/ \E c \in ChannelIds : WriteUnknown(c)
                 \/ RotateRefused
          PROVE  pc = "ready" /\ UNCHANGED <<SegFile, files, chans>> /\ pc' = "ready"
      BY <3>1, <3>2 DEF DefineRefused, WriteUnknown, RotateRefused
    <3>3. ASSUME NEW c \in ChannelIds, NEW ts \in Timestamps, NEW len \in Lengths,
                 WriteRaw(c, ts, len) \/ WriteCompressed(c, ts, len)
          PROVE  pc = "ready" /\ UNCHANGED <<SegFile, files>> /\ ~Opening' /\ pc' # "dead"
      BY <3>3 DEF WriteRaw, WriteCompressed, EnterClose, AfterClose, Opening
    <3>4. ASSUME \/ Open \/ (\E cfg \in ChannelConfigs : DefineChannel(cfg))
                 \/ (\E ts \in AnnotationTimes, len \in Lengths : Annotate(ts, len))
                 \/ Flush \/ RotateSegment \/ Close \/ Discard
          PROVE  pc \in {"ready", "new"} /\ UNCHANGED <<SegFile, files>> /\ ~Opening' /\ pc' # "dead"
      BY <3>4
      DEF Open, DefineChannel, Annotate, Flush, RotateSegment, Close, Discard, EnterClose,
          AfterClose, Opening
    <3>5. QED
      BY <1>7, <3>2, <3>3, <3>4 DEF Client, Opening
  <2>1. ASSUME NEW cfg \in ChannelConfigs, DefineChannel(cfg) PROVE KnownInv'
    <3>1. /\ chans' = Append(chans, cfg) /\ pc' = "define" /\ SegFile' = SegFile /\ files' = files
          /\ pc = "ready" /\ partial' = partial
      BY <2>1 DEF DefineChannel
    <3>2. SUFFICES ASSUME SegFile.open, NEW c \in DOMAIN chans', c # Len(chans'), Cur \notin partial
                   PROVE  HasDef(files[Cur], c)
      BY <3>1 DEF KnownInv, HasDef, Opening, Cur
    <3>3. c \in DOMAIN chans
      <4>1. Len(chans') = Len(chans) + 1 /\ DOMAIN chans' = 1..(Len(chans) + 1)
            /\ DOMAIN chans = 1..Len(chans) /\ Len(chans) \in Nat
        BY <1>1, <3>1
      <4>2. QED
        BY <3>2, <4>1
    <3>4. QED
      BY <1>2, <3>1, <3>2, <3>3 DEF Opening
  <2>2. CASE ~\E cfg \in ChannelConfigs : DefineChannel(cfg)
    <3>1. UNCHANGED chans /\ pc' # "define"
      <4>1. ASSUME NEW op, NEW s, Refuse(op, s) PROVE UNCHANGED chans /\ pc' # "define"
        BY <4>1 DEF Refuse
      <4>2. ASSUME \/ \E cfg \in ChannelConfigs : DefineRefused(cfg)
                   \/ \E c \in ChannelIds : WriteUnknown(c)
                   \/ RotateRefused
            PROVE  UNCHANGED chans /\ pc' # "define"
        BY <4>1, <4>2 DEF DefineRefused, WriteUnknown, RotateRefused
      <4>3. ASSUME NEW c \in ChannelIds, NEW ts \in Timestamps, NEW len \in Lengths,
                   WriteRaw(c, ts, len) \/ WriteCompressed(c, ts, len)
            PROVE  UNCHANGED chans /\ pc' # "define"
        BY <4>3 DEF WriteRaw, WriteCompressed, EnterClose, AfterClose
      <4>4. ASSUME \/ Open \/ (\E ts \in AnnotationTimes, len \in Lengths : Annotate(ts, len))
                   \/ Flush \/ RotateSegment \/ Close \/ Discard
            PROVE  UNCHANGED chans /\ pc' # "define"
        BY <4>4
        DEF Open, Annotate, Flush, RotateSegment, Close, Discard, EnterClose, AfterClose
      <4>5. QED
        BY <1>7, <2>2, <4>2, <4>3, <4>4 DEF Client
    <3>2. QED
      BY <1>3, <1>5, <2>0, <3>1 DEF Opening
  <2>3. QED
    BY <2>1, <2>2
<1>8. CASE OpenFile \/ WriteFileHeader \/ OpenFileFails
  <2>1. ~SegFile'.open \/ pc' = "header" \/ pc' = "start"
    <3>1. OpenFileFails => ~SegFile'.open
      BY DEF OpenFileFails, ClosedFile
    <3>2. OpenFile \/ WriteFileHeader => pc' = "header" \/ pc' = "start"
      BY DEF OpenFile, WriteFileHeader
    <3>3. QED
      BY <1>8, <3>1, <3>2
  <2>2. pc' # "defs"
    BY <1>8 DEF OpenFile, WriteFileHeader, OpenFileFails, Fail
  <2>3. QED
    BY <1>4, <2>1, <2>2
<1>9. CASE WriteSessionStart
  <2>1. seg.count = 0 /\ seg'.count = 1
    BY <1>9 DEF WriteSessionStart, OpeningInv, Counted, Inv, TypeOK, SegmentStates
  <2>2. UNCHANGED <<chans, single>> /\ IF single THEN pc' = "ready" ELSE pc' = "defs"
    BY <1>9 DEF WriteSessionStart
  <2>3. \A c \in DOMAIN chans : ~(c < 1)
    BY <1>1
  <2>4. single => chans = <<>>
    BY <1>9 DEF WriteSessionStart, SingleInv
  <2>5. QED
    BY <2>1, <2>2, <2>3, <2>4 DEF KnownInv, Opening
<1>10. CASE ReemitChannelDef
  <2>1. /\ pc = "defs" /\ pc' = "defs" /\ seg.count \in Nat /\ seg'.count = seg.count + 1
        /\ chans' = chans /\ WriteRecord(DefRecord(seg.count))
    BY <1>10 DEF ReemitChannelDef, Counted, Inv, TypeOK, SegmentStates
  <2>2. /\ HasDef(files'[Cur'], seg.count)
        /\ \A d : HasDef(files[Cur], d) => HasDef(files'[Cur'], d)
    BY <2>1, DefWritten
  <2>3. ASSUME NEW c \in DOMAIN chans, c < seg'.count PROVE HasDef(files'[Cur'], c)
    <3>1. c \in Nat /\ (c < seg.count \/ c = seg.count)
      BY <1>1, <2>1, <2>3
    <3>2. QED
      BY <2>1, <2>2, <3>1 DEF KnownInv
  <2>4. QED
    BY <2>1, <2>3 DEF KnownInv, HasDef, Opening
<1>11. CASE OpenSegmentReturns
  <2>1. /\ pc = "defs" /\ pc' \in {"loop", "manifest", "ready", "reflush", "data"}
        /\ UNCHANGED <<chans, files, SegFile>> /\ seg.count > Len(chans) /\ seg.count \in Nat
    <3>1. seg.count \in Nat
      BY DEF Inv, TypeOK, SegmentStates
    <3>2. /\ pc = "defs" /\ pc' \in {"loop", "manifest", "ready", "reflush", "data"}
          /\ UNCHANGED <<chans, files, SegFile>> /\ ~DefsLeft
      BY <1>11 DEF OpenSegmentReturns
    <3>3. QED
      BY <3>1, <3>2 DEF DefsLeft
  <2>2. \A c \in DOMAIN chans : c < seg.count
    BY <1>1, <2>1
  <2>3. \A c \in DOMAIN chans : HasDef(files[Cur], c)
    BY <2>1, <2>2 DEF KnownInv
  <2>4. QED
    BY <2>1, <2>3 DEF KnownInv, Opening, HasDef, Cur
<1>12. CASE WriteChannelDef
  <2>1. /\ pc = "define" /\ pc' = "ready" /\ chans' = chans /\ WriteRecord(DefRecord(Len(chans)))
        /\ Len(chans) \in Nat
    BY <1>1, <1>12 DEF WriteChannelDef
  <2>2. /\ HasDef(files'[Cur'], Len(chans)) /\ SegFile.open
        /\ \A d : HasDef(files[Cur], d) => HasDef(files'[Cur'], d)
    BY <2>1, DefWritten
  <2>3. Cur' = Cur /\ partial' = partial
    BY <1>12, <2>1, FixedRecordTypes, WriteRecordGrows DEF WriteChannelDef, Inv, RecsGrow, Cur
  <2>4. ASSUME Cur' \notin partial' PROVE \A c \in DOMAIN chans : HasDef(files'[Cur'], c)
    BY <1>2, <2>1, <2>2, <2>3, <2>4 DEF Opening
  <2>5. QED
    BY <2>1, <2>4 DEF KnownInv, HasDef, Opening
\* A failed write of OpenSegment marks the file; a failed definition goes with
\* its channel.
<1>13. CASE WriteFails
  <2>1. /\ SegFile'.open = SegFile.open /\ files' = files /\ pc # "dead"
        /\ pc' \in {"destroy", "manifest", "ready"}
    BY <1>13 DEF WriteFails, Fail, Writing, GrowFailed, Inv, TypeOK, MappedFiles
  <2>2. CASE Opening
    <3>1. Cur' = Cur /\ Cur \in partial'
      BY <1>13, <2>1, <2>2 DEF WriteFails, Opening, Cur
    <3>2. QED
      BY <2>1, <3>1 DEF KnownInv
  <2>3. CASE ~Opening /\ pc # "define"
    <3>1. UNCHANGED chans
      BY <1>13, <2>3 DEF WriteFails
    <3>2. QED
      BY <1>3, <1>5, <2>1, <2>3, <3>1 DEF Opening
  <2>4. CASE pc = "define"
    <3>1. chans' = SubSeq(chans, 1, Len(chans) - 1)
      BY <1>13, <2>4 DEF WriteFails
    <3>2. \A c \in DOMAIN chans' : c \in DOMAIN chans /\ c # Len(chans)
      BY <1>1, <3>1
    <3>3. Cur' = Cur /\ partial' = partial
      BY <1>0, <2>1, <2>4 DEF Opening, Cur
    <3>4. QED
      BY <1>2, <2>1, <2>4, <3>2, <3>3 DEF KnownInv, Opening, HasDef
  <2>5. QED
    BY <2>2, <2>3, <2>4
<1>14. CASE MemoryFault
  BY <1>4, <1>14 DEF MemoryFault
<1>15. CASE SealSegment \/ Destroy
  <2>1. ~SegFile'.open /\ pc' # "defs"
    BY <1>15 DEF SealSegment, Destroy, ClosedFile, AfterClose
  <2>2. QED
    BY <1>4, <2>1
<1>16. CASE FlushLoopReturns \/ SkipChannel \/ RotateForChannel \/ RotateForWrite
            \/ WriteManifest \/ WriteManifestFails
  <2>1. /\ pc \in {"loop", "push", "reflush", "manifest"} /\ UNCHANGED <<chans, files, SegFile>>
        /\ pc' \in {"annot", "ready", "index", "loop", "open", "manifest", "destroy"}
    BY <1>16
    DEF FlushLoopReturns, SkipChannel, RotateForChannel, RotateForWrite, WriteManifest,
        WriteManifestFails, AfterManifest
  <2>2. QED
    BY <1>3, <1>5, <2>1 DEF Opening
<1>17. CASE FlushChannel \/ WriteData \/ FlushWritten \/ WriteAnnotation \/ WriteIndex
            \/ WriteSessionEnd \/ WriteFooter
  <2>1. /\ pc \in {"loop", "data", "push", "reflush", "annot", "index", "end", "footer"}
        /\ pc' \in {"loop", "ready", "end", "footer", "seal"} /\ UNCHANGED chans
    BY <1>17
    DEF FlushChannel, WriteData, FlushWritten, WriteAnnotation, WriteIndex, WriteSessionEnd,
        WriteFooter
  <2>2. SegFile'.open => SegFile.open
    <3>1. IdleStep => SegFile'.open = SegFile.open
      BY DEF IdleStep
    <3>2. ASSUME NEW r \in Records, RecordStep(r) PROVE SegFile.open
      BY <3>2 DEF RecordStep
    <3>3. WriteFooter => SegFile.open
      BY WriteBytesOpen DEF Inv, WriteFooter, FileFooterSize
    <3>4. ~WriteFileHeader /\ ~SealSegment /\ ~Destroy /\ ~OpenFile /\ ~OpenFileFails
      BY <2>1 DEF WriteFileHeader, SealSegment, Destroy, OpenFile, OpenFileFails
    <3>5. QED
      BY <3>1, <3>2, <3>3, <3>4 DEF DiskStep
  <2>3. RecsSame \/ \E r \in Records : RecsGrow(r)
    <3>1. CASE WriteFooter
      BY <3>1, FieldSteps
    <3>2. CASE ~WriteFooter
      BY <1>5, <2>1, <3>2
      DEF DiskStep, IdleStep, RecordStep, WriteFileHeader, SealSegment, Destroy,
          OpenFile, OpenFileFails
    <3>3. QED
      BY <3>1, <3>2
  <2>4. QED
    BY <1>3, <2>1, <2>2, <2>3 DEF Opening
<1>18. QED
  BY <1>6, <1>7, <1>8, <1>9, <1>10, <1>11, <1>12, <1>13, <1>14, <1>15, <1>16, <1>17 DEF Next, Step

LEMMA DefinedNext ==
  ASSUME Inv, MarksMatchBuffer, LogInv, LogStep, DefinedBeforeUse, KnownInv, [Next]_vars
  PROVE  DefinedBeforeUse'
<1> DEFINE DefinedIn(f) ==
             \A j \in DOMAIN f.recs :
                IsData(f.recs[j]) =>
                   \E d \in 1..(j-1) : f.recs[d].op = "ChannelDef" /\ f.recs[d].ch = f.recs[j].ch
<1>1. files \in Seq(SegmentFiles) /\ \A k \in DOMAIN files : files[k].recs \in Seq(Records)
  BY FilesTyped DEF Inv, TypeOK
<1> DEFINE Goal == \A k \in DOMAIN files' \ partial : DefinedIn(files'[k])
<1>2. \A k \in DOMAIN files \ partial : DefinedIn(files[k])
  BY DEF DefinedBeforeUse
<1>3. SUFFICES Goal
  <2>1. partial \subseteq partial'
    BY PartialStep
  <2>2. QED
    BY <2>1 DEF DefinedBeforeUse, IsData
<1>4. CASE RecsSame
  BY <1>2, <1>4 DEF RecsSame
<1>5. CASE RecsNew
  <2>1. PICK f \in SegmentFiles : f.recs = <<>> /\ files' = Append(files, f)
    BY <1>5 DEF RecsNew
  <2>2. /\ \A k \in DOMAIN files' : k \in DOMAIN files \/ k = Len(files) + 1
        /\ \A k \in DOMAIN files : files'[k] = files[k]
        /\ files'[Len(files) + 1] = f
    BY <1>1, <2>1
  <2>3. DefinedIn(f)
    BY <2>1
  <2> HIDE DEF DefinedIn
  <2>4. QED
    BY <1>2, <2>2, <2>3
<1>6. ASSUME NEW r \in Records, RecsGrow(r),
             IsData(r) /\ Cur \notin partial => HasDef(files[Cur], r.ch)
      PROVE  Goal
  <2> DEFINE rs == files[Cur].recs
  <2>1. /\ DOMAIN files' = DOMAIN files /\ Cur \in DOMAIN files /\ files'[Cur].recs = Append(rs, r)
        /\ \A k \in DOMAIN files \ {Cur} : files'[k] = files[k]
    BY <1>1, <1>6 DEF RecsGrow, SameElsewhere, Cur
  <2> HIDE DEF Cur
  <2>2. rs \in Seq(Records) /\ (Cur \notin partial => DefinedIn(files[Cur]))
    BY <1>1, <1>2, <2>1
  <2>3. ASSUME Cur \notin partial PROVE DefinedIn(files'[Cur])
    <3>1. SUFFICES ASSUME NEW j \in DOMAIN Append(rs, r), IsData(Append(rs, r)[j])
                   PROVE  \E d \in 1..(j-1) : /\ Append(rs, r)[d].op = "ChannelDef"
                                              /\ Append(rs, r)[d].ch = Append(rs, r)[j].ch
      BY <2>1
    <3>2. CASE j \in DOMAIN rs
      <4>0. j \in DOMAIN rs /\ IsData(rs[j])
        <5> HIDE DEF rs
        <5>1. Append(rs, r)[j] = rs[j]
          BY <2>2, <3>2
        <5>2. QED
          BY <3>1, <3>2, <5>1
      <4>1. PICK d \in 1..(j-1) : rs[d].op = "ChannelDef" /\ rs[d].ch = rs[j].ch
        BY <2>2, <2>3, <4>0
      <4> HIDE DEF rs
      <4>2. d \in DOMAIN rs /\ Append(rs, r)[d] = rs[d] /\ Append(rs, r)[j] = rs[j]
        BY <2>2, <3>2
      <4>3. QED
        BY <4>1, <4>2
    <3>3. CASE j \notin DOMAIN rs
      <4>1. j = Len(rs) + 1 /\ Append(rs, r)[j] = r /\ Len(rs) \in Nat /\ DOMAIN rs = 1..Len(rs)
        <5> HIDE DEF rs
        <5>1. QED
          BY <2>2, <3>1, <3>3
      <4>2. PICK d \in DOMAIN rs : rs[d].op = "ChannelDef" /\ rs[d].ch = r.ch
        BY <1>6, <2>3, <3>1, <4>1 DEF HasDef
      <4> HIDE DEF rs
      <4>3. d \in 1..(j-1) /\ Append(rs, r)[d] = rs[d]
        BY <2>2, <4>1
      <4>4. QED
        BY <4>1, <4>2, <4>3
    <3>4. QED
      BY <3>2, <3>3
  <2> HIDE DEF DefinedIn, rs
  <2>4. QED
    BY <1>2, <2>1, <2>3
<1> HIDE DEF DefinedIn
<1>7. ASSUME NEW r \in Records, RecsGrow(r), r.op \notin {"Data", "Chunk"}
      PROVE  Goal
  BY <1>6, <1>7 DEF IsData
<1>8. CASE QuietLogStep
  BY <1>4, <1>5, <1>7, <1>8 DEF QuietLogStep, Plain
<1>9. CASE AnnotationStep
  <2>1. AnnotationRecord \in Records /\ AnnotationRecord.op = "Annotation"
    BY FixedRecordTypes DEF Inv, AnnotationRecord, Rec
  <2>2. QED
    BY <1>7, <1>9, <2>1 DEF AnnotationStep
<1>10. CASE BufferStep \/ DestroyStep
  BY <1>4, <1>10 DEF BufferStep, DestroyStep
\* Where data is written the channel is defined.
<1>11. ASSUME pc \in {"data", "loop", "push", "reflush"}, SegFile.open, NEW c \in DOMAIN chans,
              Cur \notin partial
       PROVE  HasDef(files[Cur], c)
  BY <1>11 DEF KnownInv, Opening
<1>12. CASE DataStep
  <2>1. DataRecord \in Records /\ DataRecord.ch = call.ch /\ RecsGrow(DataRecord)
    BY <1>12, FixedRecordTypes DEF Inv, DataRecord, Rec, DataStep
  <2>2. call.ch \in DOMAIN chans /\ pc = "data"
    BY <1>12 DEF DataStep, WriteData, Inv, CallInv
  <2>3. SegFile.open
    <3>1. DataRecord.size \in Nat \ {0}
      BY <2>1, RecordFields
    <3>2. QED
      BY <1>12, <3>1, WriteBytesOpen DEF DataStep, WriteData, WriteRecord, Inv
  <2>4. QED
    BY <1>6, <1>11, <2>1, <2>2, <2>3
<1>13. ASSUME NEW c \in ChannelIds, FlushStep(c)
       PROVE  Goal
  <2>1. ChunkRecord(c) \in Records /\ ChunkRecord(c).ch = c /\ RecsGrow(ChunkRecord(c))
    BY <1>13, ChunkRecordType DEF Inv, ChunkRecord, Rec, FlushStep
  <2>2. pc \in {"loop", "push", "reflush"} /\ AccFlush(c)
    BY <1>13 DEF FlushStep, FlushChannel, FlushWritten
  <2>3. c \in DOMAIN chans
    BY <2>2 DEF LogInv, FlushInv, BufferInv, AccFlush, NothingToFlush
  <2>4. SegFile.open
    BY <2>2, FlushWritesChunk
  <2>5. QED
    BY <1>6, <1>11, <2>1, <2>2, <2>3, <2>4
<1>14. QED
  BY <1>8, <1>9, <1>10, <1>12, <1>13 DEF LogStep

\* In every segment file whose OpenSegment did not fail half-way, the definition
\* of a channel comes before its first message, also when the channel was defined
\* in an earlier segment, and whatever fails later.
THEOREM AlwaysDefinedBeforeUse == Spec => []DefinedBeforeUse
<1>1. Init => DefinedInv
  BY DEF Init, DefinedInv, DefinedBeforeUse, SingleInv, OpeningInv, KnownInv, Opening, ClosedFile,
         NoCall
<1>2. Inv /\ Inv' /\ MarksMatchBuffer /\ LogInv /\ DefinedInv /\ [Next]_vars => DefinedInv'
  <2> SUFFICES ASSUME Inv, Inv', MarksMatchBuffer, LogInv, DefinedInv, [Next]_vars
               PROVE  DefinedInv'
    OBVIOUS
  <2>1. LogStep /\ DiskStep
    BY EveryStepLogs, StepFacts
  <2>2. SingleInv'
    BY SingleNext DEF Inv, LogInv, FlushInv, DefinedInv
  <2>3. OpeningInv'
    BY OpeningNext DEF DefinedInv
  <2>4. KnownInv'
    BY <2>1, KnownNext DEF DefinedInv
  <2>5. DefinedBeforeUse'
    BY <2>1, DefinedNext DEF DefinedInv
  <2>6. QED
    BY <2>2, <2>3, <2>4, <2>5 DEF DefinedInv
<1>3. DefinedInv => DefinedBeforeUse
  BY DEF DefinedInv
<1>4. QED
  BY <1>1, <1>2, <1>3, LogAlways, InvAlways, PTL DEF Spec

(***************************************************************************)
(* What Close leaves behind when no system call fails.                     *)
(***************************************************************************)
Underway == pc \in {"ready", "loop", "define", "data", "push", "reflush", "annot", "index", "end",
                    "footer", "seal", "header", "start", "defs"}
Finishing == call.op = "Close" /\ pc \in {"manifest", "destroy"}

\* A segment file is open whenever something may be written.
OpenNow ==
  /\ Underway \/ (pc = "manifest" /\ call.op = "Open") => SegFile.open
  /\ pc \in {"new", "open"} \/ Finishing \/ (pc = "manifest" /\ call.op # "Open") => ~SegFile.open

OthersComplete ==
  pc # "closed" => \A k \in DOMAIN files : Complete(files[k]) \/ (SegFile.open /\ k = Cur)

\* A Close that is past its flush loop.
PastFlush == Finishing \/ (call.op = "Close" /\ ~inner /\ pc \in {"index", "end", "footer", "seal"})

CloseInv ==
  /\ PastFlush => \A c \in ChannelIds : accum[c].buf = <<>>
  /\ Finishing /\ pc = "destroy" /\ ~single => manifest = ManifestNow

FaultlessInv == faults = 0 => OpenNow /\ OthersComplete /\ CloseInv

LEMMA NoFaultBefore ==
  ASSUME TypeOK, [Next]_vars, faults' = 0
  PROVE  faults = 0 /\ ~OpenFileFails /\ ~WriteManifestFails
<1>1. faults \in Nat
  BY DEF TypeOK
<1>2. OpenFileFails \/ WriteManifestFails => faults' = faults + 1
  BY DEF OpenFileFails, WriteManifestFails
<1>3. faults' >= faults
  BY FaultsGrow
<1>4. QED
  BY <1>1, <1>2, <1>3

\* Nor does the cut of the file that is closed.
LEMMA NoFailedCut ==
  ASSUME files \in Seq(SegmentFiles), Cur \in DOMAIN files, faults \in Nat, CutTail, faults' = 0
  PROVE  /\ DOMAIN files' = DOMAIN files
         /\ files'[Cur] = [files[Cur] EXCEPT !.tail = FALSE]
<1>1. PICK left \in BOOLEAN : /\ files' = [files EXCEPT ![Cur].tail = left]
                              /\ faults' = IF left THEN faults + 1 ELSE faults
  BY DEF CutTail
<1>2. left = FALSE
  BY <1>1
<1>3. files' = [files EXCEPT ![Cur].tail = FALSE]
  BY <1>1, <1>2
<1> HIDE DEF Cur
<1>4. QED
  BY <1>3

\* With a file open every write that fails is a fault.
LEMMA NoFailedWrite ==
  ASSUME TypeOK, OpenNow, [Next]_vars, faults' = 0
  PROVE  ~WriteFails
<1>1. SUFFICES ASSUME WriteFails PROVE FALSE
  OBVIOUS
<1>2. SegFile.open
  BY <1>1 DEF WriteFails, Writing, OpenNow, Underway
<1>3. faults' = faults + 1 /\ faults \in Nat
  BY <1>1, <1>2 DEF WriteFails, TypeOK
<1>4. QED
  BY <1>3

\* The steps that write keep the file open.
LEMMA WritesKeepOpen ==
  ASSUME Inv, MarksMatchBuffer,
         \/ WriteFileHeader \/ WriteSessionStart \/ ReemitChannelDef \/ FlushChannel
         \/ WriteChannelDef \/ WriteData \/ FlushWritten \/ WriteAnnotation \/ WriteIndex
         \/ WriteSessionEnd \/ WriteFooter
  PROVE  SegFile'.open
<1>1. ASSUME NEW r \in Records, WriteRecord(r) PROVE SegFile'.open
  BY <1>1, WriteRecordGrows
<1>2. /\ StartRecord \in Records /\ DataRecord \in Records /\ AnnotationRecord \in Records
      /\ \A c \in Nat : DefRecord(c) \in Records
      /\ seg.count \in Nat /\ Len(chans) \in Nat
  BY FixedRecordTypes DEF Inv, TypeOK, SegmentStates
<1>3. CASE WriteSessionStart
  BY <1>1, <1>2, <1>3 DEF WriteSessionStart
<1>4. CASE ReemitChannelDef
  BY <1>1, <1>2, <1>4 DEF ReemitChannelDef
<1>5. CASE WriteChannelDef
  BY <1>1, <1>2, <1>5 DEF WriteChannelDef
<1>6. CASE WriteData \/ WriteAnnotation
  BY <1>1, <1>2, <1>6 DEF WriteData, WriteAnnotation
<1>7. CASE WriteIndex \/ WriteSessionEnd
  BY <1>7, TailRecordsGrow
<1>8. CASE WriteFileHeader \/ WriteFooter
  BY <1>8, WriteBytesOpen DEF Inv, WriteFileHeader, WriteFooter, FileHeaderSize, FileFooterSize
<1>9. ASSUME NEW c \in ChannelIds, AccFlush(c) PROVE SegFile'.open
  <2>1. WriteRecord(ChunkRecord(c)) /\ ChunkRecord(c) \in Records
    BY <1>9, FlushWritesChunk, ChunkRecordType DEF Inv
  <2>2. QED
    BY <1>1, <2>1
<1>10. CASE FlushChannel
  BY <1>9, <1>10, LoopChannel DEF Inv, FlushChannel
<1>11. CASE FlushWritten
  BY <1>9, <1>11, WriteTarget DEF Inv, FlushWritten
<1>12. QED
  BY <1>3, <1>4, <1>5, <1>6, <1>7, <1>8, <1>10, <1>11

LEMMA OpenNowNext ==
  ASSUME Inv, MarksMatchBuffer, InnerInv, OpenNow, [Next]_vars, faults' = 0
  PROVE  OpenNow'
<1> USE DEF control, memory, disk, Return, Counting, Call, Underway, Finishing
<1>1. ~WriteFails /\ ~OpenFileFails /\ ~WriteManifestFails
  BY NoFaultBefore, NoFailedWrite DEF Inv
<1>2. ASSUME UNCHANGED vars PROVE OpenNow'
  BY <1>2 DEF vars, OpenNow
<1>3. CASE Client
  <2>1. CASE Open
    BY <2>1 DEF Open, OpenNow
  <2>2. ASSUME pc = "ready", UNCHANGED SegFile, Underway' \/ (pc' = "destroy" /\ call'.op # "Close")
        PROVE  OpenNow'
    BY <2>2 DEF OpenNow
  <2>3. ASSUME NEW op, NEW s, Refuse(op, s) PROVE OpenNow'
    BY <2>2, <2>3 DEF Refuse
  <2>4. ASSUME \/ \E cfg \in ChannelConfigs : DefineRefused(cfg)
               \/ \E c \in ChannelIds : WriteUnknown(c)
               \/ RotateRefused
        PROVE  OpenNow'
    BY <2>3, <2>4 DEF DefineRefused, WriteUnknown, RotateRefused
  <2>5. ASSUME NEW op, pc = "ready" PROVE EnterClose(op) = "loop"
    BY <2>5 DEF EnterClose, OpenNow
  <2>6. ASSUME NEW c \in ChannelIds, NEW ts \in Timestamps, NEW len \in Lengths,
               WriteRaw(c, ts, len) \/ WriteCompressed(c, ts, len)
        PROVE  OpenNow'
    <3>1. pc = "ready" /\ UNCHANGED SegFile /\ pc' \in {"loop", "data", "push", "ready"}
      BY <2>5, <2>6 DEF WriteRaw, WriteCompressed
    <3>2. QED
      BY <2>2, <3>1
  <2>7. CASE \E cfg \in ChannelConfigs : DefineChannel(cfg)
    BY <2>2, <2>7 DEF DefineChannel
  <2>8. CASE Discard
    BY <2>2, <2>8 DEF Discard
  <2>9. CASE \/ \E ts \in AnnotationTimes, len \in Lengths : Annotate(ts, len)
             \/ Flush \/ RotateSegment \/ Close
    <3>1. pc = "ready" /\ UNCHANGED SegFile /\ pc' = "loop"
      BY <2>5, <2>9 DEF Annotate, Flush, RotateSegment, Close
    <3>2. QED
      BY <2>2, <3>1
  <2>10. QED
    BY <1>3, <2>1, <2>4, <2>6, <2>7, <2>8, <2>9 DEF Client
<1>4. ASSUME SegFile'.open, Underway' PROVE OpenNow'
  BY <1>4 DEF OpenNow
<1>5. CASE OpenFile
  BY <1>4, <1>5 DEF OpenedFile, OpenFile
<1>6. CASE \/ WriteFileHeader \/ WriteSessionStart \/ ReemitChannelDef \/ FlushChannel
           \/ WriteChannelDef \/ WriteData \/ FlushWritten \/ WriteAnnotation \/ WriteIndex
           \/ WriteSessionEnd \/ WriteFooter
  <2>1. pc' \in {"start", "ready", "defs", "loop", "end", "footer", "seal"}
    BY <1>6
    DEF WriteFileHeader, WriteSessionStart, ReemitChannelDef, FlushChannel, WriteChannelDef,
        WriteData, FlushWritten, WriteAnnotation, WriteIndex, WriteSessionEnd, WriteFooter
  <2>2. QED
    BY <1>4, <1>6, <2>1, WritesKeepOpen
<1>7. CASE OpenSegmentReturns
  <2>1. /\ SegFile.open /\ UNCHANGED <<SegFile, call>>
        /\ pc' \in {"loop", "ready", "reflush", "data"} \/ (pc' = "manifest" /\ call.op = "Open")
    BY <1>7 DEF OpenSegmentReturns, OpenNow
  <2>2. QED
    BY <2>1 DEF OpenNow
<1>8. CASE FlushLoopReturns \/ SkipChannel \/ RotateForChannel \/ RotateForWrite
  <2>1. /\ SegFile.open /\ UNCHANGED SegFile
        /\ pc' \in {"annot", "ready", "index", "loop"}
    BY <1>8 DEF FlushLoopReturns, SkipChannel, RotateForChannel, RotateForWrite, OpenNow
  <2>2. QED
    BY <1>4, <2>1
<1>9. CASE SealSegment
  <2>1. ~SegFile'.open /\ call' = call /\ call.op # "Open"
    <3>1. call.op # "Open"
      BY <1>9 DEF SealSegment, Inv, CallInv, Flushers
    <3>2. QED
      BY <1>9, <3>1 DEF SealSegment, ClosedFile
  <2>2. pc' \in {"open", "destroy", "manifest"}
    BY <1>9 DEF SealSegment, AfterClose
  <2>3. QED
    BY <2>1, <2>2 DEF OpenNow
<1>10. CASE WriteManifest
  BY <1>10 DEF WriteManifest, AfterManifest, OpenNow
<1>11. CASE Destroy \/ MemoryFault
  BY <1>11 DEF Destroy, MemoryFault, OpenNow
<1>12. QED
  BY <1>1, <1>2, <1>3, <1>5, <1>6, <1>7, <1>8, <1>9, <1>10, <1>11 DEF Next, Step

LEMMA OthersNext ==
  ASSUME Inv, Inv', MarksMatchBuffer, OpenNow, OthersComplete, DiskStep, FilesGrow, [Next]_vars,
         faults' = 0
  PROVE  OthersComplete'
<1>1. /\ files \in Seq(SegmentFiles) /\ (SegFile.open => files # <<>> /\ Cur \in DOMAIN files)
      /\ files' \in Seq(SegmentFiles)
  BY CurrentFile DEF Inv, TypeOK, FileInv
<1>2. DOMAIN files' = DOMAIN files => Cur' = Cur
  <2>1. files \in Seq(SegmentFiles) /\ files' \in Seq(SegmentFiles)
    BY <1>1
  <2>2. QED
    BY <2>1 DEF Cur
<1>3. SUFFICES ASSUME pc' # "closed"
               PROVE  \A k \in DOMAIN files' :
                         Complete(files'[k]) \/ (SegFile'.open /\ k = Cur')
  BY DEF OthersComplete, Complete, HasFooter
<1>4. \A k \in DOMAIN files : Complete(files[k]) \/ (SegFile.open /\ k = Cur)
  <2>1. pc # "closed"
    BY <1>3, ClosedIsLast DEF vars, control
  <2>2. QED
    BY <2>1 DEF OthersComplete
<1>5. \A k \in DOMAIN files : ~(SegFile.open /\ k = Cur) => files'[k] = files[k]
  BY DEF FilesGrow
<1>6. ASSUME DOMAIN files' = DOMAIN files,
             SegFile.open => SegFile'.open \/ Complete(files'[Cur])
      PROVE  \A k \in DOMAIN files' : Complete(files'[k]) \/ (SegFile'.open /\ k = Cur')
  BY <1>2, <1>4, <1>5, <1>6
<1>7. CASE IdleStep
  BY <1>6, <1>7 DEF IdleStep
<1>8. ASSUME NEW r \in Records, RecordStep(r)
      PROVE  \A k \in DOMAIN files' : Complete(files'[k]) \/ (SegFile'.open /\ k = Cur')
  BY <1>6, <1>8 DEF RecordStep, RecsGrow
<1>9. CASE WriteFileHeader \/ WriteFooter
  BY <1>6, <1>9, FieldSteps, WritesKeepOpen DEF RecsSame
<1>10. CASE SealSegment
  <2>1. SegFile.open /\ HasFooter(files[Cur]) /\ files[Cur] \in SegmentFiles
    BY <1>10, CurrentFile DEF SealSegment, Inv, FileInv
  <2>3. DOMAIN files' = DOMAIN files /\ files'[Cur] = [files[Cur] EXCEPT !.tail = FALSE]
    <3>1. faults \in Nat /\ Cur \in DOMAIN files /\ CutTail
      BY <1>1, <1>10, <2>1 DEF SealSegment, Inv, TypeOK
    <3>2. QED
      BY <1>1, <3>1, NoFailedCut
  <2>4. Complete(files'[Cur])
    BY <2>1, <2>3 DEF Complete, HasFooter, SegmentFiles
  <2>5. QED
    BY <1>6, <2>3, <2>4
<1>11. CASE Destroy
  BY <1>3, <1>11 DEF Destroy
<1>12. CASE OpenFile
  <2> DEFINE f == NewSegmentFile(NextIdx, TRUE)
  <2>1. files' = Append(files, f) /\ ~SegFile.open /\ SegFile'.open
    BY <1>12, CreateAppends DEF OpenedFile, OpenFile, OpenNow
  <2> HIDE DEF f
  <2>2. /\ Cur' = Len(files) + 1
        /\ \A k \in DOMAIN files' : k \in DOMAIN files \/ k = Len(files) + 1
    BY <1>1, <2>1 DEF Cur
  <2>3. QED
    BY <1>4, <1>5, <2>1, <2>2
<1>13. CASE OpenFileFails
  BY <1>13, NoFaultBefore DEF Inv
<1>14. QED
  BY <1>7, <1>8, <1>9, <1>10, <1>11, <1>12, <1>13 DEF DiskStep

LEMMA CloseNext ==
  ASSUME Inv, MarksMatchBuffer, FlushInv, OpenNow, CloseInv, [Next]_vars, faults' = 0
  PROVE  CloseInv'
<1> USE DEF control, memory, disk, Return, Counting, Call
<1>1. ~WriteFails /\ ~OpenFileFails /\ ~WriteManifestFails
  BY NoFaultBefore, NoFailedWrite DEF Inv
<1>2. ASSUME UNCHANGED vars PROVE CloseInv'
  BY <1>2 DEF vars, CloseInv, PastFlush, Finishing, ManifestNow
\* Most steps lead to none of the steps the invariant speaks of.
<1>3. ASSUME pc' \notin {"manifest", "destroy", "index", "end", "footer", "seal"}
             \/ call'.op # "Close" \/ (inner' /\ pc' \notin {"manifest", "destroy"})
      PROVE  CloseInv'
  BY <1>3 DEF CloseInv, PastFlush, Finishing
<1>4. CASE Client
  <2>1. ASSUME NEW op, NEW s, Refuse(op, s) PROVE CloseInv'
    BY <1>3, <2>1 DEF Refuse
  <2>2. ASSUME \/ \E cfg \in ChannelConfigs : DefineRefused(cfg)
               \/ \E c \in ChannelIds : WriteUnknown(c)
               \/ RotateRefused
        PROVE  CloseInv'
    BY <2>1, <2>2 DEF DefineRefused, WriteUnknown, RotateRefused
  <2>3. ASSUME NEW c \in ChannelIds, NEW ts \in Timestamps, NEW len \in Lengths,
               WriteRaw(c, ts, len) \/ WriteCompressed(c, ts, len)
        PROVE  CloseInv'
    <3>1. call'.op = "Write"
      BY <2>3 DEF WriteRaw, WriteCompressed
    <3>2. QED
      BY <1>3, <3>1
  <2>4. CASE \/ Open \/ (\E cfg \in ChannelConfigs : DefineChannel(cfg)) \/ Discard
             \/ (\E ts \in AnnotationTimes, len \in Lengths : Annotate(ts, len))
             \/ Flush \/ RotateSegment
    <3>1. call'.op \in {"Open", "DefineChannel", "Discard", "Annotate", "Flush", "Rotate"}
      BY <2>4 DEF Open, DefineChannel, Discard, Annotate, Flush, RotateSegment
    <3>2. QED
      BY <1>3, <3>1
  <2>5. CASE Close
    <3>1. SegFile.open /\ pc' = EnterClose("Close")
      BY <2>5 DEF Close, OpenNow, Underway
    <3>2. pc' = "loop"
      BY <3>1 DEF EnterClose
    <3>3. QED
      BY <1>3, <3>2
  <2>6. QED
    BY <1>4, <2>2, <2>3, <2>4, <2>5 DEF Client
<1>5. CASE \/ OpenFile \/ WriteFileHeader \/ WriteSessionStart \/ ReemitChannelDef
           \/ SkipChannel \/ FlushChannel \/ WriteChannelDef \/ WriteData \/ FlushWritten
           \/ WriteAnnotation \/ Destroy \/ MemoryFault
  <2>1. pc' \in {"header", "start", "ready", "defs", "loop", "closed", "dead"}
    BY <1>5
    DEF OpenFile, WriteFileHeader, WriteSessionStart, ReemitChannelDef, SkipChannel, FlushChannel,
        WriteChannelDef, WriteData, FlushWritten, WriteAnnotation, Destroy, MemoryFault
  <2>2. QED
    BY <1>3, <2>1
<1>6. CASE OpenSegmentReturns
  <2>1. pc' \in {"loop", "ready", "reflush", "data"} \/ (pc' = "manifest" /\ call'.op = "Open")
    BY <1>6 DEF OpenSegmentReturns
  <2>2. QED
    BY <1>3, <2>1
<1>7. CASE RotateForChannel
  <2>1. inner' /\ pc' \in {"index", "open"}
    BY <1>7 DEF RotateForChannel
  <2>2. QED
    BY <1>3, <2>1
<1>8. CASE RotateForWrite
  <2>1. call'.op = "Write"
    BY <1>8 DEF RotateForWrite, Inv, CallInv
  <2>2. QED
    BY <1>3, <2>1
<1>9. CASE FlushLoopReturns
  <2>1. pc' \in {"annot", "ready", "index"} /\ accum' = accum /\ pc = "loop" /\ i > Len(chans)
    BY <1>9 DEF FlushLoopReturns, AllFlushed
  <2>2. \A c \in ChannelIds : accum[c].buf = <<>>
    <3>1. /\ \A c \in ChannelIds : c < i => accum[c].buf = <<>>
          /\ \A c \in ChannelIds : accum[c].buf # <<>> => c \in DOMAIN chans
      BY <2>1 DEF FlushInv, LoopInv, BufferInv, EmptyBefore
    <3>2. i \in Nat /\ Len(chans) \in Nat /\ DOMAIN chans = 1..Len(chans)
      BY DEF Inv, TypeOK
    <3>3. \A c \in DOMAIN chans : c < i
      BY <2>1, <3>2
    <3>4. QED
      BY <3>1, <3>3
  <2>3. QED
    BY <2>1, <2>2 DEF CloseInv, PastFlush, Finishing
\* The rest of CloseSegment and the manifest leave the buffers alone.
<1>10. ASSUME UNCHANGED <<accum, call>>, PastFlush' => PastFlush,
              Finishing' /\ pc' = "destroy" /\ ~single' => manifest' = ManifestNow'
       PROVE  CloseInv'
  BY <1>10 DEF CloseInv
<1>11. CASE WriteIndex \/ WriteSessionEnd \/ WriteFooter
  <2>1. /\ UNCHANGED <<accum, call, inner>>
        /\ pc \in {"index", "end", "footer"} /\ pc' \in {"end", "footer", "seal"}
    BY <1>11 DEF WriteIndex, WriteSessionEnd, WriteFooter
  <2>2. QED
    BY <1>10, <2>1 DEF PastFlush, Finishing
<1>12. CASE SealSegment
  <2>1. UNCHANGED <<accum, call, inner, single>> /\ pc = "seal" /\ pc' = AfterClose(call.op)
    BY <1>12 DEF SealSegment
  <2>2. Finishing' => call.op = "Close" /\ ~inner /\ (pc' = "destroy" => single)
    <3>1. Finishing' => call.op = "Close" /\ pc' \in {"manifest", "destroy"}
      BY <2>1 DEF Finishing
    <3>2. inner => pc' = "open"
      BY <2>1 DEF AfterClose, FlushInv, InnerInv
    <3>3. pc' = "destroy" => single
      BY <2>1 DEF AfterClose
    <3>4. QED
      BY <3>1, <3>2, <3>3
  <2>3. pc' \in {"open", "destroy", "manifest"}
    BY <2>1 DEF AfterClose
  <2>4. QED
    BY <1>10, <2>1, <2>2, <2>3 DEF PastFlush
<1>13. CASE WriteManifest
  <2>1. UNCHANGED <<accum, call, inner, single, chans, Segments>> /\ pc = "manifest"
        /\ manifest' = ManifestNow
    BY <1>13 DEF WriteManifest
  <2>2. ManifestNow' = ManifestNow
    BY <2>1 DEF ManifestNow
  <2>3. pc' \in {"ready", "destroy", "open"}
    BY <1>13 DEF WriteManifest, AfterManifest
  <2>4. PastFlush' => PastFlush
    BY <2>1, <2>3 DEF PastFlush, Finishing
  <2>5. QED
    BY <1>10, <2>1, <2>2, <2>4
<1>14. QED
  BY <1>1, <1>2, <1>4, <1>5, <1>6, <1>7, <1>8, <1>9, <1>11, <1>12, <1>13 DEF Next, Step

LEMMA OnlyDestroyCloses ==
  ASSUME [Next]_vars, pc # "closed", pc' = "closed"
  PROVE  Destroy
<1> USE DEF control, memory, disk, Return, Counting, Call
<1>1. CASE UNCHANGED vars
  BY <1>1 DEF vars
<1>2. CASE Client
  <2>1. ASSUME NEW op, NEW s, Refuse(op, s) PROVE FALSE
    BY <2>1 DEF Refuse
  <2>2. ASSUME \/ \E cfg \in ChannelConfigs : DefineRefused(cfg)
               \/ \E c \in ChannelIds : WriteUnknown(c)
               \/ RotateRefused
        PROVE  FALSE
    BY <2>1, <2>2 DEF DefineRefused, WriteUnknown, RotateRefused
  <2>3. ASSUME NEW c \in ChannelIds, NEW ts \in Timestamps, NEW len \in Lengths,
               WriteRaw(c, ts, len) \/ WriteCompressed(c, ts, len)
        PROVE  FALSE
    BY <2>3 DEF WriteRaw, WriteCompressed, EnterClose, AfterClose
  <2>4. ASSUME \/ Open \/ (\E cfg \in ChannelConfigs : DefineChannel(cfg)) \/ Discard
               \/ (\E ts \in AnnotationTimes, len \in Lengths : Annotate(ts, len))
               \/ Flush \/ RotateSegment \/ Close
        PROVE  FALSE
    BY <2>4
    DEF Open, DefineChannel, Discard, Annotate, Flush, RotateSegment, Close, EnterClose, AfterClose
  <2>5. QED
    BY <1>2, <2>2, <2>3, <2>4 DEF Client
<1>3. CASE Step
  BY <1>3
  DEF Step, OpenFile, OpenFileFails, WriteFileHeader, WriteSessionStart, ReemitChannelDef,
      OpenSegmentReturns, FlushLoopReturns, SkipChannel, FlushChannel, RotateForChannel,
      WriteChannelDef, WriteData, FlushWritten, RotateForWrite, WriteAnnotation, WriteIndex,
      WriteSessionEnd, WriteFooter, SealSegment, WriteManifest, WriteManifestFails, WriteFails,
      MemoryFault, Fail, AfterClose, AfterManifest
<1>4. QED
  BY <1>1, <1>2, <1>3 DEF Next

LEMMA KeepsNext ==
  ASSUME Inv, MarksMatchBuffer, LogInv, FaultlessInv, CloseKeepsEverything, [Next]_vars
  PROVE  CloseKeepsEverything'
<1>1. CASE pc = "closed"
  BY <1>1, ClosedIsLast
  DEF CloseKeepsEverything, vars, control, memory, disk, Stored, InFile, Complete, HasFooter,
      ManifestNow
<1>2. CASE pc # "closed"
  <2>1. SUFFICES ASSUME faults' = 0, pc' = "closed", call'.op = "Close", st' = "Ok"
                 PROVE  /\ \A c \in ChannelIds : Stored(c)' = pushed'[c]
                        /\ \A k \in DOMAIN files' : Complete(files'[k])
                        /\ ~single' => manifest' = ManifestNow'
    BY DEF CloseKeepsEverything, Stored, InFile, Complete, HasFooter, ManifestNow
  <2>2. Destroy
    BY <1>2, <2>1, OnlyDestroyCloses
  <2>3. OpenNow /\ OthersComplete /\ CloseInv
    BY <2>1, NoFaultBefore DEF FaultlessInv, Inv
  <2>4. Finishing /\ pc = "destroy" /\ UNCHANGED <<pushed, single, manifest, chans, Segments>>
    BY <2>1, <2>2 DEF Destroy, Finishing, memory, control, disk
  <2>5. ~SegFile.open /\ files' = files
    BY <2>2, <2>3, <2>4 DEF Destroy, OpenNow
  <2>6. \A c \in ChannelIds : Stored(c)' = pushed'[c]
    <3> SUFFICES ASSUME NEW c \in ChannelIds PROVE Stored(c)' = pushed'[c]
      OBVIOUS
    <3>1. accum[c].buf = <<>> /\ Stored(c) \o accum[c].buf = pushed[c] /\ Stored(c) \in Seq(Messages)
      BY <1>2, <2>3, <2>4, StoredType
      DEF CloseInv, PastFlush, LogInv, NothingLostOrReordered, Inv, TypeOK
    <3>2. Stored(c)' = Stored(c)
      BY <2>5, StoredSame DEF RecsSame
    <3> DEFINE s == Stored(c)
    <3>3. s \o <<>> = pushed[c] /\ s \in Seq(Messages) /\ Stored(c)' = s
      BY <3>1, <3>2
    <3> HIDE DEF s
    <3>4. QED
      BY <2>4, <3>3
  <2>7. \A k \in DOMAIN files' : Complete(files'[k])
    BY <1>2, <2>3, <2>5 DEF OthersComplete
  <2>8. ~single' => manifest' = ManifestNow'
    BY <2>3, <2>4 DEF CloseInv, ManifestNow
  <2>9. QED
    BY <2>6, <2>7, <2>8
<1>3. QED
  BY <1>1, <1>2

\* While no system call fails, a Close that returns Ok leaves every message in
\* a complete segment file that the manifest on disk names, whatever rotations
\* the session went through.
THEOREM CloseAlwaysKeeps == Spec => []CloseKeepsEverything
<1>1. Init => FaultlessInv /\ CloseKeepsEverything
  BY DEF Init, FaultlessInv, OpenNow, OthersComplete, CloseInv, PastFlush, Finishing, Underway,
         ClosedFile, NoCall, CloseKeepsEverything
<1>2. Inv /\ Inv' /\ MarksMatchBuffer /\ LogInv /\ FaultlessInv /\ [Next]_vars => FaultlessInv'
  <2> SUFFICES ASSUME Inv, Inv', MarksMatchBuffer, LogInv, FaultlessInv, [Next]_vars, faults' = 0
               PROVE  OpenNow' /\ OthersComplete' /\ CloseInv'
    BY DEF FaultlessInv
  <2>1. OpenNow /\ OthersComplete /\ CloseInv
    BY NoFaultBefore DEF FaultlessInv, Inv
  <2>2. OpenNow'
    BY <2>1, OpenNowNext DEF LogInv, FlushInv
  <2>3. OthersComplete'
    BY <2>1, OthersNext, StepFacts
  <2>4. CloseInv'
    BY <2>1, CloseNext DEF LogInv
  <2>5. QED
    BY <2>2, <2>3, <2>4
<1>3. Inv /\ MarksMatchBuffer /\ LogInv /\ FaultlessInv /\ CloseKeepsEverything /\ [Next]_vars
        => CloseKeepsEverything'
  BY KeepsNext
<1>4. QED
  BY <1>1, <1>2, <1>3, LogAlways, InvAlways, PTL DEF Spec

(***************************************************************************)
(* The size limit.                                                         *)
(***************************************************************************)
\* What the next data record may count on: the segment knows that it has data,
\* and Write goes on to a DATA record only where NeedsRotation found room.
DataNotedInv ==
  SegFile.open => \A j \in DOMAIN files[Cur].recs : IsData(files[Cur].recs[j]) => seg.hasData

RoomInv ==
  /\ DataNotedInv
  /\ Opening => ~seg.hasData
  /\ pc = "data" =>
       \/ single \/ ~seg.hasData \/ MaxSegmentBytes = 0
       \/ SegFile.cursor + DataNeeds(call.len) <= MaxSegmentBytes

LEMMA DataNotedNext ==
  ASSUME Inv, DiskStep, DataNotedInv
  PROVE  DataNotedInv'
<1> SUFFICES ASSUME SegFile'.open, NEW j \in DOMAIN files'[Cur'].recs, IsData(files'[Cur'].recs[j])
             PROVE  seg'.hasData
  BY DEF DataNotedInv, IsData
<1>1. files \in Seq(SegmentFiles) /\ seg \in SegmentStates
  BY DEF Inv, TypeOK
<1>2. SegFile.open => files # <<>> /\ files[Cur] \in SegmentFiles /\ Cur \in DOMAIN files
  BY CurrentFile DEF Inv, FileInv
<1>3. DOMAIN files' = DOMAIN files => Cur' = Cur
  BY <1>1 DEF Cur
<1>4. SegFile.open => \A k \in DOMAIN files[Cur].recs : IsData(files[Cur].recs[k]) => seg.hasData
  BY DEF DataNotedInv
<1>5. CASE IdleStep
  BY <1>4, <1>5 DEF IdleStep, Cur
<1>6. ASSUME NEW r \in Records, RecordStep(r) PROVE seg'.hasData
  <2>1. SegFile.open /\ RecsGrow(r) /\ SegNoted(r)
    BY <1>6 DEF RecordStep
  <2>2. Cur' = Cur /\ files'[Cur].recs = Append(files[Cur].recs, r) /\ files[Cur].recs \in Seq(Records)
    BY <1>2, <1>3, <2>1 DEF RecsGrow, SegmentFiles
  <2>3. \/ j \in DOMAIN files[Cur].recs /\ files'[Cur].recs[j] = files[Cur].recs[j]
        \/ files'[Cur].recs[j] = r
    BY <2>2
  <2>4. CASE seg' = Counted /\ ~IsData(r)
    <3>1. seg'.hasData = seg.hasData
      BY <1>1, <2>4, NotedFields
    <3>2. QED
      BY <1>4, <2>1, <2>2, <2>3, <2>4, <3>1
  <2>5. ASSUME NEW c, NEW a, NEW b, seg' = DataNoted(c, a, b) PROVE seg'.hasData
    BY <1>1, <2>5, NotedFields
  <2>6. QED
    BY <2>1, <2>4, <2>5 DEF SegNoted
<1>7. CASE WriteFileHeader \/ WriteFooter
  <2>1. SegFile.open /\ RecsSame
    BY <1>7, FieldSteps, WriteBytesOpen DEF Inv, WriteFileHeader, WriteFooter, FileHeaderSize, FileFooterSize
  <2>2. Cur' = Cur /\ files'[Cur].recs = files[Cur].recs
    BY <1>2, <1>3, <2>1 DEF RecsSame
  <2>3. seg' = seg
    BY <1>7 DEF WriteFileHeader, WriteFooter
  <2>4. QED
    BY <1>4, <2>1, <2>2, <2>3
<1>8. CASE OpenFile
  <2> DEFINE f == NewSegmentFile(NextIdx, TRUE)
  <2>1. files' = Append(files, f) /\ f.recs = <<>>
    BY <1>8, CreateAppends DEF OpenFile, NewSegmentFile
  <2> HIDE DEF f
  <2>2. files'[Cur'] = f
    BY <1>1, <2>1 DEF Cur
  <2>3. QED
    BY <2>1, <2>2
<1>9. SealSegment \/ Destroy \/ OpenFileFails => SegFile' = ClosedFile
  BY DEF SealSegment, Destroy, OpenFileFails
<1>10. SegFile' # ClosedFile
  BY DEF ClosedFile
<1>11. QED
  BY <1>5, <1>6, <1>7, <1>8, <1>9, <1>10 DEF DiskStep

\* How the segment is opened, and how a call comes to write its DATA record.
LEMMA DataEntered ==
  ASSUME [Next]_vars
  PROVE  /\ Opening' => OpenFile \/ (Opening /\ (seg' = seg \/ seg' = Counted))
         /\ pc' = "data" =>
              \/ UNCHANGED vars
              \/ pc = "defs" /\ seg' = seg
              \/ /\ UNCHANGED <<single, seg, SegFile>>
                 /\ ~NeedsRotation(call'.ts, DataNeeds(call'.len))
<1> USE DEF control, memory, disk, Return, Counting
<1>1. ASSUME ~Opening', pc' # "data"
      PROVE  /\ Opening' => OpenFile \/ (Opening /\ (seg' = seg \/ seg' = Counted))
             /\ pc' = "data" =>
                  \/ UNCHANGED vars
                  \/ pc = "defs" /\ seg' = seg
                  \/ /\ UNCHANGED <<single, seg, SegFile>>
                     /\ ~NeedsRotation(call'.ts, DataNeeds(call'.len))
  BY <1>1
<1>2. CASE UNCHANGED vars
  BY <1>2 DEF vars, Opening
<1>3. ASSUME NEW c \in ChannelIds, NEW ts \in Timestamps, NEW len \in Lengths, WriteRaw(c, ts, len)
      PROVE  /\ ~Opening'
             /\ pc' = "data" => /\ UNCHANGED <<single, seg, SegFile>>
                                /\ ~NeedsRotation(call'.ts, DataNeeds(call'.len))
  <2>1. call'.ts = ts /\ call'.len = len
    BY <1>3 DEF WriteRaw, Call
  <2>2. EnterClose("Write") \notin {"data", "header", "start", "defs"}
    BY DEF EnterClose, AfterClose
  <2>3. QED
    BY <1>3, <2>1, <2>2 DEF WriteRaw, Opening
<1>4. CASE Client /\ ~\E c \in ChannelIds, ts \in Timestamps, len \in Lengths : WriteRaw(c, ts, len)
  <2>1. ASSUME NEW op, NEW s, Refuse(op, s) PROVE ~Opening' /\ pc' # "data"
    BY <2>1 DEF Refuse, Opening
  <2>2. ASSUME \/ \E cfg \in ChannelConfigs : DefineRefused(cfg)
               \/ \E c \in ChannelIds : WriteUnknown(c)
               \/ RotateRefused
        PROVE  ~Opening' /\ pc' # "data"
    BY <2>1, <2>2 DEF DefineRefused, WriteUnknown, RotateRefused
  <2>3. ASSUME NEW c \in ChannelIds, NEW ts \in Timestamps, NEW len \in Lengths,
               WriteCompressed(c, ts, len)
        PROVE  ~Opening' /\ pc' # "data"
    BY <2>3 DEF WriteCompressed, Opening
  <2>4. ASSUME \/ Open \/ (\E cfg \in ChannelConfigs : DefineChannel(cfg))
               \/ (\E ts \in AnnotationTimes, len \in Lengths : Annotate(ts, len))
               \/ Flush \/ RotateSegment \/ Close \/ Discard
        PROVE  ~Opening' /\ pc' # "data"
    BY <2>4
    DEF Open, DefineChannel, Annotate, Flush, RotateSegment, Close, Discard, EnterClose,
        AfterClose, Opening
  <2>5. ~Opening' /\ pc' # "data"
    BY <1>4, <2>2, <2>3, <2>4 DEF Client
  <2>6. QED
    BY <1>1, <2>5
<1>5. CASE OpenFile
  BY <1>5 DEF OpenFile
<1>6. CASE WriteFileHeader \/ WriteSessionStart \/ ReemitChannelDef
  BY <1>6 DEF WriteFileHeader, WriteSessionStart, ReemitChannelDef, Opening
<1>7. CASE OpenSegmentReturns
  BY <1>7 DEF OpenSegmentReturns, Opening
<1>8. CASE /\ Step /\ ~OpenFile /\ ~WriteFileHeader /\ ~WriteSessionStart /\ ~ReemitChannelDef
           /\ ~OpenSegmentReturns
  <2>1. CASE SkipChannel \/ FlushChannel
    BY <1>1, <2>1 DEF SkipChannel, FlushChannel, Opening
  <2>2. CASE ~SkipChannel /\ ~FlushChannel
    BY <1>1, <1>8, <2>2
    DEF Step, OpenFileFails, FlushLoopReturns,
        RotateForChannel, WriteChannelDef, WriteData, FlushWritten, RotateForWrite,
        WriteAnnotation, WriteIndex, WriteSessionEnd, WriteFooter, SealSegment,
        WriteManifest, WriteManifestFails, Destroy, WriteFails, MemoryFault, Opening,
        Fail, AfterClose, AfterManifest
  <2>3. QED
    BY <2>1, <2>2
<1>9. QED
  BY <1>2, <1>3, <1>4, <1>5, <1>6, <1>7, <1>8 DEF Next

LEMMA RoomNext ==
  ASSUME Inv, Inv', DiskStep, RoomInv, [Next]_vars
  PROVE  RoomInv'
<1>1. DataNotedInv'
  BY DataNotedNext DEF RoomInv
<1>2. seg \in SegmentStates
  BY DEF Inv, TypeOK
<1>3. Opening' => ~seg'.hasData
  <2>1. OpenFile => ~seg'.hasData
    BY DEF OpenFile, FreshSeg
  <2>2. Opening /\ (seg' = seg \/ seg' = Counted) => ~seg'.hasData
    BY <1>2, NotedFields DEF RoomInv
  <2>3. QED
    BY <2>1, <2>2, DataEntered
<1>4. ASSUME pc' = "data"
      PROVE  \/ single' \/ ~seg'.hasData \/ MaxSegmentBytes = 0
             \/ SegFile'.cursor + DataNeeds(call'.len) <= MaxSegmentBytes
  <2>1. CASE UNCHANGED vars
    BY <1>4, <2>1 DEF RoomInv, vars, control, memory
  <2>2. CASE pc = "defs" /\ seg' = seg
    BY <2>2 DEF RoomInv, Opening
  <2>3. CASE /\ UNCHANGED <<single, seg, SegFile>>
             /\ ~NeedsRotation(call'.ts, DataNeeds(call'.len))
    <3>1. /\ SegFile'.cursor \in Nat /\ call'.len \in Nat /\ MaxSegmentBytes \in Nat
          /\ DataNeeds(call'.len) \in Nat
      <4>1. SegFile'.cursor \in Nat /\ call'.len \in Nat
        BY DEF Inv, TypeOK, MappedFiles
      <4>2. QED
        BY <4>1, LimitsAssumption
        DEF DataNeeds, TailEstimate, EnvelopeSize, FileFooterSize, EndPayloadSize
    <3>2. QED
      BY <2>3, <3>1 DEF NeedsRotation
  <2>4. QED
    BY <1>4, <2>1, <2>2, <2>3, DataEntered
<1>5. QED
  BY <1>1, <1>3, <1>4 DEF RoomInv, DataNeeds

\* The mode of a session never changes.
LEMMA SingleKept ==
  ASSUME [Next]_vars
  PROVE  single' = single
<1> USE DEF control, memory, disk, Return
<1>1. CASE UNCHANGED vars
  BY <1>1 DEF vars
<1>2. CASE Client
  <2>1. ASSUME NEW op, NEW s, Refuse(op, s) PROVE single' = single
    BY <2>1 DEF Refuse
  <2>2. ASSUME \/ \E cfg \in ChannelConfigs : DefineRefused(cfg)
               \/ \E c \in ChannelIds : WriteUnknown(c)
               \/ RotateRefused
        PROVE  single' = single
    BY <2>1, <2>2 DEF DefineRefused, WriteUnknown, RotateRefused
  <2>3. ASSUME NEW c \in ChannelIds, NEW ts \in Timestamps, NEW len \in Lengths,
               WriteRaw(c, ts, len) \/ WriteCompressed(c, ts, len)
        PROVE  single' = single
    BY <2>3 DEF WriteRaw, WriteCompressed
  <2>4. ASSUME \/ Open \/ (\E cfg \in ChannelConfigs : DefineChannel(cfg))
               \/ (\E ts \in AnnotationTimes, len \in Lengths : Annotate(ts, len))
               \/ Flush \/ RotateSegment \/ Close \/ Discard
        PROVE  single' = single
    BY <2>4 DEF Open, DefineChannel, Annotate, Flush, RotateSegment, Close, Discard
  <2>5. QED
    BY <1>2, <2>2, <2>3, <2>4 DEF Client
<1>3. CASE Step
  BY <1>3
  DEF Step, OpenFile, OpenFileFails, WriteFileHeader, WriteSessionStart, ReemitChannelDef,
      OpenSegmentReturns, FlushLoopReturns, SkipChannel, FlushChannel, RotateForChannel,
      WriteChannelDef, WriteData, FlushWritten, RotateForWrite, WriteAnnotation, WriteIndex,
      WriteSessionEnd, WriteFooter, SealSegment, WriteManifest, WriteManifestFails, Destroy,
      WriteFails, MemoryFault
<1>4. QED
  BY <1>1, <1>2, <1>3 DEF Next

LEMMA SizesNext ==
  ASSUME Inv, Inv', MarksMatchBuffer, LogInv, LogStep, RoomInv, SizesBounded, [Next]_vars
  PROVE  SizesBounded'
<1> SUFFICES ASSUME MaxSegmentBytes > 0, ~single'
             PROVE  SizesBounded'
  BY DEF SizesBounded
<1> DEFINE Fitting(rs) ==
             \A j \in DOMAIN rs :
                IsData(rs[j]) /\ (\E b \in 1..(j-1) : IsData(rs[b])) =>
                   rs[j].off + rs[j].size + (EnvelopeSize + EndPayloadSize) + EnvelopeSize
                     + FileFooterSize <= MaxSegmentBytes
<1>0. ~single
  BY SingleKept
<1>1. files \in Seq(SegmentFiles) /\ \A k \in DOMAIN files : files[k].recs \in Seq(Records)
  BY FilesTyped DEF Inv, TypeOK
<1>2. \A k \in DOMAIN files : Fitting(files[k].recs)
  BY <1>0 DEF SizesBounded
<1>3. SUFFICES \A k \in DOMAIN files' : Fitting(files'[k].recs)
  BY DEF SizesBounded, IsData
<1>4. CASE RecsSame
  BY <1>2, <1>4 DEF RecsSame
<1>5. CASE RecsNew
  <2>1. PICK f \in SegmentFiles : f.recs = <<>> /\ files' = Append(files, f)
    BY <1>5 DEF RecsNew
  <2>2. /\ \A k \in DOMAIN files' : k \in DOMAIN files \/ k = Len(files) + 1
        /\ \A k \in DOMAIN files : files'[k] = files[k]
        /\ files'[Len(files) + 1] = f
    BY <1>1, <2>1
  <2>3. Fitting(f.recs)
    BY <2>1
  <2> HIDE DEF Fitting
  <2>4. QED
    BY <1>2, <2>2, <2>3
<1>6. ASSUME NEW r \in Records, RecsGrow(r),
             IsData(r) /\ (\E b \in DOMAIN files[Cur].recs : IsData(files[Cur].recs[b])) =>
                r.off + r.size + (EnvelopeSize + EndPayloadSize) + EnvelopeSize + FileFooterSize
                  <= MaxSegmentBytes
      PROVE  \A k \in DOMAIN files' : Fitting(files'[k].recs)
  <2> DEFINE rs == files[Cur].recs
  <2>1. /\ DOMAIN files' = DOMAIN files /\ Cur \in DOMAIN files /\ files'[Cur].recs = Append(rs, r)
        /\ \A k \in DOMAIN files \ {Cur} : files'[k] = files[k]
    BY <1>1, <1>6 DEF RecsGrow, SameElsewhere, Cur
  <2> HIDE DEF Cur
  <2>2. rs \in Seq(Records) /\ Fitting(rs)
    BY <1>1, <1>2, <2>1
  <2>3. Fitting(Append(rs, r))
    <3>1. SUFFICES ASSUME NEW j \in DOMAIN Append(rs, r), IsData(Append(rs, r)[j]),
                          NEW b \in 1..(j-1), IsData(Append(rs, r)[b])
                   PROVE  LET q == Append(rs, r)[j] IN
                          q.off + q.size + (EnvelopeSize + EndPayloadSize) + EnvelopeSize
                            + FileFooterSize <= MaxSegmentBytes
      OBVIOUS
    <3> HIDE DEF rs
    <3>2. b \in DOMAIN rs /\ Append(rs, r)[b] = rs[b]
      BY <2>2, <3>1
    <3>3. CASE j \in DOMAIN rs
      <4>1. Append(rs, r)[j] = rs[j]
        BY <2>2, <3>3
      <4>2. QED
        BY <2>2, <3>1, <3>2, <3>3, <4>1
    <3>4. CASE j \notin DOMAIN rs
      <4>1. Append(rs, r)[j] = r
        BY <2>2, <3>1, <3>4
      <4>2. \E x \in DOMAIN files[Cur].recs : IsData(files[Cur].recs[x])
        BY <3>1, <3>2 DEF rs
      <4>3. QED
        BY <1>6, <3>1, <4>1, <4>2
    <3>5. QED
      BY <3>3, <3>4
  <2> HIDE DEF Fitting, rs
  <2>4. QED
    BY <1>2, <2>1, <2>3
<1> HIDE DEF Fitting
<1>7. ASSUME NEW r \in Records, RecsGrow(r), r.op \notin {"Data", "Chunk"}
      PROVE  \A k \in DOMAIN files' : Fitting(files'[k].recs)
  BY <1>6, <1>7 DEF IsData
<1>8. CASE QuietLogStep
  BY <1>4, <1>5, <1>7, <1>8 DEF QuietLogStep, Plain
<1>9. CASE AnnotationStep
  <2>1. AnnotationRecord \in Records /\ AnnotationRecord.op = "Annotation"
    BY FixedRecordTypes DEF Inv, AnnotationRecord, Rec
  <2>2. QED
    BY <1>7, <1>9, <2>1 DEF AnnotationStep
<1>10. CASE BufferStep \/ DestroyStep
  BY <1>4, <1>10 DEF BufferStep, DestroyStep
\* A segment with data in it knows so.
<1>11. ASSUME SegFile.open, \E b \in DOMAIN files[Cur].recs : IsData(files[Cur].recs[b])
       PROVE  seg.hasData
  BY <1>11 DEF RoomInv, DataNotedInv
<1>12. SegFile.cursor \in Nat /\ MaxSegmentBytes \in Nat
  BY LimitsAssumption DEF Inv, TypeOK, MappedFiles
<1>13. CASE DataStep
  <2>1. DataRecord \in Records /\ RecsGrow(DataRecord)
    BY <1>13, FixedRecordTypes DEF Inv, DataRecord, Rec, DataStep
  <2>2. /\ DataRecord.off = SegFile.cursor /\ DataRecord.size = EnvelopeSize + call.len
        /\ pc = "data"
    BY <1>13 DEF DataStep, WriteData, DataRecord, Rec
  <2>3. SegFile.open
    <3>1. DataRecord.size \in Nat \ {0}
      BY <2>1, RecordFields
    <3>2. QED
      BY <1>13, <3>1, WriteBytesOpen DEF DataStep, WriteData, WriteRecord, Inv
  <2>4. ASSUME seg.hasData
        PROVE  DataRecord.off + DataRecord.size + (EnvelopeSize + EndPayloadSize) + EnvelopeSize
                 + FileFooterSize <= MaxSegmentBytes
    <3>1. SegFile.cursor + DataNeeds(call.len) <= MaxSegmentBytes
      BY <1>0, <2>2, <2>4 DEF RoomInv
    <3>2. call.len \in Nat
      BY DEF Inv, TypeOK
    <3>3. QED
      BY <1>12, <2>2, <3>1, <3>2
      DEF DataNeeds, TailEstimate, EnvelopeSize, EndPayloadSize, FileFooterSize
  <2>5. QED
    BY <1>6, <1>11, <2>1, <2>3, <2>4
<1>14. ASSUME NEW c \in ChannelIds, FlushStep(c)
       PROVE  \A k \in DOMAIN files' : Fitting(files'[k].recs)
  <2>1. ChunkRecord(c) \in Records /\ RecsGrow(ChunkRecord(c))
    BY <1>14, ChunkRecordType DEF Inv, ChunkRecord, Rec, FlushStep
  <2>2. AccFlush(c) /\ accum[c].has
    BY <1>14 DEF FlushStep
  <2>3. SegFile.open
    BY <2>2, FlushWritesChunk
  <2>4. ASSUME seg.hasData
        PROVE  ChunkRecord(c).off + ChunkRecord(c).size + (EnvelopeSize + EndPayloadSize)
                 + EnvelopeSize + FileFooterSize <= MaxSegmentBytes
    <3>1. ~NeedsRotation(accum[c].first, EnvelopeSize + ChunkPayload(c) + TailEstimate)
      BY <2>2, <2>4 DEF AccFlush, FlushFull, ChunkFull
    <3>2. ChunkPayload(c) \in Nat
      BY ChunkPayloadType DEF Inv, TypeOK
    <3>3. /\ ChunkRecord(c).off = SegFile.cursor
          /\ ChunkRecord(c).size = EnvelopeSize + ChunkPayload(c)
      BY DEF ChunkRecord, Rec
    <3>4. SegFile.cursor + (EnvelopeSize + ChunkPayload(c) + TailEstimate) <= MaxSegmentBytes
      BY <1>0, <1>12, <3>1, <3>2
      DEF NeedsRotation, TailEstimate, EnvelopeSize, EndPayloadSize, FileFooterSize
    <3>5. QED
      BY <1>12, <3>2, <3>3, <3>4 DEF TailEstimate, EnvelopeSize, EndPayloadSize, FileFooterSize
  <2>5. QED
    BY <1>6, <1>11, <2>1, <2>3, <2>4
<1>15. QED
  BY <1>8, <1>9, <1>10, <1>13, <1>14 DEF LogStep

\* With a size limit, every data record but the first of its segment ends early
\* enough for the records and the footer that close the segment, for every mix of
\* channels, record sizes and rotations, and with failed writes and rotations too.
THEOREM SizesAlwaysBounded == Spec => []SizesBounded
<1>1. Init => RoomInv /\ SizesBounded
  BY DEF Init, RoomInv, DataNotedInv, SizesBounded, Opening, ClosedFile
<1>2. Inv /\ Inv' /\ MarksMatchBuffer /\ LogInv /\ RoomInv /\ SizesBounded /\ [Next]_vars
        => RoomInv' /\ SizesBounded'
  <2> SUFFICES ASSUME Inv, Inv', MarksMatchBuffer, LogInv, RoomInv, SizesBounded, [Next]_vars
               PROVE  RoomInv' /\ SizesBounded'
    OBVIOUS
  <2>1. LogStep /\ DiskStep
    BY EveryStepLogs, StepFacts
  <2>2. QED
    BY <2>1, RoomNext, SizesNext
<1>3. QED
  BY <1>1, <1>2, LogAlways, InvAlways, PTL DEF Spec
=============================================================================
