------------------------------ MODULE Recorder ------------------------------
(***************************************************************************)
(* RecorderSession / WriterImpl (src/writer.cpp) with one ChunkAccumulator *)
(* per compressed channel (src/detail/chunk_accumulator.cpp): one session, *)
(* from Open to Close or destruction, driven by an arbitrary client.       *)
(*                                                                         *)
(* An API call is a sequence of steps, one for each write to the segment   *)
(* file or to the manifest, so that every write can fail on its own and    *)
(* the process can stop between any two.  pc is the next step:             *)
(*                                                                         *)
(*   CloseSegment(true)   loop, index, footer's steps ...                  *)
(*   CloseSegment(false)  index -> end -> footer -> seal                   *)
(*   WriteManifest        manifest                                         *)
(*   OpenSegment          open -> header -> start -> defs                  *)
(*                                                                         *)
(* and call.op, with inner, says where each of these returns to.           *)
(***************************************************************************)
EXTENDS RecFormat, FileMap, SeekIndex

CONSTANTS
  MaxSegmentBytes,       \* SessionConfig::MaxSegmentBytes
  MaxSegmentDurationNs,  \* SessionConfig::MaxSegmentDurationNs
  ChunkSizeBytes,        \* ChannelConfig::ChunkSizeBytes
  FlushTimer,            \* whether ChunkFlushIntervalMs is not 0
  PackedPercent,         \* compressed size of a chunk, in percent (100: raw fallback)
  Modes,                 \* the values of SessionConfig::SingleFile explored
  ChannelConfigs,        \* the ChannelConfigs a client may define
  MaxChannels,           \* format::MAX_CHANNELS
  Timestamps, AnnotationTimes, Lengths,  \* of messages and annotations
  MaxCalls,              \* bound on API calls that write or flush
  MaxSegments,           \* bound on SegIdx, a uint32_t
  MaxFaults              \* bound on failing system calls

ASSUME LimitsAssumption ==
  /\ MaxSegmentBytes \in Nat /\ MaxSegmentDurationNs \in Nat
  /\ ChunkSizeBytes \in Nat /\ PackedPercent \in Nat /\ FlushTimer \in BOOLEAN /\ Modes \subseteq BOOLEAN
  /\ MaxChannels \in Nat /\ MaxCalls \in Nat /\ MaxSegments \in Nat /\ MaxFaults \in Nat
ASSUME InputsAssumption ==
  /\ ChannelConfigs \subseteq [name: STRING, comp: BOOLEAN]
  /\ Timestamps \cup AnnotationTimes \subseteq 0..(Word - 1) /\ Lengths \subseteq Nat

VARIABLES
  pc, call, st, inner, i,
  single,                \* Cfg.SingleFile
  chans,                 \* Mfst.Channels
  SegFile,               \* the MappedFile of the current segment
  seg,                   \* SegIdx, RecordCount, SegStartNs, SegLastNs, SegHasData, Idx
  accum,                 \* per channel: the Buffer of Accums, as messages and in bytes,
                         \* AccumHasData, AccumFirstTs and AccumLastTs
  written, dropped,      \* MsgWritten, MsgDropped
  Segments,              \* Mfst.Segments
  files,                 \* the segment files on disk, in order of creation
  manifest,              \* session.manifest on disk
  pushed,                \* history: the messages the writer took, per channel
  partial,               \* history: the segment files whose OpenSegment failed half-way
  calls, faults          \* bounds

control == <<pc, call, st, inner, i>>
memory  == <<single, chans, SegFile, seg, accum, written, dropped, Segments>>
disk    == <<files, manifest>>
vars    == <<control, memory, disk, pushed, partial, calls, faults>>

ChannelIds == 1..MaxChannels

NoCall == [op |-> "None", ch |-> NoChannel, ts |-> 0, len |-> 0]
Call(op, ch, ts, len) == [op |-> op, ch |-> ch, ts |-> ts, len |-> len]

EmptyAccum == [buf |-> <<>>, bytes |-> 0, has |-> FALSE, first |-> 0, last |-> 0]

\* Mutant: the reset at the start of OpenSegment takes the index with the rest.
FreshSegFirst(idx) == [idx |-> 0, count |-> 0, start |-> 0, last |-> 0, hasData |-> FALSE,
                       points |-> <<>>]

FreshSeg(idx) == [idx |-> idx, count |-> 0, start |-> 0, last |-> 0, hasData |-> FALSE,
                  points |-> <<>>]

NoManifest == [saved |-> FALSE, chans |-> <<>>, segs |-> <<>>]

Init ==
  /\ pc = "new" /\ call = NoCall /\ st = "Ok" /\ inner = FALSE /\ i = 1
  /\ single \in Modes
  /\ chans = <<>> /\ SegFile = ClosedFile /\ seg = FreshSeg(0)
  /\ accum = [c \in ChannelIds |-> EmptyAccum]
  /\ written = [c \in ChannelIds |-> 0] /\ dropped = [c \in ChannelIds |-> 0]
  /\ Segments = <<>> /\ files = <<>> /\ manifest = NoManifest
  /\ pushed = [c \in ChannelIds |-> <<>>]
  /\ partial = {} /\ calls = 0 /\ faults = 0

(***************************************************************************)
(* Returning from an API call.                                             *)
(***************************************************************************)
Return(status) == pc' = "ready" /\ st' = status

\* An error inside a call: Open destroys its WriterImpl, Close saves the
\* manifest and resets it all the same, the others report to the client.
Fail(status) ==
  /\ st' = status
  /\ pc' = CASE call.op = "Open" -> "destroy"
             [] call.op = "Close" -> IF single THEN "destroy" ELSE "manifest"
             [] OTHER -> "ready"

(***************************************************************************)
(* Writing to the segment file.                                            *)
(***************************************************************************)
Cur == Len(files)        \* the current segment file, when SegFile is open

Rec(op, ch, ts, payload, msgs) ==
  [op |-> op, ch |-> ch, ts |-> ts, off |-> SegFile.cursor,
   size |-> EnvelopeSize + payload, msgs |-> msgs]

\* EnsureAvailable returned true, on a region that is mapped, and the bytes
\* are copied to WritePtr().
WriteBytes(n) ==
  /\ CanEnsure(SegFile, n)
  /\ Ensured(SegFile, n).base
  /\ SegFile' = Advance(Ensured(SegFile, n), n)

\* WriteRecord: the record goes to the end of the file.
AppendRecord(r) == [files EXCEPT ![Cur].recs = Append(@, r)]
WriteRecord(r) == WriteBytes(r.size) /\ files' = AppendRecord(r)
Counted == [seg EXCEPT !.count = @ + 1]

\* Mutant: the first range of a segment takes the first timestamp twice.
NoteRangeFirstTwice(s, firstTs, lastTs) ==
  IF ~s.hasData
  THEN [s EXCEPT !.start = firstTs, !.last = firstTs, !.hasData = TRUE]
  ELSE [s EXCEPT !.start = IF firstTs < @ THEN firstTs ELSE @,
                 !.last  = IF lastTs > @ THEN lastTs ELSE @]

NoteDataRange(s, firstTs, lastTs) ==
  IF ~s.hasData
  THEN [s EXCEPT !.start = firstTs, !.last = lastTs, !.hasData = TRUE]
  ELSE [s EXCEPT !.start = IF firstTs < @ THEN firstTs ELSE @,
                 !.last  = IF lastTs > @ THEN lastTs ELSE @]

\* The segment state after a DATA or CHUNK record at the cursor.
DataNoted(ch, firstTs, lastTs) ==
  NoteDataRange([Counted EXCEPT !.points = MaybeAdd(@, ch, firstTs, SegFile.cursor)],
                firstTs, lastTs)

(***************************************************************************)
(* Rotation limits.  Single-file sessions have none.                       *)
(***************************************************************************)
\* Mutant: the estimate forgets the footer.
TailWithoutFooter == EnvelopeSize + EndPayloadSize + EnvelopeSize

TailEstimate == FileFooterSize + EnvelopeSize + EndPayloadSize + EnvelopeSize

NeedsRotation(ts, needed) ==
  /\ ~single
  /\ \/ MaxSegmentBytes > 0 /\ SegFile.cursor + needed > MaxSegmentBytes
     \/ /\ MaxSegmentDurationNs > 0 /\ seg.start > 0
        /\ ts >= seg.start /\ ts - seg.start >= MaxSegmentDurationNs

(***************************************************************************)
(* ChunkAccumulator::Flush and the flush callback of DefineChannel.        *)
(***************************************************************************)
ChunkPayload(c) == ChunkHeaderSize + (accum[c].bytes * PackedPercent) \div 100

\* Mutant: the callback asks for a rotation in a segment that has no data.
ChunkFullWhenEmpty(c) ==
  NeedsRotation(accum[c].first, EnvelopeSize + ChunkPayload(c) + TailEstimate)

\* The callback asks for a rotation first, unless the segment has no data yet.
ChunkFull(c) ==
  seg.hasData /\ NeedsRotation(accum[c].first, EnvelopeSize + ChunkPayload(c) + TailEstimate)

\* An empty buffer: Flush is a no-op.
NothingToFlush(c) == accum[c].buf = <<>>

FlushFull(c) == ~NothingToFlush(c) /\ accum[c].has /\ ChunkFull(c)
FlushWrites(c) == ~NothingToFlush(c) /\ accum[c].has /\ ~ChunkFull(c)

ChunkRecord(c) == Rec("Chunk", c, accum[c].first, ChunkPayload(c), accum[c].buf)

\* Mutants: the callback forgets to reset AccumHasData; the accumulator forgets
\* to clear its buffer.
FlushedMarkKept(c) == [accum EXCEPT ![c] = [EmptyAccum EXCEPT !.has = TRUE]]
FlushedBufferKept(c) == [accum EXCEPT ![c] = [@ EXCEPT !.has = FALSE]]

\* The timestamps are reset for the model's sake only: they are not read before
\* the next Write sets them.
Flushed(c) == [accum EXCEPT ![c] = EmptyAccum]

\* Flush returns Ok: the chunk is written, or the callback ignored a buffer
\* that AccumHasData calls empty; the buffer is cleared either way.
AccFlush(c) ==
  /\ ~NothingToFlush(c) /\ ~FlushFull(c)
  /\ IF accum[c].has
     THEN /\ WriteRecord(ChunkRecord(c))
          /\ seg' = DataNoted(c, accum[c].first, accum[c].last)
     ELSE UNCHANGED <<SegFile, files, seg>>
  /\ accum' = Flushed(c)

\* The size of the buffer after Push: an inner header and the payload more.
PushedBytes(c, m) == accum[c].bytes + InnerHeaderSize + m.len

\* Mutant: Write marks a buffer only when the mark is there already.
BufferedUnmarked(c, m) ==
  [accum EXCEPT ![c] = [@ EXCEPT !.buf = Append(@, m), !.bytes = PushedBytes(c, m),
                                 !.last = m.ts]]

\* Push appends the message; the Write that calls it has set AccumHasData.
Buffered(c, m) ==
  [accum EXCEPT ![c] = [buf   |-> Append(@.buf, m),
                        bytes |-> PushedBytes(c, m),
                        has   |-> TRUE,
                        first |-> IF @.has THEN @.first ELSE m.ts,
                        last  |-> m.ts]]

SizeExceeded(c, m) == PushedBytes(c, m) >= ChunkSizeBytes

(***************************************************************************)
(* The API.                                                                *)
(***************************************************************************)
Counting == pc = "ready" /\ calls < MaxCalls /\ calls' = calls + 1

\* A call that is refused, or has nothing to do, at once.
Refuse(op, status) ==
  /\ pc = "ready"
  /\ call' = Call(op, NoChannel, 0, 0)
  /\ Return(status)
  /\ UNCHANGED <<inner, i, memory, disk, pushed, partial, calls, faults>>

\* CloseSegment returns Ok at once when there is no file to close.
AfterClose(op) == CASE inner -> "open"
                    [] ~inner -> IF op = "Close" /\ single THEN "destroy" ELSE "manifest"

\* Mutant: Close does not flush the accumulators.
EnterCloseUnflushed(op) ==
  IF ~SegFile.open THEN AfterClose(op) ELSE IF op = "Close" THEN "index" ELSE "loop"

EnterClose(op) == IF SegFile.open THEN "loop" ELSE AfterClose(op)

Open ==
  /\ pc = "new"
  /\ pc' = "open" /\ call' = Call("Open", NoChannel, 0, 0)
  /\ UNCHANGED <<st, inner, i, memory, disk, pushed, partial, calls, faults>>

\* Mutant: one channel too many.
ChannelSlotsOneMore == Len(chans) <= MaxChannels

ChannelSlotsLeft == Len(chans) < MaxChannels

Defined(name) == \E c \in DOMAIN chans : chans[c].name = name

\* A new channel is registered before its CHANNEL_DEF is written; a name that
\* is taken gives the old channel.
DefineChannel(cfg) ==
  /\ pc = "ready"
  /\ ~Defined(cfg.name) /\ ChannelSlotsLeft
  /\ call' = Call("DefineChannel", NoChannel, 0, 0)
  /\ chans' = Append(chans, cfg)
  /\ pc' = "define"
  /\ UNCHANGED <<st, inner, i, single, SegFile, seg, accum, written, dropped, Segments,
                 disk, pushed, partial, calls, faults>>

DefineRefused(cfg) ==
  \/ Defined(cfg.name) /\ Refuse("DefineChannel", "Ok")
  \/ ~Defined(cfg.name) /\ ~ChannelSlotsLeft
     /\ Refuse("DefineChannel", "ErrorInvalidArg")

\* Write to an unknown channel.
WriteUnknown(c) == c \notin DOMAIN chans /\ Refuse("Write", "ErrorInvalidArg")

DataNeeds(len) == EnvelopeSize + len + TailEstimate

\* Write to an uncompressed channel: RotateSegment first when a limit is met.
WriteRaw(c, ts, len) ==
  /\ Counting
  /\ c \in DOMAIN chans /\ ~chans[c].comp
  /\ call' = Call("Write", c, ts, len)
  /\ pc' = IF NeedsRotation(ts, DataNeeds(len)) THEN EnterClose("Write") ELSE "data"
  /\ i' = 1
  /\ UNCHANGED <<st, inner, memory, disk, pushed, partial, faults>>

\* Write to a compressed channel: the message joins the buffer, which is
\* flushed when it is large or, with a flush interval, old enough.
WriteCompressed(c, ts, len) ==
  /\ Counting
  /\ c \in DOMAIN chans /\ chans[c].comp
  /\ call' = Call("Write", c, ts, len)
  /\ LET m == [n |-> calls', ts |-> ts, len |-> len]
     IN  /\ accum' = Buffered(c, m)
         /\ pushed' = [pushed EXCEPT ![c] = Append(@, m)]
         /\ \/ /\ SizeExceeded(c, m) \/ FlushTimer
               /\ pc' = "push" /\ UNCHANGED <<st, written>>
            \/ /\ ~SizeExceeded(c, m)
               /\ written' = [written EXCEPT ![c] = @ + 1]
               /\ Return("Ok")
  /\ UNCHANGED <<inner, i, single, chans, SegFile, seg, dropped, Segments, disk, partial, faults>>

\* Mutant: the annotation is written at once, past what the buffers hold.
AnnotateUnflushed(ts, len) ==
  /\ Counting
  /\ call' = Call("Annotate", NoChannel, ts, len)
  /\ pc' = "annot" /\ i' = 1
  /\ UNCHANGED <<st, inner, memory, disk, pushed, partial, faults>>

\* Annotate and Flush begin with FlushAllAccumulators.
Annotate(ts, len) ==
  /\ Counting
  /\ call' = Call("Annotate", NoChannel, ts, len)
  /\ pc' = "loop" /\ i' = 1
  /\ UNCHANGED <<st, inner, memory, disk, pushed, partial, faults>>

Flush ==
  /\ Counting
  /\ call' = Call("Flush", NoChannel, 0, 0)
  /\ pc' = "loop" /\ i' = 1
  /\ UNCHANGED <<st, inner, memory, disk, pushed, partial, faults>>

RotateSegment ==
  /\ ~single
  /\ Counting
  /\ call' = Call("Rotate", NoChannel, 0, 0)
  /\ pc' = EnterClose("Rotate") /\ i' = 1
  /\ UNCHANGED <<st, inner, memory, disk, pushed, partial, faults>>

RotateRefused == single /\ Refuse("Rotate", "ErrorInvalidArg")

Close ==
  /\ pc = "ready"
  /\ call' = Call("Close", NoChannel, 0, 0)
  /\ st' = "Ok" /\ pc' = EnterClose("Close") /\ i' = 1
  /\ UNCHANGED <<inner, memory, disk, pushed, partial, calls, faults>>

\* ~RecorderSession without Close.
Discard ==
  /\ pc = "ready"
  /\ call' = Call("Discard", NoChannel, 0, 0)
  /\ pc' = "destroy"
  /\ UNCHANGED <<st, inner, i, memory, disk, pushed, partial, calls, faults>>

(***************************************************************************)
(* OpenSegment: all segment state is reset before the file is created.     *)
(***************************************************************************)

\* Mutant: a rotation opens the same segment again.
NextIdxSame == IF call.op = "Open" THEN 0 ELSE seg.idx

NextIdx == IF call.op = "Open" THEN 0 ELSE seg.idx + 1

\* The path is made of the index, and an existing file is truncated.
CreateFile(idx, tail) ==
  IF \E k \in DOMAIN files : files[k].idx = idx
  THEN [files EXCEPT ![CHOOSE k \in DOMAIN files : files[k].idx = idx]
                       = NewSegmentFile(idx, tail)]
  ELSE Append(files, NewSegmentFile(idx, tail))

OpenFile ==
  /\ pc = "open" /\ Len(files) < MaxSegments
  /\ seg' = FreshSeg(NextIdx)
  /\ SegFile' = OpenedFile
  /\ files' = CreateFile(NextIdx, TRUE)
  /\ pc' = "header"
  /\ UNCHANGED <<call, st, inner, i, single, chans, accum, written, dropped, Segments,
                 manifest, pushed, partial, calls, faults>>

\* open() fails, or reserving space does: ftruncate leaves an empty file behind,
\* mmap one of zeros.
OpenFileFails ==
  /\ pc = "open" /\ faults < MaxFaults
  /\ seg' = FreshSeg(NextIdx)
  /\ SegFile' = ClosedFile
  /\ \/ UNCHANGED files
     \/ \E zeros \in BOOLEAN : files' = CreateFile(NextIdx, zeros)
  /\ Fail("ErrorIO") /\ inner' = FALSE
  /\ faults' = faults + 1
  /\ UNCHANGED <<call, i, single, chans, accum, written, dropped, Segments, manifest,
                 pushed, partial, calls>>

WriteFileHeader ==
  /\ pc = "header"
  /\ WriteBytes(FileHeaderSize)
  /\ files' = [files EXCEPT ![Cur].header = TRUE]
  /\ pc' = "start"
  /\ UNCHANGED <<call, st, inner, i, single, chans, seg, accum, written, dropped, Segments,
                 manifest, pushed, partial, calls, faults>>

StartRecord == Rec("SessionStart", NoChannel, 0, StartPayload, <<>>)

\* In single-file mode Open ends here; else the channel definitions follow.
WriteSessionStart ==
  /\ pc = "start"
  /\ WriteRecord(StartRecord)
  /\ seg' = Counted
  /\ IF single THEN Return("Ok") ELSE pc' = "defs" /\ UNCHANGED st
  /\ UNCHANGED <<call, inner, i, single, chans, accum, written, dropped, Segments, manifest,
                 pushed, partial, calls, faults>>

DefRecord(c) == Rec("ChannelDef", c, 0, DefPayload, <<>>)

\* RecordCount is 1 after SESSION_START: the next channel to emit again is
\* number RecordCount.
DefsLeftButOne == seg.count < Len(chans)    \* mutant: the last one is left out

DefsLeft == seg.count <= Len(chans)

ReemitChannelDef ==
  /\ pc = "defs" /\ DefsLeft
  /\ WriteRecord(DefRecord(seg.count))
  /\ seg' = Counted
  /\ UNCHANGED <<control, single, chans, accum, written, dropped, Segments, manifest,
                 pushed, partial, calls, faults>>

\* OpenSegment returns Ok to FlushAccumulatorWithRotation (inner), Open,
\* RotateSegment called by the client or by Write, or Write itself.
OpenSegmentReturns ==
  /\ pc = "defs" /\ ~DefsLeft
  /\ pc' = CASE inner -> "loop"
             [] ~inner /\ call.op = "Open" -> "manifest"
             [] ~inner /\ call.op = "Rotate" -> "ready"
             [] OTHER -> IF chans[call.ch].comp THEN "reflush" ELSE "data"
  /\ st' = IF call.op = "Rotate" /\ ~inner THEN "Ok" ELSE st
  /\ inner' = FALSE
  /\ UNCHANGED <<call, i, memory, disk, pushed, partial, calls, faults>>

(***************************************************************************)
(* FlushAllAccumulators, and what follows it in each of its callers.       *)
(***************************************************************************)
AllFlushedButOne == i >= Len(chans)         \* mutant: the last channel is left out

AllFlushed == i > Len(chans)

FlushLoopReturns ==
  /\ pc = "loop" /\ AllFlushed
  /\ pc' = CASE call.op = "Annotate" -> "annot"
             [] call.op = "Flush" -> "ready"
             [] OTHER -> "index"
  /\ st' = IF call.op = "Flush" THEN "Ok" ELSE st
  /\ UNCHANGED <<call, inner, i, memory, disk, pushed, partial, calls, faults>>

\* No accumulator, or an empty one.
SkipChannel ==
  /\ pc = "loop" /\ ~AllFlushed
  /\ ~chans[i].comp \/ NothingToFlush(i)
  /\ i' = i + 1
  /\ UNCHANGED <<pc, call, st, inner, memory, disk, pushed, partial, calls, faults>>

FlushChannel ==
  /\ pc = "loop" /\ ~AllFlushed
  /\ chans[i].comp
  /\ AccFlush(i)
  /\ i' = i + 1
  /\ UNCHANGED <<pc, call, st, inner, single, chans, written, dropped, Segments, manifest,
                 pushed, partial, calls, faults>>

\* FlushAccumulatorWithRotation: ErrorFull closes the segment without
\* flushing, opens the next one and tries this channel again.
RotateForChannel ==
  /\ pc = "loop" /\ ~AllFlushed
  /\ chans[i].comp /\ FlushFull(i)
  /\ inner' = TRUE
  /\ pc' = IF SegFile.open THEN "index" ELSE "open"
  /\ UNCHANGED <<call, st, i, memory, disk, pushed, partial, calls, faults>>

(***************************************************************************)
(* The rest of DefineChannel, Write and Annotate.                          *)
(***************************************************************************)
WriteChannelDef ==
  /\ pc = "define"
  /\ WriteRecord(DefRecord(Len(chans)))
  /\ seg' = Counted
  /\ Return("Ok")
  /\ UNCHANGED <<call, inner, i, single, chans, accum, written, dropped, Segments, manifest,
                 pushed, partial, calls, faults>>

CallMessage == [n |-> calls, ts |-> call.ts, len |-> call.len]

DataRecord == Rec("Data", call.ch, call.ts, call.len, <<CallMessage>>)

WriteData ==
  /\ pc = "data"
  /\ WriteRecord(DataRecord)
  /\ seg' = DataNoted(call.ch, call.ts, call.ts)
  /\ written' = [written EXCEPT ![call.ch] = @ + 1]
  /\ pushed' = [pushed EXCEPT ![call.ch] = Append(@, CallMessage)]
  /\ Return("Ok")
  /\ UNCHANGED <<call, inner, i, single, chans, accum, dropped, Segments, manifest, partial, calls,
                 faults>>

\* The flush of a compressed Write, by Push or after the rotation.
FlushWritten ==
  /\ pc \in {"push", "reflush"}
  /\ AccFlush(call.ch)
  /\ written' = [written EXCEPT ![call.ch] = @ + 1]
  /\ Return("Ok")
  /\ UNCHANGED <<call, inner, i, single, chans, dropped, Segments, manifest, pushed, partial, calls,
                 faults>>

\* Push returned ErrorFull: CloseSegment(false), WriteManifest, OpenSegment and
\* Flush again, whose ErrorFull would go to the client.
RotateForWrite ==
  /\ pc \in {"push", "reflush"}
  /\ FlushFull(call.ch)
  /\ IF pc = "push"
     THEN pc' = (IF SegFile.open THEN "index" ELSE "manifest") /\ UNCHANGED st
     ELSE Return("ErrorFull")
  /\ UNCHANGED <<call, inner, i, memory, disk, pushed, partial, calls, faults>>

AnnotationRecord ==
  Rec("Annotation", NoChannel, call.ts, LabelFields + call.len, <<CallMessage>>)

WriteAnnotation ==
  /\ pc = "annot"
  /\ WriteRecord(AnnotationRecord)
  /\ seg' = Counted
  /\ Return("Ok")
  /\ UNCHANGED <<call, inner, i, single, chans, accum, written, dropped, Segments, manifest,
                 pushed, partial, calls, faults>>

(***************************************************************************)
(* The tail of CloseSegment.                                               *)
(***************************************************************************)
IndexRecord == Rec("Index", NoChannel, seg.last, IndexPayload(seg.points), <<>>)

WriteIndex ==
  /\ pc = "index"
  /\ WriteBytes(IndexRecord.size)
  /\ files' = [AppendRecord(IndexRecord) EXCEPT ![Cur].points = seg.points,
                                                ![Cur].indexOff = SegFile.cursor]
  /\ seg' = Counted
  /\ pc' = "end"
  /\ UNCHANGED <<call, st, inner, i, single, chans, accum, written, dropped, Segments,
                 manifest, pushed, partial, calls, faults>>

EndRecord == Rec("SessionEnd", NoChannel, seg.last, EndPayloadSize, <<>>)

WriteSessionEnd ==
  /\ pc = "end"
  /\ WriteBytes(EndRecord.size)
  /\ files' = [AppendRecord(EndRecord) EXCEPT ![Cur].endTotal = seg.count]
  /\ seg' = Counted
  /\ pc' = "footer"
  /\ UNCHANGED <<call, st, inner, i, single, chans, accum, written, dropped, Segments,
                 manifest, pushed, partial, calls, faults>>

\* Mutant: the footer repeats the total of SESSION_END, which format.hpp:152 says it
\* equals; the code takes that total before SESSION_END itself is counted.
FooterOfEndTotal ==
  [written |-> TRUE, count |-> files[Cur].endTotal, indexOff |-> files[Cur].indexOff]

FooterNow == [written |-> TRUE, count |-> seg.count, indexOff |-> files[Cur].indexOff]

WriteFooter ==
  /\ pc = "footer"
  /\ WriteBytes(FileFooterSize)
  /\ files' = [files EXCEPT ![Cur].footer = FooterNow]
  /\ pc' = "seal"
  /\ UNCHANGED <<call, st, inner, i, single, chans, seg, accum, written, dropped, Segments,
                 manifest, pushed, partial, calls, faults>>

\* ClosePosix, after something was written: ftruncate cuts the preallocated tail.
\* Its result is not looked at; when it fails the zeros are left in the file.
CutTail ==
  \E left \in BOOLEAN :
     /\ files' = [files EXCEPT ![Cur].tail = left]
     /\ faults' = IF left THEN faults + 1 ELSE faults
     /\ faults' <= MaxFaults

\* Mutant: BytesWritten is read after SegFile.Close().
SegmentInfoAfterClose ==
  [idx |-> seg.idx, start |-> seg.start, end |-> seg.last, size |-> ClosedFile.cursor]

SegmentInfo == [idx |-> seg.idx, start |-> seg.start, end |-> seg.last, size |-> SegFile.cursor]

\* SegFile.Close(); then the manifest gets the segment, whatever the cut did.
SealSegment ==
  /\ pc = "seal"
  /\ SegFile' = ClosedFile
  /\ CutTail
  /\ Segments' = Append(Segments, SegmentInfo)
  /\ pc' = AfterClose(call.op)
  /\ UNCHANGED <<call, st, inner, i, single, chans, seg, accum, written, dropped, manifest,
                 pushed, partial, calls>>

(***************************************************************************)
(* WriteManifest (src/detail/manifest_io.cpp): a temporary file renamed    *)
(* over the old manifest, which on failure stays as it was.  Only Open     *)
(* looks at the result.                                                    *)
(***************************************************************************)
ManifestNow == [saved |-> TRUE, chans |-> chans, segs |-> Segments]

AfterManifest(ok) ==
  CASE call.op = "Open"  -> IF ok THEN "ready" ELSE "destroy"
    [] call.op = "Close" -> "destroy"
    [] OTHER -> "open"

WriteManifest ==
  /\ pc = "manifest"
  /\ manifest' = ManifestNow
  /\ pc' = AfterManifest(TRUE)
  /\ UNCHANGED <<call, st, inner, i, memory, files, pushed, partial, calls, faults>>

WriteManifestFails ==
  /\ pc = "manifest" /\ faults < MaxFaults
  /\ pc' = AfterManifest(FALSE)
  /\ st' = IF call.op = "Open" THEN "ErrorIO" ELSE st
  /\ faults' = faults + 1
  /\ UNCHANGED <<call, inner, i, memory, disk, pushed, partial, calls>>

\* m_Impl.reset(): the MappedFile's destructor closes the file, if it is open;
\* buffered messages are gone.
Destroy ==
  /\ pc = "destroy"
  /\ SegFile' = ClosedFile
  /\ IF SegFile.open /\ SegFile.cursor > 0 THEN CutTail ELSE UNCHANGED <<files, faults>>
  /\ accum' = [c \in ChannelIds |-> EmptyAccum]
  /\ pc' = "closed"
  /\ UNCHANGED <<call, st, inner, i, single, chans, seg, written, dropped, Segments, manifest,
                 pushed, partial, calls>>

(***************************************************************************)
(* EnsureAvailable at any of the writes above.                             *)
(***************************************************************************)
Needed ==
  CASE pc = "header" -> FileHeaderSize
    [] pc = "start"  -> StartRecord.size
    [] pc \in {"defs", "define"} -> EnvelopeSize + DefPayload
    [] pc = "loop"   -> ChunkRecord(i).size
    [] pc \in {"push", "reflush"} -> ChunkRecord(call.ch).size
    [] pc = "data"   -> DataRecord.size
    [] pc = "annot"  -> AnnotationRecord.size
    [] pc = "index"  -> IndexRecord.size
    [] pc = "end"    -> EndRecord.size
    [] pc = "footer" -> FileFooterSize

Writing ==
  \/ pc \in {"header", "start", "define", "data", "annot", "index", "end", "footer"}
  \/ pc = "defs" /\ DefsLeft
  \/ pc = "loop" /\ ~AllFlushed /\ chans[i].comp /\ FlushWrites(i)
  \/ pc \in {"push", "reflush"} /\ FlushWrites(call.ch)

\* It returns false: ErrorIO, whatever the call does about it.  OpenSegment that
\* fails in a rotation leaves its segment open, without the definitions that are
\* still missing; later calls write into it.
WriteFails ==
  /\ Writing
  /\ CanRefuse(SegFile, Needed)
  /\ faults' = IF SegFile.open THEN faults + 1 ELSE faults
  /\ faults' <= MaxFaults
  /\ SegFile' = GrowFailed(SegFile)
  /\ chans' = IF pc = "define" THEN SubSeq(chans, 1, Len(chans) - 1) ELSE chans
  /\ dropped' = IF pc = "data" THEN [dropped EXCEPT ![call.ch] = @ + 1] ELSE dropped
  /\ partial' = IF pc \in {"header", "start", "defs"} THEN partial \cup {Cur} ELSE partial
  /\ Fail("ErrorIO") /\ inner' = FALSE
  /\ UNCHANGED <<call, i, single, seg, accum, written, Segments, disk, pushed, calls>>

\* It returns true on a region that a failed growth left unmapped: the copy to
\* WritePtr() is undefined and stops the process.
MemoryFault ==
  /\ Writing
  /\ Fits(SegFile, Needed) /\ ~SegFile.base
  /\ pc' = "dead"
  /\ UNCHANGED <<call, st, inner, i, memory, disk, pushed, partial, calls, faults>>

(***************************************************************************)
(* The specification.                                                      *)
(***************************************************************************)
Client ==
  \/ Open
  \/ \E cfg \in ChannelConfigs : DefineChannel(cfg) \/ DefineRefused(cfg)
  \/ \E c \in ChannelIds : WriteUnknown(c)
  \/ \E c \in ChannelIds, ts \in Timestamps, len \in Lengths :
        WriteRaw(c, ts, len) \/ WriteCompressed(c, ts, len)
  \/ \E ts \in AnnotationTimes, len \in Lengths : Annotate(ts, len)
  \/ Flush \/ RotateSegment \/ RotateRefused \/ Close \/ Discard

Step ==
  \/ OpenFile \/ OpenFileFails \/ WriteFileHeader \/ WriteSessionStart
  \/ ReemitChannelDef \/ OpenSegmentReturns
  \/ FlushLoopReturns \/ SkipChannel \/ FlushChannel \/ RotateForChannel
  \/ WriteChannelDef \/ WriteData \/ FlushWritten \/ RotateForWrite \/ WriteAnnotation
  \/ WriteIndex \/ WriteSessionEnd \/ WriteFooter \/ SealSegment
  \/ WriteManifest \/ WriteManifestFails \/ Destroy
  \/ WriteFails \/ MemoryFault

Next == Client \/ Step

Spec == Init /\ [][Next]_vars

\* A call runs to its end: the recorder has no thread of its own and waits for
\* nothing, so its steps are taken as long as there is one.
FairSpec == Spec /\ WF_vars(Step)
==============================================================================
