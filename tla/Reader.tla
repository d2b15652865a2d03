-------------------------------- MODULE Reader --------------------------------
(***************************************************************************)
(* ReaderSession (src/reader.cpp): opening a session directory or a single *)
(* segment file, reading forward, seeking, and filtered reads with a       *)
(* callback.  Each iteration of NextMessage's loop is a step.              *)
(***************************************************************************)
EXTENDS SessionFiles

CONSTANTS Disks,      \* the sessions a client may find: see MCReader
          Targets,    \* timestamps given to Seek and Read; 0 is "not given"
          Filters,    \* channel sets given to Read; {} is "all channels"
          MaxCalls    \* bound: client calls in a behaviour

ASSUME CallsAssumption == MaxCalls \in Nat
ASSUME TargetsAssumption == Targets \subseteq Nat
ASSUME DisksAssumption ==
  \A d \in Disks :
     /\ d.single \in BOOLEAN /\ (d.single => 1 \in DOMAIN d.files)
     /\ \A k \in DOMAIN d.files : IsSegmentFile(d.files[k])
     /\ d.manifest.segs \in Seq([file: Nat, start: Nat, end: Nat])
\* A file has no INDEX record, or the one that the recorder or Recover writes.
ASSUME IndexAssumption ==
  \A d \in Disks : \A k \in DOMAIN d.files :
     d.files[k].points \in {<<>>, PointsOfRecords(d.files[k].recs)}

VARIABLES
  disk,          \* [single, files, manifest]; it does not change
  isOpen,        \* m_Impl is set
  Channels,      \* ids in Mfst.Channels
  Segs,          \* the segments opened: [file, points, start, end]
  Counts,        \* ChTotalCount
  Annots,        \* timestamps of Annots
  CurSeg, CurOffset,
  chunk,         \* inner messages left, and how many the header still promises
  CorruptCount,
  pc,            \* "ready" for a call, or "walk": in NextMessage
  call,          \* the latest call and its arguments
  st,            \* what it returned
  last,          \* the MessageView of the latest NextMessage
  got,           \* messages the callback of the latest Read took
  out,           \* all messages NextMessage gave since Open
  moved,         \* Seek was called since Open
  calls          \* number of calls made, at most MaxCalls

session == <<isOpen, Channels, Segs, Counts, Annots>>
cursor  == <<CurSeg, CurOffset, chunk>>
vars    == <<disk, session, cursor, CorruptCount, pc, call, st, last, got, out, moved, calls>>

NoMessage == Message(NoChannel, 0, 0)
NoChunk   == [left |-> <<>>, due |-> 0]     \* InChunk = false
NoCall    == [op |-> "None", start |-> 0, end |-> 0, filter |-> {}, from |-> <<>>, stopped |-> FALSE]

Init ==
  /\ disk \in Disks
  /\ isOpen = FALSE /\ Channels = {} /\ Segs = <<>> /\ Counts = <<>> /\ Annots = <<>>
  /\ CurSeg = 1 /\ CurOffset = FirstOffset /\ chunk = NoChunk /\ CorruptCount = 0
  /\ pc = "ready" /\ call = NoCall /\ st = "none"
  /\ last = NoMessage /\ got = <<>> /\ out = <<>> /\ moved = FALSE /\ calls = 0

RecsOf(seg) == disk.files[seg.file].recs

-----------------------------------------------------------------------------
(***************************************************************************)
(* What is left to read: the rest of the current chunk, of the current     *)
(* segment and of the later ones.                                          *)
(***************************************************************************)
MessagesFrom(s, k) ==
  IF s > Len(Segs) THEN <<>>
  ELSE MessagesOf(From(RecsOf(Segs[s]), k))
       \o FlattenSeq([i \in 1..(Len(Segs) - s) |-> MessagesOf(RecsOf(Segs[s + i]))])

AllMessages == MessagesFrom(1, FirstOffset)
Remaining   == chunk.left \o MessagesFrom(CurSeg, CurOffset)

-----------------------------------------------------------------------------
(***************************************************************************)
(* Calls and how they end.                                                 *)
(***************************************************************************)
Counting == pc = "ready" /\ calls < MaxCalls /\ calls' = calls + 1
Return(status) == pc' = "ready" /\ st' = status

Refuse(op, status) ==
  /\ Counting
  /\ call' = [NoCall EXCEPT !.op = op]
  /\ last' = NoMessage
  /\ Return(status)
  /\ UNCHANGED <<disk, session, cursor, CorruptCount, got, out, moved>>

NotOpen ==
  /\ ~isOpen
  /\ \/ \E op \in {"Seek", "Read"} : Refuse(op, "ErrorNotOpen")
     \/ Refuse("ReadNext", "false")

NoCallback == isOpen /\ Refuse("Read", "ErrorInvalidArg")

-----------------------------------------------------------------------------
(***************************************************************************)
(* Open.                                                                   *)
(***************************************************************************)
DefsIn(recs) == {recs[k].ch : k \in {k \in DOMAIN recs : recs[k].op = "ChannelDef"}}

\* Mutant: a reader with a manifest takes no channels from the segments.
ChannelsOfManifestOnly(known, files) ==
  IF known = {} THEN UNION {DefsIn(f.recs) : f \in files} ELSE known

\* ScanSegmentAtOpen adds the channels the manifest does not have.
ChannelsAfterScan(known, files) == known \cup UNION {DefsIn(f.recs) : f \in files}

CountOneChunk(r) == 1                       \* mutant: a chunk is one message
\* What a data record adds to ChTotalCount; checksums are not looked at.
CountOf(r) == IF r.op = "Chunk" THEN r.cnt ELSE 1

DataAt(recs, ch) == {k \in DOMAIN recs : IsData(recs[k]) /\ recs[k].ch = ch}
CountsIn(recs, ch) == SumFunction([k \in DataAt(recs, ch) |-> CountOf(recs[k])])

AnnotationsIn(recs) ==
  LET notes == SelectSeq(recs, LAMBDA r : r.op = "Annotation")
  IN  [k \in DOMAIN notes |-> notes[k].ts]

\* A segment after its scan; a range of zero is taken from the manifest.
Scanned(entry) ==
  LET recs == disk.files[entry.file].recs
  IN  [file |-> entry.file, points |-> disk.files[entry.file].points,
       start |-> IF ScanStart(recs) = 0 THEN entry.start ELSE ScanStart(recs),
       end   |-> IF ScanEnd(recs) = 0 THEN entry.end ELSE ScanEnd(recs)]

\* ReadManifest.
ManifestStatus ==
  CASE disk.manifest.state = "missing" -> "ErrorNotFound"
    [] disk.manifest.state = "empty"   -> "ErrorCorrupted"
    [] OTHER                           -> "Ok"

\* The segments to open: the file itself, or those of the manifest whose
\* files are there.
SingleEntry == <<[file |-> 1, start |-> 0, end |-> 0]>>
IfThere(e) == IF e.file \in DOMAIN disk.files THEN <<e>> ELSE <<>>
Listed ==
  LET segs == disk.manifest.segs
  IN  IF disk.single THEN SingleEntry ELSE FlattenSeq([k \in DOMAIN segs |-> IfThere(segs[k])])

OpenStatus ==
  IF disk.single THEN IF disk.files[1].header THEN "Ok" ELSE "ErrorNotFound"  \* taken for a directory
  ELSE IF ManifestStatus # "Ok" THEN ManifestStatus
  ELSE IF Listed = <<>> THEN "ErrorNotFound"
  ELSE IF \A k \in DOMAIN Listed : disk.files[Listed[k].file].header THEN "Ok" ELSE "ErrorCorrupted"

OpenFails ==
  \/ isOpen /\ Refuse("Open", "ErrorInvalidArg")
  \/ ~isOpen /\ OpenStatus # "Ok" /\ Refuse("Open", OpenStatus)

Open ==
  /\ ~isOpen /\ OpenStatus = "Ok" /\ Counting
  /\ isOpen' = TRUE
  /\ LET files == {disk.files[Listed[k].file] : k \in DOMAIN Listed}
         recs  == FlattenSeq([k \in DOMAIN Listed |-> disk.files[Listed[k].file].recs])
     IN  /\ Channels' = ChannelsAfterScan(IF disk.single THEN {} ELSE disk.manifest.chans, files)
         /\ Counts' = [c \in Channels' |-> CountsIn(recs, c)]
         /\ Annots' = AnnotationsIn(recs)
  /\ Segs' = [k \in DOMAIN Listed |-> Scanned(Listed[k])]
  /\ CurSeg' = 1 /\ CurOffset' = FirstOffset /\ chunk' = NoChunk /\ CorruptCount' = 0
  /\ call' = [NoCall EXCEPT !.op = "Open"]
  /\ last' = NoMessage /\ got' = <<>> /\ out' = <<>> /\ moved' = FALSE
  /\ Return("Ok")
  /\ UNCHANGED disk

Close ==
  /\ isOpen /\ Counting
  /\ isOpen' = FALSE /\ Channels' = {} /\ Segs' = <<>> /\ Counts' = <<>> /\ Annots' = <<>>
  /\ CurSeg' = 1 /\ CurOffset' = FirstOffset /\ chunk' = NoChunk /\ CorruptCount' = 0
  /\ call' = [NoCall EXCEPT !.op = "Close"]
  /\ last' = NoMessage /\ got' = <<>> /\ out' = <<>> /\ moved' = FALSE
  /\ Return("Ok")
  /\ UNCHANGED disk

-----------------------------------------------------------------------------
(***************************************************************************)
(* Seek.                                                                   *)
(***************************************************************************)
SegmentFor(t) ==
  LET covering == {k \in DOMAIN Segs : Segs[k].start <= t}
  IN  IF covering = {} THEN 1 ELSE Max(covering)

\* The offsets one call of Find per channel may give.
Picks(points, t) ==
  LET found == {c \in Channels : Find(points, c, t) # {}}
  IN  {f \in [found -> {points[k].off : k \in DOMAIN points}] :
         \A c \in found : f[c] \in Find(points, c, t)}

\* Mutant: the furthest of the channels' points.
FurthestOffsets(points, t) ==
  {IF DOMAIN f = {} THEN FirstOffset ELSE Max(Range(f)) : f \in Picks(points, t)}

SeekOffsets(points, t) ==
  {IF DOMAIN f = {} THEN FirstOffset ELSE Min(Range(f)) : f \in Picks(points, t)}

ChunkAfterSeekKept == chunk                 \* mutant: the chunk is not dropped
ChunkAfterSeek == NoChunk

MoveTo(t) ==
  /\ CurSeg' = SegmentFor(t)
  /\ CurOffset' \in SeekOffsets(Segs[SegmentFor(t)].points, t)
  /\ chunk' = ChunkAfterSeek
  /\ moved' = TRUE

Seek(t) ==
  /\ isOpen /\ Counting
  /\ MoveTo(t)
  /\ call' = [NoCall EXCEPT !.op = "Seek", !.start = t]
  /\ last' = NoMessage
  /\ Return("Ok")
  /\ UNCHANGED <<disk, session, CorruptCount, got, out>>

-----------------------------------------------------------------------------
(***************************************************************************)
(* ReadNext and Read begin.  ReadChannel is Read with a filter of one      *)
(* channel.                                                                *)
(***************************************************************************)
ReadNext ==
  /\ isOpen /\ Counting
  /\ call' = [NoCall EXCEPT !.op = "ReadNext"]
  /\ pc' = "walk" /\ last' = NoMessage
  /\ UNCHANGED <<disk, session, cursor, CorruptCount, st, got, out, moved>>

Read(start, end, filter) ==
  /\ isOpen /\ Counting
  /\ call' = [op |-> "Read", start |-> start, end |-> end, filter |-> filter,
              from |-> Remaining, stopped |-> FALSE]
  /\ IF start > 0 THEN MoveTo(start) ELSE UNCHANGED <<cursor, moved>>
  /\ pc' = "walk" /\ last' = NoMessage /\ got' = <<>>
  /\ UNCHANGED <<disk, session, CorruptCount, st, out>>

-----------------------------------------------------------------------------
(***************************************************************************)
(* What the caller of NextMessage does with a message.                     *)
(***************************************************************************)
AtOrPastEnd(m) == call.end > 0 /\ m.ts >= call.end      \* mutant: the end is exclusive
PastEnd(m)     == call.end > 0 /\ m.ts > call.end
BeforeStart(m) == call.start > 0 /\ m.ts < call.start
FilteredOut(m) == call.filter # {} /\ m.ch \notin call.filter

GiveToReadNext == call.op = "ReadNext" /\ Return("Ok") /\ UNCHANGED <<call, got>>

EndRead(m) == call.op = "Read" /\ PastEnd(m) /\ Return("Ok") /\ UNCHANGED <<call, got>>

SkipInRead(m) ==
  /\ call.op = "Read" /\ ~PastEnd(m) /\ (BeforeStart(m) \/ FilteredOut(m))
  /\ UNCHANGED <<pc, st, call, got>>

\* The callback takes the message, and may ask to stop.
Callback(m) ==
  /\ call.op = "Read" /\ ~PastEnd(m) /\ ~BeforeStart(m) /\ ~FilteredOut(m)
  /\ got' = Append(got, m)
  /\ \/ UNCHANGED <<pc, st, call>>
     \/ Return("Ok") /\ call' = [call EXCEPT !.stopped = TRUE]

Yield(m) ==
  /\ last' = m
  /\ out' = Append(out, m)
  /\ GiveToReadNext \/ EndRead(m) \/ SkipInRead(m) \/ Callback(m)

-----------------------------------------------------------------------------
(***************************************************************************)
(* NextMessage, an iteration at a time.                                    *)
(***************************************************************************)
Walking == pc = "walk" /\ UNCHANGED <<disk, session, moved, calls>>
Onward  == Walking /\ UNCHANGED <<pc, call, st, last, got, out>>

TakeInner ==
  /\ Walking /\ chunk.due > 0 /\ chunk.left # <<>>
  /\ chunk' = IF chunk.due = 1 THEN NoChunk
              ELSE [left |-> Tail(chunk.left), due |-> chunk.due - 1]
  /\ Yield(Head(chunk.left))
  /\ UNCHANGED <<CurSeg, CurOffset, CorruptCount>>

AfterShortChunkWait == chunk                \* mutant: the rest is waited for
AfterShortChunk == NoChunk

\* The header promised more messages than the chunk holds.
StopChunk ==
  /\ Onward /\ chunk.due > 0 /\ chunk.left = <<>>
  /\ chunk' = AfterShortChunk
  /\ UNCHANGED <<CurSeg, CurOffset, CorruptCount>>

AtSegmentEnd == CurOffset > Len(RecsOf(Segs[CurSeg]))
InStream     == chunk.due = 0 /\ CurSeg <= Len(Segs)
Current      == RecsOf(Segs[CurSeg])[CurOffset]

OffsetInNextKept == CurOffset               \* mutant: the offset is not set back
OffsetInNext == FirstOffset

NextSegment ==
  /\ Onward /\ InStream /\ AtSegmentEnd
  /\ CurSeg' = CurSeg + 1
  /\ CurOffset' = OffsetInNext
  /\ UNCHANGED <<chunk, CorruptCount>>

OverRecord == InStream /\ ~AtSegmentEnd /\ CurOffset' = CurOffset + 1 /\ UNCHANGED CurSeg

SkipDamaged ==
  /\ Onward /\ OverRecord
  /\ Current.state = "crc"
  /\ CorruptCount' = CorruptCount + 1
  /\ UNCHANGED chunk

CorruptAfterPackedMissed == CorruptCount    \* mutant: only checksums count
CorruptAfterPacked == CorruptCount + 1

\* DecompressChunk fails.
SkipPacked ==
  /\ Onward /\ OverRecord
  /\ Current.op = "Chunk" /\ Current.state = "packed"
  /\ CorruptCount' = CorruptAfterPacked
  /\ UNCHANGED chunk

SkipOther ==
  /\ Onward /\ OverRecord
  /\ Current.state = "ok" /\ ~IsData(Current)
  /\ UNCHANGED <<chunk, CorruptCount>>

YieldData ==
  /\ Walking /\ OverRecord
  /\ Current.state = "ok" /\ Current.op = "Data"
  /\ Yield(Current.msgs[1])
  /\ UNCHANGED <<chunk, CorruptCount>>

YieldFirstInner ==
  /\ Walking /\ OverRecord
  /\ Current.state = "ok" /\ Current.op = "Chunk"
  /\ chunk' = IF Current.cnt = 1 THEN NoChunk
              ELSE [left |-> Tail(Current.msgs), due |-> Current.cnt - 1]
  /\ Yield(Head(Current.msgs))
  /\ UNCHANGED CorruptCount

EndOfSegments ==
  /\ Walking /\ chunk.due = 0 /\ CurSeg > Len(Segs)
  /\ last' = NoMessage
  /\ Return(IF call.op = "Read" THEN "Ok" ELSE "false")
  /\ UNCHANGED <<cursor, CorruptCount, call, got, out>>

-----------------------------------------------------------------------------
Client ==
  \/ Open \/ OpenFails \/ Close \/ NotOpen \/ NoCallback \/ ReadNext
  \/ \E t \in Targets : Seek(t)
  \/ \E start, end \in Targets, filter \in Filters : Read(start, end, filter)

\* NextMessage's loop runs on without waiting for anything.
NextMessage ==
  \/ TakeInner \/ StopChunk \/ NextSegment \/ SkipDamaged \/ SkipPacked \/ SkipOther
  \/ YieldData \/ YieldFirstInner \/ EndOfSegments

Next == Client \/ NextMessage

Spec == Init /\ [][Next]_vars

\* A client may stop calling; the reader never stops inside a call.
FairSpec == Spec /\ WF_vars(NextMessage)
==============================================================================
