------------------------- MODULE RecorderProperties -------------------------
(***************************************************************************)
(* What must hold of the recorder (module Recorder).                       *)
(***************************************************************************)
EXTENDS Recorder, SequencesExt

PCs == {"new", "ready", "closed", "dead", "destroy", "open", "header", "start", "defs", "loop",
        "define", "data", "push", "reflush", "annot", "index", "end", "footer", "seal",
        "manifest"}

Ops == {"None", "Open", "DefineChannel", "Write", "Annotate", "Flush", "Rotate", "Close",
        "Discard"}

Statuses == {"Ok", "ErrorIO", "ErrorInvalidArg", "ErrorFull"}

Accums == [buf: Seq(Messages), bytes: Nat, has: BOOLEAN, first: Nat, last: Nat]

SegmentStates == [idx: Nat, count: Nat, start: Nat, last: Nat, hasData: BOOLEAN,
                  points: Seq(SeekPoints)]

SegmentInfos == [idx: Nat, start: Nat, end: Nat, size: Nat]

Channels == [name: STRING, comp: BOOLEAN]

\* Every variable of the writer has its type in every state of a call.
TypeOK ==
  /\ pc \in PCs /\ st \in Statuses /\ inner \in BOOLEAN /\ i \in Nat \ {0}
  /\ call \in [op: Ops, ch: Nat, ts: Nat, len: Nat]
  /\ single \in BOOLEAN
  /\ chans \in Seq(Channels) /\ Len(chans) <= MaxChannels
  /\ SegFile \in MappedFiles
  /\ seg \in SegmentStates
  /\ accum \in [ChannelIds -> Accums]
  /\ written \in [ChannelIds -> Nat] /\ dropped \in [ChannelIds -> Nat]
  /\ Segments \in Seq(SegmentInfos)
  /\ files \in Seq(SegmentFiles)
  /\ manifest \in [saved: BOOLEAN, chans: Seq(Channels), segs: Seq(SegmentInfos)]
  /\ pushed \in [ChannelIds -> Seq(Messages)]
  /\ partial \subseteq Nat /\ calls \in Nat /\ faults \in Nat

(***************************************************************************)
(* Messages.                                                               *)
(***************************************************************************)
\* The pieces one after the other: FlattenSeq, whose argument TLC would compute
\* again at each of its uses in the definition.
Joined(pieces) == CHOOSE s \in {FlattenSeq(p) : p \in {pieces}} : TRUE

\* The messages of channel c in a record, in a file and on disk, in file order.
IsData(r) == r.op \in {"Data", "Chunk"}
HoldsData(r, c) == IsData(r) /\ r.ch = c
MessagesOf(r, c) == IF HoldsData(r, c) THEN r.msgs ELSE <<>>
InFile(f, c) == Joined([j \in DOMAIN f.recs |-> MessagesOf(f.recs[j], c)])
Stored(c) == Joined([k \in DOMAIN files |-> InFile(files[k], c)])

\* AccumHasData, AccumFirstTs and AccumLastTs, kept by Write and by the flush
\* callback, agree with the accumulator's own buffer: a mark that is missing
\* would make the callback drop the buffer, a wrong time would misfile it.
MarksMatchBuffer ==
  \A c \in ChannelIds :
     LET a == accum[c] IN
     /\ a.has <=> a.buf # <<>>
     /\ a.has => a.first = Head(a.buf).ts /\ a.last = Last(a.buf).ts

\* Through rotations, failures and retries, the segment files followed by the
\* buffer hold each channel's messages once each, in the order of Write.
NothingLostOrReordered ==
  pc # "closed" => \A c \in ChannelIds : Stored(c) \o accum[c].buf = pushed[c]

\* The Annotate comment (writer.cpp:693): what was written before an annotation
\* comes before it on disk, and what is written later comes after it.
Places == UNION {{k} \X DOMAIN files[k].recs : k \in DOMAIN files}
RecordAt(p) == files[p[1]].recs[p[2]]
Place(n, ops) ==
  {p \in Places : RecordAt(p).op \in ops /\ \E m \in ToSet(RecordAt(p).msgs) : m.n = n}
Before(p, q) == p[1] < q[1] \/ (p[1] = q[1] /\ p[2] < q[2])

AnnotationsInOrder ==
  \A a \in 1..calls : \A p \in Place(a, {"Annotation"}) :
     \A c \in ChannelIds : \A m \in ToSet(pushed[c]) :
        IF m.n < a
        THEN \E q \in Place(m.n, {"Data", "Chunk"}) : Before(q, p)
        ELSE \A q \in Place(m.n, {"Data", "Chunk"}) : Before(p, q)

\* After Flush or Annotate returned Ok no accumulator holds a message.
FlushEmptiesBuffers ==
  pc = "ready" /\ call.op \in {"Flush", "Annotate"} /\ st = "Ok"
     => \A c \in ChannelIds : accum[c].buf = <<>>

(***************************************************************************)
(* Segment files.                                                          *)
(***************************************************************************)
\* The segments CloseSegment finished: files with a footer that were closed.
Sealed(k) == HasFooter(files[k]) /\ ~(SegFile.open /\ k = Cur)
SealedFiles ==
  FlattenSeq([k \in DOMAIN files |-> IF Sealed(k) THEN <<files[k]>> ELSE <<>>])

\* A finished file that was also cut: its footer is where a reader looks for it.
Complete(f) == HasFooter(f) /\ ~f.tail

\* RecordCount, the footers and the records themselves agree, also when a
\* close failed half-way and was tried again.
CountsMatchRecords ==
  /\ SegFile.open => seg.count = Len(files[Cur].recs)
  /\ \A k \in DOMAIN files : HasFooter(files[k]) => files[k].footer.count = Len(files[k].recs)

\* Sizes and offsets: each record starts where the one before it ends.
RecordsEnd(f) ==
  IF f.recs = <<>> THEN FileHeaderSize ELSE Last(f.recs).off + Last(f.recs).size

\* Mfst.Segments lists exactly the finished files, in order, with their index and
\* the bytes that were written to them; the manifest on disk is a prefix of it.
\* A listed file is longer than its entry says, and its footer not at its end,
\* only after a system call failed: CloseSegment does not look at the cut.
ManifestListsSealedFiles ==
  /\ Len(Segments) = Len(SealedFiles)
  /\ \A k \in DOMAIN Segments :
        /\ Segments[k].idx = SealedFiles[k].idx
        /\ Segments[k].size = RecordsEnd(SealedFiles[k]) + FileFooterSize
  /\ \A k \in DOMAIN files : Sealed(k) /\ files[k].tail => faults > 0
  /\ IsPrefix(manifest.segs, Segments)

\* A segment can be read on its own: in every file whose OpenSegment did not fail
\* half-way, the definition of a channel comes before its first message, also
\* when the segment was opened in the middle of a flush.
DefinedBeforeUse ==
  \A k \in DOMAIN files \ partial : \A j \in DOMAIN files[k].recs :
     IsData(files[k].recs[j]) =>
        \E d \in 1..(j-1) : /\ files[k].recs[d].op = "ChannelDef"
                            /\ files[k].recs[d].ch = files[k].recs[j].ch

DataOf(f, c) == {j \in DOMAIN f.recs : HoldsData(f.recs[j], c)}

\* Seek points refer to records of their channel, and every data record has a
\* point at or before it that is less than an interval older.
SeekPointsServe(f, points) ==
  /\ \A p \in ToSet(points) :
        \E j \in DataOf(f, p.ch) : f.recs[j].off = p.off /\ f.recs[j].ts = p.ts
  /\ \A c \in ChannelIds : \A j \in DataOf(f, c) :
        \E p \in ToSet(points) :
           /\ p.ch = c /\ p.off <= f.recs[j].off
           /\ p.off = f.recs[j].off \/ (f.recs[j].ts - p.ts) % Word < IndexIntervalNs

IndexServesSeeks ==
  /\ SegFile.open => SeekPointsServe(files[Cur], seg.points)
  /\ \A k \in DOMAIN files : HasFooter(files[k]) => SeekPointsServe(files[k], files[k].points)

\* While each channel's timestamps do not decrease, the manifest's time range of
\* a segment covers the messages in it, whatever the order between channels.
Monotone(s) == \A a, b \in DOMAIN s : a < b => s[a].ts <= s[b].ts

RangesCoverMessages ==
  (\A c \in ChannelIds : Monotone(pushed[c])) =>
     \A k \in DOMAIN Segments : \A j \in DOMAIN SealedFiles[k].recs :
        LET r == SealedFiles[k].recs[j] IN
        IsData(r) => \A m \in ToSet(r.msgs) :
                        Segments[k].start <= m.ts /\ m.ts <= Segments[k].end

\* MaxSegmentBytes: a DATA or CHUNK record that is not the first of its segment
\* leaves room below the limit for what closes the segment after it: SESSION_END,
\* the envelope of the INDEX and the footer.  The payload of the INDEX, annotations
\* and channel definitions are not in the code's estimate; they can exceed the limit.
SizesBounded ==
  MaxSegmentBytes > 0 /\ ~single =>
     \A k \in DOMAIN files : \A j \in DOMAIN files[k].recs :
        LET r == files[k].recs[j] IN
        IsData(r) /\ (\E b \in 1..(j-1) : IsData(files[k].recs[b])) =>
           r.off + r.size + (EnvelopeSize + EndPayloadSize) + EnvelopeSize + FileFooterSize
             <= MaxSegmentBytes

\* "flush all pending chunks" (writer.hpp:73): when Close returned Ok, every
\* message the writer took is in a segment file.
CloseKeepsMessages ==
  pc = "closed" /\ call.op = "Close" /\ st = "Ok" =>
     \A c \in ChannelIds : Stored(c) = pushed[c]

\* While no system call fails, Close returning Ok also means that all segment
\* files are complete and that the manifest on disk names them.
CloseKeepsEverything ==
  faults = 0 /\ pc = "closed" /\ call.op = "Close" /\ st = "Ok" =>
        /\ \A c \in ChannelIds : Stored(c) = pushed[c]
        /\ \A k \in DOMAIN files : Complete(files[k])
        /\ ~single => manifest = ManifestNow

(***************************************************************************)
(* The inductive invariant behind the proofs (module RecorderProof).       *)
(***************************************************************************)
\* Which calls can be at which step, and that a Write works on a channel.
Flushers == {"Annotate", "Flush", "Rotate", "Write", "Close"}

CallInv ==
  /\ pc = "new" => ~inner /\ call.op = "None"
  /\ pc \in {"push", "reflush", "data"} => call.op = "Write"
  /\ pc = "define" => call.op = "DefineChannel"
  /\ pc = "loop" => call.op \in Flushers
  /\ pc \in {"open", "header", "start", "defs"} =>
        call.op \in IF inner THEN Flushers ELSE {"Open", "Rotate", "Write"}
  /\ pc \in {"index", "end", "footer", "seal"} =>
        call.op \in IF inner THEN Flushers ELSE {"Rotate", "Write", "Close"}
  /\ pc = "manifest" => call.op \in {"Open", "Rotate", "Write", "Close"}
  /\ call.op = "Write" /\ pc # "ready" => call.ch \in DOMAIN chans

\* The segment file that is open is the one created last; it keeps its
\* preallocated tail and gets its footer right before it is closed.  Segment
\* indices only grow, so that no file is created twice.
FileInv ==
  /\ SegFile.open =>
        /\ files # <<>> /\ files[Cur].tail
        /\ HasFooter(files[Cur]) <=> pc = "seal"
  /\ pc = "seal" => SegFile.open
  /\ ~SegFile.open => SegFile.reserved = 0
  /\ \A k \in DOMAIN files : files[k].idx <= seg.idx
  /\ pc \in {"new", "open"} /\ call.op \in {"None", "Open"} => files = <<>>

\* The inductive invariant: with it, RecordCount, the footers and the records
\* agree, and a finished file is never touched again.
Inv == TypeOK /\ CallInv /\ FileInv /\ CountsMatchRecords

(***************************************************************************)
(* Steps.                                                                  *)
(***************************************************************************)
FilesGrow ==
  \A k \in DOMAIN files :
     /\ k \in DOMAIN files' /\ IsPrefix(files[k].recs, files'[k].recs)
     /\ ~(SegFile.open /\ k = Cur) => files'[k] = files[k]

\* A file that was closed never changes again, and the open one only grows: no
\* rotation creates a segment file a second time, no failure makes a later call
\* write into a file that is finished.
FilesOnlyGrow == [][FilesGrow]_vars

\* Every call returns: neither the rotate-and-retry loop of
\* FlushAccumulatorWithRotation nor a rotation inside Write runs for ever.
Resting == pc \in {"new", "ready", "closed", "dead"}
CallsReturn == (~Resting) ~> Resting

(***************************************************************************)
(* The recorder implements per-channel logs.                               *)
(***************************************************************************)
FlushSucceeded == pc = "ready" /\ call.op \in {"Flush", "Annotate"} /\ st = "Ok"

Log == INSTANCE ChannelLog WITH
         Channel <- ChannelIds,
         Message <- [n: 1..MaxCalls, ts: Timestamps, len: Lengths],
         log     <- pushed,
         stored  <- [c \in ChannelIds |-> Stored(c)],
         synced  <- FlushSucceeded

ImplementsChannelLog == Log!Spec
==============================================================================
