--------------------------- MODULE ReaderProperties ---------------------------
(***************************************************************************)
(* What must hold of Reader.                                               *)
(***************************************************************************)
EXTENDS Reader

TypeOK ==
  /\ isOpen \in BOOLEAN /\ moved \in BOOLEAN /\ pc \in {"ready", "walk"}
  /\ DOMAIN Counts = Channels
  /\ CurSeg \in 1..(Len(Segs) + 1) /\ CurOffset \in Nat \ {0}
  /\ CurSeg <= Len(Segs) => CurOffset <= Len(RecsOf(Segs[CurSeg])) + 1
  /\ chunk \in [left: Seq(AnyMessage), due: Nat] /\ Len(chunk.left) <= chunk.due
  /\ CorruptCount \in Nat /\ calls \in 0..MaxCalls
  /\ last \in AnyMessage /\ got \in Seq(AnyMessage) /\ out \in Seq(AnyMessage)

\* The reader delivers the messages of the session in the order of the files,
\* which need not be that of time, each NextMessage the one after the one
\* before, and no call but Seek, or Read with a start, moves the position
\* otherwise: no chunk is resumed at the wrong place, cut short, or delivered
\* twice (NextMessage, reader.cpp:288-429).
Stream == INSTANCE MessageStream
            WITH Streams   <- Seq(AnyMessage),
                 all       <- AllMessages,
                 pos       <- Len(AllMessages) - Len(Remaining) + 1
ImplementsStream == Stream!Spec

\* Every call of NextMessage comes back, whatever is damaged in the files.
CallsReturn == (pc = "walk") ~> (pc = "ready")

-----------------------------------------------------------------------------
\* Of two data records, the one at j in segment s comes first.
Precedes(s, j, u, k) ==
  /\ IsData(RecsOf(Segs[s])[j]) /\ IsData(RecsOf(Segs[u])[k])
  /\ s < u \/ (s = u /\ j < k)

InTimeOrder(msgs) == \A a, b \in DOMAIN msgs : a < b => msgs[a].ts <= msgs[b].ts

\* Every channel is recorded in order of time.
ChannelsInOrder ==
  \A a, b \in DOMAIN AllMessages :
    a < b /\ AllMessages[a].ch = AllMessages[b].ch => AllMessages[a].ts <= AllMessages[b].ts

\* "Read the next message in timestamp order across all channels"
\* (reader.hpp:164): a pass from the start over channels that are each in order
\* of time gives the messages of all of them in order of time.
DeliversInTimeOrder == ~moved /\ ChannelsInOrder => InTimeOrder(out)

\* A session in order of time: every segment has data, and a message is later
\* than those of the records before it, or as late if that is an uncompressed
\* message in the same segment.
InOrder ==
  /\ \A s \in DOMAIN Segs : DataTimes(RecsOf(Segs[s])) # {}
  /\ \A s \in DOMAIN Segs : \A j \in DOMAIN RecsOf(Segs[s]) : InTimeOrder(RecsOf(Segs[s])[j].msgs)
  /\ \A s, u \in DOMAIN Segs : \A j \in DOMAIN RecsOf(Segs[s]), k \in DOMAIN RecsOf(Segs[u]) :
       Precedes(s, j, u, k) =>
         LET r == RecsOf(Segs[s])[j]
             q == RecsOf(Segs[u])[k]
             end == r.msgs[Len(r.msgs)].ts
         IN  end < q.ts \/ (end = q.ts /\ r.op = "Data" /\ s = u)

Later(t) == {m \in ToSet(AllMessages) : m.ts >= t}

\* "Seek the read cursor to the first message with TimestampNs >= targetNs"
\* (reader.hpp:156): no later message is behind the cursor after a Seek.
SeekFindsFirst ==
  call.op = "Seek" /\ st = "Ok" => Later(call.start) \subseteq ToSet(Remaining)

\* The same where it can be kept: in a session in order of time.  With an
\* interval of 0 a channel may have several points at one time, and Find may
\* take the later.
SeeksFind    == InOrder /\ IndexIntervalNs > 0
SeekFindsAll == call.op = "Seek" /\ SeeksFind => SeekFindsFirst

\* What the latest Read asks for.
Asked(m) == ~BeforeStart(m) /\ ~FilteredOut(m) /\ (call.end > 0 => m.ts <= call.end)
Selected(msgs) ==
  FlattenSeq([k \in DOMAIN msgs |-> IF Asked(msgs[k]) THEN <<msgs[k]>> ELSE <<>>])

\* In a session in order of time a Read that its callback does not stop gives
\* the callback exactly the messages in the time range and of the channels
\* asked for: of the whole session when a start is given, of what the cursor
\* has left otherwise (Read, reader.cpp:611-637).
ReadSelects ==
  call.op = "Read" /\ st = "Ok" /\ pc = "ready" /\ ~call.stopped
    /\ (IF call.start > 0 THEN SeeksFind ELSE InOrder)
    => got = Selected(IF call.start > 0 THEN AllMessages ELSE call.from)

AtEnd == isOpen /\ pc = "ready" /\ CurSeg > Len(Segs) /\ chunk = NoChunk

\* The records opened, in order.
AllRecords == FlattenSeq([s \in DOMAIN Segs |-> RecsOf(Segs[s])])

\* What NextMessage gives of a record.
Given(r) == IF r.state = "ok" THEN r.msgs ELSE <<>>

\* The messages that the headers promise and no read can give.
LostIn(recs, ch) ==
  SumFunction([k \in DataAt(recs, ch) |-> recs[k].cnt - Len(Given(recs[k]))])

GivenOf(msgs, ch) == {k \in DOMAIN msgs : msgs[k].ch = ch}

Damaged ==
  UNION {{<<s, k>> : k \in {k \in DOMAIN RecsOf(Segs[s]) : RecsOf(Segs[s])[k].state # "ok"}} :
         s \in DOMAIN Segs}

\* A full pass gives as many messages of each channel as MessageCount says,
\* less those of damaged records, and counts every damaged record once: what
\* ScanSegmentAtOpen counts (reader.cpp:222-245) without looking at checksums
\* is what NextMessage later gives or reports.
FullPassAccounts ==
  AtEnd /\ ~moved =>
    /\ \A ch \in Channels :
         Counts[ch] = Cardinality(GivenOf(out, ch)) + LostIn(AllRecords, ch)
    /\ CorruptCount = Cardinality(Damaged)

\* Every message can be matched to a channel the reader knows, with a manifest
\* that lists no channels, too: Merge fails on a channel it cannot find
\* (splitter.cpp:359).
ChannelsKnown == \A k \in DOMAIN out : out[k].ch \in Channels
==============================================================================
