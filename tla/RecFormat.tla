------------------------------ MODULE RecFormat ------------------------------
(***************************************************************************)
(* The on-disk format of a .rec segment (include/recplay/format.hpp): the  *)
(* sizes of its fixed-size structures, and segment files and their records *)
(* as TLA+ records.  Sizes are the code's own byte counts; payloads,       *)
(* checksums and names are abstracted to their lengths.                    *)
(***************************************************************************)
EXTENDS Integers, Sequences

FileHeaderSize  == 64   \* sizeof(format::FileHeader)
EnvelopeSize    == 20   \* sizeof(format::RecordEnvelope)
ChunkHeaderSize == 9    \* sizeof(format::ChunkHeader)
IndexHeaderSize == 4    \* sizeof(format::IndexHeader)
IndexEntrySize  == 18   \* sizeof(format::IndexEntry)
FileFooterSize  == 32   \* sizeof(format::FileFooter)
InnerHeaderSize == 12   \* [ts:8][len:4] before a message inside a chunk
EndPayloadSize  == 16   \* SESSION_END: [total_records:8][duration_ns:8]
StartPayload    == 46   \* SESSION_START: the JSON blob of a 1.0.0 recorder
DefPayload      == 21   \* CHANNEL_DEF: fixed fields and a one-letter name
LabelFields     == 6    \* ANNOTATION: the two length fields

RecordOps == {"SessionStart", "ChannelDef", "Data", "Chunk", "Index",
              "Annotation", "SessionEnd"}

\* Channel identifiers start at 1 here (the code's id plus one), so that they
\* index Mfst.Channels; NoChannel is INVALID_CHANNEL_ID.
NoChannel == 0

\* A message, or an annotation: n is the number of the API call that gave it.
Messages == [n: Nat, ts: Nat, len: Nat]

\* A seek point of an INDEX record.
SeekPoints == [ch: Nat, ts: Nat, off: Nat]

\* A record of a segment file: its envelope, its offset and size in the file,
\* and the messages in it (one for DATA and ANNOTATION, several for CHUNK).
Records == [op: RecordOps, ch: Nat, ts: Nat, off: Nat, size: Nat \ {0},
            msgs: Seq(Messages)]

\* What is in a segment file: whether the FileHeader was written, the records,
\* the points of the last INDEX record and its offset, the total of the last
\* SESSION_END, the FileFooter, and whether the preallocated
\* zero tail is still there.
Footers == [written: BOOLEAN, count: Nat, indexOff: Nat]
NoFooter == [written |-> FALSE, count |-> 0, indexOff |-> 0]
SegmentFiles == [idx: Nat, header: BOOLEAN, recs: Seq(Records),
                 points: Seq(SeekPoints), indexOff: Nat, endTotal: Nat,
                 footer: Footers, tail: BOOLEAN]

NewSegmentFile(idx, tail) ==
  [idx |-> idx, header |-> FALSE, recs |-> <<>>, points |-> <<>>, indexOff |-> 0,
   endTotal |-> 0, footer |-> NoFooter, tail |-> tail]

HasFooter(f) == f.footer.written

IndexPayload(points) == IndexHeaderSize + IndexEntrySize * Len(points)
==============================================================================
