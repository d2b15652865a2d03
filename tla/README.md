# A TLA+ model of RecordReplayLibrary

RecordReplayLibrary records timestamped messages on named channels into `.rec`
segment files, and reads, splits, merges and repairs those recordings. This
directory holds TLA+ models of its core, the TLC configurations that check them
on small instances, and proofs, checked by TLAPS, that the main safety
properties hold for every size of the system. Paths below are relative to the
repository; the modules translate its C++ code, function by function.

## 1. Inventory of the system

| Component | State it keeps | Operations | What makes it correct |
|---|---|---|---|
| Recorder session (`src/writer.cpp`) | channels, current segment (index, record count, time range, seek points), per-channel marks of buffered data, counters, manifest | Open, DefineChannel, Write, Annotate, Flush, RotateSegment, Close | no message lost, doubled or reordered; segments self-contained; counts, sizes and ranges true; limits respected; every call returns |
| Chunk accumulator (`src/detail/chunk_accumulator.cpp`) | buffered messages of one compressed channel | Push, Flush, with a callback into the recorder | the buffer is cleared exactly when its chunk is stored |
| Memory-mapped file (`src/detail/file_map.cpp`) | descriptor, mapping, reservation, cursor | OpenRead, OpenWrite, EnsureAvailable, Advance, Close | copies stay in a mapping that the file backs; the file is cut at the cursor |
| Seek index (`src/detail/index_builder.cpp`) | seek points, last point per channel | MaybeAdd, Serialise, Reset; Load, Find | points refer to records, none further apart than the interval |
| Manifest (`src/detail/manifest_io.cpp`, `src/session.cpp`) | `session.manifest`, replaced by rename | WriteManifest, ReadManifest, accessors | lists exactly the finished segments |
| Reader session (`src/reader.cpp`) | open segments, position, current chunk, filters | Open (with a scan of segments), Seek, NextMessage, Read, ReadChannel, Annotations | every stored message is returned once; a seek misses none |
| Splitter and merger (`src/splitter.cpp`) | none between calls; files | Split, Merge, Validate, Recover | output holds exactly the selected messages; recovery is safe to interrupt and to repeat |
| Network capture (`examples/record_net_streams`) | a recorder shared by threads under a mutex, a stop flag | capture threads | per-channel order, no write after Close, shutdown ends |
| Viewer (`apps/viewer`) | a reader, a playback clock | load, seek, play | shows the state of one session at a time |
| CRC, byte order, version | none | pure functions | tested by the repository |

How they interact. A client calls the recorder from one thread (the library is
not thread-safe, `docs/architecture-gaps-and-roadmap.md` section 3). `Write` to a
compressed channel pushes into the channel's accumulator; a full accumulator
calls back into the recorder, which may refuse with `ErrorFull` because the
segment is full, whereupon whoever called the accumulator closes the segment,
opens the next one and flushes again. Closing a segment flushes *all*
accumulators first, so that a rotation can start another rotation inside it.
Every byte goes through the memory-mapped file, which can fail at any write.
The reader, the splitter and the viewer meet the recorder only through the files
and the manifest; Merge and Split are a reader per source and a recorder per
output; Recover works on the files alone. The capture program shares one recorder
between threads and supplies the lock the library does not have.

What is hard. Rotation and flushing call each other; every write can fail and
leave a call half done, after which the client may go on calling; the marks the
recorder keeps of each buffer live outside the accumulator; annotations bypass
the buffers; the manifest is written at some rotations and not at others. The
reader spreads its position over a segment, an offset and a chunk that was
decompressed earlier, and must get past everything a crash or a bad disk leaves.
A seek goes by an index whose points are the first messages of chunks. Recover
replaces the files it reads and can be interrupted and repeated. The capture
threads take timestamps before the lock and share a maximum without it. The
complete list, with source lines and the properties aimed at each, is under
`hazards` in `PROJECT.json`.

## 2. Modules

| Module | Models | Remarks |
|---|---|---|
| `RecFormat` | `format.hpp`: sizes, records, segment files as values | sizes are the code's byte counts |
| `FileMap` | `MappedFile`, POSIX write side, as a value with operations | shared by the two models below |
| `SeekIndex` | `IndexBuilder`; `SeekIndex`: sort and `Find` | time differences wrap at `Word` |
| `Recorder` | the recorder with its accumulators | the core |
| `RecorderProperties` | what must hold of `Recorder`; its inductive invariant | extends `Recorder` |
| `ChannelLog` | the abstract specification: per-channel logs | implemented by `Recorder` |
| `MCRecorder` | instances for TLC | |
| `MappedFile` | a mapped file, the file under it and one client | own state machine and properties |
| `SessionFiles` | segment files as those who read them see them | extends `SeekIndex`; shared by the two below |
| `Reader`, `ReaderProperties` | `ReaderSession`; what must hold of it | |
| `MessageStream` | the abstract specification: a sequence with a position | implemented by `Reader` |
| `Recover` | `Splitter::Recover` and `Validate` on a directory, with crashes | |
| `Splitter` | `Splitter::Merge` and `Split` over streams and recorders | |
| `NetCapture` | the capture program: main thread, workers, mutex, atomics | |
| `MCReader`, `MCRecover`, `MCSplitter`, `MCNetCapture` | instances for TLC | |
| `SequenceFacts` | lemmas on sequences, `FlattenSeq`, sums and least elements | used by four of the proof modules |
| `SessionFilesProof` | lemmas on segment files: records, and the seek points a scan gives | used by the proofs of reader and Recover |
| `RecorderProof` | proofs about the recorder: its state; its messages and files | |
| `ReaderProof`, `RecoverProof`, `SplitterProof`, `MappedFileProof`, `NetCaptureProof` | proofs about these components | |

### Recorder and the code

The variables `chans`, `SegFile`, `seg`, `accum`, `written`, `dropped`,
`Segments` are the members of `WriterImpl` (and `Buffer` of each
`ChunkAccumulator::Impl`); `files` and `manifest` are the disk. `pushed` is a
history variable: the messages the writer took. `pc`, `call`, `st`, `inner` and
`i` hold a call in progress: `pc` the next step, `call` the API call and its
arguments, `st` the status returned last, `i` the loop variable of
`FlushAllAccumulators`, `inner` whether the segment is being rotated by
`FlushAccumulatorWithRotation`. A stack is not needed: `CloseSegment(false)`
never flushes, so that nesting is at most one deep.

An API call takes one step per write to a file, so that each write can fail
(`WriteFails`, `OpenFileFails`, `WriteManifestFails`) with exactly the state the
code has at that point, and the client can go on calling afterwards. A step that
copies into a region which an earlier failed growth left unmapped ends in
`MemoryFault`, a final state. Memory allocation failures are not modelled.

Abstractions. A message is the number of its call, its timestamp and length. A
chunk's compressed size is `PackedPercent` of its buffer (100 is the raw
fallback). The wall clock behind `ChunkFlushIntervalMs` is a nondeterministic
choice at each push. Names, schemas and metadata have fixed lengths
(`StartPayload`, `DefPayload`, `LabelFields`). Checksums are left out. Calls with
null data, and calls on a session that is not open, return at once without
touching state and are left out, as is a second `Open` on the same directory. In
`WriteManifest`, the copy made when rename fails (other platforms) is left out:
on failure the old manifest stays. The constant `GrowBytes` is the granularity
by which a file grows, 64 MiB in the code (`file_map.hpp:33`).

Two failures the code does not look at are part of the model.

- The `ftruncate` that cuts the preallocated tail of a file when it is closed
  (`file_map.cpp:267`) can fail: `CutTail` leaves the tail, and `SealSegment`
  lists the segment with the bytes written all the same. The file is then longer
  than its entry says and its footer is not at its end.
- A write of `OpenSegment` can fail between two channel definitions, which need
  not fit into a first mapping (there may be 0xFFFE channels, `format.hpp:32`, a
  schema may have 64 KiB and metadata any size). The segment stays open, later calls write into it, and a later close
  seals and lists it. `partial` is the history of these segments. `recplay.hpp:28`
  says that each segment "is independently readable even without the manifest";
  a segment in `partial` is not, since it may have messages of channels it does
  not define. `recorder_faults` grows files by 192 bytes, so that this
  happens there.

`SESSION_END` stores the record count before it is counted itself
(`writer.cpp:358`) and the footer stores it after that (`writer.cpp:371`), so that
the first is one less; `format.hpp:152` says that the two are equal. The model
keeps both numbers.

### MappedFile and the code

`file` is the object (`m_Base` as mapped or not, `m_Reserved`, `m_Cursor`,
`m_Fd`), `size` the length of the file on disk. The client is the pattern of
`WriteRecord`: ensure, copy, advance, and on failure carry on with another
record. Each system call of `GrowPosix` and `ClosePosix` can fail.

### SessionFiles, Reader and the code

A segment file is a sequence of records; an offset is the number of a record,
which keeps the order of byte offsets. A record is intact, fails its checksum,
or is a chunk that passes it and does not decompress; a chunk's header can promise more
messages than it holds. Damage is in payloads: envelopes are intact, and so are
INDEX records and definitions. A zero tail, a truncated last record and the
footer hold nothing any reader gets past and are the end of the sequence
(`Recover` reads the zeros of a preallocated tail as a record: `Zeros` in `MCRecover`).

`Reader`'s variables are `ReaderImpl`'s members; `CurSeg`, `CurOffset` and
`chunk` (`InChunk`, the decompressed chunk and the two counters in it) are the
position. `Open` is one step: it refuses, or scans every segment. Each turn of
`NextMessage`'s loop is a step (`"walk"`), and the caller of `NextMessage`
(`ReadNext`, `Read`, `ReadChannel`) disposes of a message in the step that finds
it. `out` and `got` are history: what was given since `Open` and in the current
`Read`. What the code does and the model keeps, where a reader of the headers
would expect otherwise:

- a missing segment file is passed over, one whose header is bad makes `Open` fail;
- `Read` with no start goes on at the cursor (`reader.hpp:61` speaks of the
  beginning of the session);
- `Annotations()` is in file order, not in order of time (`reader.hpp:196`), and
  includes annotations whose checksum is wrong;
- `ReadNext` and `Read` give messages in the order of the files, not "in
  timestamp order across all channels" (`reader.hpp:164`, `reader.hpp:174`):
  finding 4;
- counts are taken at open, without looking at checksums.

A segment in the recorder's `partial` is outside the model of the reader and of
`Recover`: `IsSegmentFile` has each channel defined before its messages.

### Recover and the code

`files`, `copies` and `manifest` are the directory; the other variables are the
locals of `Recover`. Writing the copy is one step, because nobody looks at a
copy before it is complete or abandoned, and each place where it can fail is an
outcome of `WriteCopyFails`. `copy_file` over the segment file is two steps with
any prefix in between, where a crash or a failure leaves the file `torn`. It may
throw (`ReplaceFails`), and so may the removal of the copy after it
(`RemoveFails`, when the segment is replaced but does not count as recovered);
both lead to the handler, which removes the copy (`HandlerRemoves`) or throws in
its turn out of `Recover` (`HandlerThrows`, `st` is `"exception"`): the manifest
then stays as it was, and the segments that are left are not looked at. The
handler's failure is not counted by `MaxFaults`, so that it is reached with the
one that led there.

Records that fail their checksum are copied, although `splitter.hpp:204` says
that they are skipped. The entry's times are those of the record envelopes, and a
chunk's is that of its first message: after `Recover` the end of an entry can be
before the last message of the segment, and `session.hpp:33`, "Timestamp of the
last DATA record written to this segment", holds of the envelopes only.

`Validate` is one step: it writes nothing. It checks
headers, footers, checksums and the footer's count; it neither compares the
index with the records nor the manifest with the directory.

### Splitter and the code

A source is what a reader gives: channels, a sequence of messages, annotations.
An output is what its recorder took. Any call on a recorder can fail, with the
clean-up of that error path, and the progress callback can stop the stream at any
message. `Best` is the linear search for the smallest timestamp. Left out:
names of output directories (two channels whose sanitised names are equal get
one directory in `Split`), the byte counts of the results, and what the output of
a failed `Merge` has defined. `ChannelIds` that name one channel twice give two
outputs, of which the first gets the messages; the model keeps what each recorder
was given, not what is then in the directory the two share.

### NetCapture and the code

`pc`, `ts`, `cur` are a worker's place in `run_udp`, `run_tcp` or
`run_can_peak_stub`, the timestamp `write_payload` took, and what
`update_last_ts` last saw; `main` is the main thread's place; `g_stop`,
`running`, `lastWriteTs` are the atomics and `writeMutex` the mutex. The two
stores that end the capture (`main.cpp:577`) are two steps, `Wait` and `Stop`;
they are relaxed, so that a worker may see either of them first. A step is
what lies between two accesses to shared state, so that all interleavings of
timestamps, lock, load, exchange and count are there. `log` is what the recorder
was given. Sockets connect, fail, time out, are closed by the peer or deliver, at
any moment. A worker whose `bind` fails exits alone. The clock is one variable
that only goes forward. A spurious failure of `compare_exchange_weak` changes
nothing and is a stutter.

## 3. Runs

Deadlock checking is off in all runs: a session or a program ends, and the bounds
on calls end it as well.

| Run | Shows | Instance |
|---|---|---|
| `recorder_faults` | order, marks, annotations, counts, manifest, index, ranges, append-only files, and refinement of `ChannelLog`, with failures | one plain and one compressed channel, both file modes, 3 writing calls, 2 faults, timestamps 1 and 6 with a 5 ns limit, 370-byte segments, growth by 192 bytes |
| `recorder_returns` | termination of every call, room for what closes a segment, a clean Close keeps everything; no failures | up to two channels of three configurations, 3 writing calls, 8-byte messages, 338-byte segments, 40-byte chunks |
| `mapped_file` | mapping, region and final length | granularity 4, requests 1, 2, 3, 7, reservations 0, 4, 9, at most 16 bytes, 3 faults |
| `reader` | nothing lost by reads and seeks, counts and corruption, refinement of `MessageStream` (the messages in the order of the files), termination | 3 calls on about 130 sessions of up to two segments with up to two data records each: closed, cut, damaged, with missing or bad files and odd manifests |
| `recover` | nothing lost; a recovered session validates, its index serves every record and its entries start before their messages | directories of one or two files (closed, damaged, cut, bad) under five manifests; 3 calls, 2 crashes, 1 fault |
| `splitter` | order, completeness, names, selection, annotations, clean-up | up to two sources with two channels and up to three messages, colliding names, 3 output channels, 1 fault |
| `net_capture` | exclusion, the end annotation, the shared maximum, the counters, and that a capture ends | a UDP, a TCP and a CAN worker, 2 clock ticks, 2 payloads, 1 failing call |
| `mapped_file_unmapped`, `recorder_close_loses`, `reader_seek`, `reader_time_order`, `recover_unlisted` | a violation each: findings 1 to 5 | as the run of the same module, those of the reader on sound sessions only |

Why the bounds are enough. In `recorder_faults` a segment of 370 bytes holds the
header, the definitions and one or two data records, so that three calls reach
rotation by size, by duration (1 then 6), by the client, inside a flush for
another channel, and twice in one call. In `recorder_returns` a segment with one
channel has room for two chunks and a segment with two channels for none, so that
a chunk that does not fit a fresh segment exercises the rule that an empty
segment takes any record. Chunks of 80 bytes hold one message without a flush and
two with one. A file that grows by 192 or 256 bytes grows inside a segment, so
that growth fails at different records; with 192 it also fails while
`OpenSegment` writes. Two faults allow a failure, a retry that fails
at another place, and a third try. `MaxSegments` is never reached in the
fault-free run, where termination is checked.

For the reader, two segments and two records in each are the least that have a
chunk behind, at and beyond a seek target, a segment boundary inside a time
range, and a damaged record before an intact one; three calls are an `Open` and
two that meet in the state the first leaves, among them a seek or a filtered read
out of the middle of a chunk. For `Recover`, two files are the least with one in
the manifest and one not, and three calls with two crashes let a crash fall into
the repair of a directory an earlier crash left. For `Merge`, two sources with
equal, increasing and decreasing timestamps, one of them the largest there is.
For `NetCapture`, two payloads are two threads in `update_last_ts` at once, or
one thread twice; the proofs remove this bound. Bounds in guards are `MaxCalls`,
`MaxSegments`, `MaxFaults`, `MaxCrashes`, `MaxTime`, `MaxPayloads`, and nothing
else.

Fairness. The recorder's and the reader's `FairSpec` have weak fairness of the
steps inside a call: the code has one thread there and waits for nothing, so a
call that has a next step takes it. There is no fairness on the client, which may
stop calling. `CallsReturn` rules out an endless rotate-and-retry in the one and
a cursor that does not move on in the other. `NetCapture`'s `FairSpec` has weak
fairness of the main thread and of each worker, which is the scheduler's promise
to a thread that can run; sockets have a receive timeout, so a worker in `recv`
can always go on. The mutex needs no more than that, since nobody holds it over
a blocking call and a worker gets it only a bounded number of times after the
stop flag is set. There is no fairness of the clock, of signals, of ENTER, or of
anything that arrives. `CaptureEnds` is therefore stated from a duration or a
pressed ENTER: a signal alone does not end a capture that waits in `getline`
(`main.cpp:574`), and the model has no fairness that would.

### Properties of the recorder

- `MarksMatchBuffer`: the recorder's marks agree with each accumulator.
- `NothingLostOrReordered`: files plus buffer are what was pushed, in order, at
  every moment before destruction, also between the steps of failing calls.
- `AnnotationsInOrder`, `FlushEmptiesBuffers`: annotations and flushes separate
  earlier from later messages.
- `CountsMatchRecords`, `ManifestListsSealedFiles`, `DefinedBeforeUse`,
  `IndexServesSeeks`, `RangesCoverMessages`, `SizesBounded`: what the files,
  their footers, their indexes and the manifest say agrees.
  `ManifestListsSealedFiles`: the list names exactly the finished segments, with
  their index and the bytes written to them; that a file is still longer than
  that, with zeros after its footer, happens only after a system call failed.
  `DefinedBeforeUse` is about the segments that are not in `partial`.
  `RangesCoverMessages`
  assumes that each channel's own timestamps do not decrease: a chunk records
  only its first and last, and the code gives a wrong range otherwise.
  `SizesBounded`: with a size limit, every DATA or CHUNK record but the first of
  its segment leaves room for SESSION_END, the envelope of INDEX and the footer.
  It says no more, because the code's estimate leaves out INDEX's payload,
  annotations and definitions, and an empty segment takes any record.
- `FilesOnlyGrow`: finished segment files are never touched.
- `CloseKeepsEverything`: while no system call has failed, a Close that returned
  `Ok` leaves every message in a complete file that the manifest on disk lists.
- `CallsReturn`: termination.
- `ImplementsChannelLog`: refinement of `ChannelLog` with `log <- pushed`,
  `stored <- Stored`, `synced <-` a successful Flush or Annotate.

### Properties of the reader

- `ImplementsStream`: the reader is a `MessageStream` with `all <- AllMessages`
  and `pos` the place before `Remaining`: each read delivers the next intact
  message in the order of the files, whatever lies between. That this is not the
  order of time is finding 4 (`DeliversInTimeOrder`).
- `SeekFindsAll`: after a Seek no message at or after the target is behind the
  cursor, where the code can keep that (`SeeksFind`). The session is in order of
  time: every segment has data, and each message is later than those of the
  records before it, or as late if that is an uncompressed one in the same
  segment. And `IndexIntervalNs` is not 0, which `session.hpp:116` allows: a
  channel then has a point for each record, two of them may have one time, and
  the sort of `Load` and `Find` may choose the later, with the earlier message at
  the target behind it. Without these assumptions the property is
  `SeekFindsFirst`, which the code violates (finding 3).
- `ReadSelects`: a Read gives its callback exactly the messages in the range and
  of the channels asked for, in a session in order of time; with a start it seeks
  first, and the interval must not be 0.
- `FullPassAccounts`: what a full pass delivers of a channel, and what the headers
  of its records promise and the records cannot give, add up to the count taken at
  open; each damaged record is counted once.
- `ChannelsKnown`: every message has a channel the reader knows.
- `CallsReturn`: termination on every session.

### Properties of Recover, the splitter and the capture

- `NothingLost`: Recover, crashed, failing and repeated, keeps every record of
  every file, except that a file is torn when a crash or a failure hits the call
  that replaces it; after a first crash there the copy has everything.
- `RecoveredValidates`: what a completed Recover leaves passes Validate, also the
  second time.
- `RecoveredSeekable`: each listed file's entry covers the times of its data
  records, and no message of a chunk in order of time is before its start, by
  which Seek chooses the segment; the points lead to data records of their channel
  and time, and a record has a point of its own or is less than an interval past
  one of its channel. The end of an entry is no bound of the messages (above).
- `MergeOrdered`: ordered sources give an ordered output, equal times by source.
- `MergeKeepsMessages`: every message of every source once, none before those
  that precede it in the source, in the channel of its name. A source whose next
  message has the largest timestamp there is gives no more: the search never
  picks it (`splitter.cpp:339`).
- `SplitSelects`: an output has exactly the messages of its channel that were
  read, in order; of outputs for one channel only the first has them.
- `NotesKept`: an output that succeeded has each annotation exactly as often as
  the sources have it, in the order of the source (Split) or of time (Merge); the
  instance merges sources with one annotation twice.
- `OutputsClosed`: no error path leaves an output open.
- `OneInRecorder`: at most one thread in the recorder, only while it is open.
- `EndIsLast`, `LastWriteIsLatest`, `StatsMatch`, `CaptureEnds`: the end of a
  capture, the shared maximum, the counters, and that the program ends.

The type invariants are checked by `recorder_returns`, `reader`, `recover` and
`splitter`, and proved.

### Findings

1. `MappedFile` forgets that a failed growth unmapped its region
   (`src/detail/file_map.cpp:243`): a later, smaller request is granted.
2. `Close` after a rotation that failed to open its file returns `Ok` and drops
   buffered messages (`src/writer.cpp:333`).
3. `Seek` can go past messages at or after its target (`src/reader.cpp:587`,
   against `reader.hpp:156`): a chunk's seek point has the time of its first
   message, and the latest point not after the target may lie behind a chunk that
   still holds the target; a trailing segment without data attracts every seek.
4. `ReadNext` is not in order of time across channels (`src/reader.cpp:319`,
   against `reader.hpp:164`): a chunk stands in the file where it was flushed,
   after later messages of other channels, although each channel is recorded in
   order of time.
5. `Recover` goes by a manifest that lists any segment (`src/splitter.cpp:511`):
   the segment that was open in a crash is not listed and not repaired, while
   `splitter.hpp:204` says all segment files are.

## 4. Proofs

Every theorem holds for all values of the constants under the named assumptions
of the modules. The theorems are listed in `PROJECT.json`; this section says from
what they are proved and why that is needed.

### The recorder: `RecorderProof`

`MarksMatchBuffer` is inductive together with `TypeOK` and `CallInv`.
`CountsMatchRecords` is not inductive: that a footer written now counts the
records in the file needs the open file to be the last one created and
`RecordCount` to be its length; that a *finished* file keeps its count needs that
no later call opens it again, which rests on segment indices only growing
(`FileInv`); and that needs to know which calls can be at which step (`CallInv`:
an index of 0 is taken only by `Open`, before any file exists). `Inv` is the
conjunction of these four. Five lemmas, one per way a step can touch the files
(`QuietStep`, `AppendStep`, `CurrentFileStep`, `NewFileStep`, `ClosedFileStep`),
carry it, and each action is an instance of one of them. `FilesOnlyGrow` follows
from `Inv` and the same lemmas.

The second half of the module is about messages and files. `LogStep` is a case
split of `Next` by what a step does to the messages: takes one into a buffer,
writes one in a DATA record, empties one buffer into a CHUNK, creates a file, drops
the buffers at destruction, or none of these.
`NothingLostOrReordered` is kept by each kind; `Stored` is a `FlattenSeq` over
the files, and `SequenceFacts` has what that gives for a sequence that grows at its
end.

`FlushEmptiesBuffers` needs more, because the flush loop can rotate the segment
in the middle, and the rotation comes back to the loop: `BufferInv` (only
compressed, defined channels have a buffer), `InnerInv` (which steps a nested
rotation can be at) and `LoopInv` (the loop leaves no buffer behind it, also while
it rotates). With these, `RecorderImplementsLogs` proves the refinement
`Spec => ImplementsChannelLog` step by step, with `ArgsInv` for the arguments of the
call under way. `AnnotationsInOrder` compares call numbers in the files and needs
that no stored number is ahead of the calls made (`NumbersInv`) and that an
annotation is written with all buffers empty (`LoopInv` again).

For the files, `DiskStep` says of each step which part of which file it changes.

- `ManifestAlwaysLists`: `CursorInv` has the cursor of the open file at the end
  of its records, so that the size noted is what was written to the file; a tail is
  left only by a step that counts a fault.
- `IndexAlwaysServes`: `PointsInv` has the points in the file equal those in
  memory between INDEX and the seal; `MaybeAdd` is proved to serve a record more.
- `RangesAlwaysCover`: `SegRangeInv` for the segment that is open. A chunk gives
  its first and last timestamps only, and `MarksMatchBuffer` makes them those of
  its messages, in order by the hypothesis `AllMonotone`.
- `AlwaysDefinedBeforeUse`: a segment that is opened while messages wait in
  buffers must get all definitions before one of those messages. `KnownInv` says
  which definitions the open file has at each step: while `OpenSegment` writes, as
  many as it has counted (`OpeningInv`); afterwards all, unless it failed, which
  puts the file into `partial`. Nothing is assumed of the number of channels or
  the size of a mapping. `SingleInv` excludes a second segment in a single-file
  session.
- `CloseAlwaysKeeps`: `FaultlessInv`: as long as no system call failed, the file
  is open wherever a record is written, all other files are complete, and past the
  flush loop of Close no buffer holds a message.
- `SizesAlwaysBounded`: `RoomInv`: at the step that writes a DATA record, the room
  that `NeedsRotation` found is still there, although flushes and rotations lie
  between the two.

### The reader: `ReaderProof`

`DisksAssumption` says what a disk is: files of records as the recorder writes
them, damaged, cut or missing (`IsSegmentFile`). It asks that a channel is defined
in a segment before its data, which `AlwaysDefinedBeforeUse` proves of the recorder
for segments not in `partial`, and damaged payloads do not change in the model
(damage leaves envelopes, and with them a definition's channel, intact).

`DiskInv` ties the segments opened to the files. `PlaceInv` says that the cursor
is at a record, or past the last one of its segment, and that what is left to
read, `Remaining`, is an end of `AllMessages`. The hard step is a turn of
`NextMessage` (`NextMessagePasses`): over a damaged record, into a chunk whose
header promises more than it holds, out of a segment without messages,
`Remaining` loses exactly the message that is given. `CursorStaysInSession` is the type
invariant; `ReaderImplementsStream` the refinement of `MessageStream`. `GaveInv`
(what was given and `Remaining` make `AllMessages`, unless the client has sought)
yields `FullPassAlwaysGivesAll`. `ChannelsAlwaysKnown` rests on `DefsKnown`: Open takes the
definitions of every segment, listed in the manifest or not.

What a Seek finds takes one assumption more, `IndexAssumption`: a file has the
points of a scan of its records, as the recorder and Recover write them, or
none. The argument is about
the records behind the new cursor: each of them ends before the target
(`SeekLands`), so that by `EndOfPlace` what is left contains all the rest.

- `EarlierSegment`: a segment sought starts at the time of one of its data
  records, and the segments before it end earlier. A segment without data, whose
  start is 0 or comes from the manifest, would spoil this; hence `InOrder`.
- `EarlierRecord`: a record before the offset is before a point that is not after
  the target, so it ends by the target at the latest. If it ended at the target,
  it would be an uncompressed message there, its channel would have a point at or
  before it (`Served`), `Find` would have found a point of the channel, and the
  offset, the least of all, would be at most that of a point at the same time but
  of a later record. `PointIsFirst` excludes it: two points of a channel are an
  interval apart, so that a point is that of the first record at its time.

`AnswerInv` carries this to the end of the call (`SoughtInv`) and, for a Read, says
at each turn of the loop that the messages asked for are those the callback has
and those still among `Remaining` (`ReadInv`). That Read may stop at the first
message past the end needs `AllInOrder`: in a session in order of time the
messages are. `SeekAlwaysFindsAll` and `ReadAlwaysSelects` follow.

`FullPassAlwaysAccounts` compares two passes over the files: the scan at Open,
which looks at headers only, and the reads. `CountsInv` says that the counts are
sums over `AllRecords`, the records of all segments in a row; `CountsBalance`, an
induction over the records, that such a sum is the number of messages the records
give and of those they withhold; `AllOfRecords` that the messages of the session are
those of `AllRecords`, so that `FullPassAlwaysGivesAll` names them. `CorruptInv`
says that the reader has counted the damaged records before its cursor, each once,
at every iteration of the loop.

### Recover: `RecoverProof`

From `DirectoriesAssumption`: finitely many segment files, each closed, cut or
damaged as `IsSegmentFile` has it, under any manifest. Nothing is asked of the
agreement of the two: the manifest may list a file twice, or one that is not
there.

- What Recover writes is settled first, for any segment file. `ScanServes`
  (`SessionFilesProof`): the points of a scan lead to data records of their channel
  and time, with one at or before each data record, and two of a channel are an
  interval apart; `PointsOfRecords` is a fold, which `PointsFold` and `FoldExists`
  turn into a function on sets of positions. `RewrittenRepairs`: the copy is
  complete and indexed and has the records and the scanned range of the file it is
  a copy of. `RangeCovers`, with `MinAndMax` (a finite set of numbers has a least
  and a greatest), is what that range says of records and messages.
- `TypesAlwaysCorrect`: `Shape` adds to `TypeOK` that a file that is being replaced
  is listed, is there and has its copy. That `*outCorruptRecords` is a number
  needs sums over finite sets (`SumFacts` in `SequenceFacts`).
- `NeverLost`: `KeepInv` says that while a file is replaced its copy has what it
  had, and that in the first call nothing is torn before the crash; a second call
  writes the copies anew, which is why `NothingLost` promises them for the first
  crash only.
- `RecoveredAlwaysValidates`, `RecoveredAlwaysSeekable`: `RepairInv` says that every
  segment the loop has passed is complete, indexed and listed with its range, or has no
  header. `Seen` lets the copy stand for the file while `copy_file` runs. A file that
  is listed twice is rewritten again, and the range of the first entry stays true
  because INDEX records have no part in it.

### Merge and Split: `SplitterProof`

From `SourcesAssumption` and `ChannelsAssumption`: a source has sequences of
messages, annotations and channels, with times up to `LastTs`; nothing about
their order, names or identifiers.

- `MergeKeepsOrder`: an ordered log alone is not inductive; `IInv` adds `HeadsFollow`:
  while messages are merged, the head of each source that still has one follows
  every entry of the log. It is kept because the message taken precedes all
  other heads (`BestIsFirst`) and the source it came from is ordered.
- `MergeAlwaysKeeps`: `KeepInv` says that the log holds, of each source, every
  message before its head, in order (`Placed`), while the stream runs nothing
  at or after a head (`BehindHeads`), and each under the name of its channel
  (`Named`); and that when a merge is past its stream no head can be picked any more,
  unless it was stopped. A stopped merge has written a message whose head was not
  advanced, which is why `BehindHeads` is asked for in the stream only.
- `SplitAlwaysSelects`: `SelectInv`: the log of an output is made of exactly the
  messages read so far that go to it.
- `OutputsAlwaysClosed`: `OutputsInv` gives the state of each output at each step
  of the open and close loops.
- `NotesAlwaysKept`: `NotesInv`: what an output has and what is still to be
  written (`Rest`, which differs for outputs before and after `to`) make one of the
  orders the sort may give. An order the sort may give is a bijection on the places
  of the annotations, so that it has each as often (`Rearranged`).

### The mapped file and the capture: `MappedFileProof`, `NetCaptureProof`

`MappedFileProof` proves `RegionAlwaysBacked`, `CopiesStayInRegion` and
`ClosedFileIsCut` from the inductive `Inv` of `MappedFile`; the arithmetic of
`RoundUpToGrow` is a lemma of its own.

`NetCaptureProof` proves all safety properties of the capture program, for any
number and kinds of sources, any clock, any number of payloads and failures. The
inductive invariant `IInv` says, beside the types, who holds the mutex
(`MutexInv`: a worker that writes holds it, and only one writes); what the main
thread's progress says of the workers and the session (`PhaseInv`: past the join
all workers have exited, which is why `Close` may do without the mutex); that the
log is in the past and, past the join, not after `endTs` (`LogInv`); that
`lastWriteTs` covers each entry but for those of threads between their write and
their exchange, and is itself the time of an entry (`LatestInv`); and that a
worker has counted what it recorded but for the message in hand (`CountInv`, with
the payloads as an upper bound, which makes the type of the counters inductive).
`WorkerSplit` reduces the seventeen actions of a worker to nine and one kind of
step that touches nothing shared; `Alive` says what the invariant gives to any
worker that takes a step.

### Sequences, and what stays with TLC

`SequenceFacts` proves what the folds of the community modules give where the
models use them. An induction theorem of the library cannot be instantiated by
the installed provers; its place is taken by a least counterexample (`Smallest`,
from the library's well-founded induction). `FlattenSeq` is characterised as the
last of a sequence of growing prefixes (`PilesExist`, `FlattenIsPile`), from which
follow its value on a sequence that grows at either end, its type and its
members. A filter is written as a `FlattenSeq` of sequences of one element or none
(`Kept`), because `SelectSeq` has no definition the provers see. A sum over a
finite set chooses its elements in an order nobody knows; `SumSplit` shows that any
of them can be taken out first.

Only model-checked:

- `CallsReturn` of recorder and reader, and `CaptureEnds`: liveness.

Every invariant and every action property that a passing run checks is a theorem.

## 5. Not modelled, and the plan

Not modelled: the text of the manifest (written, and read by a search for
brackets that does not know strings) and the copy made when its rename fails on
other platforms; the viewer; the other examples, whose calls are a subset of what
the recorder's client does here; parsing of arguments and socket options in the
capture program; the Windows branch of `MappedFile`; damage to envelopes, INDEX
records and definitions; a second session over the files of a first. The pure
conversions (CRC, byte order, JSON escaping) and panel layout stay out.

The plan, in order:

1. The manifest as a sequence of tokens: what the bracket search reads back of
   what `WriteManifest` wrote.
2. The recorder's crash composed with `Recover`: the files a crashed `Recorder`
   leaves as `Recover`'s directories, by refinement instead of enumeration.
3. The viewer's playback clock and loading over `MessageStream`.
