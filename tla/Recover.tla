------------------------------- MODULE Recover -------------------------------
(***************************************************************************)
(* Splitter::Recover and Splitter::Validate (src/splitter.cpp) on a        *)
(* session directory.  Recover rewrites one segment file after the other   *)
(* through a copy beside it; a crash can come between any two steps, an    *)
(* operation on a file can fail, and Recover can be called again.          *)
(***************************************************************************)
EXTENDS SessionFiles

CONSTANTS Directories,   \* the session directories to start from: see MCRecover
          MaxCalls,      \* bound: calls of Recover and Validate
          MaxCrashes,    \* bound: crashes
          MaxFaults      \* bound: failing file operations

ASSUME BoundsAssumption == MaxCalls \in Nat /\ MaxCrashes \in Nat /\ MaxFaults \in Nat
ASSUME DirectoriesAssumption ==
  \A d \in Directories :
     /\ IsFiniteSet(DOMAIN d.files)
     /\ \A f \in DOMAIN d.files : IsSegmentFile(d.files[f])
     /\ d.manifest.segs \in Seq([file: Nat, start: Nat, end: Nat])

VARIABLES
  files,      \* the .rec files, by number; file names sort by number
  copies,     \* the .recover files, by number of their segment
  manifest,   \* session.manifest: [state, chans, segs]
  pc,         \* "ready", or the next step of Recover
  listing,    \* mfst.Segments of the Recover that runs
  chans,      \* mfst.Channels of the Recover that runs
  i,          \* the segment it works on
  anyRecovered,
  st,         \* what the latest call returned; "crash" or "exception" if it did not
  corrupt,    \* *outCorruptRecords of the latest Validate
  original,   \* the files at the start
  torn,       \* files a crash or a failure of copy_file left half replaced
  calls, crashes, faults

disk    == <<files, copies, manifest>>
memory  == <<listing, chans, i, anyRecovered>>
history == <<original, torn, calls, crashes, faults>>
vars    == <<disk, memory, pc, st, corrupt, history>>

Entry(f, start, end) == [file |-> f, start |-> start, end |-> end]

Init ==
  /\ \E d \in Directories : files = d.files /\ manifest = d.manifest
  /\ copies = <<>>
  /\ pc = "ready" /\ listing = <<>> /\ chans = {} /\ i = 1 /\ anyRecovered = FALSE
  /\ st = "none" /\ corrupt = 0
  /\ original = files /\ torn = {}
  /\ calls = 0 /\ crashes = 0 /\ faults = 0

Counting == pc = "ready" /\ calls < MaxCalls /\ calls' = calls + 1
Faulty   == faults < MaxFaults /\ faults' = faults + 1

-----------------------------------------------------------------------------
(***************************************************************************)
(* Recover.  A manifest that cannot be read or lists no segments is        *)
(* replaced by a list of the directory.                                    *)
(***************************************************************************)
ManifestSegs == IF manifest.state = "ok" THEN manifest.segs ELSE <<>>

ListDirectory ==
  LET ks    == 1..Cardinality(DOMAIN files)
      names == CHOOSE n \in [ks -> DOMAIN files] : \A j, k \in ks : j < k => n[j] < n[k]
  IN  [k \in ks |-> Entry(names[k], 0, 0)]

Start ==
  /\ Counting
  /\ listing' = IF ManifestSegs # <<>> THEN ManifestSegs ELSE ListDirectory
  /\ chans' = IF manifest.state = "ok" THEN manifest.chans ELSE {}
  /\ i' = 1 /\ anyRecovered' = FALSE
  /\ pc' = "segment" /\ st' = "running"
  /\ UNCHANGED <<disk, corrupt, original, torn, crashes, faults>>

\* The directory cannot be listed.
StartFails ==
  /\ Counting /\ Faulty
  /\ ManifestSegs = <<>>
  /\ st' = "ErrorIO"
  /\ UNCHANGED <<disk, memory, pc, corrupt, original, torn, crashes>>

Current == listing[i].file
OnSegment == pc = "segment" /\ i <= Len(listing)
NextSegment == pc' = "segment" /\ i' = i + 1
Recoverable == Current \in DOMAIN files /\ files[Current].header

\* The file is missing, shorter than a header, or no segment file.
SkipSegment ==
  /\ OnSegment /\ ~Recoverable
  /\ NextSegment
  /\ UNCHANGED <<disk, listing, chans, anyRecovered, st, corrupt, history>>

\* What the scan notes in the manifest entry.
ScannedEntryData(f, recs) ==               \* mutant: chunks are not looked at
  Entry(f, ScanStart(SelectSeq(recs, LAMBDA r : r.op = "Data")),
           ScanEnd(SelectSeq(recs, LAMBDA r : r.op = "Data")))
ScannedEntry(f, recs) == Entry(f, ScanStart(recs), ScanEnd(recs))

ListingScanned == [listing EXCEPT ![i] = ScannedEntry(Current, files[Current].recs)]

\* The file the copy holds: the records up to the first incomplete one, an
\* INDEX record, and a footer that counts the records.
RewrittenFooterCounted(f) ==               \* mutant: the footer counts itself
  [f EXCEPT !.recs = Append(@, IndexRecord), !.points = PointsOfRecords(f.recs),
            !.footer = Len(f.recs) + 2]
RewrittenUncounted(f) ==                   \* mutant: the footer leaves out the INDEX record
  [f EXCEPT !.recs = Append(@, IndexRecord), !.points = PointsOfRecords(f.recs),
            !.footer = Len(f.recs)]
RewrittenWithoutLast(f) ==                 \* mutant: the last record is taken for truncated
  [f EXCEPT !.recs = Append(Front(@), IndexRecord), !.points = PointsOfRecords(Front(f.recs)),
            !.footer = Len(f.recs)]
Rewritten(f) ==
  [f EXCEPT !.recs = Append(@, IndexRecord), !.points = PointsOfRecords(f.recs),
            !.footer = Len(f.recs) + 1]

WithCopy(f) == [k \in DOMAIN copies \cup {Current} |-> IF k = Current THEN f ELSE copies[k]]
NoCopy == [k \in DOMAIN copies \ {Current} |-> copies[k]]

WriteCopy ==
  /\ OnSegment /\ Recoverable
  /\ listing' = ListingScanned
  /\ copies' = WithCopy(Rewritten(files[Current]))
  /\ pc' = "replace"
  /\ UNCHANGED <<files, manifest, chans, i, anyRecovered, st, corrupt, history>>

\* OpenWrite fails, or EnsureAvailable does at one of its three calls and
\* leaves a copy without records, without INDEX, or without footer.
PartialCopies ==
  {BadFile, [files[Current] EXCEPT !.points = <<>>, !.footer = NoFooter],
   [Rewritten(files[Current]) EXCEPT !.footer = NoFooter]}

WriteCopyFails ==
  /\ OnSegment /\ Recoverable /\ Faulty
  /\ listing' = ListingScanned
  /\ copies' \in {copies} \cup {WithCopy(f) : f \in PartialCopies}
  /\ NextSegment
  /\ UNCHANGED <<files, manifest, chans, anyRecovered, st, corrupt, original, torn, calls, crashes>>

\* copy_file truncates the segment file and writes it from the start: what is
\* there on the way.
PartsOf(f) ==
  {BadFile} \cup {[f EXCEPT !.recs = SubSeq(@, 1, k), !.points = <<>>, !.footer = NoFooter] :
                    k \in 0..Len(f.recs)}

BeginReplace ==
  /\ pc = "replace"
  /\ \E part \in PartsOf(copies[Current]) : files' = [files EXCEPT ![Current] = part]
  /\ pc' = "replacing"
  /\ UNCHANGED <<copies, manifest, memory, st, corrupt, history>>

EndReplace ==
  /\ pc = "replacing"
  /\ files' = [files EXCEPT ![Current] = copies[Current]]
  /\ pc' = "remove"
  /\ UNCHANGED <<copies, manifest, memory, st, corrupt, history>>

RemoveCopy ==
  /\ pc = "remove"
  /\ copies' = NoCopy
  /\ anyRecovered' = TRUE
  /\ NextSegment
  /\ UNCHANGED <<files, manifest, listing, chans, st, corrupt, history>>

\* copy_file throws, or the removal of the copy after it: the segment does not
\* count as recovered, and the handler removes the copy.
ReplaceFails ==
  /\ pc = "replacing" /\ Faulty
  /\ torn' = torn \cup {Current}
  /\ pc' = "handler"
  /\ UNCHANGED <<disk, memory, st, corrupt, original, calls, crashes>>

RemoveFails ==
  /\ pc = "remove" /\ Faulty
  /\ pc' = "handler"
  /\ UNCHANGED <<disk, memory, st, corrupt, original, torn, calls, crashes>>

HandlerRemoves ==
  /\ pc = "handler"
  /\ copies' = NoCopy
  /\ NextSegment
  /\ UNCHANGED <<files, manifest, listing, chans, anyRecovered, st, corrupt, history>>

NoMemory == listing' = <<>> /\ chans' = {} /\ i' = 1 /\ anyRecovered' = FALSE

\* The handler's removal throws as well, out of Recover: the manifest stays as
\* it was, and so do the segments that are left.  It counts with the failure
\* that led to the handler.
HandlerThrows ==
  /\ pc = "handler"
  /\ pc' = "ready" /\ st' = "exception" /\ NoMemory
  /\ UNCHANGED <<disk, corrupt, history>>

Finish ==
  /\ pc = "segment" /\ i > Len(listing)
  /\ \/ manifest' = [state |-> "ok", chans |-> chans, segs |-> listing] /\ UNCHANGED faults
     \/ Faulty /\ UNCHANGED manifest        \* WriteManifest's status is not looked at
  /\ st' = IF anyRecovered THEN "Ok" ELSE "ErrorCorrupted"
  /\ pc' = "ready"
  /\ UNCHANGED <<files, copies, memory, corrupt, original, torn, calls, crashes>>

Crash ==
  /\ pc # "ready" /\ crashes < MaxCrashes /\ crashes' = crashes + 1
  /\ torn' = torn \cup IF pc = "replacing" THEN {Current} ELSE {}
  /\ pc' = "ready" /\ st' = "crash"
  /\ NoMemory
  /\ UNCHANGED <<disk, corrupt, original, calls, faults>>

-----------------------------------------------------------------------------
(***************************************************************************)
(* Validate: the segments the manifest lists, up to the first that is      *)
(* missing or has no header or footer.                                     *)
(***************************************************************************)
Intact(f) == f.header /\ f.footer # NoFooter

DamagedIn(f) == Cardinality({k \in DOMAIN f.recs : f.recs[k].state = "crc"})
MiscountIn(f) == IF f.footer = Len(f.recs) THEN 0 ELSE 1

Stops(k) ==
  LET f == manifest.segs[k].file
  IN  f \notin DOMAIN files \/ ~Intact(files[f])

CorruptRecords ==
  SumFunction([k \in DOMAIN manifest.segs |->
                 LET f == files[manifest.segs[k].file] IN DamagedIn(f) + MiscountIn(f)])

ValidateStatus ==
  IF manifest.state = "missing" THEN "ErrorNotFound"
  ELSE IF manifest.state = "empty" THEN "ErrorCorrupted"
  ELSE IF \E k \in DOMAIN manifest.segs : Stops(k) THEN
    LET k == Min({k \in DOMAIN manifest.segs : Stops(k)})
    IN  IF manifest.segs[k].file \in DOMAIN files THEN "ErrorCorrupted" ELSE "ErrorIO"
  ELSE IF CorruptRecords = 0 THEN "Ok" ELSE "ErrorCorrupted"

Validate ==
  /\ Counting
  /\ st' = ValidateStatus
  /\ corrupt' = IF manifest.state = "ok" /\ \A k \in DOMAIN manifest.segs : ~Stops(k)
                THEN CorruptRecords ELSE corrupt
  /\ UNCHANGED <<disk, memory, pc, original, torn, crashes, faults>>

-----------------------------------------------------------------------------
Next ==
  \/ Start \/ StartFails \/ SkipSegment \/ WriteCopy \/ WriteCopyFails
  \/ BeginReplace \/ EndReplace \/ RemoveCopy \/ ReplaceFails \/ RemoveFails
  \/ HandlerRemoves \/ HandlerThrows \/ Finish \/ Crash \/ Validate

Spec == Init /\ [][Next]_vars

-----------------------------------------------------------------------------
TypeOK ==
  /\ pc \in {"ready", "segment", "replace", "replacing", "remove", "handler"}
  /\ DOMAIN files = DOMAIN original /\ DOMAIN copies \subseteq DOMAIN files
  /\ \A f \in DOMAIN files : IsSegmentFile(files[f])
  /\ \A f \in DOMAIN copies : IsSegmentFile(copies[f])
  /\ torn \subseteq DOMAIN files /\ i \in 1..(Len(listing) + 1)
  /\ anyRecovered \in BOOLEAN /\ corrupt \in Nat
  /\ calls \in 0..MaxCalls /\ crashes \in 0..MaxCrashes /\ faults \in 0..MaxFaults

\* The records of a file but for the INDEX records Recover adds.
Contents(f) ==
  FlattenSeq([k \in DOMAIN f.recs |-> IF f.recs[k].op = "Index" THEN <<>> ELSE <<f.recs[k]>>])

InReplacement == IF pc = "replacing" THEN {Current} ELSE {}

\* Recover, interrupted and repeated at any point, keeps every record of every
\* segment file, in order, unless a crash or a failure falls into the call of
\* copy_file that replaces that very file (splitter.cpp:663).  After a crash in
\* that call the copy still has what the file lost, until Recover runs again.
NothingLost ==
  /\ \A f \in DOMAIN files \ (torn \cup InReplacement) : Contents(files[f]) = Contents(original[f])
  /\ st = "crash" /\ calls = 1 /\ faults = 0 =>
       \A f \in torn : f \in DOMAIN copies /\ Contents(copies[f]) = Contents(original[f])

\* Recover came to its end with nothing failing.
Recovered == st = "Ok" /\ pc = "ready" /\ anyRecovered /\ faults = 0

ListedFiles == {manifest.segs[k].file : k \in DOMAIN manifest.segs}

\* Validate finds a recovered session intact, whatever was interrupted before,
\* when the listed files are there, have headers and fail no checksum.
RecoveredValidates ==
  /\ Recovered
  /\ \A f \in ListedFiles : f \in DOMAIN files /\ files[f].header /\ DamagedIn(files[f]) = 0
  => ValidateStatus = "Ok"

TimeOrdered(msgs) == \A j, k \in DOMAIN msgs : j < k => msgs[j].ts <= msgs[k].ts

\* A recovered session can be sought, also after interrupted and repeated calls.
\* The entry of each listed file covers the times of its data records, and no
\* message is before the start, by which Seek chooses the segment, unless its
\* chunk is out of time order.  The points lead to data records of their
\* channels and times, and a record has its own point or is less than an
\* interval past a point of its channel that is not behind it in the file.
\* A chunk's time is that of its first message, so the end of the entry can be
\* before the last message of the file: it is no upper bound of the messages.
RecoveredSeekable ==
  Recovered => \A k \in DOMAIN manifest.segs :
    LET e == manifest.segs[k]
        recs == files[e.file].recs
        points == files[e.file].points
    IN  e.file \in DOMAIN files /\ files[e.file].header =>
          /\ \A r \in DOMAIN recs : IsData(recs[r]) =>
               /\ e.start <= recs[r].ts /\ recs[r].ts <= e.end
               /\ TimeOrdered(recs[r].msgs) => \A m \in ToSet(recs[r].msgs) : e.start <= m.ts
          /\ \A p \in DOMAIN points :
               LET r == recs[points[p].off] IN IsData(r) /\ r.ch = points[p].ch /\ r.ts = points[p].ts
          /\ \A r \in DOMAIN recs : IsData(recs[r]) =>
               \E p \in DOMAIN points :
                  /\ points[p].ch = recs[r].ch /\ points[p].off <= r
                  /\ points[p].off = r \/ (recs[r].ts - points[p].ts) % Word < IndexIntervalNs

\* "Performs a linear scan of all segment files, skips corrupt records,
\* rebuilds the index, and writes a corrected footer" (splitter.hpp:204): a
\* recovered directory has no segment file without a footer.
AllFilesRecovered ==
  Recovered => \A f \in DOMAIN files : files[f].header => Intact(files[f])
==============================================================================
