------------------------------- MODULE Splitter -------------------------------
(***************************************************************************)
(* Splitter::Merge and Splitter::Split (src/splitter.cpp).  A source is    *)
(* the stream a ReaderSession gives (MessageStream), an output the         *)
(* RecorderSession it is written to: the channels defined, the messages    *)
(* and annotations taken.  Any call on an output can fail.                 *)
(***************************************************************************)
EXTENDS Integers, FiniteSetsExt, SequencesExt

CONSTANTS SourceLists,   \* the sequences of sources to merge; to split, their first
          ChannelLists,  \* SplitOptions::ChannelIds; <<>> is "all channels"
          MaxChannels,   \* format::MAX_CHANNELS, 0xFFFE
          LastTs,        \* the largest Timestamp, 2^64 - 1
          MaxFaults      \* bound: calls on readers and recorders that fail

ASSUME LimitsAssumption == MaxChannels \in Nat /\ LastTs \in Nat /\ MaxFaults \in Nat
ASSUME SourcesAssumption ==
  \A list \in SourceLists :
    /\ DOMAIN list = 1..Len(list) /\ Len(list) \in Nat
    /\ \A s \in DOMAIN list :
         /\ list[s].msgs \in Seq([ch: Nat, ts: 0..LastTs])
         /\ list[s].notes \in Seq([ts: 0..LastTs, n: Nat])
ASSUME ChannelsAssumption ==
  /\ \A list \in SourceLists : \A s \in DOMAIN list : list[s].chans \in Seq(ToSet(list[s].chans))
  /\ \A only \in ChannelLists : only \in Seq(Nat)

VARIABLES
  op,         \* "merge" or "split"
  opts,       \* its options
  srcs,       \* the sources: [chans, msgs, notes], each opened by a reader
  at,         \* per source, the message in heads; beyond the last: not headValid
  dsts,       \* the outputs: [state, channel, chans, log, notes]
  notes,      \* annotations still to write
  to,         \* the output the next annotation, or the next Close, goes to
  stopped,    \* the progress callback asked to stop
  pc, st,     \* next step; the status returned
  total,      \* MergeResult.TotalMessageCount
  faults

input  == <<op, opts, srcs>>
vars   == <<input, at, dsts, notes, to, stopped, pc, st, total, faults>>

Options == [duplicates: BOOLEAN, annotations: BOOLEAN, only: ChannelLists]

NewOutput(id) == [state |-> "new", channel |-> id, chans |-> <<>>, log |-> <<>>, notes |-> <<>>]

Init ==
  /\ op \in {"merge", "split"} /\ opts \in Options /\ srcs \in SourceLists
  /\ op = "split" => Len(srcs) = 1
  /\ op = "merge" => opts.only = <<>>
  /\ at = [s \in DOMAIN srcs |-> 1]
  /\ dsts = <<>> /\ notes = <<>> /\ to = 1 /\ stopped = FALSE
  /\ pc = "start" /\ st = "none" /\ total = 0 /\ faults = 0

-----------------------------------------------------------------------------
Faulty == faults < MaxFaults /\ faults' = faults + 1
Return(status) == pc' = "done" /\ st' = status

\* Close on each output, whatever it returns.
CloseOuts == [k \in DOMAIN dsts |->
                IF dsts[k].state = "open" THEN [dsts[k] EXCEPT !.state = "closed"] ELSE dsts[k]]
AbandonedLeftOpen == dsts                  \* mutant: the error path does not close
Abandoned == CloseOuts

\* A call on an output fails: all outputs are closed and its status returned.
Abandon(status) ==
  /\ dsts' = Abandoned
  /\ Return(status)
  /\ UNCHANGED <<input, at, notes, to, stopped, total>>

Refuse(status) ==
  /\ pc = "start"
  /\ Return(status)
  /\ UNCHANGED <<input, at, dsts, notes, to, stopped, total>>

OpenSourceFails == Faulty /\ Refuse("ErrorNotFound")

-----------------------------------------------------------------------------
(***************************************************************************)
(* The channels of the outputs.                                            *)
(***************************************************************************)
\* All channels of all sources, in the order Merge goes through them.
Defs ==
  FlattenSeq([s \in DOMAIN srcs |->
    [k \in DOMAIN srcs[s].chans |->
       [src |-> s, id |-> srcs[s].chans[k].id, name |-> srcs[s].chans[k].name]]])

\* mergedChannels: one for each name.
MergedNames ==
  FoldLeft(LAMBDA names, d : IF d.name \in ToSet(names) THEN names ELSE Append(names, d.name),
           <<>>, Defs)
DuplicateNames == Len(MergedNames) < Len(Defs)

MapsToAnySource(s, ch) == {k \in DOMAIN Defs : Defs[k].id = ch}   \* mutant: ReaderIdx not compared
MapsTo(s, ch) == {k \in DOMAIN Defs : Defs[k].src = s /\ Defs[k].id = ch}

\* The output channel of a message; 0 is INVALID_CHANNEL_ID.
DstChannel(s, ch) ==
  IF MapsTo(s, ch) = {} THEN 0
  ELSE LET name == Defs[Min(MapsTo(s, ch))].name
       IN  SelectInSeq(MergedNames, LAMBDA n : n = name)

MergeRefused ==
  /\ op = "merge"
  /\ UNCHANGED faults
  /\ \/ srcs = <<>> /\ Refuse("ErrorInvalidArg")
     \/ DuplicateNames /\ ~opts.duplicates /\ Refuse("ErrorInvalidArg")

MergeOpens ==
  /\ pc = "start" /\ op = "merge" /\ srcs # <<>> /\ (DuplicateNames => opts.duplicates)
  /\ dsts' = <<[state |-> "open", channel |-> 0, chans |-> MergedNames, log |-> <<>>, notes |-> <<>>]>>
  /\ Len(MergedNames) <= MaxChannels
  /\ pc' = "stream"
  /\ UNCHANGED <<input, at, notes, to, stopped, st, total, faults>>

\* dst.Open fails, or one of the DefineChannel calls, and dst is closed; the
\* channels it has by then are left out.
MergeOpenFails ==
  /\ pc = "start" /\ op = "merge" /\ srcs # <<>> /\ (DuplicateNames => opts.duplicates)
  /\ \/ Faulty /\ dsts' = <<>> /\ Return("ErrorIO")
     \/ /\ dsts' = <<[NewOutput(0) EXCEPT !.state = "closed"]>>
        /\ \/ Len(MergedNames) > MaxChannels /\ Return("ErrorInvalidArg") /\ UNCHANGED faults
           \/ Len(MergedNames) <= MaxChannels /\ Faulty /\ Return("ErrorIO")
  /\ UNCHANGED <<input, at, notes, to, stopped, total>>

\* toExtract: identifiers the source does not know are passed over.
ToExtract ==
  IF opts.only = <<>> THEN srcs[1].chans
  ELSE LET FindChannel(id) == {k \in DOMAIN srcs[1].chans : srcs[1].chans[k].id = id}
       IN  FlattenSeq([j \in DOMAIN opts.only |->
             IF FindChannel(opts.only[j]) = {} THEN <<>>
             ELSE <<srcs[1].chans[Min(FindChannel(opts.only[j]))]>>])

SplitRefused == op = "split" /\ ToExtract = <<>> /\ Refuse("ErrorNotFound") /\ UNCHANGED faults

SplitBegins ==
  /\ pc = "start" /\ op = "split" /\ ToExtract # <<>>
  /\ dsts' = [k \in DOMAIN ToExtract |-> NewOutput(ToExtract[k].id)]
  /\ pc' = "open"
  /\ UNCHANGED <<input, at, notes, to, stopped, st, total, faults>>

SplitOpens ==
  /\ pc = "open" /\ to <= Len(dsts)
  /\ dsts' = [dsts EXCEPT ![to].state = "open", ![to].chans = <<ToExtract[to].name>>]
  /\ to' = to + 1
  /\ UNCHANGED <<input, at, notes, stopped, pc, st, total, faults>>

SplitOpenFails == pc = "open" /\ to <= Len(dsts) /\ Faulty /\ Abandon("ErrorIO")

SplitOpened ==
  /\ pc = "open" /\ to > Len(dsts)
  /\ pc' = "stream" /\ to' = 1
  /\ UNCHANGED <<input, at, dsts, notes, stopped, st, total, faults>>

-----------------------------------------------------------------------------
(***************************************************************************)
(* The messages.                                                           *)
(***************************************************************************)
HeadOf(s) == srcs[s].msgs[at[s]]
\* Sources whose head can be picked: bestTs starts at LastTs.
Ready == {s \in DOMAIN srcs : at[s] <= Len(srcs[s].msgs) /\ HeadOf(s).ts < LastTs}

BestLastOfTies ==                          \* mutant: <= in the comparison
  CHOOSE s \in Ready : \A r \in Ready :
    \/ HeadOf(s).ts < HeadOf(r).ts
    \/ HeadOf(s).ts = HeadOf(r).ts /\ s >= r
Best ==
  CHOOSE s \in Ready : \A r \in Ready :
    \/ HeadOf(s).ts < HeadOf(r).ts
    \/ HeadOf(s).ts = HeadOf(r).ts /\ s <= r

Logged(s, ch) == [src |-> s, n |-> at[s], ts |-> HeadOf(s).ts, ch |-> ch]

AdvancedAll == [s \in DOMAIN srcs |-> at[s] + 1]   \* mutant: every head is fetched again
AdvancedBest == [at EXCEPT ![Best] = @ + 1]

\* Write, count, and ask the progress callback.
MergeMessage ==
  /\ pc = "stream" /\ op = "merge" /\ Ready # {}
  /\ DstChannel(Best, HeadOf(Best).ch) # 0
  /\ dsts' = [dsts EXCEPT ![1].log = Append(@, Logged(Best, DstChannel(Best, HeadOf(Best).ch)))]
  /\ total' = total + 1
  /\ \/ at' = AdvancedBest /\ UNCHANGED <<pc, stopped>>
     \/ pc' = "sort" /\ stopped' = TRUE /\ UNCHANGED at
  /\ UNCHANGED <<input, notes, to, st, faults>>

MergeUnknownChannel ==
  /\ pc = "stream" /\ op = "merge" /\ Ready # {}
  /\ DstChannel(Best, HeadOf(Best).ch) = 0
  /\ Abandon("ErrorCorrupted")
  /\ UNCHANGED faults

WriteFails ==
  /\ pc = "stream" /\ Faulty
  /\ IF op = "merge" THEN Ready # {} /\ DstChannel(Best, HeadOf(Best).ch) # 0
     ELSE at[1] <= Len(srcs[1].msgs) /\ \E k \in DOMAIN dsts : dsts[k].channel = HeadOf(1).ch
  /\ Abandon("ErrorIO")

StreamEnds ==
  /\ pc = "stream"
  /\ IF op = "merge" THEN Ready = {} ELSE at[1] > Len(srcs[1].msgs)
  /\ pc' = "sort"
  /\ UNCHANGED <<input, at, dsts, notes, to, stopped, st, total, faults>>

\* The outputs of a message: the first that takes its channel.
RoutesByDst(m) == IF m.ch = 1 THEN {1} ELSE {}     \* mutant: compared with dstId, always the first
Routes(m) ==
  LET takers == {k \in DOMAIN dsts : dsts[k].channel = m.ch}
  IN  IF takers = {} THEN {} ELSE {Min(takers)}

SplitMessage ==
  /\ pc = "stream" /\ op = "split" /\ at[1] <= Len(srcs[1].msgs)
  /\ dsts' = [k \in DOMAIN dsts |->
                IF k \in Routes(HeadOf(1)) THEN [dsts[k] EXCEPT !.log = Append(@, Logged(1, 1))]
                ELSE dsts[k]]
  /\ at' = [at EXCEPT ![1] = @ + 1]
  /\ \/ UNCHANGED <<pc, stopped>>
     \/ pc' = "sort" /\ stopped' = TRUE
  /\ UNCHANGED <<input, notes, to, st, total, faults>>

-----------------------------------------------------------------------------
(***************************************************************************)
(* The annotations: Merge sorts those of all sources by time, with         *)
(* std::sort, which leaves equal times in any order.                       *)
(***************************************************************************)
AllNotes == FlattenSeq([s \in DOMAIN srcs |-> srcs[s].notes])

UnsortedNotes ==                           \* mutant: the notes stay as they were read
  {AllNotes}
SortedNotes ==
  {[k \in DOMAIN AllNotes |-> AllNotes[p[k]]] :
     p \in {p \in Bijection(DOMAIN AllNotes, DOMAIN AllNotes) :
              \A j, k \in DOMAIN AllNotes : j < k => AllNotes[p[j]].ts <= AllNotes[p[k]].ts}}

CollectNotes ==
  /\ pc = "sort"
  /\ notes' \in IF ~opts.annotations THEN {<<>>}
               ELSE IF op = "merge" THEN SortedNotes ELSE {srcs[1].notes}
  /\ pc' = "notes" /\ to' = 1
  /\ UNCHANGED <<input, at, dsts, stopped, st, total, faults>>

WriteNote ==
  /\ pc = "notes" /\ notes # <<>>
  /\ dsts' = [dsts EXCEPT ![to].notes = Append(@, Head(notes))]
  /\ IF to = Len(dsts) THEN to' = 1 /\ notes' = Tail(notes) ELSE to' = to + 1 /\ UNCHANGED notes
  /\ UNCHANGED <<input, at, stopped, pc, st, total, faults>>

WriteNoteFails == pc = "notes" /\ notes # <<>> /\ Faulty /\ Abandon("ErrorIO")

NotesWritten ==
  /\ pc = "notes" /\ notes = <<>>
  /\ pc' = "close"
  /\ UNCHANGED <<input, at, dsts, notes, to, stopped, st, total, faults>>

-----------------------------------------------------------------------------
CloseNext ==
  /\ pc = "close" /\ to <= Len(dsts)
  /\ dsts' = [dsts EXCEPT ![to].state = "closed"]
  /\ to' = to + 1
  /\ UNCHANGED <<input, at, notes, stopped, pc, st, total, faults>>

\* The outputs after this one are destroyed without being closed.
CloseFails ==
  /\ pc = "close" /\ to <= Len(dsts) /\ Faulty
  /\ dsts' = [k \in DOMAIN dsts |->
                CASE k = to -> [dsts[k] EXCEPT !.state = "closed"]
                  [] k > to -> [dsts[k] EXCEPT !.state = "dropped"]
                  [] OTHER  -> dsts[k]]
  /\ Return("ErrorIO")
  /\ UNCHANGED <<input, at, notes, to, stopped, total>>

Done ==
  /\ pc = "close" /\ to > Len(dsts)
  /\ Return("Ok")
  /\ UNCHANGED <<input, at, dsts, notes, to, stopped, total, faults>>

-----------------------------------------------------------------------------
Next ==
  \/ OpenSourceFails \/ MergeRefused \/ MergeOpens \/ MergeOpenFails
  \/ SplitRefused \/ SplitBegins \/ SplitOpens \/ SplitOpenFails \/ SplitOpened
  \/ MergeMessage \/ MergeUnknownChannel \/ SplitMessage \/ WriteFails \/ StreamEnds
  \/ CollectNotes \/ WriteNote \/ WriteNoteFails \/ NotesWritten
  \/ CloseNext \/ CloseFails \/ Done

Spec == Init /\ [][Next]_vars

-----------------------------------------------------------------------------
TypeOK ==
  /\ pc \in {"start", "open", "stream", "sort", "notes", "close", "done"}
  /\ DOMAIN at = DOMAIN srcs /\ \A s \in DOMAIN srcs : at[s] \in 1..(Len(srcs[s].msgs) + 1)
  /\ \A k \in DOMAIN dsts : dsts[k].state \in {"new", "open", "closed", "dropped"}
  /\ to \in 1..(Len(dsts) + 1) /\ stopped \in BOOLEAN
  /\ total \in Nat /\ faults \in 0..MaxFaults

Ordered(msgs) == \A j, k \in DOMAIN msgs : j < k => msgs[j].ts <= msgs[k].ts

\* "Records from all inputs are interleaved in ascending timestamp order"
\* (splitter.hpp:168), as far as the inputs have it: ordered sources give an
\* ordered output, in which equal times keep the order of the sources.
MergeOrdered ==
  op = "merge" /\ dsts # <<>> /\ (\A s \in DOMAIN srcs : Ordered(srcs[s].msgs)) =>
    LET log == dsts[1].log
    IN  \A j, k \in DOMAIN log : j < k =>
          \/ log[j].ts < log[k].ts
          \/ log[j].ts = log[k].ts /\ log[j].src <= log[k].src

\* The merged output has the messages of each source once and each after those
\* before it in the source, ordered by time or not.  At the end of a merge that
\* was not stopped none is missing, but for a source that comes to a message
\* with the largest timestamp there is, which the search for the next message
\* never picks (splitter.cpp:337).
SourceKept(s) ==
  LET log  == dsts[1].log
      Part == {j \in DOMAIN log : log[j].src = s}
  IN  /\ \A i, j \in Part : log[i].n = log[j].n => i = j
      /\ \A j \in Part : \A n \in 1..(log[j].n - 1) : \E i \in Part : i < j /\ log[i].n = n
      /\ st = "Ok" /\ ~stopped =>
           \A n \in DOMAIN srcs[s].msgs :
             (\A k \in 1..n : srcs[s].msgs[k].ts < LastTs) => \E j \in Part : log[j].n = n

\* A message is written to the channel that has the name of its own, also
\* when sources number their channels differently (splitter.cpp:350).
NameKept(m) ==
  \E c \in DOMAIN srcs[m.src].chans :
    /\ srcs[m.src].chans[c].id = srcs[m.src].msgs[m.n].ch
    /\ srcs[m.src].chans[c].name = dsts[1].chans[m.ch]

MergeKeepsMessages ==
  op = "merge" /\ dsts # <<>> =>
    /\ \A s \in DOMAIN srcs : SourceKept(s)
    /\ \A k \in DOMAIN dsts[1].log : NameKept(dsts[1].log[k])

\* A split puts exactly the messages of its channel, in order, in each output:
\* all of them when it is not stopped.  Of outputs for the same channel the
\* first has them.
SplitSelects ==
  op = "split" => \A k \in DOMAIN dsts :
    LET log  == dsts[k].log
        Mine == {n \in 1..(at[1] - 1) :
                   /\ srcs[1].msgs[n].ch = dsts[k].channel
                   /\ \A j \in 1..(k - 1) : dsts[j].channel # dsts[k].channel}
    IN  /\ {log[j].n : j \in DOMAIN log} = Mine
        /\ \A i, j \in DOMAIN log : i < j => log[i].n < log[j].n
        /\ st = "Ok" /\ ~stopped => at[1] > Len(srcs[1].msgs)

\* Whatever fails, no output stays open when the operation returns, and no
\* output is destroyed without Close but after another one's Close failed.
OutputsClosed ==
  pc = "done" => \A k \in DOMAIN dsts :
    /\ dsts[k].state # "open"
    /\ dsts[k].state = "dropped" => st # "Ok" /\ to < k

TimesIn(s, e) == Cardinality({k \in DOMAIN s : s[k] = e})

\* Each output of a completed operation has every annotation as often as the
\* sources have it and no other: split, in the order of the source, and merged,
\* in order of time; also when progress stopped it.
NotesKept ==
  st = "Ok" /\ opts.annotations => \A k \in DOMAIN dsts :
    LET log == dsts[k].notes
    IN  /\ \A e \in ToSet(log) \cup ToSet(AllNotes) : TimesIn(log, e) = TimesIn(AllNotes, e)
        /\ op = "merge" => Ordered(log)
        /\ op = "split" => log = AllNotes
==============================================================================
