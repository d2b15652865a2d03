---------------------------- MODULE SplitterProof ----------------------------
(***************************************************************************)
(* Merge keeps order: a proof for any number of sources of any lengths,    *)
(* whatever fails and wherever the progress callback stops.                *)
(***************************************************************************)
EXTENDS Splitter, SequenceFacts

USE LimitsAssumption, SourcesAssumption

(***************************************************************************)
(* The inductive invariant.                                                *)
(***************************************************************************)
IsOutput(d) == d = [state |-> d.state, channel |-> d.channel, chans |-> d.chans,
                    log |-> d.log, notes |-> d.notes]
IsLog(log) == IsSeq(log) /\ \A k \in DOMAIN log : log[k].src \in Nat /\ log[k].ts \in Nat

\* A merge has one output from the time it is open.
Shape ==
  /\ srcs \in SourceLists /\ at \in [DOMAIN srcs -> Nat \ {0}]
  /\ op = "merge" =>
       /\ pc # "open"
       /\ pc = "start" => dsts = <<>>
       /\ pc \notin {"start", "done"} => dsts # <<>>
       /\ dsts # <<>> => 1 \in DOMAIN dsts /\ IsOutput(dsts[1]) /\ IsLog(dsts[1].log)

OrderedSources == \A s \in DOMAIN srcs : Ordered(srcs[s].msgs)
Waiting == {s \in DOMAIN srcs : at[s] <= Len(srcs[s].msgs)}
Precedes(e, f) == e.ts < f.ts \/ (e.ts = f.ts /\ e.src <= f.src)
PrecedesHead(e, s) == e.ts < HeadOf(s).ts \/ (e.ts = HeadOf(s).ts /\ e.src <= s)

LogOrdered(log) == \A j, k \in DOMAIN log : j < k => Precedes(log[j], log[k])

\* While messages are merged, no source has one that should have come earlier.
HeadsFollow ==
  pc = "stream" => \A k \in DOMAIN dsts[1].log : \A s \in Waiting : PrecedesHead(dsts[1].log[k], s)

MergeInv ==
  op = "merge" /\ dsts # <<>> /\ OrderedSources => LogOrdered(dsts[1].log) /\ HeadsFollow

IInv == Shape /\ MergeInv

-----------------------------------------------------------------------------
(***************************************************************************)
(* The search for the next message.                                        *)
(***************************************************************************)
LEMMA AppendSeq ==
  ASSUME NEW s, IsSeq(s), NEW e
  PROVE  /\ DOMAIN Append(s, e) = DOMAIN s \cup {Len(s) + 1}
         /\ DOMAIN s = 1..Len(s) /\ Len(s) \in Nat
         /\ \A k \in DOMAIN s : Append(s, e)[k] = s[k]
         /\ Append(s, e)[Len(s) + 1] = e
         /\ IsSeq(Append(s, e))
<1> DEFINE S == {s[k] : k \in DOMAIN s} \cup {e}
           t == Append(s, e)
<1>1. s \in Seq(S)
  <2>1. s \in Seq({s[k] : k \in DOMAIN s})
    BY DEF IsSeq
  <2>2. QED
    BY <2>1
<1>2. t \in Seq(S) /\ e \in S
  <2> HIDE DEF S
  <2>1. e \in S
    BY DEF S
  <2>2. QED
    BY <1>1, <2>1
<1>3. /\ DOMAIN t = DOMAIN s \cup {Len(s) + 1} /\ DOMAIN s = 1..Len(s) /\ Len(s) \in Nat
      /\ \A k \in DOMAIN s : t[k] = s[k]
      /\ t[Len(s) + 1] = e
  <2> HIDE DEF S
  <2>1. QED
    BY <1>1, <1>2
<1>4. t \in Seq({t[k] : k \in DOMAIN t})
  <2> HIDE DEF S, t
  <2>1. QED
    BY <1>2
<1>5. QED
  BY <1>3, <1>4 DEF IsSeq

LEMMA SeqElements ==
  ASSUME NEW S, NEW q \in Seq(S)
  PROVE  Len(q) \in Nat /\ DOMAIN q = 1..Len(q) /\ \A n \in 1..Len(q) : q[n] \in S
OBVIOUS

\* The sources and their messages.
LEMMA SourceTypes ==
  ASSUME Shape
  PROVE  /\ DOMAIN srcs \in SUBSET Nat
         /\ \A s \in DOMAIN srcs :
              /\ Len(srcs[s].msgs) \in Nat /\ DOMAIN srcs[s].msgs = 1..Len(srcs[s].msgs)
              /\ at[s] \in Nat \ {0}
              /\ \A n \in 1..Len(srcs[s].msgs) :
                   srcs[s].msgs[n].ts \in Nat /\ srcs[s].msgs[n].ts <= LastTs
<1>1. srcs \in SourceLists /\ at \in [DOMAIN srcs -> Nat \ {0}]
  BY DEF Shape
<1>2. DOMAIN srcs = 1..Len(srcs) /\ Len(srcs) \in Nat
  BY <1>1
<1>3. ASSUME NEW s \in DOMAIN srcs
      PROVE  /\ Len(srcs[s].msgs) \in Nat /\ DOMAIN srcs[s].msgs = 1..Len(srcs[s].msgs)
             /\ \A n \in 1..Len(srcs[s].msgs) :
                  srcs[s].msgs[n].ts \in Nat /\ srcs[s].msgs[n].ts <= LastTs
  <2>1. srcs[s].msgs \in Seq([ch: Nat, ts: 0..LastTs])
    BY <1>1
  <2>2. /\ Len(srcs[s].msgs) \in Nat /\ DOMAIN srcs[s].msgs = 1..Len(srcs[s].msgs)
        /\ \A n \in 1..Len(srcs[s].msgs) : srcs[s].msgs[n] \in [ch: Nat, ts: 0..LastTs]
    BY <2>1, SeqElements
  <2>3. \A m \in [ch: Nat, ts: 0..LastTs] : m.ts \in Nat /\ m.ts <= LastTs
    OBVIOUS
  <2>4. QED
    BY <2>2, <2>3
<1>4. QED
  BY <1>1, <1>2, <1>3

LEMMA HeadTypes ==
  ASSUME Shape, NEW s \in Waiting
  PROVE  HeadOf(s).ts \in Nat /\ HeadOf(s).ts <= LastTs
BY SourceTypes DEF Waiting, HeadOf

\* The search of Merge (splitter.cpp:337) finds the earliest head, of equal
\* ones that of the first source.
LEMMA BestIsFirst ==
  ASSUME Shape, Ready # {}
  PROVE  /\ Best \in Waiting /\ HeadOf(Best).ts < LastTs
         /\ \A s \in Waiting :
              HeadOf(Best).ts < HeadOf(s).ts \/ (HeadOf(Best).ts = HeadOf(s).ts /\ Best <= s)
<1> DEFINE First(s) ==
             \A r \in Ready : \/ HeadOf(s).ts < HeadOf(r).ts
                              \/ HeadOf(s).ts = HeadOf(r).ts /\ s <= r
           Times == {HeadOf(s).ts : s \in Ready}
<1>1. Ready = {s \in Waiting : HeadOf(s).ts < LastTs}
  BY DEF Ready, Waiting
<1>2. \A s \in Ready : HeadOf(s).ts \in Nat /\ s \in Nat
  BY <1>1, HeadTypes, SourceTypes DEF Waiting
<1>3. PICK m \in Times : \A n \in Times : m <= n
  <2>1. Times \in SUBSET Nat /\ Times # {}
    BY <1>2
  <2> HIDE DEF Times
  <2>2. QED
    BY <2>1, Smallest
<1>4. PICK b \in {s \in Ready : HeadOf(s).ts = m} : \A s \in {s \in Ready : HeadOf(s).ts = m} : b <= s
  <2> DEFINE U == {s \in Ready : HeadOf(s).ts = m}
  <2>1. U \in SUBSET Nat /\ U # {}
    BY <1>2, <1>3
  <2>2. \E x \in U : \A n \in U : x <= n
    <3> HIDE DEF U
    <3>1. QED
      BY <2>1, Smallest
  <2>3. QED
    BY <2>2
<1>5. b \in Ready /\ First(b)
  <2>1. ASSUME NEW r \in Ready
        PROVE  HeadOf(b).ts < HeadOf(r).ts \/ (HeadOf(b).ts = HeadOf(r).ts /\ b <= r)
    <3>1. m <= HeadOf(r).ts /\ HeadOf(b).ts = m
      BY <1>3, <1>4
    <3>2. HeadOf(r).ts \in Nat /\ m \in Nat
      BY <1>2, <1>3
    <3>3. HeadOf(r).ts = m => b <= r
      BY <1>4
    <3>4. QED
      BY <3>1, <3>2, <3>3
  <2>2. QED
    BY <1>4, <2>1
<1>6. Best \in Ready /\ First(Best)
  BY <1>5 DEF Best
<1>7. ASSUME NEW s \in Waiting
      PROVE  HeadOf(Best).ts < HeadOf(s).ts \/ (HeadOf(Best).ts = HeadOf(s).ts /\ Best <= s)
  <2>1. CASE s \in Ready
    BY <1>6, <2>1
  <2>2. CASE s \notin Ready
    <3>1. HeadOf(s).ts = LastTs
      BY <1>1, <2>2, HeadTypes
    <3>2. HeadOf(Best).ts < LastTs
      BY <1>1, <1>6
    <3>3. QED
      BY <3>1, <3>2
  <2>3. QED
    BY <2>1, <2>2
<1>8. QED
  BY <1>1, <1>6, <1>7

-----------------------------------------------------------------------------
(***************************************************************************)
(* Steps that leave the log alone, and the one that adds to it.            *)
(***************************************************************************)
\* An output with another state or another annotation.
LEMMA OutputChanged ==
  ASSUME NEW d, IsOutput(d), NEW v
  PROVE  /\ IsOutput([d EXCEPT !.state = v]) /\ [d EXCEPT !.state = v].log = d.log
         /\ IsOutput([d EXCEPT !.notes = v]) /\ [d EXCEPT !.notes = v].log = d.log
         /\ IsOutput([d EXCEPT !.log = v]) /\ [d EXCEPT !.log = v].log = v
<1>1. PICK a, b, c, l, n :
        d = [state |-> a, channel |-> b, chans |-> c, log |-> l, notes |-> n]
  BY DEF IsOutput
<1>2. [d EXCEPT !.state = v] = [state |-> v, channel |-> b, chans |-> c, log |-> l, notes |-> n]
  BY <1>1
<1>3. [d EXCEPT !.notes = v] = [state |-> a, channel |-> b, chans |-> c, log |-> l, notes |-> v]
  BY <1>1
<1>4. [d EXCEPT !.log = v] = [state |-> a, channel |-> b, chans |-> c, log |-> v, notes |-> n]
  BY <1>1
<1>5. \A x1, x2, x3, x4, x5 :
        IsOutput([state |-> x1, channel |-> x2, chans |-> x3, log |-> x4, notes |-> x5])
  BY DEF IsOutput
<1>6. QED
  BY <1>1, <1>2, <1>3, <1>4, <1>5

\* A step that leaves the merged messages as they are.
LogKept ==
  /\ UNCHANGED <<op, srcs, at>>
  /\ dsts # <<>> /\ 1 \in DOMAIN dsts' /\ IsOutput(dsts'[1]) /\ dsts'[1].log = dsts[1].log
  /\ pc' \notin {"start", "open"} /\ (pc' = "stream" => pc = "stream")

LEMMA KeptInv ==
  ASSUME IInv, op = "merge", LogKept
  PROVE  IInv'
<1> USE DEF LogKept
<1>1. dsts' # <<>> /\ 1 \in DOMAIN dsts /\ IsLog(dsts[1].log)
  BY DEF IInv, Shape
<1>2. Shape'
  BY <1>1 DEF IInv, Shape
<1>3. OrderedSources' = OrderedSources /\ Waiting' = Waiting
  BY DEF OrderedSources, Waiting
<1>4. MergeInv'
  BY <1>3 DEF IInv, MergeInv, HeadsFollow, PrecedesHead, HeadOf
<1>5. QED
  BY <1>2, <1>4 DEF IInv

LEMMA AbandonKeeps ==
  ASSUME IInv, op = "merge", dsts # <<>>, NEW s, Abandon(s)
  PROVE  LogKept
<1>1. 1 \in DOMAIN dsts /\ IsOutput(dsts[1])
  BY DEF IInv, Shape
<1>2. dsts'[1] = IF dsts[1].state = "open" THEN [dsts[1] EXCEPT !.state = "closed"] ELSE dsts[1]
  BY <1>1 DEF Abandon, Abandoned, CloseOuts
<1>3. 1 \in DOMAIN dsts'
  BY <1>1 DEF Abandon, Abandoned, CloseOuts
<1>4. IsOutput(dsts'[1]) /\ dsts'[1].log = dsts[1].log
  <2>1. /\ IsOutput([dsts[1] EXCEPT !.state = "closed"])
        /\ [dsts[1] EXCEPT !.state = "closed"].log = dsts[1].log
    BY <1>1, OutputChanged
  <2>2. CASE dsts[1].state = "open"
    BY <1>2, <2>1, <2>2
  <2>3. CASE dsts[1].state # "open"
    BY <1>1, <1>2, <2>3
  <2>4. QED
    BY <2>2, <2>3
<1>5. QED
  BY <1>3, <1>4 DEF LogKept, Abandon, Return, input

\* A merge writes the first of the waiting messages.
LEMMA MergeMessageInv ==
  ASSUME IInv, MergeMessage
  PROVE  IInv'
<1> DEFINE log == dsts[1].log
           e == Logged(Best, DstChannel(Best, HeadOf(Best).ch))
<1>1. /\ op = "merge" /\ pc = "stream" /\ Ready # {}
      /\ dsts' = [dsts EXCEPT ![1].log = Append(log, e)]
      /\ \/ at' = AdvancedBest /\ pc' = "stream"
         \/ at' = at /\ pc' = "sort"
      /\ UNCHANGED <<op, srcs>>
  BY DEF MergeMessage, input
<1>2. dsts # <<>> /\ 1 \in DOMAIN dsts /\ IsOutput(dsts[1]) /\ IsLog(log) /\ Shape
  BY <1>1 DEF IInv, Shape
<1>3. Best \in Waiting /\ Best \in DOMAIN srcs /\ Best \in Nat /\ HeadOf(Best).ts \in Nat
  BY <1>1, <1>2, BestIsFirst, HeadTypes, SourceTypes DEF Waiting
<1>4. e.src = Best /\ e.ts = HeadOf(Best).ts
  BY DEF Logged
<1>5. 1 \in DOMAIN dsts' /\ IsOutput(dsts'[1]) /\ dsts'[1].log = Append(log, e)
  <2>1. dsts'[1] = [dsts[1] EXCEPT !.log = Append(log, e)] /\ 1 \in DOMAIN dsts'
    BY <1>1, <1>2
  <2>2. /\ IsOutput([dsts[1] EXCEPT !.log = Append(log, e)])
        /\ [dsts[1] EXCEPT !.log = Append(log, e)].log = Append(log, e)
    <3> HIDE DEF e
    <3>1. QED
      BY <1>2, OutputChanged
  <2>3. QED
    BY <2>1, <2>2
<1>6. /\ DOMAIN Append(log, e) = DOMAIN log \cup {Len(log) + 1}
      /\ DOMAIN log = 1..Len(log) /\ Len(log) \in Nat
      /\ \A k \in DOMAIN log : Append(log, e)[k] = log[k]
      /\ Append(log, e)[Len(log) + 1] = e
      /\ IsSeq(Append(log, e))
  <2> HIDE DEF log, e
  <2>1. IsSeq(log)
    BY <1>2 DEF IsLog
  <2>2. QED
    BY <2>1, AppendSeq
<1>7. Shape'
  <2>1. at' \in [DOMAIN srcs -> Nat \ {0}]
    BY <1>1, <1>2 DEF Shape, AdvancedBest
  <2>2. IsLog(Append(log, e))
    <3> HIDE DEF log, e
    <3>1. QED
      BY <1>2, <1>3, <1>4, <1>6 DEF IsLog
  <2>3. IsLog(dsts'[1].log)
    BY <1>5, <2>2
  <2>4. srcs' \in SourceLists /\ at' \in [DOMAIN srcs' -> Nat \ {0}]
    BY <1>1, <1>2, <2>1 DEF Shape
  <2>5. pc' \in {"stream", "sort"} /\ dsts' # <<>> /\ 1 \in DOMAIN dsts' /\ IsOutput(dsts'[1])
    BY <1>1, <1>5
  <2>6. QED
    BY <2>3, <2>4, <2>5 DEF Shape
<1>8. ASSUME OrderedSources
      PROVE  LogOrdered(Append(log, e)) /\ HeadsFollow'
  <2>1. LogOrdered(log) /\ \A k \in DOMAIN log : \A s \in Waiting : PrecedesHead(log[k], s)
    BY <1>1, <1>2, <1>8 DEF IInv, MergeInv, HeadsFollow
  <2>2. \A k \in DOMAIN log : Precedes(log[k], e)
    BY <1>3, <1>4, <2>1 DEF Precedes, PrecedesHead
  <2>3. LogOrdered(Append(log, e))
    <3> HIDE DEF log, e
    <3>1. ASSUME NEW j \in DOMAIN Append(log, e), NEW k \in DOMAIN Append(log, e), j < k
          PROVE  Precedes(Append(log, e)[j], Append(log, e)[k])
      <4>1. j \in DOMAIN log
        BY <1>6, <3>1
      <4>2. CASE k \in DOMAIN log
        BY <1>6, <2>1, <3>1, <4>1, <4>2 DEF LogOrdered
      <4>3. CASE k = Len(log) + 1
        BY <1>6, <2>2, <4>1, <4>3
      <4>4. QED
        BY <1>6, <4>2, <4>3
    <3>2. QED
      BY <3>1 DEF LogOrdered
  <2>4. ASSUME pc' = "stream", NEW k \in DOMAIN Append(log, e), NEW s \in Waiting'
        PROVE  \/ Append(log, e)[k].ts < HeadOf(s)'.ts
               \/ Append(log, e)[k].ts = HeadOf(s)'.ts /\ Append(log, e)[k].src <= s
    <3>1. at' = [at EXCEPT ![Best] = @ + 1] /\ srcs' = srcs
      BY <1>1, <2>4 DEF AdvancedBest
    <3>2. at \in [DOMAIN srcs -> Nat \ {0}] /\ s \in DOMAIN srcs /\ s \in Nat
      BY <1>2, <2>4, <3>1, SourceTypes DEF Shape, Waiting
    <3>3. s \in Waiting
      BY <1>2, <2>4, <3>1, <3>2, SourceTypes DEF Waiting
    <3>4. HeadOf(s).ts \in Nat /\ HeadOf(s).ts <= HeadOf(s)'.ts /\ HeadOf(s)'.ts \in Nat
      <4>1. CASE s # Best
        BY <1>2, <3>1, <3>2, <3>3, <4>1, HeadTypes DEF HeadOf
      <4>2. CASE s = Best
        <5>1. at'[s] = at[s] + 1 /\ at[s] \in 1..Len(srcs[s].msgs) /\ at[s] + 1 \in 1..Len(srcs[s].msgs)
          BY <1>2, <2>4, <3>1, <3>2, <3>3, <4>2, SourceTypes DEF Waiting
        <5>2. srcs[s].msgs[at[s]].ts <= srcs[s].msgs[at[s] + 1].ts
          <6>1. Ordered(srcs[s].msgs) /\ DOMAIN srcs[s].msgs = 1..Len(srcs[s].msgs)
            BY <1>2, <1>8, <3>2, SourceTypes DEF OrderedSources
          <6>2. at[s] < at[s] + 1
            BY <5>1
          <6>3. QED
            BY <5>1, <6>1, <6>2 DEF Ordered
        <5>3. srcs[s].msgs[at[s]].ts \in Nat /\ srcs[s].msgs[at[s] + 1].ts \in Nat
          BY <1>2, <3>2, <5>1, SourceTypes
        <5>4. QED
          BY <3>1, <5>1, <5>2, <5>3 DEF HeadOf
      <4>3. QED
        BY <4>1, <4>2
    <3>5. PrecedesHead(Append(log, e)[k], s)
      <4>1. CASE k \in DOMAIN log
        BY <1>6, <2>1, <3>3, <4>1
      <4>2. CASE k = Len(log) + 1
        <5>1. HeadOf(Best).ts < HeadOf(s).ts \/ (HeadOf(Best).ts = HeadOf(s).ts /\ Best <= s)
          BY <1>1, <1>2, <3>3, BestIsFirst
        <5>2. QED
          BY <1>4, <1>6, <4>2, <5>1 DEF PrecedesHead
      <4>3. QED
        BY <1>6, <4>1, <4>2
    <3>6. Append(log, e)[k].ts \in Nat
      BY <1>2, <1>3, <1>4, <1>6 DEF IsLog
    <3> DEFINE x == Append(log, e)[k]
               h == HeadOf(s).ts
               g == HeadOf(s)'.ts
    <3>7. /\ h \in Nat /\ h <= g /\ g \in Nat /\ x.ts \in Nat
          /\ x.ts < h \/ (x.ts = h /\ x.src <= s)
      BY <3>4, <3>5, <3>6 DEF PrecedesHead
    <3> HIDE DEF x, h, g
    <3>8. x.ts < g \/ (x.ts = g /\ x.src <= s)
      BY <3>7
    <3>9. QED
      BY <3>8 DEF x, g
  <2>5. HeadsFollow'
    BY <1>5, <2>4 DEF HeadsFollow, PrecedesHead
  <2>6. QED
    BY <2>3, <2>5
<1>9. OrderedSources' = OrderedSources
  BY <1>1 DEF OrderedSources
<1>10. MergeInv'
  BY <1>5, <1>8, <1>9 DEF MergeInv
<1>11. QED
  BY <1>7, <1>10 DEF IInv

-----------------------------------------------------------------------------
(***************************************************************************)
(* The other steps of a merge, and those of a split.                       *)
(***************************************************************************)
LEMMA StartInv ==
  ASSUME IInv, op = "merge", pc = "start", Next
  PROVE  IInv'
<1>1. dsts = <<>> /\ Shape
  BY DEF IInv, Shape
<1>2. UNCHANGED <<op, srcs, at>>
  BY <1>1 DEF Next, OpenSourceFails, MergeRefused, Refuse, MergeOpens, MergeOpenFails, SplitRefused,
              SplitBegins, SplitOpens, SplitOpenFails, SplitOpened, MergeMessage,
              MergeUnknownChannel, SplitMessage, WriteFails, StreamEnds, CollectNotes, WriteNote,
              WriteNoteFails, NotesWritten, CloseNext, CloseFails, Done, input
<1>3. \/ pc' = "done" /\ dsts' = <<>>
      \/ /\ pc' \in {"stream", "done"}
         /\ \E s \in {"open", "closed"}, names \in {<<>>, MergedNames} :
              dsts' = <<[state |-> s, channel |-> 0, chans |-> names, log |-> <<>>, notes |-> <<>>]>>
  <2>1. CASE OpenSourceFails \/ MergeRefused \/ SplitRefused
    BY <1>1, <2>1 DEF OpenSourceFails, MergeRefused, SplitRefused, Refuse, Return
  <2>2. CASE MergeOpens
    <3>1. dsts' = <<[state |-> "open", channel |-> 0, chans |-> MergedNames,
                     log |-> <<>>, notes |-> <<>>]>>
      BY <2>2 DEF MergeOpens
    <3>2. pc' = "stream"
      BY <2>2 DEF MergeOpens
    <3>3. QED
      BY <3>1, <3>2
  <2>3. CASE MergeOpenFails
    BY <2>3 DEF MergeOpenFails, NewOutput, Return
  <2>4. QED
    BY <2>1, <2>2, <2>3 DEF Next, SplitBegins, SplitOpens, SplitOpenFails, SplitOpened,
              MergeMessage, MergeUnknownChannel, SplitMessage, WriteFails, StreamEnds,
              CollectNotes, WriteNote, WriteNoteFails, NotesWritten, CloseNext, CloseFails, Done
<1>4. dsts' # <<>> => /\ 1 \in DOMAIN dsts' /\ IsOutput(dsts'[1]) /\ dsts'[1].log = <<>>
  BY <1>3 DEF IsOutput
<1>5. IsLog(<<>>)
  <2>1. <<>> \in Seq({})
    OBVIOUS
  <2>2. DOMAIN <<>> = {}
    OBVIOUS
  <2>3. {(<<>>)[k] : k \in DOMAIN <<>>} = {}
    BY <2>2
  <2>4. QED
    BY <2>1, <2>2, <2>3 DEF IsLog, IsSeq
<1>6. Shape'
  <2>1. pc' # "open" /\ pc' # "start" /\ (pc' # "done" => dsts' # <<>>)
    BY <1>3
  <2>2. dsts' # <<>> => IsLog(dsts'[1].log)
    BY <1>4, <1>5
  <2>3. QED
    BY <1>1, <1>2, <1>4, <2>1, <2>2 DEF Shape
<1>7. MergeInv'
  <2>1. dsts' # <<>> => DOMAIN dsts'[1].log = {}
    BY <1>4
  <2>2. QED
    BY <2>1 DEF MergeInv, LogOrdered, HeadsFollow
<1>8. QED
  BY <1>6, <1>7 DEF IInv

LEMMA EndInv ==
  ASSUME IInv, op = "merge", pc # "start",
         \/ MergeUnknownChannel \/ WriteFails \/ StreamEnds \/ CollectNotes \/ WriteNote
         \/ WriteNoteFails \/ NotesWritten \/ CloseNext \/ CloseFails \/ Done
  PROVE  IInv'
<1>1. dsts # <<>> /\ 1 \in DOMAIN dsts /\ IsOutput(dsts[1])
  BY DEF IInv, Shape, MergeUnknownChannel, WriteFails, StreamEnds, CollectNotes, WriteNote,
         WriteNoteFails, NotesWritten, CloseNext, CloseFails, Done
<1>2. CASE MergeUnknownChannel \/ WriteFails \/ WriteNoteFails
  BY <1>1, <1>2, AbandonKeeps, KeptInv DEF MergeUnknownChannel, WriteFails, WriteNoteFails
<1>3. CASE StreamEnds \/ CollectNotes \/ NotesWritten \/ Done
  <2>1. LogKept
    BY <1>1, <1>3 DEF LogKept, StreamEnds, CollectNotes, NotesWritten, Done, Return, input
  <2>2. QED
    BY <2>1, KeptInv
<1>4. CASE WriteNote
  <2>1. PICK v : dsts' = [dsts EXCEPT ![to].notes = v]
    BY <1>4 DEF WriteNote
  <2>2. IsOutput([dsts[1] EXCEPT !.notes = v]) /\ [dsts[1] EXCEPT !.notes = v].log = dsts[1].log
    BY <1>1, OutputChanged
  <2>3. dsts'[1] = [dsts[1] EXCEPT !.notes = v] \/ dsts'[1] = dsts[1]
    BY <1>1, <2>1
  <2>4. IsOutput(dsts'[1]) /\ dsts'[1].log = dsts[1].log
    BY <1>1, <2>2, <2>3
  <2>5. 1 \in DOMAIN dsts'
    BY <1>1, <2>1
  <2>6. LogKept
    BY <1>1, <1>4, <2>4, <2>5 DEF LogKept, WriteNote, input
  <2>7. QED
    BY <2>6, KeptInv
<1>5. CASE CloseNext \/ CloseFails
  <2>1. 1 \in DOMAIN dsts' /\ \/ dsts'[1] = dsts[1]
                              \/ dsts'[1] = [dsts[1] EXCEPT !.state = "closed"]
                              \/ dsts'[1] = [dsts[1] EXCEPT !.state = "dropped"]
    BY <1>1, <1>5 DEF CloseNext, CloseFails
  <2>2. /\ IsOutput([dsts[1] EXCEPT !.state = "closed"])
        /\ [dsts[1] EXCEPT !.state = "closed"].log = dsts[1].log
        /\ IsOutput([dsts[1] EXCEPT !.state = "dropped"])
        /\ [dsts[1] EXCEPT !.state = "dropped"].log = dsts[1].log
    BY <1>1, OutputChanged
  <2>3. IsOutput(dsts'[1]) /\ dsts'[1].log = dsts[1].log
    <3>1. CASE dsts'[1] = dsts[1]
      BY <1>1, <3>1
    <3>2. CASE dsts'[1] = [dsts[1] EXCEPT !.state = "closed"]
      BY <2>2, <3>2
    <3>3. CASE dsts'[1] = [dsts[1] EXCEPT !.state = "dropped"]
      BY <2>2, <3>3
    <3>4. QED
      BY <2>1, <3>1, <3>2, <3>3
  <2>4. LogKept
    BY <1>1, <1>5, <2>1, <2>3 DEF LogKept, CloseNext, CloseFails, Return, input
  <2>5. QED
    BY <2>4, KeptInv
<1>6. QED
  BY <1>2, <1>3, <1>4, <1>5

LEMMA SplitInv ==
  ASSUME IInv, op # "merge", Next
  PROVE  IInv'
<1>1. op' = op /\ srcs' = srcs /\ (at' = at \/ at' = AdvancedBest \/ at' = [at EXCEPT ![1] = @ + 1])
  BY DEF Next, OpenSourceFails, MergeRefused, Refuse, MergeOpens, MergeOpenFails, SplitRefused,
         SplitBegins, SplitOpens, SplitOpenFails, SplitOpened, MergeMessage, MergeUnknownChannel,
         SplitMessage, WriteFails, StreamEnds, CollectNotes, WriteNote, WriteNoteFails,
         NotesWritten, CloseNext, CloseFails, Done, Abandon, input
<1>2. at' \in [DOMAIN srcs -> Nat \ {0}]
  BY <1>1 DEF IInv, Shape, AdvancedBest
<1>3. QED
  BY <1>1, <1>2 DEF IInv, Shape, MergeInv

LEMMA InitInv ==
  ASSUME Init
  PROVE  IInv
BY DEF Init, IInv, Shape, MergeInv

LEMMA NextInv ==
  ASSUME IInv, [Next]_vars
  PROVE  IInv'
<1>1. CASE UNCHANGED vars
  <2> USE <1>1 DEF vars, input
  <2>1. Shape'
    BY DEF IInv, Shape
  <2>2. MergeInv'
    BY DEF IInv, MergeInv, OrderedSources, HeadsFollow, Waiting, PrecedesHead, HeadOf
  <2>3. QED
    BY <2>1, <2>2 DEF IInv
<1>2. CASE Next /\ op # "merge"
  BY <1>2, SplitInv
<1>3. CASE Next /\ op = "merge" /\ pc = "start"
  BY <1>3, StartInv
<1>4. CASE Next /\ op = "merge" /\ pc # "start"
  <2>1. pc # "open"
    BY <1>4 DEF IInv, Shape
  <2>2. \/ MergeMessage \/ MergeUnknownChannel \/ WriteFails \/ StreamEnds \/ CollectNotes
        \/ WriteNote \/ WriteNoteFails \/ NotesWritten \/ CloseNext \/ CloseFails \/ Done
    BY <1>4, <2>1 DEF Next, OpenSourceFails, MergeRefused, Refuse, MergeOpens, MergeOpenFails,
                      SplitRefused, SplitBegins, SplitOpens, SplitOpenFails, SplitOpened, SplitMessage
  <2>3. QED
    BY <1>4, <2>2, MergeMessageInv, EndInv
<1>5. QED
  BY <1>1, <1>2, <1>3, <1>4

THEOREM Invariance == Spec => []IInv
BY InitInv, NextInv, PTL DEF Spec

\* Whatever the number and lengths of ordered sources, the merged log is in
\* order of time and equal times keep the order of the sources: the search for
\* the next message (splitter.cpp:337) and the refill of the one head it took.
THEOREM MergeKeepsOrder == Spec => []MergeOrdered
<1>1. IInv => MergeOrdered
  BY DEF IInv, MergeInv, OrderedSources, LogOrdered, Precedes, MergeOrdered
<1>2. QED
  BY <1>1, Invariance, PTL

-----------------------------------------------------------------------------
(***************************************************************************)
(* The outputs: every one is opened before the messages, written by all    *)
(* annotations in turn, and closed in turn.                                *)
(***************************************************************************)
StateIn(k) ==
  CASE pc = "open"  -> IF k < to THEN "open" ELSE "new"
    [] pc = "close" -> IF k < to THEN "closed" ELSE "open"
    [] OTHER        -> "open"

OutputsInv ==
  /\ op \in {"merge", "split"} /\ (op = "split" => Len(srcs) = 1)
  /\ opts \in Options /\ srcs \in SourceLists
  /\ pc \in {"start", "open", "stream", "sort", "notes", "close", "done"}
  /\ IsSeq(dsts) /\ \A k \in DOMAIN dsts : IsOutput(dsts[k])
  /\ to \in Nat \ {0} /\ to <= Len(dsts) + 1
  /\ pc = "start" => dsts = <<>> /\ to = 1
  /\ pc \notin {"start", "done"} => Len(dsts) > 0
  /\ pc # "done" => st = "none"
  /\ pc # "done" => \A k \in DOMAIN dsts : dsts[k].state = StateIn(k)
  /\ pc = "notes" => to <= Len(dsts) /\ (notes = <<>> => to = 1)
  /\ OutputsClosed
  /\ pc = "done" => \A k \in DOMAIN dsts : dsts[k].state \in {"new", "closed", "dropped"}

\* An output with these fields.
Renewed(d, state, noted) == IsOutput(d) /\ d.state = state /\ d.notes = noted

LEMMA StateChanged ==
  ASSUME NEW d, IsOutput(d), NEW v
  PROVE  Renewed([d EXCEPT !.state = v], v, d.notes)
<1>1. PICK a, b, c, l, n :
        d = [state |-> a, channel |-> b, chans |-> c, log |-> l, notes |-> n]
  BY DEF IsOutput
<1>2. [d EXCEPT !.state = v] = [state |-> v, channel |-> b, chans |-> c, log |-> l, notes |-> n]
  BY <1>1
<1>3. QED
  BY <1>1, <1>2 DEF Renewed, IsOutput

LEMMA NotesChanged ==
  ASSUME NEW d, IsOutput(d), NEW v
  PROVE  Renewed([d EXCEPT !.notes = v], d.state, v)
<1>1. PICK a, b, c, l, n :
        d = [state |-> a, channel |-> b, chans |-> c, log |-> l, notes |-> n]
  BY DEF IsOutput
<1>2. [d EXCEPT !.notes = v] = [state |-> a, channel |-> b, chans |-> c, log |-> l, notes |-> v]
  BY <1>1
<1>3. QED
  BY <1>1, <1>2 DEF Renewed, IsOutput

LEMMA LogChanged ==
  ASSUME NEW d, IsOutput(d), NEW v
  PROVE  Renewed([d EXCEPT !.log = v], d.state, d.notes)
<1>1. PICK a, b, c, l, n :
        d = [state |-> a, channel |-> b, chans |-> c, log |-> l, notes |-> n]
  BY DEF IsOutput
<1>2. [d EXCEPT !.log = v] = [state |-> a, channel |-> b, chans |-> c, log |-> v, notes |-> n]
  BY <1>1
<1>3. QED
  BY <1>1, <1>2 DEF Renewed, IsOutput

LEMMA ChansChanged ==
  ASSUME NEW d, IsOutput(d), NEW v
  PROVE  Renewed([d EXCEPT !.chans = v], d.state, d.notes)
<1>1. PICK a, b, c, l, n :
        d = [state |-> a, channel |-> b, chans |-> c, log |-> l, notes |-> n]
  BY DEF IsOutput
<1>2. [d EXCEPT !.chans = v] = [state |-> a, channel |-> b, chans |-> v, log |-> l, notes |-> n]
  BY <1>1
<1>3. QED
  BY <1>1, <1>2 DEF Renewed, IsOutput

-----------------------------------------------------------------------------
(***************************************************************************)
(* What each step does to the outputs.                                     *)
(***************************************************************************)
\* The same outputs, each with a state and annotations.
SameOutputs ==
  /\ IsSeq(dsts') /\ Len(dsts') = Len(dsts) /\ DOMAIN dsts' = DOMAIN dsts
  /\ \A k \in DOMAIN dsts : IsOutput(dsts'[k])

NotesSame == \A k \in DOMAIN dsts : dsts'[k].notes = dsts[k].notes

LEMMA ClosedAll ==
  ASSUME OutputsInv, NEW s, Abandon(s)
  PROVE  /\ SameOutputs /\ NotesSame /\ pc' = "done" /\ st' = s /\ to' = to
         /\ \A k \in DOMAIN dsts : dsts'[k].state = IF dsts[k].state = "open" THEN "closed" ELSE dsts[k].state
<1>1. /\ dsts' = [k \in DOMAIN dsts |->
                   IF dsts[k].state = "open" THEN [dsts[k] EXCEPT !.state = "closed"] ELSE dsts[k]]
      /\ pc' = "done" /\ st' = s /\ to' = to
  BY DEF Abandon, Abandoned, CloseOuts, Return
<1>2. DOMAIN dsts = 1..Len(dsts) /\ Len(dsts) \in Nat /\ \A k \in DOMAIN dsts : IsOutput(dsts[k])
  BY DEF OutputsInv, IsSeq
<1>3. DOMAIN dsts' = 1..Len(dsts) /\ dsts' = [k \in 1..Len(dsts) |-> dsts'[k]]
  BY <1>1, <1>2
<1>4. IsSeq(dsts') /\ Len(dsts') = Len(dsts)
  BY <1>2, <1>3, IsSeqOf
<1>5. ASSUME NEW k \in DOMAIN dsts
      PROVE  /\ IsOutput(dsts'[k]) /\ dsts'[k].notes = dsts[k].notes
             /\ dsts'[k].state = IF dsts[k].state = "open" THEN "closed" ELSE dsts[k].state
  <2>1. dsts'[k] = IF dsts[k].state = "open" THEN [dsts[k] EXCEPT !.state = "closed"] ELSE dsts[k]
    BY <1>1
  <2>2. Renewed([dsts[k] EXCEPT !.state = "closed"], "closed", dsts[k].notes)
    BY <1>2, StateChanged
  <2>3. CASE dsts[k].state = "open"
    BY <2>1, <2>2, <2>3 DEF Renewed
  <2>4. CASE dsts[k].state # "open"
    BY <1>2, <2>1, <2>4
  <2>5. QED
    BY <2>3, <2>4
<1>6. QED
  BY <1>1, <1>2, <1>3, <1>4, <1>5 DEF SameOutputs, NotesSame

LEMMA SourceStays ==
  ASSUME Next
  PROVE  UNCHANGED <<op, opts, srcs>>
BY DEF Next, OpenSourceFails, MergeRefused, Refuse, MergeOpens, MergeOpenFails, SplitRefused,
       SplitBegins, SplitOpens, SplitOpenFails, SplitOpened, MergeMessage, MergeUnknownChannel,
       SplitMessage, WriteFails, StreamEnds, CollectNotes, WriteNote, WriteNoteFails,
       NotesWritten, CloseNext, CloseFails, Done, Abandon, input

\* An operation that ends here leaves no output open.
LEMMA AbandonOutputs ==
  ASSUME OutputsInv, pc # "done", NEW s, s # "Ok", Abandon(s)
  PROVE  OutputsInv'
<1>1. /\ SameOutputs /\ pc' = "done" /\ st' = s /\ to' = to
      /\ \A k \in DOMAIN dsts : dsts'[k].state = IF dsts[k].state = "open" THEN "closed"
                                                 ELSE dsts[k].state
  BY ClosedAll
<1>2. \A k \in DOMAIN dsts : dsts'[k].state \in {"new", "closed"}
  <2>1. \A k \in DOMAIN dsts : dsts[k].state \in {"new", "open", "closed"}
    BY DEF OutputsInv, StateIn
  <2>2. QED
    BY <1>1, <2>1
<1>3. UNCHANGED <<op, opts, srcs>>
  BY DEF Abandon, input
<1>4. OutputsClosed'
  BY <1>1, <1>2 DEF SameOutputs, OutputsClosed
<1>5. QED
  BY <1>1, <1>2, <1>3, <1>4 DEF OutputsInv, SameOutputs

\* One output after another is opened, or closed.
LEMMA SplitOpensOutputs ==
  ASSUME OutputsInv, SplitOpens \/ SplitOpened
  PROVE  OutputsInv' /\ SameOutputs /\ NotesSame
<1>1. /\ pc = "open" /\ UNCHANGED <<op, opts, srcs, st>>
      /\ IsSeq(dsts) /\ DOMAIN dsts = 1..Len(dsts) /\ Len(dsts) \in Nat /\ Len(dsts) > 0
      /\ st = "none" /\ to \in Nat \ {0} /\ to <= Len(dsts) + 1
      /\ \A k \in DOMAIN dsts : IsOutput(dsts[k])
      /\ \A k \in DOMAIN dsts : dsts[k].state = IF k < to THEN "open" ELSE "new"
  BY DEF SplitOpens, SplitOpened, OutputsInv, IsSeq, StateIn, input
<1>2. CASE SplitOpens
  <2> DEFINE o == [dsts[to] EXCEPT !.state = "open"]
             mid == [dsts EXCEPT ![to] = o]
             e == [mid[to] EXCEPT !.chans = <<ToExtract[to].name>>]
  <2>1. /\ dsts' = [mid EXCEPT ![to] = e] /\ to' = to + 1 /\ pc' = "open" /\ to \in DOMAIN dsts
    BY <1>1, <1>2 DEF SplitOpens
  <2>9. Renewed(o, "open", dsts[to].notes)
    BY <1>1, <2>1, StateChanged
  <2> HIDE DEF o
  <2>10. /\ IsSeq(mid) /\ Len(mid) = Len(dsts) /\ DOMAIN mid = DOMAIN dsts
         /\ \A k \in DOMAIN dsts : mid[k] = IF k = to THEN o ELSE dsts[k]
    BY <1>1, <2>1, ReplaceSeq
  <2> HIDE DEF mid
  <2>11. IsOutput(mid[to]) /\ mid[to].state = "open" /\ mid[to].notes = dsts[to].notes
    BY <2>1, <2>9, <2>10 DEF Renewed
  <2>2. Renewed(e, "open", dsts[to].notes)
    BY <2>11, ChansChanged
  <2> HIDE DEF e
  <2>12. /\ IsSeq(dsts') /\ Len(dsts') = Len(mid) /\ DOMAIN dsts' = DOMAIN mid
         /\ \A k \in DOMAIN mid : dsts'[k] = IF k = to THEN e ELSE mid[k]
    BY <2>1, <2>10, ReplaceSeq
  <2>3. /\ IsSeq(dsts') /\ Len(dsts') = Len(dsts) /\ DOMAIN dsts' = DOMAIN dsts
        /\ \A k \in DOMAIN dsts : dsts'[k] = IF k = to THEN e ELSE dsts[k]
    BY <2>10, <2>12
  <2>4. SameOutputs /\ NotesSame
    BY <1>1, <2>2, <2>3 DEF SameOutputs, NotesSame, Renewed
  <2>5. \A k \in DOMAIN dsts : dsts'[k].state = IF k < to' THEN "open" ELSE "new"
    BY <1>1, <2>1, <2>2, <2>3 DEF Renewed
  <2>6. OutputsInv'
    BY <1>1, <2>1, <2>4, <2>5 DEF OutputsInv, OutputsClosed, SameOutputs, StateIn
  <2>7. QED
    BY <2>4, <2>6
<1>3. CASE SplitOpened
  <2>1. dsts' = dsts /\ to' = 1 /\ pc' = "stream" /\ to = Len(dsts) + 1
    BY <1>1, <1>3 DEF SplitOpened
  <2>2. SameOutputs /\ NotesSame
    BY <1>1, <2>1 DEF SameOutputs, NotesSame
  <2>3. \A k \in DOMAIN dsts : dsts'[k].state = "open"
    BY <1>1, <2>1
  <2>4. OutputsInv'
    BY <1>1, <2>1, <2>2, <2>3 DEF OutputsInv, OutputsClosed, SameOutputs, StateIn
  <2>5. QED
    BY <2>2, <2>4
<1>4. QED
  BY <1>2, <1>3

LEMMA CloseOutputs ==
  ASSUME OutputsInv, CloseNext \/ CloseFails \/ Done
  PROVE  OutputsInv' /\ SameOutputs /\ NotesSame
<1>1. /\ pc = "close" /\ UNCHANGED <<op, opts, srcs>>
      /\ IsSeq(dsts) /\ DOMAIN dsts = 1..Len(dsts) /\ Len(dsts) \in Nat /\ Len(dsts) > 0
      /\ st = "none" /\ to \in Nat \ {0} /\ to <= Len(dsts) + 1
      /\ \A k \in DOMAIN dsts : IsOutput(dsts[k])
      /\ \A k \in DOMAIN dsts : dsts[k].state = IF k < to THEN "closed" ELSE "open"
  BY DEF CloseNext, CloseFails, Done, OutputsInv, IsSeq, StateIn, input
<1>2. CASE CloseNext
  <2> DEFINE e == [dsts[to] EXCEPT !.state = "closed"]
  <2>1. /\ dsts' = [dsts EXCEPT ![to] = e] /\ to' = to + 1 /\ pc' = "close" /\ to \in DOMAIN dsts
        /\ st' = "none"
    BY <1>1, <1>2 DEF CloseNext
  <2>2. Renewed(e, "closed", dsts[to].notes)
    BY <1>1, <2>1, StateChanged
  <2> HIDE DEF e
  <2>3. /\ IsSeq(dsts') /\ Len(dsts') = Len(dsts) /\ DOMAIN dsts' = DOMAIN dsts
        /\ \A k \in DOMAIN dsts : dsts'[k] = IF k = to THEN e ELSE dsts[k]
    BY <1>1, <2>1, ReplaceSeq
  <2>4. SameOutputs /\ NotesSame
    BY <1>1, <2>2, <2>3 DEF SameOutputs, NotesSame, Renewed
  <2>5. \A k \in DOMAIN dsts : dsts'[k].state = IF k < to' THEN "closed" ELSE "open"
    BY <1>1, <2>1, <2>2, <2>3 DEF Renewed
  <2>6. OutputsInv'
    BY <1>1, <2>1, <2>4, <2>5 DEF OutputsInv, OutputsClosed, SameOutputs, StateIn
  <2>7. QED
    BY <2>4, <2>6
<1>3. CASE CloseFails
  <2>1. /\ dsts' = [k \in DOMAIN dsts |->
                     CASE k = to -> [dsts[k] EXCEPT !.state = "closed"]
                       [] k > to -> [dsts[k] EXCEPT !.state = "dropped"]
                       [] OTHER  -> dsts[k]]
        /\ pc' = "done" /\ st' = "ErrorIO" /\ to' = to
    BY <1>3 DEF CloseFails, Return
  <2>2. DOMAIN dsts' = 1..Len(dsts) /\ dsts' = [k \in 1..Len(dsts) |-> dsts'[k]]
    BY <1>1, <2>1
  <2>3. IsSeq(dsts') /\ Len(dsts') = Len(dsts)
    BY <1>1, <2>2, IsSeqOf
  <2>4. ASSUME NEW k \in DOMAIN dsts
        PROVE  /\ IsOutput(dsts'[k]) /\ dsts'[k].notes = dsts[k].notes
               /\ dsts'[k].state = IF k > to THEN "dropped" ELSE "closed"
    <3>1. IsOutput(dsts[k]) /\ k \in Nat /\ dsts[k].state = IF k < to THEN "closed" ELSE "open"
      BY <1>1
    <3>2. /\ Renewed([dsts[k] EXCEPT !.state = "closed"], "closed", dsts[k].notes)
          /\ Renewed([dsts[k] EXCEPT !.state = "dropped"], "dropped", dsts[k].notes)
      BY <3>1, StateChanged
    <3>3. CASE k = to
      <4>1. dsts'[k] = [dsts[k] EXCEPT !.state = "closed"] /\ ~ (k > to)
        BY <1>1, <2>1, <3>3
      <4>2. QED
        BY <3>2, <4>1 DEF Renewed
    <3>4. CASE k > to
      <4>1. dsts'[k] = [dsts[k] EXCEPT !.state = "dropped"]
        BY <1>1, <2>1, <3>4
      <4>2. QED
        BY <3>2, <3>4, <4>1 DEF Renewed
    <3>5. CASE k < to
      <4>1. dsts'[k] = dsts[k] /\ ~ (k > to)
        BY <1>1, <2>1, <3>1, <3>5
      <4>2. QED
        BY <3>1, <3>5, <4>1
    <3>6. QED
      BY <1>1, <3>1, <3>3, <3>4, <3>5
  <2>5. SameOutputs /\ NotesSame
    BY <1>1, <2>2, <2>3, <2>4 DEF SameOutputs, NotesSame
  <2>6. OutputsClosed' /\ \A k \in DOMAIN dsts' : dsts'[k].state \in {"new", "closed", "dropped"}
    BY <1>1, <2>1, <2>2, <2>4 DEF OutputsClosed
  <2>7. OutputsInv'
    BY <1>1, <2>1, <2>5, <2>6 DEF OutputsInv, SameOutputs
  <2>8. QED
    BY <2>5, <2>7
<1>4. CASE Done
  <2>1. dsts' = dsts /\ to' = to /\ pc' = "done" /\ to = Len(dsts) + 1
    BY <1>1, <1>4 DEF Done, Return
  <2>2. SameOutputs /\ NotesSame
    BY <1>1, <2>1 DEF SameOutputs, NotesSame
  <2>3. \A k \in DOMAIN dsts : dsts'[k].state = "closed"
    BY <1>1, <2>1
  <2>4. OutputsInv'
    BY <1>1, <2>1, <2>2, <2>3 DEF OutputsInv, OutputsClosed, SameOutputs
  <2>5. QED
    BY <2>2, <2>4
<1>5. QED
  BY <1>2, <1>3, <1>4

LEMMA MessageOutputs ==
  ASSUME OutputsInv, MergeMessage \/ SplitMessage
  PROVE  OutputsInv' /\ SameOutputs /\ NotesSame
<1>1. /\ pc = "stream" /\ pc' \in {"stream", "sort"} /\ UNCHANGED <<op, opts, srcs, to, st>>
      /\ IsSeq(dsts) /\ DOMAIN dsts = 1..Len(dsts) /\ Len(dsts) \in Nat /\ Len(dsts) > 0
      /\ \A k \in DOMAIN dsts : IsOutput(dsts[k]) /\ dsts[k].state = "open"
  BY DEF MergeMessage, SplitMessage, OutputsInv, IsSeq, StateIn, input
<1>2. /\ DOMAIN dsts' = 1..Len(dsts) /\ IsSeq(dsts') /\ Len(dsts') = Len(dsts)
      /\ \A k \in DOMAIN dsts :
           \/ dsts'[k] = dsts[k]
           \/ \E v : dsts'[k] = [dsts[k] EXCEPT !.log = v]
  <2>1. CASE MergeMessage
    <3> DEFINE v == Append(dsts[1].log, Logged(Best, DstChannel(Best, HeadOf(Best).ch)))
               e == [dsts[1] EXCEPT !.log = v]
    <3>1. dsts' = [dsts EXCEPT ![1] = e]
      BY <2>1 DEF MergeMessage
    <3> HIDE DEF e
    <3>2. 1 \in DOMAIN dsts
      BY <1>1
    <3>3. /\ IsSeq(dsts') /\ Len(dsts') = Len(dsts) /\ DOMAIN dsts' = DOMAIN dsts
          /\ \A k \in DOMAIN dsts : dsts'[k] = IF k = 1 THEN e ELSE dsts[k]
      BY <1>1, <3>1, <3>2, ReplaceSeq
    <3>4. \A k \in DOMAIN dsts : dsts'[k] = dsts[k] \/ \E w : dsts'[k] = [dsts[k] EXCEPT !.log = w]
      BY <3>3 DEF e
    <3>5. QED
      BY <1>1, <3>3, <3>4
  <2>2. CASE SplitMessage
    <3>1. dsts' = [k \in DOMAIN dsts |->
                IF k \in Routes(HeadOf(1))
                THEN [dsts[k] EXCEPT !.log = Append(dsts[k].log, Logged(1, 1))] ELSE dsts[k]]
      BY <2>2 DEF SplitMessage
    <3>2. DOMAIN dsts' = 1..Len(dsts) /\ dsts' = [k \in 1..Len(dsts) |-> dsts'[k]]
      BY <1>1, <3>1
    <3>3. IsSeq(dsts') /\ Len(dsts') = Len(dsts)
      BY <1>1, <3>2, IsSeqOf
    <3>4. ASSUME NEW k \in DOMAIN dsts
          PROVE  dsts'[k] = dsts[k] \/ \E w : dsts'[k] = [dsts[k] EXCEPT !.log = w]
      <4>1. \/ dsts'[k] = dsts[k]
            \/ dsts'[k] = [dsts[k] EXCEPT !.log = Append(dsts[k].log, Logged(1, 1))]
        BY <3>1
      <4>2. QED
        BY <4>1
    <3>5. QED
      BY <3>2, <3>3, <3>4
  <2>3. QED
    BY <2>1, <2>2
<1>3. ASSUME NEW k \in DOMAIN dsts
      PROVE  Renewed(dsts'[k], "open", dsts[k].notes)
  <2>1. CASE dsts'[k] = dsts[k]
    BY <1>1, <2>1 DEF Renewed
  <2>2. CASE \E v : dsts'[k] = [dsts[k] EXCEPT !.log = v]
    <3>1. PICK v : dsts'[k] = [dsts[k] EXCEPT !.log = v]
      BY <2>2
    <3>2. Renewed([dsts[k] EXCEPT !.log = v], dsts[k].state, dsts[k].notes)
      BY <1>1, LogChanged
    <3>3. QED
      BY <1>1, <3>1, <3>2
  <2>3. QED
    BY <1>2, <2>1, <2>2
<1>4. SameOutputs /\ NotesSame
  BY <1>1, <1>2, <1>3 DEF SameOutputs, NotesSame, Renewed
<1>5. \A k \in DOMAIN dsts : dsts'[k].state = "open"
  BY <1>3 DEF Renewed
<1>6. OutputsInv'
  BY <1>1, <1>4, <1>5 DEF OutputsInv, OutputsClosed, SameOutputs, StateIn
<1>7. QED
  BY <1>4, <1>6

LEMMA PhaseOutputs ==
  ASSUME OutputsInv, StreamEnds \/ CollectNotes \/ NotesWritten
  PROVE  OutputsInv' /\ SameOutputs /\ NotesSame
<1>1. /\ dsts' = dsts /\ UNCHANGED <<op, opts, srcs, st>> /\ Len(dsts) \in Nat /\ Len(dsts) > 0
      /\ pc \in {"stream", "sort", "notes"}
      /\ \A k \in DOMAIN dsts : IsOutput(dsts[k]) /\ dsts[k].state = "open"
  BY DEF StreamEnds, CollectNotes, NotesWritten, OutputsInv, IsSeq, StateIn, input
<1>2. SameOutputs /\ NotesSame
  BY <1>1 DEF SameOutputs, NotesSame, OutputsInv
<1>3. pc' \in {"sort", "notes", "close"} /\ (pc' # "sort" => to' = 1) /\ (pc' = "sort" => to' = to)
  BY DEF StreamEnds, CollectNotes, NotesWritten, OutputsInv
<1>4. \A k \in DOMAIN dsts : StateIn(k)' = "open"
  <2>1. \A k \in DOMAIN dsts : k >= 1
    BY DEF OutputsInv, IsSeq
  <2>2. QED
    BY <1>3, <2>1 DEF StateIn
<1>5. OutputsInv'
  BY <1>1, <1>3, <1>4 DEF OutputsInv, OutputsClosed
<1>6. QED
  BY <1>2, <1>5

\* One annotation more, in one output.
NoteWritten ==
  \A k \in DOMAIN dsts :
    dsts'[k].notes = IF k = to THEN Append(dsts[k].notes, Head(notes)) ELSE dsts[k].notes

LEMMA WriteNoteOutputs ==
  ASSUME OutputsInv, WriteNote
  PROVE  OutputsInv' /\ SameOutputs /\ NoteWritten
<1>1. /\ pc = "notes" /\ pc' = pc /\ notes # <<>> /\ UNCHANGED <<op, opts, srcs, st>>
      /\ IsSeq(dsts) /\ DOMAIN dsts = 1..Len(dsts) /\ Len(dsts) \in Nat /\ Len(dsts) > 0
      /\ to \in DOMAIN dsts
      /\ \A k \in DOMAIN dsts : IsOutput(dsts[k]) /\ dsts[k].state = "open"
  BY DEF WriteNote, OutputsInv, IsSeq, StateIn, input
<1> DEFINE v == Append(dsts[to].notes, Head(notes))
           e == [dsts[to] EXCEPT !.notes = v]
<1>2. dsts' = [dsts EXCEPT ![to] = e]
  BY DEF WriteNote
<1>3. Renewed(e, "open", v)
  <2> HIDE DEF v
  <2>1. QED
    BY <1>1, NotesChanged
<1> HIDE DEF e
<1>4. /\ IsSeq(dsts') /\ Len(dsts') = Len(dsts) /\ DOMAIN dsts' = DOMAIN dsts
      /\ \A k \in DOMAIN dsts : dsts'[k] = IF k = to THEN e ELSE dsts[k]
  BY <1>1, <1>2, ReplaceSeq
<1>5. SameOutputs /\ \A k \in DOMAIN dsts : dsts'[k].state = "open"
  BY <1>1, <1>3, <1>4 DEF SameOutputs, Renewed
<1>6. NoteWritten
  BY <1>3, <1>4 DEF NoteWritten, Renewed
<1>7. to' \in Nat \ {0} /\ to' <= Len(dsts) /\ (notes' = <<>> => to' = 1)
  BY <1>1 DEF WriteNote
<1>8. OutputsInv'
  BY <1>1, <1>5, <1>7 DEF OutputsInv, OutputsClosed, SameOutputs, StateIn
<1>9. QED
  BY <1>5, <1>6, <1>8

-----------------------------------------------------------------------------
(***************************************************************************)
(* The outputs to begin with.                                              *)
(***************************************************************************)
LEMMA ExtractIsSeq ==
  ASSUME OutputsInv, op = "split"
  PROVE  /\ DOMAIN ToExtract = 1..Len(ToExtract) /\ Len(ToExtract) \in Nat
         /\ ToExtract # <<>> => Len(ToExtract) > 0
<1> DEFINE C == ToSet(srcs[1].chans)
<1>1. 1 \in DOMAIN srcs /\ srcs[1].chans \in Seq(C) /\ opts.only \in Seq(Nat)
  <2>1. srcs \in SourceLists /\ Len(srcs) = 1 /\ opts.only \in ChannelLists
    BY DEF OutputsInv, Options
  <2>2. DOMAIN srcs = 1..Len(srcs)
    BY <2>1
  <2>3. QED
    BY <2>1, <2>2, ChannelsAssumption
<1>2. ToExtract \in Seq(C)
  <2>1. CASE opts.only = <<>>
    BY <1>1, <2>1 DEF ToExtract
  <2>2. CASE opts.only # <<>>
    <3> DEFINE Found(id) == {k \in DOMAIN srcs[1].chans : srcs[1].chans[k].id = id}
               Pick(j) == IF Found(opts.only[j]) = {} THEN <<>>
                          ELSE <<srcs[1].chans[Min(Found(opts.only[j]))]>>
               ss == [j \in DOMAIN opts.only |-> Pick(j)]
    <3>1. ToExtract = FlattenSeq(ss)
      BY <2>2 DEF ToExtract
    <3>2. ASSUME NEW j \in DOMAIN opts.only
          PROVE  Pick(j) \in Seq(C)
      <4> DEFINE F == Found(opts.only[j])
      <4>1. <<>> \in Seq(C)
        OBVIOUS
      <4>2. ASSUME F # {}
            PROVE  srcs[1].chans[Min(F)] \in C
        <5>1. F \in SUBSET Nat /\ F \subseteq DOMAIN srcs[1].chans
          BY <1>1
        <5>2. \E x \in F : \A y \in F : x <= y
          <6> HIDE DEF F
          <6>1. QED
            BY <4>2, <5>1, Smallest
        <5>3. Min(F) \in F
          <6> HIDE DEF F
          <6>1. QED
            BY <5>2 DEF Min
        <5>4. Min(F) \in DOMAIN srcs[1].chans
          BY <5>1, <5>3
        <5>5. QED
          BY <5>4 DEF ToSet
      <4>3. CASE F = {}
        BY <4>1, <4>3
      <4>4. CASE F # {}
        <5> DEFINE x == srcs[1].chans[Min(F)]
        <5>1. x \in C
          BY <4>2, <4>4
        <5>2. Pick(j) = <<x>>
          BY <4>4
        <5> HIDE DEF x, C
        <5>3. <<x>> \in Seq(C)
          BY <5>1
        <5>4. QED
          BY <5>2, <5>3
      <4>5. QED
        BY <4>3, <4>4
    <3>3. DOMAIN opts.only = 1..Len(opts.only) /\ Len(opts.only) \in Nat
      BY <1>1
    <3> HIDE DEF Pick, C
    <3>4. ss \in Seq(Seq(C))
      BY <3>2, <3>3
    <3> HIDE DEF ss
    <3>5. QED
      BY <3>1, <3>4, FlattenType
  <2>3. QED
    BY <2>1, <2>2
<1>3. QED
  BY <1>2

\* Outputs that have no annotations yet.
Unnoted(outputs) == \A k \in DOMAIN outputs : outputs[k].notes = <<>>

LEMMA OneOutput ==
  ASSUME NEW d, IsOutput(d)
  PROVE  IsSeq(<<d>>) /\ DOMAIN <<d>> = 1..1 /\ Len(<<d>>) = 1 /\ <<d>>[1] = d
<1>1. DOMAIN <<d>> = 1..1 /\ <<d>>[1] = d
  OBVIOUS
<1>2. <<d>> = [k \in 1..1 |-> <<d>>[k]]
  OBVIOUS
<1>3. QED
  BY <1>1, <1>2, IsSeqOf

LEMMA StartOutputs ==
  ASSUME OutputsInv, pc = "start", Next
  PROVE  OutputsInv' /\ Unnoted(dsts') /\ pc' \in {"open", "stream", "done"} /\ st' # "Ok"
<1>1. dsts = <<>> /\ to = 1 /\ st = "none" /\ UNCHANGED <<op, opts, srcs>>
  BY SourceStays DEF OutputsInv
<1>2. \/ OpenSourceFails \/ MergeRefused \/ SplitRefused
      \/ MergeOpens \/ MergeOpenFails \/ SplitBegins
  BY DEF Next, SplitOpens, SplitOpenFails, SplitOpened, MergeMessage, MergeUnknownChannel,
         SplitMessage, WriteFails, StreamEnds, CollectNotes, WriteNote, WriteNoteFails,
         NotesWritten, CloseNext, CloseFails, Done
<1>3. to' = 1
  BY <1>1, <1>2 DEF OpenSourceFails, MergeRefused, SplitRefused, Refuse, MergeOpens,
                    MergeOpenFails, SplitBegins
<1>4. CASE OpenSourceFails \/ MergeRefused \/ SplitRefused
  <2>1. dsts' = <<>> /\ pc' = "done" /\ st' # "Ok"
    BY <1>1, <1>4 DEF OpenSourceFails, MergeRefused, SplitRefused, Refuse, Return
  <2>2. OutputsInv'
    BY <1>1, <1>3, <2>1 DEF OutputsInv, OutputsClosed
  <2>3. QED
    BY <2>1, <2>2 DEF Unnoted
<1>5. CASE MergeOpens
  <2> DEFINE d == [state |-> "open", channel |-> 0, chans |-> MergedNames,
                   log |-> <<>>, notes |-> <<>>]
  <2>1. dsts' = <<d>> /\ pc' = "stream" /\ st' = "none"
    BY <1>1, <1>5 DEF MergeOpens
  <2>2. IsOutput(d) /\ d.state = "open" /\ d.notes = <<>>
    BY DEF IsOutput
  <2> HIDE DEF d
  <2>3. IsSeq(dsts') /\ DOMAIN dsts' = 1..1 /\ Len(dsts') = 1 /\ dsts'[1] = d
    BY <2>1, <2>2, OneOutput
  <2>4. OutputsInv'
    BY <1>1, <1>3, <2>1, <2>2, <2>3 DEF OutputsInv, OutputsClosed, StateIn
  <2>5. QED
    BY <2>1, <2>2, <2>3, <2>4 DEF Unnoted
<1>6. CASE MergeOpenFails
  <2>1. pc' = "done" /\ st' # "Ok" /\ (dsts' = <<>> \/ dsts' = <<[NewOutput(0) EXCEPT !.state = "closed"]>>)
    BY <1>6 DEF MergeOpenFails, Return
  <2>2. CASE dsts' = <<>>
    <3>1. OutputsInv'
      BY <1>1, <1>3, <2>1, <2>2 DEF OutputsInv, OutputsClosed
    <3>2. QED
      BY <2>1, <2>2, <3>1 DEF Unnoted
  <2>3. CASE dsts' = <<[NewOutput(0) EXCEPT !.state = "closed"]>>
    <3> DEFINE d == [NewOutput(0) EXCEPT !.state = "closed"]
    <3>1. IsOutput(NewOutput(0)) /\ NewOutput(0).notes = <<>>
      BY DEF IsOutput, NewOutput
    <3>2. IsOutput(d) /\ d.state = "closed" /\ d.notes = <<>>
      BY <3>1, StateChanged DEF Renewed
    <3> HIDE DEF d
    <3>3. IsSeq(<<d>>) /\ DOMAIN <<d>> = 1..1 /\ Len(<<d>>) = 1 /\ <<d>>[1] = d
      BY <3>2, OneOutput
    <3>4. dsts' = <<d>>
      BY <2>3 DEF d
    <3>5. OutputsInv'
      BY <1>1, <1>3, <2>1, <3>2, <3>3, <3>4 DEF OutputsInv, OutputsClosed
    <3>6. QED
      BY <2>1, <3>2, <3>3, <3>4, <3>5 DEF Unnoted
  <2>4. QED
    BY <2>1, <2>2, <2>3
<1>7. CASE SplitBegins
  <2>1. /\ dsts' = [k \in DOMAIN ToExtract |-> NewOutput(ToExtract[k].id)]
        /\ pc' = "open" /\ st' = "none" /\ ToExtract # <<>>
        /\ DOMAIN ToExtract = 1..Len(ToExtract) /\ Len(ToExtract) \in Nat
    BY <1>1, <1>7, ExtractIsSeq DEF SplitBegins
  <2>2. Len(ToExtract) > 0
    BY <1>7, <2>1, ExtractIsSeq DEF SplitBegins
  <2> DEFINE n == Len(ToExtract)
             D(k) == NewOutput(ToExtract[k].id)
  <2>3. n \in Nat /\ n > 0 /\ dsts' = [k \in 1..n |-> D(k)]
    BY <2>1, <2>2
  <2>4. \A k : IsOutput(D(k)) /\ D(k).state = "new" /\ D(k).notes = <<>>
    BY DEF IsOutput, NewOutput
  <2> HIDE DEF n, D
  <2>5. DOMAIN dsts' = 1..n /\ dsts' = [k \in 1..n |-> dsts'[k]] /\ \A k \in 1..n : dsts'[k] = D(k)
    BY <2>3
  <2>6. IsSeq(dsts') /\ Len(dsts') = n
    BY <2>3, <2>5, IsSeqOf
  <2>7. \A k \in DOMAIN dsts' : IsOutput(dsts'[k]) /\ dsts'[k].state = "new" /\ dsts'[k].notes = <<>>
    BY <2>4, <2>5
  <2>8. \A k \in DOMAIN dsts' : StateIn(k)' = "new"
    BY <1>3, <2>1, <2>5 DEF StateIn
  <2>9. OutputsInv'
    BY <1>1, <1>3, <2>1, <2>3, <2>6, <2>7, <2>8 DEF OutputsInv, OutputsClosed
  <2>10. QED
    BY <2>1, <2>7, <2>9 DEF Unnoted
<1>8. QED
  BY <1>2, <1>4, <1>5, <1>6, <1>7

\* What a step does to the annotations.
NotesStep ==
  \/ pc = "start" /\ Unnoted(dsts') /\ pc' \in {"open", "stream", "done"} /\ st' # "Ok"
  \/ WriteNote /\ SameOutputs /\ NoteWritten
  \/ pc # "start" /\ ~WriteNote /\ SameOutputs /\ NotesSame

LEMMA NextOutputs ==
  ASSUME OutputsInv, Next
  PROVE  OutputsInv' /\ NotesStep
<1>1. CASE pc = "start"
  BY <1>1, StartOutputs DEF NotesStep
<1>2. CASE WriteNote
  BY <1>2, WriteNoteOutputs DEF NotesStep
<1>3. CASE pc # "start" /\ ~WriteNote
  <2>1. SUFFICES OutputsInv' /\ SameOutputs /\ NotesSame
    BY <1>3 DEF NotesStep
  <2>2. CASE SplitOpens \/ SplitOpened
    BY <2>2, SplitOpensOutputs
  <2>3. CASE MergeMessage \/ SplitMessage
    BY <2>3, MessageOutputs
  <2>4. CASE StreamEnds \/ CollectNotes \/ NotesWritten
    BY <2>4, PhaseOutputs
  <2>5. CASE CloseNext \/ CloseFails \/ Done
    BY <2>5, CloseOutputs
  <2>6. CASE SplitOpenFails \/ MergeUnknownChannel \/ WriteFails \/ WriteNoteFails
    <3>1. pc # "done" /\ (Abandon("ErrorIO") \/ Abandon("ErrorCorrupted"))
      BY <2>6 DEF SplitOpenFails, MergeUnknownChannel, WriteFails, WriteNoteFails
    <3>2. "ErrorIO" # "Ok" /\ "ErrorCorrupted" # "Ok"
      OBVIOUS
    <3>3. QED
      BY <3>1, <3>2, AbandonOutputs, ClosedAll
  <2>7. QED
    BY <1>3, <2>2, <2>3, <2>4, <2>5, <2>6
       DEF Next, OpenSourceFails, MergeRefused, SplitRefused, Refuse, MergeOpens, MergeOpenFails,
           SplitBegins
<1>4. QED
  BY <1>1, <1>2, <1>3

LEMMA InitOutputs ==
  ASSUME Init
  PROVE  OutputsInv
<1>1. IsSeq(<<>>) /\ Len(<<>>) = 0 /\ DOMAIN <<>> = {}
  <2>1. <<>> \in Seq({})
    OBVIOUS
  <2>2. DOMAIN <<>> = {} /\ Len(<<>>) = 0
    OBVIOUS
  <2>3. {(<<>>)[k] : k \in DOMAIN <<>>} = {}
    BY <2>2
  <2>4. QED
    BY <2>1, <2>2, <2>3 DEF IsSeq
<1>2. QED
  BY <1>1 DEF Init, OutputsInv, OutputsClosed

LEMMA OutputsStutter ==
  ASSUME OutputsInv, UNCHANGED vars
  PROVE  OutputsInv'
BY DEF OutputsInv, OutputsClosed, StateIn, vars, input

LEMMA OutputsHold == Spec => []OutputsInv
BY InitOutputs, NextOutputs, OutputsStutter, PTL DEF Spec

\* However a merge or a split ends, none of its outputs stays open, and the
\* only ones destroyed without Close are those after an output whose Close
\* failed (close_outs_best_effort, splitter.cpp:121; the close loop, 200-206).
THEOREM OutputsAlwaysClosed == Spec => []OutputsClosed
<1>1. OutputsInv => OutputsClosed
  BY DEF OutputsInv
<1>2. QED
  BY <1>1, OutputsHold, PTL

-----------------------------------------------------------------------------
(***************************************************************************)
(* The counters, and the type invariant.                                   *)
(***************************************************************************)
CountsInv ==
  /\ \A s \in DOMAIN srcs : at[s] <= Len(srcs[s].msgs) + 1
  /\ stopped \in BOOLEAN /\ total \in Nat /\ faults \in 0..MaxFaults

LEMMA InitCounts ==
  ASSUME Init
  PROVE  CountsInv
<1>1. Shape
  BY InitInv DEF IInv
<1>2. \A s \in DOMAIN srcs : at[s] = 1 /\ Len(srcs[s].msgs) \in Nat
  BY <1>1, SourceTypes DEF Init
<1>3. stopped = FALSE /\ total = 0 /\ faults = 0
  BY DEF Init
<1>4. \A s \in DOMAIN srcs : at[s] <= Len(srcs[s].msgs) + 1
  BY <1>2
<1>5. faults \in 0..MaxFaults
  BY <1>3
<1>6. QED
  BY <1>3, <1>4, <1>5 DEF CountsInv

LEMMA NextCounts ==
  ASSUME Shape, OutputsInv, CountsInv, [Next]_vars
  PROVE  CountsInv'
<1>1. srcs' = srcs
  BY SourceStays DEF vars, input
<1>2. stopped' \in BOOLEAN
  BY DEF CountsInv, Next, OpenSourceFails, MergeRefused, Refuse, MergeOpens, MergeOpenFails, SplitRefused,
       SplitBegins, SplitOpens, SplitOpenFails, SplitOpened, MergeMessage, MergeUnknownChannel,
       SplitMessage, WriteFails, StreamEnds, CollectNotes, WriteNote, WriteNoteFails,
       NotesWritten, CloseNext, CloseFails, Done, Abandon, vars
<1>3. total' \in Nat
  BY DEF CountsInv, Next, OpenSourceFails, MergeRefused, Refuse, MergeOpens, MergeOpenFails, SplitRefused,
       SplitBegins, SplitOpens, SplitOpenFails, SplitOpened, MergeMessage, MergeUnknownChannel,
       SplitMessage, WriteFails, StreamEnds, CollectNotes, WriteNote, WriteNoteFails,
       NotesWritten, CloseNext, CloseFails, Done, Abandon, vars
<1>4. faults' \in 0..MaxFaults
  <2>1. faults' = faults \/ Faulty
    BY DEF Next, OpenSourceFails, MergeRefused, Refuse, MergeOpens, MergeOpenFails, SplitRefused,
       SplitBegins, SplitOpens, SplitOpenFails, SplitOpened, MergeMessage, MergeUnknownChannel,
       SplitMessage, WriteFails, StreamEnds, CollectNotes, WriteNote, WriteNoteFails,
       NotesWritten, CloseNext, CloseFails, Done, Abandon, vars
  <2>2. QED
    BY <2>1 DEF CountsInv, Faulty
<1>5. \A s \in DOMAIN srcs : at'[s] <= Len(srcs[s].msgs) + 1
  <2>1. /\ DOMAIN srcs \in SUBSET Nat /\ DOMAIN at = DOMAIN srcs
        /\ \A s \in DOMAIN srcs : Len(srcs[s].msgs) \in Nat /\ at[s] \in Nat
        /\ \A s \in DOMAIN srcs : at[s] <= Len(srcs[s].msgs) + 1
    BY SourceTypes DEF Shape, CountsInv
  <2>2. \/ at' = at
        \/ \E b \in DOMAIN srcs : at' = [at EXCEPT ![b] = @ + 1] /\ at[b] <= Len(srcs[b].msgs)
    <3>1. CASE MergeMessage
      <4>1. Best \in DOMAIN srcs /\ at[Best] <= Len(srcs[Best].msgs)
        BY <3>1, BestIsFirst DEF MergeMessage, Waiting
      <4>2. at' = at \/ at' = [at EXCEPT ![Best] = @ + 1]
        BY <3>1 DEF MergeMessage, AdvancedBest
      <4>3. QED
        BY <4>1, <4>2
    <3>2. CASE SplitMessage
      <4>1. 1 \in DOMAIN srcs
        <5>1. Len(srcs) = 1 /\ srcs \in SourceLists
          BY <3>2 DEF SplitMessage, OutputsInv
        <5>2. DOMAIN srcs = 1..Len(srcs)
          BY <5>1
        <5>3. QED
          BY <5>1, <5>2
      <4>2. QED
        BY <3>2, <4>1 DEF SplitMessage
    <3>3. CASE ~MergeMessage /\ ~SplitMessage
      BY <3>3 DEF Next, OpenSourceFails, MergeRefused, Refuse, MergeOpens, MergeOpenFails,
         SplitRefused, SplitBegins, SplitOpens, SplitOpenFails, SplitOpened, MergeUnknownChannel,
         WriteFails, StreamEnds, CollectNotes, WriteNote, WriteNoteFails,
         NotesWritten, CloseNext, CloseFails, Done, Abandon, vars
    <3>4. QED
      BY <3>1, <3>2, <3>3
  <2>3. QED
    BY <2>1, <2>2
<1>6. QED
  BY <1>1, <1>2, <1>3, <1>4, <1>5 DEF CountsInv

LEMMA CountsHold == Spec => []CountsInv
<1>1. IInv => Shape
  BY DEF IInv
<1>2. QED
  BY <1>1, InitCounts, NextCounts, Invariance, OutputsHold, PTL DEF Spec

\* Also after any failure, and for any number of outputs, the loops over the
\* outputs stay within them, and no head is fetched beyond the first that is
\* not valid (fetchHead, splitter.cpp:316).
THEOREM TypesAlwaysCorrect == Spec => []TypeOK
<1>1. Shape /\ OutputsInv /\ CountsInv => TypeOK
  <2> SUFFICES ASSUME Shape, OutputsInv, CountsInv PROVE TypeOK
    OBVIOUS
  <2>1. DOMAIN at = DOMAIN srcs /\ \A s \in DOMAIN srcs : at[s] \in 1..(Len(srcs[s].msgs) + 1)
    BY SourceTypes DEF Shape, CountsInv
  <2>2. \A k \in DOMAIN dsts : dsts[k].state \in {"new", "open", "closed", "dropped"}
    BY DEF OutputsInv, StateIn
  <2>3. to \in 1..(Len(dsts) + 1)
    BY DEF OutputsInv, IsSeq
  <2>4. QED
    BY <2>1, <2>2, <2>3 DEF TypeOK, CountsInv, OutputsInv
<1>2. IInv => Shape
  BY DEF IInv
<1>3. QED
  BY <1>1, <1>2, Invariance, OutputsHold, CountsHold, PTL

-----------------------------------------------------------------------------
(***************************************************************************)
(* The annotations: what an output has and what is still to write for it   *)
(* are together the annotations of the sources.                            *)
(***************************************************************************)
Note == [ts: 0..LastTs, n: Nat]
Wanted == IF op = "merge" THEN SortedNotes ELSE {srcs[1].notes}
Rest(k) == IF k < to THEN Tail(notes) ELSE notes

NotesInv ==
  /\ notes \in Seq(Note) /\ \A k \in DOMAIN dsts : dsts[k].notes \in Seq(Note)
  /\ pc \in {"open", "stream", "sort"} => Unnoted(dsts)
  /\ opts.annotations /\ pc = "notes" => \A k \in DOMAIN dsts : dsts[k].notes \o Rest(k) \in Wanted
  /\ opts.annotations /\ (pc = "close" \/ st = "Ok") =>
       \A k \in DOMAIN dsts : dsts[k].notes \in Wanted

\* The annotations of a split are those of its one source.
LEMMA SplitNotes ==
  ASSUME OutputsInv, op = "split"
  PROVE  AllNotes = srcs[1].notes /\ srcs[1].notes \in Seq(Note)
<1>1. srcs \in SourceLists /\ DOMAIN srcs = 1..1
  <2>1. srcs \in SourceLists /\ Len(srcs) = 1
    BY DEF OutputsInv
  <2>2. QED
    BY <2>1
<1>2. srcs[1].notes \in Seq(Note)
  <2>1. \A s \in DOMAIN srcs : srcs[s].notes \in Seq([ts: 0..LastTs, n: Nat])
    BY <1>1
  <2>2. 1 \in DOMAIN srcs
    BY <1>1
  <2>3. QED
    BY <2>1, <2>2 DEF Note
<1> DEFINE N == srcs[1].notes
           ss == [s \in DOMAIN srcs |-> srcs[s].notes]
<1>3. ss = Append(<<>>, N)
  BY <1>1
<1>4. <<>> \in Seq(Seq(Note)) /\ N \in Seq(Note)
  BY <1>2
<1> HIDE DEF N, ss
<1>5. FlattenSeq(ss) = FlattenSeq(<<>>) \o N
  BY <1>3, <1>4, FlattenAppend
<1>6. <<>> \o N = N
  BY <1>4
<1>7. AllNotes = N
  BY <1>5, <1>6, FlattenEmpty DEF AllNotes, ss
<1>8. QED
  BY <1>2, <1>7 DEF N

LEMMA AllNotesType ==
  ASSUME OutputsInv
  PROVE  /\ AllNotes \in Seq(Note) /\ DOMAIN AllNotes = 1..Len(AllNotes) /\ Len(AllNotes) \in Nat
<1> DEFINE ss == [s \in DOMAIN srcs |-> srcs[s].notes]
<1>1. srcs \in SourceLists
  BY DEF OutputsInv
<1>2. DOMAIN srcs = 1..Len(srcs) /\ Len(srcs) \in Nat /\ \A s \in DOMAIN srcs : srcs[s].notes \in Seq(Note)
  BY <1>1 DEF Note
<1>3. ss \in Seq(Seq(Note))
  BY <1>2
<1> HIDE DEF ss
<1>4. AllNotes \in Seq(Note)
  BY <1>3, FlattenType DEF AllNotes, ss
<1>5. QED
  BY <1>4

\* A sequence rearranged has each element as often.
LEMMA Rearranged ==
  ASSUME NEW s, NEW n \in Nat, DOMAIN s = 1..n, NEW p \in Bijection(1..n, 1..n), NEW e
  PROVE  TimesIn([k \in 1..n |-> s[p[k]]], e) = TimesIn(s, e)
<1> DEFINE w == [k \in 1..n |-> s[p[k]]]
           P == {k \in 1..n : s[p[k]] = e}
           Q == {k \in 1..n : s[k] = e}
           f == [k \in P |-> p[k]]
<1>1. /\ p \in [1..n -> 1..n] /\ \A x \in 1..n : \E y \in 1..n : p[y] = x
      /\ \A x, y \in 1..n : p[x] = p[y] => x = y
  BY DEF Bijection, Surjection, Injection, IsInjective
<1>2. f \in Bijection(P, Q)
  <2>1. f \in [P -> Q]
    BY <1>1
  <2>2. \A x, y \in P : f[x] = f[y] => x = y
    BY <1>1
  <2>3. \A q \in Q : \E x \in P : f[x] = q
    BY <1>1
  <2> HIDE DEF f, P, Q
  <2>4. DOMAIN f = P
    BY <2>1
  <2>5. QED
    BY <2>1, <2>2, <2>3, <2>4 DEF Bijection, Surjection, Injection, IsInjective
<1>3. IsFiniteSet(P)
  BY FS_Interval, FS_Subset
<1>4. Cardinality(Q) = Cardinality(P)
  <2> HIDE DEF f, P, Q
  <2>1. ExistsBijection(P, Q)
    BY <1>2 DEF ExistsBijection
  <2>2. QED
    BY <1>3, <2>1, FS_Bijection
<1>5. {k \in DOMAIN w : w[k] = e} = P
  OBVIOUS
<1>6. {k \in DOMAIN s : s[k] = e} = Q
  OBVIOUS
<1> HIDE DEF w, P, Q
<1>7. TimesIn(w, e) = TimesIn(s, e)
  BY <1>4, <1>5, <1>6 DEF TimesIn
<1>8. QED
  BY <1>7 DEF w

\* The same annotations, each as often, and in their order.
Complete(w) ==
  /\ w \in Seq(Note) /\ \A e : TimesIn(w, e) = TimesIn(AllNotes, e)
  /\ op = "merge" => Ordered(w)
  /\ op = "split" => w = AllNotes

LEMMA SortedComplete ==
  ASSUME OutputsInv, NEW w \in SortedNotes
  PROVE  /\ w \in Seq(Note) /\ \A e : TimesIn(w, e) = TimesIn(AllNotes, e)
         /\ Ordered(w)
<1> DEFINE n == Len(AllNotes)
           D == 1..n
<1>1. DOMAIN AllNotes = D /\ n \in Nat /\ \A k \in D : AllNotes[k] \in Note
  BY AllNotesType
<1>2. PICK p \in Bijection(D, D) :
        /\ w = [k \in D |-> AllNotes[p[k]]]
        /\ \A j, k \in D : j < k => AllNotes[p[j]].ts <= AllNotes[p[k]].ts
  BY <1>1 DEF SortedNotes
<1>3. p \in [D -> D]
  BY <1>2 DEF Bijection, Injection
<1>4. DOMAIN w = D /\ \A k \in D : w[k] = AllNotes[p[k]] /\ w[k] \in Note
  BY <1>1, <1>2, <1>3
<1> HIDE DEF n
<1>5. w \in Seq(Note)
  <2>1. w \in [1..n -> Note]
    BY <1>2, <1>4
  <2>2. QED
    BY <1>1, <2>1
<1>6. \A e : TimesIn(w, e) = TimesIn(AllNotes, e)
  BY <1>1, <1>2, Rearranged
<1>7. Ordered(w)
  BY <1>2, <1>4 DEF Ordered
<1>8. QED
  BY <1>5, <1>6, <1>7

LEMMA WantedComplete ==
  ASSUME OutputsInv, NEW w \in Wanted
  PROVE  Complete(w)
<1>1. CASE op = "merge"
  <2>1. op # "split" /\ w \in SortedNotes
    BY <1>1 DEF Wanted
  <2>2. QED
    BY <2>1, SortedComplete DEF Complete
<1>2. CASE op # "merge"
  <2>1. op = "split"
    BY <1>2 DEF OutputsInv
  <2>2. w = AllNotes /\ w \in Seq(Note)
    BY <2>1, SplitNotes DEF Wanted
  <2>3. QED
    BY <1>2, <2>2 DEF Complete
<1>3. QED
  BY <1>1, <1>2

LEMMA WantedStays ==
  ASSUME UNCHANGED <<op, opts, srcs>>
  PROVE  Wanted' = Wanted
BY DEF Wanted, SortedNotes, AllNotes

LEMMA MoveOne ==
  ASSUME NEW S, NEW s \in Seq(S), NEW t \in Seq(S), t # <<>>
  PROVE  /\ Append(s, Head(t)) \o Tail(t) = s \o t
         /\ Append(s, Head(t)) \in Seq(S) /\ Tail(t) \in Seq(S)
<1> DEFINE a == Append(s, Head(t)) \o Tail(t)
           b == s \o t
<1>1. /\ Head(t) \in S /\ Tail(t) \in Seq(S) /\ Append(s, Head(t)) \in Seq(S)
      /\ Len(Append(s, Head(t))) = Len(s) + 1 /\ Len(Tail(t)) = Len(t) - 1
      /\ Len(s) \in Nat /\ Len(t) \in Nat /\ Len(t) > 0
  OBVIOUS
<1>2. a \in Seq(S) /\ b \in Seq(S) /\ Len(a) = Len(s) + Len(t) /\ Len(b) = Len(s) + Len(t)
  BY <1>1
<1>3. ASSUME NEW k \in 1..(Len(s) + Len(t))
      PROVE  a[k] = b[k]
  <2>1. CASE k <= Len(s)
    BY <1>1, <2>1
  <2>2. CASE k = Len(s) + 1
    BY <1>1, <2>2
  <2>3. CASE k > Len(s) + 1
    <3>1. a[k] = Tail(t)[k - (Len(s) + 1)]
      BY <1>1, <2>3
    <3>2. Tail(t)[k - (Len(s) + 1)] = t[k - Len(s)]
      BY <1>1, <2>3
    <3>3. b[k] = t[k - Len(s)]
      BY <1>1, <2>3
    <3>4. QED
      BY <3>1, <3>2, <3>3
  <2>4. QED
    BY <1>1, <2>1, <2>2, <2>3
<1> HIDE DEF a, b
<1>4. a = b
  BY <1>2, <1>3, SeqEqual
<1>5. QED
  BY <1>1, <1>4 DEF a, b

LEMMA WriteNoteInv ==
  ASSUME OutputsInv, NotesInv, WriteNote, SameOutputs, NoteWritten
  PROVE  NotesInv'
<1>1. /\ pc = "notes" /\ pc' = "notes" /\ notes # <<>> /\ UNCHANGED <<op, opts, srcs>>
      /\ st' = "none"
  BY DEF WriteNote, OutputsInv, input
<1>2. /\ DOMAIN dsts = 1..Len(dsts) /\ Len(dsts) \in Nat /\ to \in 1..Len(dsts)
      /\ DOMAIN dsts' = DOMAIN dsts
  BY <1>1 DEF OutputsInv, IsSeq, SameOutputs
<1>3. \/ to = Len(dsts) /\ to' = 1 /\ notes' = Tail(notes)
      \/ to # Len(dsts) /\ to' = to + 1 /\ notes' = notes
  BY DEF WriteNote
<1>4. notes \in Seq(Note) /\ \A k \in DOMAIN dsts : dsts[k].notes \in Seq(Note)
  BY DEF NotesInv
<1>5. Tail(notes) \in Seq(Note) /\ notes' \in Seq(Note)
  <2> HIDE DEF Note
  <2>1. Tail(notes) \in Seq(Note)
    BY <1>1, <1>4
  <2>2. QED
    BY <1>3, <1>4, <2>1
<1>6. ASSUME NEW k \in DOMAIN dsts
      PROVE  /\ dsts'[k].notes \in Seq(Note)
             /\ dsts'[k].notes \o Rest(k)' = dsts[k].notes \o Rest(k)
  <2>1. CASE k = to
    <3>1. dsts'[k].notes = Append(dsts[k].notes, Head(notes))
      BY <2>1 DEF NoteWritten
    <3>5. Rest(k) = notes
      BY <1>2, <2>1 DEF Rest
    <3>2. Rest(k)' = Tail(notes)
      BY <1>2, <1>3, <2>1 DEF Rest
    <3>3. /\ Append(dsts[k].notes, Head(notes)) \o Tail(notes) = dsts[k].notes \o notes
          /\ Append(dsts[k].notes, Head(notes)) \in Seq(Note)
      BY <1>1, <1>4, MoveOne
    <3>4. QED
      BY <2>1, <3>1, <3>2, <3>3, <3>5
  <2>2. CASE k # to
    <3>1. dsts'[k].notes = dsts[k].notes
      BY <2>2 DEF NoteWritten
    <3>2. Rest(k)' = Rest(k)
      <4>2. CASE to = Len(dsts)
        <5>1. k < to /\ ~ (k < to') /\ notes' = Tail(notes)
          BY <1>2, <1>3, <2>2, <4>2
        <5>2. QED
          BY <5>1 DEF Rest
      <4>3. CASE to # Len(dsts)
        <5>1. to' = to + 1 /\ notes' = notes
          BY <1>3, <4>3
        <5>2. k \in Nat /\ to \in Nat /\ k # to
          BY <1>2, <2>2
        <5>3. k < to <=> k < to + 1
          BY <5>2
        <5>4. QED
          BY <5>1, <5>3 DEF Rest
      <4>4. QED
        BY <4>2, <4>3
    <3>3. QED
      BY <1>4, <3>1, <3>2
  <2>3. QED
    BY <2>1, <2>2
<1>7. Wanted' = Wanted
  BY <1>1, WantedStays
<1>8. opts.annotations => \A k \in DOMAIN dsts : dsts'[k].notes \o Rest(k)' \in Wanted
  BY <1>1, <1>6 DEF NotesInv
<1>9. QED
  BY <1>1, <1>2, <1>5, <1>6, <1>7, <1>8 DEF NotesInv

LEMMA CollectInv ==
  ASSUME OutputsInv, NotesInv, CollectNotes, SameOutputs, NotesSame
  PROVE  NotesInv'
<1>1. /\ pc = "sort" /\ pc' = "notes" /\ to' = 1 /\ st' = "none" /\ UNCHANGED <<op, opts, srcs>>
      /\ DOMAIN dsts' = DOMAIN dsts /\ \A k \in DOMAIN dsts : k >= 1
      /\ \A k \in DOMAIN dsts : dsts'[k].notes = <<>>
      /\ op \in {"merge", "split"} /\ opts.annotations \in BOOLEAN
  <2>1. \A k \in DOMAIN dsts : dsts'[k].notes = <<>>
    BY DEF CollectNotes, NotesInv, Unnoted, NotesSame
  <2>2. QED
    BY <2>1 DEF CollectNotes, OutputsInv, Options, IsSeq, SameOutputs, input
<1>2. CASE ~opts.annotations
  <2>1. notes' = <<>>
    BY <1>2 DEF CollectNotes
  <2>2. <<>> \in Seq(Note)
    OBVIOUS
  <2>3. QED
    BY <1>1, <1>2, <2>1, <2>2 DEF NotesInv
<1>3. CASE opts.annotations
  <2>1. notes' \in Wanted
    BY <1>1, <1>3 DEF CollectNotes, Wanted
  <2>2. notes' \in Seq(Note)
    BY <2>1, WantedComplete DEF Complete
  <2>3. \A k \in DOMAIN dsts : Rest(k)' = notes'
    BY <1>1 DEF Rest
  <2>4. <<>> \o notes' = notes'
    BY <2>2
  <2>5. Wanted' = Wanted
    BY <1>1, WantedStays
  <2>6. <<>> \in Seq(Note)
    OBVIOUS
  <2>7. QED
    BY <1>1, <2>1, <2>2, <2>3, <2>4, <2>5, <2>6 DEF NotesInv
<1>4. QED
  BY <1>1, <1>2, <1>3

LEMMA WrittenInv ==
  ASSUME OutputsInv, NotesInv, NotesWritten, SameOutputs, NotesSame
  PROVE  NotesInv'
<1>1. /\ pc = "notes" /\ pc' = "close" /\ notes = <<>> /\ notes' = <<>> /\ to = 1
      /\ UNCHANGED <<op, opts, srcs>>
      /\ DOMAIN dsts' = DOMAIN dsts /\ \A k \in DOMAIN dsts : k >= 1
      /\ \A k \in DOMAIN dsts : dsts'[k].notes = dsts[k].notes
  BY DEF NotesWritten, OutputsInv, IsSeq, SameOutputs, NotesSame, input
<1>2. \A k \in DOMAIN dsts : dsts[k].notes \in Seq(Note) /\ Rest(k) = <<>>
  BY <1>1 DEF NotesInv, Rest
<1>3. \A k \in DOMAIN dsts : dsts[k].notes \o Rest(k) = dsts[k].notes
  <2> HIDE DEF Note
  <2>1. \A s \in Seq(Note) : s \o <<>> = s
    OBVIOUS
  <2>2. QED
    BY <1>2, <2>1
<1>4. Wanted' = Wanted
  BY <1>1, WantedStays
<1>5. opts.annotations => \A k \in DOMAIN dsts : dsts[k].notes \in Wanted
  BY <1>1, <1>3 DEF NotesInv
<1>6. <<>> \in Seq(Note)
  OBVIOUS
<1>7. QED
  BY <1>1, <1>2, <1>4, <1>5, <1>6 DEF NotesInv

\* Steps that write no annotation, and the failures that end the operation.
LEMMA OtherNotes ==
  ASSUME OutputsInv, NotesInv, Next, pc # "start", ~WriteNote, SameOutputs, NotesSame
  PROVE  NotesInv'
<1>1. CASE CollectNotes
  BY <1>1, CollectInv
<1>2. CASE NotesWritten
  BY <1>2, WrittenInv
<1>3. CASE ~CollectNotes /\ ~NotesWritten
  <2>1. /\ DOMAIN dsts' = DOMAIN dsts /\ \A k \in DOMAIN dsts : dsts'[k].notes = dsts[k].notes
        /\ Wanted' = Wanted /\ UNCHANGED <<op, opts, srcs>>
    BY SourceStays, WantedStays DEF SameOutputs, NotesSame
  <2>2. /\ notes' = notes
        /\ pc' \in {"open", "stream", "sort"} => pc \in {"open", "stream", "sort"}
        /\ pc' # "notes" /\ (pc' = "close" => pc = "close")
        /\ st' = "Ok" => pc = "close" \/ st = "Ok"
    BY <1>3 DEF Next, OpenSourceFails, MergeRefused, Refuse, MergeOpens, MergeOpenFails, SplitRefused,
       SplitBegins, SplitOpens, SplitOpenFails, SplitOpened, MergeMessage, MergeUnknownChannel,
       SplitMessage, WriteFails, StreamEnds, WriteNoteFails, CloseNext, CloseFails, Done, Abandon,
       Return
  <2>3. notes' \in Seq(Note) /\ \A k \in DOMAIN dsts' : dsts'[k].notes \in Seq(Note)
    BY <2>1, <2>2 DEF NotesInv
  <2>4. pc' \in {"open", "stream", "sort"} => Unnoted(dsts')
    BY <2>1, <2>2 DEF NotesInv, Unnoted
  <2>5. opts'.annotations /\ (pc' = "close" \/ st' = "Ok") =>
          \A k \in DOMAIN dsts' : dsts'[k].notes \in Wanted'
    BY <2>1, <2>2 DEF NotesInv
  <2>6. QED
    BY <2>2, <2>3, <2>4, <2>5 DEF NotesInv
<1>4. QED
  BY <1>1, <1>2, <1>3

LEMMA NotesNext ==
  ASSUME OutputsInv, NotesInv, Next
  PROVE  NotesInv'
<1>1. NotesStep
  BY NextOutputs
<1>2. CASE pc = "start" /\ Unnoted(dsts') /\ pc' \in {"open", "stream", "done"} /\ st' # "Ok"
  <2>1. notes' = notes
    BY <1>2 DEF Next, OpenSourceFails, MergeRefused, Refuse, MergeOpens, MergeOpenFails, SplitRefused,
       SplitBegins, SplitOpens, SplitOpenFails, SplitOpened, MergeMessage, MergeUnknownChannel,
       SplitMessage, WriteFails, StreamEnds, CollectNotes, WriteNote, WriteNoteFails, NotesWritten,
       CloseNext, CloseFails, Done
  <2>2. <<>> \in Seq(Note)
    OBVIOUS
  <2>3. \A k \in DOMAIN dsts' : dsts'[k].notes \in Seq(Note)
    BY <1>2, <2>2 DEF Unnoted
  <2>4. QED
    BY <1>2, <2>1, <2>3 DEF NotesInv
<1>3. CASE WriteNote /\ SameOutputs /\ NoteWritten
  BY <1>3, WriteNoteInv
<1>4. CASE pc # "start" /\ ~WriteNote /\ SameOutputs /\ NotesSame
  BY <1>4, OtherNotes
<1>5. QED
  BY <1>1, <1>2, <1>3, <1>4 DEF NotesStep

LEMMA NotesHold == Spec => []NotesInv
<1>1. Init => NotesInv
  <2>1. <<>> \in Seq(Note)
    OBVIOUS
  <2>2. QED
    BY <2>1 DEF Init, NotesInv, Unnoted
<1>2. NotesInv /\ UNCHANGED vars => NotesInv'
  BY WantedStays DEF NotesInv, Unnoted, Rest, vars, input
<1>3. QED
  BY <1>1, <1>2, NotesNext, OutputsHold, PTL DEF Spec

\* Every output of an operation that succeeds has every annotation of the
\* sources exactly as often as they have it, a merged one in order of time, a
\* split one in the order of the source, also when the progress callback stopped
\* it: std::sort over all of them (splitter.cpp:384) and the loops that write
\* each to each output.
THEOREM NotesAlwaysKept == Spec => []NotesKept
<1>1. OutputsInv /\ NotesInv => NotesKept
  <2> SUFFICES ASSUME OutputsInv, NotesInv, st = "Ok", opts.annotations, NEW k \in DOMAIN dsts
               PROVE  /\ \A e : TimesIn(dsts[k].notes, e) = TimesIn(AllNotes, e)
                      /\ op = "merge" => Ordered(dsts[k].notes)
                      /\ op = "split" => dsts[k].notes = AllNotes
    BY DEF NotesKept
  <2>1. dsts[k].notes \in Wanted
    BY DEF NotesInv
  <2>2. QED
    BY <2>1, WantedComplete DEF Complete
<1>2. QED
  BY <1>1, OutputsHold, NotesHold, PTL

-----------------------------------------------------------------------------
(***************************************************************************)
(* The messages of the outputs change in one kind of step only.            *)
(***************************************************************************)
Touched(e, d) ==
  \/ e = d
  \/ \E v : e = [d EXCEPT !.state = v]
  \/ \E v : e = [d EXCEPT !.notes = v]

Alike(e, d) == e.channel = d.channel /\ e.log = d.log /\ e.chans = d.chans

LEMMA TouchedAlike ==
  ASSUME NEW d, IsOutput(d), NEW e, Touched(e, d)
  PROVE  Alike(e, d)
<1>1. PICK a, b, c, l, n :
        d = [state |-> a, channel |-> b, chans |-> c, log |-> l, notes |-> n]
  BY DEF IsOutput
<1>2. CASE e = d
  BY <1>2 DEF Alike
<1>3. CASE \E v : e = [d EXCEPT !.state = v]
  <2>1. PICK v : e = [state |-> v, channel |-> b, chans |-> c, log |-> l, notes |-> n]
    BY <1>1, <1>3
  <2>2. QED
    BY <1>1, <2>1 DEF Alike
<1>4. CASE \E v : e = [d EXCEPT !.notes = v]
  <2>1. PICK v : e = [state |-> a, channel |-> b, chans |-> c, log |-> l, notes |-> v]
    BY <1>1, <1>4
  <2>2. QED
    BY <1>1, <2>1 DEF Alike
<1>5. QED
  BY <1>2, <1>3, <1>4 DEF Touched

LogsStay ==
  /\ DOMAIN dsts' = DOMAIN dsts
  /\ \A k \in DOMAIN dsts : /\ dsts'[k].channel = dsts[k].channel /\ dsts'[k].log = dsts[k].log
                            /\ op = "merge" => dsts'[k].chans = dsts[k].chans

LEMMA LogsStayed ==
  ASSUME Shape, OutputsInv, Next, pc # "start", ~MergeMessage, ~SplitMessage
  PROVE  LogsStay /\ at' = at
<1>1. at' = at
  BY DEF Next, OpenSourceFails, MergeRefused, Refuse, MergeOpens, MergeOpenFails, SplitRefused,
       SplitBegins, SplitOpens, SplitOpenFails, SplitOpened, MergeUnknownChannel,
       WriteFails, StreamEnds, CollectNotes, WriteNote, WriteNoteFails,
       NotesWritten, CloseNext, CloseFails, Done, Abandon
<1>2. DOMAIN dsts = 1..Len(dsts) /\ Len(dsts) \in Nat /\ \A k \in DOMAIN dsts : IsOutput(dsts[k])
  BY DEF OutputsInv, IsSeq
<1>3. CASE SplitOpens
  <2> DEFINE o == [dsts[to] EXCEPT !.state = "open"]
             mid == [dsts EXCEPT ![to] = o]
             e == [mid[to] EXCEPT !.chans = <<ToExtract[to].name>>]
  <2>1. dsts' = [mid EXCEPT ![to] = e] /\ to \in DOMAIN dsts /\ op # "merge"
    BY <1>2, <1>3 DEF SplitOpens, Shape, OutputsInv
  <2>2. mid[to] = o /\ DOMAIN mid = DOMAIN dsts /\ \A k \in DOMAIN dsts : k # to => mid[k] = dsts[k]
    BY <2>1
  <2>3. Renewed(o, "open", dsts[to].notes) /\ Alike(o, dsts[to])
    BY <1>2, <2>1, StateChanged, TouchedAlike DEF Touched
  <2> HIDE DEF o, mid
  <2>4. PICK a, b, c, l, n :
          mid[to] = [state |-> a, channel |-> b, chans |-> c, log |-> l, notes |-> n]
    BY <2>2, <2>3 DEF Renewed, IsOutput
  <2>5. e = [state |-> a, channel |-> b, chans |-> <<ToExtract[to].name>>, log |-> l, notes |-> n]
    BY <2>4
  <2>6. e.channel = dsts[to].channel /\ e.log = dsts[to].log
    BY <2>2, <2>3, <2>4, <2>5 DEF Alike
  <2> HIDE DEF e
  <2>7. DOMAIN dsts' = DOMAIN dsts /\ \A k \in DOMAIN dsts : dsts'[k] = IF k = to THEN e ELSE dsts[k]
    BY <2>1, <2>2
  <2>8. QED
    BY <1>1, <2>1, <2>6, <2>7 DEF LogsStay
<1>4. CASE ~SplitOpens
  <2>1. DOMAIN dsts' = DOMAIN dsts /\ \A k \in DOMAIN dsts : Touched(dsts'[k], dsts[k])
    <3>1. CASE dsts' = dsts
      BY <3>1 DEF Touched
    <3>2. CASE dsts' = CloseOuts
      BY <3>2 DEF CloseOuts, Touched
    <3>3. CASE WriteNote
      <4>1. PICK v : dsts' = [dsts EXCEPT ![to].notes = v]
        BY <3>3 DEF WriteNote
      <4>2. QED
        BY <4>1 DEF Touched
    <3>4. CASE CloseNext
      BY <3>4 DEF CloseNext, Touched
    <3>5. CASE CloseFails
      <4>1. DOMAIN dsts' = DOMAIN dsts /\ \A k \in DOMAIN dsts :
              \/ dsts'[k] = dsts[k]
              \/ dsts'[k] = [dsts[k] EXCEPT !.state = "closed"]
              \/ dsts'[k] = [dsts[k] EXCEPT !.state = "dropped"]
        BY <1>2, <3>5 DEF CloseFails, OutputsInv
      <4>2. QED
        BY <4>1 DEF Touched
    <3>6. QED
      BY <1>4, <3>1, <3>2, <3>3, <3>4, <3>5
         DEF Next, OpenSourceFails, MergeRefused, Refuse, MergeOpens, MergeOpenFails, SplitRefused,
             SplitBegins, SplitOpenFails, SplitOpened, MergeUnknownChannel, WriteFails, StreamEnds,
             CollectNotes, WriteNoteFails, NotesWritten, Done, Abandon, Abandoned
  <2>2. \A k \in DOMAIN dsts : Alike(dsts'[k], dsts[k])
    BY <1>2, <2>1, TouchedAlike
  <2>3. QED
    BY <1>1, <2>1, <2>2 DEF LogsStay, Alike
<1>5. QED
  BY <1>3, <1>4

-----------------------------------------------------------------------------
(***************************************************************************)
(* A split gives each message to the first output for its channel.         *)
(***************************************************************************)
Goes(k, m) == dsts[k].channel = m.ch /\ \A j \in 1..(k - 1) : dsts[j].channel # m.ch

LEMMA RoutesFirst ==
  ASSUME OutputsInv, NEW m, NEW k \in DOMAIN dsts
  PROVE  k \in Routes(m) <=> Goes(k, m)
<1> DEFINE T == {j \in DOMAIN dsts : dsts[j].channel = m.ch}
<1>1. DOMAIN dsts = 1..Len(dsts) /\ Len(dsts) \in Nat
  BY DEF OutputsInv, IsSeq
<1>2. Routes(m) = IF T = {} THEN {} ELSE {Min(T)}
  BY DEF Routes
<1>3. CASE T = {}
  BY <1>2, <1>3 DEF Goes
<1>4. CASE T # {}
  <2>1. T \in SUBSET Nat
    BY <1>1
  <2>2. \E x \in T : \A y \in T : x <= y
    <3> HIDE DEF T
    <3>1. QED
      BY <1>4, <2>1, Smallest
  <2>3. Min(T) \in T /\ \A y \in T : Min(T) <= y
    <3> HIDE DEF T
    <3>1. QED
      BY <2>2 DEF Min
  <2> DEFINE x == Min(T)
  <2>4. x \in Nat /\ x \in DOMAIN dsts /\ dsts[x].channel = m.ch
        /\ \A y \in DOMAIN dsts : dsts[y].channel = m.ch => x <= y
    BY <1>1, <2>3
  <2>5. k \in Routes(m) <=> k = x
    BY <1>2, <1>4
  <2> HIDE DEF x, T
  <2>6. k = x => Goes(k, m)
    <3>1. ASSUME k = x, NEW j \in 1..(k - 1)
          PROVE  dsts[j].channel # m.ch
      <4>1. j \in DOMAIN dsts /\ ~ (x <= j)
        BY <1>1, <2>4, <3>1
      <4>2. QED
        BY <2>4, <4>1
    <3>2. QED
      BY <2>4, <3>1 DEF Goes
  <2>7. Goes(k, m) => k = x
    <3>1. ASSUME Goes(k, m) PROVE k = x
      <4>1. x <= k
        BY <2>4, <3>1 DEF Goes
      <4>2. ~ (x < k)
        <5>1. ASSUME x < k PROVE FALSE
          <6>1. x \in 1..(k - 1)
            BY <1>1, <2>4, <5>1
          <6>2. QED
            BY <2>4, <3>1, <6>1 DEF Goes
        <5>2. QED
          BY <5>1
      <4>3. QED
        BY <1>1, <2>4, <4>1, <4>2
    <3>2. QED
      BY <3>1
  <2>8. QED
    BY <2>5, <2>6, <2>7
<1>5. QED
  BY <1>3, <1>4

\* The messages read so far that go to an output, and the log that has them.
Mine(k) == {n \in 1..(at[1] - 1) : Goes(k, srcs[1].msgs[n])}

Selects(k, log) ==
  /\ IsSeq(log)
  /\ {log[j].n : j \in DOMAIN log} = Mine(k)
  /\ \A i, j \in DOMAIN log : i < j => log[i].n < log[j].n

ReadAll == stopped \/ at[1] > Len(srcs[1].msgs)

SelectInv ==
  op = "split" =>
    /\ pc = "start" => at[1] = 1
    /\ pc \in {"sort", "notes", "close"} \/ st = "Ok" => ReadAll
    /\ \A k \in DOMAIN dsts : Selects(k, dsts[k].log)

LEMMA EmptyLog == IsSeq(<<>>) /\ DOMAIN <<>> = {}
<1>1. <<>> \in Seq({})
  OBVIOUS
<1>2. DOMAIN <<>> = {}
  OBVIOUS
<1>3. {(<<>>)[k] : k \in DOMAIN <<>>} = {}
  BY <1>2
<1>4. QED
  BY <1>1, <1>2, <1>3 DEF IsSeq

\* A message more at the end of a log.
LEMMA LogGrows ==
  ASSUME NEW log, IsSeq(log), NEW e, e.n \in Nat,
         \A j \in DOMAIN log : log[j].n \in Nat /\ log[j].n < e.n,
         \A i, j \in DOMAIN log : i < j => log[i].n < log[j].n
  PROVE  /\ IsSeq(Append(log, e))
         /\ {Append(log, e)[j].n : j \in DOMAIN Append(log, e)}
              = {log[j].n : j \in DOMAIN log} \cup {e.n}
         /\ \A i, j \in DOMAIN Append(log, e) : i < j => Append(log, e)[i].n < Append(log, e)[j].n
<1> DEFINE t == Append(log, e)
           l == Len(log)
<1>1. /\ DOMAIN t = DOMAIN log \cup {l + 1} /\ DOMAIN log = 1..l /\ l \in Nat
      /\ \A k \in DOMAIN log : t[k] = log[k]
      /\ t[l + 1] = e /\ IsSeq(t)
  BY AppendSeq
<1> HIDE DEF t, l
<1>2. {t[j].n : j \in DOMAIN t} = {log[j].n : j \in DOMAIN log} \cup {e.n}
  BY <1>1
<1>3. ASSUME NEW i \in DOMAIN t, NEW j \in DOMAIN t, i < j
      PROVE  t[i].n < t[j].n
  <2>1. i \in DOMAIN log
    BY <1>1, <1>3
  <2>2. CASE j = l + 1
    BY <1>1, <2>1, <2>2
  <2>3. CASE j # l + 1
    BY <1>1, <1>3, <2>1, <2>3
  <2>4. QED
    BY <2>2, <2>3
<1>4. QED
  BY <1>1, <1>2, <1>3 DEF t

LEMMA SplitMessageInv ==
  ASSUME Shape, OutputsInv, OutputsInv', SelectInv, SplitMessage
  PROVE  SelectInv'
<1>1. /\ op = "split" /\ UNCHANGED <<op, opts, srcs, st>> /\ pc = "stream" /\ st = "none"
      /\ pc' \in {"stream", "sort"} /\ (pc' = "sort" => stopped')
      /\ at[1] <= Len(srcs[1].msgs)
  BY DEF SplitMessage, OutputsInv, input
<1>2. at[1] \in Nat \ {0} /\ at'[1] = at[1] + 1
  <2>1. Len(srcs) = 1 /\ srcs \in SourceLists
    BY <1>1 DEF OutputsInv
  <2>2. 1 \in DOMAIN srcs
    BY <2>1
  <2>3. QED
    BY <2>2 DEF Shape, SplitMessage
<1>3. DOMAIN dsts = 1..Len(dsts) /\ Len(dsts) \in Nat /\ \A k \in DOMAIN dsts : IsOutput(dsts[k])
  BY DEF OutputsInv, IsSeq
<1> DEFINE m == HeadOf(1)
           e == Logged(1, 1)
<1>4. m = srcs[1].msgs[at[1]] /\ e.n = at[1]
  BY DEF HeadOf, Logged
<1>5. /\ DOMAIN dsts' = DOMAIN dsts
      /\ \A k \in DOMAIN dsts :
           dsts'[k] = IF k \in Routes(m) THEN [dsts[k] EXCEPT !.log = Append(dsts[k].log, e)]
                      ELSE dsts[k]
  BY DEF SplitMessage
<1> HIDE DEF m, e
<1>6. \A k \in DOMAIN dsts :
        /\ dsts'[k].channel = dsts[k].channel
        /\ dsts'[k].log = IF Goes(k, m) THEN Append(dsts[k].log, e) ELSE dsts[k].log
  <2> TAKE k \in DOMAIN dsts
  <2>1. /\ [dsts[k] EXCEPT !.log = Append(dsts[k].log, e)].channel = dsts[k].channel
        /\ [dsts[k] EXCEPT !.log = Append(dsts[k].log, e)].log = Append(dsts[k].log, e)
    <3>1. PICK a, b, c, l, n :
            dsts[k] = [state |-> a, channel |-> b, chans |-> c, log |-> l, notes |-> n]
      BY <1>3 DEF IsOutput
    <3> DEFINE v == Append(dsts[k].log, e)
    <3> HIDE DEF v
    <3>2. [dsts[k] EXCEPT !.log = v] = [state |-> a, channel |-> b, chans |-> c, log |-> v, notes |-> n]
      BY <3>1
    <3>3. QED
      BY <3>1, <3>2 DEF v
  <2>2. k \in Routes(m) <=> Goes(k, m)
    BY RoutesFirst
  <2>3. QED
    BY <1>5, <2>1, <2>2
<1>7. \A k \in DOMAIN dsts : \A x : Goes(k, x)' <=> Goes(k, x)
  <2> TAKE k \in DOMAIN dsts
  <2>1. \A j \in 1..(k - 1) : j \in DOMAIN dsts
    BY <1>3
  <2>2. QED
    BY <1>6, <2>1 DEF Goes
<1>8. ASSUME NEW k \in DOMAIN dsts
      PROVE  Selects(k, dsts[k].log) /\ Selects(k, dsts[k].log)'
  <2>1. Selects(k, dsts[k].log)
    BY <1>1 DEF SelectInv
  <2>2. Mine(k)' = Mine(k) \cup (IF Goes(k, m) THEN {at[1]} ELSE {})
    <3>1. 1..(at'[1] - 1) = 1..(at[1] - 1) \cup {at[1]}
      BY <1>2
    <3>2. Mine(k)' = {n \in 1..(at[1] - 1) \cup {at[1]} : Goes(k, srcs[1].msgs[n])}
      BY <1>1, <1>7, <3>1 DEF Mine
    <3>3. QED
      BY <1>4, <3>2 DEF Mine
  <2>3. \A j \in DOMAIN dsts[k].log : dsts[k].log[j].n \in 1..(at[1] - 1)
    <3>1. {dsts[k].log[j].n : j \in DOMAIN dsts[k].log} \subseteq 1..(at[1] - 1)
      BY <2>1 DEF Selects, Mine
    <3>2. QED
      BY <3>1
  <2>4. CASE ~Goes(k, m)
    <3>1. Mine(k)' = Mine(k) /\ dsts'[k].log = dsts[k].log
      BY <1>6, <2>2, <2>4
    <3>2. QED
      BY <2>1, <3>1 DEF Selects
  <2>5. CASE Goes(k, m)
    <3> DEFINE log == dsts[k].log
               t == Append(log, e)
    <3>1. dsts'[k].log = t /\ Mine(k)' = Mine(k) \cup {at[1]}
      BY <1>6, <2>2, <2>5
    <3>2. IsSeq(log) /\ \A i, j \in DOMAIN log : i < j => log[i].n < log[j].n
      BY <2>1 DEF Selects
    <3>3. e.n \in Nat /\ \A j \in DOMAIN log : log[j].n \in Nat /\ log[j].n < e.n
      BY <1>2, <1>4, <2>3
    <3> HIDE DEF log
    <3>4. /\ IsSeq(t)
          /\ {t[j].n : j \in DOMAIN t} = {log[j].n : j \in DOMAIN log} \cup {e.n}
          /\ \A i, j \in DOMAIN t : i < j => t[i].n < t[j].n
      BY <3>2, <3>3, LogGrows
    <3>5. {log[j].n : j \in DOMAIN log} = Mine(k)
      BY <2>1 DEF Selects, log
    <3> HIDE DEF t
    <3>6. QED
      BY <1>4, <2>1, <3>1, <3>4, <3>5 DEF Selects
  <2>6. QED
    BY <2>1, <2>4, <2>5
<1>9. SelectInv'
  <2>1. pc' # "start" /\ (pc' = "sort" => ReadAll')
    BY <1>1 DEF ReadAll
  <2>2. \A k \in DOMAIN dsts' : Selects(k, dsts[k].log)'
    BY <1>5, <1>8
  <2>3. st' # "Ok"
    BY <1>1
  <2>4. QED
    BY <1>1, <2>1, <2>2, <2>3 DEF SelectInv
<1>10. QED
  BY <1>9

LEMMA SelectStays ==
  ASSUME OutputsInv, SelectInv, LogsStay, UNCHANGED <<op, srcs, at, stopped>>, pc' # "start",
         pc' \in {"sort", "notes", "close"} \/ st' = "Ok" => (op = "split" => ReadAll)
  PROVE  SelectInv'
<1>1. CASE op # "split"
  BY <1>1 DEF SelectInv
<1>2. CASE op = "split"
  <2>1. DOMAIN dsts = 1..Len(dsts) /\ Len(dsts) \in Nat /\ DOMAIN dsts' = DOMAIN dsts
    BY DEF OutputsInv, IsSeq, LogsStay
  <2>2. \A k \in DOMAIN dsts : \A x : Goes(k, x)' <=> Goes(k, x)
    <3> TAKE k \in DOMAIN dsts
    <3>1. \A j \in 1..(k - 1) : j \in DOMAIN dsts
      BY <2>1
    <3>2. QED
      BY <3>1 DEF Goes, LogsStay
  <2>3. \A k \in DOMAIN dsts : Mine(k)' = Mine(k)
    BY <2>2 DEF Mine
  <2>4. \A k \in DOMAIN dsts : Selects(k, dsts[k].log)'
    <3> TAKE k \in DOMAIN dsts
    <3>1. Selects(k, dsts[k].log)
      BY <1>2 DEF SelectInv
    <3>2. dsts'[k].log = dsts[k].log /\ Mine(k)' = Mine(k)
      BY <2>3 DEF LogsStay
    <3>3. QED
      BY <3>1, <3>2 DEF Selects
  <2>5. ReadAll' = ReadAll
    BY DEF ReadAll
  <2>6. QED
    BY <1>2, <2>1, <2>4, <2>5 DEF SelectInv
<1>3. QED
  BY <1>1, <1>2

LEMMA SelectNext ==
  ASSUME Shape, OutputsInv, OutputsInv', SelectInv, Next
  PROVE  SelectInv'
<1>1. UNCHANGED <<op, srcs>>
  BY SourceStays
<1>2. CASE op # "split"
  BY <1>1, <1>2 DEF SelectInv
<1>3. CASE op = "split" /\ pc = "start"
  <2>1. \/ OpenSourceFails \/ SplitRefused \/ SplitBegins
    BY <1>3 DEF Next, MergeRefused, MergeOpens, MergeOpenFails,
         SplitOpens, SplitOpenFails, SplitOpened, MergeMessage, MergeUnknownChannel,
         SplitMessage, WriteFails, StreamEnds, CollectNotes, WriteNote, WriteNoteFails,
         NotesWritten, CloseNext, CloseFails, Done
  <2>2. /\ at' = at /\ at[1] = 1 /\ dsts = <<>> /\ pc' \in {"open", "done"} /\ st' # "Ok"
    BY <1>3, <2>1 DEF OpenSourceFails, SplitRefused, SplitBegins, Refuse, Return, OutputsInv, SelectInv
  <2>3. \A k \in DOMAIN dsts' : dsts'[k].log = <<>>
    <3>1. CASE OpenSourceFails \/ SplitRefused
      BY <2>2, <3>1 DEF OpenSourceFails, SplitRefused, Refuse
    <3>2. CASE SplitBegins
      BY <3>2 DEF SplitBegins, NewOutput
    <3>3. QED
      BY <2>1, <3>1, <3>2
  <2>4. \A k : Mine(k)' = {}
    BY <2>2 DEF Mine
  <2>5. \A k \in DOMAIN dsts' : Selects(k, dsts[k].log)'
    BY <2>3, <2>4, EmptyLog DEF Selects
  <2>6. QED
    BY <2>2, <2>5 DEF SelectInv
<1>4. CASE op = "split" /\ pc # "start" /\ SplitMessage
  BY <1>4, SplitMessageInv
<1>5. CASE op = "split" /\ pc # "start" /\ ~SplitMessage
  <2>1. ~MergeMessage
    BY <1>5 DEF MergeMessage
  <2>2. LogsStay /\ at' = at
    BY <1>5, <2>1, LogsStayed
  <2>3. stopped' = stopped /\ pc' # "start"
    BY <1>5, <2>1 DEF Next, OpenSourceFails, MergeRefused, Refuse, MergeOpens, MergeOpenFails, SplitRefused,
       SplitBegins, SplitOpens, SplitOpenFails, SplitOpened, MergeUnknownChannel,
       WriteFails, StreamEnds, CollectNotes, WriteNote, WriteNoteFails,
       NotesWritten, CloseNext, CloseFails, Done, Abandon, Return
  <2>4. pc' \in {"sort", "notes", "close"} \/ st' = "Ok" =>
          pc \in {"sort", "notes", "close"} \/ st = "Ok" \/ StreamEnds
    BY <1>5, <2>1 DEF Next, OpenSourceFails, MergeRefused, Refuse, MergeOpens, MergeOpenFails, SplitRefused,
       SplitBegins, SplitOpens, SplitOpenFails, SplitOpened, MergeUnknownChannel,
       WriteFails, CollectNotes, WriteNote, WriteNoteFails,
       NotesWritten, CloseNext, CloseFails, Done, Abandon, Return
  <2>5. StreamEnds => ReadAll
    BY <1>5 DEF StreamEnds, ReadAll
  <2>6. pc' \in {"sort", "notes", "close"} \/ st' = "Ok" => ReadAll
    BY <1>5, <2>4, <2>5 DEF SelectInv
  <2>7. QED
    BY <1>1, <2>2, <2>3, <2>6, SelectStays
<1>6. QED
  BY <1>2, <1>3, <1>4, <1>5

LEMMA SelectHolds == Spec => []SelectInv
<1>1. Init => SelectInv
  <2> SUFFICES ASSUME Init, op = "split" PROVE pc = "start" /\ at[1] = 1 /\ dsts = <<>> /\ st = "none"
    BY DEF SelectInv
  <2>1. srcs \in SourceLists /\ Len(srcs) = 1
    BY DEF Init
  <2>2. 1 \in DOMAIN srcs
    BY <2>1
  <2>3. QED
    BY <2>2 DEF Init
<1>2. SelectInv /\ UNCHANGED vars => SelectInv'
  BY DEF SelectInv, ReadAll, Selects, Mine, Goes, vars, input
<1>3. IInv => Shape
  BY DEF IInv
<1>4. QED
  BY <1>1, <1>2, <1>3, SelectNext, OutputsHold, Invariance, PTL DEF Spec

\* Whatever selection of channels, a split gives each output exactly the
\* messages of its channel that were read, once and in their order, and reads
\* all of them unless the progress callback stops it (splitter.cpp:166-183).
THEOREM SplitAlwaysSelects == Spec => []SplitSelects
<1>1. OutputsInv /\ SelectInv => SplitSelects
  <2> SUFFICES ASSUME OutputsInv, SelectInv, op = "split", NEW k \in DOMAIN dsts
               PROVE  /\ {dsts[k].log[j].n : j \in DOMAIN dsts[k].log}
                           = {n \in 1..(at[1] - 1) :
                                /\ srcs[1].msgs[n].ch = dsts[k].channel
                                /\ \A j \in 1..(k - 1) : dsts[j].channel # dsts[k].channel}
                      /\ \A i, j \in DOMAIN dsts[k].log :
                            i < j => dsts[k].log[i].n < dsts[k].log[j].n
                      /\ st = "Ok" /\ ~stopped => at[1] > Len(srcs[1].msgs)
    BY DEF SplitSelects
  <2>1. Selects(k, dsts[k].log)
    BY DEF SelectInv
  <2>2. Mine(k) = {n \in 1..(at[1] - 1) :
                     /\ srcs[1].msgs[n].ch = dsts[k].channel
                     /\ \A j \in 1..(k - 1) : dsts[j].channel # dsts[k].channel}
    BY DEF Mine, Goes
  <2>3. QED
    BY <2>1, <2>2 DEF Selects, SelectInv, ReadAll
<1>2. QED
  BY <1>1, OutputsHold, SelectHolds, PTL

-----------------------------------------------------------------------------
(***************************************************************************)
(* A merge takes each message of each source once, to the channel of its   *)
(* name.                                                                   *)
(***************************************************************************)
\* A log has of each source what was taken, up to its head.
Placed(log, heads) ==
  /\ IsSeq(log)
  /\ \A j \in DOMAIN log : log[j].src \in DOMAIN srcs /\ log[j].n \in 1..heads[log[j].src]
  /\ \A i, j \in DOMAIN log : i < j /\ log[i].src = log[j].src => log[i].n < log[j].n
  /\ \A s \in DOMAIN srcs : \A n \in 1..(heads[s] - 1) :
        \E j \in DOMAIN log : log[j].src = s /\ log[j].n = n

BehindHeads(log, heads) == \A j \in DOMAIN log : log[j].n < heads[log[j].src]

Named(log, names) ==
  \A j \in DOMAIN log : \E c \in DOMAIN srcs[log[j].src].chans :
    /\ srcs[log[j].src].chans[c].id = srcs[log[j].src].msgs[log[j].n].ch
    /\ srcs[log[j].src].chans[c].name = names[log[j].ch]

KeepInv ==
  op = "merge" =>
    /\ pc = "start" => \A s \in DOMAIN srcs : at[s] = 1
    /\ dsts # <<>> => Placed(dsts[1].log, at) /\ Named(dsts[1].log, dsts[1].chans)
    /\ pc = "stream" => BehindHeads(dsts[1].log, at)
    /\ pc \notin {"start", "done"} => dsts[1].chans = MergedNames
    /\ pc \in {"sort", "notes", "close"} \/ st = "Ok" => stopped \/ Ready = {}

LEMMA PlacedAppend ==
  ASSUME Shape, NEW log, Placed(log, at), BehindHeads(log, at),
         NEW b \in DOMAIN srcs, NEW e, e.src = b, e.n = at[b]
  PROVE  /\ Placed(Append(log, e), at)
         /\ Placed(Append(log, e), [at EXCEPT ![b] = @ + 1])
         /\ BehindHeads(Append(log, e), [at EXCEPT ![b] = @ + 1])
<1> DEFINE t == Append(log, e)
           l == Len(log)
           more == [at EXCEPT ![b] = @ + 1]
<1>1. /\ DOMAIN t = DOMAIN log \cup {l + 1} /\ DOMAIN log = 1..l /\ l \in Nat
      /\ \A k \in DOMAIN log : t[k] = log[k]
      /\ t[l + 1] = e /\ IsSeq(t)
  BY AppendSeq DEF Placed
<1>2. /\ DOMAIN at = DOMAIN srcs /\ \A s \in DOMAIN srcs : at[s] \in Nat \ {0}
      /\ \A s \in DOMAIN srcs : more[s] = IF s = b THEN at[s] + 1 ELSE at[s]
  BY DEF Shape
<1> HIDE DEF t, l, more
<1>3. /\ \A j \in DOMAIN log : log[j].src \in DOMAIN srcs /\ log[j].n \in 1..at[log[j].src]
      /\ \A j \in DOMAIN log : log[j].n < at[log[j].src]
      /\ \A i, j \in DOMAIN log : i < j /\ log[i].src = log[j].src => log[i].n < log[j].n
      /\ \A s \in DOMAIN srcs : \A n \in 1..(at[s] - 1) :
            \E j \in DOMAIN log : log[j].src = s /\ log[j].n = n
  BY DEF Placed, BehindHeads
<1>4. \A j \in DOMAIN t : /\ t[j].src \in DOMAIN srcs /\ t[j].n \in 1..at[t[j].src]
                          /\ t[j].n < more[t[j].src] /\ t[j].n \in 1..more[t[j].src]
  <2> TAKE j \in DOMAIN t
  <2>1. t[j].src \in DOMAIN srcs /\ t[j].n \in 1..at[t[j].src] /\ t[j].n < more[t[j].src]
    <3>1. CASE j \in DOMAIN log
      <4>1. log[j].src \in DOMAIN srcs /\ log[j].n \in 1..at[log[j].src] /\ log[j].n < at[log[j].src]
        BY <1>3, <3>1
      <4>2. log[j].n < more[log[j].src]
        BY <1>2, <4>1
      <4>3. QED
        BY <1>1, <3>1, <4>1, <4>2
    <3>2. CASE j \notin DOMAIN log
      <4>1. t[j] = e
        BY <1>1, <3>2
      <4>2. QED
        BY <1>2, <4>1
    <3>3. QED
      BY <3>1, <3>2
  <2>2. more[t[j].src] \in Nat
    BY <1>2, <2>1
  <2>3. QED
    BY <2>1, <2>2
<1>5. ASSUME NEW i \in DOMAIN t, NEW j \in DOMAIN t, i < j, t[i].src = t[j].src
      PROVE  t[i].n < t[j].n
  <2>1. i \in DOMAIN log
    BY <1>1, <1>5
  <2>2. CASE j \in DOMAIN log
    BY <1>1, <1>3, <1>5, <2>1, <2>2
  <2>3. CASE j \notin DOMAIN log
    <3>1. t[j] = e /\ t[i] = log[i]
      BY <1>1, <2>1, <2>3
    <3>2. log[i].n < at[log[i].src]
      BY <1>3, <2>1
    <3>3. QED
      BY <1>5, <3>1, <3>2
  <2>4. QED
    BY <2>2, <2>3
<1>6. ASSUME NEW s \in DOMAIN srcs, NEW n \in 1..(more[s] - 1)
      PROVE  \E j \in DOMAIN t : t[j].src = s /\ t[j].n = n
  <2>1. CASE n \in 1..(at[s] - 1)
    BY <1>1, <1>3, <2>1
  <2>2. CASE n \notin 1..(at[s] - 1)
    <3>1. s = b /\ n = at[b]
      BY <1>2, <2>2
    <3>2. l + 1 \in DOMAIN t
      BY <1>1
    <3>3. QED
      BY <1>1, <3>1, <3>2
  <2>3. QED
    BY <2>1, <2>2
<1>7. ASSUME NEW s \in DOMAIN srcs, NEW n \in 1..(at[s] - 1)
      PROVE  \E j \in DOMAIN t : t[j].src = s /\ t[j].n = n
  BY <1>1, <1>3
<1>8. Placed(t, at)
  BY <1>1, <1>4, <1>5, <1>7 DEF Placed
<1>9. Placed(t, more)
  BY <1>1, <1>4, <1>5, <1>6 DEF Placed
<1>10. BehindHeads(t, more)
  BY <1>4 DEF BehindHeads
<1>11. QED
  BY <1>8, <1>9, <1>10 DEF t, more

\* The channel that MapsTo and the names give is one of the source's own
\* (splitter.cpp:348-357).
LEMMA NameFound ==
  ASSUME Shape, NEW s \in DOMAIN srcs, NEW ch, DstChannel(s, ch) # 0
  PROVE  \E c \in DOMAIN srcs[s].chans :
           /\ srcs[s].chans[c].id = ch
           /\ srcs[s].chans[c].name = MergedNames[DstChannel(s, ch)]
<1> DEFINE Row(r, k) == [src |-> r, id |-> srcs[r].chans[k].id, name |-> srcs[r].chans[k].name]
           Rows(r) == [k \in DOMAIN srcs[r].chans |-> Row(r, k)]
           E == UNION {{Row(r, k) : k \in DOMAIN srcs[r].chans} : r \in DOMAIN srcs}
           ss == [r \in DOMAIN srcs |-> Rows(r)]
           M == MapsTo(s, ch)
<1>1. srcs \in SourceLists /\ DOMAIN srcs = 1..Len(srcs) /\ Len(srcs) \in Nat
  BY DEF Shape
<1>2. Defs = FlattenSeq(ss)
  BY DEF Defs
<1>3. \A r \in DOMAIN srcs : Rows(r) \in Seq(E)
  <2> TAKE r \in DOMAIN srcs
  <2> DEFINE n == Len(srcs[r].chans)
             D == DOMAIN srcs[r].chans
  <2>1. D = 1..n /\ n \in Nat
    <3>1. srcs[r].chans \in Seq(ToSet(srcs[r].chans))
      BY <1>1, ChannelsAssumption
    <3> DEFINE q == srcs[r].chans
               Q == ToSet(q)
    <3>2. q \in Seq(Q)
      BY <3>1
    <3> HIDE DEF q, Q
    <3>3. DOMAIN q = 1..Len(q) /\ Len(q) \in Nat
      BY <3>2
    <3>4. QED
      BY <3>3 DEF q
  <2>2. \A k \in D : Row(r, k) \in E
    OBVIOUS
  <2> HIDE DEF n, Row, E
  <2>3. [k \in D |-> Row(r, k)] \in [1..n -> E]
    BY <2>1, <2>2
  <2> HIDE DEF D
  <2>4. [k \in D |-> Row(r, k)] \in Seq(E)
    BY <2>1, <2>3
  <2>5. QED
    BY <2>4 DEF D
<1>4. ss \in Seq(Seq(E))
  <2> DEFINE n == Len(srcs)
  <2> HIDE DEF E, Rows
  <2>1. ss \in [1..n -> Seq(E)]
    BY <1>1, <1>3
  <2> HIDE DEF n, ss
  <2>2. n \in Nat
    BY <1>1 DEF n
  <2>3. QED
    BY <2>1, <2>2
<1>5. M # {} /\ DstChannel(s, ch) = SelectInSeq(MergedNames, LAMBDA n : n = Defs[Min(M)].name)
  BY DEF DstChannel
<1>6. Min(M) \in M
  <2>1. Defs \in Seq(E)
    <3> HIDE DEF E, ss
    <3>1. QED
      BY <1>2, <1>4, FlattenType
  <2> HIDE DEF E
  <2>2. M \in SUBSET Nat
    BY <2>1 DEF MapsTo
  <2> HIDE DEF M
  <2>3. \E x \in M : \A y \in M : x <= y
    BY <1>5, <2>2, Smallest
  <2>4. QED
    BY <2>3 DEF Min
<1> DEFINE k == Min(M)
           name == Defs[k].name
<1>7. k \in DOMAIN Defs /\ Defs[k].src = s /\ Defs[k].id = ch
  BY <1>6 DEF MapsTo
<1>8. MergedNames[DstChannel(s, ch)] = name
  <2> DEFINE I == {i \in 1..Len(MergedNames) : MergedNames[i] = name}
  <2>1. DstChannel(s, ch) = IF I # {} THEN Min(I) ELSE 0
    BY <1>5 DEF SelectInSeq
  <2>2. I # {} /\ DstChannel(s, ch) = Min(I)
    BY <2>1
  <2>3. I \in SUBSET Nat
    OBVIOUS
  <2> HIDE DEF k, name
  <2>4. Min(I) \in I
    <3> HIDE DEF I
    <3>1. \E x \in I : \A y \in I : x <= y
      BY <2>2, <2>3, Smallest
    <3>2. QED
      BY <3>1 DEF Min
  <2>5. QED
    BY <2>2, <2>4
<1> HIDE DEF k
<1>9. Defs[k] \in ToSet(FlattenSeq(ss))
  BY <1>2, <1>7 DEF ToSet
<1>10. PICK r \in DOMAIN ss : Defs[k] \in ToSet(ss[r])
  <2> HIDE DEF ss, E
  <2>1. QED
    BY <1>4, <1>9, FlattenMember
<1>11. PICK c \in DOMAIN srcs[r].chans : Defs[k] = Row(r, c)
  BY <1>10 DEF ToSet
<1>12. r = s
  BY <1>7, <1>11
<1>13. QED
  BY <1>7, <1>8, <1>11, <1>12

LEMMA NamesStay ==
  ASSUME UNCHANGED srcs
  PROVE  MergedNames' = MergedNames
<1>1. Defs' = Defs
  BY DEF Defs
<1>2. QED
  BY <1>1, Zenon DEF MergedNames, FoldLeft, MapThenFoldSet

LEMMA LogStays ==
  ASSUME UNCHANGED <<srcs, at>>, dsts'[1].log = dsts[1].log, dsts'[1].chans = dsts[1].chans
  PROVE  /\ Placed(dsts[1].log, at) => Placed(dsts[1].log, at)'
         /\ Named(dsts[1].log, dsts[1].chans) => Named(dsts[1].log, dsts[1].chans)'
<1> DEFINE log == dsts[1].log
           log2 == dsts'[1].log
           names == dsts[1].chans
           names2 == dsts'[1].chans
<1>1. log2 = log /\ names2 = names /\ srcs' = srcs
  OBVIOUS
<1>2. Placed(log, at) => Placed(dsts[1].log, at)'
  BY DEF Placed
<1> HIDE DEF log, log2, names, names2
<1>3. ASSUME Named(log, names)
      PROVE  \A j \in DOMAIN log2 : \E c \in DOMAIN srcs'[log2[j].src].chans :
               /\ srcs'[log2[j].src].chans[c].id = srcs'[log2[j].src].msgs[log2[j].n].ch
               /\ srcs'[log2[j].src].chans[c].name = names2[log2[j].ch]
  BY <1>1, <1>3 DEF Named
<1>4. (\A j \in DOMAIN log2 : \E c \in DOMAIN srcs'[log2[j].src].chans :
               /\ srcs'[log2[j].src].chans[c].id = srcs'[log2[j].src].msgs[log2[j].n].ch
               /\ srcs'[log2[j].src].chans[c].name = names2[log2[j].ch])
      => Named(dsts[1].log, dsts[1].chans)'
  BY DEF Named, log2, names2
<1>5. QED
  BY <1>2, <1>3, <1>4 DEF log, names

LEMMA KeepMessage ==
  ASSUME Shape, OutputsInv, KeepInv, MergeMessage
  PROVE  KeepInv'
<1> DEFINE log == dsts[1].log
           c == DstChannel(Best, HeadOf(Best).ch)
           e == Logged(Best, c)
           t == Append(log, e)
<1>1. /\ op = "merge" /\ pc = "stream" /\ Ready # {} /\ c # 0 /\ st = "none"
      /\ dsts' = [dsts EXCEPT ![1].log = t]
      /\ UNCHANGED <<op, srcs, st>>
      /\ \/ at' = [at EXCEPT ![Best] = @ + 1] /\ pc' = "stream"
         \/ at' = at /\ pc' = "sort" /\ stopped'
  BY DEF MergeMessage, OutputsInv, input, AdvancedBest
<1>2. 1 \in DOMAIN dsts /\ IsOutput(dsts[1]) /\ dsts # <<>>
  BY <1>1 DEF Shape
<1>3. Placed(log, at) /\ Named(log, dsts[1].chans) /\ BehindHeads(log, at) /\ dsts[1].chans = MergedNames
  BY <1>1, <1>2 DEF KeepInv
<1>4. Best \in DOMAIN srcs
  BY <1>1, BestIsFirst DEF Waiting
<1>5. e.src = Best /\ e.n = at[Best] /\ e.ch = c
  BY DEF Logged
<1>6. dsts'[1].log = t /\ dsts'[1].chans = dsts[1].chans
  <2>1. PICK s, h, n, l, a :
          dsts[1] = [state |-> s, channel |-> h, chans |-> n, log |-> l, notes |-> a]
    BY <1>2 DEF IsOutput
  <2> HIDE DEF t
  <2>2. dsts'[1] = [dsts[1] EXCEPT !.log = t]
    BY <1>1, <1>2
  <2>3. dsts'[1] = [state |-> s, channel |-> h, chans |-> n, log |-> t, notes |-> a]
    BY <2>1, <2>2
  <2>4. QED
    BY <2>1, <2>3
<1>7. \E k \in DOMAIN srcs[Best].chans :
        /\ srcs[Best].chans[k].id = srcs[Best].msgs[at[Best]].ch
        /\ srcs[Best].chans[k].name = MergedNames[c]
  <2>1. \E k \in DOMAIN srcs[Best].chans :
          /\ srcs[Best].chans[k].id = HeadOf(Best).ch
          /\ srcs[Best].chans[k].name = MergedNames[DstChannel(Best, HeadOf(Best).ch)]
    BY <1>1, <1>4, NameFound
  <2>2. QED
    BY <2>1 DEF HeadOf
<1> HIDE DEF c, e
<1>8. Named(t, MergedNames)
  <2>1. /\ DOMAIN t = DOMAIN log \cup {Len(log) + 1}
        /\ \A k \in DOMAIN log : t[k] = log[k]
        /\ t[Len(log) + 1] = e
    <3> HIDE DEF log
    <3>1. IsSeq(log)
      BY <1>3 DEF Placed
    <3>2. QED
      BY <3>1, AppendSeq
  <2> HIDE DEF t, log
  <2> SUFFICES ASSUME NEW j \in DOMAIN t
               PROVE  \E k \in DOMAIN srcs[t[j].src].chans :
                        /\ srcs[t[j].src].chans[k].id = srcs[t[j].src].msgs[t[j].n].ch
                        /\ srcs[t[j].src].chans[k].name = MergedNames[t[j].ch]
    BY DEF Named
  <2>2. CASE j \in DOMAIN log
    <3>1. \E k \in DOMAIN srcs[log[j].src].chans :
            /\ srcs[log[j].src].chans[k].id = srcs[log[j].src].msgs[log[j].n].ch
            /\ srcs[log[j].src].chans[k].name = MergedNames[log[j].ch]
      BY <1>3, <2>2 DEF Named
    <3>2. t[j] = log[j]
      BY <2>1, <2>2
    <3>3. QED
      BY <3>1, <3>2
  <2>3. CASE j \notin DOMAIN log
    <3>1. t[j] = e
      BY <2>1, <2>3
    <3>2. QED
      BY <1>5, <1>7, <3>1
  <2>4. QED
    BY <2>2, <2>3
<1>9. /\ Placed(t, at) /\ Placed(t, [at EXCEPT ![Best] = @ + 1])
      /\ BehindHeads(t, [at EXCEPT ![Best] = @ + 1])
  <2> HIDE DEF log
  <2>1. QED
    BY <1>3, <1>4, <1>5, PlacedAppend
<1> HIDE DEF t, log
<1>10. Placed(dsts[1].log, at)'
  <2>1. Placed(t, at')
    BY <1>1, <1>9
  <2>2. QED
    BY <1>1, <1>6, <2>1 DEF Placed
<1>11. Named(dsts[1].log, dsts[1].chans)'
  <2> DEFINE names == dsts[1].chans
             names2 == dsts'[1].chans
  <2>1. Named(t, names) /\ dsts'[1].log = t /\ names2 = names
    BY <1>3, <1>6, <1>8
  <2> HIDE DEF names
  <2>2. \A j \in DOMAIN t : \E k \in DOMAIN srcs[t[j].src].chans :
          /\ srcs[t[j].src].chans[k].id = srcs[t[j].src].msgs[t[j].n].ch
          /\ srcs[t[j].src].chans[k].name = names2[t[j].ch]
    BY <2>1 DEF Named
  <2>3. QED
    <3>1. \A j \in DOMAIN t : \E k \in DOMAIN srcs'[t[j].src].chans :
            /\ srcs'[t[j].src].chans[k].id = srcs'[t[j].src].msgs[t[j].n].ch
            /\ srcs'[t[j].src].chans[k].name = names2[t[j].ch]
      BY <1>1, <2>2
    <3> HIDE DEF names2
    <3>2. QED
      BY <2>1, <3>1 DEF Named, names2
<1>12. (pc = "stream" => BehindHeads(dsts[1].log, at))'
  BY <1>1, <1>6, <1>9 DEF BehindHeads
<1>13. MergedNames' = MergedNames
  BY <1>1, NamesStay
<1>14. QED
  BY <1>1, <1>3, <1>6, <1>10, <1>11, <1>12, <1>13 DEF KeepInv

\* The output is made with the merged channels and no messages.
LEMMA KeepStart ==
  ASSUME Shape, OutputsInv, KeepInv, op = "merge", pc = "start", Next
  PROVE  KeepInv'
<1>1. \/ OpenSourceFails \/ MergeRefused \/ MergeOpens \/ MergeOpenFails
  BY DEF Next, SplitRefused, SplitBegins, SplitOpens, SplitOpenFails, SplitOpened, MergeMessage,
         MergeUnknownChannel, SplitMessage, WriteFails, StreamEnds, CollectNotes, WriteNote,
         WriteNoteFails, NotesWritten, CloseNext, CloseFails, Done
<1>2. dsts = <<>> /\ st = "none" /\ UNCHANGED <<op, opts, srcs>> /\ \A s \in DOMAIN srcs : at[s] = 1
  BY SourceStays DEF OutputsInv, KeepInv
<1>3. at' = at
  BY <1>1 DEF OpenSourceFails, MergeRefused, Refuse, MergeOpens, MergeOpenFails
<1>4. Placed(<<>>, at) /\ BehindHeads(<<>>, at) /\ \A names : Named(<<>>, names)
  <2>1. \A s \in DOMAIN srcs : 1..(at[s] - 1) = {}
    BY <1>2
  <2>2. QED
    BY <2>1, EmptyLog DEF Placed, BehindHeads, Named
<1>5. CASE OpenSourceFails \/ MergeRefused
  <2>1. dsts' = <<>> /\ pc' = "done" /\ st' # "Ok"
    BY <1>2, <1>5 DEF OpenSourceFails, MergeRefused, Refuse, Return
  <2>2. QED
    BY <2>1 DEF KeepInv
<1>6. CASE MergeOpens
  <2>1. pc' = "stream" /\ st' = "none" /\ dsts'[1].log = <<>> /\ dsts'[1].chans = MergedNames
    <3> DEFINE names == MergedNames
    <3>1. /\ dsts' = <<[state |-> "open", channel |-> 0, chans |-> names, log |-> <<>>, notes |-> <<>>]>>
          /\ pc' = "stream" /\ st' = "none"
      BY <1>2, <1>6 DEF MergeOpens
    <3> HIDE DEF names
    <3>2. dsts'[1].log = <<>> /\ dsts'[1].chans = names
      BY <3>1
    <3>3. QED
      BY <3>1, <3>2 DEF names
  <2>2. MergedNames' = MergedNames
    BY <1>2, NamesStay
  <2>3. Placed(dsts[1].log, at)' /\ BehindHeads(dsts[1].log, at)' /\ Named(dsts[1].log, dsts[1].chans)'
    BY <1>2, <1>3, <1>4, <2>1 DEF Placed, BehindHeads, Named
  <2>4. QED
    BY <2>1, <2>2, <2>3 DEF KeepInv
<1>7. CASE MergeOpenFails
  <2>1. pc' = "done" /\ st' # "Ok" /\ (dsts' = <<>> \/ dsts' = <<[NewOutput(0) EXCEPT !.state = "closed"]>>)
    BY <1>7 DEF MergeOpenFails, Return
  <2>2. dsts' # <<>> => dsts'[1].log = <<>>
    <3>1. [NewOutput(0) EXCEPT !.state = "closed"].log = <<>>
      BY DEF NewOutput
    <3> DEFINE d == [NewOutput(0) EXCEPT !.state = "closed"]
    <3> HIDE DEF d
    <3>2. dsts' = <<>> \/ dsts' = <<d>>
      BY <2>1 DEF d
    <3>3. <<d>>[1] = d /\ d.log = <<>>
      BY <3>1 DEF d
    <3>4. QED
      BY <3>2, <3>3
  <2>3. dsts' # <<>> => Placed(dsts[1].log, at)' /\ Named(dsts[1].log, dsts[1].chans)'
    BY <1>2, <1>3, <1>4, <2>2 DEF Placed, Named
  <2>4. QED
    BY <2>1, <2>3 DEF KeepInv
<1>8. QED
  BY <1>1, <1>5, <1>6, <1>7

\* All other steps leave the messages as they are, and the phase after them
\* begins when no head is left to pick.
LEMMA KeepRest ==
  ASSUME Shape, OutputsInv, Shape', KeepInv, Next, op = "merge", pc # "start", ~MergeMessage
  PROVE  KeepInv'
<1>1. ~SplitMessage
  BY DEF SplitMessage
<1>2. LogsStay /\ UNCHANGED <<op, opts, srcs, at>>
  BY <1>1, LogsStayed, SourceStays
<1>3. /\ stopped' = stopped /\ pc' # "start" /\ pc # "done" /\ pc # "open" /\ (pc' = "stream" => pc = "stream")
      /\ pc' \in {"sort", "notes", "close"} \/ st' = "Ok" =>
           pc \in {"sort", "notes", "close"} \/ st = "Ok" \/ StreamEnds
  <2>1. pc # "open"
    BY DEF Shape
  <2>2. QED
    BY <1>1, <2>1 DEF Next, OpenSourceFails, MergeRefused, Refuse, MergeOpens, MergeOpenFails, SplitRefused,
       SplitBegins, SplitOpens, SplitOpenFails, SplitOpened, MergeUnknownChannel,
       WriteFails, CollectNotes, WriteNote, WriteNoteFails, StreamEnds,
       NotesWritten, CloseNext, CloseFails, Done, Abandon, Return
<1>4. 1 \in DOMAIN dsts /\ dsts # <<>>
  BY <1>3 DEF Shape
<1>5. dsts'[1].log = dsts[1].log /\ dsts'[1].chans = dsts[1].chans
  BY <1>2, <1>4 DEF LogsStay
<1>6. Placed(dsts[1].log, at)' /\ Named(dsts[1].log, dsts[1].chans)'
  <2>1. Placed(dsts[1].log, at) /\ Named(dsts[1].log, dsts[1].chans)
    BY <1>4 DEF KeepInv
  <2>2. QED
    BY <1>2, <1>5, <2>1, LogStays
<1>7. (pc = "stream" => BehindHeads(dsts[1].log, at))'
  BY <1>2, <1>3, <1>5 DEF KeepInv, BehindHeads
<1>8. dsts'[1].chans = MergedNames'
  <2>1. MergedNames' = MergedNames
    BY <1>2, NamesStay
  <2>2. dsts[1].chans = MergedNames
    BY <1>3 DEF KeepInv
  <2>3. QED
    BY <1>5, <2>1, <2>2
<1>9. (pc \in {"sort", "notes", "close"} \/ st = "Ok" => stopped \/ Ready = {})'
  <2>1. Ready' = Ready
    BY <1>2 DEF Ready, HeadOf
  <2>2. StreamEnds => Ready = {}
    BY DEF StreamEnds
  <2>3. pc \in {"sort", "notes", "close"} \/ st = "Ok" => stopped \/ Ready = {}
    BY DEF KeepInv
  <2>4. QED
    BY <1>3, <2>1, <2>2, <2>3
<1>10. QED
  BY <1>2, <1>3, <1>6, <1>7, <1>8, <1>9 DEF KeepInv

LEMMA KeepHolds == Spec => []KeepInv
<1>1. Init => KeepInv
  BY DEF Init, KeepInv
<1>2. KeepInv /\ UNCHANGED vars => KeepInv'
  <2> SUFFICES ASSUME KeepInv, UNCHANGED vars PROVE KeepInv'
    OBVIOUS
  <2>1. UNCHANGED <<op, srcs, at, dsts, stopped, pc, st>>
    BY DEF vars, input
  <2>2. MergedNames' = MergedNames
    BY <2>1, NamesStay
  <2>3. /\ Placed(dsts[1].log, at) => Placed(dsts[1].log, at)'
        /\ Named(dsts[1].log, dsts[1].chans) => Named(dsts[1].log, dsts[1].chans)'
    BY <2>1, LogStays
  <2>4. BehindHeads(dsts[1].log, at)' <=> BehindHeads(dsts[1].log, at)
    BY <2>1 DEF BehindHeads
  <2>5. Ready' = Ready
    BY <2>1 DEF Ready, HeadOf
  <2>6. QED
    BY <2>1, <2>2, <2>3, <2>4, <2>5 DEF KeepInv
<1>3. Shape /\ OutputsInv /\ Shape' /\ KeepInv /\ Next => KeepInv'
  <2> SUFFICES ASSUME Shape, OutputsInv, Shape', KeepInv, Next PROVE KeepInv'
    OBVIOUS
  <2>1. CASE op # "merge"
    BY <2>1, SourceStays DEF KeepInv
  <2>2. CASE op = "merge" /\ MergeMessage
    BY <2>2, KeepMessage
  <2>3. CASE op = "merge" /\ pc = "start"
    BY <2>3, KeepStart
  <2>4. CASE op = "merge" /\ pc # "start" /\ ~MergeMessage
    BY <2>4, KeepRest
  <2>5. QED
    BY <2>1, <2>2, <2>3, <2>4
<1>4. IInv => Shape
  BY DEF IInv
<1>5. QED
  BY <1>1, <1>2, <1>3, <1>4, OutputsHold, Invariance, PTL DEF Spec

\* What the invariant says of one source.
LEMMA SourceKeeps ==
  ASSUME Shape, OutputsInv, KeepInv, op = "merge", dsts # <<>>, NEW s \in DOMAIN srcs
  PROVE  SourceKept(s)
<1> DEFINE log == dsts[1].log
           Part == {j \in DOMAIN log : log[j].src = s}
           msgs == srcs[s].msgs
<1>1. /\ IsSeq(log)
      /\ \A j \in DOMAIN log : log[j].src \in DOMAIN srcs /\ log[j].n \in 1..at[log[j].src]
      /\ \A i, j \in DOMAIN log : i < j /\ log[i].src = log[j].src => log[i].n < log[j].n
      /\ \A r \in DOMAIN srcs : \A n \in 1..(at[r] - 1) :
            \E j \in DOMAIN log : log[j].src = r /\ log[j].n = n
  BY DEF KeepInv, Placed
<1>2. DOMAIN log \in SUBSET Nat
  BY <1>1 DEF IsSeq
<1>3. /\ at[s] \in Nat \ {0} /\ Len(msgs) \in Nat /\ DOMAIN msgs = 1..Len(msgs)
      /\ \A n \in 1..Len(msgs) : msgs[n].ts \in Nat /\ msgs[n].ts <= LastTs
  BY SourceTypes
<1>4. st = "Ok" /\ ~stopped => Ready = {}
  BY DEF KeepInv
<1>5. s \notin Ready => at[s] > Len(msgs) \/ (at[s] \in 1..Len(msgs) /\ msgs[at[s]].ts = LastTs)
  <2> SUFFICES ASSUME s \notin Ready, ~(at[s] > Len(msgs))
               PROVE  at[s] \in 1..Len(msgs) /\ msgs[at[s]].ts = LastTs
    OBVIOUS
  <2>1. at[s] \in 1..Len(msgs)
    BY <1>3
  <2>2. ~(msgs[at[s]].ts < LastTs)
    BY <2>1, <1>3 DEF Ready, HeadOf
  <2>3. QED
    BY <1>3, <2>1, <2>2
<1> HIDE DEF log, msgs
<1>6. ASSUME NEW i \in Part, NEW j \in Part, log[i].n = log[j].n
      PROVE  i = j
  <2>1. ~(i < j) /\ ~(j < i)
    <3>1. log[i].n \in Nat /\ log[j].n \in Nat
      BY <1>1, <1>3
    <3>2. QED
      BY <1>1, <1>6, <3>1
  <2>2. QED
    BY <1>2, <2>1
<1>7. ASSUME NEW j \in Part, NEW n \in 1..(log[j].n - 1)
      PROVE  \E i \in Part : i < j /\ log[i].n = n
  <2>1. log[j].n \in 1..at[s]
    BY <1>1
  <2>2. n \in 1..(at[s] - 1) /\ n < log[j].n
    BY <1>3, <2>1
  <2>3. PICK i \in DOMAIN log : log[i].src = s /\ log[i].n = n
    BY <1>1, <2>2
  <2>4. ~(j < i) /\ i # j
    BY <1>1, <1>3, <2>1, <2>2, <2>3
  <2>5. i < j
    BY <1>2, <2>3, <2>4
  <2>6. QED
    BY <2>3, <2>5
<1>8. ASSUME st = "Ok", ~stopped, NEW n \in DOMAIN msgs, \A k \in 1..n : msgs[k].ts < LastTs
      PROVE  \E j \in Part : log[j].n = n
  <2>1. at[s] > Len(msgs) \/ (at[s] \in 1..Len(msgs) /\ msgs[at[s]].ts = LastTs)
    BY <1>4, <1>5, <1>8
  <2>2. n \in 1..(at[s] - 1)
    <3>1. CASE at[s] > Len(msgs)
      BY <1>3, <3>1
    <3>2. CASE at[s] \in 1..Len(msgs) /\ msgs[at[s]].ts = LastTs
      <4>1. at[s] \notin 1..n
        BY <1>3, <1>8, <3>2
      <4>2. QED
        BY <1>3, <4>1
    <3>3. QED
      BY <2>1, <3>1, <3>2
  <2>3. QED
    BY <1>1, <2>2
<1>9. QED
  BY <1>6, <1>7, <1>8 DEF SourceKept, log, msgs

\* Whatever the sources, ordered or not, a merge writes the messages of each
\* once, in their order and without a gap, to the channel of their name, and
\* one that was not stopped writes all but those from the first with the
\* largest timestamp on (splitter.cpp:332-372).
THEOREM MergeAlwaysKeeps == Spec => []MergeKeepsMessages
<1>1. Shape /\ OutputsInv /\ KeepInv => MergeKeepsMessages
  <2> SUFFICES ASSUME Shape, OutputsInv, KeepInv, op = "merge", dsts # <<>>
               PROVE  /\ \A s \in DOMAIN srcs : SourceKept(s)
                      /\ \A k \in DOMAIN dsts[1].log : NameKept(dsts[1].log[k])
    BY DEF MergeKeepsMessages
  <2>1. \A s \in DOMAIN srcs : SourceKept(s)
    BY SourceKeeps
  <2>2. Named(dsts[1].log, dsts[1].chans)
    BY DEF KeepInv
  <2>3. QED
    BY <2>1, <2>2 DEF Named, NameKept
<1>2. IInv => Shape
  BY DEF IInv
<1>3. QED
  BY <1>1, <1>2, OutputsHold, Invariance, KeepHolds, PTL
=============================================================================
