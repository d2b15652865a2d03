----------------------------- MODULE ReaderProof -----------------------------
(***************************************************************************)
(* Proofs about the reader: the types, that it delivers the messages of    *)
(* the session as MessageStream promises, that it knows the channel of     *)
(* each, what a seek and a filtered read find in a session in order of     *)
(* time, and that the counts of a full pass add up.                        *)
(***************************************************************************)
EXTENDS ReaderProperties, SessionFilesProof

(***************************************************************************)
(* The records of the session.                                             *)
(***************************************************************************)
Entries == [file: DOMAIN disk.files, start: Nat, end: Nat]

DiskInv ==
  /\ disk \in Disks
  /\ Segs \in Seq({Scanned(e) : e \in Entries})
  /\ isOpen \in BOOLEAN /\ (isOpen <=> Segs # <<>>)

LEMMA OpenFiles ==
  ASSUME DiskInv, NEW s \in DOMAIN Segs
  PROVE  /\ IsSegmentFile(disk.files[Segs[s].file])
         /\ Segs[s].points = disk.files[Segs[s].file].points
         /\ RecsOf(Segs[s]) \in Seq(Records)
<1>1. PICK e \in Entries : Segs[s] = Scanned(e)
  BY DEF DiskInv
<1>2. Segs[s].file = e.file /\ Segs[s].points = disk.files[e.file].points
  BY <1>1 DEF Scanned
<1>3. IsSegmentFile(disk.files[e.file])
  BY DisksAssumption DEF DiskInv, Entries
<1>4. QED
  BY <1>2, <1>3 DEF RecsOf, IsSegmentFile, SegmentFileShapes

LEMMA GivenType ==
  ASSUME NEW recs \in Seq(Records)
  PROVE  /\ [k \in DOMAIN recs |-> Given(recs[k])] \in Seq(Seq(AnyMessage))
         /\ MessagesOf(recs) = FlattenSeq([k \in DOMAIN recs |-> Given(recs[k])])
         /\ MessagesOf(recs) \in Seq(AnyMessage)
<1>1. \A r \in Records : Given(r) \in Seq(AnyMessage)
  BY RecordFields DEF Given
<1>2. DOMAIN recs = 1..Len(recs) /\ Len(recs) \in Nat /\ \A k \in DOMAIN recs : recs[k] \in Records
  OBVIOUS
<1>3. [k \in DOMAIN recs |-> Given(recs[k])] \in Seq(Seq(AnyMessage))
  <2> DEFINE f == [k \in 1..Len(recs) |-> Given(recs[k])]
  <2>1. f \in [1..Len(recs) -> Seq(AnyMessage)]
    BY <1>1, <1>2
  <2>2. f \in Seq(Seq(AnyMessage))
    BY <1>2, <2>1
  <2>3. QED
    BY <1>2, <2>2
<1>4. MessagesOf(recs) = FlattenSeq([k \in DOMAIN recs |-> Given(recs[k])])
  BY DEF MessagesOf, Given
<1>5. QED
  BY <1>3, <1>4, FlattenType

LEMMA NoRecords == MessagesOf(<<>>) = <<>>
<1>1. <<>> \in Seq(Records)
  OBVIOUS
<1>2. [k \in DOMAIN <<>> |-> Given(<<>>[k])] = <<>>
  OBVIOUS
<1>3. QED
  BY <1>1, <1>2, GivenType, FlattenEmpty

LEMMA MessagesCons ==
  ASSUME NEW recs \in Seq(Records), recs # <<>>
  PROVE  MessagesOf(recs) = Given(Head(recs)) \o MessagesOf(Tail(recs))
<1> DEFINE tail == Tail(recs)
           a == [k \in DOMAIN recs |-> Given(recs[k])]
           b == [k \in DOMAIN tail |-> Given(tail[k])]
           g == Given(Head(recs))
<1>1. /\ tail \in Seq(Records) /\ Len(tail) = Len(recs) - 1 /\ Head(recs) = recs[1]
      /\ \A k \in 1..(Len(recs) - 1) : tail[k] = recs[k + 1]
      /\ Len(recs) \in Nat /\ Len(recs) > 0
  BY HeadTailProperties
<1> HIDE DEF tail
<1>2. a \in Seq(Seq(AnyMessage)) /\ b \in Seq(Seq(AnyMessage)) /\ g \in Seq(AnyMessage)
  <2>1. recs[1] \in Records
    BY <1>1
  <2>2. g \in Seq(AnyMessage)
    BY <1>1, <2>1, RecordFields DEF Given
  <2>3. QED
    BY <1>1, <2>2, GivenType
<1>3. a = <<g>> \o b
  <2>1. Len(a) = Len(recs) /\ Len(b) = Len(recs) - 1
    BY <1>1
  <2>2. /\ a[1] = g
        /\ \A k \in 1..(Len(recs) - 1) : a[k + 1] = b[k]
    BY <1>1
  <2>3. Len(a) = Len(b) + 1 /\ \A k \in 1..Len(b) : a[k + 1] = b[k]
    BY <1>1, <2>1, <2>2
  <2> HIDE DEF a, b, g
  <2>4. QED
    BY <1>2, <2>2, <2>3, IsCons
<1>4. MessagesOf(recs) = FlattenSeq(a) /\ MessagesOf(tail) = FlattenSeq(b)
  BY <1>1, GivenType
<1> HIDE DEF a, b, g
<1>5. FlattenSeq(<<g>> \o b) = g \o FlattenSeq(b)
  BY <1>2, FlattenCons
<1>6. QED
  BY <1>3, <1>4, <1>5 DEF g, tail

\* Reading on by a record, and at the end of the records.
LEMMA FromType ==
  ASSUME NEW recs \in Seq(Records), NEW k \in 1..(Len(recs) + 1)
  PROVE  From(recs, k) \in Seq(Records)
<1>1. k \in Int /\ Len(recs) \in Int /\ \A j \in k..Len(recs) : recs[j] \in Records
  OBVIOUS
<1>2. QED
  BY <1>1, SubSeqProperties DEF From

LEMMA MessagesStep ==
  ASSUME NEW recs \in Seq(Records), NEW k \in DOMAIN recs
  PROVE  MessagesOf(From(recs, k)) = Given(recs[k]) \o MessagesOf(From(recs, k + 1))
<1>1. k \in 1..Len(recs) /\ Len(recs) \in k..Len(recs) /\ k \in 1..(Len(recs) + 1)
  OBVIOUS
<1>2. Head(From(recs, k)) = recs[k] /\ Tail(From(recs, k)) = From(recs, k + 1)
  BY <1>1, HeadTailOfSubSeq DEF From
<1>3. From(recs, k) \in Seq(Records)
  BY <1>1, FromType
<1>4. From(recs, k) # <<>>
  <2>1. Len(From(recs, k)) = Len(recs) - k + 1
    BY <1>1, SubSeqProperties DEF From
  <2>2. QED
    BY <1>1, <2>1
<1>5. QED
  BY <1>2, <1>3, <1>4, MessagesCons

LEMMA MessagesEnd ==
  ASSUME NEW recs \in Seq(Records)
  PROVE  MessagesOf(From(recs, Len(recs) + 1)) = <<>> /\ From(recs, 1) = recs
<1>1. Len(recs) + 1 \in Int /\ Len(recs) \in Int /\ Len(recs) < Len(recs) + 1
  OBVIOUS
<1>2. From(recs, Len(recs) + 1) = <<>>
  BY <1>1, SubSeqEmpty DEF From
<1>3. QED
  BY <1>2, NoRecords, SubSeqFull DEF From

(***************************************************************************)
(* What is left to read from a place in the session.                       *)
(***************************************************************************)
AfterSegment(s) == FlattenSeq([i \in 1..(Len(Segs) - s) |-> MessagesOf(RecsOf(Segs[s + i]))])

LEMMA AfterSegmentType ==
  ASSUME DiskInv, NEW s \in DOMAIN Segs
  PROVE  /\ [i \in 1..(Len(Segs) - s) |-> MessagesOf(RecsOf(Segs[s + i]))] \in Seq(Seq(AnyMessage))
         /\ AfterSegment(s) \in Seq(AnyMessage)
<1> DEFINE n == Len(Segs) - s
           f == [i \in 1..n |-> MessagesOf(RecsOf(Segs[s + i]))]
<1>1. n \in Nat /\ \A i \in 1..n : s + i \in DOMAIN Segs
  BY DEF DiskInv
<1>2. \A i \in 1..n : MessagesOf(RecsOf(Segs[s + i])) \in Seq(AnyMessage)
  <2> TAKE i \in 1..n
  <2> HIDE DEF n
  <2>1. RecsOf(Segs[s + i]) \in Seq(Records)
    BY <1>1, OpenFiles
  <2>2. QED
    BY <2>1, GivenType
<1> HIDE DEF n
<1>3. f \in [1..n -> Seq(AnyMessage)]
  BY <1>2
<1>4. f \in Seq(Seq(AnyMessage))
  BY <1>1, <1>3
<1>5. QED
  BY <1>4, FlattenType DEF AfterSegment, n

LEMMA AfterSegmentStep ==
  ASSUME DiskInv, NEW s \in DOMAIN Segs
  PROVE  MessagesFrom(s + 1, FirstOffset) = AfterSegment(s)
<1> DEFINE n == Len(Segs) - s
           f == [i \in 1..n |-> MessagesOf(RecsOf(Segs[s + i]))]
           h == [i \in 1..(n - 1) |-> MessagesOf(RecsOf(Segs[(s + 1) + i]))]
           m == MessagesOf(RecsOf(Segs[s + 1]))
<1>1. n \in Nat /\ s \in Nat /\ Len(Segs) \in Nat /\ (s + 1 > Len(Segs) <=> n = 0)
      /\ Len(Segs) - (s + 1) = n - 1
  BY DEF DiskInv
<1>2. AfterSegment(s) = FlattenSeq(f) /\ f \in Seq(Seq(AnyMessage))
  BY AfterSegmentType DEF AfterSegment
<1>3. CASE n = 0
  <2>1. f = <<>>
    <3>1. DOMAIN f = {}
      BY <1>3
    <3> HIDE DEF f
    <3>2. QED
      BY <1>2, <3>1
  <2>2. QED
    BY <1>1, <1>2, <1>3, <2>1, FlattenEmpty DEF MessagesFrom
<1>4. CASE n # 0
  <2>1. s + 1 \in DOMAIN Segs
    BY <1>1, <1>4 DEF DiskInv
  <2>2. RecsOf(Segs[s + 1]) \in Seq(Records)
    BY <2>1, OpenFiles
  <2>3. AfterSegment(s + 1) = FlattenSeq(h) /\ h \in Seq(Seq(AnyMessage))
    BY <1>1, <2>1, AfterSegmentType DEF AfterSegment
  <2>4. m \in Seq(AnyMessage)
    BY <2>2, GivenType
  <2>5. MessagesFrom(s + 1, FirstOffset) = m \o AfterSegment(s + 1)
    <3>1. From(RecsOf(Segs[s + 1]), 1) = RecsOf(Segs[s + 1])
      BY <2>2, MessagesEnd
    <3>2. ~ (s + 1 > Len(Segs))
      BY <1>1, <1>4
    <3>3. QED
      BY <3>1, <3>2 DEF MessagesFrom, AfterSegment, FirstOffset
  <2>6. f = <<m>> \o h
    <3>1. n - 1 \in Nat /\ Len(f) = n /\ Len(h) = n - 1 /\ f[1] = m
      BY <1>1, <1>4
    <3>2. \A k \in 1..(n - 1) : f[k + 1] = h[k]
      <4> TAKE k \in 1..(n - 1)
      <4>1. k + 1 \in 1..n /\ s + (k + 1) = (s + 1) + k
        <5> HIDE DEF n
        <5>1. QED
          BY <1>1, <3>1
      <4>2. QED
        BY <4>1
    <3> HIDE DEF f, h, m, n
    <3>3. Len(f) = Len(h) + 1 /\ \A k \in 1..Len(h) : f[k + 1] = h[k]
      BY <3>1, <3>2
    <3>4. QED
      BY <1>2, <2>3, <2>4, <3>1, <3>3, IsCons
  <2> HIDE DEF f, h, m, n
  <2>7. FlattenSeq(<<m>> \o h) = m \o FlattenSeq(h)
    BY <2>3, <2>4, FlattenCons
  <2>8. QED
    BY <1>2, <2>3, <2>5, <2>6, <2>7
<1>5. QED
  BY <1>3, <1>4

\* A place to read from: a record or the end of an open segment, or behind them all.
Place(s, k) ==
  \/ s \in DOMAIN Segs /\ k \in 1..(Len(RecsOf(Segs[s])) + 1)
  \/ s = Len(Segs) + 1

LEMMA PlaceType ==
  ASSUME DiskInv, NEW s, NEW k, Place(s, k)
  PROVE  /\ MessagesFrom(s, k) \in Seq(AnyMessage)
         /\ s = Len(Segs) + 1 => MessagesFrom(s, k) = <<>>
         /\ s \in DOMAIN Segs => MessagesFrom(s, k) = MessagesOf(From(RecsOf(Segs[s]), k)) \o AfterSegment(s)
<1>1. Len(Segs) \in Nat /\ DOMAIN Segs = 1..Len(Segs)
  BY DEF DiskInv
<1>2. CASE s = Len(Segs) + 1
  <2>1. s > Len(Segs) /\ s \notin DOMAIN Segs
    BY <1>1, <1>2
  <2>2. QED
    BY <2>1 DEF MessagesFrom
<1>3. CASE s \in DOMAIN Segs /\ k \in 1..(Len(RecsOf(Segs[s])) + 1)
  <2>1. MessagesOf(From(RecsOf(Segs[s]), k)) \in Seq(AnyMessage)
    BY <1>3, OpenFiles, FromType, GivenType
  <2>2. AfterSegment(s) \in Seq(AnyMessage)
    BY <1>3, AfterSegmentType
  <2>3. ~ (s > Len(Segs)) /\ s # Len(Segs) + 1
    BY <1>1, <1>3
  <2>4. MessagesFrom(s, k) = MessagesOf(From(RecsOf(Segs[s]), k)) \o AfterSegment(s)
    BY <2>3 DEF MessagesFrom, AfterSegment
  <2>5. QED
    BY <2>1, <2>2, <2>3, <2>4, ConcatProperties
<1>4. QED
  BY <1>2, <1>3 DEF Place

LEMMA NextRecord ==
  ASSUME DiskInv, NEW s \in DOMAIN Segs, NEW k \in DOMAIN RecsOf(Segs[s])
  PROVE  /\ Place(s, k) /\ Place(s, k + 1) /\ RecsOf(Segs[s])[k] \in Records
         /\ MessagesFrom(s, k) = Given(RecsOf(Segs[s])[k]) \o MessagesFrom(s, k + 1)
<1> DEFINE recs == RecsOf(Segs[s])
<1>1. recs \in Seq(Records)
  BY OpenFiles
<1> HIDE DEF recs
<1>2. k \in 1..(Len(recs) + 1) /\ k + 1 \in 1..(Len(recs) + 1) /\ recs[k] \in Records
  BY <1>1 DEF recs
<1>3. Place(s, k) /\ Place(s, k + 1)
  BY <1>2 DEF Place, recs
<1> DEFINE a == Given(recs[k])
           b == MessagesOf(From(recs, k + 1))
           c == AfterSegment(s)
<1>4. a \in Seq(AnyMessage) /\ b \in Seq(AnyMessage) /\ c \in Seq(AnyMessage)
  <2>1. a \in Seq(AnyMessage)
    BY <1>2, RecordFields DEF Given
  <2>2. From(recs, k + 1) \in Seq(Records)
    BY <1>1, <1>2, FromType
  <2>3. QED
    BY <2>1, <2>2, GivenType, AfterSegmentType
<1>5. MessagesOf(From(recs, k)) = a \o b
  BY <1>1, MessagesStep DEF recs
<1>6. MessagesFrom(s, k) = MessagesOf(From(recs, k)) \o c /\ MessagesFrom(s, k + 1) = b \o c
  BY <1>3, PlaceType DEF recs
<1>7. (a \o b) \o c = a \o (b \o c)
  <2> HIDE DEF a, b, c
  <2>1. QED
    BY <1>4, ConcatAssociative
<1>8. QED
  BY <1>2, <1>3, <1>5, <1>6, <1>7 DEF recs

LEMMA NextSegmentKeeps ==
  ASSUME DiskInv, NEW s \in DOMAIN Segs
  PROVE  /\ Place(s, Len(RecsOf(Segs[s])) + 1) /\ Place(s + 1, FirstOffset)
         /\ MessagesFrom(s, Len(RecsOf(Segs[s])) + 1) = MessagesFrom(s + 1, FirstOffset)
<1> DEFINE recs == RecsOf(Segs[s])
<1>1. recs \in Seq(Records)
  BY OpenFiles
<1> HIDE DEF recs
<1>2. Place(s, Len(recs) + 1)
  BY <1>1 DEF Place, recs
<1>3. Place(s + 1, FirstOffset)
  <2>1. s + 1 \in DOMAIN Segs \/ s + 1 = Len(Segs) + 1
    BY DEF DiskInv
  <2>2. s + 1 \in DOMAIN Segs => 1 \in 1..(Len(RecsOf(Segs[s + 1])) + 1)
    BY OpenFiles
  <2>3. QED
    BY <2>1, <2>2 DEF Place, FirstOffset
<1>4. MessagesFrom(s, Len(recs) + 1) = MessagesOf(From(recs, Len(recs) + 1)) \o AfterSegment(s)
  BY <1>2, PlaceType DEF recs
<1>5. MessagesOf(From(recs, Len(recs) + 1)) = <<>>
  BY <1>1, MessagesEnd
<1>6. <<>> \o AfterSegment(s) = AfterSegment(s)
  BY AfterSegmentType, ConcatEmptySeq
<1>7. QED
  BY <1>2, <1>3, <1>4, <1>5, <1>6, AfterSegmentStep DEF recs

(***************************************************************************)
(* From any place on there is an end of the messages of the session.       *)
(***************************************************************************)
EndsAfter(B, s, t) == \E p \in Seq(B) : s = p \o t
EndsWith(s, t) == EndsAfter(AnyMessage, s, t)

LEMMA EndsSelf ==
  ASSUME NEW B, NEW s \in Seq(AnyMessage)
  PROVE  EndsAfter(B, s, s)
<1>1. <<>> \in Seq(B) /\ <<>> \o s = s
  BY ConcatEmptySeq
<1>2. QED
  BY <1>1 DEF EndsAfter

LEMMA EndsRest ==
  ASSUME NEW B \in SUBSET AnyMessage,
         NEW s \in Seq(AnyMessage), NEW t \in Seq(AnyMessage), EndsAfter(B, s, t),
         NEW d \in Seq(B), NEW u \in Seq(AnyMessage), t = d \o u
  PROVE  EndsAfter(B, s, u)
<1>1. PICK p \in Seq(B) : s = p \o t
  BY DEF EndsAfter
<1>2. p \o d \in Seq(B)
  BY ConcatProperties
<1>3. p \in Seq(AnyMessage) /\ d \in Seq(AnyMessage)
  OBVIOUS
<1>4. s = (p \o d) \o u
  BY <1>1, <1>3, ConcatAssociative
<1>5. QED
  BY <1>2, <1>4 DEF EndsAfter

LEMMA EndsTrans ==
  ASSUME NEW B \in SUBSET AnyMessage,
         NEW s \in Seq(AnyMessage), NEW t \in Seq(AnyMessage), NEW u \in Seq(AnyMessage),
         EndsAfter(B, s, t), EndsAfter(B, t, u)
  PROVE  EndsAfter(B, s, u)
<1>1. PICK d \in Seq(B) : t = d \o u
  BY DEF EndsAfter
<1>2. QED
  BY <1>1, EndsRest

LEMMA EndsWithSelf ==
  ASSUME NEW s \in Seq(AnyMessage)
  PROVE  EndsWith(s, s)
BY EndsSelf DEF EndsWith

LEMMA EndsWithRest ==
  ASSUME NEW s \in Seq(AnyMessage), NEW t \in Seq(AnyMessage), EndsWith(s, t),
         NEW d \in Seq(AnyMessage), NEW u \in Seq(AnyMessage), t = d \o u
  PROVE  EndsWith(s, u)
BY EndsRest DEF EndsWith

\* Within a segment, where the records before k give only messages in B.
LEMMA EndOfSegment ==
  ASSUME DiskInv, NEW s \in DOMAIN Segs, NEW k \in 1..(Len(RecsOf(Segs[s])) + 1),
         NEW B \in SUBSET AnyMessage, \A j \in 1..(k - 1) : Given(RecsOf(Segs[s])[j]) \in Seq(B)
  PROVE  EndsAfter(B, MessagesFrom(s, FirstOffset), MessagesFrom(s, k))
<1> DEFINE n == Len(RecsOf(Segs[s]))
           Wrong(i) == ~EndsAfter(B, MessagesFrom(s, FirstOffset), MessagesFrom(s, i))
           T == {i \in 1..k : Wrong(i)}
<1>1. n \in Nat /\ DOMAIN RecsOf(Segs[s]) = 1..n /\ FirstOffset = 1
  BY OpenFiles DEF FirstOffset
<1>2. \A i \in 1..(n + 1) : Place(s, i) /\ MessagesFrom(s, i) \in Seq(AnyMessage)
  BY PlaceType DEF Place
<1>3. k \in 1..(n + 1)
  OBVIOUS
<1> HIDE DEF n
<1>4. SUFFICES ASSUME T # {} PROVE FALSE
  <2>1. k \in 1..k
    BY <1>1, <1>3
  <2>2. QED
    BY <2>1
<1> HIDE DEF Wrong
<1>5. PICK m \in T : \A i \in T : m <= i
  <2>1. T \in SUBSET Nat
    BY <1>1, <1>3
  <2>2. QED
    BY <1>4, <2>1, Smallest
<1>6. m # 1
  <2>1. 1 \in 1..(n + 1)
    BY <1>1
  <2>2. ~Wrong(1)
    BY <1>1, <1>2, <2>1, EndsSelf DEF Wrong
  <2>3. QED
    BY <1>5, <2>2
<1>7. /\ m - 1 \in 1..n /\ m - 1 \in 1..(n + 1) /\ m - 1 \in 1..(k - 1) /\ m - 1 \in 1..k /\ ~ (m - 1 \in T)
      /\ m \in 1..(n + 1) /\ (m - 1) + 1 = m
  BY <1>1, <1>3, <1>5, <1>6
<1>8. EndsAfter(B, MessagesFrom(s, 1), MessagesFrom(s, m - 1))
  BY <1>1, <1>7 DEF Wrong
<1>9. MessagesFrom(s, m - 1) = Given(RecsOf(Segs[s])[m - 1]) \o MessagesFrom(s, m)
  BY <1>1, <1>7, NextRecord
<1>10. Given(RecsOf(Segs[s])[m - 1]) \in Seq(B)
  BY <1>7
<1>11. EndsAfter(B, MessagesFrom(s, 1), MessagesFrom(s, m))
  <2>1. 1 \in 1..(n + 1)
    BY <1>1
  <2>2. QED
    BY <1>2, <1>7, <1>8, <1>9, <1>10, <2>1, EndsRest
<1>12. QED
  BY <1>1, <1>5, <1>11 DEF Wrong

LEMMA FirstPlace ==
  ASSUME DiskInv, NEW i \in 1..(Len(Segs) + 1)
  PROVE  Place(i, FirstOffset) /\ MessagesFrom(i, FirstOffset) \in Seq(AnyMessage)
<1>1. Place(i, FirstOffset)
  <2>1. CASE i = Len(Segs) + 1
    BY <2>1 DEF Place
  <2>2. CASE i # Len(Segs) + 1
    <3>1. i \in DOMAIN Segs
      BY <2>2 DEF DiskInv
    <3>2. 1 \in 1..(Len(RecsOf(Segs[i])) + 1)
      BY <3>1, OpenFiles
    <3>3. QED
      BY <3>1, <3>2 DEF Place, FirstOffset
  <2>3. QED
    BY <2>1, <2>2
<1>2. QED
  BY <1>1, PlaceType

\* Across the segments.
LEMMA EndOfSession ==
  ASSUME DiskInv, NEW s \in 1..(Len(Segs) + 1), NEW B \in SUBSET AnyMessage,
         \A u \in 1..(s - 1) : \A j \in DOMAIN RecsOf(Segs[u]) : Given(RecsOf(Segs[u])[j]) \in Seq(B)
  PROVE  EndsAfter(B, AllMessages, MessagesFrom(s, FirstOffset))
<1> DEFINE n == Len(Segs)
           Wrong(i) == ~EndsAfter(B, AllMessages, MessagesFrom(i, FirstOffset))
           T == {i \in 1..s : Wrong(i)}
<1>1. n \in Nat /\ DOMAIN Segs = 1..n /\ s \in 1..(n + 1)
  BY DEF DiskInv
<1>2. \A i \in 1..(n + 1) : MessagesFrom(i, FirstOffset) \in Seq(AnyMessage)
  BY FirstPlace
<1> HIDE DEF n
<1>3. SUFFICES ASSUME T # {} PROVE FALSE
  <2>1. s \in 1..s
    BY <1>1
  <2>2. QED
    BY <2>1
<1> HIDE DEF Wrong
<1>4. PICK m \in T : \A i \in T : m <= i
  <2>1. T \in SUBSET Nat
    BY <1>1
  <2>2. QED
    BY <1>3, <2>1, Smallest
<1>5. m # 1
  <2>1. 1 \in 1..(n + 1)
    BY <1>1
  <2>2. ~Wrong(1)
    BY <1>2, <2>1, EndsSelf DEF Wrong, AllMessages
  <2>3. QED
    BY <1>4, <2>2
<1>6. /\ 1 \in 1..(n + 1) /\ m - 1 \in 1..n /\ m - 1 \in 1..(n + 1) /\ m - 1 \in 1..(s - 1) /\ m - 1 \in 1..s
      /\ ~ (m - 1 \in T) /\ m \in 1..(n + 1) /\ (m - 1) + 1 = m
  BY <1>1, <1>4, <1>5
<1> DEFINE recs == RecsOf(Segs[m - 1])
           len == Len(recs)
<1>7. len \in Nat /\ len + 1 \in 1..(len + 1) /\ (len + 1) - 1 = len /\ DOMAIN recs = 1..len
  BY <1>1, <1>6, OpenFiles
<1>8. EndsAfter(B, MessagesFrom(m - 1, FirstOffset), MessagesFrom(m - 1, len + 1))
  <2>1. \A j \in 1..((len + 1) - 1) : Given(recs[j]) \in Seq(B)
    BY <1>6, <1>7
  <2>2. m - 1 \in DOMAIN Segs /\ len + 1 \in 1..(Len(recs) + 1)
    BY <1>1, <1>6, <1>7
  <2>3. QED
    BY <2>1, <2>2, EndOfSegment
<1>9. MessagesFrom(m - 1, len + 1) = MessagesFrom(m, FirstOffset)
  BY <1>1, <1>6, NextSegmentKeeps
<1>10. EndsAfter(B, AllMessages, MessagesFrom(m - 1, FirstOffset))
  BY <1>6 DEF Wrong
<1>11. EndsAfter(B, AllMessages, MessagesFrom(m, FirstOffset))
  <2>1. AllMessages \in Seq(AnyMessage)
    BY <1>2, <1>6 DEF AllMessages
  <2> HIDE DEF len, recs
  <2>2. QED
    BY <1>2, <1>6, <1>8, <1>9, <1>10, <2>1, EndsTrans
<1>12. QED
  BY <1>4, <1>11 DEF Wrong

\* The records before a place.
Before(u, j, s, k) ==
  /\ u \in DOMAIN Segs /\ j \in DOMAIN RecsOf(Segs[u])
  /\ u < s \/ (u = s /\ j < k)

LEMMA EndOfPlace ==
  ASSUME DiskInv, NEW s, NEW k, Place(s, k), NEW B \in SUBSET AnyMessage,
         \A u, j : Before(u, j, s, k) => Given(RecsOf(Segs[u])[j]) \in Seq(B)
  PROVE  /\ AllMessages \in Seq(AnyMessage) /\ MessagesFrom(s, k) \in Seq(AnyMessage)
         /\ EndsAfter(B, AllMessages, MessagesFrom(s, k))
<1>1. Len(Segs) \in Nat /\ DOMAIN Segs = 1..Len(Segs)
  BY DEF DiskInv
<1>2. /\ 1 \in 1..(Len(Segs) + 1) /\ s \in 1..(Len(Segs) + 1)
      /\ s \in DOMAIN Segs \/ s = Len(Segs) + 1
  BY <1>1 DEF Place
<1>3. AllMessages \in Seq(AnyMessage) /\ MessagesFrom(s, FirstOffset) \in Seq(AnyMessage)
  BY <1>2, FirstPlace DEF AllMessages
<1>4. MessagesFrom(s, k) \in Seq(AnyMessage)
  BY PlaceType
<1>5. EndsAfter(B, AllMessages, MessagesFrom(s, FirstOffset))
  <2>1. ASSUME NEW u \in 1..(s - 1), NEW j \in DOMAIN RecsOf(Segs[u])
        PROVE  Given(RecsOf(Segs[u])[j]) \in Seq(B)
    <3>1. u \in DOMAIN Segs /\ u < s
      BY <1>1, <1>2
    <3>2. Before(u, j, s, k)
      BY <3>1 DEF Before
    <3>3. QED
      BY <3>2
  <2>2. QED
    BY <1>2, <2>1, EndOfSession
<1>6. CASE s = Len(Segs) + 1
  <2>1. MessagesFrom(s, k) = <<>> /\ MessagesFrom(s, FirstOffset) = <<>>
    BY <1>2, <1>6, FirstPlace, PlaceType
  <2>2. QED
    BY <1>3, <1>4, <1>5, <2>1
<1>7. CASE s \in DOMAIN Segs /\ s # Len(Segs) + 1
  <2>1. k \in 1..(Len(RecsOf(Segs[s])) + 1) /\ DOMAIN RecsOf(Segs[s]) = 1..Len(RecsOf(Segs[s]))
    BY <1>7, OpenFiles DEF Place
  <2>2. ASSUME NEW j \in 1..(k - 1) PROVE Given(RecsOf(Segs[s])[j]) \in Seq(B)
    <3>1. j \in DOMAIN RecsOf(Segs[s]) /\ j < k
      <4> DEFINE len == Len(RecsOf(Segs[s]))
      <4>1. len \in Nat /\ k \in 1..(len + 1) /\ DOMAIN RecsOf(Segs[s]) = 1..len
        BY <1>7, <2>1, OpenFiles
      <4> HIDE DEF len
      <4>2. QED
        BY <4>1
    <3>2. Before(s, j, s, k)
      BY <1>7, <3>1 DEF Before
    <3>3. QED
      BY <3>2
  <2>3. EndsAfter(B, MessagesFrom(s, FirstOffset), MessagesFrom(s, k))
    BY <1>7, <2>1, <2>2, EndOfSegment
  <2>4. QED
    BY <1>3, <1>4, <1>5, <2>3, EndsTrans
<1>8. QED
  BY <1>2, <1>6, <1>7

LEMMA EveryPlaceIsAnEnd ==
  ASSUME DiskInv, NEW s, NEW k, Place(s, k)
  PROVE  /\ AllMessages \in Seq(AnyMessage) /\ MessagesFrom(s, k) \in Seq(AnyMessage)
         /\ EndsWith(AllMessages, MessagesFrom(s, k))
<1>1. ASSUME NEW u, NEW j, Before(u, j, s, k)
      PROVE  Given(RecsOf(Segs[u])[j]) \in Seq(AnyMessage)
  <2>1. RecsOf(Segs[u])[j] \in Records
    BY <1>1, OpenFiles DEF Before
  <2>2. QED
    BY <2>1, RecordFields DEF Given
<1>2. QED
  BY <1>1, EndOfPlace DEF EndsWith

(***************************************************************************)
(* Where a seek goes.                                                      *)
(***************************************************************************)
LEMMA SeekTarget ==
  ASSUME DiskInv, isOpen, NEW t
  PROVE  /\ SegmentFor(t) \in DOMAIN Segs
         /\ \A off \in SeekOffsets(Segs[SegmentFor(t)].points, t) :
              off \in Nat \ {0} /\ Place(SegmentFor(t), off)
<1> DEFINE s == SegmentFor(t)
           points == Segs[s].points
<1>1. s \in DOMAIN Segs
  <2> DEFINE covering == {k \in DOMAIN Segs : Segs[k].start <= t}
  <2>1. Len(Segs) \in Nat /\ DOMAIN Segs = 1..Len(Segs) /\ 1 \in DOMAIN Segs
    BY DEF DiskInv
  <2>2. covering # {} => Max(covering) \in covering
    <3>1. covering \in SUBSET (1..Len(Segs))
      BY <2>1
    <3>2. QED
      BY <2>1, <3>1, Largest
  <2>3. QED
    BY <2>1, <2>2 DEF SegmentFor
<1> HIDE DEF s
<1> DEFINE recs == RecsOf(Segs[s])
<1>2. recs \in Seq(Records) /\ \A p \in DOMAIN points : points[p].off \in 1..Len(recs)
  <2>1. /\ IsSegmentFile(disk.files[Segs[s].file]) /\ points = disk.files[Segs[s].file].points
        /\ recs \in Seq(Records)
    BY <1>1, OpenFiles
  <2>2. recs = disk.files[Segs[s].file].recs
    BY DEF RecsOf
  <2> HIDE DEF recs, points
  <2>3. \A p \in DOMAIN points : points[p].off \in DOMAIN recs
    BY <2>1, <2>2 DEF IsSegmentFile, SegmentFileShapes
  <2>4. QED
    BY <2>1, <2>3
<1> HIDE DEF points
<1>3. ASSUME NEW off \in SeekOffsets(points, t)
      PROVE  off \in 1..(Len(recs) + 1)
  <2>1. PICK f \in Picks(points, t) :
           off = IF DOMAIN f = {} THEN FirstOffset ELSE Min(Range(f))
    BY <1>3 DEF SeekOffsets
  <2>2. CASE DOMAIN f = {}
    <3>1. off = 1
      BY <2>1, <2>2 DEF FirstOffset
    <3>2. Len(recs) \in Nat
      BY <1>2
    <3>3. QED
      BY <3>1, <3>2
  <2>3. CASE DOMAIN f # {}
    <3> DEFINE R == Range(f)
    <3>1. R \subseteq {points[k].off : k \in DOMAIN points}
      BY <2>1 DEF Picks, Range
    <3>2. R \in SUBSET (1..Len(recs)) /\ R # {} /\ Len(recs) \in Nat
      BY <1>2, <2>3, <3>1 DEF Range
    <3>3. PICK m \in R : \A i \in R : m <= i
      <4>1. R \in SUBSET Nat
        BY <3>2
      <4> HIDE DEF R
      <4>2. QED
        BY <3>2, <4>1, Smallest
    <3>4. Min(R) \in R
      BY <3>3 DEF Min
    <3>5. off \in R
      BY <2>1, <2>3, <3>4
    <3> HIDE DEF R
    <3>6. QED
      BY <3>2, <3>5
  <2>4. QED
    BY <2>2, <2>3
<1>4. \A off \in SeekOffsets(points, t) : off \in Nat \ {0} /\ Place(s, off)
  <2> TAKE off \in SeekOffsets(points, t)
  <2>1. off \in 1..(Len(recs) + 1) /\ Len(recs) \in Nat
    BY <1>2, <1>3
  <2>2. QED
    BY <1>1, <2>1 DEF Place
<1>5. QED
  BY <1>1, <1>4 DEF s, points

(***************************************************************************)
(* The segments opened are files of the session, from the first call on.   *)
(***************************************************************************)
LEMMA ListedType ==
  ASSUME disk \in Disks
  PROVE  Listed \in Seq(Entries)
<1>1. /\ disk.single \in BOOLEAN /\ (disk.single => 1 \in DOMAIN disk.files)
      /\ disk.manifest.segs \in Seq([file: Nat, start: Nat, end: Nat])
  BY DisksAssumption
<1> DEFINE segs == disk.manifest.segs
           f == [k \in DOMAIN segs |-> IfThere(segs[k])]
<1>2. CASE disk.single
  <2>1. [file |-> 1, start |-> 0, end |-> 0] \in Entries
    BY <1>1, <1>2 DEF Entries
  <2>2. SingleEntry \in Seq(Entries)
    BY <2>1 DEF SingleEntry
  <2>3. QED
    BY <1>2, <2>2 DEF Listed
<1>3. CASE ~disk.single
  <2>1. \A k \in DOMAIN segs : IfThere(segs[k]) \in Seq(Entries)
    <3> TAKE k \in DOMAIN segs
    <3>1. segs[k] \in [file: Nat, start: Nat, end: Nat]
      <4> DEFINE E == [file: Nat, start: Nat, end: Nat]
      <4>1. segs \in Seq(E)
        BY <1>1
      <4> HIDE DEF segs, E
      <4>2. segs[k] \in E
        BY <4>1
      <4>3. QED
        BY <4>2 DEF E
    <3>2. segs[k].file \in DOMAIN disk.files => segs[k] \in Entries
      BY <3>1 DEF Entries
    <3> HIDE DEF segs
    <3>3. CASE segs[k].file \in DOMAIN disk.files
      <4> HIDE DEF Entries
      <4>1. <<segs[k]>> \in Seq(Entries)
        BY <3>2, <3>3
      <4>2. QED
        BY <3>3, <4>1 DEF IfThere
    <3>4. CASE segs[k].file \notin DOMAIN disk.files
      BY <3>4 DEF IfThere
    <3>5. QED
      BY <3>3, <3>4
  <2>2. DOMAIN segs = 1..Len(segs) /\ Len(segs) \in Nat
    BY <1>1
  <2> HIDE DEF segs
  <2>3. f \in [1..Len(segs) -> Seq(Entries)]
    BY <2>1, <2>2
  <2>4. f \in Seq(Seq(Entries))
    BY <2>2, <2>3
  <2>5. FlattenSeq(f) \in Seq(Entries)
    BY <2>4, FlattenType
  <2>6. QED
    BY <1>3, <2>5 DEF Listed, segs
<1>4. QED
  BY <1>1, <1>2, <1>3

LEMMA OpenSegments ==
  ASSUME DiskInv, Open
  PROVE  DiskInv'
<1>1. Listed \in Seq(Entries) /\ Listed # <<>>
  <2>1. Listed \in Seq(Entries)
    BY ListedType DEF DiskInv
  <2>2. OpenStatus = "Ok"
    BY DEF Open
  <2>3. ASSUME Listed = <<>> PROVE FALSE
    <3>1. ~disk.single
      <4>1. ASSUME disk.single PROVE Len(Listed) = 1
        BY <4>1 DEF Listed, SingleEntry
      <4>2. QED
        BY <2>3, <4>1
    <3>2. ManifestStatus \in {"ErrorNotFound", "ErrorCorrupted", "Ok"}
      BY DEF ManifestStatus
    <3>3. OpenStatus \in {"ErrorNotFound", "ErrorCorrupted"}
      BY <2>2, <2>3, <3>1, <3>2 DEF OpenStatus
    <3>4. QED
      BY <2>2, <3>3
  <2>4. QED
    BY <2>1, <2>3
<1> DEFINE f == [k \in DOMAIN Listed |-> Scanned(Listed[k])]
           S == {Scanned(e) : e \in Entries}
<1>2. DOMAIN Listed = 1..Len(Listed) /\ Len(Listed) \in Nat
      /\ \A k \in DOMAIN Listed : Listed[k] \in Entries
  BY <1>1
<1>3. f \in Seq(S) /\ f # <<>>
  <2>1. \A k \in DOMAIN Listed : Scanned(Listed[k]) \in S
    BY <1>2
  <2> HIDE DEF S
  <2>2. f \in [1..Len(Listed) -> S]
    BY <1>2, <2>1
  <2>3. f \in Seq(S)
    BY <1>2, <2>2
  <2>4. 1 \in DOMAIN f
    BY <1>1, <1>2
  <2>5. QED
    BY <2>3, <2>4
<1>4. disk' = disk /\ Segs' = f /\ isOpen' = TRUE
  BY DEF Open
<1>5. disk' \in Disks
  BY <1>4 DEF DiskInv
<1>6. S' = S
  BY <1>4 DEF Scanned, Entries
<1> HIDE DEF f, S
<1>7. Segs' \in Seq(S') /\ Segs' # <<>>
  BY <1>3, <1>4, <1>6
<1>8. QED
  BY <1>4, <1>5, <1>7 DEF DiskInv, S

LEMMA DiskInit == Init => DiskInv
<1>1. SUFFICES ASSUME Init PROVE DiskInv
  OBVIOUS
<1>2. disk \in Disks /\ Segs = <<>> /\ isOpen = FALSE
  BY <1>1 DEF Init
<1>3. <<>> \in Seq({Scanned(e) : e \in Entries})
  OBVIOUS
<1>4. QED
  BY <1>2, <1>3 DEF DiskInv

LEMMA DiskNext == DiskInv /\ [Next]_vars => DiskInv'
<1>1. SUFFICES ASSUME DiskInv, [Next]_vars PROVE DiskInv'
  OBVIOUS
<1>2. ASSUME UNCHANGED <<disk, isOpen, Segs>> PROVE DiskInv'
  BY <1>1, <1>2 DEF DiskInv, Scanned, Entries
<1>3. CASE Open
  BY <1>1, <1>3, OpenSegments
<1>4. CASE Close
  <2>1. disk' = disk /\ isOpen' = FALSE /\ Segs' = <<>>
    BY <1>4 DEF Close
  <2>2. <<>> \in Seq({Scanned(e) : e \in Entries}')
    OBVIOUS
  <2>3. QED
    BY <1>1, <2>1, <2>2 DEF DiskInv
<1>5. CASE \/ OpenFails \/ NotOpen \/ NoCallback \/ ReadNext
           \/ \E t \in Targets : Seek(t)
           \/ \E start, end \in Targets, filter \in Filters : Read(start, end, filter)
  <2>1. ASSUME OpenFails \/ NotOpen \/ NoCallback \/ ReadNext
        PROVE  UNCHANGED <<disk, session>>
    BY <2>1 DEF OpenFails, NotOpen, NoCallback, Refuse, ReadNext
  <2>2. ASSUME NEW t \in Targets, Seek(t) PROVE UNCHANGED <<disk, session>>
    BY <2>2 DEF Seek
  <2>3. ASSUME NEW start \in Targets, NEW end \in Targets, NEW filter \in Filters,
               Read(start, end, filter)
        PROVE  UNCHANGED <<disk, session>>
    BY <2>3 DEF Read
  <2>4. UNCHANGED <<disk, session>>
    BY <1>5, <2>1, <2>2, <2>3
  <2>5. QED
    BY <1>2, <2>4 DEF session
<1>6. CASE NextMessage
  <2>1. UNCHANGED <<disk, isOpen, Segs>>
    BY <1>6 DEF NextMessage, TakeInner, StopChunk, NextSegment, SkipDamaged, SkipPacked, SkipOther,
                YieldData, YieldFirstInner, EndOfSegments, Onward, Walking, session
  <2>2. QED
    BY <1>2, <2>1
<1>7. CASE UNCHANGED vars
  BY <1>2, <1>7 DEF vars, session
<1>8. QED
  BY <1>1, <1>3, <1>4, <1>5, <1>6, <1>7 DEF Next, Client

\* The first place of the session.
StartOK == Place(1, FirstOffset) /\ AllMessages \in Seq(AnyMessage)

LEMMA StartAlways == DiskInv => StartOK
<1>1. SUFFICES ASSUME DiskInv PROVE StartOK
  OBVIOUS
<1>2. Place(1, FirstOffset)
  <2>1. Len(Segs) \in Nat /\ DOMAIN Segs = 1..Len(Segs)
    BY <1>1 DEF DiskInv
  <2>2. CASE Len(Segs) = 0
    BY <2>2 DEF Place
  <2>3. CASE Len(Segs) # 0
    <3>1. 1 \in DOMAIN Segs
      BY <2>1, <2>3
    <3>2. 1 \in 1..(Len(RecsOf(Segs[1])) + 1)
      BY <1>1, <3>1, OpenFiles
    <3>3. QED
      BY <3>1, <3>2 DEF Place, FirstOffset
  <2>4. QED
    BY <2>2, <2>3
<1>3. QED
  BY <1>1, <1>2, EveryPlaceIsAnEnd DEF StartOK

LEMMA DiskAlways == Spec => [](DiskInv /\ StartOK)
<1>1. Spec => []DiskInv
  BY DiskInit, DiskNext, PTL DEF Spec
<1>2. QED
  BY <1>1, StartAlways, PTL

(***************************************************************************)
(* The position: what is left to read ends the messages of the session.    *)
(***************************************************************************)
PlaceInv ==
  /\ CurSeg \in Nat \ {0} /\ CurOffset \in Nat \ {0} /\ Place(CurSeg, CurOffset)
  /\ chunk \in [left: Seq(AnyMessage), due: Nat] /\ Len(chunk.left) <= chunk.due
  /\ EndsWith(AllMessages, Remaining)

\* The cursor after a step in which the session stays what it is.
PlacedNext ==
  /\ CurSeg' \in Nat \ {0} /\ CurOffset' \in Nat \ {0} /\ Place(CurSeg', CurOffset')
  /\ chunk' \in [left: Seq(AnyMessage), due: Nat] /\ Len(chunk'.left) <= chunk'.due
RestNext == chunk'.left \o MessagesFrom(CurSeg', CurOffset')

LEMMA SameSession ==
  ASSUME UNCHANGED <<disk, Segs>>
  PROVE  /\ AllMessages' = AllMessages /\ Remaining' = RestNext
         /\ Place(CurSeg, CurOffset)' <=> Place(CurSeg', CurOffset')
BY DEF AllMessages, Remaining, RestNext, MessagesFrom, RecsOf, Place

LEMMA RestTypes ==
  ASSUME DiskInv, PlaceInv
  PROVE  /\ AllMessages \in Seq(AnyMessage) /\ Remaining \in Seq(AnyMessage)
         /\ MessagesFrom(CurSeg, CurOffset) \in Seq(AnyMessage) /\ chunk.left \in Seq(AnyMessage)
<1>1. AllMessages \in Seq(AnyMessage) /\ MessagesFrom(CurSeg, CurOffset) \in Seq(AnyMessage)
  BY EveryPlaceIsAnEnd DEF PlaceInv
<1>2. chunk.left \in Seq(AnyMessage)
  BY DEF PlaceInv
<1>3. QED
  BY <1>1, <1>2, ConcatProperties DEF Remaining

\* Over a record: its messages, if it has any to give, come first in what is left.
LEMMA OverRecordStep ==
  ASSUME DiskInv, PlaceInv, OverRecord
  PROVE  /\ Current \in Records /\ CurSeg' = CurSeg /\ CurOffset' = CurOffset + 1
         /\ CurOffset' \in Nat \ {0} /\ Place(CurSeg', CurOffset')
         /\ MessagesFrom(CurSeg', CurOffset') \in Seq(AnyMessage)
         /\ chunk.left = <<>>
         /\ Remaining = Given(Current) \o MessagesFrom(CurSeg', CurOffset')
<1>1. /\ CurSeg' = CurSeg /\ CurOffset' = CurOffset + 1 /\ chunk.due = 0 /\ CurSeg <= Len(Segs)
      /\ ~ (CurOffset > Len(RecsOf(Segs[CurSeg])))
  BY DEF OverRecord, InStream, AtSegmentEnd
<1>2. /\ CurSeg \in Nat \ {0} /\ CurOffset \in Nat \ {0} /\ Place(CurSeg, CurOffset)
      /\ chunk.left \in Seq(AnyMessage) /\ Len(chunk.left) <= chunk.due
  BY DEF PlaceInv
<1>3. CurSeg \in DOMAIN Segs
  <2>1. Len(Segs) \in Nat /\ DOMAIN Segs = 1..Len(Segs)
    BY DEF DiskInv
  <2>2. QED
    BY <1>1, <1>2, <2>1
<1>4. CurOffset \in DOMAIN RecsOf(Segs[CurSeg])
  <2>1. RecsOf(Segs[CurSeg]) \in Seq(Records)
    BY <1>3, OpenFiles
  <2>2. QED
    BY <1>1, <1>2, <2>1
<1>5. chunk.left = <<>>
  BY <1>1, <1>2
<1>6. /\ Place(CurSeg, CurOffset + 1) /\ Current \in Records
      /\ MessagesFrom(CurSeg, CurOffset) = Given(Current) \o MessagesFrom(CurSeg, CurOffset + 1)
  BY <1>3, <1>4, NextRecord DEF Current
<1>7. MessagesFrom(CurSeg, CurOffset + 1) \in Seq(AnyMessage) /\ MessagesFrom(CurSeg, CurOffset) \in Seq(AnyMessage)
  BY <1>2, <1>6, PlaceType
<1>8. Remaining = MessagesFrom(CurSeg, CurOffset)
  BY <1>5, <1>7, ConcatEmptySeq DEF Remaining
<1>9. QED
  BY <1>1, <1>2, <1>5, <1>6, <1>7, <1>8

\* A step of NextMessage moves past nothing, or past the message it gives, or
\* is at the end.
Passed ==
  \/ Remaining = RestNext /\ UNCHANGED <<last, out>>
  \/ last' \in AnyMessage /\ Remaining = <<last'>> \o RestNext /\ out' = Append(out, last')
  \/ Remaining = <<>> /\ RestNext = Remaining /\ last' = NoMessage /\ UNCHANGED out

LEMMA YieldGives ==
  ASSUME NEW m, Yield(m)
  PROVE  last' = m /\ out' = Append(out, m) /\ (got' = got \/ got' = Append(got, m))
         /\ (pc' = pc \/ pc' = "ready")
BY DEF Yield, GiveToReadNext, EndRead, SkipInRead, Callback, Return

\* The first of some messages is given and the rest kept in the chunk.
LEMMA FirstGiven ==
  ASSUME NEW s \in Seq(AnyMessage), s # <<>>, NEW due \in Nat, Len(s) <= due, NEW u \in Seq(AnyMessage),
         chunk' = IF due = 1 THEN NoChunk ELSE [left |-> Tail(s), due |-> due - 1]
  PROVE  /\ chunk' \in [left: Seq(AnyMessage), due: Nat] /\ Len(chunk'.left) <= chunk'.due
         /\ Head(s) \in AnyMessage
         /\ s \o u = <<Head(s)>> \o (chunk'.left \o u)
<1>1. /\ Head(s) \in AnyMessage /\ Tail(s) \in Seq(AnyMessage) /\ Len(Tail(s)) = Len(s) - 1
      /\ Len(s) \in Nat /\ Len(s) >= 1
  BY HeadTailProperties
<1>2. s = <<Head(s)>> \o Tail(s)
  <2>1. s[1] = Head(s) /\ Len(s) = Len(Tail(s)) + 1 /\ \A k \in 1..Len(Tail(s)) : s[k + 1] = Tail(s)[k]
    BY HeadTailProperties
  <2> DEFINE h == Head(s)
             t == Tail(s)
  <2> HIDE DEF h, t
  <2>2. QED
    BY <1>1, <2>1, IsCons DEF h, t
<1>3. chunk'.left = Tail(s)
  <2>1. CASE due = 1
    <3>1. Len(Tail(s)) = 0
      BY <1>1, <2>1
    <3>2. Tail(s) = <<>>
      <4> DEFINE t == Tail(s)
      <4>1. t \in Seq(AnyMessage) /\ Len(t) = 0
        BY <1>1, <3>1
      <4> HIDE DEF t
      <4>2. t = <<>>
        BY <4>1
      <4>3. QED
        BY <4>2 DEF t
    <3>3. QED
      BY <2>1, <3>2 DEF NoChunk
  <2>2. CASE due # 1
    BY <2>2
  <2>3. QED
    BY <2>1, <2>2
<1>4. chunk' \in [left: Seq(AnyMessage), due: Nat] /\ Len(chunk'.left) <= chunk'.due
  <2>1. CASE due = 1
    BY <2>1 DEF NoChunk
  <2>2. CASE due # 1
    <3>1. due - 1 \in Nat /\ Len(Tail(s)) <= due - 1
      BY <1>1, <2>2
    <3>2. QED
      BY <1>1, <2>2, <3>1
  <2>3. QED
    BY <2>1, <2>2
<1>5. (<<Head(s)>> \o Tail(s)) \o u = <<Head(s)>> \o (Tail(s) \o u)
  <2>1. <<Head(s)>> \in Seq(AnyMessage)
    BY <1>1
  <2>2. QED
    BY <1>1, <2>1, ConcatAssociative
<1>6. QED
  BY <1>1, <1>2, <1>3, <1>4, <1>5

LEMMA NextMessagePasses ==
  ASSUME DiskInv, PlaceInv, NextMessage
  PROVE  /\ UNCHANGED <<disk, session, moved, calls>> /\ PlacedNext /\ Passed
         /\ (got' = got \/ got' = Append(got, last')) /\ (pc' = pc \/ pc' = "ready")
<1>1. /\ CurSeg \in Nat \ {0} /\ CurOffset \in Nat \ {0} /\ Place(CurSeg, CurOffset)
      /\ chunk \in [left: Seq(AnyMessage), due: Nat] /\ Len(chunk.left) <= chunk.due
  BY DEF PlaceInv
<1>2. /\ Remaining \in Seq(AnyMessage) /\ MessagesFrom(CurSeg, CurOffset) \in Seq(AnyMessage)
      /\ Remaining = chunk.left \o MessagesFrom(CurSeg, CurOffset)
  BY RestTypes DEF Remaining
<1>3. UNCHANGED <<disk, session, moved, calls>>
  BY DEF NextMessage, TakeInner, StopChunk, NextSegment, SkipDamaged, SkipPacked, SkipOther,
         YieldData, YieldFirstInner, EndOfSegments, Onward, Walking
<1>4. CASE TakeInner
  <2>1. /\ chunk.left # <<>> /\ Yield(Head(chunk.left)) /\ CurSeg' = CurSeg /\ CurOffset' = CurOffset
        /\ chunk' = IF chunk.due = 1 THEN NoChunk
                    ELSE [left |-> Tail(chunk.left), due |-> chunk.due - 1]
    BY <1>4 DEF TakeInner
  <2>2. /\ chunk' \in [left: Seq(AnyMessage), due: Nat] /\ Len(chunk'.left) <= chunk'.due
        /\ Head(chunk.left) \in AnyMessage
        /\ chunk.left \o MessagesFrom(CurSeg, CurOffset)
             = <<Head(chunk.left)>> \o (chunk'.left \o MessagesFrom(CurSeg, CurOffset))
    <3> DEFINE s == chunk.left
               due == chunk.due
               u == MessagesFrom(CurSeg, CurOffset)
    <3>1. /\ s \in Seq(AnyMessage) /\ s # <<>> /\ due \in Nat /\ Len(s) <= due /\ u \in Seq(AnyMessage)
          /\ chunk' = IF due = 1 THEN NoChunk ELSE [left |-> Tail(s), due |-> due - 1]
      BY <1>1, <1>2, <2>1
    <3> HIDE DEF s, due, u
    <3>2. /\ chunk' \in [left: Seq(AnyMessage), due: Nat] /\ Len(chunk'.left) <= chunk'.due
          /\ Head(s) \in AnyMessage
          /\ s \o u = <<Head(s)>> \o (chunk'.left \o u)
      BY <3>1, FirstGiven
    <3>3. QED
      BY <3>2 DEF s, due, u
  <2>3. PlacedNext
    BY <1>1, <2>1, <2>2 DEF PlacedNext
  <2>4. Remaining = <<Head(chunk.left)>> \o RestNext
    BY <1>2, <2>1, <2>2 DEF RestNext
  <2>5. QED
    BY <1>3, <2>1, <2>2, <2>3, <2>4, YieldGives DEF Passed
<1>5. CASE StopChunk
  <2>1. /\ chunk.left = <<>> /\ chunk' = NoChunk /\ CurSeg' = CurSeg /\ CurOffset' = CurOffset
        /\ UNCHANGED <<pc, last, got, out>>
    BY <1>5 DEF StopChunk, AfterShortChunk, Onward
  <2>2. PlacedNext
    BY <1>1, <2>1 DEF PlacedNext, NoChunk
  <2>3. RestNext = Remaining
    BY <1>2, <2>1 DEF RestNext, NoChunk
  <2>4. QED
    BY <1>3, <2>1, <2>2, <2>3 DEF Passed
<1>6. CASE NextSegment
  <2>1. /\ chunk' = chunk /\ CurSeg' = CurSeg + 1 /\ CurOffset' = FirstOffset /\ CurSeg <= Len(Segs)
        /\ CurOffset > Len(RecsOf(Segs[CurSeg])) /\ UNCHANGED <<pc, last, got, out>>
    BY <1>6 DEF NextSegment, OffsetInNext, Onward, InStream, AtSegmentEnd
  <2>2. CurSeg \in DOMAIN Segs
    <3>1. Len(Segs) \in Nat /\ DOMAIN Segs = 1..Len(Segs)
      BY DEF DiskInv
    <3>2. QED
      BY <1>1, <2>1, <3>1
  <2>3. CurOffset = Len(RecsOf(Segs[CurSeg])) + 1
    <3>1. RecsOf(Segs[CurSeg]) \in Seq(Records)
      BY <2>2, OpenFiles
    <3>2. CurOffset \in 1..(Len(RecsOf(Segs[CurSeg])) + 1)
      <4>1. Len(Segs) \in Nat /\ CurSeg # Len(Segs) + 1
        BY <1>1, <2>1 DEF DiskInv
      <4>2. QED
        BY <1>1, <4>1 DEF Place
    <3>3. QED
      BY <2>1, <3>1, <3>2
  <2>4. /\ Place(CurSeg + 1, FirstOffset)
        /\ MessagesFrom(CurSeg, CurOffset) = MessagesFrom(CurSeg + 1, FirstOffset)
    BY <2>2, <2>3, NextSegmentKeeps
  <2>5. CurSeg' \in Nat \ {0} /\ CurOffset' \in Nat \ {0}
    BY <1>1, <2>1 DEF FirstOffset
  <2>6. PlacedNext
    BY <1>1, <2>1, <2>4, <2>5 DEF PlacedNext
  <2>7. RestNext = Remaining
    BY <1>2, <2>1, <2>4 DEF RestNext
  <2>8. QED
    BY <1>3, <2>1, <2>6, <2>7 DEF Passed
<1>7. CASE SkipDamaged \/ SkipPacked \/ SkipOther
  <2>1. /\ OverRecord /\ chunk' = chunk /\ UNCHANGED <<pc, last, got, out>>
        /\ Current.state # "ok" \/ ~IsData(Current)
    BY <1>7 DEF SkipDamaged, SkipPacked, SkipOther, Onward
  <2>2. /\ Current \in Records /\ CurSeg' = CurSeg
        /\ CurOffset' \in Nat \ {0} /\ Place(CurSeg', CurOffset')
        /\ MessagesFrom(CurSeg', CurOffset') \in Seq(AnyMessage)
        /\ chunk.left = <<>>
        /\ Remaining = Given(Current) \o MessagesFrom(CurSeg', CurOffset')
    BY <2>1, OverRecordStep
  <2>3. Given(Current) = <<>>
    BY <2>1, <2>2, RecordFields DEF Given
  <2>4. RestNext = Remaining
    BY <2>1, <2>2, <2>3 DEF RestNext
  <2>5. PlacedNext
    BY <1>1, <2>1, <2>2 DEF PlacedNext
  <2>6. QED
    BY <1>3, <2>1, <2>4, <2>5 DEF Passed
<1>8. CASE YieldData
  <2>1. /\ OverRecord /\ chunk' = chunk /\ Yield(Current.msgs[1])
        /\ Current.state = "ok" /\ Current.op = "Data"
    BY <1>8 DEF YieldData
  <2>2. /\ Current \in Records /\ CurSeg' = CurSeg
        /\ CurOffset' \in Nat \ {0} /\ Place(CurSeg', CurOffset')
        /\ MessagesFrom(CurSeg', CurOffset') \in Seq(AnyMessage)
        /\ chunk.left = <<>>
        /\ Remaining = Given(Current) \o MessagesFrom(CurSeg', CurOffset')
    BY <2>1, OverRecordStep
  <2>3. Given(Current) = <<Current.msgs[1]>> /\ Current.msgs[1] \in AnyMessage
    <3>1. Current.msgs \in Seq(AnyMessage) /\ Len(Current.msgs) = 1
      BY <2>1, <2>2, RecordFields
    <3> DEFINE s == Current.msgs
    <3> HIDE DEF s
    <3>2. s = <<s[1]>> /\ s[1] \in AnyMessage
      BY <3>1 DEF s
    <3>3. QED
      BY <2>1, <3>2 DEF Given, s
  <2>4. Remaining = <<Current.msgs[1]>> \o RestNext
    <3>1. RestNext = MessagesFrom(CurSeg', CurOffset')
      BY <2>1, <2>2, ConcatEmptySeq DEF RestNext
    <3>2. QED
      BY <2>2, <2>3, <3>1
  <2>5. PlacedNext
    BY <1>1, <2>1, <2>2 DEF PlacedNext
  <2>6. QED
    BY <1>3, <2>1, <2>3, <2>4, <2>5, YieldGives DEF Passed
<1>9. CASE YieldFirstInner
  <2>1. /\ OverRecord /\ Yield(Head(Current.msgs))
        /\ Current.state = "ok" /\ Current.op = "Chunk"
        /\ chunk' = IF Current.cnt = 1 THEN NoChunk
                    ELSE [left |-> Tail(Current.msgs), due |-> Current.cnt - 1]
    BY <1>9 DEF YieldFirstInner
  <2>2. /\ Current \in Records /\ CurSeg' = CurSeg
        /\ CurOffset' \in Nat \ {0} /\ Place(CurSeg', CurOffset')
        /\ MessagesFrom(CurSeg', CurOffset') \in Seq(AnyMessage)
        /\ Remaining = Given(Current) \o MessagesFrom(CurSeg', CurOffset')
    BY <2>1, OverRecordStep
  <2>3. /\ Current.msgs \in Seq(AnyMessage) /\ Current.msgs # <<>> /\ Current.cnt \in Nat
        /\ Len(Current.msgs) <= Current.cnt
    BY <2>1, <2>2, RecordFields
  <2>4. Given(Current) = Current.msgs
    BY <2>1 DEF Given
  <2>5. /\ chunk' \in [left: Seq(AnyMessage), due: Nat] /\ Len(chunk'.left) <= chunk'.due
        /\ Head(Current.msgs) \in AnyMessage
        /\ Current.msgs \o MessagesFrom(CurSeg', CurOffset')
             = <<Head(Current.msgs)>> \o (chunk'.left \o MessagesFrom(CurSeg', CurOffset'))
    <3> DEFINE s == Current.msgs
               due == Current.cnt
               u == MessagesFrom(CurSeg', CurOffset')
    <3>1. /\ s \in Seq(AnyMessage) /\ s # <<>> /\ due \in Nat /\ Len(s) <= due /\ u \in Seq(AnyMessage)
          /\ chunk' = IF due = 1 THEN NoChunk ELSE [left |-> Tail(s), due |-> due - 1]
      BY <2>1, <2>2, <2>3
    <3> HIDE DEF s, due, u
    <3>2. /\ chunk' \in [left: Seq(AnyMessage), due: Nat] /\ Len(chunk'.left) <= chunk'.due
          /\ Head(s) \in AnyMessage
          /\ s \o u = <<Head(s)>> \o (chunk'.left \o u)
      BY <3>1, FirstGiven
    <3>3. QED
      BY <3>2 DEF s, due, u
  <2>6. Remaining = <<Head(Current.msgs)>> \o RestNext
    BY <2>2, <2>4, <2>5 DEF RestNext
  <2>7. PlacedNext
    BY <1>1, <2>2, <2>5 DEF PlacedNext
  <2>8. QED
    BY <1>3, <2>1, <2>5, <2>6, <2>7, YieldGives DEF Passed
<1>10. CASE EndOfSegments
  <2>1. /\ chunk.due = 0 /\ CurSeg > Len(Segs) /\ chunk' = chunk /\ CurSeg' = CurSeg
        /\ CurOffset' = CurOffset /\ last' = NoMessage /\ UNCHANGED <<got, out>> /\ pc' = "ready"
    BY <1>10 DEF EndOfSegments, cursor, Return
  <2>2. chunk.left = <<>> /\ MessagesFrom(CurSeg, CurOffset) = <<>>
    BY <1>1, <2>1 DEF MessagesFrom
  <2>3. Remaining = <<>> /\ RestNext = Remaining
    BY <1>2, <2>1, <2>2 DEF RestNext
  <2>4. PlacedNext
    BY <1>1, <2>1 DEF PlacedNext
  <2>5. QED
    BY <1>3, <2>1, <2>3, <2>4 DEF Passed
<1>11. QED
  BY <1>4, <1>5, <1>6, <1>7, <1>8, <1>9, <1>10 DEF NextMessage

(***************************************************************************)
(* The kinds of steps.                                                     *)
(***************************************************************************)
Reopens ==
  /\ Open \/ Close
  /\ CurSeg' = 1 /\ CurOffset' = FirstOffset /\ chunk' = NoChunk /\ CorruptCount' = 0
  /\ last' = NoMessage /\ got' = <<>> /\ out' = <<>> /\ moved' = FALSE

Calls ==
  /\ UNCHANGED <<disk, session, CorruptCount, out>> /\ last' = NoMessage /\ PlacedNext
  /\ UNCHANGED <<cursor, moved>> \/ (moved' = TRUE /\ chunk' = NoChunk)
  /\ got' = got \/ got' = <<>>

Reads == NextMessage /\ UNCHANGED <<disk, session, moved, calls>> /\ PlacedNext /\ Passed

LEMMA MoveToPlaced ==
  ASSUME DiskInv, isOpen, NEW t, MoveTo(t)
  PROVE  PlacedNext /\ moved' = TRUE /\ chunk' = NoChunk
<1>1. /\ CurSeg' = SegmentFor(t) /\ CurOffset' \in SeekOffsets(Segs[SegmentFor(t)].points, t)
      /\ chunk' = NoChunk /\ moved' = TRUE
  BY DEF MoveTo, ChunkAfterSeek
<1>2. CurSeg' \in Nat \ {0}
  <2>1. SegmentFor(t) \in DOMAIN Segs /\ DOMAIN Segs = 1..Len(Segs)
    BY SeekTarget DEF DiskInv
  <2>2. QED
    BY <1>1, <2>1
<1>3. CurOffset' \in Nat \ {0} /\ Place(CurSeg', CurOffset')
  BY <1>1, SeekTarget
<1>4. NoChunk \in [left: Seq(AnyMessage), due: Nat] /\ Len(NoChunk.left) <= NoChunk.due
  BY DEF NoChunk
<1>5. QED
  BY <1>1, <1>2, <1>3, <1>4 DEF PlacedNext

LEMMA StepKinds ==
  ASSUME DiskInv, PlaceInv, [Next]_vars
  PROVE  Reopens \/ Calls \/ Reads \/ UNCHANGED vars
<1>1. UNCHANGED cursor => PlacedNext
  BY DEF PlaceInv, PlacedNext, cursor
<1>2. CASE Open \/ Close
  BY <1>2 DEF Open, Close, Reopens
<1>3. CASE OpenFails \/ NotOpen \/ NoCallback \/ ReadNext
  <2>1. UNCHANGED <<disk, session, cursor, CorruptCount, got, out, moved>> /\ last' = NoMessage
    BY <1>3 DEF OpenFails, NotOpen, NoCallback, Refuse, ReadNext
  <2>2. QED
    BY <1>1, <2>1 DEF Calls
<1>4. ASSUME NEW t \in Targets, Seek(t) PROVE Calls
  <2>1. isOpen /\ MoveTo(t) /\ last' = NoMessage /\ UNCHANGED <<disk, session, CorruptCount, got, out>>
    BY <1>4 DEF Seek
  <2>2. QED
    BY <2>1, MoveToPlaced DEF Calls
<1>5. ASSUME NEW start \in Targets, NEW end \in Targets, NEW filter \in Filters,
             Read(start, end, filter)
      PROVE  Calls
  <2>1. /\ isOpen /\ last' = NoMessage /\ got' = <<>> /\ UNCHANGED <<disk, session, CorruptCount, out>>
        /\ IF start > 0 THEN MoveTo(start) ELSE UNCHANGED <<cursor, moved>>
    BY <1>5 DEF Read
  <2>2. CASE start > 0
    BY <2>1, <2>2, MoveToPlaced DEF Calls
  <2>3. CASE ~ (start > 0)
    <3>1. UNCHANGED <<cursor, moved>>
      BY <2>1, <2>3
    <3>2. QED
      BY <1>1, <2>1, <3>1 DEF Calls
  <2>4. QED
    BY <2>2, <2>3
<1>6. CASE NextMessage
  BY <1>6, NextMessagePasses DEF Reads
<1>7. QED
  BY <1>2, <1>3, <1>4, <1>5, <1>6 DEF Next, Client

\* At the beginning of the session everything is left to read.
LEMMA AllLeft ==
  ASSUME Reopens, StartOK'
  PROVE  /\ AllMessages' \in Seq(AnyMessage) /\ Remaining' = AllMessages'
         /\ Place(CurSeg, CurOffset)'
<1>1. CurSeg' = 1 /\ CurOffset' = FirstOffset /\ chunk'.left = <<>>
  BY DEF Reopens, NoChunk
<1>2. AllMessages' \in Seq(AnyMessage) /\ Place(1, FirstOffset)'
  BY DEF StartOK
<1>3. MessagesFrom(CurSeg, CurOffset)' = AllMessages'
  BY <1>1 DEF AllMessages, MessagesFrom
<1>4. Remaining' = <<>> \o AllMessages'
  BY <1>1, <1>3 DEF Remaining
<1>5. Place(CurSeg, CurOffset)'
  BY <1>1, <1>2 DEF Place
<1>6. <<>> \o AllMessages' = AllMessages'
  BY <1>2, ConcatEmptySeq
<1>7. QED
  BY <1>2, <1>4, <1>5, <1>6

LEMMA PlaceInit == Init /\ StartOK => PlaceInv
<1>1. SUFFICES ASSUME Init, StartOK PROVE PlaceInv
  OBVIOUS
<1>2. CurSeg = 1 /\ CurOffset = FirstOffset /\ chunk = NoChunk
  BY <1>1 DEF Init
<1>3. AllMessages \in Seq(AnyMessage) /\ Place(1, FirstOffset)
  BY <1>1 DEF StartOK
<1>4. Remaining = AllMessages
  <2>1. Remaining = <<>> \o AllMessages
    BY <1>2 DEF Remaining, NoChunk, AllMessages
  <2>2. QED
    BY <1>3, <2>1, ConcatEmptySeq
<1>5. EndsWith(AllMessages, Remaining)
  BY <1>3, <1>4, EndsWithSelf
<1>6. QED
  BY <1>2, <1>3, <1>5 DEF PlaceInv, NoChunk, FirstOffset

LEMMA PlaceNext == DiskInv /\ StartOK' /\ PlaceInv /\ [Next]_vars => PlaceInv'
<1>1. SUFFICES ASSUME DiskInv, StartOK', PlaceInv, [Next]_vars PROVE PlaceInv'
  OBVIOUS
<1>2. CASE Reopens
  <2>1. /\ AllMessages' \in Seq(AnyMessage) /\ Remaining' = AllMessages'
        /\ Place(CurSeg, CurOffset)'
    BY <1>1, <1>2, AllLeft
  <2>2. EndsWith(AllMessages', Remaining')
    BY <2>1, EndsWithSelf
  <2>3. /\ CurSeg' \in Nat \ {0} /\ CurOffset' \in Nat \ {0}
        /\ chunk' \in [left: Seq(AnyMessage), due: Nat] /\ Len(chunk'.left) <= chunk'.due
    BY <1>2 DEF Reopens, NoChunk, FirstOffset
  <2>4. EndsWith(AllMessages, Remaining)'
    BY <2>2 DEF EndsWith, EndsAfter
  <2>5. QED
    BY <2>1, <2>3, <2>4 DEF PlaceInv
<1>3. ASSUME UNCHANGED <<disk, session>>, PlacedNext,
             AllMessages \in Seq(AnyMessage) => EndsWith(AllMessages, RestNext)
      PROVE  PlaceInv'
  <2>1. UNCHANGED <<disk, Segs>>
    BY <1>3 DEF session
  <2>2. /\ AllMessages' = AllMessages /\ Remaining' = RestNext
        /\ Place(CurSeg, CurOffset)' <=> Place(CurSeg', CurOffset')
    BY <2>1, SameSession
  <2>3. EndsWith(AllMessages', Remaining')
    BY <1>1, <1>3, <2>2, RestTypes
  <2>4. EndsWith(AllMessages, Remaining)'
    BY <2>3 DEF EndsWith, EndsAfter
  <2>5. QED
    BY <1>3, <2>2, <2>4 DEF PlaceInv, PlacedNext
<1>4. CASE Calls
  <2>1. CASE UNCHANGED cursor
    <3>1. RestNext = Remaining
      BY <2>1 DEF RestNext, Remaining, cursor
    <3>2. QED
      BY <1>1, <1>3, <1>4, <3>1 DEF Calls, PlaceInv
  <2>2. CASE chunk' = NoChunk
    <3>1. Place(CurSeg', CurOffset')
      BY <1>4 DEF Calls, PlacedNext
    <3>2. /\ MessagesFrom(CurSeg', CurOffset') \in Seq(AnyMessage)
          /\ EndsWith(AllMessages, MessagesFrom(CurSeg', CurOffset'))
      BY <1>1, <3>1, EveryPlaceIsAnEnd
    <3>3. RestNext = MessagesFrom(CurSeg', CurOffset')
      BY <2>2, <3>2, ConcatEmptySeq DEF RestNext, NoChunk
    <3>4. QED
      BY <1>3, <1>4, <3>2, <3>3 DEF Calls
  <2>3. QED
    BY <1>4, <2>1, <2>2 DEF Calls
<1>5. CASE Reads
  <2>1. UNCHANGED <<disk, session>> /\ PlacedNext /\ Passed
    BY <1>5 DEF Reads
  <2>2. /\ AllMessages \in Seq(AnyMessage) /\ Remaining \in Seq(AnyMessage)
        /\ EndsWith(AllMessages, Remaining)
    BY <1>1, RestTypes DEF PlaceInv
  <2>3. CASE RestNext = Remaining
    BY <1>3, <2>1, <2>2, <2>3
  <2>4. CASE last' \in AnyMessage /\ Remaining = <<last'>> \o RestNext
    <3>1. RestNext \in Seq(AnyMessage)
      <4>1. MessagesFrom(CurSeg', CurOffset') \in Seq(AnyMessage) /\ chunk'.left \in Seq(AnyMessage)
        BY <1>1, <2>1, EveryPlaceIsAnEnd DEF PlacedNext
      <4>2. QED
        BY <4>1, ConcatProperties DEF RestNext
    <3>2. <<last'>> \in Seq(AnyMessage)
      BY <2>4
    <3>3. EndsWith(AllMessages, RestNext)
      BY <2>2, <2>4, <3>1, <3>2, EndsWithRest
    <3>4. QED
      BY <1>3, <2>1, <3>3
  <2>5. QED
    BY <2>1, <2>3, <2>4 DEF Passed
<1>6. CASE UNCHANGED vars
  <2>1. UNCHANGED cursor /\ UNCHANGED <<disk, session>>
    BY <1>6 DEF vars
  <2>2. PlacedNext /\ RestNext = Remaining
    BY <1>1, <2>1 DEF PlacedNext, PlaceInv, RestNext, Remaining, cursor
  <2>3. QED
    BY <1>1, <1>3, <2>1, <2>2 DEF PlaceInv
<1>7. QED
  BY <1>1, <1>2, <1>4, <1>5, <1>6, StepKinds

LEMMA PlaceAlways == Spec => [](DiskInv /\ StartOK /\ PlaceInv)
<1>1. Spec => [](DiskInv /\ StartOK)
  BY DiskAlways
<1>2. QED
  BY <1>1, PlaceInit, PlaceNext, PTL DEF Spec

(***************************************************************************)
(* Types.                                                                  *)
(***************************************************************************)
OtherTypes ==
  /\ moved \in BOOLEAN /\ pc \in {"ready", "walk"}
  /\ DOMAIN Counts = Channels
  /\ CorruptCount \in Nat /\ calls \in 0..MaxCalls
  /\ last \in AnyMessage /\ got \in Seq(AnyMessage) /\ out \in Seq(AnyMessage)

LEMMA TypesInit == Init => OtherTypes
<1>1. SUFFICES ASSUME Init PROVE OtherTypes
  OBVIOUS
<1>2. /\ moved = FALSE /\ pc = "ready" /\ Counts = <<>> /\ Channels = {} /\ CorruptCount = 0 /\ calls = 0
      /\ last = NoMessage /\ got = <<>> /\ out = <<>>
  BY <1>1 DEF Init
<1>3. NoMessage \in AnyMessage
  BY DEF NoMessage, Message, NoChannel, AnyMessage
<1>4. DOMAIN Counts = Channels
  BY <1>2
<1>5. got \in Seq(AnyMessage) /\ out \in Seq(AnyMessage)
  BY <1>2
<1>6. calls \in 0..MaxCalls
  BY <1>2, CallsAssumption
<1>7. QED
  BY <1>2, <1>3, <1>4, <1>5, <1>6 DEF OtherTypes

LEMMA TypesNext == DiskInv /\ PlaceInv /\ OtherTypes /\ [Next]_vars => OtherTypes'
<1>1. SUFFICES ASSUME DiskInv, PlaceInv, OtherTypes, [Next]_vars PROVE OtherTypes'
  OBVIOUS
<1>2. NoMessage \in AnyMessage
  BY DEF NoMessage, Message, NoChannel, AnyMessage
<1>3. calls' \in 0..MaxCalls
  <2>1. Counting => calls' \in 0..MaxCalls
    BY <1>1, CallsAssumption DEF Counting, OtherTypes
  <2>2. CASE Client
    <3>1. ASSUME Open \/ OpenFails \/ Close \/ NotOpen \/ NoCallback \/ ReadNext PROVE Counting
      BY <3>1 DEF Open, OpenFails, Close, NotOpen, NoCallback, ReadNext, Refuse
    <3>2. ASSUME NEW t \in Targets, Seek(t) PROVE Counting
      BY <3>2 DEF Seek
    <3>3. ASSUME NEW start \in Targets, NEW end \in Targets, NEW filter \in Filters,
                 Read(start, end, filter)
          PROVE  Counting
      BY <3>3 DEF Read
    <3>4. QED
      BY <2>1, <2>2, <3>1, <3>2, <3>3 DEF Client
  <2>3. CASE NextMessage
    BY <1>1, <2>3, NextMessagePasses DEF OtherTypes
  <2>4. CASE UNCHANGED vars
    BY <1>1, <2>4 DEF vars, OtherTypes
  <2>5. QED
    BY <1>1, <2>2, <2>3, <2>4 DEF Next
<1>4. pc' \in {"ready", "walk"}
  <2>1. CASE Client
    <3>1. ASSUME Open \/ OpenFails \/ Close \/ NotOpen \/ NoCallback \/ ReadNext
          PROVE  pc' \in {"ready", "walk"}
      BY <3>1 DEF Open, OpenFails, Close, NotOpen, NoCallback, ReadNext, Refuse, Return
    <3>2. ASSUME NEW t \in Targets, Seek(t) PROVE pc' \in {"ready", "walk"}
      BY <3>2 DEF Seek, Return
    <3>3. ASSUME NEW start \in Targets, NEW end \in Targets, NEW filter \in Filters,
                 Read(start, end, filter)
          PROVE  pc' \in {"ready", "walk"}
      BY <3>3 DEF Read
    <3>4. QED
      BY <2>1, <3>1, <3>2, <3>3 DEF Client
  <2>2. CASE NextMessage
    BY <1>1, <2>2, NextMessagePasses DEF OtherTypes
  <2>3. CASE UNCHANGED vars
    BY <1>1, <2>3 DEF vars, OtherTypes
  <2>4. QED
    BY <1>1, <2>1, <2>2, <2>3 DEF Next
<1>5. DOMAIN Counts' = Channels'
  <2>1. CASE Open
    BY <2>1 DEF Open
  <2>2. CASE Close
    <3>1. Counts' = <<>> /\ Channels' = {}
      BY <2>2 DEF Close
    <3>2. QED
      BY <3>1
  <2>3. CASE UNCHANGED session
    BY <1>1, <2>3 DEF session, OtherTypes
  <2>4. QED
    BY <1>1, <2>1, <2>2, <2>3, StepKinds DEF Reopens, Calls, Reads, vars
<1>6. CorruptCount' \in Nat
  <2>1. NextMessage => CorruptCount' \in {CorruptCount, CorruptCount + 1}
    BY DEF NextMessage, TakeInner, StopChunk, NextSegment, SkipDamaged, SkipPacked, SkipOther,
           YieldData, YieldFirstInner, EndOfSegments, CorruptAfterPacked
  <2>2. CASE UNCHANGED CorruptCount
    BY <1>1, <2>2 DEF OtherTypes
  <2>3. CASE NextMessage
    BY <1>1, <2>1, <2>3 DEF OtherTypes
  <2>4. CASE CorruptCount' = 0
    BY <2>4
  <2>5. QED
    BY <1>1, <2>2, <2>3, <2>4, StepKinds DEF Reopens, Calls, Reads, vars
<1>7. last \in AnyMessage /\ out \in Seq(AnyMessage) /\ got \in Seq(AnyMessage)
  BY <1>1 DEF OtherTypes
<1>8. <<>> \in Seq(AnyMessage)
  OBVIOUS
<1>9. last' \in AnyMessage /\ out' \in Seq(AnyMessage)
  <2>1. \/ last' \in {last, NoMessage} /\ out' \in {out, <<>>}
        \/ last' \in AnyMessage /\ out' = Append(out, last')
    <3>1. Reopens \/ Calls \/ UNCHANGED vars => last' \in {last, NoMessage} /\ out' \in {out, <<>>}
      BY DEF Reopens, Calls, vars
    <3>2. Passed => \/ last' \in {last, NoMessage} /\ out' \in {out, <<>>}
                    \/ last' \in AnyMessage /\ out' = Append(out, last')
      BY DEF Passed
    <3>3. QED
      BY <1>1, <3>1, <3>2, StepKinds DEF Reads
  <2>2. last' \in AnyMessage
    BY <1>2, <1>7, <2>1
  <2>3. out' = Append(out, last') => out' \in Seq(AnyMessage)
    BY <1>7, <2>2
  <2>4. QED
    BY <1>7, <1>8, <2>1, <2>2, <2>3
<1>10. got' \in Seq(AnyMessage)
  <2>1. got' \in {got, <<>>} \/ got' = Append(got, last')
    <3>1. Reopens \/ Calls \/ UNCHANGED vars => got' \in {got, <<>>}
      BY DEF Reopens, Calls, vars
    <3>2. NextMessage => got' \in {got, <<>>} \/ got' = Append(got, last')
      BY <1>1, NextMessagePasses
    <3>3. QED
      BY <1>1, <3>1, <3>2, StepKinds DEF Reads
  <2>2. got' = Append(got, last') => got' \in Seq(AnyMessage)
    BY <1>7, <1>9
  <2>3. got' \in {got, <<>>} => got' \in Seq(AnyMessage)
    BY <1>7, <1>8
  <2>4. QED
    BY <2>1, <2>2, <2>3
<1>11. moved' \in BOOLEAN
  BY <1>1, StepKinds DEF Reopens, Calls, Reads, vars, OtherTypes
<1>12. QED
  BY <1>3, <1>4, <1>5, <1>6, <1>9, <1>10, <1>11 DEF OtherTypes

LEMMA TypesTogether == DiskInv /\ PlaceInv /\ OtherTypes => TypeOK
<1>1. SUFFICES ASSUME DiskInv, PlaceInv, OtherTypes PROVE TypeOK
  OBVIOUS
<1>2. Len(Segs) \in Nat /\ DOMAIN Segs = 1..Len(Segs) /\ isOpen \in BOOLEAN
  BY <1>1 DEF DiskInv
<1>3. CurSeg \in 1..(Len(Segs) + 1)
  BY <1>1, <1>2 DEF PlaceInv, Place
<1>4. CurSeg <= Len(Segs) => CurOffset <= Len(RecsOf(Segs[CurSeg])) + 1
  <2>1. SUFFICES ASSUME CurSeg <= Len(Segs) PROVE CurOffset <= Len(RecsOf(Segs[CurSeg])) + 1
    OBVIOUS
  <2>2. CurSeg # Len(Segs) + 1 /\ CurSeg \in DOMAIN Segs
    BY <1>2, <1>3, <2>1
  <2>3. CurOffset \in 1..(Len(RecsOf(Segs[CurSeg])) + 1)
    BY <1>1, <2>2 DEF PlaceInv, Place
  <2>4. Len(RecsOf(Segs[CurSeg])) \in Nat
    BY <1>1, <2>2, OpenFiles
  <2>5. QED
    BY <2>3, <2>4
<1>5. QED
  BY <1>1, <1>2, <1>3, <1>4 DEF TypeOK, PlaceInv, OtherTypes

LEMMA InvAlways == Spec => [](DiskInv /\ StartOK /\ PlaceInv /\ OtherTypes)
<1>1. Spec => [](DiskInv /\ StartOK /\ PlaceInv)
  BY PlaceAlways
<1>2. QED
  BY <1>1, TypesInit, TypesNext, PTL DEF Spec

\* The cursor stays in the session: it is at a record or at the end of a
\* segment that is open, or behind the last one (Impl::NextMessage,
\* Impl::Seek, reader.cpp).
THEOREM CursorStaysInSession == Spec => []TypeOK
<1>1. Spec => [](DiskInv /\ StartOK /\ PlaceInv /\ OtherTypes)
  BY InvAlways
<1>2. QED
  BY <1>1, TypesTogether, PTL

(***************************************************************************)
(* The reader implements the stream of messages.                           *)
(***************************************************************************)
PositionOK ==
  /\ AllMessages \in Seq(AnyMessage) /\ Remaining \in Seq(AnyMessage)
  /\ EndsWith(AllMessages, Remaining)

LEMMA PositionAlways == Spec => [](DiskInv /\ StartOK /\ PlaceInv /\ PositionOK)
<1>1. DiskInv /\ PlaceInv => PositionOK
  BY RestTypes DEF PlaceInv, PositionOK
<1>2. Spec => [](DiskInv /\ StartOK /\ PlaceInv)
  BY PlaceAlways
<1>3. QED
  BY <1>1, <1>2, PTL

LEMMA PositionOf ==
  ASSUME NEW a \in Seq(AnyMessage), NEW r \in Seq(AnyMessage), EndsWith(a, r)
  PROVE  Len(a) - Len(r) + 1 \in 1..(Len(a) + 1)
<1>1. PICK p \in Seq(AnyMessage) : a = p \o r
  BY DEF EndsWith, EndsAfter
<1>2. Len(a) = Len(p) + Len(r)
  BY <1>1, ConcatProperties
<1>3. Len(p) \in Nat /\ Len(r) \in Nat
  OBVIOUS
<1>4. QED
  BY <1>2, <1>3

\* m is the next message of a, where r is left to read, and rest after it.
IsNext(a, r, m, rest) ==
  LET pos == Len(a) - Len(r) + 1
  IN  pos \in DOMAIN a /\ a[pos] = m /\ Len(a) - Len(rest) + 1 = pos + 1

LEMMA NextOf ==
  ASSUME NEW a \in Seq(AnyMessage), NEW r \in Seq(AnyMessage), EndsWith(a, r),
         NEW m \in AnyMessage, NEW rest \in Seq(AnyMessage), r = <<m>> \o rest
  PROVE  IsNext(a, r, m, rest)
<1>1. PICK p \in Seq(AnyMessage) : a = p \o r
  BY DEF EndsWith, EndsAfter
<1>2. /\ Len(a) = Len(p) + Len(r)
      /\ \A i \in 1..(Len(p) + Len(r)) : a[i] = IF i <= Len(p) THEN p[i] ELSE r[i - Len(p)]
  BY <1>1, ConcatProperties
<1>3. <<m>> \in Seq(AnyMessage) /\ Len(<<m>>) = 1 /\ <<m>>[1] = m
  OBVIOUS
<1>4. Len(r) = 1 + Len(rest) /\ r[1] = m
  <2>1. /\ Len(r) = Len(<<m>>) + Len(rest)
        /\ \A i \in 1..(Len(<<m>>) + Len(rest)) :
             r[i] = IF i <= Len(<<m>>) THEN <<m>>[i] ELSE rest[i - Len(<<m>>)]
    BY <1>3, ConcatProperties
  <2>2. Len(rest) \in Nat
    OBVIOUS
  <2>3. 1 \in 1..(Len(<<m>>) + Len(rest))
    BY <1>3, <2>2
  <2>4. QED
    BY <1>3, <2>1, <2>3
<1>5. Len(p) \in Nat /\ Len(rest) \in Nat /\ DOMAIN a = 1..Len(a)
  OBVIOUS
<1>6. Len(a) - Len(r) + 1 = Len(p) + 1 /\ Len(p) + 1 \in 1..(Len(p) + Len(r)) /\ (Len(p) + 1) - Len(p) = 1
  BY <1>2, <1>4, <1>5
<1>7. a[Len(p) + 1] = m
  <2>1. ~ (Len(p) + 1 <= Len(p))
    BY <1>5
  <2> DEFINE i == Len(p) + 1
             n == Len(p)
             all == n + Len(r)
  <2>2. i \in 1..all /\ ~ (i <= n) /\ i - n = 1
    BY <1>6, <2>1
  <2>3. \A k \in 1..all : a[k] = IF k <= n THEN p[k] ELSE r[k - n]
    BY <1>2
  <2> HIDE DEF i, n, all
  <2>4. a[i] = r[1]
    BY <2>2, <2>3
  <2>5. QED
    BY <1>4, <2>4 DEF i
<1>8. Len(a) - Len(rest) + 1 = (Len(p) + 1) + 1
  BY <1>2, <1>4, <1>5
<1>9. QED
  BY <1>2, <1>5, <1>6, <1>7, <1>8 DEF IsNext

\* A step of NextMessage, as the stream sees it.
LEMMA ReadsDeliver ==
  ASSUME DiskInv, PositionOK, PositionOK', Reads
  PROVE  /\ AllMessages' = AllMessages
         /\ \/ Remaining' = Remaining /\ UNCHANGED <<last, out>>
            \/ /\ last' \in AnyMessage /\ Remaining = <<last'>> \o Remaining' /\ out' = Append(out, last')
               /\ Stream!Deliver /\ last' \in ToSet(AllMessages)
            \/ Remaining' = Remaining /\ Stream!Finish /\ UNCHANGED out
<1>1. UNCHANGED <<disk, Segs>> /\ Passed
  BY DEF Reads, session
<1>2. AllMessages' = AllMessages /\ Remaining' = RestNext
  BY <1>1, SameSession
<1>3. CASE Remaining = RestNext /\ UNCHANGED <<last, out>>
  BY <1>2, <1>3
<1>4. CASE last' \in AnyMessage /\ Remaining = <<last'>> \o RestNext /\ out' = Append(out, last')
  <2> DEFINE pos == Len(AllMessages) - Len(Remaining) + 1
  <2>1. /\ AllMessages \in Seq(AnyMessage) /\ Remaining \in Seq(AnyMessage)
        /\ EndsWith(AllMessages, Remaining) /\ RestNext \in Seq(AnyMessage)
    BY <1>2 DEF PositionOK
  <2>2. /\ pos \in DOMAIN AllMessages /\ AllMessages[pos] = last'
        /\ Len(AllMessages) - Len(RestNext) + 1 = pos + 1
    <3> DEFINE a == AllMessages
               r == Remaining
               rest == RestNext
               m == last'
    <3>1. /\ a \in Seq(AnyMessage) /\ r \in Seq(AnyMessage) /\ EndsWith(a, r)
          /\ rest \in Seq(AnyMessage) /\ m \in AnyMessage /\ r = <<m>> \o rest
      BY <1>4, <2>1
    <3> HIDE DEF a, r, rest, m
    <3>2. IsNext(a, r, m, rest)
      BY <3>1, NextOf
    <3>3. QED
      BY <3>2 DEF IsNext, a, r, rest, m
  <2>3. last' \in ToSet(AllMessages)
    BY <2>2 DEF ToSet
  <2>4. pos <= Len(AllMessages)
    BY <2>1, <2>2
  <2>5. Stream!Deliver
    BY <1>2, <2>2, <2>4 DEF Stream!Deliver
  <2>6. QED
    BY <1>2, <1>4, <2>3, <2>5
<1>5. CASE Remaining = <<>> /\ RestNext = Remaining /\ last' = NoMessage /\ UNCHANGED out
  <2>1. Len(AllMessages) - Len(Remaining) + 1 = Len(AllMessages) + 1
    <3>1. Len(AllMessages) \in Nat /\ Len(Remaining) = 0
      BY <1>5 DEF PositionOK
    <3>2. QED
      BY <3>1
  <2>2. Stream!Finish
    BY <1>2, <1>5, <2>1 DEF Stream!Finish
  <2>3. QED
    BY <1>2, <1>5, <2>2
<1>6. QED
  BY <1>1, <1>3, <1>4, <1>5 DEF Passed

LEMMA StreamStep ==
  DiskInv /\ PlaceInv /\ PositionOK /\ PositionOK' /\ StartOK' /\ [Next]_vars
    => [Stream!Next]_(Stream!streamVars)
<1>1. SUFFICES ASSUME DiskInv, PlaceInv, PositionOK, PositionOK', StartOK', [Next]_vars
               PROVE  [Stream!Next]_(Stream!streamVars)
  OBVIOUS
<1>2. CASE Reopens
  <2>1. AllMessages' \in Seq(AnyMessage) /\ Remaining' = AllMessages' /\ last' = NoMessage
    BY <1>1, <1>2, AllLeft DEF Reopens
  <2>2. Len(AllMessages') - Len(Remaining') + 1 = 1
    <3>1. Len(AllMessages') \in Nat
      BY <2>1
    <3>2. QED
      BY <2>1, <3>1
  <2>3. Stream!Open
    BY <2>1, <2>2 DEF Stream!Open
  <2>4. QED
    BY <2>3 DEF Stream!Next
<1>3. CASE Calls
  <2>1. UNCHANGED <<disk, Segs>> /\ last' = NoMessage
    BY <1>3 DEF Calls, session
  <2>2. AllMessages' = AllMessages
    BY <2>1, SameSession
  <2>3. Len(AllMessages') - Len(Remaining') + 1 \in 1..(Len(AllMessages') + 1)
    <3>1. AllMessages' \in Seq(AnyMessage) /\ Remaining' \in Seq(AnyMessage)
      BY <1>1 DEF PositionOK
    <3>2. EndsWith(AllMessages', Remaining')
      BY <1>1 DEF PositionOK, EndsWith, EndsAfter
    <3>3. QED
      BY <3>1, <3>2, PositionOf
  <2>4. Stream!Move
    BY <2>1, <2>2, <2>3 DEF Stream!Move
  <2>5. QED
    BY <2>4 DEF Stream!Next
<1>4. CASE Reads
  <2>1. /\ AllMessages' = AllMessages
        /\ \/ Remaining' = Remaining /\ UNCHANGED <<last, out>>
           \/ Stream!Deliver
           \/ Stream!Finish
    BY <1>1, <1>4, ReadsDeliver
  <2>2. QED
    BY <2>1 DEF Stream!Next, Stream!streamVars
<1>5. CASE UNCHANGED vars
  <2>1. UNCHANGED <<disk, Segs>> /\ UNCHANGED <<cursor, last>>
    BY <1>5 DEF vars, session
  <2>2. AllMessages' = AllMessages /\ Remaining' = Remaining
    BY <2>1, SameSession DEF RestNext, Remaining, cursor
  <2>3. QED
    BY <2>1, <2>2 DEF Stream!streamVars
<1>6. QED
  BY <1>1, <1>2, <1>3, <1>4, <1>5, StepKinds

LEMMA StreamInit == Init => Stream!Init
<1>1. SUFFICES ASSUME Init PROVE Stream!Init
  OBVIOUS
<1>2. /\ Segs = <<>> /\ CurSeg = 1 /\ chunk.left = <<>> /\ last = NoMessage
  BY <1>1 DEF Init, NoChunk
<1>3. AllMessages = <<>> /\ MessagesFrom(CurSeg, CurOffset) = <<>>
  BY <1>2 DEF AllMessages, MessagesFrom
<1>4. Remaining = <<>>
  BY <1>2, <1>3 DEF Remaining
<1>5. QED
  BY <1>2, <1>3, <1>4 DEF Stream!Init

\* Every behaviour of the reader is one of the stream: a read delivers the
\* message after the one before it, whatever segments, chunks and damaged
\* records lie between them (Impl::NextMessage, reader.cpp:288-429).
THEOREM ReaderImplementsStream == Spec => ImplementsStream
<1>1. Spec => [](DiskInv /\ StartOK /\ PlaceInv /\ PositionOK)
  BY PositionAlways
<1>2. DiskInv /\ PlaceInv /\ PositionOK /\ PositionOK' /\ StartOK' /\ [Next]_vars
        => [Stream!Next]_(Stream!streamVars)
  BY StreamStep
<1>3. QED
  BY <1>1, <1>2, StreamInit, PTL DEF Spec, ImplementsStream, Stream!Spec

(***************************************************************************)
(* What has been given, and whose channels are known.                      *)
(***************************************************************************)
GaveInv ==
  /\ out \in Seq(AnyMessage) /\ ToSet(out) \subseteq ToSet(AllMessages)
  /\ ~moved => AllMessages = out \o Remaining

LEMMA GaveInit == Init /\ StartOK /\ PositionOK => GaveInv
<1>1. SUFFICES ASSUME Init, StartOK, PositionOK PROVE GaveInv
  OBVIOUS
<1>2. Segs = <<>> /\ out = <<>> /\ CurSeg = 1 /\ chunk.left = <<>>
  BY <1>1 DEF Init, NoChunk
<1>3. AllMessages = <<>> /\ Remaining = <<>>
  BY <1>2 DEF AllMessages, Remaining, MessagesFrom
<1>4. out \in Seq(AnyMessage) /\ ToSet(out) = {}
  BY <1>2 DEF ToSet
<1>5. <<>> \o <<>> = <<>>
  OBVIOUS
<1>6. QED
  BY <1>2, <1>3, <1>4, <1>5 DEF GaveInv

LEMMA GaveNext ==
  DiskInv /\ PlaceInv /\ PositionOK /\ PositionOK' /\ StartOK' /\ GaveInv /\ [Next]_vars => GaveInv'
<1>1. SUFFICES ASSUME DiskInv, PlaceInv, PositionOK, PositionOK', StartOK', GaveInv, [Next]_vars
               PROVE  GaveInv'
  OBVIOUS
<1>2. /\ out \in Seq(AnyMessage) /\ ToSet(out) \subseteq ToSet(AllMessages)
      /\ ~moved => AllMessages = out \o Remaining
  BY <1>1 DEF GaveInv
<1>3. CASE Reopens
  <2>1. AllMessages' \in Seq(AnyMessage) /\ Remaining' = AllMessages' /\ out' = <<>>
    BY <1>1, <1>3, AllLeft DEF Reopens
  <2>2. out' \in Seq(AnyMessage) /\ ToSet(out') = {}
    BY <2>1 DEF ToSet
  <2>3. out' \o Remaining' = AllMessages'
    BY <2>1, ConcatEmptySeq
  <2>4. ToSet(out)' \subseteq ToSet(AllMessages)'
    BY <2>2 DEF ToSet
  <2>5. QED
    BY <2>2, <2>3, <2>4 DEF GaveInv
<1>4. ASSUME AllMessages' = AllMessages, Remaining' = Remaining, out' = out, moved' \in {moved, TRUE}
      PROVE  GaveInv'
  BY <1>2, <1>4 DEF GaveInv, ToSet
<1>5. CASE Calls
  <2>1. UNCHANGED <<disk, Segs, out>>
    BY <1>5 DEF Calls, session
  <2>2. AllMessages' = AllMessages /\ Remaining' = RestNext
    BY <2>1, SameSession
  <2>3. CASE UNCHANGED <<cursor, moved>>
    <3>1. RestNext = Remaining
      BY <2>3 DEF RestNext, Remaining, cursor
    <3>2. QED
      BY <1>4, <2>1, <2>2, <2>3, <3>1
  <2>4. CASE moved' = TRUE
    BY <1>2, <2>1, <2>2, <2>4 DEF GaveInv, ToSet
  <2>5. QED
    BY <1>5, <2>3, <2>4 DEF Calls
<1>6. CASE Reads
  <2>1. moved' = moved /\ AllMessages' = AllMessages
    BY <1>1, <1>6, ReadsDeliver DEF Reads
  <2>2. CASE Remaining' = Remaining /\ UNCHANGED out
    BY <1>4, <2>1, <2>2
  <2>3. CASE /\ last' \in AnyMessage /\ Remaining = <<last'>> \o Remaining' /\ out' = Append(out, last')
             /\ last' \in ToSet(AllMessages)
    <3>1. out' \in Seq(AnyMessage) /\ ToSet(out') = ToSet(out) \cup {last'}
      BY <1>2, <2>3, AppendSet
    <3>2. ToSet(out)' \subseteq ToSet(AllMessages)'
      <4>1. ToSet(out)' = ToSet(out') /\ ToSet(AllMessages)' = ToSet(AllMessages')
        BY DEF ToSet
      <4>2. QED
        BY <1>2, <2>1, <2>3, <3>1, <4>1
    <3>3. out \o Remaining = out' \o Remaining'
      <4>1. Remaining' \in Seq(AnyMessage) /\ <<last'>> \in Seq(AnyMessage)
        BY <1>1, <2>3 DEF PositionOK
      <4>2. out' = out \o <<last'>>
        BY <1>2, <2>3, AppendIsConcat
      <4>3. (out \o <<last'>>) \o Remaining' = out \o (<<last'>> \o Remaining')
        BY <1>2, <4>1, ConcatAssociative
      <4>4. QED
        BY <2>3, <4>2, <4>3
    <3>4. QED
      BY <1>2, <2>1, <3>1, <3>2, <3>3 DEF GaveInv
  <2>4. QED
    BY <1>1, <1>6, <2>2, <2>3, ReadsDeliver
<1>7. CASE UNCHANGED vars
  <2>1. UNCHANGED <<disk, Segs, out, moved>> /\ UNCHANGED cursor
    BY <1>7 DEF vars, session
  <2>2. AllMessages' = AllMessages /\ Remaining' = Remaining
    BY <2>1, SameSession DEF RestNext, Remaining, cursor
  <2>3. QED
    BY <1>4, <2>1, <2>2
<1>8. QED
  BY <1>1, <1>3, <1>5, <1>6, <1>7, StepKinds

LEMMA GaveAlways == Spec => [](DiskInv /\ StartOK /\ PlaceInv /\ PositionOK /\ GaveInv)
<1>1. Spec => [](DiskInv /\ StartOK /\ PlaceInv /\ PositionOK)
  BY PositionAlways
<1>2. QED
  BY <1>1, GaveInit, GaveNext, PTL DEF Spec

\* A reader that never seeks has given, at its end, every readable message of
\* the session once, in their order (NextMessage, reader.cpp:288-429).
FullPassGivesAll == AtEnd /\ ~moved => out = AllMessages

THEOREM FullPassAlwaysGivesAll == Spec => []FullPassGivesAll
<1>1. PlaceInv /\ PositionOK /\ GaveInv => FullPassGivesAll
  <2>1. SUFFICES ASSUME PlaceInv, PositionOK, GaveInv, AtEnd, ~moved PROVE out = AllMessages
    BY DEF FullPassGivesAll
  <2>2. chunk.left = <<>> /\ CurSeg > Len(Segs)
    BY <2>1 DEF AtEnd, NoChunk
  <2>3. Remaining = <<>>
    BY <2>2 DEF Remaining, MessagesFrom
  <2>4. out \in Seq(AnyMessage) /\ AllMessages = out \o Remaining
    BY <2>1 DEF GaveInv
  <2>5. QED
    BY <2>3, <2>4, ConcatEmptySeq
<1>2. Spec => [](DiskInv /\ StartOK /\ PlaceInv /\ PositionOK /\ GaveInv)
  BY GaveAlways
<1>3. QED
  BY <1>1, <1>2, PTL

\* A message of a segment is of a channel the segment defines.
LEMMA DefinedInSegment ==
  ASSUME DiskInv, NEW s \in DOMAIN Segs, NEW m \in ToSet(MessagesOf(RecsOf(Segs[s])))
  PROVE  m.ch \in DefsIn(RecsOf(Segs[s]))
<1> DEFINE recs == RecsOf(Segs[s])
<1>1. /\ recs \in Seq(Records)
      /\ \A k \in DOMAIN recs : IsData(recs[k]) => DefinedAt(recs, k)
  <2>1. IsSegmentFile(disk.files[Segs[s].file]) /\ recs \in Seq(Records)
    BY OpenFiles
  <2>2. recs = disk.files[Segs[s].file].recs
    BY DEF RecsOf
  <2> HIDE DEF recs
  <2>3. QED
    BY <2>1, <2>2 DEF IsSegmentFile, SegmentFileShapes
<1> HIDE DEF recs
<1> DEFINE f == [k \in DOMAIN recs |-> Given(recs[k])]
<1>2. f \in Seq(Seq(AnyMessage)) /\ MessagesOf(recs) = FlattenSeq(f) /\ DOMAIN f = DOMAIN recs
      /\ \A k \in DOMAIN recs : f[k] = Given(recs[k])
  BY <1>1, GivenType
<1>3. m \in ToSet(FlattenSeq(f))
  BY <1>2 DEF recs
<1> HIDE DEF f
<1>4. PICK k \in DOMAIN recs : m \in ToSet(Given(recs[k]))
  BY <1>2, <1>3, FlattenMember
<1>5. recs[k] \in Records
  BY <1>1
<1>6. m \in ToSet(recs[k].msgs) /\ recs[k].msgs # <<>>
  <2>1. ToSet(<<>>) = {}
    BY DEF ToSet
  <2>2. QED
    BY <1>4, <2>1 DEF Given
<1>7. IsData(recs[k]) /\ m.ch = recs[k].ch
  BY <1>5, <1>6, RecordFields
<1>8. DefinedAt(recs, k)
  BY <1>1, <1>7
<1>9. PICK d \in 1..(k - 1) : recs[d].op = "ChannelDef" /\ recs[d].ch = recs[k].ch
  BY <1>8 DEF DefinedAt
<1>10. d \in DOMAIN recs
  BY <1>1, <1>9
<1>11. m.ch \in DefsIn(recs)
  BY <1>7, <1>9, <1>10 DEF DefsIn
<1>12. QED
  BY <1>11 DEF recs

DefsKnown == \A s \in DOMAIN Segs : DefsIn(RecsOf(Segs[s])) \subseteq Channels

LEMMA DefsInit == Init => DefsKnown
<1>1. Init => Segs = <<>>
  BY DEF Init
<1>2. QED
  BY <1>1 DEF DefsKnown

LEMMA DefsNext == DiskInv /\ PlaceInv /\ DefsKnown /\ [Next]_vars => DefsKnown'
<1>1. SUFFICES ASSUME DiskInv, PlaceInv, DefsKnown, [Next]_vars PROVE DefsKnown'
  OBVIOUS
<1>2. CASE Open
  <2> DEFINE files == {disk.files[Listed[k].file] : k \in DOMAIN Listed}
             known == IF disk.single THEN {} ELSE disk.manifest.chans
  <2>1. /\ Channels' = known \cup UNION {DefsIn(f.recs) : f \in files} /\ disk' = disk
        /\ Segs' = [k \in DOMAIN Listed |-> Scanned(Listed[k])]
    BY <1>2 DEF Open, ChannelsAfterScan
  <2>2. ASSUME NEW s \in DOMAIN Segs' PROVE DefsIn(RecsOf(Segs[s]))' \subseteq Channels'
    <3>1. s \in DOMAIN Listed /\ Segs'[s].file = Listed[s].file
      BY <2>1, <2>2 DEF Scanned
    <3>2. RecsOf(Segs[s])' = disk.files[Listed[s].file].recs
      BY <2>1, <3>1 DEF RecsOf
    <3>3. disk.files[Listed[s].file] \in files
      BY <3>1
    <3>4. DefsIn(disk.files[Listed[s].file].recs) \subseteq Channels'
      BY <2>1, <3>3
    <3>5. DefsIn(RecsOf(Segs[s]))' = DefsIn(RecsOf(Segs[s])')
      BY DEF DefsIn
    <3>6. QED
      BY <3>2, <3>4, <3>5
  <2>3. QED
    BY <2>2 DEF DefsKnown
<1>3. CASE Close
  <2>1. Segs' = <<>>
    BY <1>3 DEF Close
  <2>2. QED
    BY <2>1 DEF DefsKnown
<1>4. CASE UNCHANGED <<disk, session>>
  BY <1>1, <1>4 DEF DefsKnown, DefsIn, RecsOf, session
<1>5. QED
  BY <1>1, <1>2, <1>3, <1>4, StepKinds DEF Reopens, Calls, Reads, vars

LEMMA MessagesKnown == DiskInv /\ DefsKnown => \A m \in ToSet(AllMessages) : m.ch \in Channels
<1>1. SUFFICES ASSUME DiskInv, DefsKnown, NEW m \in ToSet(AllMessages) PROVE m.ch \in Channels
  OBVIOUS
<1>2. ASSUME NEW s \in DOMAIN Segs, m \in ToSet(MessagesOf(RecsOf(Segs[s])))
      PROVE  m.ch \in Channels
  BY <1>1, <1>2, DefinedInSegment DEF DefsKnown
<1>3. Len(Segs) \in Nat /\ DOMAIN Segs = 1..Len(Segs)
  BY <1>1 DEF DiskInv
<1>4. Len(Segs) # 0
  <2>1. SUFFICES ASSUME Len(Segs) = 0 PROVE FALSE
    OBVIOUS
  <2>2. AllMessages = <<>>
    BY <2>1 DEF AllMessages, MessagesFrom
  <2>3. QED
    BY <1>1, <2>2 DEF ToSet
<1>5. 1 \in DOMAIN Segs
  BY <1>3, <1>4
<1> DEFINE a == MessagesOf(RecsOf(Segs[1]))
           n == Len(Segs) - 1
           f == [i \in 1..n |-> MessagesOf(RecsOf(Segs[1 + i]))]
<1>6. a \in Seq(AnyMessage) /\ f \in Seq(Seq(AnyMessage)) /\ AfterSegment(1) = FlattenSeq(f)
      /\ FlattenSeq(f) \in Seq(AnyMessage)
  BY <1>1, <1>5, OpenFiles, GivenType, AfterSegmentType DEF AfterSegment
<1>7. AllMessages = a \o FlattenSeq(f)
  <2>1. From(RecsOf(Segs[1]), 1) = RecsOf(Segs[1])
    BY <1>1, <1>5, OpenFiles, MessagesEnd
  <2>2. StartOK
    BY <1>1, StartAlways
  <2>3. MessagesFrom(1, 1) = MessagesOf(From(RecsOf(Segs[1]), 1)) \o AfterSegment(1)
    BY <1>1, <1>5, <2>2, PlaceType DEF StartOK, FirstOffset
  <2>4. QED
    BY <1>6, <2>1, <2>3 DEF AllMessages, FirstOffset
<1>8. \A i \in DOMAIN f : 1 + i \in DOMAIN Segs /\ f[i] = MessagesOf(RecsOf(Segs[1 + i]))
  BY <1>3
<1> HIDE DEF a, f, n
<1>9. m \in ToSet(a) \/ m \in ToSet(FlattenSeq(f))
  BY <1>1, <1>6, <1>7, ConcatSet
<1>10. CASE m \in ToSet(a)
  BY <1>2, <1>5, <1>10 DEF a
<1>11. CASE m \in ToSet(FlattenSeq(f))
  <2>1. PICK i \in DOMAIN f : m \in ToSet(f[i])
    BY <1>6, <1>11, FlattenMember
  <2>2. QED
    BY <1>2, <1>8, <2>1
<1>12. QED
  BY <1>9, <1>10, <1>11

\* Every message a reader gives is of a channel it knows, whatever the manifest
\* lists: the segments' own definitions are taken in as well
\* (ScanSegmentAtOpen, reader.cpp:188-215).
THEOREM ChannelsAlwaysKnown == Spec => []ChannelsKnown
<1>1. DiskInv /\ GaveInv /\ DefsKnown => ChannelsKnown
  <2>1. SUFFICES ASSUME DiskInv, GaveInv, DefsKnown, NEW k \in DOMAIN out PROVE out[k].ch \in Channels
    BY DEF ChannelsKnown
  <2>2. out[k] \in ToSet(AllMessages)
    BY <2>1 DEF GaveInv, ToSet
  <2>3. QED
    BY <2>1, <2>2, MessagesKnown
<1>2. Spec => [](DiskInv /\ StartOK /\ PlaceInv /\ PositionOK /\ GaveInv)
  BY GaveAlways
<1>3. Spec => []DefsKnown
  BY <1>2, DefsInit, DefsNext, PTL DEF Spec
<1>4. QED
  BY <1>1, <1>2, <1>3, PTL

(***************************************************************************)
(* The records of a session in order of time.                              *)
(***************************************************************************)
EndOf(r) == r.msgs[Len(r.msgs)].ts

LEMMA RecordTimes ==
  ASSUME DiskInv, InOrder, NEW s \in DOMAIN Segs, NEW j \in DOMAIN RecsOf(Segs[s]),
         NEW r, r = RecsOf(Segs[s])[j], IsData(r)
  PROVE  /\ r \in Records /\ r.ts \in Nat /\ EndOf(r) \in Nat /\ r.ts <= EndOf(r)
         /\ r.op = "Data" => EndOf(r) = r.ts
         /\ \A m \in ToSet(r.msgs) : m \in AnyMessage /\ m.ts \in Nat /\ r.ts <= m.ts /\ m.ts <= EndOf(r)
<1>1. r \in Records
  BY OpenFiles
<1>2. /\ r.msgs \in Seq(AnyMessage) /\ r.msgs # <<>> /\ r.ts = r.msgs[1].ts
      /\ r.op = "Data" => Len(r.msgs) = 1
  <2>1. r.op = "Data" => Len(r.msgs) = 1 /\ r.msgs # <<>>
    BY <1>1, RecordFields
  <2>2. QED
    BY <1>1, <2>1, RecordFields DEF IsData
<1> DEFINE msgs == r.msgs
           n == Len(msgs)
<1>3. InTimeOrder(msgs)
  BY DEF InOrder
<1> HIDE DEF msgs
<1>4. n \in Nat /\ n >= 1 /\ DOMAIN msgs = 1..n /\ \A a \in 1..n : msgs[a] \in AnyMessage
  BY <1>2 DEF msgs
<1> HIDE DEF n
<1>5. \A a \in 1..n : msgs[a].ts \in Nat
  BY <1>4 DEF AnyMessage
<1>6. \A a \in 1..n : msgs[1].ts <= msgs[a].ts /\ msgs[a].ts <= msgs[n].ts
  <2> TAKE a \in 1..n
  <2>1. 1 \in 1..n /\ n \in 1..n /\ (a = 1 \/ 1 < a) /\ (a = n \/ a < n)
    BY <1>4
  <2>2. 1 < a => msgs[1].ts <= msgs[a].ts
    BY <1>3, <1>4, <2>1 DEF InTimeOrder
  <2>3. a < n => msgs[a].ts <= msgs[n].ts
    BY <1>3, <1>4, <2>1 DEF InTimeOrder
  <2>4. msgs[a].ts \in Nat /\ msgs[1].ts \in Nat /\ msgs[n].ts \in Nat
    BY <1>5, <2>1
  <2>5. QED
    BY <2>1, <2>2, <2>3, <2>4
<1>7. EndOf(r) = msgs[n].ts /\ r.ts = msgs[1].ts /\ (r.op = "Data" => n = 1)
  BY <1>2 DEF EndOf, msgs, n
<1>8. 1 \in 1..n /\ n \in 1..n
  BY <1>4
<1>9. \A m \in ToSet(msgs) : \E a \in 1..n : m = msgs[a]
  BY <1>4 DEF ToSet
<1>10. QED
  BY <1>1, <1>4, <1>5, <1>6, <1>7, <1>8, <1>9 DEF msgs

LEMMA OrderOf ==
  ASSUME DiskInv, InOrder, NEW s \in DOMAIN Segs, NEW u \in DOMAIN Segs,
         NEW j \in DOMAIN RecsOf(Segs[s]), NEW k \in DOMAIN RecsOf(Segs[u]), Precedes(s, j, u, k),
         NEW r, r = RecsOf(Segs[s])[j], NEW q, q = RecsOf(Segs[u])[k]
  PROVE  /\ r.ts \in Nat /\ EndOf(r) \in Nat /\ q.ts \in Nat /\ r.ts <= EndOf(r)
         /\ EndOf(r) <= q.ts
         /\ EndOf(r) < q.ts \/ (EndOf(r) = q.ts /\ r.op = "Data" /\ s = u)
<1>1. IsData(r) /\ IsData(q)
  BY DEF Precedes
<1>2. r.ts \in Nat /\ EndOf(r) \in Nat /\ r.ts <= EndOf(r)
  BY <1>1, RecordTimes
<1>3. q.ts \in Nat
  BY <1>1, RecordTimes
<1>4. EndOf(r) < q.ts \/ (EndOf(r) = q.ts /\ r.op = "Data" /\ s = u)
  BY DEF InOrder, EndOf
<1>5. QED
  BY <1>2, <1>3, <1>4

(***************************************************************************)
(* The points of an open segment.                                          *)
(***************************************************************************)
LEMMA IndexServes ==
  ASSUME DiskInv, NEW s \in DOMAIN Segs, Segs[s].points # <<>>,
         NEW recs, recs = RecsOf(Segs[s])
  PROVE  recs \in Seq(Records) /\ PointsServe(recs, Len(recs), Segs[s].points)
<1>1. PICK e \in Entries : Segs[s] = Scanned(e)
  BY DEF DiskInv
<1>2. Segs[s].file = e.file /\ Segs[s].points = disk.files[e.file].points
  BY <1>1 DEF Scanned
<1>3. disk.files[e.file].points \in {<<>>, PointsOfRecords(disk.files[e.file].recs)}
  BY IndexAssumption DEF DiskInv, Entries
<1>4. recs = disk.files[e.file].recs
  BY <1>2 DEF RecsOf
<1>5. recs \in Seq(Records)
  BY OpenFiles
<1>6. PointsServe(recs, Len(recs), PointsOfRecords(recs))
  BY <1>5, ScanServes
<1>7. QED
  BY <1>2, <1>3, <1>4, <1>5, <1>6

LEMMA FindsSome ==
  ASSUME NEW points \in Seq(Point), NEW t \in Nat, NEW p \in DOMAIN points, points[p].ts <= t
  PROVE  Find(points, points[p].ch, t) # {}
<1> DEFINE ch == points[p].ch
           U == PointsUpTo(points, ch, t)
           D == {t - points[k].ts : k \in U}
<1>1. \A k \in U : k \in DOMAIN points /\ points[k].ts \in Nat /\ points[k].ts <= t
  <2>1. \A k \in DOMAIN points : points[k] \in Point
    OBVIOUS
  <2>2. \A k \in DOMAIN points : points[k].ts \in Nat
    BY <2>1 DEF Point
  <2>3. \A k \in U : k \in DOMAIN points /\ points[k].ts <= t
    BY DEF PointsUpTo, PointsOf
  <2>4. QED
    BY <2>2, <2>3
<1>2. p \in U
  BY DEF PointsUpTo, PointsOf
<1> HIDE DEF U
<1>3. PICK m \in D : \A d \in D : m <= d
  <2>1. D \in SUBSET Nat /\ D # {}
    BY <1>1, <1>2
  <2> HIDE DEF D
  <2>2. QED
    BY <2>1, Smallest
<1>4. PICK k \in U : m = t - points[k].ts
  BY <1>3
<1>5. \A j \in U : points[j].ts <= points[k].ts
  <2> TAKE j \in U
  <2>1. t - points[k].ts <= t - points[j].ts
    BY <1>3, <1>4
  <2>2. QED
    BY <1>1, <2>1
<1>6. points[k].off \in Find(points, ch, t)
  BY <1>4, <1>5 DEF Find, U
<1>7. QED
  BY <1>6

\* A point is that of the first record of its channel at its time.
LEMMA PointIsFirst ==
  ASSUME DiskInv, SeeksFind, NEW s \in DOMAIN Segs, Segs[s].points # <<>>,
         NEW recs, recs = RecsOf(Segs[s]), NEW points, points = Segs[s].points,
         NEW j \in DOMAIN recs, NEW q \in DOMAIN points,
         IsData(recs[j]), recs[j].ch = points[q].ch, j < points[q].off
  PROVE  recs[j].ts # points[q].ts
<1>1. SUFFICES ASSUME recs[j].ts = points[q].ts PROVE FALSE
  OBVIOUS
<1> DEFINE n == Len(recs)
           t == points[q].ts
           ch == points[q].ch
           I == IndexIntervalNs
<1>2. /\ recs \in Seq(Records) /\ points \in Seq(Point) /\ PointsLead(recs, n, points)
      /\ PointsSorted(points) /\ \A r \in 1..n : IsData(recs[r]) => Served(recs, r, points)
      /\ PointsApart(points)
  BY IndexServes DEF PointsServe
<1>3. n \in Nat /\ DOMAIN recs = 1..n
  BY <1>2
<1> HIDE DEF n
<1>4. InOrder /\ I > 0 /\ I \in Nat /\ Word \in Nat \ {0}
  BY IntervalAssumption, WordAssumption DEF SeeksFind
<1> DEFINE o == points[q].off
<1>5. \A p \in DOMAIN points :
        /\ points[p].off \in DOMAIN recs /\ IsData(recs[points[p].off])
        /\ recs[points[p].off].ts = points[p].ts /\ points[p].ts \in Nat /\ points[p].off \in Nat
  <2> TAKE p \in DOMAIN points
  <2>1. points[p] \in Point
    BY <1>2
  <2>2. QED
    BY <1>2, <1>3, <2>1 DEF PointsLead, Point
\* A record from j up to o has the same time.
<1>6. ASSUME NEW p \in DOMAIN points, j <= points[p].off, points[p].off < o
      PROVE  points[p].ts = t
  <2>1. /\ points[p].off \in DOMAIN recs /\ IsData(recs[points[p].off]) /\ IsData(recs[o]) /\ o \in DOMAIN recs
        /\ recs[o].ts = t /\ recs[points[p].off].ts = points[p].ts /\ points[p].ts \in Nat /\ t \in Nat
    BY <1>5
  <2>2. recs[points[p].off].ts <= t
    <3>1. Precedes(s, points[p].off, s, o)
      BY <1>6, <2>1 DEF Precedes
    <3>2. /\ recs[points[p].off].ts \in Nat /\ EndOf(recs[points[p].off]) \in Nat
          /\ recs[o].ts \in Nat /\ recs[points[p].off].ts <= EndOf(recs[points[p].off])
          /\ EndOf(recs[points[p].off]) <= recs[o].ts
      BY <1>4, <2>1, <3>1, OrderOf
    <3>3. QED
      BY <2>1, <3>2
  <2>3. CASE points[p].off = j
    BY <1>1, <2>1, <2>3
  <2>4. CASE j < points[p].off
    <3>1. Precedes(s, j, s, points[p].off)
      BY <2>1, <2>4 DEF Precedes
    <3>2. /\ recs[j].ts \in Nat /\ EndOf(recs[j]) \in Nat
          /\ recs[points[p].off].ts \in Nat /\ recs[j].ts <= EndOf(recs[j])
          /\ EndOf(recs[j]) <= recs[points[p].off].ts
      BY <1>4, <2>1, <3>1, OrderOf
    <3>3. QED
      BY <1>1, <2>1, <2>2, <3>2
  <2>5. points[p].off \in Nat /\ j \in Nat
    BY <1>3, <1>5
  <2>6. QED
    BY <1>6, <2>3, <2>4, <2>5
<1>7. PICK p \in DOMAIN points :
         /\ LastUpTo(points, ch, j, p)
         /\ points[p].off = j \/ (t - points[p].ts) % Word < I
  <2>1. Served(recs, j, points)
    BY <1>2, <1>3
  <2>2. QED
    BY <1>1, <2>1 DEF Served
<1> DEFINE X == {x \in DOMAIN points : points[x].ch = ch /\ points[x].off <= o - 1}
           L == Max(X)
<1>8. L \in X /\ \A x \in X : x <= L
  <2>1. Len(points) \in Nat /\ X \in SUBSET (1..Len(points))
    BY <1>2
  <2>2. p \in X
    <3>1. points[p].off \in Nat /\ o \in Nat /\ j \in Nat /\ j < o /\ points[p].off <= j /\ points[p].ch = ch
      BY <1>3, <1>5, <1>7 DEF LastUpTo
    <3> HIDE DEF o, ch
    <3>2. points[p].off <= o - 1
      BY <3>1
    <3>3. QED
      BY <3>1, <3>2
  <2> HIDE DEF X
  <2>3. QED
    BY <2>1, <2>2, Largest, LargestBounds
<1>9. L \in DOMAIN points /\ points[L].ch = ch /\ points[L].off < o /\ LastUpTo(points, ch, o - 1, L)
  <2>1. L \in DOMAIN points /\ points[L].ch = ch /\ points[L].off <= o - 1
    BY <1>8
  <2>2. o \in Nat /\ points[L].off \in Nat
    BY <1>5, <2>1
  <2>3. LastUpTo(points, ch, o - 1, L)
    BY <1>8, <2>1 DEF LastUpTo
  <2> HIDE DEF o, L
  <2>4. points[L].off < o
    BY <2>1, <2>2
  <2>5. QED
    BY <2>1, <2>3, <2>4
<1> HIDE DEF X, L
<1>10. L < q
  <2>1. CASE q < L
    <3>1. o < points[L].off
      BY <1>2, <1>9, <2>1 DEF PointsSorted
    <3>2. QED
      BY <1>5, <1>9, <3>1
  <2>2. CASE L = q
    BY <1>5, <1>9, <2>2
  <2>3. L \in Nat /\ q \in Nat
    BY <1>2, <1>9
  <2>4. QED
    BY <2>1, <2>2, <2>3
<1>11. (t - points[L].ts) % Word >= I
  BY <1>2, <1>9, <1>10 DEF PointsApart
<1>12. points[L].ts # t
  <2>1. t \in Nat /\ t - t = 0 /\ 0 % Word = 0
    BY <1>4, <1>5
  <2>2. QED
    BY <1>4, <1>11, <2>1
<1>13. points[L].off < j
  BY <1>3, <1>5, <1>6, <1>9, <1>12
<1>14. L = p
  <2>1. points[p].ch = ch /\ points[p].off <= j
    BY <1>7 DEF LastUpTo
  <2>2. L <= p
    <3>1. points[L].off <= j
      BY <1>3, <1>5, <1>9, <1>13
    <3>2. QED
      BY <1>7, <1>9, <3>1 DEF LastUpTo
  <2>3. p <= L
    <3>1. points[p].off <= o - 1
      <4>1. points[p].off \in Nat /\ o \in Nat /\ j \in Nat /\ j < o
        BY <1>3, <1>5
      <4> HIDE DEF o
      <4>2. QED
        BY <2>1, <4>1
    <3>2. QED
      BY <1>9, <2>1, <3>1 DEF LastUpTo
  <2>4. L \in Nat /\ p \in Nat
    BY <1>2, <1>9
  <2>5. QED
    BY <2>2, <2>3, <2>4
<1>15. points[p].off # j
  BY <1>3, <1>5, <1>13, <1>14
<1>16. (t - points[p].ts) % Word \in Int
  BY <1>4, <1>5
<1>17. QED
  BY <1>4, <1>7, <1>11, <1>14, <1>15, <1>16

(***************************************************************************)
(* A seek lands behind earlier messages only.                              *)
(***************************************************************************)
LEMMA SegmentStart ==
  ASSUME DiskInv, InOrder, NEW s \in DOMAIN Segs, NEW recs, recs = RecsOf(Segs[s])
  PROVE  \E q \in DOMAIN recs :
           IsData(recs[q]) /\ recs[q].ts \in Nat /\ (recs[q].ts # 0 => Segs[s].start = recs[q].ts)
<1> DEFINE D == DataTimes(recs)
<1>1. D # {}
  BY DEF InOrder
<1>2. recs \in Seq(Records) /\ \A k \in DOMAIN recs : recs[k] \in Records
  BY OpenFiles
<1>3. \A k \in DOMAIN recs : recs[k].ts \in Nat
  BY <1>2, RecordFields
<1>4. D \in SUBSET Nat
  BY <1>3 DEF DataTimes
<1>5. ScanStart(recs) = Min(D)
  BY <1>1 DEF ScanStart
<1>6. Min(D) \in D
  <2> HIDE DEF D
  <2>1. PICK m \in D : \A d \in D : m <= d
    BY <1>1, <1>4, Smallest
  <2>2. QED
    BY <2>1 DEF Min
<1>7. PICK q \in DOMAIN recs : IsData(recs[q]) /\ Min(D) = recs[q].ts
  BY <1>6 DEF DataTimes
<1> HIDE DEF D
<1>8. ScanStart(recs) # 0 => Segs[s].start = ScanStart(recs)
  <2>1. PICK e \in Entries : Segs[s] = Scanned(e)
    BY DEF DiskInv
  <2>2. Segs[s].file = e.file
    BY <2>1 DEF Scanned
  <2>3. recs = disk.files[e.file].recs
    BY <2>2 DEF RecsOf
  <2>4. QED
    BY <2>1, <2>3 DEF Scanned
<1>9. QED
  BY <1>3, <1>5, <1>7, <1>8

\* In the segments before the one sought.
LEMMA EarlierSegment ==
  ASSUME DiskInv, InOrder, isOpen, NEW t \in Nat, NEW u \in DOMAIN Segs, u < SegmentFor(t),
         NEW j \in DOMAIN RecsOf(Segs[u]), NEW r, r = RecsOf(Segs[u])[j], IsData(r)
  PROVE  EndOf(r) \in Nat /\ EndOf(r) < t
<1> DEFINE s == SegmentFor(t)
           covering == {k \in DOMAIN Segs : Segs[k].start <= t}
<1>1. Len(Segs) \in Nat /\ DOMAIN Segs = 1..Len(Segs)
  BY DEF DiskInv
<1>2. s \in DOMAIN Segs
  BY SeekTarget
<1>3. Segs[s].start <= t
  <2>1. s # 1
    BY <1>1, <1>2
  <2>2. covering # {} /\ s = Max(covering)
    BY <2>1 DEF SegmentFor
  <2>3. covering \in SUBSET (1..Len(Segs))
    BY <1>1
  <2>4. Max(covering) \in covering
    BY <1>1, <2>2, <2>3, Largest
  <2>5. QED
    BY <2>2, <2>4
<1> DEFINE recs == RecsOf(Segs[s])
<1>4. PICK q \in DOMAIN recs :
        IsData(recs[q]) /\ recs[q].ts \in Nat /\ (recs[q].ts # 0 => Segs[s].start = recs[q].ts)
  BY <1>2, SegmentStart
<1>5. Precedes(u, j, s, q)
  BY <1>4 DEF Precedes
<1>6. u # s
  BY <1>1, <1>2
<1>7. /\ r.ts \in Nat /\ EndOf(r) \in Nat /\ recs[q].ts \in Nat
      /\ EndOf(r) < recs[q].ts \/ (EndOf(r) = recs[q].ts /\ u = s)
  BY <1>2, <1>4, <1>5, OrderOf
<1> HIDE DEF recs, s
<1>8. EndOf(r) < recs[q].ts
  BY <1>6, <1>7
<1>9. recs[q].ts # 0
  BY <1>7, <1>8
<1>10. recs[q].ts <= t
  BY <1>3, <1>4, <1>9
<1>11. QED
  BY <1>7, <1>8, <1>10

\* What the offset sought is.
LEMMA SoughtOffset ==
  ASSUME NEW points \in Seq(Point), NEW t \in Nat, NEW off \in SeekOffsets(points, t), off # FirstOffset
  PROVE  /\ \E p \in DOMAIN points : points[p].off = off /\ points[p].ts <= t
         /\ \A p \in DOMAIN points : points[p].ts <= t /\ points[p].ch \in Channels
              => \E q \in DOMAIN points :
                   points[q].ch = points[p].ch /\ points[q].ts <= t /\ off <= points[q].off
<1>1. \A k \in DOMAIN points : points[k].off \in Nat
  <2>1. \A k \in DOMAIN points : points[k] \in Point
    OBVIOUS
  <2>2. QED
    BY <2>1 DEF Point
<1>2. PICK f \in Picks(points, t) :
         off = IF DOMAIN f = {} THEN FirstOffset ELSE Min(Range(f))
  BY DEF SeekOffsets
<1> DEFINE found == {c \in Channels : Find(points, c, t) # {}}
           R == Range(f)
<1>3. /\ f \in [found -> {points[k].off : k \in DOMAIN points}]
      /\ \A c \in found : f[c] \in Find(points, c, t)
  BY <1>2 DEF Picks
<1>4. DOMAIN f = found /\ found # {} /\ off = Min(R)
  BY <1>2, <1>3
<1>5. R = {f[c] : c \in found}
  BY <1>4 DEF Range
<1>6. \A c \in found : \E q \in DOMAIN points :
        points[q].off = f[c] /\ points[q].ch = c /\ points[q].ts <= t
  BY <1>3 DEF Find, PointsUpTo, PointsOf
<1> HIDE DEF found, R
<1>7. off \in R /\ \A x \in R : off <= x
  <2>1. R \in SUBSET Nat /\ R # {}
    BY <1>1, <1>4, <1>5, <1>6
  <2>2. PICK m \in R : \A x \in R : m <= x
    BY <2>1, Smallest
  <2>3. QED
    BY <1>4, <2>2 DEF Min
<1>8. \E p \in DOMAIN points : points[p].off = off /\ points[p].ts <= t
  BY <1>5, <1>6, <1>7
<1>9. ASSUME NEW p \in DOMAIN points, points[p].ts <= t, points[p].ch \in Channels
      PROVE  \E q \in DOMAIN points :
               points[q].ch = points[p].ch /\ points[q].ts <= t /\ off <= points[q].off
  <2>1. points[p].ch \in found
    BY <1>9, FindsSome DEF found
  <2>2. off <= f[points[p].ch]
    BY <1>5, <1>7, <2>1
  <2>3. QED
    BY <1>6, <2>1, <2>2
<1>10. QED
  BY <1>8, <1>9

\* In the segment sought.
LEMMA EarlierRecord ==
  ASSUME DiskInv, DefsKnown, SeeksFind, NEW t \in Nat, NEW s \in DOMAIN Segs,
         NEW off \in SeekOffsets(Segs[s].points, t), NEW recs, recs = RecsOf(Segs[s]),
         NEW j \in DOMAIN recs, j < off, NEW r, r = recs[j], IsData(r)
  PROVE  EndOf(r) \in Nat /\ EndOf(r) < t
<1> DEFINE points == Segs[s].points
           n == Len(recs)
<1>1. recs \in Seq(Records) /\ n \in Nat /\ DOMAIN recs = 1..n /\ InOrder
  BY OpenFiles DEF SeeksFind
<1>2. off # FirstOffset
  BY <1>1 DEF FirstOffset
<1>3. points # <<>>
  <2>1. SUFFICES ASSUME points = <<>> PROVE FALSE
    OBVIOUS
  <2>2. \A c : Find(<<>>, c, t) = {}
    BY DEF Find, PointsUpTo, PointsOf
  <2>3. PICK f \in Picks(points, t) :
           off = IF DOMAIN f = {} THEN FirstOffset ELSE Min(Range(f))
    BY DEF SeekOffsets
  <2>4. DOMAIN f = {}
    BY <2>1, <2>2, <2>3 DEF Picks
  <2>5. QED
    BY <1>2, <2>3, <2>4
<1>4. /\ points \in Seq(Point) /\ PointsLead(recs, n, points)
      /\ \A k \in 1..n : IsData(recs[k]) => Served(recs, k, points)
  BY <1>3, IndexServes DEF PointsServe
<1> HIDE DEF points, n
<1>5. \A p \in DOMAIN points :
        /\ points[p].off \in DOMAIN recs /\ IsData(recs[points[p].off])
        /\ recs[points[p].off].ts = points[p].ts /\ recs[points[p].off].ch = points[p].ch
        /\ points[p].ts \in Nat /\ points[p].off \in Nat
  <2> TAKE p \in DOMAIN points
  <2>1. points[p] \in Point
    BY <1>4
  <2>2. QED
    BY <1>1, <1>4, <2>1 DEF PointsLead, Point
<1>6. /\ \E p \in DOMAIN points : points[p].off = off /\ points[p].ts <= t
      /\ \A p \in DOMAIN points : points[p].ts <= t /\ points[p].ch \in Channels
           => \E q \in DOMAIN points :
                points[q].ch = points[p].ch /\ points[q].ts <= t /\ off <= points[q].off
  BY <1>2, <1>4, SoughtOffset DEF points
<1>7. ASSUME NEW p \in DOMAIN points, j < points[p].off
      PROVE  /\ r.ts \in Nat /\ EndOf(r) \in Nat /\ r.ts <= EndOf(r) /\ EndOf(r) <= points[p].ts
             /\ EndOf(r) = points[p].ts => r.ts = points[p].ts
  <2> DEFINE k == points[p].off
  <2>1. k \in DOMAIN recs /\ IsData(recs[k]) /\ recs[k].ts = points[p].ts
    BY <1>5
  <2>2. Precedes(s, j, s, k)
    BY <1>7, <2>1 DEF Precedes
  <2> HIDE DEF k
  <2>3. /\ r.ts \in Nat /\ EndOf(r) \in Nat /\ recs[k].ts \in Nat /\ r.ts <= EndOf(r)
        /\ EndOf(r) <= recs[k].ts
        /\ EndOf(r) < recs[k].ts \/ (EndOf(r) = recs[k].ts /\ r.op = "Data" /\ s = s)
    BY <1>1, <2>1, <2>2, OrderOf
  <2>4. r.op = "Data" => EndOf(r) = r.ts
    BY <1>1, RecordTimes
  <2>5. QED
    BY <2>1, <2>3, <2>4
<1>8. PICK p \in DOMAIN points : points[p].off = off /\ points[p].ts <= t
  BY <1>6
<1>9. r.ts \in Nat /\ EndOf(r) \in Nat /\ r.ts <= EndOf(r) /\ EndOf(r) <= t
      /\ (EndOf(r) = t => r.ts = t)
  <2>1. points[p].ts \in Nat
    BY <1>5
  <2>2. j < points[p].off
    BY <1>8
  <2>3. QED
    BY <1>7, <1>8, <2>1, <2>2
<1>10. SUFFICES ASSUME r.ts = t, EndOf(r) = t PROVE FALSE
  BY <1>9
<1>11. PICK q \in DOMAIN points : points[q].ch = r.ch /\ points[q].off <= j
  <2>1. Served(recs, j, points)
    BY <1>1, <1>4
  <2>2. QED
    BY <2>1 DEF Served, LastUpTo
<1>12. points[q].ts <= t
  <2>1. CASE points[q].off = j
    BY <1>5, <1>10, <2>1
  <2>2. CASE points[q].off # j
    <3> DEFINE k == points[q].off
    <3>1. k \in DOMAIN recs /\ IsData(recs[k]) /\ recs[k].ts = points[q].ts /\ k \in Nat /\ j \in Nat
      BY <1>1, <1>5
    <3>2. k < j
      BY <1>11, <2>2, <3>1
    <3>3. Precedes(s, k, s, j)
      BY <3>1, <3>2 DEF Precedes
    <3> HIDE DEF k
    <3>4. /\ recs[k].ts \in Nat /\ EndOf(recs[k]) \in Nat /\ recs[k].ts <= EndOf(recs[k])
          /\ EndOf(recs[k]) <= r.ts
      BY <1>1, <3>1, <3>3, OrderOf
    <3>5. QED
      BY <1>9, <1>10, <3>1, <3>4
  <2>3. QED
    BY <2>1, <2>2
<1>13. r.ch \in Channels
  <2>1. IsSegmentFile(disk.files[Segs[s].file])
    BY OpenFiles
  <2>2. DefinedAt(recs, j)
    BY <2>1 DEF IsSegmentFile, SegmentFileShapes, RecsOf
  <2>3. PICK d \in 1..(j - 1) : recs[d].op = "ChannelDef" /\ recs[d].ch = recs[j].ch
    BY <2>2 DEF DefinedAt
  <2>4. d \in DOMAIN recs
    BY <1>1, <2>3
  <2>5. r.ch \in DefsIn(recs)
    BY <2>3, <2>4 DEF DefsIn
  <2>6. QED
    BY <2>5 DEF DefsKnown
<1>14. PICK x \in DOMAIN points : points[x].ch = r.ch /\ points[x].ts <= t /\ off <= points[x].off
  BY <1>6, <1>11, <1>12, <1>13
<1>15. j < points[x].off
  <2>1. points[x].off \in Nat /\ off \in Nat /\ j \in Nat
    BY <1>1, <1>5, <1>8
  <2>2. QED
    BY <1>14, <2>1
<1>16. points[x].ts = t
  <2>1. points[x].ts \in Nat
    BY <1>5
  <2>2. QED
    BY <1>7, <1>10, <1>14, <1>15, <2>1
<1>17. recs[j].ts # points[x].ts
  BY <1>3, <1>14, <1>15, PointIsFirst DEF points
<1>18. QED
  BY <1>10, <1>16, <1>17

Early(t) == {m \in AnyMessage : m.ts < t}

LEMMA SeekLands ==
  ASSUME DiskInv, DefsKnown, SeeksFind, isOpen, NEW t \in Nat,
         NEW off \in SeekOffsets(Segs[SegmentFor(t)].points, t)
  PROVE  /\ AllMessages \in Seq(AnyMessage) /\ MessagesFrom(SegmentFor(t), off) \in Seq(AnyMessage)
         /\ EndsAfter(Early(t), AllMessages, MessagesFrom(SegmentFor(t), off))
<1> DEFINE s == SegmentFor(t)
           B == Early(t)
<1>1. s \in DOMAIN Segs /\ Place(s, off)
  BY SeekTarget
<1>2. InOrder /\ B \in SUBSET AnyMessage
  BY DEF SeeksFind, Early
<1>3. ASSUME NEW u, NEW j, Before(u, j, s, off)
      PROVE  Given(RecsOf(Segs[u])[j]) \in Seq(B)
  <2> DEFINE r == RecsOf(Segs[u])[j]
  <2>1. u \in DOMAIN Segs /\ j \in DOMAIN RecsOf(Segs[u]) /\ (u < s \/ (u = s /\ j < off))
    BY <1>3 DEF Before
  <2>2. r \in Records
    BY <2>1, OpenFiles
  <2>3. CASE ~IsData(r)
    <3>1. Given(r) = <<>>
      BY <2>2, <2>3, RecordFields DEF Given
    <3>2. <<>> \in Seq(B)
      OBVIOUS
    <3>3. QED
      BY <3>1, <3>2
  <2>4. CASE IsData(r)
    <3>1. EndOf(r) \in Nat /\ EndOf(r) < t
      <4>1. CASE u < s
        BY <1>2, <2>1, <2>4, <4>1, EarlierSegment
      <4>2. CASE u = s /\ j < off
        BY <1>1, <2>1, <2>4, <4>2, EarlierRecord
      <4>3. QED
        BY <2>1, <4>1, <4>2
    <3>2. \A m \in ToSet(r.msgs) : m \in AnyMessage /\ m.ts \in Nat /\ m.ts <= EndOf(r)
      BY <1>2, <2>1, <2>4, RecordTimes
    <3>3. \A m \in ToSet(r.msgs) : m \in B
      BY <3>1, <3>2 DEF Early
    <3>4. r.msgs \in Seq(AnyMessage)
      BY <2>2, RecordFields
    <3> DEFINE msgs == r.msgs
    <3> HIDE DEF r, B
    <3>5. \A i \in 1..Len(msgs) : msgs[i] \in B
      BY <3>3, <3>4 DEF ToSet
    <3> HIDE DEF msgs
    <3>6. msgs \in Seq(B)
      BY <3>4, <3>5 DEF msgs
    <3>7. <<>> \in Seq(B)
      OBVIOUS
    <3>8. QED
      BY <3>6, <3>7 DEF Given, msgs, r
  <2>5. QED
    BY <2>3, <2>4
<1>4. QED
  BY <1>1, <1>2, <1>3, EndOfPlace

(***************************************************************************)
(* In a session in order of time the messages are in order of time.        *)
(***************************************************************************)
LEMMA OrderConcat ==
  ASSUME NEW a \in Seq(AnyMessage), NEW b \in Seq(AnyMessage), InTimeOrder(a), InTimeOrder(b),
         \A m \in ToSet(a), x \in ToSet(b) : m.ts <= x.ts
  PROVE  InTimeOrder(a \o b)
<1> DEFINE c == a \o b
           la == Len(a)
           lb == Len(b)
<1>1. /\ la \in Nat /\ lb \in Nat /\ DOMAIN a = 1..la /\ DOMAIN b = 1..lb /\ DOMAIN c = 1..(la + lb)
      /\ \A i \in 1..(la + lb) : c[i] = IF i <= la THEN a[i] ELSE b[i - la]
  BY ConcatProperties
<1> HIDE DEF c, la, lb
<1>2. SUFFICES ASSUME NEW i \in 1..(la + lb), NEW j \in 1..(la + lb), i < j PROVE c[i].ts <= c[j].ts
  BY <1>1 DEF InTimeOrder, c
<1>3. CASE j <= la
  <2>1. i \in DOMAIN a /\ j \in DOMAIN a /\ c[i] = a[i] /\ c[j] = a[j]
    BY <1>1, <1>2, <1>3
  <2>2. QED
    BY <1>2, <2>1 DEF InTimeOrder
<1>4. CASE la < i
  <2> DEFINE x == i - la
             y == j - la
  <2>1. x \in DOMAIN b /\ y \in DOMAIN b /\ x < y /\ c[i] = b[x] /\ c[j] = b[y]
    BY <1>1, <1>2, <1>4
  <2> HIDE DEF x, y
  <2>2. QED
    BY <2>1 DEF InTimeOrder
<1>5. CASE i <= la /\ la < j
  <2> DEFINE y == j - la
  <2>1. i \in DOMAIN a /\ y \in DOMAIN b /\ c[i] = a[i] /\ c[j] = b[y]
    BY <1>1, <1>2, <1>5
  <2>2. a[i] \in ToSet(a) /\ b[y] \in ToSet(b)
    BY <2>1 DEF ToSet
  <2> HIDE DEF y
  <2>3. QED
    BY <2>1, <2>2
<1>6. QED
  BY <1>1, <1>2, <1>3, <1>4, <1>5

\* m is of a record that is not before the place.
OfRecord(m, u, j) ==
  u \in DOMAIN Segs /\ j \in DOMAIN RecsOf(Segs[u]) /\ m \in ToSet(Given(RecsOf(Segs[u])[j]))

Sorted(s, k) ==
  /\ InTimeOrder(MessagesFrom(s, k))
  /\ \A m \in ToSet(MessagesFrom(s, k)) : \E u, j : OfRecord(m, u, j) /\ ~Before(u, j, s, k)

\* A message and its record.
LEMMA GivenTimes ==
  ASSUME DiskInv, InOrder, NEW m, NEW u, NEW j, OfRecord(m, u, j), NEW r, r = RecsOf(Segs[u])[j]
  PROVE  /\ IsData(r) /\ m \in AnyMessage /\ m.ts \in Nat /\ r.ts \in Nat /\ EndOf(r) \in Nat
         /\ r.ts <= m.ts /\ m.ts <= EndOf(r)
<1>1. u \in DOMAIN Segs /\ j \in DOMAIN RecsOf(Segs[u]) /\ m \in ToSet(Given(r))
  BY DEF OfRecord
<1>2. r \in Records
  BY <1>1, OpenFiles
<1>3. ToSet(<<>>) = {}
  BY DEF ToSet
<1>4. m \in ToSet(r.msgs) /\ r.msgs # <<>>
  BY <1>1, <1>3 DEF Given
<1>5. IsData(r)
  BY <1>2, <1>4, RecordFields
<1>6. QED
  BY <1>1, <1>4, <1>5, RecordTimes

LEMMA SortedStep ==
  ASSUME DiskInv, InOrder, NEW s \in DOMAIN Segs, NEW k \in DOMAIN RecsOf(Segs[s]), Sorted(s, k + 1)
  PROVE  Sorted(s, k)
<1> DEFINE r == RecsOf(Segs[s])[k]
           a == Given(r)
           b == MessagesFrom(s, k + 1)
<1>1. /\ Place(s, k + 1) /\ r \in Records /\ MessagesFrom(s, k) = a \o b
  BY NextRecord
<1>2. a \in Seq(AnyMessage) /\ b \in Seq(AnyMessage)
  <2>1. b \in Seq(AnyMessage)
    BY <1>1, PlaceType
  <2>2. r.msgs \in Seq(AnyMessage) /\ <<>> \in Seq(AnyMessage)
    BY <1>1, RecordFields
  <2>3. QED
    BY <2>1, <2>2 DEF Given
<1>3. k \in Nat /\ s \in Nat
  <2>1. RecsOf(Segs[s]) \in Seq(Records)
    BY OpenFiles
  <2>2. QED
    BY <2>1 DEF DiskInv
<1>4. InTimeOrder(a)
  <2>1. InTimeOrder(r.msgs)
    BY DEF InOrder
  <2>2. InTimeOrder(<<>>)
    BY DEF InTimeOrder
  <2>3. QED
    BY <2>1, <2>2 DEF Given
<1>5. InTimeOrder(b)
  BY DEF Sorted
<1>6. \A m \in ToSet(a) : OfRecord(m, s, k)
  BY DEF OfRecord
<1>7. ASSUME NEW u, NEW j, u \in DOMAIN Segs, j \in DOMAIN RecsOf(Segs[u]), ~Before(u, j, s, k + 1)
      PROVE  ~Before(u, j, s, k) /\ (s < u \/ (s = u /\ k < j))
  <2>1. u \in Nat /\ j \in Nat
    <3>1. RecsOf(Segs[u]) \in Seq(Records)
      BY <1>7, OpenFiles
    <3>2. QED
      BY <1>7, <3>1 DEF DiskInv
  <2>2. QED
    BY <1>3, <1>7, <2>1 DEF Before
<1>8. ~Before(s, k, s, k)
  BY <1>3 DEF Before
<1>9. \A x \in ToSet(b) : \E u, j : OfRecord(x, u, j) /\ ~Before(u, j, s, k + 1)
  BY DEF Sorted
<1>10. ASSUME NEW m \in ToSet(a), NEW x \in ToSet(b) PROVE m.ts <= x.ts
  <2>1. PICK u, j : OfRecord(x, u, j) /\ ~Before(u, j, s, k + 1)
    BY <1>9
  <2>2. u \in DOMAIN Segs /\ j \in DOMAIN RecsOf(Segs[u])
    BY <2>1 DEF OfRecord
  <2> DEFINE q == RecsOf(Segs[u])[j]
  <2>3. IsData(q) /\ x.ts \in Nat /\ q.ts \in Nat /\ q.ts <= x.ts
    BY <2>1, GivenTimes
  <2>4. IsData(r) /\ m.ts \in Nat /\ EndOf(r) \in Nat /\ m.ts <= EndOf(r)
    BY <1>6, GivenTimes
  <2>5. Precedes(s, k, u, j)
    BY <1>7, <2>1, <2>2, <2>3, <2>4 DEF Precedes
  <2>6. EndOf(r) <= q.ts
    BY <2>2, <2>5, OrderOf
  <2> HIDE DEF q, r
  <2>7. QED
    BY <2>3, <2>4, <2>6
<1> HIDE DEF a, b, r
<1>11. InTimeOrder(a \o b)
  BY <1>2, <1>4, <1>5, <1>10, OrderConcat
<1>12. ASSUME NEW m \in ToSet(a \o b) PROVE \E u, j : OfRecord(m, u, j) /\ ~Before(u, j, s, k)
  <2>1. CASE m \in ToSet(a)
    BY <1>6, <1>8, <2>1
  <2>2. CASE m \in ToSet(b)
    <3>1. PICK u, j : OfRecord(m, u, j) /\ ~Before(u, j, s, k + 1)
      BY <1>9, <2>2
    <3>2. u \in DOMAIN Segs /\ j \in DOMAIN RecsOf(Segs[u])
      BY <3>1 DEF OfRecord
    <3>3. QED
      BY <1>7, <3>1, <3>2
  <2>3. QED
    BY <1>2, <2>1, <2>2, ConcatSet
<1>13. QED
  BY <1>1, <1>11, <1>12 DEF Sorted

LEMMA SortedSegment ==
  ASSUME DiskInv, InOrder, NEW s \in DOMAIN Segs, Sorted(s + 1, FirstOffset)
  PROVE  Sorted(s, FirstOffset)
<1> DEFINE n == Len(RecsOf(Segs[s]))
<1>1. n \in Nat /\ DOMAIN RecsOf(Segs[s]) = 1..n /\ s \in Nat
  BY OpenFiles DEF DiskInv
<1>2. Sorted(s, n + 1)
  <2>1. MessagesFrom(s, n + 1) = MessagesFrom(s + 1, FirstOffset)
    BY NextSegmentKeeps
  <2>2. ASSUME NEW m, NEW u, NEW j, OfRecord(m, u, j), ~Before(u, j, s + 1, FirstOffset)
        PROVE  ~Before(u, j, s, n + 1)
    <3>1. u \in Nat /\ u \in DOMAIN Segs /\ j \in DOMAIN RecsOf(Segs[u])
      BY <2>2 DEF OfRecord, DiskInv
    <3>2. ~ (u < s + 1)
      BY <2>2, <3>1 DEF Before
    <3>3. ~ (u < s) /\ u # s
      BY <1>1, <3>1, <3>2
    <3>4. QED
      BY <3>3 DEF Before
  <2> HIDE DEF n
  <2>3. QED
    BY <2>1, <2>2 DEF Sorted
<1> DEFINE T == {d \in 0..n : ~Sorted(s, (n + 1) - d)}
<1> HIDE DEF n
<1>3. SUFFICES ASSUME T # {} PROVE FALSE
  <2>1. n \in 0..n /\ (n + 1) - n = 1
    BY <1>1
  <2>2. QED
    BY <2>1 DEF FirstOffset
<1>4. PICK d \in T : \A e \in T : d <= e
  <2>1. T \in SUBSET Nat
    BY <1>1
  <2>2. QED
    BY <1>3, <2>1, Smallest
<1>5. d \in 0..n /\ ~Sorted(s, (n + 1) - d)
  BY <1>4
<1>6. d # 0
  <2>1. (n + 1) - 0 = n + 1
    BY <1>1
  <2>2. QED
    BY <1>2, <1>5, <2>1
<1>7. d - 1 \in 0..n /\ ~ (d <= d - 1) /\ (n + 1) - (d - 1) = ((n + 1) - d) + 1 /\ (n + 1) - d \in 1..n
  BY <1>1, <1>5, <1>6
<1>8. Sorted(s, (n + 1) - (d - 1))
  BY <1>4, <1>7
<1>9. QED
  BY <1>1, <1>5, <1>7, <1>8, SortedStep

LEMMA AllInOrder ==
  ASSUME DiskInv, InOrder
  PROVE  InTimeOrder(AllMessages)
<1> DEFINE n == Len(Segs)
           T == {d \in 0..n : ~Sorted((n + 1) - d, FirstOffset)}
<1>1. n \in Nat /\ DOMAIN Segs = 1..n
  BY DEF DiskInv
<1>2. Sorted(n + 1, FirstOffset)
  <2>1. n + 1 > Len(Segs)
    BY <1>1
  <2>2. MessagesFrom(n + 1, FirstOffset) = <<>>
    BY <2>1 DEF MessagesFrom
  <2>3. InTimeOrder(<<>>) /\ ToSet(<<>>) = {}
    BY DEF InTimeOrder, ToSet
  <2>4. QED
    BY <2>2, <2>3 DEF Sorted
<1> HIDE DEF n
<1>3. SUFFICES ASSUME T # {} PROVE FALSE
  <2>1. n \in 0..n /\ (n + 1) - n = 1
    BY <1>1
  <2>2. Sorted(1, FirstOffset)
    BY <1>3, <2>1
  <2>3. QED
    BY <2>2 DEF Sorted, AllMessages
<1>4. PICK d \in T : \A e \in T : d <= e
  <2>1. T \in SUBSET Nat
    BY <1>1
  <2>2. QED
    BY <1>3, <2>1, Smallest
<1>5. d \in 0..n /\ ~Sorted((n + 1) - d, FirstOffset)
  BY <1>4
<1>6. d # 0
  <2>1. (n + 1) - 0 = n + 1
    BY <1>1
  <2>2. QED
    BY <1>2, <1>5, <2>1
<1>7. d - 1 \in 0..n /\ ~ (d <= d - 1) /\ (n + 1) - (d - 1) = ((n + 1) - d) + 1 /\ (n + 1) - d \in 1..n
  BY <1>1, <1>5, <1>6
<1>8. Sorted((n + 1) - (d - 1), FirstOffset)
  BY <1>4, <1>7
<1>9. QED
  BY <1>1, <1>5, <1>7, <1>8, SortedSegment

(***************************************************************************)
(* What a call gives.                                                      *)
(***************************************************************************)
CallOps == {"None", "Open", "Close", "Seek", "ReadNext", "Read"}
CallTypes == [op: CallOps, start: Nat, end: Nat, filter: Filters \cup {{}},
              from: Seq(AnyMessage), stopped: BOOLEAN]

\* The messages a call asks for, and of which.
WantedBy(c) ==
  {m \in AnyMessage : /\ ~ (c.start > 0 /\ m.ts < c.start)
                      /\ ~ (c.filter # {} /\ m.ch \notin c.filter)
                      /\ c.end > 0 => m.ts <= c.end}
WholeOf(c, all) == IF c.start > 0 THEN all ELSE c.from

\* What g has of them when rest is left.
ReadOK(c, p, s, g, all, rest) ==
  /\ p = "walk" => Kept(WantedBy(c), WholeOf(c, all)) = g \o Kept(WantedBy(c), rest)
  /\ p = "ready" /\ s = "Ok" /\ ~c.stopped => g = Kept(WantedBy(c), WholeOf(c, all))

CallInv ==
  /\ call \in CallTypes
  /\ pc = "walk" => call.op \in {"ReadNext", "Read"} /\ ~call.stopped

SoughtInv ==
  call.op = "Seek" /\ st = "Ok" /\ SeeksFind => Later(call.start) \subseteq ToSet(Remaining)

ReadInv ==
  call.op = "Read" /\ (IF call.start > 0 THEN SeeksFind ELSE InOrder)
    => ReadOK(call, pc, st, got, AllMessages, Remaining)

AnswerInv == CallInv /\ SoughtInv /\ ReadInv

LEMMA SameOrder ==
  ASSUME UNCHANGED <<disk, Segs>>
  PROVE  (InOrder' <=> InOrder) /\ (SeeksFind' <=> SeeksFind)
BY DEF InOrder, SeeksFind, Precedes, RecsOf, DataTimes

LEMMA SelectedIsKept ==
  ASSUME NEW s \in Seq(AnyMessage)
  PROVE  Selected(s) = Kept(WantedBy(call), s)
<1>1. \A k \in DOMAIN s : s[k] \in AnyMessage
  OBVIOUS
<1>2. \A m \in AnyMessage : Asked(m) <=> m \in WantedBy(call)
  BY DEF Asked, BeforeStart, FilteredOut, WantedBy
<1>3. [k \in DOMAIN s |-> IF Asked(s[k]) THEN <<s[k]>> ELSE <<>>] = Picked(WantedBy(call), s)
  BY <1>1, <1>2 DEF Picked
<1>4. QED
  BY <1>3 DEF Selected, Kept

\* A part that has nothing asked for does not count.
LEMMA KeptRest ==
  ASSUME NEW W, NEW all \in Seq(AnyMessage), NEW rest \in Seq(AnyMessage), NEW B \in SUBSET AnyMessage,
         EndsAfter(B, all, rest), \A m \in B : m \notin W
  PROVE  Kept(W, all) = Kept(W, rest)
<1>1. PICK p \in Seq(B) : all = p \o rest
  BY DEF EndsAfter
<1>2. p \in Seq(AnyMessage) /\ \A m \in ToSet(p) : m \notin W
  BY DEF ToSet
<1>3. Kept(W, p) = <<>>
  BY <1>2, KeptNone
<1>4. Kept(W, p \o rest) = Kept(W, p) \o Kept(W, rest)
  BY <1>2, KeptConcat
<1>5. Kept(W, rest) \in Seq(AnyMessage)
  BY KeptType
<1>6. QED
  BY <1>1, <1>3, <1>4, <1>5, ConcatEmptySeq

LEMMA HeadIsFirst ==
  ASSUME NEW all \in Seq(AnyMessage), NEW r \in Seq(AnyMessage), EndsWith(all, r), InTimeOrder(all),
         NEW m \in AnyMessage, NEW rest \in Seq(AnyMessage), r = <<m>> \o rest, NEW x \in ToSet(r)
  PROVE  x \in AnyMessage /\ m.ts <= x.ts
<1>1. PICK p \in Seq(AnyMessage) : all = p \o r
  BY DEF EndsWith, EndsAfter
<1> DEFINE n == Len(p)
           l == Len(r)
<1>2. /\ n \in Nat /\ l \in Nat /\ DOMAIN r = 1..l /\ DOMAIN all = 1..(n + l)
      /\ \A i \in 1..(n + l) : all[i] = IF i <= n THEN p[i] ELSE r[i - n]
  BY <1>1, ConcatProperties
<1>3. l >= 1 /\ r[1] = m
  <2>1. <<m>> \in Seq(AnyMessage) /\ Len(<<m>>) = 1 /\ <<m>>[1] = m /\ Len(rest) \in Nat
    OBVIOUS
  <2>2. /\ l = Len(<<m>>) + Len(rest)
        /\ \A i \in 1..(Len(<<m>>) + Len(rest)) :
             r[i] = IF i <= Len(<<m>>) THEN <<m>>[i] ELSE rest[i - Len(<<m>>)]
    BY <2>1, ConcatProperties
  <2>3. 1 \in 1..(Len(<<m>>) + Len(rest))
    BY <2>1
  <2>4. QED
    BY <2>1, <2>2, <2>3
<1>4. PICK i \in 1..l : x = r[i]
  BY <1>2 DEF ToSet
<1>5. x \in AnyMessage
  BY <1>2, <1>4
<1> HIDE DEF n, l
<1> DEFINE a == n + 1
           b == n + i
<1>6. a \in 1..(n + l) /\ b \in 1..(n + l) /\ ~ (a <= n) /\ ~ (b <= n) /\ a - n = 1 /\ b - n = i
      /\ (i = 1 \/ a < b)
  BY <1>2, <1>3, <1>4
<1> HIDE DEF a, b
<1>7. all[a] = m /\ all[b] = x
  BY <1>2, <1>3, <1>4, <1>6
<1>8. CASE i = 1
  <2>1. m.ts \in Nat /\ x = m
    BY <1>3, <1>4, <1>8 DEF AnyMessage
  <2>2. QED
    BY <1>5, <2>1
<1>9. CASE a < b
  BY <1>2, <1>5, <1>6, <1>7, <1>9 DEF InTimeOrder
<1>10. QED
  BY <1>6, <1>8, <1>9

\* Where a call that seeks leaves the position.
LEMMA MoveToLands ==
  ASSUME DiskInv, DefsKnown, SeeksFind, isOpen, NEW t \in Nat, MoveTo(t), UNCHANGED <<disk, Segs>>
  PROVE  /\ AllMessages' = AllMessages
         /\ AllMessages \in Seq(AnyMessage) /\ Remaining' \in Seq(AnyMessage)
         /\ EndsAfter(Early(t), AllMessages, Remaining')
<1>1. /\ CurSeg' = SegmentFor(t) /\ CurOffset' \in SeekOffsets(Segs[SegmentFor(t)].points, t)
      /\ chunk' = NoChunk
  BY DEF MoveTo, ChunkAfterSeek
<1>2. /\ AllMessages \in Seq(AnyMessage) /\ MessagesFrom(CurSeg', CurOffset') \in Seq(AnyMessage)
      /\ EndsAfter(Early(t), AllMessages, MessagesFrom(CurSeg', CurOffset'))
  BY <1>1, SeekLands
<1>3. RestNext = MessagesFrom(CurSeg', CurOffset')
  BY <1>1, <1>2, ConcatEmptySeq DEF RestNext, NoChunk
<1>4. AllMessages' = AllMessages /\ Remaining' = RestNext
  BY SameSession
<1>5. QED
  BY <1>2, <1>3, <1>4

\* Seek.
LEMMA SeekAnswers ==
  ASSUME DiskInv, DefsKnown, NEW t \in Targets, Seek(t)
  PROVE  AnswerInv'
<1>1. t \in Nat
  BY TargetsAssumption
<1>2. /\ isOpen /\ MoveTo(t) /\ call' = [NoCall EXCEPT !.op = "Seek", !.start = t]
      /\ pc' = "ready" /\ UNCHANGED <<disk, Segs>>
  BY DEF Seek, Return, session
<1>3. call' \in CallTypes /\ call'.op = "Seek" /\ call'.start = t
  <2>1. call' = [op |-> "Seek", start |-> t, end |-> 0, filter |-> {}, from |-> <<>>, stopped |-> FALSE]
    BY <1>2 DEF NoCall
  <2>2. <<>> \in Seq(AnyMessage)
    OBVIOUS
  <2>3. QED
    BY <1>1, <2>1, <2>2 DEF CallTypes, CallOps
<1>4. CallInv' /\ ReadInv'
  BY <1>2, <1>3 DEF CallInv, ReadInv
<1>5. ASSUME SeeksFind' PROVE Later(t)' \subseteq ToSet(Remaining')
  <2>1. SeeksFind
    BY <1>2, <1>5, SameOrder
  <2>2. /\ AllMessages' = AllMessages
        /\ AllMessages \in Seq(AnyMessage) /\ Remaining' \in Seq(AnyMessage)
        /\ EndsAfter(Early(t), AllMessages, Remaining')
    BY <1>1, <1>2, <2>1, MoveToLands
  <2>3. PICK p \in Seq(Early(t)) : AllMessages = p \o Remaining'
    BY <2>2 DEF EndsAfter
  <2>4. ASSUME NEW m \in ToSet(AllMessages), m.ts >= t PROVE m \in ToSet(Remaining')
    <3>1. p \in Seq(AnyMessage) /\ \A x \in ToSet(p) : x \in AnyMessage /\ x.ts < t
      BY DEF Early, ToSet
    <3>2. m \in ToSet(p) \/ m \in ToSet(Remaining')
      BY <2>2, <2>3, <2>4, <3>1, ConcatSet
    <3>3. m \notin ToSet(p)
      <4>1. SUFFICES ASSUME m \in ToSet(p) PROVE FALSE
        OBVIOUS
      <4>2. m.ts \in Nat /\ m.ts < t
        BY <3>1, <4>1 DEF AnyMessage
      <4>3. QED
        BY <1>1, <2>4, <4>2
    <3>4. QED
      BY <3>2, <3>3
  <2>5. Later(t)' = {m \in ToSet(AllMessages) : m.ts >= t}
    BY <2>2 DEF Later, ToSet
  <2>6. QED
    BY <2>4, <2>5
<1>6. SoughtInv'
  <2>1. Later(call.start)' = Later(t)' /\ ToSet(Remaining)' = ToSet(Remaining')
    BY <1>3 DEF Later, ToSet
  <2>2. QED
    BY <1>5, <2>1 DEF SoughtInv
<1>7. QED
  BY <1>4, <1>6 DEF AnswerInv

\* Read begins.
LEMMA ReadBegins ==
  ASSUME DiskInv, PlaceInv, DefsKnown, NEW start \in Targets, NEW end \in Targets, NEW filter \in Filters,
         Read(start, end, filter)
  PROVE  AnswerInv'
<1>1. start \in Nat /\ end \in Nat
  BY TargetsAssumption
<1>2. /\ isOpen /\ pc' = "walk" /\ got' = <<>> /\ UNCHANGED <<disk, Segs>>
      /\ IF start > 0 THEN MoveTo(start) ELSE UNCHANGED cursor
      /\ call' = [op |-> "Read", start |-> start, end |-> end, filter |-> filter,
                  from |-> Remaining, stopped |-> FALSE]
  BY DEF Read, session
<1>3. AllMessages \in Seq(AnyMessage) /\ Remaining \in Seq(AnyMessage)
  BY RestTypes
<1>4. /\ call' \in CallTypes /\ call'.op = "Read" /\ ~call'.stopped
      /\ call'.start = start /\ call'.from = Remaining
  BY <1>1, <1>2, <1>3 DEF CallTypes, CallOps
<1>5. CallInv' /\ SoughtInv'
  BY <1>4 DEF CallInv, SoughtInv
<1> DEFINE W == WantedBy(call')
<1>6. ASSUME IF start > 0 THEN SeeksFind' ELSE InOrder'
      PROVE  Kept(W, WholeOf(call', AllMessages')) = got' \o Kept(W, Remaining')
  <2>1. CASE start > 0
    <3>1. SeeksFind
      BY <1>2, <1>6, <2>1, SameOrder
    <3>2. /\ AllMessages' = AllMessages
          /\ AllMessages \in Seq(AnyMessage) /\ Remaining' \in Seq(AnyMessage)
          /\ EndsAfter(Early(start), AllMessages, Remaining')
      BY <1>1, <1>2, <2>1, <3>1, MoveToLands
    <3>3. Early(start) \in SUBSET AnyMessage /\ \A m \in Early(start) : m \notin W
      BY <1>4, <2>1 DEF Early, WantedBy
    <3> HIDE DEF W
    <3>4. Kept(W, AllMessages) = Kept(W, Remaining')
      BY <3>2, <3>3, KeptRest
    <3>5. Kept(W, Remaining') \in Seq(AnyMessage)
      BY <3>2, KeptType
    <3>6. WholeOf(call', AllMessages') = AllMessages
      BY <1>4, <2>1, <3>2 DEF WholeOf
    <3>7. <<>> \o Kept(W, Remaining') = Kept(W, Remaining')
      BY <3>5, ConcatEmptySeq
    <3>8. QED
      BY <1>2, <3>4, <3>6, <3>7
  <2>2. CASE ~ (start > 0)
    <3>1. UNCHANGED cursor
      BY <1>2, <2>2
    <3>2. Remaining' = Remaining
      BY <1>2, <3>1, SameSession DEF RestNext, Remaining, cursor
    <3>3. WholeOf(call', AllMessages') = Remaining
      BY <1>4, <2>2 DEF WholeOf
    <3> HIDE DEF W
    <3>4. Kept(W, Remaining) \in Seq(AnyMessage)
      BY <1>3, KeptType
    <3>5. <<>> \o Kept(W, Remaining) = Kept(W, Remaining)
      BY <3>4, ConcatEmptySeq
    <3>6. QED
      BY <1>2, <3>2, <3>3, <3>5
  <2>3. QED
    BY <2>1, <2>2
<1> HIDE DEF W
<1>7. ReadInv'
  BY <1>2, <1>4, <1>6 DEF ReadInv, ReadOK, W
<1>8. QED
  BY <1>5, <1>7 DEF AnswerInv

\* The other calls of a client.
LEMMA OthersAnswer ==
  ASSUME Open \/ OpenFails \/ Close \/ NotOpen \/ NoCallback \/ ReadNext
  PROVE  AnswerInv'
<1>1. <<>> \in Seq(AnyMessage)
  OBVIOUS
<1>2. ASSUME NEW op \in CallOps, call' = [NoCall EXCEPT !.op = op]
      PROVE  call' \in CallTypes /\ call'.op = op /\ ~call'.stopped
  <2>1. call' = [op |-> op, start |-> 0, end |-> 0, filter |-> {}, from |-> <<>>, stopped |-> FALSE]
    BY <1>2 DEF NoCall
  <2>2. call'.op = op /\ ~call'.stopped
    BY <2>1
  <2> DEFINE F == Filters \cup {{}}
             S == Seq(AnyMessage)
             e == <<>>
             none == {}
  <2>3. none \in F /\ e \in S
    BY <1>1
  <2> HIDE DEF F, S, e, none
  <2>4. [op |-> op, start |-> 0, end |-> 0, filter |-> none, from |-> e, stopped |-> FALSE]
          \in [op: CallOps, start: Nat, end: Nat, filter: F, from: S, stopped: BOOLEAN]
    BY <1>2, <2>3
  <2> USE DEF F, S, e, none
  <2>5. call' \in CallTypes
    BY <2>1, <2>4, Zenon DEF CallTypes
  <2>6. QED
    BY <2>2, <2>5
<1>3. ASSUME Open \/ Close PROVE AnswerInv'
  <2>1. PICK op \in {"Open", "Close"} : call' = [NoCall EXCEPT !.op = op] /\ pc' = "ready"
    BY <1>3 DEF Open, Close, Return
  <2>2. call' \in CallTypes /\ call'.op \in {"Open", "Close"}
    BY <1>2, <2>1 DEF CallOps
  <2>3. QED
    BY <2>1, <2>2 DEF AnswerInv, CallInv, SoughtInv, ReadInv
<1>4. CASE ReadNext
  <2>1. call' = [NoCall EXCEPT !.op = "ReadNext"]
    BY <1>4 DEF ReadNext
  <2>2. call' \in CallTypes /\ call'.op = "ReadNext" /\ ~call'.stopped
    BY <1>2, <2>1 DEF CallOps
  <2>3. QED
    BY <2>2 DEF AnswerInv, CallInv, SoughtInv, ReadInv
<1>5. ASSUME NEW op \in CallOps, NEW status, status # "Ok", Refuse(op, status) PROVE AnswerInv'
  <2>1. call' = [NoCall EXCEPT !.op = op] /\ pc' = "ready" /\ st' # "Ok"
    BY <1>5 DEF Refuse, Return
  <2>2. call' \in CallTypes /\ call'.op = op /\ ~call'.stopped
    BY <1>2, <2>1
  <2>3. QED
    BY <2>1, <2>2 DEF AnswerInv, CallInv, SoughtInv, ReadInv, ReadOK
<1>6. CASE OpenFails \/ NotOpen \/ NoCallback
  <2>1. \E op \in CallOps : \E status : status # "Ok" /\ Refuse(op, status)
    BY <1>6 DEF OpenFails, NotOpen, NoCallback, CallOps
  <2>2. QED
    BY <1>5, <2>1
<1>7. QED
  BY <1>3, <1>4, <1>6

\* What a step of NextMessage does for its caller.
LEMMA ReadsFor ==
  ASSUME DiskInv, PlaceInv, PositionOK, out \in Seq(AnyMessage), NextMessage
  PROVE  /\ pc = "walk" /\ UNCHANGED <<disk, Segs>>
         /\ \/ Remaining = RestNext /\ UNCHANGED <<pc, call, st, got>>
            \/ last' \in AnyMessage /\ Remaining = <<last'>> \o RestNext /\ Yield(last')
            \/ Remaining = <<>> /\ RestNext = <<>> /\ pc' = "ready" /\ UNCHANGED <<call, got>>
<1>1. pc = "walk" /\ UNCHANGED <<disk, Segs>>
  BY DEF NextMessage, TakeInner, StopChunk, NextSegment, SkipDamaged, SkipPacked, SkipOther,
         YieldData, YieldFirstInner, EndOfSegments, Onward, Walking, session
<1>2. Passed
  BY NextMessagePasses
<1>3. \A m : Append(out, m) # out
  <2> TAKE m
  <2>1. Len(Append(out, m)) = Len(out) + 1 /\ Len(out) \in Nat
    OBVIOUS
  <2>2. QED
    BY <2>1
<1>4. CASE StopChunk \/ NextSegment \/ SkipDamaged \/ SkipPacked \/ SkipOther
  <2>1. UNCHANGED <<pc, call, st, last, got, out>>
    BY <1>4 DEF StopChunk, NextSegment, SkipDamaged, SkipPacked, SkipOther, Onward
  <2>2. Remaining = RestNext
    BY <1>2, <1>3, <2>1 DEF Passed
  <2>3. QED
    BY <1>1, <2>1, <2>2
<1>5. CASE TakeInner \/ YieldData \/ YieldFirstInner
  <2>1. PICK m : Yield(m)
    BY <1>5 DEF TakeInner, YieldData, YieldFirstInner
  <2>2. last' = m /\ out' = Append(out, m)
    BY <2>1 DEF Yield
  <2>3. last' \in AnyMessage /\ Remaining = <<last'>> \o RestNext
    BY <1>2, <1>3, <2>2 DEF Passed
  <2>4. QED
    BY <1>1, <2>1, <2>2, <2>3
<1>6. CASE EndOfSegments
  <2>1. /\ pc' = "ready" /\ UNCHANGED <<call, got, out>> /\ UNCHANGED cursor
        /\ chunk.due = 0 /\ CurSeg > Len(Segs)
    BY <1>6 DEF EndOfSegments, Return
  <2>2. chunk.left = <<>>
    BY <2>1 DEF PlaceInv
  <2>3. MessagesFrom(CurSeg, CurOffset) = <<>>
    BY <2>1 DEF MessagesFrom
  <2>4. Remaining = <<>>
    BY <2>2, <2>3 DEF Remaining
  <2>5. RestNext = Remaining
    BY <2>1 DEF RestNext, Remaining, cursor
  <2>6. QED
    BY <1>1, <2>1, <2>4, <2>5
<1>7. QED
  BY <1>4, <1>5, <1>6 DEF NextMessage

LEMMA OneMore ==
  ASSUME NEW S, NEW g \in Seq(S), NEW m \in S, NEW k \in Seq(S)
  PROVE  g \o (<<m>> \o k) = Append(g, m) \o k
<1> DEFINE one == <<m>>
<1>1. one \in Seq(S) /\ Append(g, m) = g \o one
  BY AppendIsConcat
<1> HIDE DEF one
<1>2. (g \o one) \o k = g \o (one \o k)
  BY <1>1, ConcatAssociative
<1>3. QED
  BY <1>1, <1>2 DEF one

LEMMA OneMoreGot ==
  ASSUME got \in Seq(AnyMessage), NEW m \in AnyMessage, NEW k, k \in Seq(AnyMessage)
  PROVE  got \o (<<m>> \o k) = Append(got, m) \o k
BY OneMore

\* A message is given to a Read.
LEMMA ReadTakes ==
  ASSUME NEW all \in Seq(AnyMessage), NEW r \in Seq(AnyMessage), NEW rest \in Seq(AnyMessage),
         NEW m \in AnyMessage, r = <<m>> \o rest, EndsWith(all, r), InTimeOrder(all),
         call \in CallTypes, call.op = "Read", pc = "walk", ~call.stopped, got \in Seq(AnyMessage),
         ReadOK(call, pc, st, got, all, r), Yield(m)
  PROVE  ReadOK(call', pc', st', got', all, rest)
<1> DEFINE W == WantedBy(call)
           whole == Kept(W, WholeOf(call, all))
<1>1. whole = got \o Kept(W, r)
  BY DEF ReadOK
<1>2. <<m>> \in Seq(AnyMessage)
  OBVIOUS
<1>3. /\ Kept(W, r) = Kept(W, <<m>>) \o Kept(W, rest)
      /\ Kept(W, <<m>>) = IF m \in W THEN <<m>> ELSE <<>>
      /\ Kept(W, rest) \in Seq(AnyMessage)
  <2> DEFINE one == <<m>>
  <2> HIDE DEF W
  <2>1. Kept(W, <<m>> \o rest) = Kept(W, <<m>>) \o Kept(W, rest)
    <3>1. one \in Seq(AnyMessage)
      BY <1>2
    <3> HIDE DEF one
    <3>2. Kept(W, one \o rest) = Kept(W, one) \o Kept(W, rest)
      BY <3>1, KeptConcat
    <3>3. QED
      BY <3>2 DEF one
  <2>2. QED
    BY <2>1, KeptOne, KeptType
<1>4. call.start \in Nat /\ call.end \in Nat /\ m.ts \in Nat
  BY DEF CallTypes, AnyMessage
<1>5. m \in W <=> ~PastEnd(m) /\ ~BeforeStart(m) /\ ~FilteredOut(m)
  BY <1>4 DEF WantedBy, PastEnd, BeforeStart, FilteredOut
<1>6. CASE EndRead(m)
  <2>1. PastEnd(m) /\ pc' = "ready" /\ call' = call /\ got' = got
    BY <1>6 DEF EndRead, Return
  <2>2. \A x \in ToSet(r) : x \notin W
    <3> TAKE x \in ToSet(r)
    <3>1. x \in AnyMessage /\ m.ts <= x.ts
      BY HeadIsFirst
    <3>2. call.end > 0 /\ m.ts > call.end
      BY <2>1 DEF PastEnd
    <3>3. x.ts \in Nat
      BY <3>1 DEF AnyMessage
    <3>4. ~ (x.ts <= call.end)
      BY <1>4, <3>1, <3>2, <3>3
    <3>5. QED
      BY <3>2, <3>4 DEF WantedBy
  <2> HIDE DEF W
  <2>3. Kept(W, r) = <<>>
    BY <2>2, KeptNone
  <2>4. whole = got
    BY <1>1, <2>3, ConcatEmptySeq
  <2>5. QED
    BY <2>1, <2>4 DEF ReadOK, W
<1>7. CASE SkipInRead(m)
  <2>1. pc' = pc /\ st' = st /\ call' = call /\ got' = got /\ m \notin W
    BY <1>5, <1>7 DEF SkipInRead
  <2> HIDE DEF W
  <2>2. Kept(W, r) = Kept(W, rest)
    BY <1>3, <2>1, ConcatEmptySeq
  <2>3. whole = got \o Kept(W, rest)
    BY <1>1, <2>2
  <2>4. QED
    BY <2>1, <2>3 DEF ReadOK, W
<1>8. CASE Callback(m)
  <2>1. /\ got' = Append(got, m) /\ m \in W
        /\ (UNCHANGED <<pc, st, call>> \/ (pc' = "ready" /\ call' = [call EXCEPT !.stopped = TRUE]))
    BY <1>5, <1>8 DEF Callback, Return
  <2>2. CASE UNCHANGED <<pc, st, call>>
    <3> HIDE DEF W
    <3>1. Kept(W, r) = <<m>> \o Kept(W, rest)
      BY <1>3, <2>1
    <3>2. got \o (<<m>> \o Kept(W, rest)) = Append(got, m) \o Kept(W, rest)
      BY <1>3, OneMoreGot
    <3>3. whole = got' \o Kept(W, rest)
      BY <1>1, <2>1, <3>1, <3>2
    <3>4. QED
      BY <2>2, <3>3 DEF ReadOK, W
  <2>3. CASE pc' = "ready" /\ call' = [call EXCEPT !.stopped = TRUE]
    <3>1. call'.stopped
      BY <2>3 DEF CallTypes
    <3>2. QED
      BY <2>3, <3>1 DEF ReadOK
  <2>4. QED
    BY <2>1, <2>2, <2>3
<1>9. QED
  BY <1>6, <1>7, <1>8 DEF Yield, GiveToReadNext

\* A step of NextMessage.
LEMMA ReadAnswers ==
  ASSUME DiskInv, PlaceInv, PositionOK, PositionOK', OtherTypes, AnswerInv, NextMessage
  PROVE  AnswerInv'
<1>1. got \in Seq(AnyMessage) /\ out \in Seq(AnyMessage)
  BY DEF OtherTypes
<1>2. /\ pc = "walk" /\ UNCHANGED <<disk, Segs>>
      /\ \/ Remaining = RestNext /\ UNCHANGED <<pc, call, st, got>>
         \/ last' \in AnyMessage /\ Remaining = <<last'>> \o RestNext /\ Yield(last')
         \/ Remaining = <<>> /\ RestNext = <<>> /\ pc' = "ready" /\ UNCHANGED <<call, got>>
  BY <1>1, ReadsFor
<1>3. /\ AllMessages' = AllMessages /\ Remaining' = RestNext
      /\ AllMessages \in Seq(AnyMessage) /\ Remaining \in Seq(AnyMessage)
      /\ EndsWith(AllMessages, Remaining) /\ RestNext \in Seq(AnyMessage)
  BY <1>2, SameSession DEF PositionOK
<1>4. call \in CallTypes /\ call.op \in {"ReadNext", "Read"} /\ ~call.stopped
  BY <1>2 DEF AnswerInv, CallInv
<1>5. /\ call' \in CallTypes /\ call'.op = call.op /\ call'.start = call.start
      /\ pc' = "walk" => ~call'.stopped
  <2>1. ASSUME call' = [call EXCEPT !.stopped = TRUE], pc' = "ready"
        PROVE  call' \in CallTypes /\ call'.op = call.op /\ call'.start = call.start
    BY <1>4, <2>1 DEF CallTypes
  <2>2. call' = call \/ (call' = [call EXCEPT !.stopped = TRUE] /\ pc' = "ready")
    BY <1>2 DEF Yield, GiveToReadNext, EndRead, SkipInRead, Callback, Return
  <2>3. QED
    BY <1>4, <2>1, <2>2
<1>6. CallInv' /\ SoughtInv'
  BY <1>4, <1>5 DEF CallInv, SoughtInv
<1>7. ASSUME call.op = "Read", IF call.start > 0 THEN SeeksFind ELSE InOrder
      PROVE  ReadOK(call', pc', st', got', AllMessages, RestNext)
  <2>1. ReadOK(call, pc, st, got, AllMessages, Remaining)
    BY <1>7 DEF AnswerInv, ReadInv
  <2>2. InTimeOrder(AllMessages)
    BY <1>7, AllInOrder DEF SeeksFind
  <2>3. CASE Remaining = RestNext /\ UNCHANGED <<pc, call, st, got>>
    BY <2>1, <2>3
  <2>4. CASE last' \in AnyMessage /\ Remaining = <<last'>> \o RestNext /\ Yield(last')
    BY <1>1, <1>2, <1>3, <1>4, <1>7, <2>1, <2>2, <2>4, ReadTakes
  <2>5. CASE Remaining = <<>> /\ pc' = "ready" /\ UNCHANGED <<call, got>>
    <3> DEFINE W == WantedBy(call)
    <3>1. Kept(W, WholeOf(call, AllMessages)) = got \o Kept(W, Remaining)
      BY <1>2, <2>1 DEF ReadOK
    <3> HIDE DEF W
    <3>2. \A m \in ToSet(Remaining) : m \notin W
      BY <2>5 DEF ToSet
    <3>3. Kept(W, Remaining) = <<>>
      BY <1>3, <3>2, KeptNone
    <3>4. Kept(W, WholeOf(call, AllMessages)) = got
      BY <1>1, <3>1, <3>3, ConcatEmptySeq
    <3>5. QED
      BY <2>5, <3>4 DEF ReadOK, W
  <2>6. QED
    BY <1>2, <2>3, <2>4, <2>5
<1>8. ReadInv'
  <2>1. (InOrder' <=> InOrder) /\ (SeeksFind' <=> SeeksFind)
    BY <1>2, SameOrder
  <2>2. ASSUME call'.op = "Read", IF call'.start > 0 THEN SeeksFind' ELSE InOrder'
        PROVE  ReadOK(call', pc', st', got', AllMessages', Remaining')
    BY <1>3, <1>5, <1>7, <2>1, <2>2
  <2>3. ReadInv' <=> (call'.op = "Read" /\ (IF call'.start > 0 THEN SeeksFind' ELSE InOrder')
                        => ReadOK(call', pc', st', got', AllMessages', Remaining'))
    BY DEF ReadInv, ReadOK
  <2>4. QED
    BY <2>2, <2>3
<1>9. QED
  BY <1>6, <1>8 DEF AnswerInv

LEMMA AnswerInit == Init => AnswerInv
<1>1. SUFFICES ASSUME Init PROVE AnswerInv
  OBVIOUS
<1>2. call = NoCall /\ pc = "ready"
  BY <1>1 DEF Init
<1> DEFINE F == Filters \cup {{}}
           S == Seq(AnyMessage)
           e == <<>>
           none == {}
<1>3. none \in F /\ e \in S
  OBVIOUS
<1> HIDE DEF F, S, e, none
<1>4. [op |-> "None", start |-> 0, end |-> 0, filter |-> none, from |-> e, stopped |-> FALSE]
        \in [op: CallOps, start: Nat, end: Nat, filter: F, from: S, stopped: BOOLEAN]
  BY <1>3 DEF CallOps
<1> USE DEF F, S, e, none
<1>5. call \in CallTypes
  BY <1>2, <1>4, Zenon DEF CallTypes, NoCall
<1>6. call.op = "None"
  BY <1>2 DEF NoCall
<1>7. QED
  BY <1>2, <1>5, <1>6 DEF AnswerInv, CallInv, SoughtInv, ReadInv

LEMMA AnswerNext ==
  DiskInv /\ PlaceInv /\ PositionOK /\ PositionOK' /\ OtherTypes /\ DefsKnown /\ AnswerInv /\ [Next]_vars
    => AnswerInv'
<1>1. SUFFICES ASSUME DiskInv, PlaceInv, PositionOK, PositionOK', OtherTypes, DefsKnown, AnswerInv,
                      [Next]_vars
               PROVE  AnswerInv'
  OBVIOUS
<1>2. CASE Client
  <2>1. ASSUME NEW t \in Targets, Seek(t) PROVE AnswerInv'
    BY <1>1, <2>1, SeekAnswers
  <2>2. ASSUME NEW start \in Targets, NEW end \in Targets, NEW filter \in Filters,
               Read(start, end, filter)
        PROVE  AnswerInv'
    BY <1>1, <2>2, ReadBegins
  <2>3. QED
    BY <1>2, <2>1, <2>2, OthersAnswer DEF Client
<1>3. CASE NextMessage
  BY <1>1, <1>3, ReadAnswers
<1>4. CASE UNCHANGED vars
  <2>1. UNCHANGED <<disk, Segs, call, pc, st, got>> /\ UNCHANGED cursor
    BY <1>4 DEF vars, session
  <2>2. AllMessages' = AllMessages /\ Remaining' = Remaining
    BY <2>1, SameSession DEF RestNext, Remaining, cursor
  <2>3. (InOrder' <=> InOrder) /\ (SeeksFind' <=> SeeksFind)
    BY <2>1, SameOrder
  <2>4. Later(call.start)' = Later(call.start) /\ ToSet(Remaining)' = ToSet(Remaining)
    BY <2>1, <2>2 DEF Later, ToSet
  <2>5. CallInv' /\ SoughtInv'
    BY <1>1, <2>1, <2>3, <2>4 DEF AnswerInv, CallInv, SoughtInv
  <2>6. ReadInv'
    BY <1>1, <2>1, <2>2, <2>3 DEF AnswerInv, ReadInv, ReadOK
  <2>7. QED
    BY <2>5, <2>6 DEF AnswerInv
<1>5. QED
  BY <1>1, <1>2, <1>3, <1>4 DEF Next

LEMMA AnswerAlways == Spec => [](PlaceInv /\ PositionOK /\ AnswerInv)
<1>1. Spec => [](DiskInv /\ StartOK /\ PlaceInv /\ PositionOK /\ GaveInv)
  BY GaveAlways
<1>2. Spec => [](DiskInv /\ StartOK /\ PlaceInv /\ OtherTypes)
  BY InvAlways
<1>3. Spec => []DefsKnown
  BY <1>1, DefsInit, DefsNext, PTL DEF Spec
<1>4. QED
  BY <1>1, <1>2, <1>3, AnswerInit, AnswerNext, PTL DEF Spec

\* After a Seek in a session in order of time, with an interval between the
\* points of its indexes, every message that is not before the target is still
\* to be read, whichever channels have points and whichever of them Find
\* returns (ReaderSession::Seek, reader.cpp:572-604).
THEOREM SeekAlwaysFindsAll == Spec => []SeekFindsAll
<1>1. AnswerInv => SeekFindsAll
  BY DEF AnswerInv, SoughtInv, SeekFindsAll, SeekFindsFirst
<1>2. QED
  BY <1>1, AnswerAlways, PTL

\* In such a session a Read gives its callback the messages it is asked for and
\* no others: stopping at the first message past the end loses none, and one
\* with a start loses none to the seek (Read, reader.cpp:611-637).
THEOREM ReadAlwaysSelects == Spec => []ReadSelects
<1>1. PlaceInv /\ PositionOK /\ AnswerInv => ReadSelects
  <2>1. SUFFICES ASSUME PositionOK, AnswerInv, call.op = "Read", st = "Ok", pc = "ready", ~call.stopped,
                        IF call.start > 0 THEN SeeksFind ELSE InOrder
                 PROVE  got = Selected(IF call.start > 0 THEN AllMessages ELSE call.from)
    BY DEF ReadSelects
  <2> DEFINE whole == IF call.start > 0 THEN AllMessages ELSE call.from
  <2>2. got = Kept(WantedBy(call), whole)
    BY <2>1 DEF AnswerInv, ReadInv, ReadOK, WholeOf
  <2>3. whole \in Seq(AnyMessage)
    BY <2>1 DEF AnswerInv, CallInv, CallTypes, PositionOK
  <2> HIDE DEF whole
  <2>4. Selected(whole) = Kept(WantedBy(call), whole)
    BY <2>3, SelectedIsKept
  <2>5. QED
    BY <2>2, <2>4 DEF whole
<1>2. QED
  BY <1>1, AnswerAlways, PTL

-----------------------------------------------------------------------------
(***************************************************************************)
(* What the scan at Open counts is what the records give, and what their   *)
(* headers promise and reading does not give.                              *)
(***************************************************************************)
Promised(recs, ch) == [k \in DataAt(recs, ch) |-> CountOf(recs[k])]
Withheld(recs, ch) == [k \in DataAt(recs, ch) |-> recs[k].cnt - Len(Given(recs[k]))]

LEMMA RecordGives ==
  ASSUME NEW r \in Records
  PROVE  /\ CountOf(r) \in Nat /\ Given(r) \in Seq(AnyMessage) /\ Len(Given(r)) \in Nat
         /\ IsData(r) => CountOf(r) = r.cnt
         /\ IsData(r) => Len(Given(r)) <= CountOf(r)
         /\ ~IsData(r) => Given(r) = <<>>
         /\ \A k \in DOMAIN Given(r) : Given(r)[k].ch = r.ch
<1>1. /\ r.msgs \in Seq(AnyMessage) /\ r.cnt \in Nat
      /\ r.op = "Data" => Len(r.msgs) = 1
      /\ r.op = "Data" => r.cnt = 1
      /\ r.op = "Chunk" => Len(r.msgs) <= r.cnt
      /\ ~IsData(r) => r.msgs = <<>>
      /\ \A m \in ToSet(r.msgs) : m.ch = r.ch
  BY RecordFields
<1>2. \A k \in DOMAIN r.msgs : r.msgs[k].ch = r.ch
  BY <1>1 DEF ToSet
<1>3. CountOf(r) \in Nat /\ (IsData(r) => Len(r.msgs) <= CountOf(r))
  <2>1. CASE r.op = "Chunk"
    BY <1>1, <2>1 DEF CountOf
  <2>2. CASE r.op # "Chunk"
    <3>1. CountOf(r) = 1
      BY <2>2 DEF CountOf
    <3>2. IsData(r) => r.op = "Data"
      BY <2>2 DEF IsData
    <3>3. IsData(r) => Len(r.msgs) = 1
      BY <1>1, <3>2
    <3> DEFINE c == CountOf(r)
               n == Len(r.msgs)
    <3>4. c = 1 /\ (IsData(r) => n = 1)
      BY <3>1, <3>3
    <3> HIDE DEF c, n
    <3>5. c \in Nat /\ (IsData(r) => n <= c)
      BY <3>4
    <3>6. QED
      BY <3>5 DEF c, n
  <2>3. QED
    BY <2>1, <2>2
<1>4. IsData(r) => CountOf(r) = r.cnt
  BY <1>1 DEF CountOf, IsData
<1>5. CASE r.state = "ok"
  BY <1>1, <1>2, <1>3, <1>4, <1>5 DEF Given
<1>6. CASE r.state # "ok"
  BY <1>3, <1>4, <1>6 DEF Given
<1>7. QED
  BY <1>5, <1>6

\* The messages of a channel in a sequence, and in one that goes on.
LEMMA GivenFinite ==
  ASSUME NEW a \in Seq(AnyMessage), NEW ch
  PROVE  IsFiniteSet(GivenOf(a, ch)) /\ Cardinality(GivenOf(a, ch)) \in Nat
<1>1. GivenOf(a, ch) \in SUBSET (1..Len(a)) /\ 1 \in Int /\ Len(a) \in Int
  BY DEF GivenOf
<1>2. QED
  BY <1>1, FS_Interval, FS_Subset, FS_CardinalityType

LEMMA GivenGrow ==
  ASSUME NEW a \in Seq(AnyMessage), NEW b \in Seq(AnyMessage), NEW ch,
         \/ \A k \in DOMAIN b : b[k].ch = ch
         \/ \A k \in DOMAIN b : b[k].ch # ch
  PROVE  Cardinality(GivenOf(a \o b, ch)) = Cardinality(GivenOf(a, ch))
           + (IF \A k \in DOMAIN b : b[k].ch = ch THEN Len(b) ELSE 0)
<1> DEFINE n == Len(a)
           m == Len(b)
           c == a \o b
           G == GivenOf(a, ch)
           H == (n + 1)..(n + m)
<1>1. /\ n \in Nat /\ m \in Nat /\ DOMAIN a = 1..n /\ DOMAIN b = 1..m /\ DOMAIN c = 1..(n + m)
      /\ \A k \in 1..n : c[k] = a[k]
      /\ \A k \in 1..m : c[n + k] = b[k]
  OBVIOUS
<1> HIDE DEF n, m, c
<1>2. G = {k \in 1..n : a[k].ch = ch}
  BY <1>1 DEF GivenOf
<1>3. GivenOf(c, ch) = {k \in 1..(n + m) : c[k].ch = ch}
  BY <1>1 DEF GivenOf
<1>4. /\ \A k \in 1..(n + m) : k \in 1..n \/ k \in H
      /\ \A k \in 1..n : k \in 1..(n + m) /\ k \notin H
      /\ \A k \in H : k \in 1..(n + m) /\ k - n \in 1..m /\ c[k] = b[k - n]
  <2>1. \A k \in H : k - n \in 1..m /\ n + (k - n) = k
    BY <1>1
  <2>2. QED
    BY <1>1, <2>1
<1>5. IsFiniteSet(G) /\ Cardinality(G) \in Nat
  BY GivenFinite
<1>6. IsFiniteSet(H) /\ Cardinality(H) = m
  <2>1. n + 1 \in Int /\ n + m \in Int
    BY <1>1
  <2>2. Cardinality(H) = IF n + 1 > n + m THEN 0 ELSE (n + m) - (n + 1) + 1
    BY <2>1, FS_Interval
  <2>3. QED
    BY <1>1, <2>1, <2>2, FS_Interval
<1> HIDE DEF H
<1>7. CASE \A k \in DOMAIN b : b[k].ch = ch
  <2>1. GivenOf(c, ch) = G \cup H /\ G \cap H = {}
    <3>1. \A k \in H : c[k].ch = ch
      BY <1>1, <1>4, <1>7
    <3> HIDE DEF G
    <3>2. QED
      BY <1>1, <1>2, <1>3, <1>4, <3>1
  <2>2. Cardinality(GivenOf(c, ch)) = Cardinality(G) + m
    <3>1. Cardinality(G \cup H) = Cardinality(G) + Cardinality(H) - Cardinality(G \cap H)
      BY <1>5, <1>6, FS_Union
    <3>2. Cardinality({}) = 0
      BY FS_EmptySet
    <3> HIDE DEF G
    <3>3. Cardinality(GivenOf(c, ch)) = Cardinality(G) + Cardinality(H) - Cardinality({})
      BY Zenon, <2>1, <3>1
    <3>4. QED
      BY <1>1, <1>5, <1>6, <3>2, <3>3
  <2>3. QED
    BY <1>7, <2>2 DEF c, m
<1>8. CASE ~ \A k \in DOMAIN b : b[k].ch = ch
  <2>1. \A k \in H : c[k].ch # ch
    BY <1>1, <1>4, <1>8
  <2>2. GivenOf(c, ch) = G
    <3> HIDE DEF G
    <3>1. QED
      BY <1>1, <1>2, <1>3, <1>4, <2>1
  <2>3. QED
    BY <1>5, <1>8, <2>2 DEF c
<1>9. QED
  BY <1>7, <1>8

LEMMA MessagesAppend ==
  ASSUME NEW recs \in Seq(Records), NEW r \in Records
  PROVE  MessagesOf(Append(recs, r)) = MessagesOf(recs) \o Given(r)
<1> DEFINE t == Append(recs, r)
           a == [k \in DOMAIN recs |-> Given(recs[k])]
           b == [k \in DOMAIN t |-> Given(t[k])]
           n == Len(recs)
<1>1. /\ t \in Seq(Records) /\ DOMAIN t = 1..(n + 1) /\ n \in Nat /\ DOMAIN recs = 1..n
      /\ t[n + 1] = r /\ \A k \in 1..n : t[k] = recs[k]
  OBVIOUS
<1> HIDE DEF t
<1>2. /\ a \in Seq(Seq(AnyMessage)) /\ MessagesOf(recs) = FlattenSeq(a)
      /\ MessagesOf(t) = FlattenSeq(b) /\ Given(r) \in Seq(AnyMessage)
  BY <1>1, GivenType, RecordGives
<1>3. b = Append(a, Given(r))
  <2>1. /\ Len(a) = n /\ DOMAIN b = 1..(n + 1) /\ b = [k \in DOMAIN b |-> b[k]]
        /\ \A k \in 1..n : b[k] = a[k]
        /\ b[n + 1] = Given(r)
    BY <1>1
  <2> HIDE DEF a, b, n
  <2>2. QED
    BY <1>2, <2>1, IsAppend
<1> HIDE DEF a, b
<1>4. FlattenSeq(Append(a, Given(r))) = FlattenSeq(a) \o Given(r)
  BY <1>2, FlattenAppend
<1>5. QED
  BY <1>2, <1>3, <1>4 DEF t

Balanced(recs, ch) ==
  SumFunction(Promised(recs, ch))
    = Cardinality(GivenOf(MessagesOf(recs), ch)) + SumFunction(Withheld(recs, ch))

LEMMA SumsType ==
  ASSUME NEW recs \in Seq(Records), NEW ch
  PROVE  /\ IsFiniteSet(DataAt(recs, ch))
         /\ \A k \in DataAt(recs, ch) : Promised(recs, ch)[k] \in Nat /\ Withheld(recs, ch)[k] \in Nat
         /\ SumFunction(Promised(recs, ch)) \in Nat /\ SumFunction(Withheld(recs, ch)) \in Nat
<1> DEFINE p == Promised(recs, ch)
           w == Withheld(recs, ch)
           D == DataAt(recs, ch)
<1>1. D \in SUBSET (1..Len(recs)) /\ 1 \in Int /\ Len(recs) \in Int
  BY DEF DataAt
<1>2. IsFiniteSet(D)
  BY <1>1, FS_Interval, FS_Subset
<1>3. DOMAIN p = D /\ DOMAIN w = D
  BY DEF Promised, Withheld
<1>4. ASSUME NEW k \in D PROVE p[k] \in Nat /\ w[k] \in Nat
  <2>1. recs[k] \in Records /\ IsData(recs[k])
    BY DEF DataAt
  <2>2. /\ CountOf(recs[k]) \in Nat /\ Len(Given(recs[k])) \in Nat
        /\ Len(Given(recs[k])) <= CountOf(recs[k]) /\ CountOf(recs[k]) = recs[k].cnt
    BY <2>1, RecordGives
  <2>3. p[k] = CountOf(recs[k]) /\ w[k] = recs[k].cnt - Len(Given(recs[k]))
    BY DEF Promised, Withheld
  <2>4. QED
    BY <2>2, <2>3
<1> HIDE DEF p, w, D
<1>5. SumFunction(p) \in Nat /\ SumFunction(w) \in Nat
  BY <1>2, <1>3, <1>4, SumFacts
<1>6. QED
  BY <1>2, <1>4, <1>5 DEF p, w, D

LEMMA BalancedNone ==
  ASSUME NEW ch
  PROVE  Balanced(<<>>, ch)
<1> DEFINE p == Promised(<<>>, ch)
           w == Withheld(<<>>, ch)
<1>1. DOMAIN p = {} /\ DOMAIN w = {}
  BY DEF Promised, Withheld, DataAt
<1> HIDE DEF p, w
<1>2. IsFiniteSet({}) /\ Cardinality({}) = 0
  BY FS_EmptySet
<1>3. SumFunction(p) = 0 /\ SumFunction(w) = 0
  BY <1>1, <1>2, SumFacts
<1>4. GivenOf(MessagesOf(<<>>), ch) = {}
  BY NoRecords DEF GivenOf
<1>5. Cardinality(GivenOf(MessagesOf(<<>>), ch)) = 0
  BY Zenon, <1>2, <1>4
<1>6. SumFunction(p) = Cardinality(GivenOf(MessagesOf(<<>>), ch)) + SumFunction(w)
  BY <1>3, <1>5
<1>7. QED
  BY <1>6 DEF Balanced, p, w

LEMMA BalancedOneMore ==
  ASSUME NEW recs \in Seq(Records), NEW r \in Records, NEW ch, Balanced(recs, ch)
  PROVE  Balanced(Append(recs, r), ch)
<1> DEFINE t == Append(recs, r)
           n == Len(recs) + 1
           p == Promised(recs, ch)
           w == Withheld(recs, ch)
           q == Promised(t, ch)
           v == Withheld(t, ch)
           given == Cardinality(GivenOf(MessagesOf(recs), ch))
<1>1. /\ t \in Seq(Records) /\ n \in Nat /\ n >= 1 /\ DOMAIN t = 1..n /\ DOMAIN recs = 1..(n - 1)
      /\ t[n] = r /\ \A k \in 1..(n - 1) : t[k] = recs[k]
  OBVIOUS
<1> HIDE DEF t, n
<1>2. /\ MessagesOf(recs) \in Seq(AnyMessage) /\ Given(r) \in Seq(AnyMessage)
      /\ MessagesOf(t) = MessagesOf(recs) \o Given(r)
  BY GivenType, RecordGives, MessagesAppend DEF t
<1>3. /\ IsFiniteSet(DataAt(t, ch)) /\ given \in Nat
      /\ \A k \in DataAt(t, ch) : q[k] \in Nat /\ v[k] \in Nat
      /\ SumFunction(p) \in Nat /\ SumFunction(w) \in Nat
  BY <1>1, <1>2, SumsType, GivenFinite
<1>4. SumFunction(p) = given + SumFunction(w)
  BY DEF Balanced
<1>5. /\ DataAt(recs, ch) = DataAt(t, ch) \ {n}
      /\ n \in DataAt(t, ch) <=> IsData(r) /\ r.ch = ch
  <2>1. \A k : k \in 1..(n - 1) <=> k \in 1..n /\ k # n
    BY <1>1
  <2>2. n \in 1..n
    BY <1>1
  <2>3. QED
    BY <1>1, <2>1, <2>2 DEF DataAt
<1>6. /\ DOMAIN q = DataAt(t, ch) /\ DOMAIN v = DataAt(t, ch)
      /\ DOMAIN p = DataAt(recs, ch) /\ DOMAIN w = DataAt(recs, ch)
      /\ p = [k \in DOMAIN p |-> p[k]] /\ w = [k \in DOMAIN w |-> w[k]]
      /\ q = [k \in DOMAIN q |-> q[k]] /\ v = [k \in DOMAIN v |-> v[k]]
  BY DEF Promised, Withheld
<1>7. \A k \in DataAt(recs, ch) : p[k] = q[k] /\ w[k] = v[k]
  <2> TAKE k \in DataAt(recs, ch)
  <2>1. k \in DataAt(t, ch) /\ t[k] = recs[k]
    <3>1. k \in 1..(n - 1)
      BY <1>1 DEF DataAt
    <3>2. QED
      BY <1>1, <1>5, <3>1
  <2>2. QED
    BY <2>1 DEF Promised, Withheld
<1>8. CASE IsData(r) /\ r.ch = ch
  <2>1. n \in DataAt(t, ch)
    BY <1>5, <1>8
  <2>2. q[n] = CountOf(r) /\ v[n] = CountOf(r) - Len(Given(r))
    <3>1. q[n] = CountOf(r) /\ v[n] = r.cnt - Len(Given(r))
      BY <1>1, <2>1 DEF Promised, Withheld
    <3>2. CountOf(r) = r.cnt
      BY <1>8, RecordGives
    <3>3. QED
      BY <3>1, <3>2
  <2>3. /\ CountOf(r) \in Nat /\ Len(Given(r)) \in Nat
        /\ \A k \in DOMAIN Given(r) : Given(r)[k].ch = ch
    BY <1>8, RecordGives
  <2>4. Cardinality(GivenOf(MessagesOf(t), ch)) = given + Len(Given(r))
    <3>1. Cardinality(GivenOf(MessagesOf(recs) \o Given(r), ch)) = given + Len(Given(r))
      BY <1>2, <2>3, GivenGrow
    <3>2. QED
      BY <1>2, <3>1
  <2> HIDE DEF p, q, v, w, given
  <2>5. SumFunction(q) = q[n] + SumFunction(p) /\ SumFunction(v) = v[n] + SumFunction(w)
    <3>1. /\ n \in DOMAIN q /\ IsFiniteSet(DOMAIN q) /\ DOMAIN p = DOMAIN q \ {n}
          /\ n \in DOMAIN v /\ IsFiniteSet(DOMAIN v) /\ DOMAIN w = DOMAIN v \ {n}
      BY <1>3, <1>5, <1>6, <2>1
    <3>2. /\ \A k \in DOMAIN q : q[k] \in Nat
          /\ \A k \in DOMAIN v : v[k] \in Nat
          /\ \A k \in DOMAIN p : p[k] = q[k]
          /\ \A k \in DOMAIN w : w[k] = v[k]
      BY <1>3, <1>6, <1>7
    <3>3. SumFunction(q) = q[n] + SumFunction(p)
      BY <3>1, <3>2, SumSplit
    <3>4. SumFunction(v) = v[n] + SumFunction(w)
      BY <3>1, <3>2, SumSplit
    <3>5. QED
      BY <3>3, <3>4
  <2>6. SumFunction(q) = Cardinality(GivenOf(MessagesOf(t), ch)) + SumFunction(v)
    BY <1>3, <1>4, <2>2, <2>3, <2>4, <2>5
  <2>7. QED
    BY <2>6 DEF Balanced, q, v, t
<1>9. CASE ~ (IsData(r) /\ r.ch = ch)
  <2>1. q = p /\ v = w
    <3>1. DataAt(t, ch) = DataAt(recs, ch)
      BY <1>5, <1>9
    <3> HIDE DEF p, q, v, w
    <3>2. QED
      BY <1>6, <1>7, <3>1
  <2>2. Cardinality(GivenOf(MessagesOf(t), ch)) = given
    <3>1. Given(r) = <<>> \/ \A k \in DOMAIN Given(r) : Given(r)[k].ch # ch
      BY <1>9, RecordGives
    <3>2. CASE Given(r) = <<>>
      BY <1>2, <3>2, ConcatEmptySeq
    <3>3. CASE Given(r) # <<>> /\ \A k \in DOMAIN Given(r) : Given(r)[k].ch # ch
      <4>1. 1 \in DOMAIN Given(r)
        BY <1>2, <3>3
      <4>2. ~ \A k \in DOMAIN Given(r) : Given(r)[k].ch = ch
        BY <3>3, <4>1
      <4>3. Cardinality(GivenOf(MessagesOf(recs) \o Given(r), ch)) = given + 0
        BY <1>2, <3>3, <4>2, GivenGrow
      <4>4. QED
        BY <1>2, <1>3, <4>3
    <3>4. QED
      BY <3>1, <3>2, <3>3
  <2>3. QED
    BY <1>4, <2>1, <2>2 DEF Balanced, t
<1>10. QED
  BY <1>8, <1>9

\* The count of a channel is what its records give and what they withhold.
LEMMA CountsBalance ==
  ASSUME NEW recs \in Seq(Records), NEW ch
  PROVE  CountsIn(recs, ch) = Cardinality(GivenOf(MessagesOf(recs), ch)) + LostIn(recs, ch)
<1> DEFINE T == {n \in Nat : \E s \in Seq(Records) : Len(s) = n /\ ~Balanced(s, ch)}
<1>1. ASSUME T # {} PROVE FALSE
  <2>1. PICK m \in T : \A n \in T : m <= n
    <3>1. T \in SUBSET Nat
      OBVIOUS
    <3> HIDE DEF T
    <3>2. QED
      BY <1>1, <3>1, Smallest
  <2>2. PICK s \in Seq(Records) : Len(s) = m /\ ~Balanced(s, ch)
    BY <2>1
  <2>3. s # <<>>
    BY <2>2, BalancedNone
  <2>4. PICK front \in Seq(Records), r \in Records : s = Append(front, r)
    BY <2>3, SequenceEmptyOrAppend
  <2>5. Len(front) \in Nat /\ m = Len(front) + 1
    BY <2>2, <2>4, AppendProperties
  <2>6. Balanced(front, ch)
    BY <2>1, <2>5
  <2>7. QED
    BY <2>2, <2>4, <2>6, BalancedOneMore
<1>2. Balanced(recs, ch)
  <2>1. Len(recs) \in Nat
    OBVIOUS
  <2>2. QED
    BY <1>1, <2>1
<1>3. QED
  BY <1>2 DEF Balanced, Promised, Withheld, CountsIn, LostIn

LEMMA MessagesConcat ==
  ASSUME NEW s \in Seq(Records), NEW t \in Seq(Records)
  PROVE  MessagesOf(s \o t) = MessagesOf(s) \o MessagesOf(t)
<1> DEFINE u == s \o t
           n == Len(s)
           m == Len(t)
           a == [k \in DOMAIN s |-> Given(s[k])]
           b == [k \in DOMAIN t |-> Given(t[k])]
           c == [k \in DOMAIN u |-> Given(u[k])]
<1>1. /\ u \in Seq(Records) /\ DOMAIN u = 1..(n + m) /\ n \in Nat /\ m \in Nat
      /\ DOMAIN s = 1..n /\ DOMAIN t = 1..m
      /\ \A k \in 1..n : u[k] = s[k]
      /\ \A k \in (n + 1)..(n + m) : u[k] = t[k - n]
  OBVIOUS
<1> HIDE DEF u, n, m
<1>2. /\ a \in Seq(Seq(AnyMessage)) /\ b \in Seq(Seq(AnyMessage)) /\ c \in Seq(Seq(AnyMessage))
      /\ MessagesOf(s) = FlattenSeq(a) /\ MessagesOf(t) = FlattenSeq(b) /\ MessagesOf(u) = FlattenSeq(c)
  BY <1>1, GivenType
<1>3. /\ Len(a) = n /\ Len(b) = m /\ Len(c) = n + m
      /\ \A k \in 1..n : c[k] = a[k]
      /\ \A k \in (n + 1)..(n + m) : c[k] = b[k - n]
  <2>1. \A k \in 1..n : k \in 1..(n + m)
    BY <1>1
  <2>2. \A k \in (n + 1)..(n + m) : k \in 1..(n + m) /\ k - n \in 1..m
    BY <1>1
  <2>3. DOMAIN a = 1..n /\ DOMAIN b = 1..m /\ DOMAIN c = 1..(n + m)
    BY <1>1
  <2>4. n \in Nat /\ m \in Nat /\ n + m \in Nat
    BY <1>1
  <2>5. \A k \in 1..n : c[k] = a[k]
    BY <1>1, <2>1
  <2>6. \A k \in (n + 1)..(n + m) : c[k] = b[k - n]
    BY <1>1, <2>2
  <2> HIDE DEF a, b, c
  <2>7. Len(a) = n /\ Len(b) = m /\ Len(c) = n + m
    BY <1>2, <2>3, <2>4
  <2>8. QED
    BY <2>5, <2>6, <2>7
<1> HIDE DEF a, b, c
<1>4. c = a \o b
  <2> DEFINE d == a \o b
  <2>1. /\ d \in Seq(Seq(AnyMessage)) /\ Len(d) = n + m
        /\ \A k \in 1..(n + m) : d[k] = IF k <= n THEN a[k] ELSE b[k - n]
    <3>1. /\ d \in Seq(Seq(AnyMessage)) /\ Len(d) = Len(a) + Len(b)
          /\ \A k \in 1..(Len(a) + Len(b)) : d[k] = IF k <= Len(a) THEN a[k] ELSE b[k - Len(a)]
      BY <1>2, ConcatProperties
    <3> HIDE DEF d
    <3>2. Len(a) = n /\ Len(b) = m
      BY <1>3
    <3>3. QED
      BY <3>1, <3>2
  <2> HIDE DEF d
  <2>2. \A k \in 1..(n + m) : c[k] = d[k]
    <3> TAKE k \in 1..(n + m)
    <3>1. k \in 1..n \/ (k \in (n + 1)..(n + m) /\ ~ (k <= n))
      BY <1>1
    <3>2. QED
      BY <1>1, <1>3, <2>1, <3>1
  <2>3. c = d
    BY <1>2, <1>3, <2>1, <2>2, SeqEqual
  <2>4. QED
    BY <2>3 DEF d
<1>5. FlattenSeq(a \o b) = FlattenSeq(a) \o FlattenSeq(b)
  BY <1>2, FlattenConcat
<1>6. QED
  BY <1>2, <1>4, <1>5 DEF u

OfEach(ss) == [k \in DOMAIN ss |-> MessagesOf(ss[k])]

LEMMA OfEachType ==
  ASSUME NEW ss \in Seq(Seq(Records))
  PROVE  OfEach(ss) \in Seq(Seq(AnyMessage)) /\ Len(OfEach(ss)) = Len(ss)
<1> DEFINE n == Len(ss)
<1>1. n \in Nat /\ DOMAIN ss = 1..n /\ \A k \in 1..n : ss[k] \in Seq(Records)
  OBVIOUS
<1>2. \A k \in 1..n : MessagesOf(ss[k]) \in Seq(AnyMessage)
  <2> TAKE k \in 1..n
  <2>1. ss[k] \in Seq(Records)
    BY <1>1
  <2>2. QED
    BY <2>1, GivenType
<1>3. OfEach(ss) = [k \in 1..n |-> MessagesOf(ss[k])]
  BY <1>1 DEF OfEach
<1> HIDE DEF n
<1>4. OfEach(ss) \in [1..n -> Seq(AnyMessage)]
  BY <1>2, <1>3
<1>5. OfEach(ss) \in Seq(Seq(AnyMessage)) /\ Len(OfEach(ss)) = n
  BY <1>1, <1>4
<1>6. QED
  BY <1>5 DEF n

LEMMA MessagesFlat ==
  ASSUME NEW rr \in Seq(Seq(Records))
  PROVE  MessagesOf(FlattenSeq(rr)) = FlattenSeq(OfEach(rr))
<1> DEFINE Wrong(ss) == MessagesOf(FlattenSeq(ss)) # FlattenSeq(OfEach(ss))
           T == {n \in Nat : \E ss \in Seq(Seq(Records)) : Len(ss) = n /\ Wrong(ss)}
<1>1. ASSUME T # {} PROVE FALSE
  <2>1. PICK m \in T : \A n \in T : m <= n
    <3>1. T \in SUBSET Nat
      OBVIOUS
    <3> HIDE DEF T
    <3>2. QED
      BY <1>1, <3>1, Smallest
  <2>2. PICK ss \in Seq(Seq(Records)) : Len(ss) = m /\ Wrong(ss)
    BY <2>1
  <2>3. ss # <<>>
    <3>1. SUFFICES ASSUME ss = <<>> PROVE ~Wrong(ss)
      BY <2>2
    <3>2. OfEach(<<>>) = <<>>
      BY DEF OfEach
    <3>3. QED
      BY <3>1, <3>2, FlattenEmpty, NoRecords
  <2>4. PICK front \in Seq(Seq(Records)), recs \in Seq(Records) : ss = Append(front, recs)
    BY <2>3, SequenceEmptyOrAppend
  <2>5. Len(front) \in Nat /\ m = Len(front) + 1
    BY <2>2, <2>4, AppendProperties
  <2>6. ~Wrong(front)
    <3>1. Len(front) \notin T
      <4>1. ~ (m <= Len(front))
        BY <2>5
      <4> HIDE DEF T
      <4>2. QED
        BY <2>1, <4>1
    <3> HIDE DEF Wrong
    <3>2. QED
      BY <2>5, <3>1
  <2> HIDE DEF T
  <2>7. FlattenSeq(ss) = FlattenSeq(front) \o recs /\ FlattenSeq(front) \in Seq(Records)
    BY <2>4, FlattenAppend, FlattenType
  <2>8. OfEach(ss) = Append(OfEach(front), MessagesOf(recs))
    <3>1. OfEach(front) \in Seq(Seq(AnyMessage)) /\ Len(OfEach(front)) = Len(front)
      BY OfEachType
    <3>2. MessagesOf(recs) \in Seq(AnyMessage)
      BY GivenType
    <3> DEFINE n == Len(front)
    <3>3. /\ n \in Nat /\ DOMAIN ss = 1..(n + 1) /\ ss[n + 1] = recs /\ DOMAIN front = 1..n
          /\ \A k \in 1..n : ss[k] = front[k] /\ k \in 1..(n + 1)
          /\ n + 1 \in 1..(n + 1)
      BY <2>4
    <3> HIDE DEF n
    <3>4. /\ DOMAIN OfEach(ss) = 1..(n + 1) /\ OfEach(ss) = [k \in DOMAIN OfEach(ss) |-> OfEach(ss)[k]]
          /\ OfEach(ss)[n + 1] = MessagesOf(recs)
          /\ \A k \in 1..n : OfEach(ss)[k] = OfEach(front)[k]
      BY <3>3 DEF OfEach
    <3>5. Len(OfEach(front)) = n
      BY <3>1 DEF n
    <3>6. QED
      BY <3>1, <3>2, <3>4, <3>5, IsAppend
  <2>9. FlattenSeq(OfEach(ss)) = FlattenSeq(OfEach(front)) \o MessagesOf(recs)
    <3>1. OfEach(front) \in Seq(Seq(AnyMessage)) /\ MessagesOf(recs) \in Seq(AnyMessage)
      BY OfEachType, GivenType
    <3>2. QED
      BY <2>8, <3>1, FlattenAppend
  <2>10. MessagesOf(FlattenSeq(ss)) = MessagesOf(FlattenSeq(front)) \o MessagesOf(recs)
    BY <2>7, MessagesConcat
  <2>11. QED
    BY <2>2, <2>6, <2>9, <2>10
<1>2. QED
  <2>1. Len(rr) \in Nat
    OBVIOUS
  <2>2. QED
    BY <1>1, <2>1

\* The messages of the session are those of its records.
LEMMA AllOfRecords ==
  ASSUME DiskInv, isOpen
  PROVE  AllRecords \in Seq(Records) /\ AllMessages = MessagesOf(AllRecords)
<1> DEFINE rr == [s \in DOMAIN Segs |-> RecsOf(Segs[s])]
           n == Len(Segs)
           first == MessagesOf(RecsOf(Segs[1]))
           f == [i \in 1..(n - 1) |-> MessagesOf(RecsOf(Segs[1 + i]))]
<1>1. n \in Nat /\ DOMAIN Segs = 1..n /\ n # 0 /\ 1 \in DOMAIN Segs
  BY DEF DiskInv
<1>2. rr \in Seq(Seq(Records)) /\ Len(rr) = n
  <2>1. rr \in [1..n -> Seq(Records)]
    BY <1>1, OpenFiles
  <2> HIDE DEF rr, n
  <2>2. QED
    BY <1>1, <2>1
<1>3. AllRecords = FlattenSeq(rr)
  BY DEF AllRecords
<1>4. /\ first \in Seq(AnyMessage) /\ f \in Seq(Seq(AnyMessage)) /\ AfterSegment(1) = FlattenSeq(f)
      /\ FlattenSeq(f) \in Seq(AnyMessage)
  BY <1>1, OpenFiles, GivenType, AfterSegmentType DEF AfterSegment
<1>5. AllMessages = first \o FlattenSeq(f)
  <2>1. From(RecsOf(Segs[1]), 1) = RecsOf(Segs[1])
    BY <1>1, OpenFiles, MessagesEnd
  <2>2. StartOK
    BY StartAlways
  <2>3. MessagesFrom(1, 1) = MessagesOf(From(RecsOf(Segs[1]), 1)) \o AfterSegment(1)
    BY <1>1, <2>2, PlaceType DEF StartOK, FirstOffset
  <2>4. QED
    BY <1>4, <2>1, <2>3 DEF AllMessages, FirstOffset
<1>6. OfEach(rr) = <<first>> \o f
  <2>1. OfEach(rr) \in Seq(Seq(AnyMessage)) /\ Len(OfEach(rr)) = n
    BY <1>2, OfEachType
  <2>2. OfEach(rr)[1] = first
    BY <1>1 DEF OfEach
  <2>3. Len(f) = n - 1 /\ \A k \in 1..(n - 1) : OfEach(rr)[k + 1] = f[k]
    <3>1. n - 1 \in Nat
      BY <1>1
    <3>2. \A k \in 1..(n - 1) : k + 1 \in DOMAIN Segs /\ 1 + k = k + 1
      BY <1>1
    <3>3. QED
      BY <3>1, <3>2 DEF OfEach
  <2> HIDE DEF rr, n, first, f
  <2>4. Len(OfEach(rr)) = Len(f) + 1 /\ \A k \in 1..Len(f) : OfEach(rr)[k + 1] = f[k]
    BY <1>1, <2>1, <2>3
  <2>5. QED
    BY <1>4, <2>1, <2>2, <2>4, IsCons
<1> HIDE DEF rr, n, first, f
<1>7. FlattenSeq(<<first>> \o f) = first \o FlattenSeq(f)
  BY <1>4, FlattenCons
<1>8. MessagesOf(FlattenSeq(rr)) = FlattenSeq(OfEach(rr)) /\ FlattenSeq(rr) \in Seq(Records)
  BY <1>2, MessagesFlat, FlattenType
<1>9. QED
  BY <1>3, <1>5, <1>6, <1>7, <1>8

\* The counts are those of the records opened.
CountsInv == isOpen => Counts = [c \in Channels |-> CountsIn(AllRecords, c)]

LEMMA CountsInit == Init => CountsInv
BY DEF Init, CountsInv

LEMMA CountsNext == DiskInv /\ PlaceInv /\ CountsInv /\ [Next]_vars => CountsInv'
<1>1. SUFFICES ASSUME DiskInv, PlaceInv, CountsInv, [Next]_vars PROVE CountsInv'
  OBVIOUS
<1>2. CASE Open
  <2> DEFINE rr == [k \in DOMAIN Listed |-> disk.files[Listed[k].file].recs]
  <2>1. /\ Counts' = [c \in Channels' |-> CountsIn(FlattenSeq(rr), c)] /\ disk' = disk
        /\ Segs' = [k \in DOMAIN Listed |-> Scanned(Listed[k])]
    BY <1>2 DEF Open
  <2>2. AllRecords' = FlattenSeq([s \in DOMAIN Segs' |-> disk.files[Segs'[s].file].recs])
    BY <2>1 DEF AllRecords, RecsOf
  <2>3. [s \in DOMAIN Segs' |-> disk.files[Segs'[s].file].recs] = rr
    <3>1. DOMAIN Segs' = DOMAIN Listed /\ \A s \in DOMAIN Listed : Segs'[s].file = Listed[s].file
      BY <2>1 DEF Scanned
    <3>2. QED
      BY <3>1
  <2>4. AllRecords' = FlattenSeq(rr)
    BY <2>2, <2>3
  <2> HIDE DEF rr
  <2>5. \A c : CountsIn(AllRecords, c)' = CountsIn(FlattenSeq(rr), c)
    BY <2>4 DEF CountsIn, DataAt
  <2>6. QED
    BY <2>1, <2>5 DEF CountsInv
<1>3. CASE Close
  BY <1>3 DEF Close, CountsInv
<1>4. CASE UNCHANGED <<disk, session>>
  <2>1. AllRecords' = AllRecords
    BY <1>4 DEF AllRecords, RecsOf, session
  <2>2. \A c : CountsIn(AllRecords, c)' = CountsIn(AllRecords, c)
    BY <2>1 DEF CountsIn, DataAt
  <2>3. QED
    BY <1>1, <1>4, <2>2 DEF CountsInv, session
<1>5. QED
  BY <1>1, <1>2, <1>3, <1>4, StepKinds DEF Reopens, Calls, Reads, vars

\* The damaged records before a place.
DamagedBefore(s, k) == {d \in Damaged : Before(d[1], d[2], s, k)}

LEMMA DamagedRecords ==
  /\ \A u, j : <<u, j>> \in Damaged <=>
       u \in DOMAIN Segs /\ j \in DOMAIN RecsOf(Segs[u]) /\ RecsOf(Segs[u])[j].state # "ok"
  /\ \A d \in Damaged : d = <<d[1], d[2]>> /\ d[1] \in DOMAIN Segs /\ d[2] \in DOMAIN RecsOf(Segs[d[1]])
BY DEF Damaged

LEMMA DamagedPlaces ==
  ASSUME DiskInv, NEW d \in Damaged
  PROVE  /\ d[1] \in Nat /\ d[1] >= 1 /\ d[1] <= Len(Segs) /\ d[2] \in Nat /\ d[2] >= 1
         /\ d[2] <= Len(RecsOf(Segs[d[1]]))
         /\ \A s, k : d \in DamagedBefore(s, k) <=> d[1] < s \/ (d[1] = s /\ d[2] < k)
<1>1. d[1] \in DOMAIN Segs /\ d[2] \in DOMAIN RecsOf(Segs[d[1]])
  BY DamagedRecords
<1>2. d[1] \in Nat /\ d[1] >= 1 /\ d[1] <= Len(Segs)
  BY <1>1 DEF DiskInv
<1>3. d[2] \in Nat /\ d[2] >= 1 /\ d[2] <= Len(RecsOf(Segs[d[1]]))
  <2>1. RecsOf(Segs[d[1]]) \in Seq(Records)
    BY <1>1, OpenFiles
  <2>2. QED
    BY <1>1, <2>1
<1>4. \A s, k : d \in DamagedBefore(s, k) <=> d[1] < s \/ (d[1] = s /\ d[2] < k)
  BY <1>1 DEF DamagedBefore, Before
<1>5. QED
  BY <1>2, <1>3, <1>4

NoneBefore == DamagedBefore(1, FirstOffset) = {}

LEMMA DamagedFirst == DiskInv => NoneBefore
<1> SUFFICES ASSUME DiskInv PROVE NoneBefore
  OBVIOUS
<1>1. \A d \in Damaged : d \notin DamagedBefore(1, FirstOffset)
  <2> TAKE d \in Damaged
  <2>1. /\ d[1] \in Nat /\ d[1] >= 1 /\ d[2] \in Nat /\ d[2] >= 1
        /\ d \in DamagedBefore(1, 1) <=> d[1] < 1 \/ (d[1] = 1 /\ d[2] < 1)
    BY DamagedPlaces
  <2>2. QED
    BY <2>1 DEF FirstOffset
<1>2. QED
  BY <1>1 DEF NoneBefore, DamagedBefore

LEMMA DamagedLast ==
  ASSUME DiskInv, NEW s \in Nat, s > Len(Segs), NEW k
  PROVE  DamagedBefore(s, k) = Damaged
<1>1. \A d \in Damaged : d \in DamagedBefore(s, k)
  <2> TAKE d \in Damaged
  <2>1. /\ d[1] \in Nat /\ d[1] <= Len(Segs)
        /\ d \in DamagedBefore(s, k) <=> d[1] < s \/ (d[1] = s /\ d[2] < k)
    BY DamagedPlaces
  <2>2. Len(Segs) \in Nat
    BY DEF DiskInv
  <2>3. QED
    BY <2>1, <2>2
<1>2. QED
  BY <1>1 DEF DamagedBefore

LEMMA DamagedSegment ==
  ASSUME DiskInv, NEW s \in DOMAIN Segs, NEW k \in Nat, k > Len(RecsOf(Segs[s]))
  PROVE  DamagedBefore(s + 1, FirstOffset) = DamagedBefore(s, k)
<1>1. s \in Nat /\ Len(RecsOf(Segs[s])) \in Nat
  <2>1. RecsOf(Segs[s]) \in Seq(Records)
    BY OpenFiles
  <2>2. QED
    BY <2>1 DEF DiskInv
<1>2. \A d \in Damaged : d \in DamagedBefore(s + 1, FirstOffset) <=> d \in DamagedBefore(s, k)
  <2> TAKE d \in Damaged
  <2>1. /\ d[1] \in Nat /\ d[2] \in Nat /\ d[2] >= 1 /\ d[2] <= Len(RecsOf(Segs[d[1]]))
        /\ d \in DamagedBefore(s + 1, 1) <=> d[1] < s + 1 \/ (d[1] = s + 1 /\ d[2] < 1)
        /\ d \in DamagedBefore(s, k) <=> d[1] < s \/ (d[1] = s /\ d[2] < k)
    BY DamagedPlaces
  <2>2. d[1] = s => d[2] < k
    <3>1. SUFFICES ASSUME d[1] = s PROVE d[2] < k
      OBVIOUS
    <3>2. d[2] <= Len(RecsOf(Segs[s]))
      BY <2>1, <3>1
    <3>3. QED
      BY <1>1, <2>1, <3>2
  <2>3. QED
    BY <1>1, <2>1, <2>2 DEF FirstOffset
<1>3. QED
  BY <1>2 DEF DamagedBefore

LEMMA DamagedOver ==
  ASSUME DiskInv, NEW s \in DOMAIN Segs, NEW k \in DOMAIN RecsOf(Segs[s])
  PROVE  IF RecsOf(Segs[s])[k].state = "ok"
         THEN DamagedBefore(s, k + 1) = DamagedBefore(s, k)
         ELSE DamagedBefore(s, k + 1) = DamagedBefore(s, k) \cup {<<s, k>>}
                /\ <<s, k>> \notin DamagedBefore(s, k)
<1>1. s \in Nat /\ k \in Nat
  <2>1. RecsOf(Segs[s]) \in Seq(Records)
    BY OpenFiles
  <2>2. QED
    BY <2>1 DEF DiskInv
<1>2. \A d \in Damaged : d \in DamagedBefore(s, k + 1) <=> d \in DamagedBefore(s, k) \/ d = <<s, k>>
  <2> TAKE d \in Damaged
  <2>1. /\ d[1] \in Nat /\ d[2] \in Nat
        /\ d \in DamagedBefore(s, k + 1) <=> d[1] < s \/ (d[1] = s /\ d[2] < k + 1)
        /\ d \in DamagedBefore(s, k) <=> d[1] < s \/ (d[1] = s /\ d[2] < k)
    BY DamagedPlaces
  <2>2. d = <<s, k>> <=> d[1] = s /\ d[2] = k
    <3>1. d = <<d[1], d[2]>>
      BY DamagedRecords
    <3>2. QED
      BY <3>1
  <2> DEFINE a == d[1]
             b == d[2]
  <2>3. a \in Nat /\ b \in Nat /\ (d = <<s, k>> <=> a = s /\ b = k)
    BY <2>1, <2>2
  <2>4. /\ d \in DamagedBefore(s, k + 1) <=> a < s \/ (a = s /\ b < k + 1)
        /\ d \in DamagedBefore(s, k) <=> a < s \/ (a = s /\ b < k)
    BY <2>1
  <2> HIDE DEF a, b
  <2>5. b < k + 1 <=> b < k \/ b = k
    BY <1>1, <2>3
  <2>6. QED
    BY <2>3, <2>4, <2>5
<1>3. <<s, k>> \notin DamagedBefore(s, k)
  BY <1>1 DEF DamagedBefore, Before
<1>4. <<s, k>> \in Damaged <=> RecsOf(Segs[s])[k].state # "ok"
  BY DamagedRecords
<1>5. DamagedBefore(s, k) \subseteq Damaged /\ DamagedBefore(s, k + 1) \subseteq Damaged
  BY DEF DamagedBefore
<1>6. QED
  BY <1>2, <1>3, <1>4, <1>5

\* The damaged records counted are those before the cursor.
CorruptInv ==
  isOpen /\ ~moved =>
    /\ IsFiniteSet(DamagedBefore(CurSeg, CurOffset))
    /\ CorruptCount = Cardinality(DamagedBefore(CurSeg, CurOffset))

LEMMA SameDamaged ==
  ASSUME UNCHANGED <<disk, Segs>>
  PROVE  DamagedBefore(CurSeg, CurOffset)' = DamagedBefore(CurSeg', CurOffset')
BY DEF DamagedBefore, Damaged, Before, RecsOf

LEMMA CorruptInit == Init => CorruptInv
BY DEF Init, CorruptInv

LEMMA ReadsCount ==
  ASSUME DiskInv, PlaceInv, CorruptInv, NextMessage
  PROVE  CorruptInv'
<1>1. UNCHANGED <<disk, isOpen, Segs, moved>>
  BY DEF NextMessage, TakeInner, StopChunk, NextSegment, SkipDamaged, SkipPacked, SkipOther,
         YieldData, YieldFirstInner, EndOfSegments, Onward, Walking, session
<1>2. DamagedBefore(CurSeg, CurOffset)' = DamagedBefore(CurSeg', CurOffset')
  BY <1>1, SameDamaged
<1>3. SUFFICES ASSUME isOpen, ~moved,
                      IsFiniteSet(DamagedBefore(CurSeg, CurOffset)),
                      CorruptCount = Cardinality(DamagedBefore(CurSeg, CurOffset))
               PROVE  /\ IsFiniteSet(DamagedBefore(CurSeg', CurOffset'))
                      /\ CorruptCount' = Cardinality(DamagedBefore(CurSeg', CurOffset'))
  BY <1>1, <1>2 DEF CorruptInv
<1>4. CASE TakeInner \/ StopChunk \/ EndOfSegments
  <2>1. CurSeg' = CurSeg /\ CurOffset' = CurOffset /\ CorruptCount' = CorruptCount
    BY <1>4 DEF TakeInner, StopChunk, EndOfSegments, cursor
  <2>2. QED
    BY <1>3, <2>1
<1>5. CASE NextSegment
  <2>1. /\ CurSeg' = CurSeg + 1 /\ CurOffset' = FirstOffset /\ CorruptCount' = CorruptCount
        /\ CurSeg <= Len(Segs) /\ CurOffset > Len(RecsOf(Segs[CurSeg]))
    BY <1>5 DEF NextSegment, OffsetInNext, InStream, AtSegmentEnd
  <2>2. CurSeg \in DOMAIN Segs /\ CurOffset \in Nat
    <3>1. CurSeg \in Nat \ {0} /\ CurOffset \in Nat \ {0} /\ DOMAIN Segs = 1..Len(Segs)
      BY DEF PlaceInv, DiskInv
    <3>2. QED
      BY <2>1, <3>1 DEF DiskInv
  <2>3. DamagedBefore(CurSeg + 1, FirstOffset) = DamagedBefore(CurSeg, CurOffset)
    BY <2>1, <2>2, DamagedSegment
  <2>4. QED
    BY <1>3, <2>1, <2>3
<1>6. CASE OverRecord
  <2>1. /\ CurSeg' = CurSeg /\ CurOffset' = CurOffset + 1
        /\ CurSeg \in DOMAIN Segs /\ CurOffset \in DOMAIN RecsOf(Segs[CurSeg])
    <3>1. /\ CurSeg' = CurSeg /\ CurOffset' = CurOffset + 1 /\ CurSeg <= Len(Segs)
          /\ ~ (CurOffset > Len(RecsOf(Segs[CurSeg])))
      BY <1>6 DEF OverRecord, InStream, AtSegmentEnd
    <3>2. CurSeg \in Nat \ {0} /\ CurOffset \in Nat \ {0} /\ DOMAIN Segs = 1..Len(Segs)
      BY DEF PlaceInv, DiskInv
    <3>3. CurSeg \in DOMAIN Segs
      BY <3>1, <3>2 DEF DiskInv
    <3>4. RecsOf(Segs[CurSeg]) \in Seq(Records)
      BY <3>3, OpenFiles
    <3>5. QED
      BY <3>1, <3>2, <3>3, <3>4
  <2>2. /\ IF Current.state = "ok"
           THEN DamagedBefore(CurSeg, CurOffset + 1) = DamagedBefore(CurSeg, CurOffset)
           ELSE /\ DamagedBefore(CurSeg, CurOffset + 1)
                     = DamagedBefore(CurSeg, CurOffset) \cup {<<CurSeg, CurOffset>>}
                /\ <<CurSeg, CurOffset>> \notin DamagedBefore(CurSeg, CurOffset)
    BY <2>1, DamagedOver DEF Current
  <2>3. CASE SkipDamaged \/ SkipPacked
    <3>1. Current.state # "ok" /\ CorruptCount' = CorruptCount + 1
      BY <2>3 DEF SkipDamaged, SkipPacked, CorruptAfterPacked
    <3> DEFINE D == DamagedBefore(CurSeg, CurOffset)
               p == <<CurSeg, CurOffset>>
    <3>2. DamagedBefore(CurSeg', CurOffset') = D \cup {p} /\ p \notin D
      BY <2>1, <2>2, <3>1
    <3>3. IsFiniteSet(D) /\ CorruptCount = Cardinality(D)
      BY <1>3
    <3> HIDE DEF D, p
    <3>4. IsFiniteSet(D \cup {p}) /\ Cardinality(D \cup {p}) = Cardinality(D) + 1
      BY <3>2, <3>3, FS_AddElement
    <3>5. QED
      BY Zenon, <3>1, <3>2, <3>3, <3>4
  <2>4. CASE SkipOther \/ YieldData \/ YieldFirstInner
    <3>1. Current.state = "ok" /\ CorruptCount' = CorruptCount
      BY <2>4 DEF SkipOther, YieldData, YieldFirstInner
    <3>2. QED
      BY <1>3, <2>1, <2>2, <3>1
  <2>5. CASE TakeInner \/ StopChunk \/ EndOfSegments \/ NextSegment
    BY <1>4, <1>5, <2>5
  <2>6. QED
    BY <2>3, <2>4, <2>5 DEF NextMessage
<1>7. QED
  BY <1>4, <1>5, <1>6 DEF NextMessage, SkipDamaged, SkipPacked, SkipOther, YieldData, YieldFirstInner

LEMMA CorruptNext == DiskInv /\ NoneBefore' /\ PlaceInv /\ CorruptInv /\ [Next]_vars => CorruptInv'
<1>1. SUFFICES ASSUME DiskInv, NoneBefore', PlaceInv, CorruptInv, [Next]_vars PROVE CorruptInv'
  OBVIOUS
<1>2. CASE Reopens
  <2>1. CurSeg' = 1 /\ CurOffset' = FirstOffset /\ CorruptCount' = 0
    BY <1>2 DEF Reopens
  <2>2. DamagedBefore(1, FirstOffset)' = {}
    BY <1>1 DEF NoneBefore
  <2>3. DamagedBefore(CurSeg, CurOffset)' = {}
    BY <2>1, <2>2 DEF DamagedBefore, Before
  <2>4. IsFiniteSet({}) /\ Cardinality({}) = 0
    BY FS_EmptySet
  <2>5. QED
    BY <2>1, <2>3, <2>4 DEF CorruptInv
<1>3. CASE Calls \/ UNCHANGED vars
  <2>1. UNCHANGED <<disk, isOpen, Segs, CorruptCount>> /\ (moved' = TRUE \/ UNCHANGED <<CurSeg, CurOffset, moved>>)
    BY <1>3 DEF Calls, vars, session, cursor
  <2>2. DamagedBefore(CurSeg, CurOffset)' = DamagedBefore(CurSeg', CurOffset')
    BY <2>1, SameDamaged
  <2>3. QED
    BY <1>1, <2>1, <2>2 DEF CorruptInv
<1>4. CASE Reads
  BY <1>1, <1>4, ReadsCount DEF Reads
<1>5. QED
  BY <1>1, <1>2, <1>3, <1>4, StepKinds

\* What Open counts is, at the end of a pass without a seek, what was given of
\* each channel and what the damaged and the short records kept, and each
\* damaged record was counted once (ScanSegmentAtOpen and NextMessage,
\* reader.cpp:222-245 and 311-389).
THEOREM FullPassAlwaysAccounts == Spec => []FullPassAccounts
<1>1. DiskInv /\ PlaceInv /\ CountsInv /\ CorruptInv /\ FullPassGivesAll => FullPassAccounts
  <2>1. SUFFICES ASSUME DiskInv, PlaceInv, CountsInv, CorruptInv, FullPassGivesAll, AtEnd, ~moved
                 PROVE  /\ \A ch \in Channels :
                             Counts[ch] = Cardinality(GivenOf(out, ch)) + LostIn(AllRecords, ch)
                        /\ CorruptCount = Cardinality(Damaged)
    BY DEF FullPassAccounts
  <2>2. isOpen /\ CurSeg > Len(Segs) /\ out = AllMessages
    BY <2>1 DEF AtEnd, FullPassGivesAll
  <2>3. AllRecords \in Seq(Records) /\ out = MessagesOf(AllRecords)
    BY <2>1, <2>2, AllOfRecords
  <2>4. ASSUME NEW ch \in Channels
        PROVE  Counts[ch] = Cardinality(GivenOf(out, ch)) + LostIn(AllRecords, ch)
    <3>1. Counts[ch] = CountsIn(AllRecords, ch)
      BY <2>1, <2>2 DEF CountsInv
    <3>2. QED
      BY <2>3, <3>1, CountsBalance
  <2>5. CorruptCount = Cardinality(Damaged)
    <3>1. CurSeg \in Nat
      BY <2>1 DEF PlaceInv
    <3>2. DamagedBefore(CurSeg, CurOffset) = Damaged
      BY <2>1, <2>2, <3>1, DamagedLast
    <3>3. QED
      BY <2>1, <2>2, <3>2 DEF CorruptInv
  <2>6. QED
    BY <2>4, <2>5
<1>2. Spec => [](DiskInv /\ StartOK /\ PlaceInv)
  BY PlaceAlways
<1>3. Spec => []CountsInv
  BY <1>2, CountsInit, CountsNext, PTL DEF Spec
<1>4. Spec => []CorruptInv
  BY <1>2, DamagedFirst, CorruptInit, CorruptNext, PTL DEF Spec
<1>5. QED
  BY <1>1, <1>2, <1>3, <1>4, FullPassAlwaysGivesAll, PTL
=============================================================================
