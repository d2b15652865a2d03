---------------------------- MODULE RecoverProof ----------------------------
(***************************************************************************)
(* Proofs about Recover and Validate, for any session directory, any       *)
(* number of calls, and a crash or a failure at any step.                  *)
(***************************************************************************)
EXTENDS Recover, SessionFilesProof, FiniteSetTheorems

(***************************************************************************)
(* The files: what Recover writes of a segment file.                       *)
(***************************************************************************)
Sealed(f) == f.footer = Len(f.recs) /\ f.footer # NoFooter

\* The index leads to data records, and to one shortly before each data record.
Indexed(f) ==
  /\ \A p \in DOMAIN f.points :
       LET r == f.recs[f.points[p].off]
       IN  IsData(r) /\ r.ch = f.points[p].ch /\ r.ts = f.points[p].ts
  /\ \A r \in DOMAIN f.recs : IsData(f.recs[r]) =>
       \E p \in DOMAIN f.points :
          /\ f.points[p].ch = f.recs[r].ch /\ f.points[p].off <= r
          /\ f.points[p].off = r \/ (f.recs[r].ts - f.points[p].ts) % Word < IndexIntervalNs

Ranged(e, f) == e.start = ScanStart(f.recs) /\ e.end = ScanEnd(f.recs)

LEMMA FileFields ==
  ASSUME NEW f \in SegmentFileShapes
  PROVE  /\ f.recs \in Seq(Records) /\ DOMAIN f.recs = 1..Len(f.recs) /\ Len(f.recs) \in Nat
         /\ f.footer \in Nat /\ f.header \in BOOLEAN /\ f.points \in Seq(Point)
         /\ f = [header |-> f.header, recs |-> f.recs, points |-> f.points, footer |-> f.footer]
BY DEF SegmentFileShapes, Point

LEMMA FileWith ==
  ASSUME NEW h \in BOOLEAN, NEW r \in Seq(Records), NEW p \in Seq(Point), NEW n \in Nat
  PROVE  [header |-> h, recs |-> r, points |-> p, footer |-> n] \in SegmentFileShapes
BY DEF SegmentFileShapes, Point

LEMMA IndexIsRecord == IndexRecord \in Records /\ ~IsData(IndexRecord) /\ IndexRecord.op = "Index"
<1> DEFINE r == IndexRecord
<1>1. r = [op |-> "Index", ch |-> 0, ts |-> 0, msgs |-> <<>>, cnt |-> Len(<<>>), state |-> "ok"]
  BY DEF IndexRecord, Rec, NoChannel
<1>2. <<>> \in Seq(AnyMessage) /\ Len(<<>>) = 0 /\ DOMAIN <<>> = {}
  OBVIOUS
<1>3. r.op = "Index" /\ r.msgs = <<>> /\ r.state = "ok" /\ ~IsData(r)
  BY <1>1 DEF IsData
<1>4. r \in RecordShapes
  BY <1>1, <1>2 DEF RecordShapes, RecordOps
<1>5. \A m \in ToSet(r.msgs) : m.ch = r.ch
  BY <1>2, <1>3 DEF ToSet
<1> HIDE DEF r
<1>6. r \in Records
  BY <1>3, <1>4, <1>5 DEF Records, IsData
<1>7. QED
  BY <1>3, <1>6 DEF r

\* Definitions before data, in a part of the records or with INDEX after them.
LEMMA DefinedPart ==
  ASSUME NEW recs \in Seq(Records), NEW part \in Seq(Records), Len(part) <= Len(recs),
         \A k \in 1..Len(part) : part[k] = recs[k],
         \A k \in DOMAIN recs : IsData(recs[k]) => DefinedAt(recs, k)
  PROVE  \A k \in DOMAIN part : IsData(part[k]) => DefinedAt(part, k)
<1> SUFFICES ASSUME NEW k \in DOMAIN part, IsData(part[k]) PROVE DefinedAt(part, k)
  OBVIOUS
<1>1. /\ DOMAIN part = 1..Len(part) /\ DOMAIN recs = 1..Len(recs)
      /\ Len(part) \in Nat /\ Len(recs) \in Nat
  OBVIOUS
<1>2. k \in 1..Len(part) /\ k \in DOMAIN recs
  BY <1>1
<1>3. PICK d \in 1..(k - 1) : recs[d].op = "ChannelDef" /\ recs[d].ch = recs[k].ch
  BY <1>2 DEF DefinedAt
<1>4. d \in 1..Len(part)
  BY <1>1, <1>2
<1>5. QED
  BY <1>2, <1>3, <1>4 DEF DefinedAt

LEMMA DefinedMore ==
  ASSUME NEW recs \in Seq(Records), NEW r \in Records, ~IsData(r),
         \A k \in DOMAIN recs : IsData(recs[k]) => DefinedAt(recs, k)
  PROVE  \A k \in DOMAIN Append(recs, r) : IsData(Append(recs, r)[k]) => DefinedAt(Append(recs, r), k)
<1> DEFINE t == Append(recs, r)
           n == Len(recs)
<1>1. /\ n \in Nat /\ DOMAIN recs = 1..n /\ DOMAIN t = 1..(n + 1) /\ t[n + 1] = r
      /\ \A k \in 1..n : t[k] = recs[k]
  OBVIOUS
<1> HIDE DEF t, n
<1> SUFFICES ASSUME NEW k \in DOMAIN t, IsData(t[k]) PROVE DefinedAt(t, k)
  BY DEF t
<1>2. k \in 1..n
  BY <1>1
<1>3. PICK d \in 1..(k - 1) : recs[d].op = "ChannelDef" /\ recs[d].ch = recs[k].ch
  BY <1>1, <1>2 DEF DefinedAt
<1>4. d \in 1..n
  BY <1>1, <1>2
<1>5. QED
  BY <1>1, <1>2, <1>3, <1>4 DEF DefinedAt

\* Records, points and footer of a file replaced.
LEMMA FileChanged ==
  ASSUME NEW f \in SegmentFileShapes, NEW r2, NEW p2, NEW n2
  PROVE  [f EXCEPT !.recs = r2, !.points = p2, !.footer = n2]
           = [header |-> f.header, recs |-> r2, points |-> p2, footer |-> n2]
<1>0. PICK h, r, p, n : f = [header |-> h, recs |-> r, points |-> p, footer |-> n]
  BY FileFields
<1>1. [f EXCEPT !.recs = r2] = [header |-> h, recs |-> r2, points |-> p, footer |-> n]
  BY <1>0
<1>2. [[header |-> h, recs |-> r2, points |-> p, footer |-> n] EXCEPT !.points = p2]
        = [header |-> h, recs |-> r2, points |-> p2, footer |-> n]
  OBVIOUS
<1>3. [[header |-> h, recs |-> r2, points |-> p2, footer |-> n] EXCEPT !.footer = n2]
        = [header |-> h, recs |-> r2, points |-> p2, footer |-> n2]
  OBVIOUS
<1>4. f.header = h
  BY <1>0
<1>5. QED
  BY <1>1, <1>2, <1>3, <1>4, Zenon

\* A part of a file without its index and footer, which a failure or a crash
\* can leave.
LEMMA CutIsFile ==
  ASSUME NEW f, IsSegmentFile(f), NEW recs \in Seq(Records), Len(recs) <= Len(f.recs),
         \A k \in 1..Len(recs) : recs[k] = f.recs[k]
  PROVE  IsSegmentFile([f EXCEPT !.recs = recs, !.points = <<>>, !.footer = NoFooter])
<1> DEFINE g == [f EXCEPT !.recs = recs, !.points = <<>>, !.footer = NoFooter]
<1>1. f \in SegmentFileShapes
  BY DEF IsSegmentFile
<1>2. f = [header |-> f.header, recs |-> f.recs, points |-> f.points, footer |-> f.footer]
      /\ f.header \in BOOLEAN /\ f.recs \in Seq(Records)
  BY <1>1, FileFields
<1>3. g = [header |-> f.header, recs |-> recs, points |-> <<>>, footer |-> 0]
  <2>1. g = [header |-> f.header, recs |-> recs, points |-> <<>>, footer |-> NoFooter]
    BY <1>1, FileChanged, Zenon
  <2>2. QED
    BY <2>1 DEF NoFooter
<1> HIDE DEF g
<1>4. <<>> \in Seq(Point) /\ DOMAIN <<>> = {}
  OBVIOUS
<1>5. g \in SegmentFileShapes
  BY <1>2, <1>3, <1>4, FileWith
<1>6. g.recs = recs /\ g.points = <<>> /\ g.footer = 0
  BY <1>3
<1>7. \A k \in DOMAIN recs : IsData(recs[k]) => DefinedAt(recs, k)
  <2> DEFINE whole == f.recs
  <2>1. whole \in Seq(Records) /\ Len(recs) <= Len(whole) /\ \A k \in 1..Len(recs) : recs[k] = whole[k]
    BY <1>2
  <2>2. \A k \in DOMAIN whole : IsData(whole[k]) => DefinedAt(whole, k)
    BY DEF IsSegmentFile
  <2> HIDE DEF whole
  <2>3. QED
    BY <2>1, <2>2, DefinedPart
<1>8. 0 <= Len(recs)
  OBVIOUS
<1>9. IsSegmentFile(g)
  BY <1>4, <1>5, <1>6, <1>7, <1>8 DEF IsSegmentFile
<1>10. QED
  BY <1>9 DEF g

LEMMA BadIsFile == IsSegmentFile(BadFile)
<1>1. <<>> \in Seq(Point) /\ <<>> \in Seq(Records) /\ DOMAIN <<>> = {} /\ Len(<<>>) = 0
  OBVIOUS
<1>2. BadFile \in SegmentFileShapes
  BY <1>1, FileWith DEF BadFile, NoFooter
<1>3. BadFile.recs = <<>> /\ BadFile.points = <<>> /\ BadFile.footer = 0
  BY DEF BadFile, NoFooter
<1>4. QED
  BY <1>1, <1>2, <1>3 DEF IsSegmentFile

-----------------------------------------------------------------------------
(***************************************************************************)
(* The records that Recover keeps.                                         *)
(***************************************************************************)
NotIndex(r) == IF r.op = "Index" THEN <<>> ELSE <<r>>
Keeps(recs) == [k \in DOMAIN recs |-> NotIndex(recs[k])]

LEMMA KeepsType ==
  ASSUME NEW recs \in Seq(Records)
  PROVE  Keeps(recs) \in Seq(Seq(Records)) /\ Len(Keeps(recs)) = Len(recs)
<1> DEFINE n == Len(recs)
           t == Keeps(recs)
<1>1. n \in Nat /\ DOMAIN recs = 1..n /\ \A k \in 1..n : recs[k] \in Records
  OBVIOUS
<1> HIDE DEF n
<1>2. \A k \in 1..n : NotIndex(recs[k]) \in Seq(Records)
  <2> TAKE k \in 1..n
  <2> DEFINE r == recs[k]
  <2>1. r \in Records
    BY <1>1
  <2> HIDE DEF r
  <2>2. <<>> \in Seq(Records) /\ <<r>> \in Seq(Records)
    BY <2>1
  <2>3. QED
    BY <2>2 DEF NotIndex, r
<1>3. t = [k \in 1..n |-> NotIndex(recs[k])]
  BY <1>1 DEF Keeps
<1> HIDE DEF t
<1>4. t \in [1..n -> Seq(Records)]
  BY <1>2, <1>3
<1> DEFINE S == Seq(Records)
<1> HIDE DEF S
<1>5. t \in Seq(S) /\ Len(t) = n
  BY <1>1, <1>4 DEF S
<1>6. QED
  BY <1>5 DEF S, t, n

LEMMA ContentsIs ==
  ASSUME NEW f
  PROVE  Contents(f) = FlattenSeq(Keeps(f.recs))
BY Zenon DEF Contents, Keeps, NotIndex

LEMMA KeepsMore ==
  ASSUME NEW recs \in Seq(Records), NEW r \in Records, r.op = "Index"
  PROVE  FlattenSeq(Keeps(Append(recs, r))) = FlattenSeq(Keeps(recs))
<1> DEFINE more == Append(recs, r)
           n == Len(recs)
           s == Keeps(recs)
           t == Keeps(more)
           S == Seq(Records)
<1>1. /\ n \in Nat /\ DOMAIN recs = 1..n /\ DOMAIN more = 1..(n + 1) /\ more[n + 1] = r
      /\ \A k \in 1..n : more[k] = recs[k]
  OBVIOUS
<1> HIDE DEF more, n
<1>2. s \in Seq(S) /\ Len(s) = n
  BY KeepsType DEF n
<1>3. <<>> \in S
  OBVIOUS
<1>4. t = [k \in DOMAIN t |-> t[k]] /\ DOMAIN t = 1..(n + 1)
  BY <1>1 DEF Keeps
<1>5. /\ \A k \in 1..n : t[k] = s[k]
      /\ t[n + 1] = <<>>
  <2>1. \A k \in 1..(n + 1) : t[k] = NotIndex(more[k])
    BY <1>1 DEF Keeps
  <2>2. \A k \in 1..n : s[k] = NotIndex(recs[k])
    BY <1>1 DEF Keeps
  <2>3. n + 1 \in 1..(n + 1) /\ \A k \in 1..n : k \in 1..(n + 1)
    BY <1>1
  <2> HIDE DEF s, t
  <2>4. t[n + 1] = NotIndex(r)
    BY <1>1, <2>1, <2>3
  <2>5. NotIndex(r) = <<>>
    BY DEF NotIndex
  <2>6. QED
    BY <1>1, <2>1, <2>2, <2>3, <2>4, <2>5
<1> HIDE DEF s, t, S
<1>6. t = Append(s, <<>>)
  BY <1>1, <1>2, <1>3, <1>4, <1>5, IsAppend
<1>7. FlattenSeq(t) = FlattenSeq(s) \o <<>>
  BY <1>2, <1>3, <1>6, FlattenAppend DEF S
<1>8. FlattenSeq(s) \in Seq(Records)
  BY <1>2, FlattenType DEF S
<1>9. FlattenSeq(t) = FlattenSeq(s)
  <2> DEFINE x == FlattenSeq(s)
  <2> HIDE DEF x
  <2>1. x \o <<>> = x
    BY <1>8 DEF x
  <2>2. QED
    BY <1>7, <2>1 DEF x
<1>10. QED
  BY <1>9 DEF s, t, more

LEMMA TimesMore ==
  ASSUME NEW recs \in Seq(Records), NEW r \in Records, ~IsData(r)
  PROVE  DataTimes(Append(recs, r)) = DataTimes(recs)
<1> DEFINE more == Append(recs, r)
           n == Len(recs)
<1>1. /\ n \in Nat /\ DOMAIN recs = 1..n /\ DOMAIN more = 1..(n + 1) /\ more[n + 1] = r
      /\ \A k \in 1..n : more[k] = recs[k]
  OBVIOUS
<1> HIDE DEF more, n
<1>2. \A k : k \in 1..(n + 1) <=> k \in 1..n \/ k = n + 1
  BY <1>1
<1>3. {k \in DOMAIN more : IsData(more[k])} = {k \in DOMAIN recs : IsData(recs[k])}
  BY <1>1, <1>2
<1>4. DataTimes(more) = DataTimes(recs)
  BY <1>1, <1>3 DEF DataTimes
<1>5. QED
  BY <1>4 DEF more

\* The copy that Recover writes of a file: complete, indexed, with its records.
Repairs(g, f) ==
  /\ IsSegmentFile(g) /\ g.header = f.header /\ Sealed(g) /\ Indexed(g)
  /\ Contents(g) = Contents(f) /\ DataTimes(g.recs) = DataTimes(f.recs)

LEMMA RewrittenForm ==
  ASSUME NEW f, IsSegmentFile(f)
  PROVE  Rewritten(f) = [header |-> f.header, recs |-> Append(f.recs, IndexRecord),
                         points |-> PointsOfRecords(f.recs), footer |-> Len(f.recs) + 1]
<1>1. f \in SegmentFileShapes
  BY DEF IsSegmentFile
<1>2. [f EXCEPT !.recs = Append(f.recs, IndexRecord), !.points = PointsOfRecords(f.recs),
                !.footer = Len(f.recs) + 1]
        = [header |-> f.header, recs |-> Append(f.recs, IndexRecord),
           points |-> PointsOfRecords(f.recs), footer |-> Len(f.recs) + 1]
  BY <1>1, FileChanged, Zenon
<1>3. QED
  BY <1>2, Zenon DEF Rewritten

LEMMA RewrittenRepairs ==
  ASSUME NEW f, IsSegmentFile(f)
  PROVE  Repairs(Rewritten(f), f)
<1> DEFINE g == Rewritten(f)
           recs == f.recs
           more == Append(recs, IndexRecord)
           points == PointsOfRecords(recs)
           n == Len(recs)
<1>1. f \in SegmentFileShapes /\ \A k \in DOMAIN recs : IsData(recs[k]) => DefinedAt(recs, k)
  BY DEF IsSegmentFile
<1>2. recs \in Seq(Records) /\ n \in Nat /\ DOMAIN recs = 1..n /\ f.header \in BOOLEAN
  BY <1>1, FileFields
<1>3. g = [header |-> f.header, recs |-> more, points |-> points, footer |-> n + 1]
  BY RewrittenForm
<1> HIDE DEF g, recs
<1>4. PointsServe(recs, n, points)
  BY <1>2, ScanServes
<1> HIDE DEF points
<1>5. IndexRecord \in Records /\ ~IsData(IndexRecord) /\ IndexRecord.op = "Index"
  BY IndexIsRecord
<1>6. /\ more \in Seq(Records) /\ Len(more) = n + 1 /\ DOMAIN more = 1..(n + 1)
      /\ more[n + 1] = IndexRecord /\ \A k \in 1..n : more[k] = recs[k]
  BY <1>2, <1>5
<1>7. \A k \in DOMAIN more : IsData(more[k]) => DefinedAt(more, k)
  BY <1>1, <1>2, <1>5, DefinedMore
<1>8. FlattenSeq(Keeps(more)) = FlattenSeq(Keeps(recs)) /\ DataTimes(more) = DataTimes(recs)
  BY <1>2, <1>5, KeepsMore, TimesMore
<1> HIDE DEF more, n
<1>9. g.header = f.header /\ g.recs = more /\ g.points = points /\ g.footer = n + 1
  BY <1>3
<1>10. /\ points \in Seq(Point)
       /\ \A p \in DOMAIN points :
            /\ points[p].off \in 1..n /\ IsData(recs[points[p].off])
            /\ recs[points[p].off].ch = points[p].ch /\ recs[points[p].off].ts = points[p].ts
       /\ \A r \in 1..n : IsData(recs[r]) =>
            \E p \in DOMAIN points :
               /\ points[p].ch = recs[r].ch /\ points[p].off <= r
               /\ points[p].off = r \/ (recs[r].ts - points[p].ts) % Word < IndexIntervalNs
  BY <1>4 DEF PointsServe, PointsLead, Served, LastUpTo
<1>11. n + 1 \in Nat /\ \A k \in 1..(n + 1) : k \in 1..n \/ k = n + 1
  BY <1>2
<1>12. g \in SegmentFileShapes
  BY <1>2, <1>3, <1>6, <1>10, <1>11, FileWith
<1>13. IsSegmentFile(g)
  <2>1. \A p \in DOMAIN points : points[p].off \in DOMAIN more
    BY <1>2, <1>6, <1>10
  <2>2. n + 1 <= Len(more)
    BY <1>6, <1>11
  <2>3. QED
    BY <1>7, <1>9, <1>12, <2>1, <2>2 DEF IsSegmentFile
<1>14. Sealed(g)
  <2>1. n + 1 # 0
    BY <1>2
  <2>2. QED
    BY <1>6, <1>9, <2>1 DEF Sealed, NoFooter
<1>15. Indexed(g)
  <2>1. \A p \in DOMAIN points :
          IsData(more[points[p].off]) /\ more[points[p].off].ch = points[p].ch
          /\ more[points[p].off].ts = points[p].ts
    BY <1>6, <1>10
  <2>2. \A r \in DOMAIN more : IsData(more[r]) =>
          \E p \in DOMAIN points :
             /\ points[p].ch = more[r].ch /\ points[p].off <= r
             /\ points[p].off = r \/ (more[r].ts - points[p].ts) % Word < IndexIntervalNs
    BY <1>5, <1>6, <1>10, <1>11
  <2>3. QED
    BY <1>9, <2>1, <2>2 DEF Indexed
<1>16. Contents(g) = Contents(f)
  BY <1>8, <1>9, ContentsIs DEF recs
<1>17. QED
  BY <1>8, <1>9, <1>13, <1>14, <1>15, <1>16 DEF Repairs, g, recs

-----------------------------------------------------------------------------
(***************************************************************************)
(* The files that Recover can leave: whole, cut short, or without header.  *)
(***************************************************************************)
LEMMA WithoutFooter ==
  ASSUME NEW g, IsSegmentFile(g)
  PROVE  IsSegmentFile([g EXCEPT !.footer = NoFooter])
<1> DEFINE h == [g EXCEPT !.footer = NoFooter]
<1>1. g \in SegmentFileShapes
  BY DEF IsSegmentFile
<1>2. /\ g.recs \in Seq(Records) /\ g.points \in Seq(Point) /\ g.header \in BOOLEAN
      /\ Len(g.recs) \in Nat
  BY <1>1, FileFields
<1>3. h = [header |-> g.header, recs |-> g.recs, points |-> g.points, footer |-> 0]
  <2>1. PICK a, r, p, n : g = [header |-> a, recs |-> r, points |-> p, footer |-> n]
    BY <1>1, FileFields
  <2>2. h = [header |-> a, recs |-> r, points |-> p, footer |-> 0]
    BY <2>1 DEF NoFooter
  <2>3. g.header = a /\ g.recs = r /\ g.points = p
    BY <2>1
  <2> HIDE DEF h
  <2>4. QED
    BY <2>2, <2>3
<1> HIDE DEF h
<1>4. h \in SegmentFileShapes
  BY <1>2, <1>3, FileWith
<1>5. h.recs = g.recs /\ h.points = g.points /\ h.footer = 0
  BY <1>3
<1>6. IsSegmentFile(h)
  BY <1>2, <1>4, <1>5 DEF IsSegmentFile
<1>7. QED
  BY <1>6 DEF h

LEMMA WithoutIndex ==
  ASSUME NEW f, IsSegmentFile(f)
  PROVE  IsSegmentFile([f EXCEPT !.points = <<>>, !.footer = NoFooter])
<1> DEFINE h == [f EXCEPT !.points = <<>>, !.footer = NoFooter]
           recs == f.recs
<1>1. f \in SegmentFileShapes
  BY DEF IsSegmentFile
<1>2. recs \in Seq(Records) /\ Len(recs) <= Len(f.recs)
  BY <1>1, FileFields
<1>3. [f EXCEPT !.recs = recs, !.points = <<>>, !.footer = NoFooter]
        = [header |-> f.header, recs |-> recs, points |-> <<>>, footer |-> NoFooter]
  BY <1>1, FileChanged, Zenon
<1>4. h = [header |-> f.header, recs |-> recs, points |-> <<>>, footer |-> NoFooter]
  <2>1. PICK a, r, p, n : f = [header |-> a, recs |-> r, points |-> p, footer |-> n]
    BY <1>1, FileFields
  <2>2. [f EXCEPT !.points = <<>>] = [header |-> a, recs |-> r, points |-> <<>>, footer |-> n]
    BY <2>1
  <2>3. [[header |-> a, recs |-> r, points |-> <<>>, footer |-> n] EXCEPT !.footer = NoFooter]
          = [header |-> a, recs |-> r, points |-> <<>>, footer |-> NoFooter]
    OBVIOUS
  <2>4. f.header = a /\ f.recs = r
    BY <2>1
  <2>5. QED
    BY <2>2, <2>3, <2>4, Zenon
<1>5. IsSegmentFile([f EXCEPT !.recs = recs, !.points = <<>>, !.footer = NoFooter])
  <2> DEFINE part == f.recs
  <2>1. part \in Seq(Records) /\ Len(part) <= Len(f.recs) /\ \A k \in 1..Len(part) : part[k] = f.recs[k]
    BY <1>2
  <2> HIDE DEF part
  <2>2. IsSegmentFile([f EXCEPT !.recs = part, !.points = <<>>, !.footer = NoFooter])
    BY <2>1, CutIsFile, Zenon
  <2>3. QED
    BY <2>2 DEF part
<1>6. QED
  BY <1>3, <1>4, <1>5, Zenon

LEMMA PartsAreFiles ==
  ASSUME NEW f, IsSegmentFile(f), NEW g \in PartsOf(f)
  PROVE  IsSegmentFile(g)
<1>1. CASE g = BadFile
  BY <1>1, BadIsFile
<1>2. CASE g # BadFile
  <2>1. PICK k \in 0..Len(f.recs) :
          g = [f EXCEPT !.recs = SubSeq(@, 1, k), !.points = <<>>, !.footer = NoFooter]
    BY <1>2, Zenon DEF PartsOf
  <2> DEFINE part == SubSeq(f.recs, 1, k)
  <2>2. f.recs \in Seq(Records) /\ Len(f.recs) \in Nat
    BY FileFields DEF IsSegmentFile
  <2>3. part \in Seq(Records) /\ Len(part) = k /\ \A j \in 1..k : part[j] = f.recs[j]
    <3> DEFINE s == f.recs
    <3> HIDE DEF s
    <3>1. s \in Seq(Records) /\ k \in 0..Len(s)
      BY <2>2 DEF s
    <3>2. SubSeq(s, 1, k) \in Seq(Records) /\ Len(SubSeq(s, 1, k)) = k
          /\ \A j \in 1..k : SubSeq(s, 1, k)[j] = s[j]
      BY <3>1
    <3>3. QED
      BY <3>2 DEF s
  <2> HIDE DEF part
  <2>4. IsSegmentFile([f EXCEPT !.recs = part, !.points = <<>>, !.footer = NoFooter])
    <3>1. /\ part \in Seq(Records) /\ Len(part) <= Len(f.recs)
          /\ \A j \in 1..Len(part) : part[j] = f.recs[j]
      BY <2>2, <2>3
    <3>2. QED
      BY <3>1, CutIsFile, Zenon
  <2>5. QED
    BY <2>1, <2>4, Zenon DEF part
<1>3. QED
  BY <1>1, <1>2

LEMMA PartialsAreFiles ==
  ASSUME NEW f, f = files[Current], IsSegmentFile(f), NEW g \in PartialCopies
  PROVE  IsSegmentFile(g)
<1>1. \/ g = BadFile \/ g = [f EXCEPT !.points = <<>>, !.footer = NoFooter]
      \/ g = [Rewritten(f) EXCEPT !.footer = NoFooter]
  BY Zenon DEF PartialCopies
<1>2. IsSegmentFile(Rewritten(f))
  BY RewrittenRepairs DEF Repairs
<1>3. IsSegmentFile([Rewritten(f) EXCEPT !.footer = NoFooter])
  BY <1>2, WithoutFooter, Zenon
<1>4. IsSegmentFile([f EXCEPT !.points = <<>>, !.footer = NoFooter])
  BY WithoutIndex, Zenon
<1>5. QED
  BY <1>1, <1>3, <1>4, BadIsFile, Zenon

-----------------------------------------------------------------------------
(***************************************************************************)
(* Types: the files are segment files at every step, and while a file is   *)
(* replaced it and its copy are there.                                     *)
(***************************************************************************)
OnFile == pc \in {"replace", "replacing", "remove", "handler"}

Shape ==
  /\ TypeOK
  /\ IsFiniteSet(DOMAIN files)
  /\ IsSeq(listing) /\ IsSeq(manifest.segs)
  /\ OnFile => i \in DOMAIN listing /\ Current \in DOMAIN copies

LEMMA SeqIs ==
  ASSUME NEW S, NEW s \in Seq(S)
  PROVE  IsSeq(s) /\ DOMAIN s = 1..Len(s) /\ Len(s) \in Nat
<1>1. DOMAIN s = 1..Len(s) /\ Len(s) \in Nat /\ s = [k \in 1..Len(s) |-> s[k]]
  OBVIOUS
<1> DEFINE n == Len(s)
<1>2. n \in Nat /\ DOMAIN s = 1..n /\ s = [k \in 1..n |-> s[k]]
  BY <1>1
<1> HIDE DEF n
<1>3. IsSeq(s)
  BY <1>2, IsSeqOf
<1>4. QED
  BY <1>1, <1>3

LEMMA SeqDomain ==
  ASSUME NEW s, IsSeq(s)
  PROVE  DOMAIN s = 1..Len(s) /\ Len(s) \in Nat
BY DEF IsSeq

LEMMA EmptyIsSeq == IsSeq(<<>>) /\ Len(<<>>) = 0 /\ DOMAIN <<>> = {}
<1>1. <<>> \in Seq({})
  OBVIOUS
<1>2. IsSeq(<<>>)
  BY <1>1, SeqIs
<1>3. QED
  BY <1>2

LEMMA ListingIsSeq ==
  ASSUME IsFiniteSet(DOMAIN files)
  PROVE  IsSeq(ListDirectory)
<1> DEFINE n == Cardinality(DOMAIN files)
           names == CHOOSE m \in [1..n -> DOMAIN files] : \A j, k \in 1..n : j < k => m[j] < m[k]
           t == [k \in 1..n |-> Entry(names[k], 0, 0)]
<1>1. n \in Nat
  BY FS_CardinalityType
<1>2. ListDirectory = t
  BY DEF ListDirectory
<1> HIDE DEF n, names
<1>3. DOMAIN t = 1..n /\ t = [k \in 1..n |-> t[k]]
  OBVIOUS
<1> HIDE DEF t
<1>4. QED
  BY <1>1, <1>2, <1>3, IsSeqOf

LEMMA Scanned ==
  ASSUME IsSeq(listing), i \in DOMAIN listing
  PROVE  /\ IsSeq(ListingScanned) /\ Len(ListingScanned) = Len(listing)
         /\ DOMAIN ListingScanned = DOMAIN listing
         /\ \A k \in DOMAIN listing : k # i => ListingScanned[k] = listing[k]
         /\ \A k \in DOMAIN listing : ListingScanned[k].file = listing[k].file
         /\ ListingScanned[i] = ScannedEntry(Current, files[Current].recs)
<1> DEFINE e == ScannedEntry(Current, files[Current].recs)
           t == [listing EXCEPT ![i] = e]
<1>1. ListingScanned = t
  BY DEF ListingScanned
<1>2. e.file = listing[i].file
  BY DEF ScannedEntry, Entry, Current
<1> HIDE DEF e
<1>3. /\ IsSeq(t) /\ Len(t) = Len(listing) /\ DOMAIN t = DOMAIN listing
      /\ \A k \in DOMAIN listing : t[k] = IF k = i THEN e ELSE listing[k]
  BY ReplaceSeq
<1> HIDE DEF t
<1>4. QED
  BY <1>1, <1>2, <1>3 DEF e

LEMMA Copied ==
  ASSUME NEW f
  PROVE  /\ DOMAIN WithCopy(f) = DOMAIN copies \cup {Current} /\ WithCopy(f)[Current] = f
         /\ \A k \in DOMAIN copies : k # Current => WithCopy(f)[k] = copies[k]
BY DEF WithCopy

\* The count of corrupt records that Validate reports is a number.
LEMMA CorruptIsNat ==
  ASSUME Shape, \A k \in DOMAIN manifest.segs : ~Stops(k)
  PROVE  /\ CorruptRecords \in Nat
         /\ (\A k \in DOMAIN manifest.segs :
               LET f == files[manifest.segs[k].file] IN DamagedIn(f) = 0 /\ MiscountIn(f) = 0)
            => CorruptRecords = 0
<1> DEFINE f(k) == files[manifest.segs[k].file]
           v == [k \in DOMAIN manifest.segs |-> DamagedIn(f(k)) + MiscountIn(f(k))]
<1>1. DOMAIN manifest.segs = 1..Len(manifest.segs) /\ Len(manifest.segs) \in Nat
  BY SeqDomain DEF Shape
<1>2. IsFiniteSet(DOMAIN v)
  BY <1>1, FS_Interval
<1>3. \A g : IsSegmentFile(g) => DamagedIn(g) \in Nat /\ MiscountIn(g) \in Nat
  <2> SUFFICES ASSUME NEW g, IsSegmentFile(g) PROVE DamagedIn(g) \in Nat /\ MiscountIn(g) \in Nat
    OBVIOUS
  <2> DEFINE s == {k \in DOMAIN g.recs : g.recs[k].state = "crc"}
  <2>1. DOMAIN g.recs = 1..Len(g.recs) /\ Len(g.recs) \in Nat
    BY FileFields DEF IsSegmentFile
  <2>2. IsFiniteSet(DOMAIN g.recs)
    BY <2>1, FS_Interval
  <2>3. IsFiniteSet(s)
    BY <2>2, FS_Subset
  <2> HIDE DEF s
  <2>4. Cardinality(s) \in Nat
    BY <2>3, FS_CardinalityType
  <2>5. QED
    BY <2>4 DEF DamagedIn, MiscountIn, s
<1>4. \A k \in DOMAIN manifest.segs : IsSegmentFile(f(k))
  BY DEF Stops, Shape, TypeOK
<1> HIDE DEF f
<1>5. \A k \in DOMAIN v : v[k] \in Nat
  BY <1>3, <1>4
<1>6. (\A k \in DOMAIN manifest.segs : DamagedIn(f(k)) = 0 /\ MiscountIn(f(k)) = 0)
        => \A k \in DOMAIN v : v[k] = 0
  OBVIOUS
<1>7. CorruptRecords = SumFunction(v)
  BY DEF CorruptRecords, f
<1>8. DOMAIN v = DOMAIN manifest.segs
  OBVIOUS
<1> HIDE DEF v
<1>9. SumFunction(v) \in Nat /\ ((\A k \in DOMAIN v : v[k] = 0) => SumFunction(v) = 0)
  BY <1>2, <1>5, SumFacts
<1>10. QED
  BY <1>6, <1>7, <1>8, <1>9 DEF f

LEMMA InitShape == Init => Shape
<1> SUFFICES ASSUME Init PROVE Shape
  OBVIOUS
<1>1. PICK d \in Directories : files = d.files /\ manifest = d.manifest
  BY DEF Init
<1>2. /\ IsFiniteSet(DOMAIN files) /\ \A f \in DOMAIN files : IsSegmentFile(files[f])
      /\ manifest.segs \in Seq([file: Nat, start: Nat, end: Nat])
  BY <1>1, DirectoriesAssumption
<1>3. IsSeq(manifest.segs)
  BY <1>2, SeqIs
<1>4. IsSeq(listing) /\ i \in 1..(Len(listing) + 1)
  BY EmptyIsSeq DEF Init
<1>5. DOMAIN copies = {}
  BY EmptyIsSeq DEF Init
<1>6. \A b \in Nat : 0 \in 0..b
  OBVIOUS
<1>7. QED
  BY <1>2, <1>3, <1>4, <1>5, <1>6, BoundsAssumption DEF Init, Shape, TypeOK, OnFile

LEMMA CountersStep ==
  ASSUME calls \in 0..MaxCalls, crashes \in 0..MaxCrashes, faults \in 0..MaxFaults, [Next]_vars
  PROVE  /\ calls' \in 0..MaxCalls /\ crashes' \in 0..MaxCrashes /\ faults' \in 0..MaxFaults
         /\ MaxCalls \in Nat /\ MaxCrashes \in Nat /\ MaxFaults \in Nat
<1>1. MaxCalls \in Nat /\ MaxCrashes \in Nat /\ MaxFaults \in Nat
  BY BoundsAssumption
<1>2. \A b \in Nat : \A x \in 0..b : x < b => x + 1 \in 0..b
  OBVIOUS
<1>3. calls' = calls \/ (calls < MaxCalls /\ calls' = calls + 1)
  BY DEF Next, Start, StartFails, SkipSegment, WriteCopy, WriteCopyFails, BeginReplace,
         EndReplace, RemoveCopy, ReplaceFails, RemoveFails, HandlerRemoves, HandlerThrows,
         Finish, Crash, Validate, Counting, history, vars
<1>4. crashes' = crashes \/ (crashes < MaxCrashes /\ crashes' = crashes + 1)
  BY DEF Next, Start, StartFails, SkipSegment, WriteCopy, WriteCopyFails, BeginReplace,
         EndReplace, RemoveCopy, ReplaceFails, RemoveFails, HandlerRemoves, HandlerThrows,
         Finish, Crash, Validate, history, vars
<1>5. faults' = faults \/ (faults < MaxFaults /\ faults' = faults + 1)
  BY DEF Next, Start, StartFails, SkipSegment, WriteCopy, WriteCopyFails, BeginReplace,
         EndReplace, RemoveCopy, ReplaceFails, RemoveFails, HandlerRemoves, HandlerThrows,
         Finish, Crash, Validate, Faulty, history, vars
<1>6. QED
  BY <1>1, <1>2, <1>3, <1>4, <1>5

LEMMA StepShape == Shape /\ [Next]_vars => Shape'
<1> SUFFICES ASSUME Shape, [Next]_vars PROVE Shape'
  OBVIOUS
<1>0. /\ IsSeq(listing) /\ DOMAIN listing = 1..Len(listing) /\ Len(listing) \in Nat
      /\ \A f \in DOMAIN files : IsSegmentFile(files[f])
      /\ \A f \in DOMAIN copies : f \in DOMAIN files /\ IsSegmentFile(copies[f])
  BY SeqDomain DEF Shape, TypeOK
<1>a. /\ calls' \in 0..MaxCalls /\ crashes' \in 0..MaxCrashes /\ faults' \in 0..MaxFaults
      /\ MaxCalls \in Nat /\ MaxCrashes \in Nat /\ MaxFaults \in Nat
  BY CountersStep DEF Shape, TypeOK
<1>1. CASE Start
  <2>1. IsSeq(listing')
    <3>1. IsSeq(ManifestSegs)
      BY EmptyIsSeq DEF ManifestSegs, Shape
    <3>2. IsSeq(ListDirectory)
      BY ListingIsSeq DEF Shape
    <3>3. QED
      BY <1>1, <3>1, <3>2 DEF Start
  <2>2. Len(listing') \in Nat
    BY <2>1, SeqDomain
  <2>3. i' \in 1..(Len(listing') + 1) /\ ~OnFile'
    BY <1>1, <2>2 DEF Start, OnFile
  <2>4. QED
    BY <1>a, <1>1, <2>1, <2>3 DEF Shape, TypeOK, Start, Counting, disk
<1>2. CASE StartFails
  BY <1>a, <1>2 DEF Shape, TypeOK, OnFile, StartFails, Counting, Faulty, disk, memory, Current
<1>3. CASE SkipSegment
  BY <1>a, <1>0, <1>3 DEF Shape, TypeOK, OnFile, SkipSegment, OnSegment, NextSegment, disk, history
<1>4. CASE WriteCopy
  <2> DEFINE g == Rewritten(files[Current])
  <2>1. i \in DOMAIN listing /\ Current \in DOMAIN files
    BY <1>0, <1>4 DEF Shape, TypeOK, WriteCopy, OnSegment, Recoverable
  <2>2. IsSegmentFile(g)
    <3> DEFINE f == files[Current]
    <3>1. IsSegmentFile(f)
      BY <1>0, <2>1
    <3> HIDE DEF f
    <3>2. IsSegmentFile(Rewritten(f))
      BY <3>1, RewrittenRepairs DEF Repairs
    <3>3. QED
      BY <3>2 DEF f
  <2> HIDE DEF g
  <2>3. copies' = WithCopy(g)
    BY <1>4 DEF WriteCopy, g
  <2>4. \A k \in DOMAIN copies' : k \in DOMAIN files /\ IsSegmentFile(copies'[k])
    BY <1>0, <2>1, <2>2, <2>3, Copied
  <2>5. /\ IsSeq(listing') /\ Len(listing') = Len(listing) /\ DOMAIN listing' = DOMAIN listing
        /\ listing'[i].file = Current
    BY <1>0, <1>4, <2>1, Scanned DEF WriteCopy, Current
  <2>6. listing'[i'].file \in DOMAIN copies'
    BY <1>4, <2>3, <2>5, Copied DEF WriteCopy
  <2>7. QED
    BY <1>a, <1>4, <2>1, <2>4, <2>5, <2>6 DEF Shape, TypeOK, OnFile, WriteCopy, history, Current
<1>5. CASE WriteCopyFails
  <2>1. i \in DOMAIN listing /\ Current \in DOMAIN files
    BY <1>0, <1>5 DEF Shape, TypeOK, WriteCopyFails, OnSegment, Recoverable
  <2>2. \A k \in DOMAIN copies' : k \in DOMAIN files /\ IsSegmentFile(copies'[k])
    <3>1. CASE copies' = copies
      BY <1>0, <3>1
    <3>2. CASE copies' # copies
      <4>1. PICK g \in PartialCopies : copies' = WithCopy(g)
        BY <1>5, <3>2 DEF WriteCopyFails
      <4>2. IsSegmentFile(g)
        BY <1>0, <2>1, PartialsAreFiles
      <4>3. QED
        BY <1>0, <2>1, <4>1, <4>2, Copied
    <3>3. QED
      BY <3>1, <3>2
  <2>3. IsSeq(listing') /\ Len(listing') = Len(listing)
    BY <1>0, <1>5, <2>1, Scanned DEF WriteCopyFails
  <2>4. QED
    BY <1>a, <1>0, <1>5, <2>1, <2>2, <2>3
    DEF Shape, TypeOK, OnFile, WriteCopyFails, NextSegment, Faulty
<1>6. CASE BeginReplace
  <2>1. PICK part \in PartsOf(copies[Current]) : files' = [files EXCEPT ![Current] = part]
    BY <1>6 DEF BeginReplace
  <2>2. Current \in DOMAIN copies
    BY <1>6 DEF BeginReplace, Shape, OnFile
  <2>3. IsSegmentFile(part)
    <3> DEFINE f == copies[Current]
    <3>1. IsSegmentFile(f)
      BY <1>0, <2>2
    <3> HIDE DEF f
    <3>2. part \in PartsOf(f)
      BY <2>1 DEF f
    <3>3. QED
      BY <3>1, <3>2, PartsAreFiles
  <2>4. DOMAIN files' = DOMAIN files /\ \A f \in DOMAIN files : IsSegmentFile(files'[f])
    BY <1>0, <2>1, <2>3
  <2>5. QED
    BY <1>a, <1>6, <2>2, <2>4 DEF Shape, TypeOK, OnFile, BeginReplace, memory, history, Current
<1>7. CASE EndReplace
  <2>1. Current \in DOMAIN copies
    BY <1>7 DEF EndReplace, Shape, OnFile
  <2>2. DOMAIN files' = DOMAIN files /\ \A f \in DOMAIN files : IsSegmentFile(files'[f])
    BY <1>0, <1>7, <2>1 DEF EndReplace
  <2>3. QED
    BY <1>a, <1>7, <2>1, <2>2 DEF Shape, TypeOK, OnFile, EndReplace, memory, history, Current
<1>8. CASE RemoveCopy \/ HandlerRemoves
  <2>1. i \in DOMAIN listing
    BY <1>8 DEF RemoveCopy, HandlerRemoves, Shape, OnFile
  <2>2. \A k \in DOMAIN copies' : k \in DOMAIN files /\ IsSegmentFile(copies'[k])
    BY <1>0, <1>8 DEF RemoveCopy, HandlerRemoves, NoCopy
  <2>3. /\ pc' = "segment" /\ i' = i + 1 /\ anyRecovered' \in {TRUE, anyRecovered}
        /\ UNCHANGED <<files, manifest, listing, original, torn, corrupt>>
    BY <1>8 DEF RemoveCopy, HandlerRemoves, NextSegment, history
  <2>4. i' \in 1..(Len(listing) + 1) /\ ~OnFile'
    BY <1>0, <2>1, <2>3 DEF OnFile
  <2>5. QED
    BY <1>a, <2>2, <2>3, <2>4 DEF Shape, TypeOK
<1>9. CASE ReplaceFails \/ RemoveFails
  <2>1. Current \in DOMAIN copies /\ Current \in DOMAIN files /\ Current' = Current
    BY <1>0, <1>9 DEF ReplaceFails, RemoveFails, Shape, OnFile, memory, Current
  <2>2. QED
    BY <1>a, <1>9, <2>1 DEF Shape, TypeOK, OnFile, ReplaceFails, RemoveFails, Faulty, disk, memory
<1>10. CASE Finish
  <2>1. IsSeq(manifest'.segs)
    BY <1>0, <1>10 DEF Finish, Shape
  <2>2. QED
    BY <1>a, <1>10, <2>1 DEF Shape, TypeOK, OnFile, Finish, memory
<1>11. CASE Crash \/ HandlerThrows
  <2>1. torn' \subseteq DOMAIN files
    BY <1>0, <1>11 DEF Crash, HandlerThrows, Shape, TypeOK, OnFile, history
  <2>2. IsSeq(listing') /\ i' \in 1..(Len(listing') + 1) /\ ~OnFile'
    <3>1. listing' = <<>> /\ i' = 1 /\ pc' = "ready"
      BY <1>11 DEF Crash, HandlerThrows, NoMemory
    <3>2. 1 \in 1..(0 + 1)
      OBVIOUS
    <3>3. QED
      BY <3>1, <3>2, EmptyIsSeq DEF OnFile
  <2>3. QED
    BY <1>a, <1>11, <2>1, <2>2 DEF Shape, TypeOK, Crash, HandlerThrows, NoMemory, disk, history
<1>12. CASE Validate
  <2>1. corrupt' \in Nat
    BY <1>12, CorruptIsNat DEF Validate, Shape, TypeOK
  <2>2. QED
    BY <1>a, <1>12, <2>1 DEF Shape, TypeOK, OnFile, Validate, Counting, disk, memory, Current
<1>13. CASE UNCHANGED vars
  BY <1>a, <1>13 DEF Shape, TypeOK, OnFile, vars, disk, memory, history, Current
<1>14. QED
  BY <1>1, <1>2, <1>3, <1>4, <1>5, <1>6, <1>7, <1>8, <1>9, <1>10, <1>11, <1>12, <1>13 DEF Next

LEMMA ShapeAlways == Spec => []Shape
BY InitShape, StepShape, PTL DEF Spec

\* Recover and Validate keep the types, TypeOK: a file stays a segment file, and
\* is there with its copy while Recover replaces it, whatever fails.
THEOREM TypesAlwaysCorrect == Spec => []TypeOK
<1>1. Shape => TypeOK
  BY DEF Shape
<1>2. QED
  BY <1>1, ShapeAlways, PTL

-----------------------------------------------------------------------------
(***************************************************************************)
(* What the files hold: NothingLost, with the copy that stands in for the  *)
(* file while it is replaced, and what is torn in the first call.          *)
(***************************************************************************)
Same(f, g) == Contents(f) = Contents(g)

KeepInv ==
  /\ \A f \in DOMAIN files \ (torn \cup InReplacement) : Same(files[f], original[f])
  /\ pc = "replace" => copies[Current] = Rewritten(files[Current])
  /\ pc \in {"replacing", "remove"} /\ Current \notin torn => Same(copies[Current], original[Current])
  /\ calls = 0 => pc = "ready" /\ torn = {}
  /\ pc # "ready" => st = "running"
  /\ calls = 1 /\ faults = 0 =>
       IF st = "crash"
       THEN \A f \in torn : f \in DOMAIN copies /\ Same(copies[f], original[f])
       ELSE torn = {}

LEMMA InitKeep == Init => KeepInv
BY EmptyIsSeq DEF Init, KeepInv, Same

LEMMA StepKeep == Shape /\ KeepInv /\ [Next]_vars => KeepInv'
<1> SUFFICES ASSUME Shape, KeepInv, [Next]_vars PROVE KeepInv'
  OBVIOUS
<1>0. /\ \A f \in DOMAIN files : IsSegmentFile(files[f])
      /\ \A f \in DOMAIN copies : f \in DOMAIN files
      /\ OnFile => Current \in DOMAIN copies /\ Current \in DOMAIN files
      /\ calls \in Nat /\ faults \in Nat
      /\ IsSeq(listing) /\ DOMAIN listing = 1..Len(listing) /\ Len(listing) \in Nat
  BY SeqDomain DEF Shape, TypeOK
<1>a. faults + 1 # 0 /\ (calls + 1 = 1 <=> calls = 0) /\ calls + 1 # 0
  BY <1>0
<1>1. CASE Start
  BY <1>1, <1>a DEF KeepInv, Start, Counting, disk, InReplacement
<1>2. CASE StartFails
  BY <1>2, <1>a DEF KeepInv, StartFails, Counting, Faulty, disk, memory, InReplacement
<1>3. CASE SkipSegment
  BY <1>3 DEF KeepInv, SkipSegment, OnSegment, NextSegment, disk, history, InReplacement
<1>4. CASE WriteCopy
  <2> DEFINE g == Rewritten(files[Current])
  <2>1. i \in DOMAIN listing /\ Current \in DOMAIN files
    BY <1>0, <1>4 DEF Shape, TypeOK, WriteCopy, OnSegment, Recoverable
  <2>2. listing'[i'].file = Current /\ Current' = Current
    BY <1>0, <1>4, <2>1, Scanned DEF WriteCopy, Current
  <2> HIDE DEF g
  <2>3. copies'[Current'] = g
    BY <1>4, <2>2, Copied DEF WriteCopy, g
  <2>4. copies'[Current'] = Rewritten(files'[Current'])
    BY <1>4, <2>2, <2>3 DEF WriteCopy, g
  <2>5. pc = "segment" /\ pc' = "replace" /\ UNCHANGED <<files, original, torn, calls, faults, st>>
    BY <1>4 DEF WriteCopy, OnSegment, history
  <2>6. calls = 1 /\ faults = 0 => torn = {}
    BY <2>5 DEF KeepInv
  <2>7. QED
    BY <2>4, <2>5, <2>6 DEF KeepInv, InReplacement
<1>5. CASE WriteCopyFails
  <2>1. pc = "segment" /\ pc' = "segment" /\ UNCHANGED <<files, original, torn, calls, st>> /\ faults' # 0
    BY <1>5, <1>a DEF WriteCopyFails, OnSegment, NextSegment, Faulty
  <2>2. QED
    BY <2>1 DEF KeepInv, InReplacement
<1>6. CASE BeginReplace
  <2>1. Current' = Current /\ InReplacement = {} /\ InReplacement' = {Current}
    BY <1>6 DEF BeginReplace, memory, Current, InReplacement
  <2>2. DOMAIN files' = DOMAIN files /\ \A f \in DOMAIN files : f # Current => files'[f] = files[f]
    BY <1>6 DEF BeginReplace
  <2>3. Current \notin torn => Same(copies[Current], original[Current])
    <3> DEFINE f == files[Current]
    <3>1. Current \in DOMAIN files /\ IsSegmentFile(f)
      BY <1>0, <1>6 DEF BeginReplace, OnFile
    <3>2. copies[Current] = Rewritten(f)
      BY <1>6 DEF BeginReplace, KeepInv
    <3>3. Current \notin torn => Same(f, original[Current])
      BY <2>1, <3>1 DEF KeepInv
    <3> HIDE DEF f
    <3>4. Contents(Rewritten(f)) = Contents(f)
      BY <3>1, RewrittenRepairs DEF Repairs
    <3>5. QED
      BY <3>2, <3>3, <3>4 DEF Same
  <2>4. pc = "replace" /\ pc' = "replacing" /\ UNCHANGED <<copies, original, torn, calls, faults, st>>
    BY <1>6 DEF BeginReplace, history
  <2>5. \A f \in DOMAIN files' \ (torn' \cup InReplacement') : Same(files'[f], original'[f])
    BY <2>1, <2>2, <2>4 DEF KeepInv
  <2>6. Current' \notin torn' => Same(copies'[Current'], original'[Current'])
    BY <2>1, <2>3, <2>4
  <2>7. QED
    BY <2>4, <2>5, <2>6 DEF KeepInv
<1>7. CASE EndReplace
  <2>1. Current' = Current /\ InReplacement = {Current} /\ InReplacement' = {}
    BY <1>7 DEF EndReplace, memory, Current, InReplacement
  <2>2. DOMAIN files' = DOMAIN files
        /\ \A f \in DOMAIN files : files'[f] = IF f = Current THEN copies[f] ELSE files[f]
    BY <1>7 DEF EndReplace
  <2>3. pc = "replacing" /\ pc' = "remove" /\ UNCHANGED <<copies, original, torn, calls, faults, st>>
    BY <1>7 DEF EndReplace, history
  <2>4. \A f \in DOMAIN files' \ (torn' \cup InReplacement') : Same(files'[f], original'[f])
    BY <2>1, <2>2, <2>3 DEF KeepInv
  <2>5. QED
    BY <2>1, <2>3, <2>4 DEF KeepInv
<1>8. CASE RemoveCopy \/ HandlerRemoves
  <2>1. /\ pc \in {"remove", "handler"} /\ pc' = "segment" /\ InReplacement = {} /\ InReplacement' = {}
        /\ UNCHANGED <<files, original, torn, calls, faults, st>>
    BY <1>8 DEF RemoveCopy, HandlerRemoves, NextSegment, history, InReplacement
  <2>2. QED
    BY <2>1 DEF KeepInv
<1>9. CASE ReplaceFails \/ RemoveFails
  <2>1. /\ pc \in {"replacing", "remove"} /\ pc' = "handler" /\ InReplacement' = {}
        /\ torn' \in {torn, torn \cup InReplacement} /\ (pc = "remove" => InReplacement = {})
        /\ torn' \cup InReplacement' = torn \cup InReplacement
        /\ UNCHANGED <<files, original, calls, st>> /\ faults' # 0
    BY <1>9, <1>a DEF ReplaceFails, RemoveFails, Faulty, InReplacement, disk
  <2>2. QED
    BY <2>1 DEF KeepInv
<1>10. CASE Finish
  <2>1. /\ pc = "segment" /\ pc' = "ready" /\ InReplacement = {} /\ InReplacement' = {}
        /\ UNCHANGED <<files, copies, original, torn, calls>> /\ (faults' = faults \/ faults' # 0)
    BY <1>10, <1>a DEF Finish, Faulty, InReplacement
  <2>2. calls' = 1 /\ faults' = 0 => torn' = {}
    BY <1>a, <1>10, <2>1 DEF KeepInv, Finish, Faulty
  <2>3. QED
    BY <2>1, <2>2 DEF KeepInv
<1>11. CASE Crash
  <2>1. /\ pc # "ready" /\ pc' = "ready" /\ InReplacement' = {} /\ torn' = torn \cup InReplacement
        /\ UNCHANGED <<files, copies, original, calls, faults>> /\ st' = "crash" /\ st = "running"
    BY <1>11 DEF Crash, InReplacement, disk, KeepInv
  <2>2. calls' = 1 /\ faults' = 0 =>
          \A f \in torn' : f \in DOMAIN copies' /\ Same(copies'[f], original'[f])
    <3>1. calls = 1 /\ faults = 0 => torn = {}
      BY <2>1 DEF KeepInv
    <3>2. \A f \in InReplacement : f = Current /\ pc = "replacing"
      BY DEF InReplacement
    <3>3. QED
      BY <1>0, <2>1, <3>1, <3>2 DEF KeepInv, OnFile
  <2>3. QED
    BY <2>1, <2>2 DEF KeepInv
<1>12. CASE HandlerThrows
  <2>1. /\ pc = "handler" /\ pc' = "ready" /\ InReplacement = {} /\ InReplacement' = {}
        /\ UNCHANGED <<files, original, torn, calls, faults>> /\ st' = "exception" /\ st = "running"
    BY <1>12 DEF HandlerThrows, disk, history, InReplacement, KeepInv
  <2>2. QED
    BY <2>1 DEF KeepInv
<1>13. CASE Validate
  BY <1>13, <1>a DEF KeepInv, Validate, Counting, disk, memory, InReplacement, Current
<1>14. CASE UNCHANGED vars
  BY <1>14 DEF KeepInv, vars, disk, memory, history, Current, InReplacement
<1>15. QED
  BY <1>1, <1>2, <1>3, <1>4, <1>5, <1>6, <1>7, <1>8, <1>9, <1>10, <1>11, <1>12, <1>13, <1>14 DEF Next

\* Recover loses no record, NothingLost, over any number of calls: a file that no
\* crash or failure of copy_file left half replaced keeps its records, and after
\* a crash of the first call the copies have those of the others.
THEOREM NeverLost == Spec => []NothingLost
<1>1. Shape /\ KeepInv => NothingLost
  <2> SUFFICES ASSUME Shape, KeepInv PROVE NothingLost
    OBVIOUS
  <2>1. QED
    BY DEF KeepInv, NothingLost, Same
<1>2. QED
  BY <1>1, InitKeep, StepKeep, ShapeAlways, PTL DEF Spec

-----------------------------------------------------------------------------
(***************************************************************************)
(* What Recover has done: a segment it is through with is complete and     *)
(* indexed and its entry has its time range, unless it has no header.      *)
(* While a file is replaced, its copy stands for it.                       *)
(***************************************************************************)
Repaired(e, g) == Sealed(g) /\ Ranged(e, g) /\ Indexed(g)

Seen(f) == IF pc = "replacing" /\ f = Current THEN copies[f] ELSE files[f]
Done(e) == e.file \in DOMAIN files /\ Seen(e.file).header => Repaired(e, Seen(e.file))

RepairInv ==
  /\ pc = "replace" => /\ copies[Current] = Rewritten(files[Current]) /\ files[Current].header
                       /\ Ranged(listing[i], files[Current])
  /\ pc \in {"replacing", "remove"} => Repaired(listing[i], copies[Current])
  /\ pc = "remove" => files[Current] = copies[Current]
  /\ pc = "handler" => faults # 0
  /\ pc # "ready" /\ faults = 0 => \A k \in 1..(i - 1) : Done(listing[k])
  /\ pc = "ready" /\ anyRecovered /\ faults = 0 =>
       manifest.state = "ok" /\ \A k \in DOMAIN manifest.segs : Done(manifest.segs[k])

\* The range of an entry stays the range of the file when it is rewritten.
LEMMA RewrittenIsRepaired ==
  ASSUME NEW f, IsSegmentFile(f), NEW e, Ranged(e, f)
  PROVE  Repaired(e, Rewritten(f))
<1> DEFINE g == Rewritten(f)
<1>1. Sealed(g) /\ Indexed(g) /\ DataTimes(g.recs) = DataTimes(f.recs)
  BY RewrittenRepairs DEF Repairs
<1> HIDE DEF g
<1>2. Ranged(e, g)
  BY <1>1 DEF Ranged, ScanStart, ScanEnd
<1>3. Repaired(e, g)
  BY <1>1, <1>2 DEF Repaired
<1>4. QED
  BY <1>3 DEF g

LEMMA InitRepair == Init => RepairInv
BY DEF Init, RepairInv

LEMMA StepRepair == Shape /\ RepairInv /\ [Next]_vars => RepairInv'
<1> SUFFICES ASSUME Shape, RepairInv, [Next]_vars PROVE RepairInv'
  OBVIOUS
<1>0. /\ \A f \in DOMAIN files : IsSegmentFile(files[f])
      /\ OnFile => Current \in DOMAIN copies /\ Current \in DOMAIN files /\ i \in DOMAIN listing
      /\ calls \in Nat /\ faults \in Nat /\ i \in Nat /\ i >= 1 /\ i <= Len(listing) + 1
      /\ IsSeq(listing) /\ DOMAIN listing = 1..Len(listing) /\ Len(listing) \in Nat
  BY SeqDomain DEF Shape, TypeOK
<1>a. faults + 1 # 0
  BY <1>0
<1>b. 1..(1 - 1) = {} /\ \A k \in 1..((i + 1) - 1) : k \in 1..(i - 1) \/ k = i
  BY <1>0
<1>c. \A k \in 1..(i - 1) : k \in DOMAIN listing /\ k # i
  BY <1>0
<1>1. CASE Start
  <2>1. pc' = "segment" /\ i' = 1
    BY <1>1 DEF Start
  <2>2. QED
    BY <1>b, <2>1 DEF RepairInv
<1>2. CASE StartFails
  <2>1. pc' = "ready" /\ faults' # 0
    BY <1>2, <1>a DEF StartFails, Counting, Faulty
  <2>2. QED
    BY <2>1 DEF RepairInv
<1>3. CASE SkipSegment
  <2>1. /\ pc = "segment" /\ pc' = "segment" /\ i' = i + 1 /\ UNCHANGED <<files, listing, faults>>
    BY <1>3 DEF SkipSegment, OnSegment, NextSegment, disk, history
  <2>2. DOMAIN files' = DOMAIN files /\ \A f \in DOMAIN files : Seen(f)' = Seen(f)
    BY <2>1 DEF Seen
  <2>3. Done(listing[i])
    BY <1>3, <2>1 DEF Done, Seen, SkipSegment, Recoverable, Current
  <2>4. faults = 0 => \A k \in 1..(i' - 1) : Done(listing[k])
    BY <1>b, <2>1, <2>3 DEF RepairInv
  <2>5. faults' = 0 => \A k \in 1..(i' - 1) : Done(listing[k])'
    <3> SUFFICES ASSUME faults' = 0, NEW k \in 1..(i' - 1) PROVE Done(listing[k])'
      OBVIOUS
    <3> DEFINE e == listing[k]
    <3>1. Done(e) /\ e = listing'[k]
      BY <2>1, <2>4
    <3>2. QED
      BY <2>1, <2>2, <3>1 DEF Done
  <2>6. QED
    BY <2>1, <2>5 DEF RepairInv
<1>4. CASE WriteCopy
  <2>1. i \in DOMAIN listing /\ Current \in DOMAIN files
    BY <1>0, <1>4 DEF Shape, TypeOK, WriteCopy, OnSegment, Recoverable
  <2>2. /\ listing'[i].file = Current /\ Current' = Current
        /\ listing'[i] = ScannedEntry(Current, files[Current].recs)
        /\ \A k \in DOMAIN listing : k # i => listing'[k] = listing[k]
    BY <1>0, <1>4, <2>1, Scanned DEF WriteCopy, Current
  <2>3. pc = "segment" /\ pc' = "replace" /\ UNCHANGED <<files, i, faults>>
    BY <1>4 DEF WriteCopy, OnSegment, history
  <2>4. copies'[Current'] = Rewritten(files'[Current']) /\ files'[Current'].header
    BY <1>4, <2>2, <2>3, Copied DEF WriteCopy, Recoverable
  <2>5. Ranged(listing'[i'], files'[Current'])
    BY <2>2, <2>3 DEF Ranged, ScannedEntry, Entry
  <2>6. faults' = 0 => \A k \in 1..(i' - 1) : Done(listing[k])'
    <3> SUFFICES ASSUME faults' = 0, NEW k \in 1..(i' - 1) PROVE Done(listing[k])'
      OBVIOUS
    <3>1. Done(listing[k]) /\ listing'[k] = listing[k]
      BY <1>c, <2>2, <2>3 DEF RepairInv
    <3>2. QED
      BY <2>3, <3>1 DEF Done, Seen
  <2>7. QED
    BY <2>3, <2>4, <2>5, <2>6 DEF RepairInv
<1>5. CASE WriteCopyFails
  <2>1. pc' = "segment" /\ faults' # 0
    BY <1>5, <1>a DEF WriteCopyFails, NextSegment, Faulty
  <2>2. QED
    BY <2>1 DEF RepairInv
<1>6. CASE BeginReplace
  <2>1. /\ pc = "replace" /\ pc' = "replacing" /\ UNCHANGED <<copies, listing, i, faults>>
        /\ Current' = Current
    BY <1>6 DEF BeginReplace, memory, history, Current
  <2>2. DOMAIN files' = DOMAIN files /\ \A f \in DOMAIN files : f # Current => files'[f] = files[f]
    BY <1>6 DEF BeginReplace
  <2> DEFINE f == files[Current]
             g == copies[Current]
  <2>3. /\ Current \in DOMAIN files /\ IsSegmentFile(f) /\ g = Rewritten(f) /\ f.header
        /\ Ranged(listing[i], f)
    BY <1>0, <2>1 DEF RepairInv, OnFile
  <2> HIDE DEF f, g
  <2>4. Repaired(listing[i], g)
    BY <2>3, RewrittenIsRepaired
  <2>5. faults' = 0 => \A k \in 1..(i' - 1) : Done(listing[k])'
    <3> SUFFICES ASSUME faults' = 0, NEW k \in 1..(i' - 1) PROVE Done(listing[k])'
      OBVIOUS
    <3> DEFINE e == listing[k]
    <3>1. Done(e) /\ e = listing'[k]
      BY <2>1 DEF RepairInv
    <3> HIDE DEF e
    <3>2. CASE e.file = Current
      <4>1. Repaired(e, f)
        BY <2>1, <2>3, <3>1, <3>2 DEF Done, Seen, f
      <4>2. Repaired(e, g)
        BY <2>3, <4>1, RewrittenIsRepaired DEF Repaired
      <4>3. QED
        BY <2>1, <3>1, <3>2, <4>2 DEF Done, Seen, g
    <3>3. CASE e.file # Current
      BY <2>1, <2>2, <3>1, <3>3 DEF Done, Seen
    <3>4. QED
      BY <3>2, <3>3
  <2>6. QED
    BY <2>1, <2>4, <2>5 DEF RepairInv, g
<1>7. CASE EndReplace
  <2>1. /\ pc = "replacing" /\ pc' = "remove" /\ UNCHANGED <<copies, listing, i, faults>>
        /\ Current' = Current /\ Current \in DOMAIN files
    BY <1>0, <1>7 DEF EndReplace, memory, history, Current, OnFile
  <2>2. DOMAIN files' = DOMAIN files
        /\ \A f \in DOMAIN files : files'[f] = IF f = Current THEN copies[f] ELSE files[f]
    BY <1>7 DEF EndReplace
  <2>3. faults' = 0 => \A k \in 1..(i' - 1) : Done(listing[k])'
    <3> SUFFICES ASSUME faults' = 0, NEW k \in 1..(i' - 1) PROVE Done(listing[k])'
      OBVIOUS
    <3>1. Done(listing[k]) /\ listing[k] = listing'[k]
      BY <2>1 DEF RepairInv
    <3>2. QED
      BY <2>1, <2>2, <3>1 DEF Done, Seen
  <2>4. QED
    BY <2>1, <2>2, <2>3 DEF RepairInv
<1>8. CASE ReplaceFails \/ RemoveFails
  <2>1. pc' = "handler" /\ faults' # 0
    BY <1>8, <1>a DEF ReplaceFails, RemoveFails, Faulty
  <2>2. QED
    BY <2>1 DEF RepairInv
<1>9. CASE RemoveCopy
  <2>1. /\ pc = "remove" /\ pc' = "segment" /\ i' = i + 1 /\ UNCHANGED <<files, listing, faults>>
    BY <1>9 DEF RemoveCopy, NextSegment, history
  <2>2. Done(listing[i])
    BY <2>1 DEF RepairInv, Done, Seen, Current
  <2>3. faults = 0 => \A k \in 1..(i' - 1) : Done(listing[k])
    BY <1>b, <2>1, <2>2 DEF RepairInv
  <2>4. faults' = 0 => \A k \in 1..(i' - 1) : Done(listing[k])'
    <3> SUFFICES ASSUME faults' = 0, NEW k \in 1..(i' - 1) PROVE Done(listing[k])'
      OBVIOUS
    <3>1. Done(listing[k]) /\ listing[k] = listing'[k]
      BY <2>1, <2>3
    <3>2. QED
      BY <2>1, <3>1 DEF Done, Seen
  <2>5. QED
    BY <2>1, <2>4 DEF RepairInv
<1>10. CASE Finish
  <2>1. pc = "segment" /\ pc' = "ready" /\ UNCHANGED <<files, anyRecovered>>
    BY <1>10 DEF Finish, memory
  <2>2. faults' = 0 => faults = 0 /\ manifest' = [state |-> "ok", chans |-> chans, segs |-> listing]
    BY <1>10, <1>a DEF Finish, Faulty
  <2>3. ASSUME faults' = 0, NEW k \in DOMAIN manifest'.segs PROVE Done(manifest.segs[k])'
    <3>1. manifest'.segs = listing /\ k \in DOMAIN listing /\ faults = 0
      BY <2>2, <2>3
    <3>2. k \in 1..(i - 1)
      BY <1>0, <1>10, <3>1 DEF Finish
    <3>3. Done(listing[k])
      BY <2>1, <3>1, <3>2 DEF RepairInv
    <3>4. QED
      BY <2>1, <3>1, <3>3 DEF Done, Seen
  <2>4. faults' = 0 => manifest'.state = "ok"
    BY <2>2
  <2>5. QED
    BY <2>1, <2>3, <2>4 DEF RepairInv
<1>11. CASE HandlerRemoves
  <2>1. pc' = "segment" /\ faults' # 0
    BY <1>11 DEF RepairInv, HandlerRemoves, NextSegment, history
  <2>2. QED
    BY <2>1 DEF RepairInv
<1>12. CASE Crash \/ HandlerThrows
  <2>1. pc' = "ready" /\ anyRecovered' = FALSE
    BY <1>12 DEF Crash, HandlerThrows, NoMemory
  <2>2. QED
    BY <2>1 DEF RepairInv
<1>13. CASE Validate
  BY <1>13 DEF RepairInv, Validate, Counting, disk, memory, Current, Done, Seen
<1>14. CASE UNCHANGED vars
  BY <1>14 DEF RepairInv, vars, disk, memory, history, Current, Done, Seen
<1>15. QED
  BY <1>1, <1>2, <1>3, <1>4, <1>5, <1>6, <1>7, <1>8, <1>9, <1>10, <1>11, <1>12, <1>13, <1>14 DEF Next

LEMMA RepairAlways == Spec => [](Shape /\ RepairInv)
BY InitRepair, StepRepair, ShapeAlways, PTL DEF Spec

LEMMA RecoveredIsDone ==
  ASSUME RepairInv, Recovered, NEW k \in DOMAIN manifest.segs,
         manifest.segs[k].file \in DOMAIN files, files[manifest.segs[k].file].header
  PROVE  Repaired(manifest.segs[k], files[manifest.segs[k].file])
<1>1. pc = "ready" /\ Done(manifest.segs[k])
  BY DEF RepairInv, Recovered
<1>2. QED
  BY <1>1 DEF Done, Seen

\* Recover makes a session valid, RecoveredValidates: when it came to its end
\* with nothing failing, whatever crashed before, Validate finds the listed
\* files intact that are there, have a header and fail no checksum.
THEOREM RecoveredAlwaysValidates == Spec => []RecoveredValidates
<1>1. Shape /\ RepairInv => RecoveredValidates
  <2> SUFFICES ASSUME Shape, RepairInv, Recovered,
                      \A f \in ListedFiles :
                         f \in DOMAIN files /\ files[f].header /\ DamagedIn(files[f]) = 0
               PROVE  ValidateStatus = "Ok"
    BY DEF RecoveredValidates
  <2>1. manifest.state = "ok"
    BY DEF RepairInv, Recovered
  <2>2. ASSUME NEW k \in DOMAIN manifest.segs
        PROVE  ~Stops(k) /\ LET f == files[manifest.segs[k].file]
                            IN  DamagedIn(f) = 0 /\ MiscountIn(f) = 0
    <3>1. /\ manifest.segs[k].file \in DOMAIN files /\ files[manifest.segs[k].file].header
          /\ DamagedIn(files[manifest.segs[k].file]) = 0
      BY DEF ListedFiles
    <3>2. Sealed(files[manifest.segs[k].file])
      BY <3>1, RecoveredIsDone DEF Repaired
    <3>3. QED
      BY <3>1, <3>2 DEF Sealed, Stops, Intact, MiscountIn
  <2>3. CorruptRecords = 0
    BY <2>2, CorruptIsNat
  <2>4. QED
    BY <2>1, <2>2, <2>3 DEF ValidateStatus
<1>2. QED
  BY <1>1, RepairAlways, PTL

\* Finitely many numbers have a bound, a least and a largest one.
LEMMA BoundExists ==
  ASSUME NEW n \in Nat, NEW f \in [1..n -> Nat]
  PROVE  \E u \in Nat : \A k \in 1..n : f[k] <= u
<1> DEFINE Bounded(m) == \E u \in Nat : \A k \in 1..m : f[k] <= u
           B == {m \in 0..n : ~Bounded(m)}
<1>1. Bounded(0)
  <2>1. \A k \in 1..0 : f[k] <= 0
    OBVIOUS
  <2>2. QED
    BY <2>1
<1>2. ASSUME NEW m \in 1..n, Bounded(m - 1) PROVE Bounded(m)
  <2>1. PICK u \in Nat : \A k \in 1..(m - 1) : f[k] <= u
    BY <1>2
  <2>2. f[m] \in Nat /\ \A k \in 1..m : f[k] \in Nat /\ (k \in 1..(m - 1) \/ k = m)
    OBVIOUS
  <2>3. \A k \in 1..m : f[k] <= u + f[m]
    BY <2>1, <2>2
  <2>4. u + f[m] \in Nat
    BY <2>2
  <2>5. QED
    BY <2>3, <2>4
<1> HIDE DEF Bounded
<1>3. B = {}
  <2> SUFFICES ASSUME B # {} PROVE FALSE
    OBVIOUS
  <2>1. B \in SUBSET Nat
    OBVIOUS
  <2>2. PICK m \in B : \A k \in B : m <= k
    <3> HIDE DEF B
    <3>1. QED
      BY <2>1, Smallest
  <2>3. m # 0 /\ m \in 1..n /\ m - 1 \in 0..n /\ m - 1 \notin B
    BY <1>1, <2>2
  <2>4. Bounded(m - 1)
    BY <2>3
  <2>5. QED
    BY <1>2, <2>2, <2>3, <2>4
<1>4. Bounded(n)
  BY <1>3
<1>5. QED
  BY <1>4 DEF Bounded

LEMMA MinAndMax ==
  ASSUME NEW T \in SUBSET Nat, T # {}, NEW u \in Nat, \A t \in T : t <= u
  PROVE  /\ Min(T) \in T /\ Max(T) \in T
         /\ \A t \in T : Min(T) <= t /\ t <= Max(T)
<1>1. Min(T) \in T /\ \A t \in T : Min(T) <= t
  <2>1. PICK x \in T : \A y \in T : x <= y
    BY Smallest
  <2>2. QED
    BY <2>1 DEF Min
<1>2. Max(T) \in T /\ \A t \in T : Max(T) >= t
  <2> DEFINE R == {u - x : x \in T}
  <2>1. \A x \in T : x \in Nat /\ u - x \in Nat /\ u - x \in R
    OBVIOUS
  <2>2. R \in SUBSET Nat /\ R # {}
    BY <2>1
  <2>3. PICK m \in R : \A k \in R : m <= k
    <3> HIDE DEF R
    <3>1. QED
      BY <2>2, Smallest
  <2>4. PICK x \in T : m = u - x
    BY <2>3
  <2>5. \A y \in T : x >= y
    <3> TAKE y \in T
    <3>1. u - x <= u - y /\ x \in Nat /\ y \in Nat
      BY <2>1, <2>3, <2>4
    <3>2. QED
      BY <3>1
  <2>6. QED
    BY <2>4, <2>5 DEF Max
<1>3. QED
  BY <1>1, <1>2

\* The range that the scan notes of a file has the time of every data record in
\* it, which is that of its first message.
LEMMA RangeCovers ==
  ASSUME NEW f, IsSegmentFile(f), NEW e, Ranged(e, f), NEW r \in DOMAIN f.recs, IsData(f.recs[r])
  PROVE  /\ e.start <= f.recs[r].ts /\ f.recs[r].ts <= e.end
         /\ TimeOrdered(f.recs[r].msgs) => \A m \in ToSet(f.recs[r].msgs) : e.start <= m.ts
<1> DEFINE recs == f.recs
           n == Len(recs)
           T == DataTimes(recs)
<1>1. recs \in Seq(Records) /\ DOMAIN recs = 1..n /\ n \in Nat
  BY FileFields DEF IsSegmentFile
<1>2. \A k \in DOMAIN recs : recs[k] \in Records
  BY <1>1
<1>3. recs[r].ts \in T
  BY DEF DataTimes
<1>4. \A k \in 1..n : recs[k].ts \in Nat
  BY <1>1, <1>2, RecordFields
<1>5. /\ T \subseteq Nat /\ Min(T) \in T
      /\ \A t \in T : Min(T) <= t /\ t <= Max(T)
  <2> DEFINE f1 == [k \in 1..n |-> recs[k].ts]
  <2>1. f1 \in [1..n -> Nat]
    BY <1>4
  <2>2. PICK u \in Nat : \A k \in 1..n : f1[k] <= u
    <3> HIDE DEF f1, n
    <3>1. QED
      BY <1>1, <2>1, BoundExists
  <2>3. \A t \in T : \E k \in 1..n : t = recs[k].ts
    BY <1>1 DEF DataTimes
  <2> HIDE DEF T
  <2>4. T \in SUBSET Nat /\ T # {} /\ \A t \in T : t <= u
    BY <1>3, <1>4, <2>2, <2>3
  <2>5. QED
    BY <2>4, MinAndMax
<1> HIDE DEF recs, n, T
<1>6. e.start <= recs[r].ts /\ recs[r].ts <= e.end
  <2>1. T # {} /\ e.start = Min(T) /\ e.end = Max(T)
    BY <1>3 DEF Ranged, ScanStart, ScanEnd, T, recs
  <2>2. QED
    BY <1>3, <1>5, <2>1
<1>7. ASSUME TimeOrdered(recs[r].msgs), NEW m \in ToSet(recs[r].msgs) PROVE e.start <= m.ts
  <2> DEFINE s == recs[r].msgs
  <2>1. s \in Seq(AnyMessage) /\ s # <<>> /\ recs[r].ts = s[1].ts /\ recs[r].ts \in Nat
    BY <1>2 DEF recs, Records, RecordShapes, IsData, ToSet
  <2>2. PICK k \in DOMAIN s : m = s[k]
    BY DEF ToSet
  <2>3. s[1].ts <= m.ts /\ m.ts \in Nat
    <3> HIDE DEF s
    <3>1. DOMAIN s = 1..Len(s) /\ Len(s) \in Nat /\ m \in AnyMessage /\ 1 \in DOMAIN s /\ s[1] \in AnyMessage
      BY <2>1, <2>2
    <3>2. m.ts \in Nat /\ s[1].ts \in Nat
      BY <3>1 DEF AnyMessage
    <3>3. k = 1 \/ 1 < k
      BY <3>1
    <3>4. QED
      BY <1>7, <2>2, <3>1, <3>2, <3>3 DEF TimeOrdered, s
  <2>4. e.start \in Nat
    <3>1. T # {} /\ e.start = Min(T)
      BY <1>3 DEF Ranged, ScanStart, T, recs
    <3>2. QED
      BY <1>5, <3>1
  <2>5. QED
    BY <1>6, <2>1, <2>3, <2>4
<1>8. QED
  BY <1>6, <1>7 DEF recs

\* Recover makes a session seekable, RecoveredSeekable: when it came to its end
\* with nothing failing, whatever crashed before, the entry of each listed file
\* covers the times of its data records, no message of a chunk in time order is
\* before the start of its segment, and the index of the file leads to data and
\* serves every data record.
THEOREM RecoveredAlwaysSeekable == Spec => []RecoveredSeekable
<1>1. Shape /\ RepairInv => RecoveredSeekable
  <2>1. ASSUME Shape, RepairInv, Recovered, NEW k \in DOMAIN manifest.segs,
               manifest.segs[k].file \in DOMAIN files, files[manifest.segs[k].file].header
        PROVE  LET e == manifest.segs[k]
                   f == files[e.file]
               IN  IsSegmentFile(f) /\ Ranged(e, f) /\ Indexed(f)
    BY <2>1, RecoveredIsDone DEF Repaired, Shape, TypeOK
  <2> SUFFICES ASSUME Shape, RepairInv, Recovered, NEW k \in DOMAIN manifest.segs,
                      manifest.segs[k].file \in DOMAIN files,
                      files[manifest.segs[k].file].header
               PROVE  LET e == manifest.segs[k]
                          recs == files[e.file].recs
                      IN  /\ Indexed(files[e.file])
                          /\ \A r \in DOMAIN recs : IsData(recs[r]) =>
                               /\ e.start <= recs[r].ts /\ recs[r].ts <= e.end
                               /\ TimeOrdered(recs[r].msgs) =>
                                    \A m \in ToSet(recs[r].msgs) : e.start <= m.ts
    BY Zenon DEF RecoveredSeekable, Indexed
  <2>2. QED
    BY <2>1, RangeCovers
<1>2. QED
  BY <1>1, RepairAlways, PTL
=============================================================================
