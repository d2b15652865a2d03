------------------------- MODULE SessionFilesProof -------------------------
(***************************************************************************)
(* Facts about segment files that the proofs about the reader and about    *)
(* Recover share: the records, and the points a scan of them gives.        *)
(***************************************************************************)
EXTENDS SessionFiles, SequenceFacts

LEMMA RecordFields ==
  ASSUME NEW r \in Records
  PROVE  /\ r.msgs \in Seq(AnyMessage) /\ r.cnt \in Nat /\ r.ch \in Nat /\ r.op \in RecordOps
         /\ r.ts \in Nat
         /\ r.op = "Data" => Len(r.msgs) = 1
         /\ r.op = "Data" => r.cnt = 1
         /\ r.op = "Chunk" => r.msgs # <<>> /\ Len(r.msgs) <= r.cnt
         /\ IsData(r) => r.ts = r.msgs[1].ts
         /\ ~IsData(r) => r.msgs = <<>>
         /\ r.state \in {"ok", "crc", "packed"} /\ (r.state = "packed" => r.op = "Chunk")
         /\ \A m \in ToSet(r.msgs) : m.ch = r.ch
BY DEF Records, RecordShapes

(***************************************************************************)
(* The points that a scan of the records gives.                            *)
(***************************************************************************)
Piled(recs, points, k) ==
  IF IsData(recs[k]) THEN MaybeAdd(points, recs[k].ch, recs[k].ts, k) ELSE points

\* The function that the fold of PointsOfRecords defines.
IndexedBy(recs, S, g) ==
  g = [s \in SUBSET S |->
         IF s = {} THEN <<>> ELSE Piled(recs, g[s \ {Max(s)}], [k \in DOMAIN recs |-> k][Max(s)])]

LEMMA PointsFold ==
  ASSUME NEW recs
  PROVE  PointsOfRecords(recs) = (CHOOSE g : IndexedBy(recs, DOMAIN recs, g))[DOMAIN recs]
<1>1. PointsOfRecords(recs) =
        LET ids == [k \in DOMAIN recs |-> k]
        IN  (CHOOSE g : IndexedBy(recs, DOMAIN ids, g))[DOMAIN ids]
  BY Zenon DEF PointsOfRecords, FoldLeftDomain, FoldLeft, MapThenFoldSet, IndexedBy, Piled
<1>2. DOMAIN [k \in DOMAIN recs |-> k] = DOMAIN recs
  OBVIOUS
<1>3. QED
  BY <1>1, <1>2

LEMMA FoldExists ==
  ASSUME NEW recs, NEW N \in Nat
  PROVE  \E g : IndexedBy(recs, 1..N, g)
<1> DEFINE T == {n \in Nat : ~ \E g : IndexedBy(recs, 1..n, g)}
           Of(g, s) == IF s = {} THEN <<>>
                       ELSE Piled(recs, g[s \ {Max(s)}], [k \in DOMAIN recs |-> k][Max(s)])
<1>1. SUFFICES ASSUME T # {} PROVE FALSE
  OBVIOUS
<1>2. PICK m \in T : \A n \in T : m <= n
  <2>1. T \in SUBSET Nat
    OBVIOUS
  <2> HIDE DEF T
  <2>2. QED
    BY <1>1, <2>1, Smallest
<1>3. m # 0
  <2> DEFINE g == [s \in SUBSET {} |-> <<>>]
  <2>1. 1..0 = {}
    OBVIOUS
  <2>2. \A s \in SUBSET {} : s = {}
    OBVIOUS
  <2>3. g = [s \in SUBSET {} |-> Of(g, s)]
    BY <2>2
  <2> HIDE DEF g
  <2>4. IndexedBy(recs, 1..0, g)
    BY <2>1, <2>3 DEF IndexedBy
  <2>5. QED
    BY <2>4
<1>4. m \in Nat /\ m - 1 \in Nat
  BY <1>2, <1>3
<1>5. PICK g : IndexedBy(recs, 1..(m - 1), g)
  <2>1. m - 1 \notin T
    BY <1>2, <1>4
  <2>2. QED
    BY <1>4, <2>1
<1> DEFINE Sm == 1..m
           Sn == 1..(m - 1)
           h == [s \in SUBSET Sm |-> IF s = {} THEN <<>>
                   ELSE Piled(recs, g[s \ {Max(s)}], [k \in DOMAIN recs |-> k][Max(s)])]
<1>6. \A s \in SUBSET Sn : g[s] = Of(g, s)
  BY <1>5 DEF IndexedBy
<1>7. \A s \in SUBSET Sn : h[s] = g[s]
  <2>1. SUBSET Sn \subseteq SUBSET Sm
    BY <1>4
  <2>2. \A s \in SUBSET Sn : h[s] = Of(g, s)
    BY <2>1
  <2> HIDE DEF h, Of
  <2>3. QED
    BY <1>6, <2>2
<1>8. \A s \in SUBSET Sm : s # {} => s \ {Max(s)} \in SUBSET Sn
  <2> SUFFICES ASSUME NEW s \in SUBSET Sm, s # {} PROVE s \ {Max(s)} \in SUBSET Sn
    OBVIOUS
  <2>1. CASE m \in s
    <3>1. Max(s) = m
      <4>1. \A y \in s : m >= y
        BY <1>4
      <4>2. \A x \in s : (\A y \in s : x >= y) => x = m
        BY <1>4, <2>1
      <4>3. QED
        BY <2>1, <4>1, <4>2 DEF Max
    <3>2. QED
      BY <1>4, <3>1
  <2>2. CASE m \notin s
    <3>1. \A x \in s : x \in 1..(m - 1)
      <4> TAKE x \in s
      <4>1. x \in 1..m /\ x # m
        BY <2>2
      <4>2. QED
        BY <1>4, <4>1
    <3>2. QED
      BY <3>1
  <2>3. QED
    BY <2>1, <2>2
<1>9. h = [s \in SUBSET Sm |-> Of(h, s)]
  <2>1. \A s \in SUBSET Sm : h[s] = Of(g, s)
    OBVIOUS
  <2>2. \A s \in SUBSET Sm : s # {} => h[s \ {Max(s)}] = g[s \ {Max(s)}]
    BY <1>7, <1>8
  <2>3. \A s \in SUBSET Sm : h[s] = Of(h, s)
    <3> HIDE DEF h
    <3>1. QED
      BY <2>1, <2>2
  <2>4. h = [s \in SUBSET Sm |-> h[s]]
    OBVIOUS
  <2> HIDE DEF h, Of
  <2>5. QED
    BY <2>3, <2>4
<1>10. IndexedBy(recs, 1..m, h)
  <2> HIDE DEF h
  <2>1. QED
    BY <1>9 DEF IndexedBy
<1>11. QED
  BY <1>2, <1>10

Point == [ch: Nat, ts: Nat, off: Nat]

\* p is the last point of the channel at or before the record at r.
LastUpTo(points, ch, r, p) ==
  /\ p \in DOMAIN points /\ points[p].ch = ch /\ points[p].off <= r
  /\ \A q \in DOMAIN points : points[q].ch = ch /\ points[q].off <= r => q <= p

\* The points lead to the first n records, in their order, and serve them: a
\* record without a point is within an interval of the last point before it,
\* and two points of a channel are an interval apart.
PointsLead(recs, n, points) ==
  \A p \in DOMAIN points :
    /\ points[p].off \in 1..n /\ IsData(recs[points[p].off])
    /\ recs[points[p].off].ch = points[p].ch /\ recs[points[p].off].ts = points[p].ts

PointsSorted(points) ==
  \A p, q \in DOMAIN points : p < q => points[p].off < points[q].off

Served(recs, r, points) ==
  \E p \in DOMAIN points :
    /\ LastUpTo(points, recs[r].ch, r, p)
    /\ points[p].off = r \/ (recs[r].ts - points[p].ts) % Word < IndexIntervalNs

PointsApart(points) ==
  \A p, q \in DOMAIN points :
    p < q /\ LastUpTo(points, points[q].ch, points[q].off - 1, p)
      => (points[q].ts - points[p].ts) % Word >= IndexIntervalNs

PointsServe(recs, n, points) ==
  /\ points \in Seq(Point) /\ PointsLead(recs, n, points) /\ PointsSorted(points)
  /\ \A r \in 1..n : IsData(recs[r]) => Served(recs, r, points)
  /\ PointsApart(points)

LEMMA LastPoint ==
  ASSUME NEW points \in Seq(Point), NEW ch, PointsOf(points, ch) # {}
  PROVE  \E p \in DOMAIN points :
           /\ points[p].ch = ch /\ LastIndexed(points, ch) = points[p].ts
           /\ \A q \in DOMAIN points : points[q].ch = ch => q <= p
<1> DEFINE P == PointsOf(points, ch)
<1>1. Len(points) \in Nat /\ P \in SUBSET (1..Len(points))
  BY DEF PointsOf
<1>2. Max(P) \in P /\ \A q \in P : q <= Max(P)
  <2> HIDE DEF P
  <2>1. P # {}
    BY DEF P
  <2>2. QED
    BY <1>1, <2>1, Largest, LargestBounds
<1>3. LastIndexed(points, ch) = points[Max(P)].ts
  BY DEF LastIndexed
<1>4. QED
  BY <1>2, <1>3 DEF PointsOf

LEMMA PiledServes ==
  ASSUME NEW recs \in Seq(Records), NEW n \in DOMAIN recs, NEW points,
         PointsServe(recs, n - 1, points)
  PROVE  PointsServe(recs, n, Piled(recs, points, n))
<1> DEFINE r == recs[n]
           e == [ch |-> r.ch, ts |-> r.ts, off |-> n]
           more == Append(points, e)
           l == Len(points)
<1>1. n \in Nat /\ n >= 1 /\ r \in Records
  OBVIOUS
<1>2. r.ch \in Nat /\ r.ts \in Nat
  BY <1>1, RecordFields
<1>3. /\ points \in Seq(Point) /\ PointsLead(recs, n - 1, points) /\ PointsSorted(points)
      /\ \A k \in 1..(n - 1) : IsData(recs[k]) => Served(recs, k, points)
      /\ PointsApart(points)
  BY DEF PointsServe
<1>4. \A k \in 1..n : k \in 1..(n - 1) \/ k = n
  BY <1>1
<1>5. PointsLead(recs, n, points)
  <2>1. \A k \in 1..(n - 1) : k \in 1..n
    BY <1>1
  <2>2. QED
    BY <1>3, <2>1 DEF PointsLead
<1>6. CASE ~IsData(r)
  <2>1. Piled(recs, points, n) = points
    BY <1>6 DEF Piled
  <2>2. PointsServe(recs, n, points)
    BY <1>3, <1>4, <1>5, <1>6 DEF PointsServe
  <2>3. QED
    BY <2>1, <2>2
<1>7. \A p \in DOMAIN points : points[p].off \in 1..(n - 1) /\ points[p] \in Point
  BY <1>3 DEF PointsLead
<1>8. CASE IsData(r) /\ ~WantsPoint(points, r.ch, r.ts)
  <2>1. Piled(recs, points, n) = points
    BY <1>8 DEF Piled, MaybeAdd
  <2>2. PointsOf(points, r.ch) # {} /\ ~((r.ts - LastIndexed(points, r.ch)) % Word >= IndexIntervalNs)
    BY <1>8 DEF WantsPoint
  <2>3. PICK p \in DOMAIN points :
           /\ points[p].ch = r.ch /\ LastIndexed(points, r.ch) = points[p].ts
           /\ \A q \in DOMAIN points : points[q].ch = r.ch => q <= p
    BY <1>3, <2>2, LastPoint
  <2>4. points[p].off <= n /\ points[p].ts \in Nat
    <3>1. points[p].off \in 1..(n - 1) /\ points[p].ts \in Nat
      BY <1>7 DEF Point
    <3>2. QED
      BY <1>1, <3>1
  <2>5. (r.ts - points[p].ts) % Word < IndexIntervalNs
    <3>1. (r.ts - points[p].ts) % Word \in Int
      BY <1>2, <2>4, WordAssumption
    <3>2. QED
      BY <2>2, <2>3, <3>1, IntervalAssumption
  <2>6. LastUpTo(points, r.ch, n, p)
    BY <2>3, <2>4 DEF LastUpTo
  <2>7. Served(recs, n, points)
    BY <2>3, <2>5, <2>6 DEF Served
  <2>8. PointsServe(recs, n, points)
    BY <1>3, <1>4, <1>5, <2>7 DEF PointsServe
  <2>9. QED
    BY <2>1, <2>8
<1>9. CASE IsData(r) /\ WantsPoint(points, r.ch, r.ts)
  <2>1. Piled(recs, points, n) = more
    BY <1>9 DEF Piled, MaybeAdd
  <2>2. e \in Point
    BY <1>1, <1>2 DEF Point
  <2>3. /\ more \in Seq(Point) /\ l \in Nat /\ DOMAIN points = 1..l /\ DOMAIN more = 1..(l + 1)
        /\ more[l + 1] = e /\ \A p \in DOMAIN points : more[p] = points[p]
    <3> HIDE DEF e
    <3>1. QED
      BY <1>3, <2>2
  <2> HIDE DEF more, l
  <2>4. e.ch = r.ch /\ e.ts = r.ts /\ e.off = n
    OBVIOUS
  <2> HIDE DEF e
  <2>5. \A p \in DOMAIN more : p \in DOMAIN points \/ p = l + 1
    BY <2>3
  <2>6. PointsLead(recs, n, more)
    <3>1. n \in 1..n
      BY <1>1
    <3>2. QED
      BY <1>5, <1>9, <2>3, <2>4, <2>5, <3>1 DEF PointsLead
  <2>7. PointsSorted(more)
    <3> SUFFICES ASSUME NEW p \in DOMAIN more, NEW q \in DOMAIN more, p < q
                 PROVE  more[p].off < more[q].off
      BY DEF PointsSorted
    <3>1. p \in DOMAIN points
      BY <2>3
    <3>2. CASE q \in DOMAIN points
      BY <1>3, <2>3, <3>1, <3>2 DEF PointsSorted
    <3>3. CASE q = l + 1
      <4>1. points[p].off \in 1..(n - 1)
        BY <1>7, <3>1
      <4>2. QED
        BY <1>1, <2>3, <2>4, <3>1, <3>3, <4>1
    <3>4. QED
      BY <2>5, <3>2, <3>3
  <2>8. ASSUME NEW k \in 1..n, IsData(recs[k])
        PROVE  Served(recs, k, more)
    <3>1. CASE k \in 1..(n - 1)
      <4>1. PICK p \in DOMAIN points :
               /\ LastUpTo(points, recs[k].ch, k, p)
               /\ points[p].off = k \/ (recs[k].ts - points[p].ts) % Word < IndexIntervalNs
        BY <1>3, <2>8, <3>1 DEF Served
      <4>2. p \in DOMAIN more /\ more[p] = points[p]
        BY <2>3
      <4>3. ~ (more[l + 1].off <= k)
        BY <1>1, <2>3, <2>4, <3>1
      <4>4. LastUpTo(more, recs[k].ch, k, p)
        BY <2>3, <2>5, <4>1, <4>2, <4>3 DEF LastUpTo
      <4>5. QED
        BY <4>1, <4>2, <4>4 DEF Served
    <3>2. CASE k = n
      <4>1. l + 1 \in DOMAIN more /\ n <= n /\ \A q \in DOMAIN more : q <= l + 1
        BY <1>1, <2>3
      <4>2. LastUpTo(more, recs[k].ch, k, l + 1)
        BY <2>3, <2>4, <3>2, <4>1 DEF LastUpTo
      <4>3. QED
        BY <2>3, <2>4, <3>2, <4>1, <4>2 DEF Served
    <3>3. QED
      BY <1>4, <3>1, <3>2
  <2>9. PointsApart(more)
    <3> SUFFICES ASSUME NEW p \in DOMAIN more, NEW q \in DOMAIN more, p < q,
                        LastUpTo(more, more[q].ch, more[q].off - 1, p)
                 PROVE  (more[q].ts - more[p].ts) % Word >= IndexIntervalNs
      BY DEF PointsApart
    <3>1. p \in DOMAIN points /\ more[p] = points[p]
      BY <2>3
    <3>2. \A k \in DOMAIN points : k \in DOMAIN more /\ more[k] = points[k]
      BY <2>3
    <3>3. CASE q \in DOMAIN points
      <4>1. more[q] = points[q]
        BY <3>2, <3>3
      <4>2. LastUpTo(points, points[q].ch, points[q].off - 1, p)
        BY <3>1, <3>2, <4>1 DEF LastUpTo
      <4>3. QED
        BY <1>3, <3>1, <3>3, <4>1, <4>2 DEF PointsApart
    <3>4. CASE q = l + 1
      <4>1. more[q].ch = r.ch /\ more[q].off - 1 = n - 1 /\ more[q].ts = r.ts
        BY <2>3, <2>4, <3>4
      <4>2. points[p].ch = r.ch
        BY <3>1, <4>1 DEF LastUpTo
      <4>3. PointsOf(points, r.ch) # {}
        BY <3>1, <4>2 DEF PointsOf
      <4>4. PICK z \in DOMAIN points :
               /\ points[z].ch = r.ch /\ LastIndexed(points, r.ch) = points[z].ts
               /\ \A k \in DOMAIN points : points[k].ch = r.ch => k <= z
        BY <1>3, <4>3, LastPoint
      <4>5. z <= p
        <5>1. points[z].off <= n - 1
          BY <1>1, <1>7
        <5>2. QED
          BY <3>2, <4>1, <4>4, <5>1 DEF LastUpTo
      <4>6. z = p
        BY <2>3, <3>1, <4>2, <4>4, <4>5
      <4>7. (r.ts - LastIndexed(points, r.ch)) % Word >= IndexIntervalNs
        BY <1>9, <4>3 DEF WantsPoint
      <4>8. QED
        BY <3>1, <4>1, <4>4, <4>6, <4>7
    <3>5. QED
      BY <2>5, <3>3, <3>4
  <2>10. PointsServe(recs, n, more)
    BY <2>3, <2>6, <2>7, <2>8, <2>9 DEF PointsServe
  <2>11. QED
    BY <2>1, <2>10
<1>10. QED
  BY <1>6, <1>8, <1>9

\* What a scan of intact or damaged records gives is an index of them.
LEMMA ScanServes ==
  ASSUME NEW recs \in Seq(Records)
  PROVE  PointsServe(recs, Len(recs), PointsOfRecords(recs))
<1> DEFINE N == Len(recs)
           g == CHOOSE g : IndexedBy(recs, 1..N, g)
           T == {n \in 0..N : ~PointsServe(recs, n, g[1..n])}
<1>1. N \in Nat /\ DOMAIN recs = 1..N
  OBVIOUS
<1>2. IndexedBy(recs, 1..N, g)
  BY <1>1, FoldExists
<1>3. PointsOfRecords(recs) = g[1..N]
  BY <1>1, PointsFold
<1> HIDE DEF g
<1>4. \A s \in SUBSET (1..N) :
        g[s] = IF s = {} THEN <<>>
               ELSE Piled(recs, g[s \ {Max(s)}], [k \in DOMAIN recs |-> k][Max(s)])
  BY <1>2 DEF IndexedBy
<1>5. ASSUME T # {} PROVE FALSE
  <2>1. PICK m \in T : \A n \in T : m <= n
    <3>1. T \in SUBSET Nat
      BY <1>1
    <3> HIDE DEF T
    <3>2. QED
      BY <1>5, <3>1, Smallest
  <2>2. m \in 0..N /\ ~PointsServe(recs, m, g[1..m])
    BY <2>1
  <2>3. CASE m = 0
    <3>1. 1..0 = {} /\ {} \in SUBSET (1..N)
      OBVIOUS
    <3>2. g[1..0] = <<>>
      BY <1>4, <3>1
    <3>3. <<>> \in Seq(Point) /\ DOMAIN <<>> = {}
      OBVIOUS
    <3>4. PointsServe(recs, 0, <<>>)
      BY <3>1, <3>3 DEF PointsServe, PointsLead, PointsSorted, PointsApart
    <3>5. QED
      BY <2>2, <2>3, <3>2, <3>4
  <2>4. CASE m # 0
    <3>1. m \in 1..N /\ m - 1 \in 0..N
      BY <1>1, <2>2, <2>4
    <3>2. PointsServe(recs, m - 1, g[1..(m - 1)])
      <4>1. ~ (m <= m - 1)
        BY <1>1, <3>1
      <4>2. QED
        BY <2>1, <3>1, <4>1
    <3>3. Max(1..m) = m
      <4>1. m \in 1..m /\ \A y \in 1..m : m >= y
        BY <1>1, <3>1
      <4>2. \A x \in 1..m : (\A y \in 1..m : x >= y) => x = m
        BY <1>1, <3>1
      <4>3. QED
        BY <4>1, <4>2 DEF Max
    <3>4. 1..m \in SUBSET (1..N) /\ 1..m # {} /\ (1..m) \ {m} = 1..(m - 1)
      <4> HIDE DEF N, T
      <4>1. \A x \in 1..m : x \in 1..N
        BY <1>1, <3>1
      <4>2. m \in 1..m
        BY <1>1, <3>1
      <4>3. \A x : x \in 1..m /\ x # m <=> x \in 1..(m - 1)
        BY <1>1, <3>1
      <4>4. QED
        BY <4>1, <4>2, <4>3
    <3>5. g[1..m] = Piled(recs, g[1..(m - 1)], m)
      BY <1>1, <1>4, <3>1, <3>3, <3>4
    <3>6. QED
      BY <1>1, <2>2, <3>1, <3>2, <3>5, PiledServes
  <2>5. QED
    BY <2>3, <2>4
<1>6. PointsServe(recs, N, g[1..N])
  <2>1. N \in 0..N
    BY <1>1
  <2>2. QED
    BY <1>5, <2>1
<1>7. QED
  BY <1>3, <1>6
=============================================================================
