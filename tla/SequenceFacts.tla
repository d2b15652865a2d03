---------------------------- MODULE SequenceFacts ----------------------------
(***************************************************************************)
(* Facts about sequences that the proofs share: least elements, appending, *)
(* what FlattenSeq gives for a sequence that grows, and sums.  An          *)
(* induction is stated as a least counterexample, because the provers do   *)
(* not instantiate the library's induction theorems.                       *)
(***************************************************************************)
EXTENDS SequencesExt, SequenceTheorems, FiniteSetTheorems, WellFoundedInduction, TLAPS

LEMMA Smallest ==
  ASSUME NEW T \in SUBSET Nat, T # {}
  PROVE  \E m \in T : \A n \in T : m <= n
<1> DEFINE R == OpToRel(<, Nat)
<1>1. IsWellFoundedOn(R, Nat)
  BY NatLessThanWellFounded
<1>2. PICK m \in T : \A n \in T : ~ (<<n, m>> \in R)
  <2> HIDE DEF R
  <2>1. QED
    BY <1>1, WFMin
<1>3. ASSUME NEW n \in T
      PROVE  m <= n
  <2>1. <<n, m>> \in R <=> n < m
    BY DEF OpToRel
  <2> HIDE DEF R
  <2>2. ~ (n < m) /\ n \in Nat /\ m \in Nat
    BY <1>2, <2>1
  <2>3. QED
    BY <2>2
<1>4. QED
  BY <1>2, <1>3

LEMMA Largest ==
  ASSUME NEW n \in Nat, NEW T \in SUBSET (1..n), T # {}
  PROVE  Max(T) \in T
<1> DEFINE R == {n - x : x \in T}
<1>1. \A x \in T : x \in 1..n /\ n - x \in Nat /\ n - x \in R
  OBVIOUS
<1>2. R \in SUBSET Nat /\ R # {}
  BY <1>1
<1>3. PICK m \in R : \A k \in R : m <= k
  <2> HIDE DEF R
  <2>1. QED
    BY <1>2, Smallest
<1>4. PICK x \in T : m = n - x
  BY <1>3
<1>5. ASSUME NEW y \in T PROVE x >= y
  <2>1. n - x <= n - y
    BY <1>1, <1>3, <1>4
  <2>2. x \in Nat /\ y \in Nat
    BY <1>1
  <2>3. QED
    BY <2>1, <2>2
<1>6. QED
  BY <1>4, <1>5 DEF Max

LEMMA LargestBounds ==
  ASSUME NEW n \in Nat, NEW T \in SUBSET (1..n), NEW y \in T
  PROVE  y <= Max(T)
<1> DEFINE R == {n - x : x \in T}
<1>1. \A x \in T : x \in 1..n /\ n - x \in Nat /\ n - x \in R
  OBVIOUS
<1>2. R \in SUBSET Nat /\ R # {}
  BY <1>1
<1>3. PICK m \in R : \A k \in R : m <= k
  <2> HIDE DEF R
  <2>1. QED
    BY <1>2, Smallest
<1>4. PICK x \in T : m = n - x
  BY <1>3
<1>5. \A z \in T : x >= z
  <2> TAKE z \in T
  <2>1. n - x <= n - z
    BY <1>1, <1>3, <1>4
  <2>2. x \in Nat /\ z \in Nat
    BY <1>1
  <2>3. QED
    BY <2>1, <2>2
<1>6. Max(T) \in T /\ \A z \in T : Max(T) >= z
  BY <1>4, <1>5 DEF Max
<1>7. QED
  BY <1>1, <1>6

\* The elements of a sequence with one more.
LEMMA AppendSet ==
  ASSUME NEW S, NEW s \in Seq(S), NEW e \in S
  PROVE  ToSet(Append(s, e)) = ToSet(s) \cup {e}
<1> DEFINE n == Len(s) + 1
           t == Append(s, e)
<1>1. /\ DOMAIN s = 1..(n - 1) /\ DOMAIN t = 1..n /\ n \in Nat /\ n >= 1
      /\ t[n] = e /\ \A k \in 1..(n - 1) : t[k] = s[k]
  OBVIOUS
<1> HIDE DEF n, t
<1>2. \A k \in 1..n : k \in 1..(n - 1) \/ k = n
  BY <1>1
<1>3. \A k \in 1..(n - 1) : k \in 1..n
  BY <1>1
<1>4. {t[k] : k \in 1..n} = {s[k] : k \in 1..(n - 1)} \cup {e}
  BY <1>1, <1>2, <1>3
<1>5. QED
  BY <1>1, <1>4 DEF ToSet, t

LEMMA LastReplaced ==
  ASSUME NEW S, NEW s \in Seq(S), s # <<>>, NEW e \in S
  PROVE  [s EXCEPT ![Len(s)] = e] = Append(SubSeq(s, 1, Len(s) - 1), e)
<1> DEFINE n == Len(s)
           a == [s EXCEPT ![n] = e]
           b == Append(SubSeq(s, 1, n - 1), e)
<1>1. n \in 1..Len(s) /\ n \in Nat
  OBVIOUS
<1>2. a \in Seq(S) /\ Len(a) = n /\ \A k \in 1..n : a[k] = IF k = n THEN e ELSE s[k]
  BY <1>1, ExceptSeq
<1>3. b \in Seq(S) /\ Len(b) = n
  <2>1. SubSeq(s, 1, n - 1) \in Seq(S) /\ Len(SubSeq(s, 1, n - 1)) = n - 1
    <3>1. n \in Nat /\ n >= 1 /\ \A k \in 1..(n - 1) : s[k] \in S
      OBVIOUS
    <3> HIDE DEF n
    <3>2. 1 <= n - 1 \/ n - 1 = 0
      BY <3>1
    <3>3. QED
      BY <3>1, <3>2, SubSeqProperties
  <2> HIDE DEF n
  <2>2. QED
    BY <1>1, <2>1
<1>4. \A k \in 1..n : b[k] = IF k = n THEN e ELSE s[k]
  OBVIOUS
<1> HIDE DEF a, b
<1>5. a = b
  BY <1>2, <1>3, <1>4, SeqEqual
<1>6. QED
  BY <1>5 DEF a, b

\* A sequence that is another one and an element more.
LEMMA IsAppend ==
  ASSUME NEW S, NEW s \in Seq(S), NEW e \in S, NEW t, DOMAIN t = 1..(Len(s) + 1),
         t = [k \in DOMAIN t |-> t[k]],
         \A k \in 1..Len(s) : t[k] = s[k], t[Len(s) + 1] = e
  PROVE  t = Append(s, e)
<1>1. Len(s) \in Nat /\ \A k \in 1..(Len(s) + 1) : t[k] \in S
  OBVIOUS
<1>2. t \in Seq(S) /\ Len(t) = Len(s) + 1
  <2> DEFINE n == Len(s) + 1
  <2>1. n \in Nat /\ t = [k \in 1..n |-> t[k]] /\ \A k \in 1..n : t[k] \in S
    BY <1>1
  <2> HIDE DEF n
  <2>2. t \in [1..n -> S]
    BY <2>1
  <2>3. t \in Seq(S) /\ Len(t) = n
    BY <2>1, <2>2
  <2>4. QED
    BY <2>3 DEF n
<1>3. Append(s, e) \in Seq(S) /\ Len(Append(s, e)) = Len(s) + 1
  OBVIOUS
<1>4. \A k \in 1..(Len(s) + 1) : Append(s, e)[k] = t[k]
  OBVIOUS
<1>5. QED
  BY <1>2, <1>3, <1>4, SeqEqual

(***************************************************************************)
(* FlattenSeq.                                                             *)
(***************************************************************************)
\* The function FlattenSeq is defined by, up to the n-th of the sequences.
Piles(ss, n, g) == g = [i \in 1..n |-> IF i = 1 THEN ss[i] ELSE g[i-1] \o ss[i]]

LEMMA PilesExist ==
  ASSUME NEW ss, NEW N \in Nat
  PROVE  \E g : Piles(ss, N, g)
<1> DEFINE T == {n \in Nat : ~ \E g : Piles(ss, n, g)}
<1>1. SUFFICES ASSUME T # {} PROVE FALSE
  OBVIOUS
<1>2. PICK m \in T : \A n \in T : m <= n
  <2>1. T \in SUBSET Nat
    OBVIOUS
  <2> HIDE DEF T
  <2>2. QED
    BY <1>1, <2>1, Smallest
<1>3. m # 0
  <2>1. Piles(ss, 0, [i \in {} |-> 0])
    BY DEF Piles
  <2>2. QED
    BY <2>1
<1>4. PICK g : Piles(ss, m - 1, g)
  <2>1. m - 1 \in Nat /\ ~ (m <= m - 1)
    BY <1>3
  <2>2. m - 1 \notin T
    BY <1>2, <2>1
  <2>3. QED
    BY <2>1, <2>2
<1> DEFINE last == IF m = 1 THEN ss[m] ELSE g[m-1] \o ss[m]
           h == [i \in 1..m |-> IF i = m THEN last ELSE g[i]]
<1>5. \A i \in 1..(m - 1) : g[i] = IF i = 1 THEN ss[i] ELSE g[i-1] \o ss[i]
  BY <1>4 DEF Piles
<1>6. \A i \in 1..m : h[i] = IF i = 1 THEN ss[i] ELSE h[i-1] \o ss[i]
  <2> TAKE i \in 1..m
  <2>1. CASE i = m
    <3>1. h[i] = last
      BY <2>1
    <3>2. i # 1 => h[i-1] = g[i-1]
      BY <2>1
    <3>3. QED
      BY <2>1, <3>1, <3>2
  <2>2. CASE i # m
    <3>1. h[i] = g[i] /\ (i # 1 => h[i-1] = g[i-1])
      BY <2>2
    <3>2. QED
      BY <1>5, <2>2, <3>1
  <2>3. QED
    BY <2>1, <2>2
<1>7. h = [i \in 1..m |-> IF i = 1 THEN ss[i] ELSE h[i-1] \o ss[i]]
  <2>1. h = [i \in 1..m |-> h[i]]
    OBVIOUS
  <2> HIDE DEF h
  <2>2. QED
    BY <1>6, <2>1
<1>8. Piles(ss, m, h)
  <2> HIDE DEF h
  <2>1. QED
    BY <1>7 DEF Piles
<1>9. QED
  BY <1>8

\* Two such functions agree where the sequences do.
LEMMA PilesAgree ==
  ASSUME NEW ss, NEW tt, NEW N \in Nat, NEW M \in Nat, N <= M, NEW g, NEW h,
         Piles(ss, N, g), Piles(tt, M, h), \A i \in 1..N : ss[i] = tt[i]
  PROVE  \A i \in 1..N : g[i] = h[i]
<1> DEFINE T == {n \in 1..N : g[n] # h[n]}
<1>1. SUFFICES ASSUME T # {} PROVE FALSE
  OBVIOUS
<1>2. PICK m \in T : \A n \in T : m <= n
  <2>1. T \in SUBSET Nat
    OBVIOUS
  <2> HIDE DEF T
  <2>2. QED
    BY <1>1, <2>1, Smallest
<1>3. /\ g[m] = IF m = 1 THEN ss[m] ELSE g[m-1] \o ss[m]
      /\ h[m] = IF m = 1 THEN tt[m] ELSE h[m-1] \o tt[m]
  <2>1. m \in 1..N /\ m \in 1..M
    BY <1>2
  <2> HIDE DEF T
  <2>2. QED
    BY <2>1 DEF Piles
<1>4. m # 1 => g[m-1] = h[m-1]
  <2>1. m # 1 => m - 1 \in 1..N /\ ~ (m <= m - 1)
    BY <1>2
  <2>2. QED
    BY <1>2, <2>1
<1>5. QED
  BY <1>2, <1>3, <1>4

LEMMA FlattenIsPile ==
  ASSUME NEW ss, Len(ss) \in Nat \ {0}, NEW g, Piles(ss, Len(ss), g)
  PROVE  FlattenSeq(ss) = g[Len(ss)]
<1>1. \A h : Piles(ss, Len(ss), h) => h = g
  <2> SUFFICES ASSUME NEW h, Piles(ss, Len(ss), h) PROVE h = g
    OBVIOUS
  <2>1. \A i \in 1..Len(ss) : g[i] = h[i]
    BY PilesAgree
  <2>2. g = [i \in 1..Len(ss) |-> g[i]] /\ h = [i \in 1..Len(ss) |-> h[i]]
    BY DEF Piles
  <2>3. QED
    BY <2>1, <2>2
<1>2. Len(ss) # 0
  OBVIOUS
<1>3. QED
  BY <1>1, <1>2, Zenon DEF FlattenSeq, Piles

LEMMA FlattenEmpty == FlattenSeq(<<>>) = <<>>
BY DEF FlattenSeq

\* One sequence more.
LEMMA FlattenAppend ==
  ASSUME NEW S, NEW ss \in Seq(S), NEW s \in S, NEW E, S \subseteq Seq(E)
  PROVE  FlattenSeq(Append(ss, s)) = FlattenSeq(ss) \o s
<1> DEFINE tt == Append(ss, s)
           n == Len(ss)
<1>1. /\ n \in Nat /\ Len(tt) = n + 1 /\ tt[n + 1] = s
      /\ \A i \in 1..n : tt[i] = ss[i]
  OBVIOUS
<1> HIDE DEF tt, n
<1>2. PICK h : Piles(tt, n + 1, h)
  <2>1. n + 1 \in Nat
    BY <1>1
  <2>2. QED
    BY <2>1, PilesExist
<1>3. FlattenSeq(tt) = h[n + 1]
  BY <1>1, <1>2, FlattenIsPile
<1>4. h[n + 1] = IF n = 0 THEN s ELSE h[n] \o s
  <2>1. n + 1 \in 1..(n + 1) /\ (n + 1) - 1 = n /\ (n + 1 = 1 <=> n = 0)
    BY <1>1
  <2>2. h[n + 1] = IF n + 1 = 1 THEN tt[n + 1] ELSE h[(n + 1) - 1] \o tt[n + 1]
    BY <1>2, <2>1 DEF Piles
  <2>3. QED
    BY <1>1, <2>1, <2>2
<1>5. CASE n = 0
  <2>1. ss = <<>>
    BY <1>5 DEF n
  <2>2. FlattenSeq(ss) = <<>>
    BY <2>1, FlattenEmpty
  <2>3. <<>> \o s = s
    OBVIOUS
  <2>4. QED
    BY <1>3, <1>4, <1>5, <2>2, <2>3 DEF tt
<1>6. CASE n # 0
  <2>1. PICK g : Piles(ss, n, g)
    BY <1>1, PilesExist
  <2>2. FlattenSeq(ss) = g[n]
    BY <1>1, <1>6, <2>1, FlattenIsPile DEF n
  <2>3. g[n] = h[n]
    <3>1. \A i \in 1..n : g[i] = h[i]
      <4>1. n + 1 \in Nat /\ n <= n + 1
        BY <1>1
      <4>2. \A i \in 1..n : ss[i] = tt[i]
        BY <1>1
      <4>3. QED
        BY <1>1, <1>2, <2>1, <4>1, <4>2, PilesAgree
    <3>2. QED
      BY <1>1, <1>6, <3>1
  <2>4. QED
    BY <1>3, <1>4, <1>6, <2>2, <2>3 DEF tt
<1>7. QED
  BY <1>5, <1>6

LEMMA PileTypes ==
  ASSUME NEW E, NEW ss \in Seq(Seq(E)), NEW g, Piles(ss, Len(ss), g)
  PROVE  \A k \in 1..Len(ss) : g[k] \in Seq(E)
<1> DEFINE n == Len(ss)
           T == {k \in 1..n : g[k] \notin Seq(E)}
<1>1. n \in Nat /\ \A i \in 1..n : ss[i] \in Seq(E)
  OBVIOUS
<1> HIDE DEF n
<1>2. SUFFICES ASSUME T # {} PROVE FALSE
  BY DEF n
<1>3. PICK m \in T : \A k \in T : m <= k
  <2>1. T \in SUBSET Nat
    BY <1>1
  <2> HIDE DEF T
  <2>2. QED
    BY <1>2, <2>1, Smallest
<1>4. m \in 1..n /\ ss[m] \in Seq(E)
  BY <1>1, <1>3
<1>5. g[m] = IF m = 1 THEN ss[m] ELSE g[m-1] \o ss[m]
  BY <1>4 DEF Piles, n
<1>6. m # 1 => g[m-1] \in Seq(E)
  <2>1. m # 1 => m - 1 \in 1..n /\ ~ (m <= m - 1)
    BY <1>1, <1>4
  <2>2. QED
    BY <1>3, <2>1
<1>7. g[m] \in Seq(E)
  BY <1>4, <1>5, <1>6
<1>8. QED
  BY <1>3, <1>7

LEMMA FlattenType ==
  ASSUME NEW E, NEW ss \in Seq(Seq(E))
  PROVE  FlattenSeq(ss) \in Seq(E)
<1> DEFINE n == Len(ss)
<1>1. n \in Nat /\ \A i \in 1..n : ss[i] \in Seq(E)
  OBVIOUS
<1>2. CASE n = 0
  <2>1. ss = <<>> /\ <<>> \in Seq(E)
    BY <1>2
  <2>2. QED
    BY <2>1, FlattenEmpty
<1>3. CASE n # 0
  <2> HIDE DEF n
  <2>1. PICK g : Piles(ss, n, g)
    BY <1>1, PilesExist
  <2>2. n \in 1..n
    BY <1>1, <1>3
  <2>3. g[n] \in Seq(E)
    BY <2>1, <2>2, PileTypes DEF n
  <2>4. FlattenSeq(ss) = g[n]
    BY <1>1, <1>3, <2>1, FlattenIsPile DEF n
  <2>5. QED
    BY <2>3, <2>4
<1>4. QED
  BY <1>2, <1>3

\* The last sequence grows.
LEMMA FlattenGrow ==
  ASSUME NEW E, NEW ss \in Seq(Seq(E)), ss # <<>>, NEW t \in Seq(E)
  PROVE  FlattenSeq([ss EXCEPT ![Len(ss)] = @ \o t]) = FlattenSeq(ss) \o t
<1> DEFINE n == Len(ss)
           front == SubSeq(ss, 1, n - 1)
           last == ss[n]
<1>1. /\ front \in Seq(Seq(E)) /\ last \in Seq(E) /\ last \o t \in Seq(E)
      /\ ss = Append(front, last)
  <2>1. n \in Nat /\ n >= 1 /\ \A k \in 1..n : ss[k] \in Seq(E)
    OBVIOUS
  <2>2. last \in Seq(E) /\ last \o t \in Seq(E)
    BY <2>1
  <2>3. front \in Seq(Seq(E)) /\ ss = Append(front, last)
    OBVIOUS
  <2>4. QED
    BY <2>2, <2>3
<1>2. [ss EXCEPT ![Len(ss)] = @ \o t] = Append(front, last \o t)
  <2> HIDE DEF last
  <2>1. [ss EXCEPT ![n] = last \o t] = Append(front, last \o t)
    BY <1>1, LastReplaced
  <2>2. QED
    BY <2>1 DEF last
<1> HIDE DEF n, front, last
<1>3. FlattenSeq(ss) = FlattenSeq(front) \o last
  BY <1>1, FlattenAppend
<1>4. FlattenSeq(Append(front, last \o t)) = FlattenSeq(front) \o (last \o t)
  BY <1>1, FlattenAppend
<1>5. FlattenSeq(front) \in Seq(E)
  BY <1>1, FlattenType
<1>6. FlattenSeq(front) \o (last \o t) = (FlattenSeq(front) \o last) \o t
  <2>1. \A f \in Seq(E) : f \o (last \o t) = (f \o last) \o t
    BY <1>1, ConcatAssociative
  <2>2. QED
    BY <1>5, <2>1
<1>7. QED
  BY <1>2, <1>3, <1>4, <1>6

\* What is in the concatenation comes from one of the sequences.
LEMMA FlattenMember ==
  ASSUME NEW E, NEW ss \in Seq(Seq(E)), NEW x \in ToSet(FlattenSeq(ss))
  PROVE  \E i \in DOMAIN ss : x \in ToSet(ss[i])
<1> DEFINE n == Len(ss)
<1>1. n \in Nat /\ DOMAIN ss = 1..n /\ \A i \in 1..n : ss[i] \in Seq(E)
  OBVIOUS
<1>2. n # 0
  <2>1. SUFFICES ASSUME n = 0 PROVE FALSE
    OBVIOUS
  <2>2. ss = <<>>
    BY <2>1
  <2>3. ToSet(<<>>) = {}
    BY DEF ToSet
  <2>4. QED
    BY <2>2, <2>3, FlattenEmpty
<1> HIDE DEF n
<1>3. PICK g : Piles(ss, n, g)
  BY <1>1, PilesExist
<1>4. FlattenSeq(ss) = g[n]
  BY <1>1, <1>2, <1>3, FlattenIsPile DEF n
<1> DEFINE T == {k \in 1..n : x \in ToSet(g[k])}
<1>5. \A k \in 1..n : g[k] \in Seq(E)
  BY <1>3, PileTypes DEF n
<1>6. n \in T
  <2>1. n \in 1..n
    BY <1>1, <1>2
  <2>2. QED
    BY <1>4, <2>1
<1>7. PICK m \in T : \A k \in T : m <= k
  <2>1. T \in SUBSET Nat
    BY <1>1
  <2> HIDE DEF T
  <2>2. QED
    BY <1>6, <2>1, Smallest
<1>8. m \in 1..n /\ ss[m] \in Seq(E) /\ x \in ToSet(g[m])
  BY <1>1, <1>7
<1>9. g[m] = IF m = 1 THEN ss[m] ELSE g[m-1] \o ss[m]
  BY <1>3, <1>8 DEF Piles
<1>10. CASE m = 1
  BY <1>1, <1>8, <1>9, <1>10
<1>11. CASE m # 1
  <2>1. m - 1 \in 1..n /\ ~ (m <= m - 1)
    BY <1>1, <1>8, <1>11
  <2>2. g[m-1] \in Seq(E) /\ x \notin ToSet(g[m-1])
    <3>1. g[m-1] \in Seq(E)
      BY <1>5, <2>1
    <3>2. x \in ToSet(g[m-1]) => m - 1 \in T
      BY <2>1
    <3> HIDE DEF T
    <3>3. QED
      BY <1>7, <2>1, <3>1, <3>2
  <2> DEFINE s == g[m-1]
             t == ss[m]
  <2>3. s \in Seq(E) /\ t \in Seq(E) /\ x \in ToSet(s \o t) /\ x \notin ToSet(s)
    BY <1>8, <1>9, <1>11, <2>2
  <2> HIDE DEF s, t
  <2>4. PICK k \in DOMAIN (s \o t) : x = (s \o t)[k]
    BY <2>3 DEF ToSet
  <2>5. k \notin DOMAIN s
    <3>1. k \in DOMAIN s => (s \o t)[k] = s[k]
      BY <2>3
    <3>2. QED
      BY <2>3, <2>4, <3>1 DEF ToSet
  <2>6. k - Len(s) \in DOMAIN t /\ (s \o t)[k] = t[k - Len(s)]
    BY <2>3, <2>4, <2>5
  <2>7. x \in ToSet(t)
    BY <2>4, <2>6 DEF ToSet
  <2>8. QED
    BY <1>1, <1>8, <2>7 DEF t
<1>12. QED
  BY <1>10, <1>11

\* A sequence of a head and a rest.
LEMMA IsCons ==
  ASSUME NEW S, NEW e \in S, NEW s \in Seq(S), NEW t \in Seq(S), Len(t) = Len(s) + 1,
         t[1] = e, \A k \in 1..Len(s) : t[k + 1] = s[k]
  PROVE  t = <<e>> \o s
<1> DEFINE c == <<e>> \o s
<1>1. <<e>> \in Seq(S) /\ Len(<<e>>) = 1 /\ Len(s) \in Nat
  OBVIOUS
<1>2. /\ c \in Seq(S) /\ Len(c) = Len(s) + 1
      /\ \A k \in 1..(Len(s) + 1) : c[k] = IF k <= 1 THEN <<e>>[k] ELSE s[k - 1]
  <2>1. 1 + Len(s) = Len(s) + 1
    BY <1>1
  <2>2. QED
    BY <1>1, <2>1, ConcatProperties
<1> HIDE DEF c
<1>3. \A k \in 1..Len(t) : t[k] = c[k]
  <2> TAKE k \in 1..Len(t)
  <2>1. CASE k = 1
    BY <1>1, <1>2, <2>1
  <2>2. CASE k # 1
    <3>1. k - 1 \in 1..Len(s) /\ (k - 1) + 1 = k /\ ~ (k <= 1) /\ k \in 1..(Len(s) + 1)
      BY <1>1, <2>2
    <3>2. t[k] = s[k - 1]
      BY <3>1
    <3>3. QED
      BY <1>2, <3>1, <3>2
  <2>3. QED
    BY <2>1, <2>2
<1>4. t = c
  BY <1>2, <1>3, SeqEqual
<1>5. QED
  BY <1>4 DEF c

LEMMA ConsAppend ==
  ASSUME NEW S, NEW e \in S, NEW s \in Seq(S), NEW f \in S
  PROVE  <<e>> \o s \in Seq(S) /\ <<e>> \o Append(s, f) = Append(<<e>> \o s, f)
<1> DEFINE a == <<e>> \o Append(s, f)
           b == Append(<<e>> \o s, f)
<1>1. <<e>> \o s \in Seq(S) /\ a \in Seq(S) /\ b \in Seq(S)
  OBVIOUS
<1>2. Len(a) = Len(s) + 2 /\ Len(b) = Len(s) + 2 /\ \A k \in 1..(Len(s) + 2) : a[k] = b[k]
  OBVIOUS
<1> HIDE DEF a, b
<1>3. a = b
  BY <1>1, <1>2, SeqEqual
<1>4. QED
  BY <1>1, <1>3 DEF a, b

\* One sequence more at the front.
LEMMA FlattenCons ==
  ASSUME NEW E, NEW ss \in Seq(Seq(E)), NEW s \in Seq(E)
  PROVE  FlattenSeq(<<s>> \o ss) = s \o FlattenSeq(ss)
<1> DEFINE Wrong(tt) == FlattenSeq(<<s>> \o tt) # s \o FlattenSeq(tt)
           T == {n \in Nat : \E tt \in Seq(Seq(E)) : Len(tt) = n /\ Wrong(tt)}
<1>1. SUFFICES ASSUME T # {} PROVE FALSE
  <2>1. Len(ss) \in Nat
    OBVIOUS
  <2>2. QED
    BY <2>1
<1>2. PICK m \in T : \A n \in T : m <= n
  <2>1. T \in SUBSET Nat
    OBVIOUS
  <2> HIDE DEF T
  <2>2. QED
    BY <1>1, <2>1, Smallest
<1>3. PICK tt \in Seq(Seq(E)) : Len(tt) = m /\ Wrong(tt)
  OBVIOUS
<1>4. m \in Nat
  OBVIOUS
<1> HIDE DEF T
<1>5. CASE m = 0
  <2>1. tt = <<>> /\ FlattenSeq(tt) = <<>>
    BY <1>3, <1>5, FlattenEmpty
  <2>2. <<s>> \o tt = Append(<<>>, s) /\ <<>> \in Seq(Seq(E))
    BY <2>1
  <2>3. FlattenSeq(Append(<<>>, s)) = <<>> \o s
    <3>1. FlattenSeq(Append(<<>>, s)) = FlattenSeq(<<>>) \o s
      BY <2>2, FlattenAppend
    <3>2. QED
      BY <3>1, FlattenEmpty
  <2>4. <<>> \o s = s /\ s \o <<>> = s
    OBVIOUS
  <2>5. QED
    BY <1>3, <2>1, <2>2, <2>3, <2>4
<1>6. CASE m # 0
  <2>0. PICK front \in Seq(Seq(E)), last \in Seq(E) : tt = Append(front, last)
    <3>1. tt # <<>>
      BY <1>3, <1>6
    <3>2. QED
      BY <3>1, SequenceEmptyOrAppend
  <2>1. Len(front) = m - 1 /\ m - 1 \in Nat /\ ~ (m <= m - 1)
    <3>1. Len(tt) = Len(front) + 1 /\ Len(front) \in Nat
      BY <2>0, AppendProperties
    <3>2. QED
      BY <1>3, <3>1
  <2>2. ~ Wrong(front)
    BY <1>2, <2>1 DEF T
  <2>3. <<s>> \o front \in Seq(Seq(E)) /\ <<s>> \o tt = Append(<<s>> \o front, last)
    BY <2>0, ConsAppend
  <2>4. FlattenSeq(<<s>> \o tt) = FlattenSeq(<<s>> \o front) \o last
    BY <2>0, <2>3, FlattenAppend
  <2>5. FlattenSeq(tt) = FlattenSeq(front) \o last
    BY <2>0, FlattenAppend
  <2>6. (s \o FlattenSeq(front)) \o last = s \o (FlattenSeq(front) \o last)
    <3> DEFINE piled == FlattenSeq(front)
    <3>1. piled \in Seq(E)
      BY FlattenType
    <3> HIDE DEF piled
    <3>2. (s \o piled) \o last = s \o (piled \o last)
      BY <3>1, ConcatAssociative
    <3>3. QED
      BY <3>2 DEF piled
  <2>7. QED
    BY <1>3, <2>2, <2>4, <2>5, <2>6
<1>7. QED
  BY <1>5, <1>6

\* A sequence of anything.
IsSeq(s) == s \in Seq({s[k] : k \in DOMAIN s})

\* One element of it changed.
LEMMA ReplaceSeq ==
  ASSUME NEW s, IsSeq(s), NEW n \in DOMAIN s, NEW e
  PROVE  /\ IsSeq([s EXCEPT ![n] = e]) /\ Len([s EXCEPT ![n] = e]) = Len(s)
         /\ DOMAIN [s EXCEPT ![n] = e] = DOMAIN s
         /\ \A k \in DOMAIN s : [s EXCEPT ![n] = e][k] = IF k = n THEN e ELSE s[k]
<1> DEFINE S == {s[k] : k \in DOMAIN s} \cup {e}
           t == [s EXCEPT ![n] = e]
<1>1. s \in Seq({s[k] : k \in DOMAIN s})
  BY DEF IsSeq
<1>2. DOMAIN s = 1..Len(s) /\ Len(s) \in Nat
  BY <1>1
<1>3. DOMAIN t = 1..Len(s) /\ \A k \in DOMAIN s : t[k] = IF k = n THEN e ELSE s[k]
  BY <1>2
<1>4. t \in [1..Len(s) -> {t[k] : k \in DOMAIN t}]
  <2>1. t = [k \in DOMAIN s |-> IF k = n THEN e ELSE s[k]]
    OBVIOUS
  <2>2. t = [k \in 1..Len(s) |-> t[k]]
    BY <1>2, <2>1
  <2> HIDE DEF t
  <2>3. QED
    BY <1>3, <2>2
<1>5. t \in Seq({t[k] : k \in DOMAIN t}) /\ Len(t) = Len(s)
  <2> DEFINE m == Len(s)
             T == {t[k] : k \in DOMAIN t}
  <2>1. m \in Nat /\ t \in [1..m -> T]
    BY <1>2, <1>4
  <2> HIDE DEF m, T, t
  <2>2. t \in Seq(T) /\ Len(t) = m
    BY <2>1
  <2>3. QED
    BY <2>2 DEF m, T
<1>6. QED
  BY <1>2, <1>3, <1>5 DEF IsSeq

LEMMA IsSeqOf ==
  ASSUME NEW n \in Nat, NEW t, DOMAIN t = 1..n, t = [k \in 1..n |-> t[k]]
  PROVE  IsSeq(t) /\ Len(t) = n
<1> DEFINE T == {t[k] : k \in DOMAIN t}
<1>1. t \in [1..n -> T]
  <2>1. \A k \in 1..n : t[k] \in T
    OBVIOUS
  <2> HIDE DEF T
  <2>2. QED
    BY <2>1
<1> HIDE DEF T
<1>2. t \in Seq(T) /\ Len(t) = n
  BY <1>1
<1>3. QED
  BY <1>2 DEF IsSeq, T

LEMMA FlattenConcat ==
  ASSUME NEW E, NEW ss \in Seq(Seq(E)), NEW tt \in Seq(Seq(E))
  PROVE  FlattenSeq(ss \o tt) = FlattenSeq(ss) \o FlattenSeq(tt)
<1> DEFINE Wrong(uu) == FlattenSeq(ss \o uu) # FlattenSeq(ss) \o FlattenSeq(uu)
           T == {n \in Nat : \E uu \in Seq(Seq(E)) : Len(uu) = n /\ Wrong(uu)}
<1>1. SUFFICES ASSUME T # {} PROVE FALSE
  <2>1. Len(tt) \in Nat
    OBVIOUS
  <2>2. QED
    BY <2>1
<1>2. PICK m \in T : \A n \in T : m <= n
  <2>1. T \in SUBSET Nat
    OBVIOUS
  <2> HIDE DEF T
  <2>2. QED
    BY <1>1, <2>1, Smallest
<1>3. PICK uu \in Seq(Seq(E)) : Len(uu) = m /\ Wrong(uu)
  OBVIOUS
<1>4. m \in Nat /\ FlattenSeq(ss) \in Seq(E)
  BY FlattenType
<1> HIDE DEF T
<1>5. CASE m = 0
  <2>1. uu = <<>> /\ ss \o uu = ss
    BY <1>3, <1>5
  <2>2. FlattenSeq(ss) \o <<>> = FlattenSeq(ss)
    BY <1>4, ConcatEmptySeq
  <2>3. QED
    BY <1>3, <2>1, <2>2, FlattenEmpty
<1>6. CASE m # 0
  <2>1. PICK front \in Seq(Seq(E)), last \in Seq(E) : uu = Append(front, last)
    <3>1. uu # <<>>
      BY <1>3, <1>6
    <3>2. QED
      BY <3>1, SequenceEmptyOrAppend
  <2>2. Len(front) = m - 1 /\ m - 1 \in Nat /\ ~ (m <= m - 1)
    <3>1. Len(uu) = Len(front) + 1 /\ Len(front) \in Nat
      BY <2>1, AppendProperties
    <3>2. QED
      BY <1>3, <3>1
  <2>3. ~ Wrong(front)
    BY <1>2, <2>2 DEF T
  <2>4. ss \o front \in Seq(Seq(E)) /\ ss \o uu = Append(ss \o front, last)
    <3>1. ss \o front \in Seq(Seq(E))
      OBVIOUS
    <3>2. /\ ss \o uu \in Seq(Seq(E)) /\ Append(ss \o front, last) \in Seq(Seq(E))
          /\ Len(ss \o uu) = Len(Append(ss \o front, last))
          /\ \A k \in 1..Len(ss \o uu) : (ss \o uu)[k] = Append(ss \o front, last)[k]
      BY <2>1
    <3> DEFINE a == ss \o uu
               b == Append(ss \o front, last)
    <3> HIDE DEF a, b
    <3>3. a = b
      BY <3>2, SeqEqual DEF a, b
    <3>4. QED
      BY <3>1, <3>3 DEF a, b
  <2>5. FlattenSeq(ss \o uu) = FlattenSeq(ss \o front) \o last
    BY <2>4, FlattenAppend
  <2>6. FlattenSeq(uu) = FlattenSeq(front) \o last
    BY <2>1, FlattenAppend
  <2> DEFINE x == FlattenSeq(ss)
             y == FlattenSeq(front)
  <2>7. x \in Seq(E) /\ y \in Seq(E)
    BY FlattenType
  <2>8. FlattenSeq(ss \o front) = x \o y
    BY <2>3
  <2> HIDE DEF x, y
  <2>9. (x \o y) \o last = x \o (y \o last)
    BY <2>7, ConcatAssociative
  <2>10. QED
    BY <1>3, <2>5, <2>6, <2>8, <2>9 DEF x, y
<1>7. QED
  BY <1>5, <1>6

(***************************************************************************)
(* The elements of a sequence that are in W, in their order.               *)
(***************************************************************************)
Picked(W, s) == [k \in DOMAIN s |-> IF s[k] \in W THEN <<s[k]>> ELSE <<>>]
Kept(W, s) == FlattenSeq(Picked(W, s))

LEMMA KeptType ==
  ASSUME NEW S, NEW W, NEW s \in Seq(S)
  PROVE  Picked(W, s) \in Seq(Seq(S)) /\ Len(Picked(W, s)) = Len(s) /\ Kept(W, s) \in Seq(S)
<1>1. Len(s) \in Nat /\ DOMAIN s = 1..Len(s) /\ \A k \in 1..Len(s) : s[k] \in S
  OBVIOUS
<1> DEFINE n == Len(s)
           p == [k \in 1..n |-> IF s[k] \in W THEN <<s[k]>> ELSE <<>>]
<1>2. p \in [1..n -> Seq(S)]
  <2>1. \A e \in S : <<e>> \in Seq(S) /\ <<>> \in Seq(S)
    OBVIOUS
  <2>2. \A k \in 1..n : (IF s[k] \in W THEN <<s[k]>> ELSE <<>>) \in Seq(S)
    BY <1>1, <2>1
  <2>3. QED
    BY <2>2
<1>3. Picked(W, s) = p
  BY <1>1 DEF Picked
<1> HIDE DEF n, p
<1>4. p \in Seq(Seq(S)) /\ Len(p) = n
  BY <1>1, <1>2 DEF n
<1>5. QED
  BY <1>3, <1>4, FlattenType DEF Kept, n

LEMMA KeptConcat ==
  ASSUME NEW S, NEW W, NEW s \in Seq(S), NEW t \in Seq(S)
  PROVE  Kept(W, s \o t) = Kept(W, s) \o Kept(W, t)
<1>1. /\ s \o t \in Seq(S) /\ Len(s \o t) = Len(s) + Len(t)
      /\ \A k \in 1..(Len(s) + Len(t)) : (s \o t)[k] = IF k <= Len(s) THEN s[k] ELSE t[k - Len(s)]
      /\ Len(s) \in Nat /\ Len(t) \in Nat
  BY ConcatProperties
<1> DEFINE p == Picked(W, s)
           q == Picked(W, t)
           a == Picked(W, s \o t)
           n == Len(s)
           m == Len(t)
<1>2. /\ p \in Seq(Seq(S)) /\ q \in Seq(Seq(S)) /\ a \in Seq(Seq(S))
      /\ Len(p) = n /\ Len(q) = m /\ Len(a) = n + m
  <2>1. p \in Seq(Seq(S)) /\ Len(p) = n
    BY KeptType
  <2>2. q \in Seq(Seq(S)) /\ Len(q) = m
    BY KeptType
  <2>3. a \in Seq(Seq(S)) /\ Len(a) = n + m
    BY <1>1, KeptType
  <2>4. QED
    BY <2>1, <2>2, <2>3
<1>3. /\ \A k \in 1..n : p[k] = IF s[k] \in W THEN <<s[k]>> ELSE <<>>
      /\ \A k \in 1..m : q[k] = IF t[k] \in W THEN <<t[k]>> ELSE <<>>
      /\ \A k \in 1..(n + m) : a[k] = IF (s \o t)[k] \in W THEN <<(s \o t)[k]>> ELSE <<>>
  <2>1. DOMAIN s = 1..n /\ DOMAIN t = 1..m /\ DOMAIN (s \o t) = 1..(n + m)
    BY <1>1
  <2>2. QED
    BY <2>1 DEF Picked
<1> HIDE DEF p, q, a
<1>4. /\ p \o q \in Seq(Seq(S)) /\ Len(p \o q) = n + m
      /\ \A k \in 1..(n + m) : (p \o q)[k] = IF k <= n THEN p[k] ELSE q[k - n]
  <2> HIDE DEF n, m
  <2>1. /\ p \o q \in Seq(Seq(S)) /\ Len(p \o q) = Len(p) + Len(q)
        /\ \A k \in 1..(Len(p) + Len(q)) : (p \o q)[k] = IF k <= Len(p) THEN p[k] ELSE q[k - Len(p)]
    BY <1>2, ConcatProperties
  <2>2. Len(p) = n /\ Len(q) = m
    BY <1>2
  <2>3. QED
    BY <2>1, <2>2
<1>5. \A k \in 1..(n + m) : a[k] = (p \o q)[k]
  <2> TAKE k \in 1..(n + m)
  <2>0. n \in Nat /\ m \in Nat /\ (s \o t)[k] = IF k <= n THEN s[k] ELSE t[k - n]
    BY <1>1
  <2>1. CASE k <= n
    <3>1. k \in 1..n /\ (s \o t)[k] = s[k]
      BY <2>0, <2>1
    <3>2. QED
      BY <1>3, <1>4, <2>1, <3>1
  <2>2. CASE ~ (k <= n)
    <3>1. k - n \in 1..m /\ (s \o t)[k] = t[k - n]
      BY <2>0, <2>2
    <3>2. QED
      BY <1>3, <1>4, <2>2, <3>1
  <2>3. QED
    BY <2>1, <2>2
<1>6. a = p \o q
  <2> HIDE DEF n, m
  <2>1. QED
    BY <1>2, <1>4, <1>5, SeqEqual
<1>7. FlattenSeq(p \o q) = FlattenSeq(p) \o FlattenSeq(q)
  BY <1>2, FlattenConcat
<1>8. QED
  BY <1>6, <1>7 DEF Kept, p, q, a

\* What is kept is there and in W, and nothing else in W is.
LEMMA KeptMembers ==
  ASSUME NEW S, NEW W, NEW s \in Seq(S), NEW x \in ToSet(Kept(W, s))
  PROVE  x \in W /\ x \in ToSet(s)
<1> DEFINE p == Picked(W, s)
<1>1. p \in Seq(Seq(S)) /\ DOMAIN p = DOMAIN s
  BY KeptType DEF Picked
<1>2. PICK k \in DOMAIN p : x \in ToSet(p[k])
  <2> HIDE DEF p
  <2>1. x \in ToSet(FlattenSeq(p))
    BY DEF Kept, p
  <2>2. QED
    BY <1>1, <2>1, FlattenMember
<1>3. p[k] = IF s[k] \in W THEN <<s[k]>> ELSE <<>>
  BY <1>1, <1>2 DEF Picked
<1>4. ToSet(<<>>) = {} /\ ToSet(<<s[k]>>) = {s[k]}
  BY DEF ToSet
<1>5. s[k] \in W /\ x = s[k]
  BY <1>2, <1>3, <1>4
<1>6. QED
  BY <1>1, <1>2, <1>5 DEF ToSet

LEMMA KeptNone ==
  ASSUME NEW S, NEW W, NEW s \in Seq(S), \A m \in ToSet(s) : m \notin W
  PROVE  Kept(W, s) = <<>>
<1> DEFINE t == Kept(W, s)
<1>1. t \in Seq(S)
  BY KeptType
<1>2. SUFFICES ASSUME t # <<>> PROVE FALSE
  OBVIOUS
<1>3. t[1] \in ToSet(t)
  <2> HIDE DEF t
  <2>1. 1 \in DOMAIN t
    BY <1>1, <1>2
  <2>2. QED
    BY <2>1 DEF ToSet
<1>4. t[1] \in W /\ t[1] \in ToSet(s)
  BY <1>3, KeptMembers
<1>5. QED
  BY <1>4

LEMMA KeptOne ==
  ASSUME NEW S, NEW W, NEW m \in S
  PROVE  Kept(W, <<m>>) = IF m \in W THEN <<m>> ELSE <<>>
<1> DEFINE e == IF m \in W THEN <<m>> ELSE <<>>
<1>1. e \in Seq(S)
  <2>1. <<m>> \in Seq(S) /\ <<>> \in Seq(S)
    OBVIOUS
  <2>2. QED
    BY <2>1
<1>2. Picked(W, <<m>>) = Append(<<>>, e)
  <2>1. DOMAIN <<m>> = {1} /\ <<m>>[1] = m
    OBVIOUS
  <2>2. Picked(W, <<m>>) = <<e>>
    BY <2>1 DEF Picked
  <2>3. <<e>> = Append(<<>>, e)
    OBVIOUS
  <2>4. QED
    BY <2>2, <2>3
<1> HIDE DEF e
<1>3. <<>> \in Seq(Seq(S))
  OBVIOUS
<1>4. FlattenSeq(Append(<<>>, e)) = FlattenSeq(<<>>) \o e
  BY <1>1, <1>3, FlattenAppend
<1>5. <<>> \o e = e
  BY <1>1, ConcatEmptySeq
<1>6. QED
  BY <1>2, <1>4, <1>5, FlattenEmpty DEF Kept, e

LEMMA ConcatSet ==
  ASSUME NEW S, NEW s \in Seq(S), NEW t \in Seq(S), NEW x \in ToSet(s \o t)
  PROVE  x \in ToSet(s) \/ x \in ToSet(t)
<1>1. /\ s \o t \in Seq(S) /\ Len(s \o t) = Len(s) + Len(t)
      /\ \A i \in 1..(Len(s) + Len(t)) : (s \o t)[i] = IF i <= Len(s) THEN s[i] ELSE t[i - Len(s)]
  BY ConcatProperties
<1>2. PICK i \in 1..(Len(s) + Len(t)) : x = (s \o t)[i]
  <2>1. DOMAIN (s \o t) = 1..(Len(s) + Len(t))
    BY <1>1
  <2>2. QED
    BY <2>1 DEF ToSet
<1>3. Len(s) \in Nat /\ Len(t) \in Nat /\ DOMAIN s = 1..Len(s) /\ DOMAIN t = 1..Len(t)
  OBVIOUS
<1>4. CASE i <= Len(s)
  <2>1. i \in DOMAIN s /\ x = s[i]
    BY <1>1, <1>2, <1>3, <1>4
  <2>2. QED
    BY <2>1 DEF ToSet
<1>5. CASE ~ (i <= Len(s))
  <2>1. i - Len(s) \in DOMAIN t /\ x = t[i - Len(s)]
    BY <1>1, <1>2, <1>3, <1>5
  <2>2. QED
    BY <2>1 DEF ToSet
<1>6. QED
  BY <1>4, <1>5

(***************************************************************************)
(* Sums of naturals over a finite set.                                     *)
(***************************************************************************)
OneOf(s) == CHOOSE x \in s : TRUE

\* The function that SumFunction defines.
Adds(v, S, g) ==
  g = [s \in SUBSET S |-> IF s = {} THEN 0 ELSE v[OneOf(s)] + g[s \ {OneOf(s)}]]

LEMMA SumFold ==
  ASSUME NEW v
  PROVE  SumFunction(v) = (CHOOSE g : Adds(v, DOMAIN v, g))[DOMAIN v]
BY Zenon DEF SumFunction, SumFunctionOnSet, FoldFunctionOnSet, MapThenFoldSet, Adds, OneOf

LEMMA SumExists ==
  ASSUME NEW v, NEW S, IsFiniteSet(S)
  PROVE  \E g : Adds(v, S, g)
<1> DEFINE D(n) == {s \in SUBSET S : Cardinality(s) <= n}
           Of(g, s) == IF s = {} THEN 0 ELSE v[OneOf(s)] + g[s \ {OneOf(s)}]
           T == {n \in Nat : ~ \E g : g = [s \in D(n) |-> Of(g, s)]}
<1>1. /\ \A s \in SUBSET S : IsFiniteSet(s) /\ Cardinality(s) \in Nat /\ Cardinality(s) <= Cardinality(S)
      /\ Cardinality(S) \in Nat
  BY FS_Subset, FS_CardinalityType
<1>2. \A s \in SUBSET S : s # {} =>
        /\ OneOf(s) \in s /\ s \ {OneOf(s)} \in SUBSET S
        /\ Cardinality(s \ {OneOf(s)}) = Cardinality(s) - 1
  <2> TAKE s \in SUBSET S
  <2> HAVE s # {}
  <2>1. OneOf(s) \in s
    BY DEF OneOf
  <2>2. QED
    BY <1>1, <2>1, FS_RemoveElement
<1>3. T = {}
  <2>1. SUFFICES ASSUME T # {} PROVE FALSE
    OBVIOUS
  <2>2. PICK m \in T : \A n \in T : m <= n
    <3>1. T \in SUBSET Nat
      OBVIOUS
    <3> HIDE DEF T
    <3>2. QED
      BY <2>1, <3>1, Smallest
  <2>3. m # 0
    <3> DEFINE g == [s \in D(0) |-> 0]
    <3>1. \A s \in D(0) : s = {}
      <4> TAKE s \in D(0)
      <4>1. Cardinality(s) = 0 /\ IsFiniteSet(s)
        BY <1>1
      <4>2. QED
        BY <4>1, FS_EmptySet
    <3>2. g = [s \in D(0) |-> Of(g, s)]
      BY <3>1
    <3> HIDE DEF g, Of, D
    <3>3. QED
      BY <3>2
  <2>4. m \in Nat /\ m - 1 \in Nat
    BY <2>2, <2>3
  <2>5. PICK g : g = [s \in D(m - 1) |-> Of(g, s)]
    <3>1. m - 1 \notin T
      <4>1. ~ (m <= m - 1)
        BY <2>4
      <4> HIDE DEF T
      <4>2. QED
        BY <2>2, <4>1
    <3> HIDE DEF Of, D
    <3>2. QED
      BY <2>4, <3>1
  <2> DEFINE h == [s \in D(m) |-> Of(g, s)]
  <2>6. \A s \in D(m - 1) : h[s] = g[s]
    <3>1. \A s \in D(m - 1) : g[s] = Of(g, s)
      <4> HIDE DEF Of, D
      <4>1. QED
        BY <2>5
    <3>2. \A s \in D(m - 1) : s \in D(m)
      BY <1>1, <2>4
    <3> HIDE DEF D, Of
    <3>3. QED
      BY <3>1, <3>2
  <2>7. \A s \in D(m) : s # {} => s \ {OneOf(s)} \in D(m - 1)
    BY <1>1, <1>2, <2>4
  <2>8. h = [s \in D(m) |-> Of(h, s)]
    <3> HIDE DEF D
    <3>1. \A s \in D(m) : h[s] = Of(g, s)
      OBVIOUS
    <3>2. \A s \in D(m) : s # {} => h[s \ {OneOf(s)}] = g[s \ {OneOf(s)}]
      BY <2>6, <2>7
    <3>3. \A s \in D(m) : Of(h, s) = Of(g, s)
      <4> HIDE DEF h
      <4>1. QED
        BY <3>2
    <3> HIDE DEF Of
    <3>4. h = [s \in D(m) |-> h[s]]
      OBVIOUS
    <3> HIDE DEF h
    <3>5. QED
      BY <3>1, <3>3, <3>4
  <2> HIDE DEF h, D, Of
  <2>9. QED
    BY <2>2, <2>8
<1>4. PICK g : g = [s \in D(Cardinality(S)) |-> Of(g, s)]
  <2> HIDE DEF D, Of
  <2>1. QED
    BY <1>1, <1>3
<1>5. D(Cardinality(S)) = SUBSET S
  BY <1>1
<1>6. g = [s \in SUBSET S |-> Of(g, s)]
  <2> HIDE DEF D, Of
  <2>1. QED
    BY <1>4, <1>5
<1>7. Adds(v, S, g)
  BY <1>6 DEF Adds
<1>8. QED
  BY <1>7

LEMMA SumAdds ==
  ASSUME NEW v, NEW S, NEW g, IsFiniteSet(S), Adds(v, S, g), \A x \in S : v[x] \in Nat,
         NEW s \in SUBSET S
  PROVE  /\ g[s] \in Nat /\ ((\A x \in s : v[x] = 0) => g[s] = 0)
         /\ \A x \in s : g[s] = v[x] + g[s \ {x}]
<1> DEFINE Fine(r) ==
             /\ g[r] \in Nat /\ ((\A x \in r : v[x] = 0) => g[r] = 0)
             /\ \A x \in r : g[r] = v[x] + g[r \ {x}]
           T == {n \in Nat : \E r \in SUBSET S : Cardinality(r) = n /\ ~Fine(r)}
<1>1. \A r \in SUBSET S : g[r] = IF r = {} THEN 0 ELSE v[OneOf(r)] + g[r \ {OneOf(r)}]
  BY DEF Adds
<1>2. \A r \in SUBSET S : IsFiniteSet(r) /\ Cardinality(r) \in Nat
  BY FS_Subset, FS_CardinalityType
<1>3. ASSUME NEW r \in SUBSET S, NEW x \in r
      PROVE  r \ {x} \in SUBSET S /\ Cardinality(r \ {x}) = Cardinality(r) - 1
             /\ Cardinality(r \ {x}) \in Nat
  <2>1. r \ {x} \in SUBSET S
    OBVIOUS
  <2>2. Cardinality(r \ {x}) = Cardinality(r) - 1
    BY <1>2, FS_RemoveElement
  <2>3. QED
    BY <1>2, <2>1, <2>2
<1>4. ASSUME T # {} PROVE FALSE
  <2>1. PICK m \in T : \A n \in T : m <= n
    <3>1. T \in SUBSET Nat
      OBVIOUS
    <3> HIDE DEF T
    <3>2. QED
      BY <1>4, <3>1, Smallest
  <2>2. PICK r \in SUBSET S : Cardinality(r) = m /\ ~Fine(r)
    BY <2>1
  <2>3. r # {}
    <3>1. SUFFICES ASSUME r = {} PROVE Fine(r)
      BY <2>2
    <3>2. g[r] = 0
      BY <1>1, <3>1
    <3>3. QED
      BY <3>1, <3>2
  <2>4. ASSUME NEW q \in SUBSET S, NEW x \in q, Cardinality(q) <= m PROVE Fine(q \ {x})
    <3> DEFINE n == Cardinality(q \ {x})
    <3>1. n \in Nat /\ ~ (m <= n) /\ q \ {x} \in SUBSET S
      <4>1. m \in Nat
        BY <2>1
      <4>2. QED
        BY <1>2, <1>3, <2>4, <4>1
    <3>2. n \notin T
      BY <2>1, <3>1
    <3> HIDE DEF Fine
    <3>3. QED
      BY <3>1, <3>2
  <2> DEFINE y == OneOf(r)
  <2>5. y \in r /\ v[y] \in Nat
    BY <2>3 DEF OneOf
  <2>6. g[r] = v[y] + g[r \ {y}]
    BY <1>1, <2>3
  <2> HIDE DEF y
  <2>7. m \in Nat /\ Cardinality(r) <= m
    BY <2>1, <2>2
  <2>8. Fine(r \ {y})
    BY <2>4, <2>5, <2>7
  <2>9. g[r] \in Nat /\ ((\A x \in r : v[x] = 0) => g[r] = 0)
    BY <2>5, <2>6, <2>8
  <2>10. ASSUME NEW x \in r PROVE g[r] = v[x] + g[r \ {x}]
    <3>1. CASE x = y
      BY <2>6, <3>1
    <3>2. CASE x # y
      <4>1. x \in r \ {y} /\ y \in r \ {x} /\ (r \ {y}) \ {x} = (r \ {x}) \ {y}
        BY <2>5, <3>2
      <4>2. Fine(r \ {x})
        BY <2>4, <2>7, <2>10
      <4>3. r \ {x} \in SUBSET S /\ Cardinality(r \ {x}) <= m
        BY <1>3, <2>2, <2>7
      <4>4. Fine((r \ {x}) \ {y})
        <5> HIDE DEF Fine
        <5>1. QED
          BY <2>4, <4>1, <4>3
      <4>5. g[r \ {y}] = v[x] + g[(r \ {y}) \ {x}] /\ g[r \ {x}] = v[y] + g[(r \ {x}) \ {y}]
        BY <2>8, <4>1, <4>2
      <4>6. g[(r \ {x}) \ {y}] \in Nat /\ v[x] \in Nat
        BY <4>4
      <4> DEFINE a == g[r \ {x}]
                 b == g[r \ {y}]
                 c == g[(r \ {x}) \ {y}]
      <4>7. g[r] = v[y] + b /\ b = v[x] + c /\ a = v[y] + c /\ c \in Nat /\ v[x] \in Nat /\ v[y] \in Nat
        BY <2>5, <2>6, <4>1, <4>5, <4>6
      <4> HIDE DEF a, b, c
      <4>8. g[r] = v[x] + a
        BY <4>7
      <4>9. QED
        BY <4>8 DEF a
    <3>3. QED
      BY <3>1, <3>2
  <2>11. QED
    BY <2>2, <2>9, <2>10
<1>5. Fine(s)
  <2>1. s \in SUBSET S /\ Cardinality(s) \in Nat
    BY <1>2
  <2> HIDE DEF Fine
  <2>2. QED
    BY <1>4, <2>1
<1>6. QED
  BY <1>5

LEMMA SumIs ==
  ASSUME NEW v, IsFiniteSet(DOMAIN v)
  PROVE  \E g : Adds(v, DOMAIN v, g) /\ SumFunction(v) = g[DOMAIN v]
<1> DEFINE g == CHOOSE g : Adds(v, DOMAIN v, g)
<1>1. Adds(v, DOMAIN v, g)
  BY SumExists
<1>2. SumFunction(v) = g[DOMAIN v]
  BY SumFold
<1>3. QED
  BY <1>1, <1>2

LEMMA SumFacts ==
  ASSUME NEW v, IsFiniteSet(DOMAIN v), \A x \in DOMAIN v : v[x] \in Nat
  PROVE  SumFunction(v) \in Nat /\ ((\A x \in DOMAIN v : v[x] = 0) => SumFunction(v) = 0)
<1>1. PICK g : Adds(v, DOMAIN v, g) /\ SumFunction(v) = g[DOMAIN v]
  BY SumIs
<1> DEFINE S == DOMAIN v
<1>2. S \in SUBSET S /\ IsFiniteSet(S) /\ Adds(v, S, g) /\ \A x \in S : v[x] \in Nat
  BY <1>1
<1> HIDE DEF S
<1>3. g[S] \in Nat /\ ((\A x \in S : v[x] = 0) => g[S] = 0)
  BY <1>2, SumAdds
<1>4. QED
  BY <1>1, <1>3 DEF S

\* Two such functions are the same where the numbers are.
LEMMA SumAgree ==
  ASSUME NEW v, NEW w, NEW S, NEW R \in SUBSET S, NEW g, NEW h, IsFiniteSet(S),
         Adds(v, S, g), Adds(w, R, h), \A x \in R : v[x] = w[x]
  PROVE  g[R] = h[R]
<1> DEFINE T == {n \in Nat : \E r \in SUBSET R : Cardinality(r) = n /\ g[r] # h[r]}
<1>1. /\ \A r \in SUBSET R : g[r] = IF r = {} THEN 0 ELSE v[OneOf(r)] + g[r \ {OneOf(r)}]
      /\ \A r \in SUBSET R : h[r] = IF r = {} THEN 0 ELSE w[OneOf(r)] + h[r \ {OneOf(r)}]
  BY DEF Adds
<1>2. \A r \in SUBSET R : IsFiniteSet(r) /\ Cardinality(r) \in Nat
  BY FS_Subset, FS_CardinalityType
<1>3. ASSUME T # {} PROVE FALSE
  <2>1. PICK m \in T : \A n \in T : m <= n
    <3>1. T \in SUBSET Nat
      OBVIOUS
    <3> HIDE DEF T
    <3>2. QED
      BY <1>3, <3>1, Smallest
  <2>2. PICK r \in SUBSET R : Cardinality(r) = m /\ g[r] # h[r]
    BY <2>1
  <2>3. r # {}
    BY <1>1, <2>2
  <2> DEFINE y == OneOf(r)
             q == r \ {y}
  <2>4. y \in r /\ v[y] = w[y]
    BY <2>3 DEF OneOf
  <2>5. g[r] = v[y] + g[q] /\ h[r] = w[y] + h[q]
    BY <1>1, <2>3
  <2> HIDE DEF y
  <2>6. q \in SUBSET R /\ Cardinality(q) = m - 1 /\ Cardinality(q) \in Nat
    <3>1. Cardinality(q) = Cardinality(r) - 1
      BY <1>2, <2>2, <2>4, FS_RemoveElement
    <3>2. QED
      BY <1>2, <2>2, <3>1
  <2> HIDE DEF q
  <2>7. m - 1 \notin T /\ m - 1 \in Nat
    BY <2>1, <2>6
  <2>8. g[q] = h[q]
    BY <2>6, <2>7
  <2>9. QED
    BY <2>2, <2>4, <2>5, <2>8
<1>4. R \in SUBSET R /\ Cardinality(R) \in Nat
  BY <1>2
<1>5. QED
  BY <1>3, <1>4

\* A sum is one of its numbers and the sum of the others.
LEMMA SumSplit ==
  ASSUME NEW v, NEW w, NEW x \in DOMAIN v, IsFiniteSet(DOMAIN v),
         \A y \in DOMAIN v : v[y] \in Nat,
         DOMAIN w = DOMAIN v \ {x}, \A y \in DOMAIN w : w[y] = v[y]
  PROVE  SumFunction(v) = v[x] + SumFunction(w)
<1> DEFINE S == DOMAIN v
           R == DOMAIN w
<1>1. PICK g : Adds(v, S, g) /\ SumFunction(v) = g[S]
  BY SumIs
<1>2. IsFiniteSet(R)
  BY FS_Subset
<1>3. PICK h : Adds(w, R, h) /\ SumFunction(w) = h[R]
  BY <1>2, SumIs
<1>4. /\ R = S \ {x} /\ R \in SUBSET S /\ IsFiniteSet(S) /\ S \in SUBSET S /\ x \in S
      /\ \A y \in R : v[y] = w[y]
      /\ \A y \in S : v[y] \in Nat
  OBVIOUS
<1> HIDE DEF S, R
<1>5. g[R] = h[R]
  BY <1>1, <1>3, <1>4, SumAgree
<1>6. g[S] = v[x] + g[S \ {x}]
  BY <1>1, <1>4, SumAdds
<1>7. QED
  BY <1>1, <1>3, <1>4, <1>5, <1>6
=============================================================================
