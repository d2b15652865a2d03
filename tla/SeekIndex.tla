------------------------------ MODULE SeekIndex ------------------------------
(***************************************************************************)
(* src/detail/index_builder.cpp: which records of a segment get a seek     *)
(* point, and which point a seek uses.  Time differences are unsigned and  *)
(* wrap at Word.                                                           *)
(***************************************************************************)
EXTENDS Integers, Sequences, FiniteSetsExt

CONSTANTS Word,              \* 2^64 in the code: timestamps are below Word
          IndexIntervalNs    \* SessionConfig::IndexIntervalNs

ASSUME WordAssumption == Word \in Nat \ {0}
ASSUME IntervalAssumption == IndexIntervalNs \in Nat

PointsOf(points, ch) == {k \in DOMAIN points : points[k].ch = ch}

\* m_LastIndexed[ch]: the timestamp of the channel's latest point.
LastIndexed(points, ch) ==
  IF PointsOf(points, ch) = {} THEN 0 ELSE points[Max(PointsOf(points, ch))].ts

\* Mutant: no first point of a channel that starts within an interval of 0.
WantsPointByTime(points, ch, ts) ==
  (ts - LastIndexed(points, ch)) % Word >= IndexIntervalNs

WantsPoint(points, ch, ts) ==
  \/ PointsOf(points, ch) = {}
  \/ (ts - LastIndexed(points, ch)) % Word >= IndexIntervalNs

MaybeAdd(points, ch, ts, off) ==
  IF WantsPoint(points, ch, ts)
  THEN Append(points, [ch |-> ch, ts |-> ts, off |-> off])
  ELSE points

(***************************************************************************)
(* SeekIndex, the reader's side: Load sorts the points by channel and      *)
(* timestamp with std::sort, which leaves points with the same timestamp   *)
(* in any order, and Find walks to the last one not after the target.      *)
(***************************************************************************)
PointsUpTo(points, ch, target) == {k \in PointsOf(points, ch) : points[k].ts <= target}

\* The offsets Find may return, none for NO_OFFSET.
Find(points, ch, target) ==
  LET upTo == PointsUpTo(points, ch, target)
  IN  {points[k].off : k \in {k \in upTo : \A j \in upTo : points[j].ts <= points[k].ts}}
==============================================================================
