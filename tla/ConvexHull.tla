----------------------------- MODULE ConvexHull -----------------------------
(***************************************************************************)
(* The analysis of time synchronization by convex hulls                    *)
(* (event_analysis_chull.c).  Every message between two traces is a point: *)
(* the time of the lower numbered trace's event and the time of the other  *)
(* one's.  Points of messages received by the lower trace are under the    *)
(* line that converts its clock to the other, those of messages it sent    *)
(* are over it.  One half hull is kept per direction, and two lines that   *)
(* pass between both bound the conversion.                                 *)
(***************************************************************************)
EXTENDS Integers, Sequences, FiniteSetsExt

CONSTANTS TraceNb,  \* number of traces, syncState->traceNb
          Unit      \* a multiple of the differences between times: drifts
                    \* are multiples of 1/Unit

ASSUME ConvexHullAssumption == TraceNb \in Nat \ {0} /\ Unit \in Nat \ {0}

Traces == 0 .. TraceNb - 1
Infinity == 1000000000

Point(x, y) == [x |-> x, y |-> y]

\* A message is a pair of events (out: sent, in: received) with their traces
\* and times by the clocks of these.
HullPoint(message) ==
  IF message.in.trace < message.out.trace
  THEN Point(message.in.time, message.out.time)
  ELSE Point(message.out.time, message.in.time)

\* 1 for the lower half hull, -1 for the upper one.
InversionFactor(message) == IF message.in.trace < message.out.trace THEN -1 ELSE 1

crossProductK(p1, p2, p3, p4) ==
  (p2.x - p1.x) * (p4.y - p3.y) - (p2.y - p1.y) * (p4.x - p3.x)
jointCmp(p1, p2, p3) == crossProductK(p1, p2, p1, p3)

\* The new point is put after the last point that stays on the hull with it.
grahamScan(hull, p, inversionFactor) ==
  LET Stays(k) == k <= 1 \/ jointCmp(hull[k - 1], hull[k], p) * inversionFactor > 0
  IN  Append(SubSeq(hull, 1, Max({k \in 0 .. Len(hull) : Stays(k)})), p)

\* hulls[in][out]: a point before the last one is dropped.
analyzeMessage(hulls, message) ==
  LET hull == hulls[message.in.trace][message.out.trace]
      p == HullPoint(message)
  IN  IF hull # << >> /\ p.x < hull[Len(hull)].x THEN hulls
      ELSE [hulls EXCEPT ![message.in.trace][message.out.trace] =
              grahamScan(hull, p, InversionFactor(message))]

EmptyHulls == [i \in Traces |-> [j \in Traces |-> << >>]]

-----------------------------------------------------------------------------
\* A bound is a line through two points, unbounded, or none (NULL).
Unbounded == << >>
NoLine == <<"none">>
IsLine(bound) == Len(bound) = 2
\* The slope, in multiples of 1/Unit.
Drift(bound) == (Unit \div (bound[2].x - bound[1].x)) * (bound[2].y - bound[1].y)

\* Mutant: only an empty hull is degenerate.
IsUnboundedWhenEmpty(c1, c2) == c1 = << >> \/ c2 = << >>

\* Degenerate case 1: no point of c1 is before one of c2.
IsUnbounded(c1, c2) == c1 = << >> \/ c2 = << >> \/ c1[1].x >= c2[Len(c2)].x

\* The line is turned around the point of c1 as long as that improves it, then
\* around the point of c2, and so on.  The first point of c2 and the last one
\* of c1 are never tried.
Search(c1, c2, inversionFactor) ==
  LET Backs(i1, i2) ==
        /\ i2 > 2
        /\ crossProductK(c1[i1], c2[i2], c1[i1], c2[i2 - 1]) * inversionFactor < 0
      Advances(i1, i2) ==
        /\ i1 + 1 < Len(c1)
        /\ crossProductK(c1[i1], c2[i2], c1[i1 + 1], c2[i2]) * inversionFactor < 0
      Turn[turn \in {1, 2}, i1 \in DOMAIN c1, i2 \in DOMAIN c2] ==
        IF turn = 1 /\ Backs(i1, i2)
          THEN IF c1[i1].x < c2[i2 - 1].x THEN Turn[1, i1, i2 - 1] ELSE NoLine
        ELSE IF Advances(i1, i2)
          THEN IF c1[i1 + 1].x < c2[i2].x THEN Turn[2, i1 + 1, i2] ELSE NoLine
        ELSE IF Backs(i1, i2) THEN Turn[1, i1, i2]
        ELSE <<c1[i1], c2[i2]>>
  IN  Turn[1, 1, Len(c2)]

calculateFactorsExact(cu, cl, lineType) ==
  LET c1 == IF lineType = "MINIMUM" THEN cl ELSE cu
      c2 == IF lineType = "MINIMUM" THEN cu ELSE cl
  IN  IF IsUnbounded(c1, c2) THEN Unbounded
      ELSE Search(c1, c2, IF lineType = "MINIMUM" THEN -1 ELSE 1)

\* The type of a pair's factors and, if they are accurate, how far the bounds
\* of the drift are apart (calculateFactorsMiddle).
PairOf(min, max) ==
  [min |-> min, max |-> max,
   type |-> IF min = NoLine /\ max = NoLine THEN "APPROXIMATE"
            ELSE IF min = NoLine \/ max = NoLine THEN "FAIL"
            ELSE IF IsLine(min) /\ IsLine(max) THEN "ACCURATE"
            ELSE IF IsLine(min) \/ IsLine(max) THEN "INCOMPLETE" ELSE "ABSENT",
   accuracy |-> IF IsLine(min) /\ IsLine(max) THEN Drift(max) - Drift(min) ELSE Infinity]

Exact == [min |-> Unbounded, max |-> Unbounded, type |-> "EXACT", accuracy |-> 0]
Absent == PairOf(Unbounded, Unbounded)

calculateAllFactors(hulls) ==
  [a \in Traces |-> [b \in Traces |->
     IF a = b THEN Exact
     ELSE IF b < a THEN PairOf(calculateFactorsExact(hulls[b][a], hulls[a][b], "MINIMUM"),
                               calculateFactorsExact(hulls[b][a], hulls[a][b], "MAXIMUM"))
     ELSE Absent]]
=============================================================================
