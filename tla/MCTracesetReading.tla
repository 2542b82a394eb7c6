------------------------- MODULE MCTracesetReading -------------------------
(***************************************************************************)
(* An instance of TracesetReading for TLC: a trace of two tracefiles with  *)
(* events at the same time in both, an overflow of the low bits of the     *)
(* counter, one that the tracer writes in full, and an empty buffer.       *)
(***************************************************************************)
EXTENDS TracesetReading

E(tsc, id) == [tsc |-> tsc, id |-> id]
Block(begin, end, events) == [begin |-> begin, end |-> end, events |-> events]
File(trace, index, blocks) == [trace |-> trace, index |-> index, blocks |-> blocks]

OneTrace ==
  <<File(1, 1, <<Block(1, 7, <<E(2, "a"), E(4, "b"), E(7, "b")>>), Block(8, 11, <<E(11, "a")>>)>>),
    File(1, 2, <<Block(1, 3, <<E(2, "b"), E(3, "a")>>), Block(4, 5, <<>>), Block(5, 9, <<E(9, "b")>>)>>)>>
OneSpan == [start |-> 3, end |-> 13]

\* A tracefile of four buffers with an instant, 11, after the second and before
\* the third.
GapTrace ==
  <<File(1, 1, <<Block(1, 2, <<E(1, "a"), E(2, "b")>>), Block(3, 4, <<E(3, "b"), E(4, "a")>>),
                 Block(5, 6, <<E(5, "a"), E(6, "b")>>), Block(7, 8, <<E(7, "b")>>)>>)>>
GapSpan == [start |-> 4, end |-> 18]
GapClocks == <<2>>

Clocks == <<1>>
Offsets == <<2>>
=============================================================================
