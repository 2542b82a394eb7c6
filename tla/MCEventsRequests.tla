-------------------------- MODULE MCEventsRequests --------------------------
(***************************************************************************)
(* Small instances of EventsRequests for TLC: tracesets of up to two       *)
(* traces and five events, some at the same time, and chunks of two.       *)
(***************************************************************************)
EXTENDS EventsRequests

CONSTANTS v1, v2

Infinite == 9
MaxUInt == 9

TwoTraces == [number |-> 2, time |-> <<1, 2, 2, 3, 5>>, trace |-> <<0, 0, 1, 1, 0>>]
NoTraces == [number |-> 0, time |-> << >>, trace |-> << >>]

\* The tab is empty when the program starts.
AddedTraces == <<NoTraces, TwoTraces>>

MiddleWindow == [start_time |-> 2, end_time |-> 4]
OneWindow == {MiddleWindow}

Api(owner, start_time, start_position, end_time, end_position, num) ==
  [owner |-> owner, servicing |-> FALSE, trace |-> ALL_TRACES,
   start_time |-> start_time, start_position |-> start_position,
   end_time |-> end_time, end_position |-> end_position, num_events |-> num]

\* Requests of each kind of start and of end, the end of the traceset for an end
\* position (a request with another one goes past it when a viewer's request,
\* which has none, is first in the list).
ApiRequestsMade ==
  {Api(v2, 1, NULL, Infinite, NULL, 3), Api(v2, Infinite, 1, 4, NULL, MaxUInt),
   Api(v2, Infinite, 3, Infinite, 6, 1)}
=============================================================================
