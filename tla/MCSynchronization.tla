-------------------------- MODULE MCSynchronization --------------------------
(***************************************************************************)
(* The traffic that time synchronization is checked with.                  *)
(***************************************************************************)
EXTENDS Synchronization

Quiet == [links |-> {}, lens |-> {1}, frames |-> 0, retransmissions |-> 0, others |-> 0,
          losses |-> 0, lostRecords |-> 0, window |-> 2, idle |-> 0, skbs |-> {1}, start |-> [h \in Traces |-> 0],
          rate |-> [h \in Traces |-> 1], exchanges |-> FALSE, hulls |-> EmptyHulls]

Two == {<<0, 1>>, <<1, 0>>}
Clocks(start0, start1, rate0, rate1) ==
  [start |-> [h \in Traces |-> IF h = 0 THEN start0 ELSE start1],
   rate |-> [h \in Traces |-> IF h = 0 THEN rate0 ELSE rate1]]
With(t, c) == [t EXCEPT !.start = c.start, !.rate = c.rate]

\* Segments, acknowledgements and frames of other protocols; one is lost, sent
\* again, or missing in a trace.  The second trace is read before or after the first.
Faulty ==
  {With([Quiet EXCEPT !.links = Two, !.lens = {0, 1}, !.frames = 3, !.retransmissions = f[1],
           !.others = f[2], !.losses = f[3], !.lostRecords = f[4], !.skbs = 1 .. f[5], !.exchanges = TRUE],
        Clocks(start, 5, 1, 1)) :
     f \in {<<1, 0, 1, 0, 1>>, <<0, 1, 0, 1, 1>>, <<1, 1, 0, 0, 2>>}, start \in {2, 8}}

\* A host that also talks to itself.
Loopback == {[Quiet EXCEPT !.links = {<<0, 0>>, <<0, 1>>}, !.frames = 2]}

\* Clocks of different rates, analyzed by messages: some that pass each other,
\* or many that do not and take different times.
Drifting ==
  {With(t, Clocks(0, 3, rate, 3 - rate)) :
     rate \in {1, 2},
     t \in {[Quiet EXCEPT !.links = Two, !.frames = 4],
            [Quiet EXCEPT !.links = Two, !.frames = 7, !.window = 1, !.idle = 1]}}

\* Four traces whose pairs have factors of either accuracy or none: a message
\* each way at the start and at the end, which took `delay'.
Corridor(delay) ==
  [under |-> <<Point(10, 10 - delay), Point(22, 22 - delay)>>,
   over |-> <<Point(10, 10 + delay), Point(22, 22 + delay)>>]
PairsOf == {e \in Traces \X Traces : e[1] < e[2]}
Messages(delays) ==
  [i \in Traces |-> [j \in Traces |->
     IF i < j /\ delays[<<i, j>>] > 0 THEN Corridor(delays[<<i, j>>]).under
     ELSE IF j < i /\ delays[<<j, i>>] > 0 THEN Corridor(delays[<<j, i>>]).over ELSE << >>]]
Related == {[Quiet EXCEPT !.hulls = Messages(delays)] : delays \in [PairsOf -> {0, 1, 3}]}

AllTraffics == Faulty \cup Loopback \cup Drifting \cup Related

\* Exchanges are of few segments here.
ASSUME TrafficsAreFew == NumbersSuffice
=============================================================================
