--------------------------- MODULE DeliveryProofs ---------------------------
(***************************************************************************)
(* What the foreground scheduler does for each request, for any tracesets, *)
(* viewers and requests.  A step of the scheduler concerns many requests;  *)
(* seen by one of them it makes it, serves it, removes it or leaves it     *)
(* alone, and the proofs go request by request.                            *)
(***************************************************************************)
EXTENDS EventsRequestsProofs, WellFoundedInduction

-----------------------------------------------------------------------------
(* A step, seen by one request.                                            *)

IsMade(id) ==
  /\ history[id].fate = "unmade"
  /\ \E r \in EventsRequest :
       /\ IsNewRequest(r)
       /\ r \in ApiRequests \/ r.end_position = NULL
       /\ r.start_position <= End
       /\ req'[id] = r
       /\ history'[id] = NewHistory(r)

IsRemoved(id) ==
  /\ history[id].fate = "listed"
  /\ req'[id] = req[id]
  /\ \/ history'[id] = [history[id] EXCEPT !.fate = "dropped"]
     \/ history'[id] =
          [history[id] EXCEPT !.fate = "dropped",
                              !.after = @ + (IF req[id].servicing THEN 1 ELSE 0)]

IsSame(id) == req'[id] = req[id] /\ history'[id] = history[id]

\* A chunk: first is the first of the requests it serves.
Chunk(first, from, to, stoppers) ==
  /\ first \in list_in
  /\ from = StartOf(current, req[first])
  /\ Reads(first, from, to, stoppers)

IsServed(id, from, to, stoppers) ==
  LET done == Finished(from, to) \cup stoppers
  IN /\ id \in list_in
     /\ req'[id] = IF id \in done THEN req[id] ELSE Interrupted(req[id], from, to)
     /\ history'[id] = HistoryAfterChunk(id, from, to, stoppers)

\* The new requests of news are well formed and find the traceset as it is.
WellMade(news) ==
  \A k \in 1..Len(news) : /\ IsNewRequest(news[k])
                          /\ news[k] \in ApiRequests \/ news[k].end_position = NULL
                          /\ news[k].start_position <= End

\* A request whose number is new was not made before, and is now.
LEMMA MadeLemma ==
  ASSUME StateInv, NEW news \in Seq(EventsRequest), issued + Len(news) <= MaxRequests,
         WellMade(news), NEW id \in Ids, IsNew(id, news),
         req'[id] = news[id - issued], history'[id] = NewHistory(news[id - issued])
  PROVE  IsMade(id)
<1>1. issued \in Nat /\ Len(news) \in Nat /\ MaxRequests \in Nat
  BY ConstantsAssumption DEF StateInv, TypeOK
<1>2. id \in Nat /\ id > issued /\ id - issued \in 1..Len(news)
  BY <1>1 DEF IsNew, Ids
<1>3. history[id].fate = "unmade"
  BY <1>2 DEF StateInv, ListInv
<1>4. news[id - issued] \in EventsRequest
  BY <1>2
<1>5. /\ IsNewRequest(news[id - issued])
      /\ news[id - issued] \in ApiRequests \/ news[id - issued].end_position = NULL
      /\ news[id - issued].start_position <= End
  BY <1>2 DEF WellMade
<1> QED
  BY <1>3, <1>4, <1>5 DEF IsMade

\* Nobody asks for a request to be made that is listed.
LEMMA ListedIsOld ==
  ASSUME StateInv, NEW news \in Seq(EventsRequest), NEW id \in Listed
  PROVE  id \in Ids /\ history[id].fate = "listed" /\ ~IsNew(id, news)
<1>1. id \in Ids /\ history[id].fate = "listed"
  BY DEF StateInv, ListInv
<1>2. ~(id > issued)
  BY <1>1 DEF StateInv, ListInv
<1>3. ~IsNew(id, news)
  BY <1>1, <1>2 DEF StateInv, TypeOK, IsNew, Ids
<1> QED
  BY <1>1, <1>3

LEMMA ReplaceAt ==
  ASSUME StateInv, NEW removed \in SUBSET Listed, NEW news \in Seq(EventsRequest),
         WellMade(news), Replace(removed, news), NEW id \in Ids
  PROVE  IsMade(id) \/ IsRemoved(id) \/ IsSame(id)
<1>1. /\ issued + Len(news) <= MaxRequests
      /\ req' = [i \in Ids |-> IF IsNew(i, news) THEN news[i - issued] ELSE req[i]]
      /\ history' = [i \in Ids |->
                       IF IsNew(i, news) THEN NewHistory(news[i - issued])
                       ELSE IF i \in removed THEN [history[i] EXCEPT !.fate = "dropped"]
                       ELSE history[i]]
  <2>1. issued + Len(news) <= MaxAsked /\ Len(news) \in Nat /\ issued \in Nat
    BY DEF Replace, StateInv, TypeOK
  <2>2. issued + Len(news) <= MaxRequests
    BY <2>1, ConstantsAssumption
  <2> QED
    BY <2>2 DEF Replace
<1>2. CASE IsNew(id, news)
  <2>1. req'[id] = news[id - issued] /\ history'[id] = NewHistory(news[id - issued])
    BY <1>1, <1>2
  <2> QED
    BY <1>1, <1>2, <2>1, MadeLemma
<1>3. CASE ~IsNew(id, news) /\ id \in removed
  <2>1. history[id].fate = "listed"
    BY <1>3, ListedIsOld
  <2>2. req'[id] = req[id] /\ history'[id] = [history[id] EXCEPT !.fate = "dropped"]
    BY <1>1, <1>3
  <2> QED
    BY <2>1, <2>2 DEF IsRemoved
<1>4. CASE ~IsNew(id, news) /\ id \notin removed
  BY <1>1, <1>4 DEF IsSame
<1> QED
  BY <1>2, <1>3, <1>4

\* The requests viewers make for a window are well made.
LEMMA PerTraceWellMade ==
  ASSUME TypeOK, NEW v \in Viewers, NEW w \in Windows
  PROVE  PerTrace(v, w) \in Seq(EventsRequest) /\ WellMade(PerTrace(v, w))
<1>1. /\ PerTrace(v, w) \in Seq(EventsRequest)
      /\ \A k \in 1..Len(PerTrace(v, w)) : IsNewRequest(PerTrace(v, w)[k])
  BY PerTraceType
<1>2. current.number \in Nat /\ End \in Nat
  BY TracesetType DEF TypeOK, current, End
<1>3. \A k \in 1..Len(PerTrace(v, w)) : /\ PerTrace(v, w)[k].end_position = NULL
                                        /\ PerTrace(v, w)[k].start_position = NULL
  BY <1>2 DEF PerTrace
<1>4. NULL <= End
  BY <1>2 DEF NULL
<1> QED
  BY <1>1, <1>3, <1>4 DEF WellMade

LEMMA ReplaceStepsAt ==
  ASSUME StateInv,
         \/ \E r \in ApiRequests : RequestEvents(r)
         \/ \E v \in Viewers, w \in Windows : Redraw(v, w)
         \/ \E v \in Viewers : RemoveAll(v)
         \/ StopProcessing,
         NEW id \in Ids
  PROVE  IsMade(id) \/ IsRemoved(id) \/ IsSame(id)
<1>1. << >> \in Seq(EventsRequest) /\ WellMade(<< >>)
  BY DEF WellMade
<1>2. ASSUME NEW r \in ApiRequests, RequestEvents(r)
      PROVE  IsMade(id) \/ IsRemoved(id) \/ IsSame(id)
  <2>1. r \in EventsRequest /\ IsNewRequest(r) /\ r.start_position <= End
    BY <1>2, RequestsAssumption DEF RequestEvents
  <2>2. <<r>> \in Seq(EventsRequest) /\ WellMade(<<r>>)
    BY <2>1 DEF WellMade
  <2>3. Replace({}, <<r>>) /\ {} \in SUBSET Listed
    BY <1>2 DEF RequestEvents
  <2> QED
    BY <2>2, <2>3, ReplaceAt
<1>3. ASSUME NEW v \in Viewers, NEW w \in Windows, Redraw(v, w)
      PROVE  IsMade(id) \/ IsRemoved(id) \/ IsSame(id)
  <2>1. PerTrace(v, w) \in Seq(EventsRequest) /\ WellMade(PerTrace(v, w))
    BY PerTraceWellMade DEF StateInv
  <2>2. Replace(RemovedByRemoveAll(v), PerTrace(v, w)) /\ RemovedByRemoveAll(v) \in SUBSET Listed
    BY <1>3 DEF Redraw, RemovedByRemoveAll
  <2> QED
    BY <2>1, <2>2, ReplaceAt
<1>4. ASSUME NEW v \in Viewers, RemoveAll(v)
      PROVE  IsMade(id) \/ IsRemoved(id) \/ IsSame(id)
  <2>1. Replace(RemovedByRemoveAll(v), << >>) /\ RemovedByRemoveAll(v) \in SUBSET Listed
    BY <1>4 DEF RemoveAll, RemovedByRemoveAll
  <2> QED
    BY <1>1, <2>1, ReplaceAt
<1>5. ASSUME StopProcessing
      PROVE  IsMade(id) \/ IsRemoved(id) \/ IsSame(id)
  <2>1. Replace(Listed, << >>) /\ Listed \in SUBSET Listed
    BY <1>5 DEF StopProcessing
  <2> QED
    BY <1>1, <2>1, ReplaceAt
<1> QED
  BY <1>2, <1>3, <1>4, <1>5

LEMMA EmptyTracesetAt ==
  ASSUME StateInv, ProcessEmptyTraceset, NEW id \in Ids
  PROVE  IsRemoved(id) \/ IsSame(id)
<1>1. /\ UNCHANGED req
      /\ history' = [i \in Ids |->
                       IF i \in Listed
                       THEN [history[i] EXCEPT !.fate = "dropped",
                                               !.after = @ + (IF req[i].servicing THEN 1 ELSE 0)]
                       ELSE history[i]]
  BY DEF ProcessEmptyTraceset
<1>2. CASE id \in Listed
  <2>1. history[id].fate = "listed"
    BY <1>2 DEF StateInv, ListInv
  <2> QED
    BY <1>1, <1>2, <2>1 DEF IsRemoved
<1>3. CASE id \notin Listed
  BY <1>1, <1>3 DEF IsSame
<1> QED
  BY <1>2, <1>3

LEMMA ChunkAt ==
  ASSUME StateInv, ProcessChunk
  PROVE  /\ events_requests # << >> /\ UNCHANGED traceset
         /\ \E first \in list_in, stoppers \in SUBSET list_in, from, to \in Positions :
              /\ Chunk(first, from, to, stoppers)
              /\ \A id \in Ids : \/ IsMade(id)
                                 \/ IsServed(id, from, to, stoppers)
                                 \/ id \notin list_in /\ IsSame(id)
<1>1. events_requests # << >> /\ UNCHANGED traceset
  BY DEF ProcessChunk, SchedulerRuns
<1>2. PICK first \in list_in, stoppers \in SUBSET list_in, from \in Positions, to \in Positions :
        /\ from = StartOf(current, req[first])
        /\ Reads(first, from, to, stoppers)
        /\ \E news \in FollowUps(Finished(from, to) \cup stoppers) :
             ServeChunk(from, to, stoppers, news)
  BY DEF ProcessChunk
<1> DEFINE done == Finished(from, to) \cup stoppers
<1>3. PICK news \in FollowUps(done) : ServeChunk(from, to, stoppers, news)
  BY <1>2
<1>4. list_in \subseteq Listed /\ Listed \subseteq Ids
  BY <1>1, ListInLemma DEF StateInv
<1>5. done \subseteq Ids
  BY <1>4 DEF Finished
<1>6. news \in Seq(EventsRequest) /\ WellMade(news)
  <2>1. news \in Seq(EventsRequest)
    BY <1>5, FollowUpsType DEF StateInv
  <2>2. PICK firsts \in SUBSET done, window \in [Viewers -> Windows] :
          news = SecondPasses(firsts, window)
    BY DEF FollowUps
  <2>3. ASSUME NEW k \in 1..Len(news)
        PROVE  /\ IsNewRequest(news[k])
               /\ news[k] \in ApiRequests \/ news[k].end_position = NULL
               /\ news[k].start_position <= End
    <3>1. PICK v \in Viewers, w \in Windows :
            \E i \in 1..Len(PerTrace(v, w)) : news[k] = PerTrace(v, w)[i]
      BY <2>2, SecondPassesLemma DEF StateInv
    <3>2. WellMade(PerTrace(v, w))
      BY PerTraceWellMade DEF StateInv
    <3> QED
      BY <3>1, <3>2 DEF WellMade
  <2> QED
    BY <2>1, <2>3 DEF WellMade
<1>7. /\ issued + Len(news) <= MaxRequests
      /\ req' = [id \in Ids |->
                   IF IsNew(id, news) THEN news[id - issued]
                   ELSE IF id \in list_in \ done THEN Interrupted(req[id], from, to)
                   ELSE req[id]]
      /\ history' = [id \in Ids |->
                       IF IsNew(id, news) THEN NewHistory(news[id - issued])
                       ELSE IF id \in list_in THEN HistoryAfterChunk(id, from, to, stoppers)
                       ELSE history[id]]
  BY <1>3 DEF ServeChunk
<1>8. ASSUME NEW id \in Ids
      PROVE  \/ IsMade(id)
             \/ IsServed(id, from, to, stoppers)
             \/ id \notin list_in /\ IsSame(id)
  <2> HIDE DEF done
  <2>1. CASE IsNew(id, news)
    <3>1. req'[id] = news[id - issued] /\ history'[id] = NewHistory(news[id - issued])
      BY <1>7, <2>1
    <3> QED
      BY <1>6, <1>7, <2>1, <3>1, MadeLemma
  <2>2. CASE ~IsNew(id, news) /\ id \in list_in
    <3>1. /\ req'[id] = IF id \in done THEN req[id] ELSE Interrupted(req[id], from, to)
          /\ history'[id] = HistoryAfterChunk(id, from, to, stoppers)
      BY <1>7, <2>2
    <3> QED
      BY <2>2, <3>1 DEF IsServed, done
  <2>3. CASE ~IsNew(id, news) /\ id \notin list_in
    BY <1>7, <2>3 DEF IsSame
  <2> QED
    BY <2>1, <2>2, <2>3
<1>9. Chunk(first, from, to, stoppers)
  BY <1>2 DEF Chunk
<1> QED
  BY <1>1, <1>8, <1>9

\* A step that is not a chunk.
LEMMA OtherStepAt ==
  ASSUME StateInv, [Next]_vars, ~ProcessChunk, NEW id \in Ids
  PROVE  IsMade(id) \/ IsRemoved(id) \/ IsSame(id)
<1>1. CASE ProcessEmptyTraceset
  BY <1>1, EmptyTracesetAt
<1>2. CASE \/ \E r \in ApiRequests : RequestEvents(r)
           \/ \E v \in Viewers, w \in Windows : RedrawViewer(v, w) \/ NotifyTraceset(v, w)
           \/ \E v \in Viewers : RemoveAll(v)
           \/ StopProcessing
  BY <1>2, ReplaceStepsAt DEF RedrawViewer, NotifyTraceset
<1>3. CASE GetEventsBegins \/ GetEventsEnds \/ ChangeTraceset \/ UNCHANGED vars
  BY <1>3 DEF GetEventsBegins, GetEventsEnds, ChangeTraceset, vars, IsSame
<1> QED
  BY <1>1, <1>2, <1>3 DEF Next

-----------------------------------------------------------------------------
(* The hooks.                                                              *)

\* The mark servicing of a request in the list says that before_request was
\* called, which is what keeps the scheduler from calling it again.
HooksOf(h, r) ==
  /\ h.before \in 0..1
  /\ h.after <= h.before
  /\ h.fate \in {"finished", "stopped"} => h.after = 1
  /\ h.fate = "listed" => h.after = 0 /\ (r.servicing <=> h.before = 1)
  /\ \A e \in DOMAIN h.got : h.got[e] # 0 => h.before = 1

HooksInv == \A id \in Ids : HooksOf(history[id], req[id])

LEMMA HooksMade ==
  ASSUME NEW id \in Ids, IsMade(id)
  PROVE  HooksOf(history'[id], req'[id])
<1>1. PICK r \in EventsRequest : /\ IsNewRequest(r)
                                 /\ req'[id] = r /\ history'[id] = NewHistory(r)
  BY DEF IsMade
<1>2. r.servicing = FALSE
  BY <1>1 DEF IsNewRequest
<1> QED
  BY <1>1, <1>2 DEF HooksOf, NewHistory

LEMMA HooksRemoved ==
  ASSUME TypeOK, NEW id \in Ids, HooksOf(history[id], req[id]), IsRemoved(id)
  PROVE  HooksOf(history'[id], req'[id])
<1>1. history[id] \in History
  BY DEF TypeOK
<1>2. CASE history'[id] = [history[id] EXCEPT !.fate = "dropped"]
  BY <1>1, <1>2 DEF HooksOf, History, IsRemoved
<1>3. CASE history'[id] =
             [history[id] EXCEPT !.fate = "dropped",
                                 !.after = @ + (IF req[id].servicing THEN 1 ELSE 0)]
  <2>1. history[id].after = 0 /\ (req[id].servicing <=> history[id].before = 1)
    BY DEF HooksOf, IsRemoved
  <2> DEFINE a == 0 + (IF req[id].servicing THEN 1 ELSE 0)
  <2>2. history'[id] = [history[id] EXCEPT !.fate = "dropped", !.after = a]
    BY <1>3, <2>1
  <2>3. a <= history[id].before
    BY <2>1 DEF HooksOf
  <2> HIDE DEF a
  <2> QED
    BY <1>1, <2>2, <2>3 DEF HooksOf, History
<1> QED
  BY <1>2, <1>3 DEF IsRemoved

LEMMA HooksServed ==
  ASSUME StateInv, events_requests # << >>, NEW id \in Ids, HooksOf(history[id], req[id]),
         NEW from, NEW to, NEW stoppers, IsServed(id, from, to, stoppers)
  PROVE  HooksOf(history'[id], req'[id])
<1> DEFINE h == history[id]
           done == Finished(from, to) \cup stoppers
           b == h.before + (IF req[id].servicing THEN 0 ELSE 1)
           a == h.after + (IF id \in done THEN 1 ELSE 0)
           f == IF id \in Finished(from, to) THEN "finished"
                ELSE IF id \in stoppers THEN "stopped" ELSE h.fate
           g == Delivered(h.got, req[id], from, to)
<1>1. h \in History /\ req[id] \in EventsRequest
  BY DEF StateInv, TypeOK
<1>2. h.fate = "listed"
  BY ListInLemma DEF StateInv, ListInv, IsServed
<1>3. h.after = 0 /\ (req[id].servicing <=> h.before = 1) /\ h.before \in 0..1
  BY <1>2 DEF HooksOf
<1>4. b = 1 /\ a = IF id \in done THEN 1 ELSE 0
  BY <1>3
<1>5. history'[id] = [h EXCEPT !.before = b, !.after = a, !.fate = f, !.got = g]
  BY DEF IsServed, HistoryAfterChunk
<1>6. req'[id].servicing = TRUE \/ id \in done
  BY <1>1 DEF IsServed, Interrupted, EventsRequest
<1>7. f = IF id \in done THEN f ELSE "listed"
  BY <1>2
<1>8. f = "listed" => id \notin done
  BY <1>2
<1>9. f \in {"finished", "stopped"} => id \in done
  BY <1>2
<1> HIDE DEF h, done, b, a, f, g
<1>10. /\ history'[id].before = 1 /\ history'[id].after = (IF id \in done THEN 1 ELSE 0)
       /\ history'[id].fate = f
  BY <1>1, <1>4, <1>5 DEF History
<1> QED
  BY <1>6, <1>8, <1>9, <1>10 DEF HooksOf

LEMMA NextHooksInv ==
  ASSUME StateInv, HooksInv, [Next]_vars
  PROVE  HooksInv'
<1>1. \A id \in Ids : HooksOf(history[id], req[id])
  BY DEF HooksInv
<1>2. ASSUME NEW id \in Ids PROVE HooksOf(history'[id], req'[id])
  <2>1. CASE ProcessChunk
    <3>1. events_requests # << >> /\ \E from, to, stoppers :
            \/ IsMade(id) \/ IsServed(id, from, to, stoppers) \/ IsSame(id)
      BY <2>1, ChunkAt
    <3> QED
      BY <1>1, <3>1, HooksMade, HooksServed DEF IsSame
  <2>2. CASE ~ProcessChunk
    BY <1>1, <2>2, OtherStepAt, HooksMade, HooksRemoved DEF IsSame, StateInv
  <2> QED
    BY <2>1, <2>2
<1> QED
  BY <1>2 DEF HooksInv

\* before_request is called once, before the first event is delivered, and
\* after_request once at the end of what ran to its end, for every request of
\* every viewer: the mark servicing survives from chunk to chunk.
THEOREM HooksAreBrackets == Spec => []HooksBracketDelivery
<1>1. Init => StateInv /\ HooksInv
  <2> SUFFICES ASSUME Init PROVE HooksInv
    BY InitStateInv
  <2>1. \A id \in Ids : history[id] = NoHistory
    BY DEF Init
  <2>2. NoHistory.before = 0 /\ NoHistory.after = 0 /\ NoHistory.fate = "unmade"
        /\ NoHistory.got = << >>
    BY DEF NoHistory
  <2> QED
    BY <2>1, <2>2 DEF HooksInv, HooksOf
<1>2. StateInv /\ HooksInv /\ [Next]_vars => StateInv' /\ HooksInv'
  BY NextStateInv, NextHooksInv
<1>3. HooksInv => HooksBracketDelivery
  BY DEF HooksInv, HooksOf, HooksBracketDelivery
<1> QED
  BY <1>1, <1>2, <1>3, PTL DEF Spec

-----------------------------------------------------------------------------
(* Positions.                                                              *)

\* A set of numbers has a lowest one: the lowest time, position and end the
\* scheduler looks for.
LEMMA LowestExists ==
  ASSUME NEW S \in SUBSET Nat, S # {}
  PROVE  \E m \in S : \A n \in S : m <= n
<1> DEFINE R == OpToRel(<, Nat)
<1>1. IsWellFoundedOn(R, Nat)
  BY NatLessThanWellFounded
<1>2. \A x, y \in Nat : <<y, x>> \in R <=> y < x
  BY DEF OpToRel
<1> HIDE DEF R
<1>3. PICK m \in S : \A n \in S : <<n, m>> \notin R
  BY <1>1, WFMin
<1>4. \A n \in S : ~(n < m)
  BY <1>2, <1>3
<1>5. \A n \in S : m <= n
  BY <1>4
<1> QED
  BY <1>5

\* Every event has a time.
LEMMA EventTime ==
  ASSUME NEW t \in DOMAIN Tracesets, NEW e \in 1..Len(Tracesets[t].time)
  PROVE  /\ Tracesets[t].time[e] \in Nat /\ Tracesets[t].time[e] < ltt_time_infinite
         /\ e \in Nat /\ 1 <= e /\ e <= Len(Tracesets[t].time)
         /\ TimeOf(Tracesets[t], e) = Tracesets[t].time[e]
<1> DEFINE tm == Tracesets[t].time
           T == 0..(ltt_time_infinite - 1)
<1>1. tm \in Seq(T) /\ Len(tm) \in Nat
  BY TracesetType
<1>2. e \in Nat /\ 1 <= e /\ e <= Len(tm)
  BY <1>1
<1>3. \A u \in T : u \in Nat /\ u < ltt_time_infinite
  BY ConstantsAssumption
<1>4. TimeOf(Tracesets[t], e) = tm[e]
  BY <1>2 DEF TimeOf
<1>5. e \in 1..Len(tm)
  OBVIOUS
<1> HIDE DEF tm, T
<1>6. tm[e] \in T
  BY <1>1, <1>5
<1> QED
  BY <1>2, <1>3, <1>4, <1>6 DEF tm

\* Seeking a time finds a position of the traceset.
LEMMA SeekTimeType ==
  ASSUME NEW t \in DOMAIN Tracesets, NEW u \in Times
  PROVE  SeekTime(Tracesets[t], u) \in 1..EndOf(Tracesets[t])
<1> DEFINE ts == Tracesets[t]
           S == {p \in 1..EndOf(ts) : TimeOf(ts, p) >= u}
<1>1. EndOf(ts) \in Nat \ {0} /\ EndOf(ts) = Len(ts.time) + 1 /\ Len(ts.time) \in Nat
  BY TracesetType DEF EndOf
<1>2. \A p \in 1..EndOf(ts) : TimeOf(ts, p) \in Nat
  BY <1>1, TracesetType, ConstantsAssumption DEF TimeOf
<1>3. ltt_time_infinite >= u /\ u \in Nat
  BY ConstantsAssumption DEF Times
<1>4. TimeOf(ts, EndOf(ts)) >= u
  BY <1>1, <1>3 DEF TimeOf
<1>5. EndOf(ts) \in S
  BY <1>1, <1>4
<1> HIDE DEF ts
<1>6. S \in SUBSET Nat /\ S # {}
  BY <1>1, <1>5
<1>7. PICK m \in S : \A n \in S : m <= n
  BY <1>6, LowestExists
<1>8. \A q \in 1..(m - 1) : TimeOf(ts, q) < u
  <2> SUFFICES ASSUME NEW q \in 1..(m - 1) PROVE TimeOf(ts, q) < u
    OBVIOUS
  <2>1. q \in 1..EndOf(ts) /\ q < m
    BY <1>1, <1>7
  <2>2. q \notin S
    BY <1>7, <2>1
  <2> QED
    BY <1>2, <1>3, <2>1, <2>2
<1>9. m \in 1..EndOf(ts) /\ TimeOf(ts, m) >= u
  BY <1>7
<1>10. \E p \in 1..EndOf(ts) : TimeOf(ts, p) >= u /\ \A q \in 1..(p - 1) : TimeOf(ts, q) < u
  BY <1>8, <1>9
<1> QED
  BY <1>10 DEF SeekTime, ts

LEMMA StartOfType ==
  ASSUME NEW t \in DOMAIN Tracesets, NEW r \in EventsRequest,
         r.start_position <= EndOf(Tracesets[t])
  PROVE  StartOf(Tracesets[t], r) \in 1..EndOf(Tracesets[t])
<1>1. r.start_position \in Nat /\ r.start_time \in Times
  BY DEF EventsRequest
<1>2. EndOf(Tracesets[t]) \in Nat
  BY TracesetType
<1>3. CASE r.start_position # NULL
  BY <1>1, <1>2, <1>3 DEF StartOf, NULL
<1>4. CASE r.start_position = NULL
  BY <1>1, <1>4, SeekTimeType DEF StartOf
<1> QED
  BY <1>3, <1>4

-----------------------------------------------------------------------------
(* The requests of a chunk.                                                *)

\* A request waits either for a time or at a position of the traceset.
StartsSomewhere(r) ==
  /\ (r.start_position = NULL) <=> (r.start_time < ltt_time_infinite)
  /\ r.start_position <= End

\* The requests that a chunk serves start at the same place.
LEMMA SameStart ==
  ASSUME StateInv, events_requests # << >>,
         \A id \in Listed : StartsSomewhere(req[id]),
         NEW a \in list_in, NEW b \in list_in
  PROVE  StartOf(current, req[a]) = StartOf(current, req[b])
<1>1. /\ list_in \subseteq Listed /\ Listed \subseteq Ids
      /\ a \in Listed /\ b \in Listed
  BY ListInLemma DEF StateInv
<1>2. \A id \in Listed : /\ req[id].start_position \in Nat
                         /\ req[id].start_time \in Nat
                         /\ req[id].start_time <= ltt_time_infinite
  <2>1. \A id \in Listed : req[id] \in EventsRequest
    BY <1>1 DEF StateInv, TypeOK
  <2>2. \A t \in Times : t \in Nat /\ t <= ltt_time_infinite
    BY ConstantsAssumption DEF Times
  <2> QED
    BY <2>1, <2>2 DEF EventsRequest
<1>3. ltt_time_infinite \in Nat /\ End \in Nat
  BY ConstantsAssumption, TracesetType DEF StateInv, TypeOK, End, current
<1>4. CASE PositionsFirst
  <2>1. a \in lpos /\ b \in lpos
    BY <1>4 DEF list_in
  <2>2. PICK p \in lpos : req[p].start_position # NULL
    BY <1>4 DEF PositionsFirst
  <2>3. CASE req[events_requests[1]].start_position = NULL
    BY <2>2, <2>3 DEF lpos
  <2>4. CASE req[events_requests[1]].start_position # NULL
    <3>1. /\ req[a].start_position # NULL /\ req[b].start_position # NULL
          /\ req[a].start_position <= req[b].start_position
          /\ req[b].start_position <= req[a].start_position
      BY <1>1, <2>1, <2>4 DEF lpos
    <3> QED
      BY <1>1, <1>2, <3>1 DEF StartOf
  <2> QED
    BY <2>3, <2>4
<1>5. CASE ~PositionsFirst
  <2>1. a \in ltime /\ b \in ltime
    BY <1>5 DEF list_in
  <2>2. req[a].start_time = req[b].start_time
    BY <1>1, <1>2, <2>1 DEF ltime
  <2>3. CASE req[a].start_time < ltt_time_infinite
    BY <1>1, <2>2, <2>3 DEF StartOf, StartsSomewhere
  <2>4. CASE req[a].start_time = ltt_time_infinite
    <3>1. \A id \in Listed : req[id].start_time = ltt_time_infinite
      BY <1>1, <1>2, <1>3, <2>1, <2>4 DEF ltime
    <3>2. \A id \in Listed : req[id].start_position # NULL /\ req[id].start_position <= End
      BY <1>3, <3>1 DEF StartsSomewhere
    <3> DEFINE S == {req[id].start_position : id \in Listed}
    <3>3. S \in SUBSET Nat /\ S # {}
      BY <1>1, <1>2
    <3>4. PICK m \in S : \A n \in S : m <= n
      BY <3>3, LowestExists
    <3>5. PICK p \in Listed : m = req[p].start_position
      BY <3>4
    <3>6. events_requests[1] \in Listed
      BY EmptyList DEF Listed, StateInv, TypeOK, Range
    <3>7. p \in lpos
      BY <3>2, <3>4, <3>5, <3>6 DEF lpos
    <3>8. ~(Time(m) < ltt_time_infinite)
      BY <1>5, <2>1, <2>4, <3>2, <3>5, <3>7 DEF PositionsFirst
    <3>9. m = End
      <4>1. m \in Nat /\ m # 0 /\ m <= End
        BY <3>2, <3>4, <3>5, <1>2 DEF NULL
      <4>2. ASSUME m < End PROVE FALSE
        <5>1. m \in 1..Len(current.time) /\ current.time \in Seq(0..(ltt_time_infinite - 1))
          BY <4>1, <4>2, TracesetType DEF End, EndOf, current, StateInv, TypeOK
        <5>2. m <= Len(current.time) /\ current.time[m] \in Nat /\ current.time[m] < ltt_time_infinite
          BY <5>1, EventTime DEF current, StateInv, TypeOK
        <5>3. Time(m) = current.time[m]
          BY <5>2 DEF Time, TimeOf
        <5> QED
          BY <1>3, <3>8, <5>2, <5>3
      <4> QED
        BY <1>3, <4>1, <4>2
    <3>10. \A id \in Listed : req[id].start_position = End
      <4>1. \A id \in Listed : req[id].start_position \in S
        OBVIOUS
      <4>2. \A id \in Listed : End <= req[id].start_position
        BY <3>4, <3>9, <4>1
      <4> QED
        BY <1>2, <1>3, <3>2, <4>2
    <3> QED
      BY <1>1, <3>2, <3>10 DEF StartOf
  <2> QED
    BY <1>1, <1>2, <1>3, <2>3, <2>4
<1> QED
  BY <1>4, <1>5

-----------------------------------------------------------------------------
(* The promise.                                                            *)

Last == Tracesets[Len(Tracesets)]

\* No request made through the API ends at a position within the traceset:
\* the scheduler looks for the end positions only if the first request it
\* serves has one (callbacks.c:1481), and otherwise reads past it.
TimedEnds ==
  \A r \in ApiRequests : r.end_position = NULL \/ r.end_position >= EndOf(Last)

\* A tab has no event before its traces are there.  A request keeps the
\* position where it stands when another trace comes, though the same events
\* are then at other positions: what it gets is no longer what it asked.
GrownFromEmpty ==
  \A t \in DOMAIN Tracesets : t # Len(Tracesets) => Tracesets[t].time = << >>

\* What the histories h promise and gave, as EventDelivery sees it.
WantedBy(h) ==
  LET ts == Tracesets[h.traceset]
      s == StartOf(ts, h.asked)
  IN {e \in 1..Len(ts.time) :
        /\ IsAbout(ts, h.asked, e)
        /\ s <= e
        /\ ts.time[e] < h.asked.end_time
        /\ h.asked.end_position # NULL => e < h.asked.end_position
        /\ e - s < h.asked.num_events}

GivenTo(h) == {e \in DOMAIN h.got : h.got[e] = 1}

\* The request got what it wants before position n, once each, and nothing else.
Progress(h, n) ==
  LET s == StartOf(Last, h.asked) IN
  /\ s \in 1..EndOf(Last)
  /\ n \in s..EndOf(Last)
  /\ DOMAIN h.got = 1..Len(Last.time)
  /\ \A e \in 1..Len(Last.time) :
       h.got[e] = IF s <= e /\ e < n /\ IsAbout(Last, h.asked, e) THEN 1 ELSE 0
  /\ \A e \in s..(n - 1) :
       Last.time[e] < h.asked.end_time /\ e - s < h.asked.num_events
  /\ h.asked.end_position = NULL \/ h.asked.end_position >= EndOf(Last)
  /\ h.asked \in EventsRequest

LEMMA LastType ==
  /\ Len(Tracesets) \in DOMAIN Tracesets
  /\ EndOf(Last) = Len(Last.time) + 1 /\ Len(Last.time) \in Nat
<1>1. Len(Tracesets) \in DOMAIN Tracesets
  BY TracesetsAssumption
<1> QED
  BY <1>1, TracesetType DEF Last, EndOf

\* Then what it got is what it wants up to n.
LEMMA ProgressGives ==
  ASSUME NEW h, NEW n, Progress(h, n), h.traceset = Len(Tracesets)
  PROVE  GivenTo(h) = {e \in WantedBy(h) : e < n}
<1> DEFINE s == StartOf(Last, h.asked)
           L == Len(Last.time)
<1>1. L \in Nat /\ EndOf(Last) = L + 1
  BY LastType
<1>2. /\ s \in 1..(L + 1)
      /\ n \in s..(L + 1)
      /\ DOMAIN h.got = 1..L
      /\ \A e \in 1..L : h.got[e] = IF s <= e /\ e < n /\ IsAbout(Last, h.asked, e) THEN 1 ELSE 0
      /\ \A e \in s..(n - 1) : Last.time[e] < h.asked.end_time /\ e - s < h.asked.num_events
      /\ h.asked.end_position = NULL \/ h.asked.end_position >= L + 1
      /\ h.asked.end_position \in Nat
  BY <1>1 DEF Progress, EventsRequest
<1>3. WantedBy(h) = {e \in 1..L : /\ IsAbout(Last, h.asked, e)
                                  /\ s <= e
                                  /\ Last.time[e] < h.asked.end_time
                                  /\ h.asked.end_position # NULL => e < h.asked.end_position
                                  /\ e - s < h.asked.num_events}
  BY DEF WantedBy, Last
<1> HIDE DEF s, L
<1>4. ASSUME NEW e \in 1..L
      PROVE  h.got[e] = 1 <=> e \in WantedBy(h) /\ e < n
  <2>1. s \in Nat /\ n \in Nat /\ e \in Nat /\ e <= L
    BY <1>1, <1>2
  <2>2. e < n /\ s <= e => e \in s..(n - 1)
    BY <2>1
  <2>3. h.asked.end_position # NULL => e < h.asked.end_position
    BY <1>1, <1>2, <2>1
  <2> QED
    BY <1>2, <1>3, <2>1, <2>2, <2>3
<1> QED
  BY <1>2, <1>3, <1>4 DEF GivenTo

\* Where r stands, its request having been interrupted or not.
PromiseOf(h, r) ==
  LET n == StartOf(Last, r) IN
  /\ Progress(h, n)
  /\ r.trace = h.asked.trace /\ r.end_time = h.asked.end_time
  /\ r.end_position = h.asked.end_position
  /\ r.num_events = h.asked.num_events - (n - StartOf(Last, h.asked))

\* A chunk read from one position to another brings its requests there.
LEMMA ChunkReads ==
  ASSUME StateInv, events_requests # << >>, current = Last,
         NEW id \in Ids, NEW first, NEW stoppers, NEW from \in Positions, NEW to \in Positions,
         Chunk(first, from, to, stoppers), id \in list_in
  PROVE  /\ from \in Nat /\ to \in Nat /\ from <= to /\ 1 <= from
         /\ \A e \in from..(to - 1) : /\ Last.time[e] < req[id].end_time
                                      /\ e - from < req[id].num_events
<1>1. from \in Nat /\ to \in Nat /\ from <= to /\ 1 <= from /\ to <= EndOf(Last)
  BY LastType DEF Chunk, Reads, Positions, End
<1>2. ASSUME NEW e \in from..(to - 1)
      PROVE  Last.time[e] < req[id].end_time /\ e - from < req[id].num_events
  <2>1. ~ReadStopsAt(first, from, e)
    BY <1>2 DEF Chunk, Reads
  <2>2. ~(Time(e) >= req[id].end_time) /\ ~(e - from >= req[id].num_events)
    BY <2>1 DEF ReadStopsAt
  <2>3. e \in 1..Len(Last.time) /\ e \in Int
    BY <1>1, <1>2, LastType
  <2>4. Time(e) = Last.time[e] /\ Last.time[e] \in Nat
    BY <2>3, LastType, EventTime DEF Time, Last
  <2>5. req[id].end_time \in Int /\ req[id].num_events \in Int
    <3>1. req[id] \in EventsRequest
      BY DEF StateInv, TypeOK
    <3>2. Times \subseteq Int /\ 0..G_MAXUINT \subseteq Int
      BY DEF Times
    <3> QED
      BY <3>1, <3>2 DEF EventsRequest
  <2> QED
    BY <1>1, <2>2, <2>3, <2>4, <2>5
<1> QED
  BY <1>1, <1>2

LEMMA ChunkAdvances ==
  ASSUME StateInv, events_requests # << >>, current = Last,
         NEW id \in Ids, NEW first, NEW stoppers, NEW from \in Positions, NEW to \in Positions,
         Chunk(first, from, to, stoppers), IsServed(id, from, to, stoppers),
         StartOf(Last, req[id]) = from, PromiseOf(history[id], req[id])
  PROVE  Progress(history'[id], to)
<1> DEFINE h == history[id]
           g == history'[id]
           s == StartOf(Last, h.asked)
           L == Len(Last.time)
<1>1. L \in Nat /\ EndOf(Last) = L + 1
  BY LastType
<1>2. /\ from \in Nat /\ to \in Nat /\ from <= to /\ 1 <= from
      /\ \A e \in from..(to - 1) : Last.time[e] < req[id].end_time /\ e - from < req[id].num_events
  BY ChunkReads DEF IsServed
<1>3. to <= L + 1
  BY <1>1 DEF Positions, End
<1>4. /\ s \in 1..(L + 1)
      /\ from \in s..(L + 1)
      /\ DOMAIN h.got = 1..L
      /\ \A e \in 1..L : h.got[e] = IF s <= e /\ e < from /\ IsAbout(Last, h.asked, e) THEN 1 ELSE 0
      /\ \A e \in s..(from - 1) : Last.time[e] < h.asked.end_time /\ e - s < h.asked.num_events
      /\ h.asked.end_position = NULL \/ h.asked.end_position >= EndOf(Last)
      /\ h.asked \in EventsRequest
      /\ req[id].trace = h.asked.trace /\ req[id].end_time = h.asked.end_time
      /\ req[id].num_events = h.asked.num_events - (from - s)
  BY <1>1 DEF PromiseOf, Progress
<1>5. g.asked = h.asked /\ g.got = Delivered(h.got, req[id], from, to)
  <2>1. h \in History
    BY DEF StateInv, TypeOK
  <2>2. g = HistoryAfterChunk(id, from, to, stoppers)
    BY DEF IsServed
  <2>3. HistoryAfterChunk(id, from, to, stoppers).asked = h.asked
    BY <2>1 DEF HistoryAfterChunk, History
  <2>4. HistoryAfterChunk(id, from, to, stoppers).got = Delivered(h.got, req[id], from, to)
    BY <2>1 DEF HistoryAfterChunk, History
  <2> QED
    BY <2>2, <2>3, <2>4
<1>6. DOMAIN g.got = 1..L
  BY <1>4, <1>5 DEF Delivered
<1>7. h.asked.num_events \in Int
  BY <1>4 DEF EventsRequest
<1>8. ASSUME NEW e \in s..(to - 1)
      PROVE  Last.time[e] < h.asked.end_time /\ e - s < h.asked.num_events
  <2> HIDE DEF s, h, L
  <2>1. s \in Nat /\ e \in Int /\ from \in Nat
    BY <1>1, <1>4
  <2>2. CASE e < from
    BY <1>4, <2>1, <2>2
  <2>3. CASE e >= from
    <3>1. e \in from..(to - 1)
      BY <1>2, <2>1, <2>3
    <3>2. Last.time[e] < req[id].end_time /\ e - from < req[id].num_events
      BY <1>2, <3>1
    <3>3. req[id].end_time = h.asked.end_time /\ req[id].num_events = h.asked.num_events - (from - s)
      BY <1>4
    <3> QED
      BY <1>7, <2>1, <3>2, <3>3
  <2> QED
    BY <2>1, <2>2, <2>3
<1>9. ASSUME NEW e \in 1..L
      PROVE  g.got[e] = IF s <= e /\ e < to /\ IsAbout(Last, h.asked, e) THEN 1 ELSE 0
  <2>1. IsAbout(current, req[id], e) <=> IsAbout(Last, h.asked, e)
    BY <1>4 DEF IsAbout
  <2>2. g.got[e] = IF e \in from..(to - 1) /\ IsAbout(Last, h.asked, e)
                   THEN h.got[e] + 1 ELSE h.got[e]
    BY <1>4, <1>5, <2>1 DEF Delivered
  <2> HIDE DEF s, h, L, g
  <2>3. s \in Nat /\ e \in Int /\ s <= from
    BY <1>1, <1>4
  <2>4. h.got[e] = IF s <= e /\ e < from /\ IsAbout(Last, h.asked, e) THEN 1 ELSE 0
    BY <1>4
  <2>5. e \in from..(to - 1) <=> from <= e /\ e < to
    BY <1>2, <2>3
  <2> QED
    BY <1>2, <2>2, <2>3, <2>4, <2>5
<1>10. to \in s..EndOf(Last)
  BY <1>1, <1>2, <1>3, <1>4
<1> HIDE DEF s, L, h, g
<1> QED
  BY <1>1, <1>4, <1>5, <1>6, <1>8, <1>9, <1>10 DEF Progress, s, L, h, g

\* What is left of an interrupted request starts where the chunk ended.
LEMMA ChunkInterrupts ==
  ASSUME StateInv, events_requests # << >>, current = Last,
         NEW id \in Ids, NEW first, NEW stoppers, NEW from \in Positions, NEW to \in Positions,
         Chunk(first, from, to, stoppers), IsServed(id, from, to, stoppers),
         StartOf(Last, req[id]) = from, PromiseOf(history[id], req[id]),
         history'[id].fate = "listed"
  PROVE  PromiseOf(history'[id], req'[id])
<1> DEFINE h == history[id]
           r == req[id]
<1>1. h \in History /\ r \in EventsRequest
  BY DEF StateInv, TypeOK
<1>2. history'[id] = HistoryAfterChunk(id, from, to, stoppers)
  BY DEF IsServed
<1>3. history'[id].asked = h.asked
  BY <1>1, <1>2 DEF HistoryAfterChunk, History
<1>4. id \notin Finished(from, to) \cup stoppers
  BY <1>1, <1>2 DEF HistoryAfterChunk, History
<1>5. req'[id] = Interrupted(r, from, to)
  BY <1>4 DEF IsServed
<1>6. /\ req'[id].start_position = to
      /\ req'[id].trace = r.trace /\ req'[id].end_time = r.end_time
      /\ req'[id].end_position = r.end_position
      /\ req'[id].num_events = r.num_events - (to - from)
  BY <1>1, <1>5 DEF Interrupted, EventsRequest
<1>7. from \in Nat /\ to \in Nat /\ from <= to /\ 1 <= from
  BY ChunkReads DEF IsServed
<1>8. StartOf(Last, req'[id]) = to
  BY <1>6, <1>7 DEF StartOf, NULL
<1>9. Progress(history'[id], to)
  BY ChunkAdvances
<1>10. StartOf(Last, h.asked) \in Int /\ h.asked.num_events \in Int
  <2>1. StartOf(Last, h.asked) \in 1..EndOf(Last) /\ h.asked \in EventsRequest
    BY DEF PromiseOf, Progress
  <2> QED
    BY <2>1, LastType DEF EventsRequest
<1>11. /\ r.trace = h.asked.trace /\ r.end_time = h.asked.end_time
       /\ r.end_position = h.asked.end_position
       /\ r.num_events = h.asked.num_events - (from - StartOf(Last, h.asked))
  BY DEF PromiseOf
<1> DEFINE s == StartOf(Last, h.asked)
<1>12. req'[id].num_events = h.asked.num_events - (to - s)
  <2> HIDE DEF s, h, r
  <2> QED
    BY <1>6, <1>7, <1>10, <1>11 DEF s
<1> HIDE DEF h, r
<1> QED
  BY <1>3, <1>6, <1>8, <1>9, <1>11, <1>12 DEF PromiseOf, s

\* A chunk finishes a request only once it got all it wants.
LEMMA ChunkFinishes ==
  ASSUME StateInv, events_requests # << >>, current = Last,
         NEW id \in Ids, NEW first, NEW stoppers, NEW from \in Positions, NEW to \in Positions,
         Chunk(first, from, to, stoppers), IsServed(id, from, to, stoppers),
         StartOf(Last, req[id]) = from, PromiseOf(history[id], req[id]),
         history[id].traceset = Len(Tracesets), id \in Finished(from, to),
         NEW e \in WantedBy(history[id])
  PROVE  e < to
<1> DEFINE h == history[id]
           r == req[id]
           s == StartOf(Last, h.asked)
           L == Len(Last.time)
<1>1. L \in Nat /\ EndOf(Last) = L + 1
  BY LastType
<1>2. /\ e \in 1..L
      /\ s <= e
      /\ Last.time[e] < h.asked.end_time
      /\ e - s < h.asked.num_events
  BY DEF WantedBy, Last
<1>3. from \in Nat /\ to \in Nat /\ from <= to /\ 1 <= from /\ to <= L + 1
  BY <1>1, ChunkReads DEF IsServed, Positions, End
<1>4. s \in Nat /\ h.asked.num_events \in Int /\ h.asked.end_time \in Int
  <2>1. s \in 1..EndOf(Last) /\ h.asked \in EventsRequest
    BY DEF PromiseOf, Progress
  <2>2. Times \subseteq Int /\ 0..G_MAXUINT \subseteq Int
    BY DEF Times
  <2>3. h.asked.num_events \in 0..G_MAXUINT /\ h.asked.end_time \in Times
    BY <2>1 DEF EventsRequest
  <2> HIDE DEF s, h
  <2>4. s \in Nat
    BY <1>1, <2>1 DEF s
  <2> QED
    BY <2>2, <2>3, <2>4
<1>5. /\ r.end_time = h.asked.end_time
      /\ r.end_position = h.asked.end_position
      /\ r.num_events = h.asked.num_events - (from - s)
      /\ h.asked.end_position = NULL \/ h.asked.end_position >= L + 1
      /\ h.asked.end_position \in Nat
  BY <1>1 DEF PromiseOf, Progress, EventsRequest
<1>6. \/ to = L + 1
      \/ r.num_events = to - from
      \/ Time(to) >= r.end_time
      \/ to = r.end_position
  BY <1>1 DEF Finished, End
<1>7. ASSUME to <= e, Time(to) >= r.end_time PROVE FALSE
  <2>1. to \in 1..L
    BY <1>1, <1>2, <1>3, <1>7
  <2>2. Last.time[to] <= Last.time[e]
    BY <1>2, <1>7, <2>1, LastType, TracesetsAssumption DEF IsTraceset, Last
  <2>3. Time(to) = Last.time[to] /\ Last.time[to] \in Nat /\ Last.time[e] \in Nat
    BY <1>2, <2>1, LastType, EventTime DEF Time, Last
  <2> HIDE DEF h, r
  <2> QED
    BY <1>2, <1>4, <1>5, <1>7, <2>2, <2>3
<1> HIDE DEF h, r, s, L
<1> QED
  BY <1>1, <1>2, <1>3, <1>4, <1>5, <1>6, <1>7 DEF NULL

-----------------------------------------------------------------------------
(* The invariant.                                                          *)

\* Where a request stands: one that was made before the traces were there
\* gets nothing, and what it asked for is nothing.
StandsAt(h, r) ==
  /\ h.traceset <= traceset
  /\ h.fate # "unmade" => /\ h.traceset \in DOMAIN Tracesets
                          /\ h.traceset # Len(Tracesets) => DOMAIN h.got = {}
  /\ h.fate = "listed" => /\ StartsSomewhere(r)
                          /\ h.traceset = Len(Tracesets) => PromiseOf(h, r)

PromiseInv == \A id \in Ids : StandsAt(history[id], req[id])

\* The traceset only changes to the next one, which has no less events.
LEMMA TracesetGrows ==
  ASSUME GrownFromEmpty, StateInv, [Next]_vars
  PROVE  \/ UNCHANGED traceset
         \/ /\ traceset' = traceset + 1 /\ UNCHANGED <<req, history>>
            /\ End <= End'
<1>1. CASE ChangeTraceset
  <2>1. traceset' = traceset + 1 /\ UNCHANGED <<req, history>> /\ traceset < Len(Tracesets)
    BY <1>1 DEF ChangeTraceset
  <2>2. traceset \in DOMAIN Tracesets /\ DOMAIN Tracesets = 1..Len(Tracesets) /\ Len(Tracesets) \in Nat
    BY TracesetsAssumption DEF StateInv, TypeOK
  <2>3. traceset' \in DOMAIN Tracesets /\ traceset # Len(Tracesets)
    BY <2>1, <2>2
  <2>4. current.time = << >> /\ Len(<< >>) = 0
    BY <2>2, <2>3 DEF GrownFromEmpty, current
  <2>5. End = 1
    BY <2>4 DEF End, EndOf
  <2>6. End' \in Nat \ {0}
    BY <2>3, TracesetType DEF End, current
  <2> QED
    BY <2>1, <2>5, <2>6
<1>2. CASE [Next]_vars /\ ~ChangeTraceset
  BY <1>2 DEF Next, vars, ProcessChunk, ProcessEmptyTraceset, RequestEvents, RedrawViewer,
              NotifyTraceset, Redraw, RemoveAll, StopProcessing, GetEventsBegins, GetEventsEnds
<1> QED
  BY <1>1, <1>2

\* The traceset that a request was made in is the last one only if the tab
\* shows the last one.
LEMMA AtLast ==
  ASSUME StateInv, NEW h, h.traceset <= traceset, h.traceset = Len(Tracesets)
  PROVE  current = Last
<1>1. traceset \in 1..Len(Tracesets) /\ Len(Tracesets) \in Nat
  BY TracesetsAssumption DEF StateInv, TypeOK
<1>2. traceset = Len(Tracesets)
  BY <1>1
<1> QED
  BY <1>2 DEF current, Last

LEMMA PromiseMade ==
  ASSUME TimedEnds, GrownFromEmpty, StateInv, UNCHANGED traceset, NEW id \in Ids, IsMade(id)
  PROVE  /\ StandsAt(history[id], req[id])' 
         /\ GivenTo(history'[id]) = {}
         /\ WantedBy(history'[id]) \subseteq 1..(EndOf(Last) - 1)
         /\ history'[id].fate = "listed"
<1>1. PICK r \in EventsRequest : /\ IsNewRequest(r)
                                 /\ r \in ApiRequests \/ r.end_position = NULL
                                 /\ r.start_position <= End
                                 /\ req'[id] = r
                                 /\ history'[id] = NewHistory(r)
  BY DEF IsMade
<1> DEFINE h == NewHistory(r)
<1>2. /\ h.asked = r /\ h.traceset = traceset /\ h.fate = "listed"
      /\ h.got = [e \in 1..(End - 1) |-> 0]
  BY DEF NewHistory
<1>3. traceset \in DOMAIN Tracesets /\ traceset \in Nat
  BY TracesetsAssumption DEF StateInv, TypeOK
<1>4. GivenTo(h) = {}
  BY <1>2 DEF GivenTo
<1>5. WantedBy(h) \subseteq 1..(EndOf(Last) - 1)
  <2>1. WantedBy(h) \subseteq 1..Len(current.time)
    BY <1>2 DEF WantedBy, current
  <2>2. CASE traceset = Len(Tracesets)
    BY <2>1, <2>2, LastType DEF Last, current
  <2>3. CASE traceset # Len(Tracesets)
    <3>1. current.time = << >>
      BY <1>3, <2>3 DEF GrownFromEmpty, current
    <3> QED
      BY <2>1, <3>1, LastType
  <2> QED
    BY <2>2, <2>3
<1>6. traceset # Len(Tracesets) => DOMAIN h.got = {}
  <2> SUFFICES ASSUME traceset # Len(Tracesets) PROVE DOMAIN h.got = {}
    OBVIOUS
  <2>1. current.time = << >> /\ Len(<< >>) = 0
    BY <1>3 DEF GrownFromEmpty, current
  <2>2. End = 1
    BY <2>1 DEF End, EndOf
  <2> QED
    BY <1>2, <2>2
<1>7. StartsSomewhere(r)
  BY <1>1 DEF IsNewRequest, StartsSomewhere
<1>8. ASSUME traceset = Len(Tracesets) PROVE PromiseOf(h, r)
  <2>1. current = Last /\ End = EndOf(Last)
    BY <1>8 DEF current, Last, End
  <2> DEFINE s == StartOf(Last, r)
             L == Len(Last.time)
  <2>2. s \in 1..EndOf(Last) /\ L \in Nat /\ EndOf(Last) = L + 1
    BY <1>1, <2>1, LastType, StartOfType DEF Last
  <2>3. r.end_position = NULL \/ r.end_position >= EndOf(Last)
    BY <1>1 DEF TimedEnds
  <2>4. r.num_events \in Int
    BY DEF EventsRequest
  <2>5. /\ s \in s..EndOf(Last)
        /\ DOMAIN h.got = 1..L
        /\ \A e \in 1..L : h.got[e] = 0 /\ ~(s <= e /\ e < s)
        /\ \A e \in s..(s - 1) : FALSE
        /\ s - s = 0 /\ r.num_events - 0 = r.num_events
    <3> HIDE DEF s, h, L
    <3>1. DOMAIN h.got = 1..L /\ \A e \in 1..L : h.got[e] = 0
      BY <1>2, <2>1, <2>2
    <3>2. s \in Nat
      BY <2>2
    <3> QED
      BY <2>2, <2>4, <3>1, <3>2
  <2>6. Progress(h, s)
    <3> HIDE DEF h
    <3> QED
      BY <1>2, <2>2, <2>3, <2>5 DEF Progress
  <2> HIDE DEF h, L
  <2> QED
    BY <1>2, <2>5, <2>6 DEF PromiseOf
<1>9. StartsSomewhere(r)' <=> StartsSomewhere(r)
  BY DEF StartsSomewhere, End, current
<1>10. StandsAt(history[id], req[id])'
  <2> HIDE DEF h
  <2> QED
    BY <1>1, <1>2, <1>3, <1>6, <1>7, <1>8, <1>9 DEF StandsAt, h
<1> QED
  BY <1>1, <1>2, <1>4, <1>5, <1>10

\* What a step of EventDelivery does to a request whose history was h and is g.
Serves(h, g) ==
  /\ h.fate = "listed" /\ g.fate # "unmade"
  /\ WantedBy(g) = WantedBy(h)
  /\ GivenTo(h) \subseteq GivenTo(g)
  /\ GivenTo(g) \subseteq WantedBy(h)
  /\ \A e \in GivenTo(g), d \in WantedBy(h) : d < e => d \in GivenTo(g)
  /\ g.fate = "finished" => GivenTo(g) = WantedBy(h)
  /\ g.fate \in Fates

LEMMA PromiseServed ==
  ASSUME GrownFromEmpty, StateInv, events_requests # << >>, UNCHANGED traceset, PromiseInv,
         NEW first, NEW stoppers, NEW from \in Positions, NEW to \in Positions,
         Chunk(first, from, to, stoppers),
         NEW id \in Ids, IsServed(id, from, to, stoppers)
  PROVE  StandsAt(history[id], req[id])' /\ Serves(history[id], history'[id])
<1> DEFINE h == history[id]
           g == history'[id]
           r == req[id]
<1>1. /\ list_in \subseteq Listed /\ id \in list_in /\ first \in list_in
      /\ \A i \in Listed : i \in Ids /\ history[i].fate = "listed"
  BY ListInLemma DEF StateInv, ListInv, IsServed, Chunk
<1>2. h.fate = "listed" /\ h \in History /\ r \in EventsRequest
  BY <1>1 DEF StateInv, TypeOK
<1>3. /\ g.asked = h.asked /\ g.traceset = h.traceset
      /\ g.got = Delivered(h.got, r, from, to)
      /\ g.fate = IF id \in Finished(from, to) THEN "finished"
                  ELSE IF id \in stoppers THEN "stopped" ELSE "listed"
  <2>1. g = HistoryAfterChunk(id, from, to, stoppers)
    BY DEF IsServed
  <2>2. /\ g.asked = h.asked /\ g.traceset = h.traceset
        /\ g.got = Delivered(h.got, r, from, to)
    BY <1>2, <2>1 DEF HistoryAfterChunk, History
  <2>3. g.fate = IF id \in Finished(from, to) THEN "finished"
                 ELSE IF id \in stoppers THEN "stopped" ELSE h.fate
    BY <1>2, <2>1 DEF HistoryAfterChunk, History
  <2> QED
    BY <1>2, <2>2, <2>3
<1>4. DOMAIN g.got = DOMAIN h.got
  BY <1>3 DEF Delivered
<1>5. \A i \in Listed : StartsSomewhere(req[i])
  BY <1>1 DEF PromiseInv, StandsAt
<1>6. StartOf(current, r) = from
  BY <1>1, <1>5, SameStart DEF Chunk
<1>7. StandsAt(h, r)
  BY DEF PromiseInv
<1>8. WantedBy(g) = WantedBy(h)
  BY <1>3 DEF WantedBy
<1>9. from \in Nat /\ to \in Nat /\ 1 <= from /\ from <= to /\ to <= End
  <2>1. End \in Nat
    BY TracesetType DEF End, current, StateInv, TypeOK
  <2> QED
    BY <2>1 DEF Chunk, Reads, Positions
<1>10. g.fate = "listed" => StartsSomewhere(req[id])'
  <2> SUFFICES ASSUME g.fate = "listed" PROVE StartsSomewhere(req[id])'
    OBVIOUS
  <2>1. req'[id] = Interrupted(r, from, to)
    BY <1>3 DEF IsServed
  <2>2. req'[id].start_position = to /\ req'[id].start_time = ltt_time_infinite
    BY <1>2, <2>1 DEF Interrupted, EventsRequest
  <2>3. End' = End
    BY DEF End, current
  <2>4. ltt_time_infinite \in Nat
    BY ConstantsAssumption
  <2> QED
    BY <1>9, <2>2, <2>3, <2>4 DEF StartsSomewhere, NULL
<1>11. g.fate # "unmade" /\ g.fate \in Fates
  BY <1>3 DEF Fates
<1>12. h.traceset <= traceset /\ h.traceset \in DOMAIN Tracesets
  BY <1>2, <1>7 DEF StandsAt
<1>13. CASE h.traceset # Len(Tracesets)
  <2>1. DOMAIN h.got = {}
    BY <1>2, <1>7, <1>13 DEF StandsAt
  <2>2. GivenTo(h) = {} /\ GivenTo(g) = {}
    BY <1>4, <2>1 DEF GivenTo
  <2>3. WantedBy(h) = {}
    <3>1. Tracesets[h.traceset].time = << >> /\ Len(<< >>) = 0
      BY <1>12, <1>13 DEF GrownFromEmpty
    <3> QED
      BY <3>1 DEF WantedBy
  <2> HIDE DEF h, g
  <2>4. Serves(h, g)
    BY <1>2, <1>8, <1>11, <2>2, <2>3 DEF Serves, h
  <2>5. StandsAt(history[id], req[id])'
    BY <1>3, <1>4, <1>10, <1>12, <1>13, <2>1 DEF StandsAt, g
  <2> QED
    BY <2>4, <2>5 DEF h, g
<1>14. CASE h.traceset = Len(Tracesets)
  <2>1. current = Last
    BY <1>12, <1>14, AtLast
  <2>2. PromiseOf(h, r) /\ StartOf(Last, r) = from
    BY <1>2, <1>6, <1>7, <1>14, <2>1 DEF StandsAt
  <2>3. Progress(h, from) /\ Progress(g, to)
    BY <2>1, <2>2, ChunkAdvances DEF PromiseOf
  <2>4. g.fate = "listed" => PromiseOf(history'[id], req'[id])
    BY <2>1, <2>2, ChunkInterrupts
  <2>5. g.fate = "finished" => \A e \in WantedBy(h) : e < to
    <3> SUFFICES ASSUME g.fate = "finished", NEW e \in WantedBy(h) PROVE e < to
      OBVIOUS
    <3>1. id \in Finished(from, to)
      BY <1>3
    <3> QED
      BY <1>14, <2>1, <2>2, <3>1, ChunkFinishes
  <2>6. GivenTo(h) = {e \in WantedBy(h) : e < from} /\ GivenTo(g) = {e \in WantedBy(h) : e < to}
    BY <1>3, <1>8, <1>14, <2>3, ProgressGives
  <2>7. \A e \in WantedBy(h) : e \in Nat
    BY DEF WantedBy
  <2>8. StandsAt(history[id], req[id])'
    <3> HIDE DEF h
    <3> QED
      BY <1>3, <1>10, <1>11, <1>12, <1>14, <2>4 DEF StandsAt, PromiseOf
  <2> HIDE DEF h, g
  <2>9. Serves(h, g)
    BY <1>2, <1>8, <1>9, <1>11, <2>5, <2>6, <2>7 DEF Serves, h
  <2> QED
    BY <2>8, <2>9 DEF h, g
<1> QED
  BY <1>13, <1>14

LEMMA PromiseRemoved ==
  ASSUME StateInv, UNCHANGED traceset, PromiseInv, NEW id \in Ids, IsRemoved(id)
  PROVE  StandsAt(history[id], req[id])' /\ Serves(history[id], history'[id])
<1> DEFINE h == history[id]
           g == history'[id]
<1>1. h \in History /\ h.fate = "listed" /\ StandsAt(h, req[id])
  BY DEF StateInv, TypeOK, IsRemoved, PromiseInv
<1>2. g.asked = h.asked /\ g.traceset = h.traceset /\ g.got = h.got /\ g.fate = "dropped"
  BY <1>1 DEF IsRemoved, History
<1>3. WantedBy(g) = WantedBy(h) /\ GivenTo(g) = GivenTo(h)
  BY <1>2 DEF WantedBy, GivenTo
<1>4. h.traceset <= traceset /\ h.traceset \in DOMAIN Tracesets
  BY <1>1 DEF StandsAt
<1>5. GivenTo(h) \subseteq WantedBy(h)
      /\ \A e \in GivenTo(h), d \in WantedBy(h) : d < e => d \in GivenTo(h)
  <2>1. CASE h.traceset # Len(Tracesets)
    <3>1. GivenTo(h) = {}
      BY <1>1, <2>1 DEF StandsAt, GivenTo
    <3> QED
      BY <3>1
  <2>2. CASE h.traceset = Len(Tracesets)
    <3>1. Progress(h, StartOf(Last, req[id]))
      BY <1>1, <2>2 DEF StandsAt, PromiseOf
    <3> DEFINE n == StartOf(Last, req[id])
    <3>2. GivenTo(h) = {e \in WantedBy(h) : e < n}
      BY <2>2, <3>1, ProgressGives
    <3>3. n \in Int
      BY <3>1, LastType DEF Progress
    <3>4. \A e \in WantedBy(h) : e \in Nat
      BY DEF WantedBy
    <3> HIDE DEF n, h
    <3> QED
      BY <3>2, <3>3, <3>4
  <2> QED
    BY <2>1, <2>2
<1> HIDE DEF h, g
<1>6. Serves(h, g)
  BY <1>1, <1>2, <1>3, <1>5 DEF Serves, Fates
<1>7. StandsAt(history[id], req[id])'
  BY <1>1, <1>2, <1>4 DEF StandsAt, g
<1> QED
  BY <1>6, <1>7 DEF h, g
\* Each request takes a step of EventDelivery.
LEMMA DeliveryStep ==
  ASSUME \A id \in Ids :
           \/ /\ history[id].fate = "unmade" /\ history'[id].fate = "listed"
              /\ GivenTo(history'[id]) = {}
              /\ WantedBy(history'[id]) \subseteq 1..(EndOf(Last) - 1)
           \/ Serves(history[id], history'[id])
           \/ history'[id] = history[id]
  PROVE  Delivery!Next
<1> DEFINE W(h) == IF h.fate = "unmade" THEN {} ELSE WantedBy(h)
           P(h) == CASE h.fate = "unmade" -> "unmade"
                     [] h.fate = "listed" -> "waiting"
                     [] h.fate = "finished" -> "ended"
                     [] OTHER -> "withdrawn"
           wanted == [id \in Ids |-> W(history[id])]
           delivered == [id \in Ids |-> GivenTo(history[id])]
           phase == [id \in Ids |-> P(history[id])]
<1>1. \A id : Wanted(id) = WantedBy(history[id]) /\ Wanted(id)' = WantedBy(history'[id])
  BY DEF Wanted, WantedBy
<1>2. ASSUME NEW id \in Ids
      PROVE  /\ wanted[id] = W(history[id]) /\ wanted'[id] = W(history'[id])
             /\ delivered[id] = GivenTo(history[id]) /\ delivered'[id] = GivenTo(history'[id])
             /\ phase[id] = P(history[id]) /\ phase'[id] = P(history'[id])
  OBVIOUS
<1>3. /\ [id \in Ids |-> IF history[id].fate = "unmade" THEN {} ELSE Wanted(id)] = wanted
      /\ [id \in Ids |-> {e \in DOMAIN history[id].got : history[id].got[e] = 1}] = delivered
      /\ [id \in Ids |->
            CASE history[id].fate = "unmade" -> "unmade"
              [] history[id].fate = "listed" -> "waiting"
              [] history[id].fate = "finished" -> "ended"
              [] OTHER -> "withdrawn"] = phase
      /\ [id \in Ids |-> IF history[id].fate = "unmade" THEN {} ELSE Wanted(id)]' = wanted'
      /\ [id \in Ids |-> {e \in DOMAIN history[id].got : history[id].got[e] = 1}]' = delivered'
      /\ [id \in Ids |->
            CASE history[id].fate = "unmade" -> "unmade"
              [] history[id].fate = "listed" -> "waiting"
              [] history[id].fate = "finished" -> "ended"
              [] OTHER -> "withdrawn"]' = phase'
  BY <1>1 DEF GivenTo
<1>4. ASSUME NEW id \in Ids, history[id].fate = "unmade", history'[id].fate = "listed",
             GivenTo(history'[id]) = {}, WantedBy(history'[id]) \subseteq 1..(EndOf(Last) - 1)
      PROVE  Delivery!Make(id)
  <2>1. /\ phase[id] = "unmade" /\ phase'[id] = "waiting"
        /\ wanted'[id] \subseteq 1..(EndOf(Last) - 1) /\ delivered'[id] = {}
    <3>1. P(history[id]) = "unmade" /\ P(history'[id]) = "waiting" /\ W(history'[id]) = WantedBy(history'[id])
      BY <1>4
    <3> HIDE DEF P, W, wanted, delivered, phase
    <3> QED
      BY <1>2, <1>4, <3>1
  <2> HIDE DEF wanted, delivered, phase
  <2> QED
    BY <1>3, <2>1 DEF Delivery!Make, Last
<1>5. ASSUME NEW id \in Ids, Serves(history[id], history'[id])
      PROVE  Delivery!Deliver(id)
  <2>1. /\ phase[id] = "waiting" /\ phase'[id] \in {"waiting", "ended", "withdrawn"}
        /\ phase'[id] = "ended" <=> history'[id].fate = "finished"
    <3>1. /\ P(history[id]) = "waiting" /\ P(history'[id]) \in {"waiting", "ended", "withdrawn"}
          /\ P(history'[id]) = "ended" <=> history'[id].fate = "finished"
      BY <1>5 DEF Serves, Fates
    <3> HIDE DEF P, phase
    <3> QED
      BY <1>2, <3>1
  <2>2. wanted[id] = WantedBy(history[id]) /\ wanted'[id] = WantedBy(history[id])
    <3>1. W(history[id]) = WantedBy(history[id]) /\ W(history'[id]) = WantedBy(history[id])
      BY <1>5 DEF Serves
    <3> HIDE DEF W, wanted
    <3> QED
      BY <1>2, <3>1
  <2>3. delivered[id] = GivenTo(history[id]) /\ delivered'[id] = GivenTo(history'[id])
    BY <1>2
  <2> HIDE DEF wanted, delivered, phase
  <2>4. /\ phase[id] = "waiting"
        /\ wanted'[id] = wanted[id]
        /\ delivered[id] \subseteq delivered'[id]
        /\ delivered'[id] \subseteq wanted[id]
        /\ \A e \in delivered'[id], d \in wanted[id] : d < e => d \in delivered'[id]
        /\ phase'[id] \in {"waiting", "ended", "withdrawn"}
        /\ phase'[id] = "ended" => delivered'[id] = wanted[id]
    BY <1>5, <2>1, <2>2, <2>3 DEF Serves
  <2> QED
    BY <1>3, <2>4 DEF Delivery!Deliver, Delivery!InOrder
<1>6. ASSUME NEW id \in Ids, history'[id] = history[id]
      PROVE  Delivery!Rest(id)
  <2>1. phase'[id] = phase[id] /\ wanted'[id] = wanted[id] /\ delivered'[id] = delivered[id]
    BY <1>2, <1>6
  <2> HIDE DEF wanted, delivered, phase
  <2> QED
    BY <1>3, <2>1 DEF Delivery!Rest
<1> HIDE DEF W, P, wanted, delivered, phase
<1> QED
  BY <1>4, <1>5, <1>6 DEF Delivery!Next

LEMMA NextPromise ==
  ASSUME TimedEnds, GrownFromEmpty, StateInv, PromiseInv, [Next]_vars
  PROVE  PromiseInv' /\ Delivery!Next
<1> SUFFICES ASSUME NEW id \in Ids
             PROVE  /\ StandsAt(history[id], req[id])'
                    /\ \/ /\ history[id].fate = "unmade" /\ history'[id].fate = "listed"
                          /\ GivenTo(history'[id]) = {}
                          /\ WantedBy(history'[id]) \subseteq 1..(EndOf(Last) - 1)
                       \/ Serves(history[id], history'[id])
                       \/ history'[id] = history[id]
  BY DeliveryStep DEF PromiseInv
<1>1. StandsAt(history[id], req[id])
  BY DEF PromiseInv
<1>2. CASE UNCHANGED traceset
  <2>1. ASSUME IsSame(id) PROVE StandsAt(history[id], req[id])' /\ history'[id] = history[id]
    <3>1. req'[id] = req[id] /\ history'[id] = history[id] /\ End' = End /\ traceset' = traceset
      BY <1>2, <2>1 DEF IsSame, End, current
    <3> QED
      BY <1>1, <3>1 DEF StandsAt, StartsSomewhere
  <2>2. CASE ProcessChunk
    <3>1. /\ events_requests # << >>
          /\ \E first, stoppers : \E from, to \in Positions :
               /\ Chunk(first, from, to, stoppers)
               /\ IsMade(id) \/ IsServed(id, from, to, stoppers) \/ IsSame(id)
      BY <2>2, ChunkAt
    <3> QED
      BY <1>2, <2>1, <3>1, PromiseMade, PromiseServed DEF IsMade
  <2>3. CASE ~ProcessChunk
    <3>1. IsMade(id) \/ IsRemoved(id) \/ IsSame(id)
      BY <2>3, OtherStepAt
    <3> QED
      BY <1>2, <2>1, <3>1, PromiseMade, PromiseRemoved DEF IsMade
  <2> QED
    BY <2>2, <2>3
<1>3. CASE ~UNCHANGED traceset
  <2>1. traceset' = traceset + 1 /\ UNCHANGED <<req, history>> /\ End <= End'
    BY <1>3, TracesetGrows
  <2>2. traceset \in 1..Len(Tracesets) /\ traceset \in Nat
    BY TracesetsAssumption DEF StateInv, TypeOK
  <2>3. history[id] \in History /\ req[id] \in EventsRequest
    BY DEF StateInv, TypeOK
  <2>4. history[id].traceset \in Nat /\ req[id].start_position \in Nat
    BY <2>3, TracesetsAssumption DEF History, EventsRequest
  <2>5. End \in Nat /\ End' \in Nat
    <3>1. StateInv'
      BY NextStateInv
    <3> QED
      BY <3>1, TracesetType DEF StateInv, TypeOK, End, current
  <2>6. history[id].traceset <= traceset => history[id].traceset <= traceset'
    BY <2>1, <2>2, <2>4
  <2>7. req[id].start_position <= End => req[id].start_position <= End'
    BY <2>1, <2>4, <2>5
  <2> QED
    BY <1>1, <2>1, <2>6, <2>7 DEF StandsAt, StartsSomewhere
<1> QED
  BY <1>2, <1>3

LEMMA InitPromise == Init => PromiseInv /\ Delivery!Init
<1> SUFFICES ASSUME Init PROVE PromiseInv /\ Delivery!Init
  OBVIOUS
<1>1. \A id \in Ids : history[id] = NoHistory
  BY DEF Init
<1>2. NoHistory.fate = "unmade" /\ NoHistory.got = << >> /\ NoHistory.traceset = 0
  BY DEF NoHistory
<1>3. \A id \in Ids : history[id].fate = "unmade" /\ history[id].got = << >> /\ history[id].traceset = 0
  BY <1>1, <1>2
<1>4. PromiseInv
  <2>1. traceset = 1
    BY DEF Init
  <2> QED
    BY <1>3, <2>1 DEF PromiseInv, StandsAt
<1>5. Delivery!Init
  <2>1. \A id \in Ids : {e \in DOMAIN history[id].got : history[id].got[e] = 1} = {}
    BY <1>3
  <2> QED
    BY <1>3, <2>1 DEF Delivery!Init
<1> QED
  BY <1>4, <1>5

\* Every request gets the events it asked for, all of them, in order and once,
\* whatever chunks it is cut into and whatever requests share them, for any
\* traceset, any viewers and any requests that do not end within the traceset
\* by position.
THEOREM DeliveryIsImplemented ==
  TimedEnds /\ GrownFromEmpty /\ Spec => ImplementsDelivery
<1> SUFFICES ASSUME TimedEnds, GrownFromEmpty
             PROVE  Spec => ImplementsDelivery
  OBVIOUS
<1>1. Init => StateInv /\ PromiseInv /\ Delivery!Init
  BY InitStateInv, InitPromise
<1>2. StateInv /\ PromiseInv /\ [Next]_vars
        => StateInv' /\ PromiseInv' /\ Delivery!Next
  BY NextStateInv, NextPromise
<1> QED
  BY <1>1, <1>2, PTL DEF Spec, ImplementsDelivery, Delivery!Spec
=============================================================================
