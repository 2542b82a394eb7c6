------------------------ MODULE EventsRequestsProofs ------------------------
(***************************************************************************)
(* Proofs about the foreground event scheduler, for any tracesets, viewers *)
(* and requests.                                                           *)
(***************************************************************************)
EXTENDS EventsRequests, GSListProofs

\* The list holds exactly the requests that are neither finished nor removed,
\* and numbers are given to requests in the order they are made.
ListInv ==
  /\ Listed = {id \in Ids : history[id].fate = "listed"}
  /\ \A id \in Ids : history[id].fate = "unmade" <=> id > issued

StateInv == TypeOK /\ IdleMatchesList /\ ListInv

-----------------------------------------------------------------------------
(* Constants.                                                              *)

LEMMA TracesetType ==
  ASSUME NEW t \in DOMAIN Tracesets
  PROVE  /\ Tracesets[t].number \in Nat
         /\ Tracesets[t].time \in Seq(0..(ltt_time_infinite - 1))
         /\ Tracesets[t].trace \in Seq(0..(Tracesets[t].number - 1))
         /\ Len(Tracesets[t].trace) = Len(Tracesets[t].time)
         /\ EndOf(Tracesets[t]) \in Nat \ {0}
         /\ Len(Tracesets[t].time) \in Nat
<1>1. IsTraceset(Tracesets[t])
  BY TracesetsAssumption
<1>2. Len(Tracesets[t].time) \in Nat
  BY <1>1 DEF IsTraceset
<1> QED
  BY <1>1, <1>2 DEF IsTraceset, EndOf

LEMMA NoRequestType == NoRequest \in EventsRequest
BY ConstantsAssumption DEF NoRequest, EventsRequest, Times, ALL_TRACES, NULL

\* The requests a viewer makes for a window, one per trace.
LEMMA PerTraceType ==
  ASSUME TypeOK, NEW v \in Viewers, NEW w \in Windows
  PROVE  /\ PerTrace(v, w) \in Seq(EventsRequest)
         /\ \A k \in 1..Len(PerTrace(v, w)) : IsNewRequest(PerTrace(v, w)[k])
<1>1. current.number \in Nat
  BY TracesetType DEF TypeOK, current
<1>2. w.start_time \in 0..(ltt_time_infinite - 1) /\ w.end_time \in Times
  BY RequestsAssumption
<1> DEFINE R(k) == [owner |-> v, servicing |-> FALSE, trace |-> k - 1,
                    start_time |-> w.start_time, start_position |-> NULL,
                    end_time |-> w.end_time, end_position |-> NULL, num_events |-> G_MAXUINT]
<1>3. \A k \in 1..current.number : R(k) \in EventsRequest /\ IsNewRequest(R(k))
  BY <1>2, ConstantsAssumption DEF EventsRequest, IsNewRequest, Times, NULL
<1>4. PerTrace(v, w) = [k \in 1..current.number |-> R(k)]
  BY DEF PerTrace
<1> HIDE DEF R
<1> QED
  BY <1>1, <1>3, <1>4

\* The ids given to new requests are theirs alone.
LEMMA NewIdsLemma ==
  ASSUME StateInv, NEW news \in Seq(EventsRequest), issued + Len(news) <= MaxRequests
  PROVE  /\ NewIds(news) \in Seq(Ids)
         /\ NoDuplicates(NewIds(news))
         /\ Range(NewIds(news)) = {id \in Ids : IsNew(id, news)}
         /\ Range(NewIds(news)) \cap Listed = {}
         /\ Len(NewIds(news)) = Len(news)
<1> DEFINE n == Len(news)
<1>1. n \in Nat /\ issued \in Nat /\ issued + n <= MaxRequests /\ MaxRequests \in Nat
  BY ConstantsAssumption DEF StateInv, TypeOK
<1>2. NewIds(news) = [k \in 1..n |-> issued + k]
  BY DEF NewIds
<1> HIDE DEF n
<1>3. NewIds(news) \in Seq(Ids) /\ NoDuplicates(NewIds(news)) /\ Len(NewIds(news)) = n
  BY <1>1, <1>2 DEF Ids, NoDuplicates
<1>4. Range(NewIds(news)) = (issued + 1)..(issued + n)
  <2>1. Range(NewIds(news)) \subseteq (issued + 1)..(issued + n)
    BY <1>1, <1>2 DEF Range
  <2>2. ASSUME NEW id \in (issued + 1)..(issued + n)
        PROVE  id \in Range(NewIds(news))
    <3>1. id - issued \in 1..n /\ issued + (id - issued) = id
      BY <1>1
    <3> QED
      BY <3>1, <1>2 DEF Range
  <2> QED
    BY <2>1, <2>2
<1>5. Range(NewIds(news)) = {id \in Ids : IsNew(id, news)}
  BY <1>1, <1>4 DEF Ids, IsNew, n
<1>6. Range(NewIds(news)) \cap Listed = {}
  <2>1. \A id \in Listed : id <= issued
    BY <1>1 DEF StateInv, ListInv, Ids
  <2> QED
    BY <1>1, <1>4, <2>1
<1> QED
  BY <1>3, <1>5, <1>6 DEF n

\* The list after new requests were appended to the part A of it.
LEMMA FrontLemma ==
  ASSUME StateInv, NEW news \in Seq(EventsRequest), issued + Len(news) <= MaxRequests,
         NEW A \in SUBSET Listed,
         NEW list, list = Keep(events_requests, A) \o NewIds(news)
  PROVE  /\ list \in Seq(Ids)
         /\ NoDuplicates(list)
         /\ Range(list) = A \cup {id \in Ids : IsNew(id, news)}
<1> DEFINE ka == Keep(events_requests, A)
           ids == NewIds(news)
<1>1. /\ events_requests \in Seq(Ids) /\ NoDuplicates(events_requests)
      /\ Listed = Range(events_requests)
  BY DEF StateInv, TypeOK, IdleMatchesList, Listed
<1>2. ka \in Seq(Ids) /\ NoDuplicates(ka) /\ Range(ka) = A
  BY <1>1, KeepPart
<1>3. /\ ids \in Seq(Ids) /\ NoDuplicates(ids)
      /\ Range(ids) = {id \in Ids : IsNew(id, news)} /\ Range(ids) \cap Listed = {}
  BY NewIdsLemma
<1> HIDE DEF ka, ids
<1>4. /\ ka \o ids \in Seq(Ids) /\ Range(ka \o ids) = A \cup Range(ids)
      /\ NoDuplicates(ka \o ids)
  BY <1>2, <1>3, AppendLemma
<1> QED
  BY <1>3, <1>4 DEF ka, ids

\* The same with another part B behind them.
LEMMA ListLemma ==
  ASSUME StateInv, NEW news \in Seq(EventsRequest), issued + Len(news) <= MaxRequests,
         NEW A \in SUBSET Listed, NEW B \in SUBSET Listed, A \cap B = {},
         NEW list,
         list = (Keep(events_requests, A) \o NewIds(news)) \o Keep(events_requests, B)
  PROVE  /\ list \in Seq(Ids)
         /\ NoDuplicates(list)
         /\ Range(list) = (A \cup B) \cup {id \in Ids : IsNew(id, news)}
<1> DEFINE front == Keep(events_requests, A) \o NewIds(news)
           kb == Keep(events_requests, B)
<1>1. events_requests \in Seq(Ids) /\ NoDuplicates(events_requests) /\ B \subseteq Range(events_requests)
  BY DEF StateInv, TypeOK, IdleMatchesList, Listed
<1>2. kb \in Seq(Ids) /\ NoDuplicates(kb) /\ Range(kb) = B
  BY <1>1, KeepPart
<1>3. /\ front \in Seq(Ids) /\ NoDuplicates(front)
      /\ Range(front) = A \cup {id \in Ids : IsNew(id, news)}
  BY FrontLemma
<1>4. Listed \cap {id \in Ids : IsNew(id, news)} = {}
  BY NewIdsLemma
<1> HIDE DEF front, kb
<1>5. Range(front) \cap Range(kb) = {}
  BY <1>2, <1>3, <1>4
<1>6. /\ front \o kb \in Seq(Ids) /\ Range(front \o kb) = Range(front) \cup Range(kb)
      /\ NoDuplicates(front \o kb)
  BY <1>2, <1>3, <1>5, AppendLemma
<1> QED
  BY <1>2, <1>3, <1>6 DEF front, kb

\* A list is empty when it has no element.
LEMMA EmptyList ==
  ASSUME NEW T, NEW list \in Seq(T)
  PROVE  list = << >> <=> Range(list) = {}
BY DEF Range

LEMMA NewHistoryType ==
  ASSUME TypeOK, NEW r \in EventsRequest
  PROVE  /\ NewHistory(r) \in History
         /\ NewHistory(r).fate = "listed"
<1>1. End - 1 \in Nat
  BY TracesetType DEF TypeOK, End, EndOf, current
<1> DEFINE got == [e \in 1..(End - 1) |-> 0]
<1>2. got \in Seq(Nat)
  BY <1>1
<1>3. traceset \in 0..Len(Tracesets)
  BY TracesetsAssumption DEF TypeOK
<1>4. NewHistory(r) = [asked |-> r, traceset |-> traceset, before |-> 0, after |-> 0,
                       fate |-> "listed", got |-> got]
  BY DEF NewHistory
<1> HIDE DEF got
<1>5. NewHistory(r) \in History
  <2>1. "listed" \in Fates
    BY DEF Fates
  <2> QED
    BY <2>1, <1>2, <1>3, <1>4 DEF History
<1> QED
  BY <1>4, <1>5

\* What Replace keeps of the type and list invariants.
LEMMA ReplaceLemma ==
  ASSUME StateInv, NEW removed \in SUBSET Listed, NEW news \in Seq(EventsRequest),
         Replace(removed, news)
  PROVE  /\ events_requests' \in Seq(Ids)
         /\ NoDuplicates(events_requests')
         /\ events_requests' = << >> <=> (Listed \ removed = {} /\ news = << >>)
         /\ req' \in [Ids -> EventsRequest]
         /\ issued' \in 0..MaxRequests
         /\ history' \in [Ids -> History]
         /\ ListInv'
<1>1. /\ issued + Len(news) <= MaxRequests /\ issued' = issued + Len(news)
      /\ events_requests' = Keep(events_requests, Listed \ removed) \o NewIds(news)
      /\ req' = [id \in Ids |-> IF IsNew(id, news) THEN news[id - issued] ELSE req[id]]
      /\ history' = [id \in Ids |->
                       IF IsNew(id, news) THEN NewHistory(news[id - issued])
                       ELSE IF id \in removed THEN [history[id] EXCEPT !.fate = "dropped"]
                       ELSE history[id]]
  <2>1. issued + Len(news) <= MaxAsked /\ Len(news) \in Nat /\ issued \in Nat
    BY DEF Replace, StateInv, TypeOK
  <2>2. issued + Len(news) <= MaxRequests
    BY <2>1, ConstantsAssumption
  <2> QED
    BY <2>2 DEF Replace
<1>2. /\ events_requests' \in Seq(Ids) /\ NoDuplicates(events_requests')
      /\ Range(events_requests') = (Listed \ removed) \cup {id \in Ids : IsNew(id, news)}
  <2> DEFINE A == Listed \ removed
  <2>1. A \in SUBSET Listed /\ events_requests' = Keep(events_requests, A) \o NewIds(news)
    BY <1>1
  <2> HIDE DEF A
  <2> QED
    BY <2>1, <1>1, FrontLemma DEF A
<1>3. /\ MaxRequests \in Nat /\ issued \in Nat /\ Len(news) \in Nat
      /\ issued + Len(news) \in 0..MaxRequests
      /\ \A id \in Ids : IsNew(id, news) => news[id - issued] \in EventsRequest
  BY <1>1, ConstantsAssumption DEF StateInv, TypeOK, IsNew, Ids
<1>4. req' \in [Ids -> EventsRequest]
  BY <1>1, <1>3 DEF StateInv, TypeOK
<1>5. \A id \in Ids : [history[id] EXCEPT !.fate = "dropped"] \in History
  BY DEF StateInv, TypeOK, History, Fates
<1>6. history' \in [Ids -> History]
  <2>1. \A id \in Ids : IsNew(id, news) => NewHistory(news[id - issued]) \in History
    BY <1>3, NewHistoryType DEF StateInv
  <2>2. history \in [Ids -> History]
    BY DEF StateInv, TypeOK
  <2> QED
    BY <2>1, <2>2, <1>1, <1>5
<1>7. events_requests' = << >> <=> (Listed \ removed = {} /\ news = << >>)
  <2>1. {id \in Ids : IsNew(id, news)} = {} <=> news = << >>
    <3>1. CASE news = << >>
      BY <3>1, <1>3 DEF IsNew
    <3>2. CASE news # << >>
      <4>1. issued + 1 \in Ids /\ IsNew(issued + 1, news)
        BY <3>2, <1>1, <1>3 DEF IsNew, Ids
      <4> QED
        BY <4>1, <3>2
    <3> QED
      BY <3>1, <3>2
  <2> QED
    BY <2>1, <1>2, EmptyList
<1>8. ListInv'
  <2>1. \A id \in Ids : /\ IsNew(id, news) => history'[id].fate = "listed"
                        /\ ~IsNew(id, news) /\ id \in removed => history'[id].fate = "dropped"
                        /\ ~IsNew(id, news) /\ id \notin removed => history'[id] = history[id]
    <3> TAKE id \in Ids
    <3>1. CASE IsNew(id, news)
      <4>1. history'[id] = NewHistory(news[id - issued])
        BY <3>1, <1>1
      <4> QED
        BY <4>1, <3>1, <1>3, NewHistoryType DEF StateInv
    <3>2. CASE ~IsNew(id, news) /\ id \in removed
      <4>1. history'[id] = [history[id] EXCEPT !.fate = "dropped"] /\ history[id] \in History
        BY <3>2, <1>1 DEF StateInv, TypeOK
      <4> QED
        BY <4>1, <3>2 DEF History
    <3>3. CASE ~IsNew(id, news) /\ id \notin removed
      BY <3>3, <1>1
    <3> QED
      BY <3>1, <3>2, <3>3
  <2>2. \A id \in Ids : IsNew(id, news) => id \notin Listed /\ id > issued
    BY <1>3 DEF StateInv, ListInv, IsNew, Ids
  <2>5. Listed \subseteq Ids /\ \A id \in Ids : id \in Listed <=> history[id].fate = "listed"
    BY DEF StateInv, ListInv
  <2>6. Listed' = (Listed \ removed) \cup {id \in Ids : IsNew(id, news)}
    BY <1>2 DEF Listed
  <2>3. Listed' = {id \in Ids : history'[id].fate = "listed"}
    <3>1. \A id \in Ids : id \in Listed' <=> history'[id].fate = "listed"
      BY <2>1, <2>2, <2>5, <2>6
    <3> QED
      BY <3>1, <2>5, <2>6
  <2>4. \A id \in Ids : history'[id].fate = "unmade" <=> id > issued'
    <3> TAKE id \in Ids
    <3>1. id \in Nat
      BY <1>3 DEF Ids
    <3>5. issued' = issued + Len(news) /\ issued \in Nat /\ Len(news) \in Nat
      BY <1>1, <1>3
    <3>2. CASE IsNew(id, news)
      <4>1. history'[id].fate = "listed"
        BY <3>2, <2>1
      <4>2. ~(id > issued')
        BY <3>1, <3>2, <3>5 DEF IsNew
      <4> QED
        BY <4>1, <4>2
    <3>3. CASE ~IsNew(id, news) /\ id \in removed
      <4>1. history[id].fate = "listed" /\ ~(id > issued)
        BY <3>3, <2>5 DEF StateInv, ListInv
      <4>2. history'[id].fate = "dropped"
        BY <3>3, <2>1
      <4>3. ~(id > issued')
        BY <4>1, <3>1, <3>5
      <4> QED
        BY <4>2, <4>3
    <3>4. CASE ~IsNew(id, news) /\ id \notin removed
      BY <3>1, <3>4, <2>1, <1>1, <1>3 DEF StateInv, ListInv, IsNew
    <3> QED
      BY <3>2, <3>3, <3>4
  <2> QED
    BY <2>3, <2>4 DEF ListInv
<1> QED
  BY <1>1, <1>2, <1>3, <1>4, <1>6, <1>7, <1>8

LEMMA IdleNow ==
  ASSUME StateInv
  PROVE  /\ events_requests = << >> => idle_sources = 0 /\ events_request_pending = FALSE
         /\ events_requests # << >> => idle_sources = 1 /\ events_request_pending = TRUE
<1>1. events_request_pending \in BOOLEAN
  BY DEF StateInv, TypeOK
<1> QED
  BY <1>1 DEF StateInv, IdleMatchesList

\* Replacing requests in the list leaves its idle source registered once, if
\* and only if the list is not empty.
LEMMA IdleAfterLemma ==
  ASSUME StateInv, NEW removed \in SUBSET Listed, NEW news \in Seq(EventsRequest),
         Replace(removed, news), IdleAfter(removed, news)
  PROVE  /\ idle_sources' \in Nat
         /\ events_request_pending' \in BOOLEAN
         /\ IdleMatchesList'
<1>1. /\ events_requests = << >> => idle_sources = 0 /\ events_request_pending = FALSE
      /\ events_requests # << >> => idle_sources = 1 /\ events_request_pending = TRUE
  BY IdleNow
<1>2. events_requests = << >> <=> Listed = {}
  BY EmptyList DEF StateInv, TypeOK, Listed
<1>3. events_requests' = << >> <=> (Listed \ removed = {} /\ news = << >>)
  BY ReplaceLemma
<1>4. NoDuplicates(events_requests')
  BY ReplaceLemma
<1> DEFINE emptied == Listed \ removed = {}
           pending == events_request_pending /\ ~emptied
           sources == IF emptied /\ idle_sources > 0 THEN idle_sources - 1 ELSE idle_sources
<1>5. pending = ~emptied /\ sources = IF emptied THEN 0 ELSE 1
  <2>1. CASE events_requests = << >>
    BY <2>1, <1>1, <1>2
  <2>2. CASE events_requests # << >>
    BY <2>2, <1>1
  <2> QED
    BY <2>1, <2>2
<1>6. /\ events_request_pending' = (pending \/ news # << >>)
      /\ idle_sources' = IF news # << >> /\ ~pending THEN sources + 1 ELSE sources
  BY DEF IdleAfter
<1> HIDE DEF pending, sources
<1>7. CASE news = << >> /\ emptied
  BY <1>3, <1>4, <1>5, <1>6, <1>7 DEF IdleMatchesList
<1>8. CASE news = << >> /\ ~emptied
  BY <1>3, <1>4, <1>5, <1>6, <1>8 DEF IdleMatchesList
<1>9. CASE news # << >>
  <2>1. events_request_pending' = TRUE
    BY <1>6, <1>9
  <2>2. idle_sources' = 1
    <3>1. CASE emptied
      <4>1. pending = FALSE /\ sources = 0
        BY <3>1, <1>5
      <4> QED
        BY <4>1, <1>6, <1>9
    <3>2. CASE ~emptied
      <4>1. pending = TRUE /\ sources = 1
        BY <3>2, <1>5
      <4> QED
        BY <4>1, <1>6, <1>9
    <3> QED
      BY <3>1, <3>2
  <2> QED
    BY <1>3, <1>4, <1>9, <2>1, <2>2 DEF IdleMatchesList
<1> QED
  BY <1>7, <1>8, <1>9

\* A step that replaces requests and touches nothing else of the state's
\* types keeps the invariant.
LEMMA ReplaceStep ==
  ASSUME StateInv, NEW removed \in SUBSET Listed, NEW news \in Seq(EventsRequest),
         Replace(removed, news), IdleAfter(removed, news),
         to_notify' \subseteq to_notify,
         UNCHANGED <<lttvwindow_preempt_count, traceset>>
  PROVE  StateInv'
<1>1. /\ events_requests' \in Seq(Ids) /\ req' \in [Ids -> EventsRequest]
      /\ issued' \in 0..MaxRequests /\ history' \in [Ids -> History] /\ ListInv'
  BY ReplaceLemma
<1>2. /\ idle_sources' \in Nat /\ events_request_pending' \in BOOLEAN /\ IdleMatchesList'
  BY IdleAfterLemma
<1>3. /\ lttvwindow_preempt_count' \in 0..1 /\ traceset' \in DOMAIN Tracesets
      /\ to_notify' \subseteq Viewers
  BY DEF StateInv, TypeOK
<1> QED
  BY <1>1, <1>2, <1>3 DEF StateInv, TypeOK

LEMMA RequestEventsStep ==
  ASSUME StateInv, NEW r \in ApiRequests, RequestEvents(r)
  PROVE  StateInv'
<1>1. <<r>> \in Seq(EventsRequest) /\ <<r>> # << >>
  BY RequestsAssumption
<1>2. IdleAfter({}, <<r>>)
  <2>1. events_requests = << >> <=> Listed = {}
    BY EmptyList DEF StateInv, TypeOK, Listed
  <2>2. /\ events_requests = << >> => idle_sources = 0 /\ events_request_pending = FALSE
        /\ events_requests # << >> => idle_sources = 1 /\ events_request_pending = TRUE
    BY IdleNow
  <2>3. /\ events_request_pending' = TRUE
        /\ idle_sources' = IF events_request_pending THEN idle_sources ELSE idle_sources + 1
    BY DEF RequestEvents, AddIdle
  <2>4. Listed \ {} = Listed
    OBVIOUS
  <2>6. CASE Listed = {}
    <3>1. idle_sources = 0 /\ events_request_pending = FALSE
      BY <2>1, <2>2, <2>6
    <3>2. events_request_pending' = TRUE /\ idle_sources' = 0 + 1
      BY <2>3, <3>1
    <3>3. (events_request_pending /\ ~(Listed \ {} = {})) = FALSE
      BY <3>1
    <3>4. ~(Listed \ {} = {} /\ idle_sources > 0)
      BY <3>1
    <3> DEFINE pending == events_request_pending /\ ~(Listed \ {} = {})
               sources == IF Listed \ {} = {} /\ idle_sources > 0
                          THEN idle_sources - 1 ELSE idle_sources
    <3>5. pending = FALSE /\ sources = 0
      BY <3>1, <3>3, <3>4
    <3>6. IdleAfter({}, <<r>>) <=>
            /\ events_request_pending' = (pending \/ <<r>> # << >>)
            /\ idle_sources' = IF <<r>> # << >> /\ ~pending THEN sources + 1 ELSE sources
      BY DEF IdleAfter
    <3> HIDE DEF pending, sources
    <3> QED
      BY <1>1, <3>2, <3>5, <3>6
  <2>7. CASE Listed # {}
    <3>1. idle_sources = 1 /\ events_request_pending = TRUE
      BY <2>1, <2>2, <2>7
    <3>2. events_request_pending' = TRUE /\ idle_sources' = 1
      BY <2>3, <3>1
    <3> QED
      BY <1>1, <2>4, <2>7, <3>1, <3>2 DEF IdleAfter
  <2> QED
    BY <2>6, <2>7
<1> QED
  BY <1>1, <1>2, ReplaceStep DEF RequestEvents

LEMMA RedrawStep ==
  ASSUME StateInv, NEW v \in Viewers, NEW w \in Windows, Redraw(v, w),
         to_notify' \subseteq to_notify
  PROVE  StateInv'
<1>1. PerTrace(v, w) \in Seq(EventsRequest)
  BY PerTraceType DEF StateInv
<1>2. RemovedByRemoveAll(v) \in SUBSET Listed
  BY DEF RemovedByRemoveAll
<1> QED
  BY <1>1, <1>2, ReplaceStep DEF Redraw

LEMMA RemoveAllStep ==
  ASSUME StateInv, NEW v \in Viewers, RemoveAll(v)
  PROVE  StateInv'
<1>1. << >> \in Seq(EventsRequest)
  OBVIOUS
<1>2. RemovedByRemoveAll(v) \in SUBSET Listed
  BY DEF RemovedByRemoveAll
<1> QED
  BY <1>1, <1>2, ReplaceStep DEF RemoveAll

LEMMA StopProcessingStep ==
  ASSUME StateInv, StopProcessing
  PROVE  StateInv'
<1>1. << >> \in Seq(EventsRequest) /\ Listed \in SUBSET Listed
  OBVIOUS
<1> QED
  BY <1>1, ReplaceStep DEF StopProcessing

-----------------------------------------------------------------------------
(* The chunk.                                                              *)

LEMMA ListInLemma ==
  ASSUME TypeOK, events_requests # << >>
  PROVE  list_in \subseteq Listed /\ Listed \subseteq Ids
<1>1. events_requests[1] \in Listed
  BY DEF TypeOK, Listed, Range
<1>2. Listed \subseteq Ids
  BY DEF TypeOK, Listed, Range
<1>3. ltime \subseteq Listed
  BY DEF ltime
<1>4. lpos \subseteq Listed
  BY <1>1 DEF lpos
<1> QED
  BY <1>2, <1>3, <1>4 DEF list_in

\* No request of list_in is asked for more events than it has left to ask.
LEMMA ChunkCounts ==
  ASSUME TypeOK, events_requests # << >>,
         NEW first, NEW from \in Positions, NEW to \in Positions, NEW stoppers,
         Reads(first, from, to, stoppers), NEW r \in list_in
  PROVE  /\ to - from \in 0..req[r].num_events
         /\ r \in Ids
         /\ Interrupted(req[r], from, to) \in EventsRequest
<1>1. End \in Nat
  BY TracesetType DEF TypeOK, End, current
<1>2. from \in Nat /\ to \in from..End
  BY <1>1 DEF Reads, Positions
<1>3. r \in Listed /\ r \in Ids
  BY ListInLemma
<1>4. req[r] \in EventsRequest
  BY <1>3 DEF TypeOK
<1>5. req[r].num_events \in 0..G_MAXUINT /\ G_MAXUINT \in Nat
  BY <1>4, ConstantsAssumption DEF EventsRequest
<1>6. to - from <= req[r].num_events
  <2>1. CASE to = from
    BY <2>1, <1>2, <1>5
  <2>2. CASE to > from
    <3>1. to - 1 \in from..(to - 1)
      BY <2>2, <1>1, <1>2
    <3>2. ~ReadStopsAt(first, from, to - 1)
      BY <3>1 DEF Reads
    <3>3. ~((to - 1) - from >= req[r].num_events)
      BY <3>2 DEF ReadStopsAt
    <3> QED
      BY <3>3, <1>1, <1>2, <1>5
  <2> QED
    BY <2>1, <2>2, <1>1, <1>2
<1>7. to \in Nat /\ to - from \in 0..req[r].num_events
  BY <1>1, <1>2, <1>5, <1>6
<1>8. req[r].num_events - (to - from) \in 0..G_MAXUINT
  BY <1>1, <1>2, <1>5, <1>6
<1>9. ltt_time_infinite \in Times
  BY ConstantsAssumption DEF Times
<1>10. Interrupted(req[r], from, to) \in EventsRequest
  BY <1>4, <1>7, <1>8, <1>9 DEF Interrupted, EventsRequest
<1> QED
  BY <1>3, <1>7, <1>10

\* The k-th of m batches of n requests each is a request of one of them.
LEMMA BatchIndex ==
  ASSUME NEW m \in Nat, NEW n \in Nat, NEW k \in 1..(m * n)
  PROVE  ((k - 1) \div n) + 1 \in 1..m /\ ((k - 1) % n) + 1 \in 1..n
<1>1. m * n \in Nat /\ k \in Int /\ 1 <= k /\ k <= m * n
  OBVIOUS
<1>2. n > 0
  <2>1. n = 0 => m * n = 0
    OBVIOUS
  <2> QED
    BY <1>1, <2>1
<1> DEFINE q == (k - 1) \div n
           r == (k - 1) % n
<1>3. q \in Int /\ r \in 0..(n - 1) /\ k - 1 = n * q + r
  BY <1>1, <1>2
<1> HIDE DEF q, r
<1>4. q >= 0
  <2>1. CASE q <= -1
    <3>1. n * q <= n * (-1)
      BY <1>2, <1>3, <2>1
    <3> QED
      BY <1>1, <1>2, <1>3, <3>1
  <2> QED
    BY <1>3, <2>1
<1>5. q < m
  <2>1. CASE q >= m
    <3>1. n * q >= n * m /\ n * m = m * n
      BY <1>2, <1>3, <2>1
    <3> QED
      BY <1>1, <1>2, <1>3, <3>1
  <2> QED
    BY <1>3, <2>1
<1> QED
  BY <1>3, <1>4, <1>5 DEF q, r

\* Each request of the second passes is one that a viewer makes for a trace.
LEMMA SecondPassesLemma ==
  ASSUME TypeOK, NEW firsts, NEW window \in [Viewers -> Windows]
  PROVE  /\ Len(SecondPasses(firsts, window)) \in Nat
         /\ DOMAIN SecondPasses(firsts, window) = 1..Len(SecondPasses(firsts, window))
         /\ \A k \in 1..Len(SecondPasses(firsts, window)) :
              \E v \in Viewers, w \in Windows : \E i \in 1..Len(PerTrace(v, w)) :
                SecondPasses(firsts, window)[k] = PerTrace(v, w)[i]
<1> DEFINE order == Keep(events_requests, firsts)
           n == current.number
           m == Len(order)
           viewer(k) == req[order[((k - 1) \div n) + 1]].owner
           passes == [k \in 1..(m * n) |->
                        PerTrace(viewer(k), window[viewer(k)])[((k - 1) % n) + 1]]
<1>1. order \in Seq(Ids)
  BY KeepLemma DEF TypeOK
<1>2. n \in Nat
  BY TracesetType DEF TypeOK, current
<1>3. m \in Nat /\ \A j \in 1..m : order[j] \in Ids
  <2> HIDE DEF order
  <2> QED
    BY <1>1
<1>4. SecondPasses(firsts, window) = passes
  BY DEF SecondPasses
<1> HIDE DEF order, n, m
<1>5. m * n \in Nat
  BY <1>2, <1>3
<1>6. Len(passes) = m * n /\ DOMAIN passes = 1..(m * n)
  BY <1>5
<1>7. ASSUME NEW k \in 1..(m * n)
      PROVE  \E v \in Viewers, w \in Windows : \E i \in 1..Len(PerTrace(v, w)) :
               passes[k] = PerTrace(v, w)[i]
  <2>1. ((k - 1) \div n) + 1 \in 1..m /\ ((k - 1) % n) + 1 \in 1..n
    BY <1>2, <1>3, BatchIndex
  <2>2. viewer(k) \in Viewers
    <3>1. order[((k - 1) \div n) + 1] \in Ids
      BY <1>3, <2>1
    <3> QED
      BY <3>1 DEF TypeOK, EventsRequest
  <2>3. window[viewer(k)] \in Windows
    BY <2>2
  <2>4. Len(PerTrace(viewer(k), window[viewer(k)])) = n
    BY <1>2 DEF PerTrace, n
  <2>5. passes[k] = PerTrace(viewer(k), window[viewer(k)])[((k - 1) % n) + 1]
    OBVIOUS
  <2> QED
    BY <2>1, <2>2, <2>3, <2>4, <2>5
<1> QED
  BY <1>4, <1>5, <1>6, <1>7

\* The requests the hooks of a chunk make are well formed.
LEMMA FollowUpsType ==
  ASSUME TypeOK, NEW done \in SUBSET Ids, NEW news \in FollowUps(done)
  PROVE  news \in Seq(EventsRequest)
<1>1. PICK firsts \in SUBSET done, window \in [Viewers -> Windows] :
        news = SecondPasses(firsts, window)
  BY DEF FollowUps
<1>2. ASSUME NEW k \in 1..Len(news) PROVE news[k] \in EventsRequest
  <2>1. PICK v \in Viewers, w \in Windows : \E i \in 1..Len(PerTrace(v, w)) : news[k] = PerTrace(v, w)[i]
    BY <1>1, SecondPassesLemma
  <2> QED
    BY <2>1, PerTraceType
<1>3. Len(news) \in Nat /\ DOMAIN news = 1..Len(news) /\ news = [k \in 1..Len(news) |-> news[k]]
  BY <1>1, SecondPassesLemma DEF SecondPasses
<1> QED
  BY <1>2, <1>3

\* What a chunk records of a request.
LEMMA HistoryAfterChunkType ==
  ASSUME TypeOK, NEW from, NEW to, NEW stoppers, NEW id \in Ids
  PROVE  /\ HistoryAfterChunk(id, from, to, stoppers) \in History
         /\ HistoryAfterChunk(id, from, to, stoppers).fate =
              IF id \in Finished(from, to) THEN "finished"
              ELSE IF id \in stoppers THEN "stopped" ELSE history[id].fate
<1> DEFINE h == history[id]
           done == Finished(from, to) \cup stoppers
           b == h.before + (IF req[id].servicing THEN 0 ELSE 1)
           a == h.after + (IF id \in done THEN 1 ELSE 0)
           f == IF id \in Finished(from, to) THEN "finished"
                ELSE IF id \in stoppers THEN "stopped" ELSE h.fate
           g == Delivered(h.got, req[id], from, to)
<1>1. h \in History
  BY DEF TypeOK
<1>2. b \in Nat /\ a \in Nat
  BY <1>1 DEF History
<1>3. f \in Fates
  BY <1>1 DEF History, Fates
<1>4. g \in Seq(Nat)
  <2>1. h.got \in Seq(Nat)
    BY <1>1 DEF History
  <2>2. h.got \in [1..Len(h.got) -> Nat] /\ Len(h.got) \in Nat
    BY <2>1
  <2>3. g \in [1..Len(h.got) -> Nat]
    BY <2>2 DEF Delivered
  <2> QED
    BY <2>2, <2>3
<1>5. HistoryAfterChunk(id, from, to, stoppers) =
        [h EXCEPT !.before = b, !.after = a, !.fate = f, !.got = g]
  BY DEF HistoryAfterChunk
<1> HIDE DEF b, a, f, g, h, done
<1>6. HistoryAfterChunk(id, from, to, stoppers) \in History
  BY <1>1, <1>2, <1>3, <1>4, <1>5 DEF History
<1>7. HistoryAfterChunk(id, from, to, stoppers).fate = f
  BY <1>1, <1>5 DEF History
<1> QED
  BY <1>6, <1>7 DEF f, h

\* The idle function leaves its source registered if and only if the list it
\* leaves is not empty.
LEMMA LeaveIdleLemma ==
  ASSUME StateInv, SchedulerRuns, NEW list, LeaveIdle(list)
  PROVE  /\ list = << >> => idle_sources' = 0 /\ events_request_pending' = FALSE
         /\ list # << >> => idle_sources' = 1 /\ events_request_pending' = TRUE
<1>1. idle_sources = 1 /\ events_request_pending = TRUE
  BY IdleNow DEF SchedulerRuns
<1>2. list = << >> => idle_sources' = 1 - 1 /\ events_request_pending' = FALSE
  BY <1>1 DEF LeaveIdle
<1>3. list # << >> => idle_sources' = 1 /\ events_request_pending' = TRUE
  BY <1>1 DEF LeaveIdle
<1> QED
  BY <1>2, <1>3

LEMMA ProcessChunkStep ==
  ASSUME StateInv, ProcessChunk
  PROVE  StateInv'
<1>1. /\ SchedulerRuns /\ events_requests # << >>
      /\ UNCHANGED <<lttvwindow_preempt_count, traceset, to_notify>>
  BY DEF ProcessChunk, SchedulerRuns
<1>2. PICK first \in list_in, stoppers \in SUBSET list_in, from \in Positions, to \in Positions :
        /\ Reads(first, from, to, stoppers)
        /\ \E news \in FollowUps(Finished(from, to) \cup stoppers) :
             ServeChunk(from, to, stoppers, news)
  BY DEF ProcessChunk
<1> DEFINE done == Finished(from, to) \cup stoppers
           rest == list_in \ done
<1>0. PICK news \in FollowUps(done) : ServeChunk(from, to, stoppers, news)
  BY <1>2
<1>3. /\ issued + Len(news) <= MaxRequests
      /\ issued' = issued + Len(news)
      /\ events_requests' = (Keep(events_requests, list_out) \o NewIds(news))
                              \o Keep(events_requests, rest)
      /\ req' = [id \in Ids |->
                   IF IsNew(id, news) THEN news[id - issued]
                   ELSE IF id \in rest THEN Interrupted(req[id], from, to)
                   ELSE req[id]]
      /\ history' = [id \in Ids |->
                       IF IsNew(id, news) THEN NewHistory(news[id - issued])
                       ELSE IF id \in list_in
                       THEN HistoryAfterChunk(id, from, to, stoppers)
                       ELSE history[id]]
      /\ LeaveIdle(events_requests')
  BY <1>0 DEF ServeChunk
<1>4. list_in \subseteq Listed /\ Listed \subseteq Ids
  BY <1>1, ListInLemma DEF StateInv
<1>5. done \subseteq list_in /\ rest \subseteq list_in /\ list_out = Listed \ list_in
      /\ list_out \cap rest = {}
  BY DEF Finished, list_out
<1>6. news \in Seq(EventsRequest)
  BY <1>4, <1>5, FollowUpsType DEF StateInv
<1>7. /\ events_requests' \in Seq(Ids) /\ NoDuplicates(events_requests')
      /\ Range(events_requests') = (list_out \cup rest) \cup {id \in Ids : IsNew(id, news)}
  <2> HIDE DEF rest
  <2> QED
    BY <1>3, <1>4, <1>5, <1>6, ListLemma
<1>8. /\ MaxRequests \in Nat /\ issued \in Nat /\ Len(news) \in Nat
      /\ issued + Len(news) \in 0..MaxRequests
      /\ \A id \in Ids : IsNew(id, news) => news[id - issued] \in EventsRequest
  BY <1>3, <1>6, ConstantsAssumption DEF StateInv, TypeOK, IsNew, Ids
<1>9. req' \in [Ids -> EventsRequest]
  <2>1. \A id \in rest : Interrupted(req[id], from, to) \in EventsRequest
    BY <1>1, <1>2, <1>5, ChunkCounts DEF StateInv
  <2> QED
    BY <1>3, <1>8, <2>1 DEF StateInv, TypeOK
<1>10. \A id \in Ids :
         /\ history'[id] \in History
         /\ IsNew(id, news) => history'[id].fate = "listed"
         /\ ~IsNew(id, news) /\ id \in done => history'[id].fate \in {"finished", "stopped"}
         /\ ~IsNew(id, news) /\ id \notin done => history'[id].fate = history[id].fate
  <2> TAKE id \in Ids
  <2>1. CASE IsNew(id, news)
    <3>1. history'[id] = NewHistory(news[id - issued])
      BY <1>3, <2>1
    <3> QED
      BY <2>1, <3>1, <1>8, NewHistoryType DEF StateInv
  <2>2. CASE ~IsNew(id, news) /\ id \in list_in
    <3>1. history'[id] = HistoryAfterChunk(id, from, to, stoppers)
      BY <1>3, <2>2
    <3>2. /\ history'[id] \in History
          /\ history'[id].fate = IF id \in Finished(from, to) THEN "finished"
                                 ELSE IF id \in stoppers THEN "stopped" ELSE history[id].fate
      BY <3>1, HistoryAfterChunkType DEF StateInv
    <3> QED
      BY <2>2, <3>2
  <2>3. CASE ~IsNew(id, news) /\ id \notin list_in
    <3>1. history'[id] = history[id]
      BY <1>3, <2>3
    <3> QED
      BY <2>3, <3>1, <1>5 DEF StateInv, TypeOK
  <2> QED
    BY <2>1, <2>2, <2>3
<1>11. history' \in [Ids -> History]
  BY <1>3, <1>10
<1>12. /\ events_requests' = << >> => idle_sources' = 0 /\ events_request_pending' = FALSE
       /\ events_requests' # << >> => idle_sources' = 1 /\ events_request_pending' = TRUE
  <2>1. LeaveIdle(events_requests')
    BY <1>3
  <2> QED
    BY <1>1, <2>1, LeaveIdleLemma
<1>13. ListInv'
  <2>1. Listed' = (Listed \ done) \cup {id \in Ids : IsNew(id, news)}
    BY <1>4, <1>5, <1>7 DEF Listed
  <2>2. /\ \A id \in Ids : id \in Listed <=> history[id].fate = "listed"
        /\ \A id \in Ids : history[id].fate = "unmade" <=> id > issued
    BY DEF StateInv, ListInv
  <2>3. \A id \in Ids : IsNew(id, news) => id > issued /\ id \notin Listed
      <3> TAKE id \in Ids
    <3>1. IsNew(id, news) => id > issued
      BY <1>8 DEF IsNew, Ids
    <3>2. id > issued => history[id].fate # "listed"
      <4>1. id > issued => history[id].fate = "unmade"
        BY <2>2
      <4> QED
        BY <4>1
    <3> QED
      BY <3>1, <3>2, <2>2
  <2> HIDE DEF done
  <2>4. \A id \in Ids : id \in Listed' <=> history'[id].fate = "listed"
    <3> TAKE id \in Ids
    <3>1. CASE IsNew(id, news)
      BY <3>1, <2>1, <1>10
    <3>2. CASE ~IsNew(id, news) /\ id \in done
      <4>1. id \notin Listed' /\ history'[id].fate \in {"finished", "stopped"}
        BY <3>2, <2>1, <1>10
      <4> QED
        BY <4>1
    <3>3. CASE ~IsNew(id, news) /\ id \notin done
      BY <3>3, <2>1, <2>2, <1>10
    <3> QED
      BY <3>1, <3>2, <3>3
  <2>5. \A id \in Ids : history'[id].fate = "unmade" <=> id > issued'
    <3> TAKE id \in Ids
    <3>1. id \in Nat /\ issued' = issued + Len(news) /\ issued \in Nat /\ Len(news) \in Nat
      BY <1>3, <1>8 DEF Ids
    <3>2. CASE IsNew(id, news)
      <4>1. history'[id].fate = "listed" /\ ~(id > issued')
        BY <3>1, <3>2, <1>10 DEF IsNew
      <4> QED
        BY <4>1
    <3>3. CASE ~IsNew(id, news) /\ id \in done
      <4>1. history'[id].fate \in {"finished", "stopped"}
        BY <3>3, <1>10
      <4>2. history[id].fate = "listed"
        BY <3>3, <2>2, <1>4, <1>5
      <4>3. ~(id > issued)
        BY <4>2, <2>2
      <4>4. ~(id > issued')
        BY <4>3, <3>1
      <4> QED
        BY <4>1, <4>4
    <3>4. CASE ~IsNew(id, news) /\ id \notin done
      <4>1. history'[id].fate = history[id].fate
        BY <3>4, <1>10
      <4>2. id > issued <=> id > issued'
        BY <3>1, <3>4 DEF IsNew
      <4> QED
        BY <4>1, <4>2, <2>2
    <3> QED
      BY <3>2, <3>3, <3>4
  <2>6. Listed' \subseteq Ids
    BY <1>7, <1>4, <1>5 DEF Listed
  <2> QED
    BY <2>4, <2>5, <2>6 DEF ListInv
<1>14. IdleMatchesList' /\ idle_sources' \in Nat /\ events_request_pending' \in BOOLEAN
  <2>1. NoDuplicates(events_requests')
    BY <1>7
  <2>2. CASE events_requests' = << >>
    <3>1. idle_sources' = 0 /\ events_request_pending' = FALSE
      BY <1>12, <2>2
    <3> QED
      BY <2>1, <2>2, <3>1 DEF IdleMatchesList
  <2>3. CASE events_requests' # << >>
    <3>1. idle_sources' = 1 /\ events_request_pending' = TRUE
      BY <1>12, <2>3
    <3> QED
      BY <2>1, <2>3, <3>1 DEF IdleMatchesList
  <2> QED
    BY <2>2, <2>3
<1>15. issued' \in 0..MaxRequests
  BY <1>3, <1>8
<1>16. lttvwindow_preempt_count' \in 0..1 /\ traceset' \in DOMAIN Tracesets
       /\ to_notify' \subseteq Viewers
  BY <1>1 DEF StateInv, TypeOK
<1> QED
  BY <1>7, <1>9, <1>11, <1>13, <1>14, <1>15, <1>16 DEF StateInv, TypeOK

LEMMA ProcessEmptyTracesetStep ==
  ASSUME StateInv, ProcessEmptyTraceset
  PROVE  StateInv'
<1>1. /\ SchedulerRuns /\ events_requests' = << >> /\ LeaveIdle(<< >>)
      /\ UNCHANGED <<lttvwindow_preempt_count, traceset, to_notify, req, issued>>
      /\ history' = [id \in Ids |->
                       IF id \in Listed
                       THEN [history[id] EXCEPT !.fate = "dropped",
                                                !.after = @ + (IF req[id].servicing THEN 1 ELSE 0)]
                       ELSE history[id]]
  BY DEF ProcessEmptyTraceset
<1>2. idle_sources' = 0 /\ events_request_pending' = FALSE
  BY <1>1, LeaveIdleLemma
<1>3. \A id \in Ids :
        /\ history'[id] \in History
        /\ id \in Listed => history'[id].fate = "dropped"
        /\ id \notin Listed => history'[id] = history[id]
  <2> TAKE id \in Ids
  <2>1. history[id] \in History
    BY DEF StateInv, TypeOK
  <2>2. CASE id \in Listed
    <3> DEFINE a == history[id].after + (IF req[id].servicing THEN 1 ELSE 0)
    <3>1. a \in Nat
      BY <2>1 DEF History
    <3>2. history'[id] = [history[id] EXCEPT !.fate = "dropped", !.after = a]
      BY <1>1, <2>2
    <3> HIDE DEF a
    <3> QED
      BY <2>1, <2>2, <3>1, <3>2 DEF History, Fates
  <2>3. CASE id \notin Listed
    BY <1>1, <2>1, <2>3
  <2> QED
    BY <2>2, <2>3
<1>4. events_requests' \in Seq(Ids) /\ Listed' = {}
  <2>1. << >> \in Seq(Ids) /\ Range(<< >>) = {}
    BY DEF Range
  <2> QED
    BY <1>1, <2>1 DEF Listed
<1>5. /\ Listed \subseteq Ids
      /\ \A id \in Ids : id \in Listed <=> history[id].fate = "listed"
      /\ \A id \in Ids : history[id].fate = "unmade" <=> id > issued
  BY DEF StateInv, ListInv
<1>6. ListInv'
  <2>1. \A id \in Ids : history'[id].fate # "listed"
    BY <1>3, <1>5
  <2>2. \A id \in Ids : history'[id].fate = "unmade" <=> id > issued'
    BY <1>1, <1>3, <1>5
  <2> QED
    BY <1>4, <2>1, <2>2 DEF ListInv
<1>7. history' \in [Ids -> History]
  BY <1>1, <1>3
<1>8. IdleMatchesList'
  <2>1. events_requests' = << >>
    BY <1>1
  <2>2. NoDuplicates(events_requests')
    BY <2>1 DEF NoDuplicates
  <2> QED
    BY <2>1, <2>2, <1>2 DEF IdleMatchesList
<1> QED
  BY <1>1, <1>2, <1>4, <1>6, <1>7, <1>8 DEF StateInv, TypeOK

\* The steps that leave the list, the requests and their histories alone.
LEMMA OtherSteps ==
  ASSUME StateInv,
         \/ GetEventsBegins \/ GetEventsEnds \/ ChangeTraceset \/ UNCHANGED vars
  PROVE  StateInv'
<1>1. UNCHANGED <<events_requests, events_request_pending, idle_sources, req, issued, history>>
  BY DEF GetEventsBegins, GetEventsEnds, ChangeTraceset, vars
<1>2. IdleMatchesList' /\ ListInv'
  BY <1>1 DEF StateInv, IdleMatchesList, ListInv, Listed
<1>3. lttvwindow_preempt_count' \in 0..1
  BY DEF GetEventsBegins, GetEventsEnds, ChangeTraceset, vars, StateInv, TypeOK
<1>4. traceset' \in DOMAIN Tracesets
  BY TracesetsAssumption
     DEF GetEventsBegins, GetEventsEnds, ChangeTraceset, vars, StateInv, TypeOK
<1>5. to_notify' \subseteq Viewers
  BY DEF GetEventsBegins, GetEventsEnds, ChangeTraceset, vars, StateInv, TypeOK
<1> QED
  BY <1>1, <1>2, <1>3, <1>4, <1>5 DEF StateInv, TypeOK

LEMMA NextStateInv == StateInv /\ [Next]_vars => StateInv'
<1> SUFFICES ASSUME StateInv, [Next]_vars PROVE StateInv'
  OBVIOUS
<1>1. CASE ProcessChunk
  BY <1>1, ProcessChunkStep
<1>2. CASE ProcessEmptyTraceset
  BY <1>2, ProcessEmptyTracesetStep
<1>3. ASSUME NEW r \in ApiRequests, RequestEvents(r) PROVE StateInv'
  BY <1>3, RequestEventsStep
<1>4. ASSUME NEW v \in Viewers, NEW w \in Windows, RedrawViewer(v, w) PROVE StateInv'
  BY <1>4, RedrawStep DEF RedrawViewer
<1>5. ASSUME NEW v \in Viewers, NEW w \in Windows, NotifyTraceset(v, w) PROVE StateInv'
  BY <1>5, RedrawStep DEF NotifyTraceset
<1>6. ASSUME NEW v \in Viewers, RemoveAll(v) PROVE StateInv'
  BY <1>6, RemoveAllStep
<1>7. CASE StopProcessing
  BY <1>7, StopProcessingStep
<1>8. CASE GetEventsBegins \/ GetEventsEnds \/ ChangeTraceset \/ UNCHANGED vars
  BY <1>8, OtherSteps
<1> QED
  BY <1>1, <1>2, <1>3, <1>4, <1>5, <1>6, <1>7, <1>8 DEF Next

LEMMA InitStateInv == Init => StateInv
<1> SUFFICES ASSUME Init PROVE StateInv
  OBVIOUS
<1>1. /\ events_requests = << >> /\ events_request_pending = FALSE /\ idle_sources = 0
      /\ lttvwindow_preempt_count = 0 /\ traceset = 1 /\ to_notify = {} /\ issued = 0
      /\ req = [id \in Ids |-> NoRequest] /\ history = [id \in Ids |-> NoHistory]
  BY DEF Init
<1>2. NoHistory \in History /\ NoHistory.fate = "unmade"
  BY NoRequestType, TracesetsAssumption DEF NoHistory, History, Fates
<1>3. req \in [Ids -> EventsRequest] /\ history \in [Ids -> History]
  BY <1>1, <1>2, NoRequestType
<1>4. 1 \in DOMAIN Tracesets
  BY TracesetsAssumption
<1>5. TypeOK
  <2>1. << >> \in Seq(Ids) /\ 0 \in 0..MaxRequests /\ 0 \in 0..1
    BY ConstantsAssumption
  <2> QED
    BY <1>1, <1>3, <1>4, <2>1 DEF TypeOK
<1>6. IdleMatchesList
  BY <1>1 DEF IdleMatchesList, NoDuplicates
<1>7. ListInv
  BY <1>1, <1>2 DEF ListInv, Listed, Range, Ids
<1> QED
  BY <1>5, <1>6, <1>7 DEF StateInv

-----------------------------------------------------------------------------
(* Every variable keeps its type, whatever the callbacks do: the structure *)
(* of EventsRequest keeps a natural number of events to ask for, in        *)
(* particular, although the scheduler subtracts from it.                   *)
THEOREM TypeCorrect == Spec => []TypeOK
<1>1. Init => StateInv
  BY InitStateInv
<1>2. StateInv /\ [Next]_vars => StateInv'
  BY NextStateInv
<1>3. StateInv => TypeOK
  BY DEF StateInv
<1> QED
  BY <1>1, <1>2, <1>3, PTL DEF Spec

\* The idle function that serves requests is registered once while there are
\* requests and not at all otherwise, so that it never meets an empty list and
\* no request is left without it.
THEOREM IdleSourceMatchesList == Spec => []IdleMatchesList
<1>1. Init => StateInv
  BY InitStateInv
<1>2. StateInv /\ [Next]_vars => StateInv'
  BY NextStateInv
<1>3. StateInv => IdleMatchesList
  BY DEF StateInv
<1> QED
  BY <1>1, <1>2, <1>3, PTL DEF Spec
=============================================================================
