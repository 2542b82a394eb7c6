--------------------------- MODULE EventsRequests ---------------------------
(***************************************************************************)
(* The foreground event scheduler of an LTTV tab                           *)
(* (lttv/modules/gui/lttvwindow): viewers append EventsRequests to the     *)
(* tab's list, and an idle function of the GLib main loop serves them one  *)
(* chunk of events at a time, so that several requests share one read of   *)
(* the traces.                                                             *)
(*                                                                         *)
(* The program has one thread.  A callback (an idle function, a button, a  *)
(* viewer's expose handler) runs to its end before the next one starts, so *)
(* each callback is one action here; what interleaves is the callbacks,    *)
(* between two chunks of the same request.                                 *)
(*                                                                         *)
(* A traceset is the sequence of its events in the order the traceset      *)
(* context reads them.  A position is an index in that sequence: the next  *)
(* event to read, or one past the last event at the end of the traceset    *)
(* (the current tracefile context is then NULL and its time infinite).     *)
(***************************************************************************)
EXTENDS GSList

CONSTANTS
  Viewers,            \* the owners of requests
  FollowUpViewers,    \* the viewers whose after_request hook asks for a second
                      \* pass over the traces (interrupts.c)
  Windows,            \* the time windows a viewer may draw: [start_time, end_time]
  ApiRequests,        \* requests made through the API, positions and counts included
  Tracesets,          \* the tab's successive tracesets: adding or removing a trace
                      \* moves to the next one
  MaxRequests,        \* bound: how many requests are ever made
  MaxAsked,           \* bound: no callback makes more, which leaves the rest to hooks
  CHUNK_NUM_EVENTS,   \* how many events a chunk reads at most
  ltt_time_infinite,  \* later than every event
  G_MAXUINT           \* num_events of a request that does not count events

NULL == 0             \* positions start at 1
ALL_TRACES == -1      \* the "unset" value of EventsRequest.trace

Ids == 1..MaxRequests
Times == 0..ltt_time_infinite

\* The fields of EventsRequest that the scheduler reads.  stop_flag is raised
\* by a hook in the middle of a chunk and its request freed at the end of the
\* same chunk, so it is a parameter of the chunk, below.
EventsRequest ==
  [owner : Viewers, servicing : BOOLEAN, trace : Int,
   start_time : Times, start_position : Nat,
   end_time : Times, end_position : Nat, num_events : 0..G_MAXUINT]

\* "Either start time or start position must be defined" (lttvwindow.h).
IsNewRequest(r) ==
  /\ r.servicing = FALSE
  /\ (r.start_position = NULL) <=> (r.start_time < ltt_time_infinite)

IsTraceset(ts) ==
  /\ ts.number \in Nat
  /\ ts.time \in Seq(0..(ltt_time_infinite - 1))
  /\ ts.trace \in Seq(0..(ts.number - 1))
  /\ Len(ts.trace) = Len(ts.time)
  /\ \A d, e \in 1..Len(ts.time) : d <= e => ts.time[d] <= ts.time[e]

ASSUME ConstantsAssumption ==
  /\ MaxRequests \in Nat
  /\ MaxAsked \in 0..MaxRequests
  /\ CHUNK_NUM_EVENTS \in Nat \ {0}
  /\ G_MAXUINT \in Nat
  /\ ltt_time_infinite \in Nat \ {0}
  /\ Viewers # {}

ASSUME RequestsAssumption ==
  /\ Windows \subseteq [start_time : 0..(ltt_time_infinite - 1), end_time : Times]
  /\ ApiRequests \subseteq EventsRequest
  /\ \A r \in ApiRequests : IsNewRequest(r)

ASSUME TracesetsAssumption ==
  /\ Tracesets # << >>
  /\ DOMAIN Tracesets = 1..Len(Tracesets)
  /\ Len(Tracesets) \in Nat
  /\ \A t \in DOMAIN Tracesets : IsTraceset(Tracesets[t])

VARIABLES
  events_requests,        \* tab->events_requests, the list of requests, by id
  events_request_pending, \* tab->events_request_pending
  idle_sources,           \* idle sources of the main loop that call the scheduler
  lttvwindow_preempt_count, \* detailedevents is reading the traceset itself
  traceset,               \* which of Tracesets the tab shows
  to_notify,              \* viewers whose traceset_notify hook is still to be called
  req,                    \* the EventsRequest structure of each id
  issued,                 \* how many requests were made
  history                 \* what each request asked and what was done for it

vars == <<events_requests, events_request_pending, idle_sources,
          lttvwindow_preempt_count, traceset, to_notify, req, issued, history>>

-----------------------------------------------------------------------------
(* The traceset.                                                           *)

TimeOf(ts, p) == IF p <= Len(ts.time) THEN ts.time[p] ELSE ltt_time_infinite
EndOf(ts) == Len(ts.time) + 1

\* The first event at or after time t, where lttv_process_traceset_seek_time
\* stops.
SeekTime(ts, t) ==
  CHOOSE p \in 1..EndOf(ts) : /\ TimeOf(ts, p) >= t
                              /\ \A q \in 1..(p - 1) : TimeOf(ts, q) < t

\* Where a request starts.
StartOf(ts, r) ==
  IF r.start_position # NULL THEN r.start_position ELSE SeekTime(ts, r.start_time)

current == Tracesets[traceset]
Time(p) == TimeOf(current, p)
End == EndOf(current)
Positions == 1..End

\* The event at position e is one that request r is about.
IsAbout(ts, r, e) == r.trace = ALL_TRACES \/ r.trace = ts.trace[e]

-----------------------------------------------------------------------------
(* The list and the idle source.                                           *)

Fates == {"unmade", "listed", "finished", "stopped", "dropped"}

NoRequest == [owner |-> CHOOSE v \in Viewers : TRUE, servicing |-> FALSE,
              trace |-> ALL_TRACES, start_time |-> 0, start_position |-> NULL,
              end_time |-> 0, end_position |-> NULL, num_events |-> 0]

\* asked: the request as it was made; traceset: the tab's traceset then;
\* before, after: calls of its before_request and after_request hooks;
\* got: how many times each event was delivered to it.
NoHistory == [asked |-> NoRequest, traceset |-> 0, before |-> 0, after |-> 0,
              fate |-> "unmade", got |-> << >>]

History ==
  [asked : EventsRequest, traceset : 0..Len(Tracesets), before : Nat, after : Nat,
   fate : Fates, got : Seq(Nat)]

NewHistory(r) == [asked |-> r, traceset |-> traceset, before |-> 0, after |-> 0,
                  fate |-> "listed", got |-> [e \in 1..(End - 1) |-> 0]]

Listed == Range(events_requests)

\* The ids of the requests news, a sequence, and the structures made for them.
NewIds(news) == [k \in 1..Len(news) |-> issued + k]
IsNew(id, news) == id \in (issued + 1)..(issued + Len(news))

\* lttvwindow_events_request adds the idle source unless one is pending.
AddIdle ==
  /\ idle_sources' = IF events_request_pending THEN idle_sources ELSE idle_sources + 1
  /\ events_request_pending' = TRUE

\* The request lttvwindow_events_request_remove_all(viewer) removes:
\* g_slist_remove_link clears the removed link's next, so the loop over the
\* list ends after the first match.
RemovedByRemoveAll(viewer) ==
  {id \in Listed : IsFirstOf(id, {i \in Listed : req[i].owner = viewer}, events_requests)}

-----------------------------------------------------------------------------
(* The chunk.                                                              *)

\* 1.1.1 The requests with the lowest start time.
ltime == {r \in Listed : \A s \in Listed : req[r].start_time <= req[s].start_time}

\* 1.1.2 The position requests with the lowest position; only the first
\* request when that is a time request, which no other is compared with.
lpos ==
  IF req[events_requests[1]].start_position = NULL
  THEN {events_requests[1]}
  ELSE {r \in Listed : /\ req[r].start_position # NULL
                       /\ \A s \in Listed : req[s].start_position # NULL =>
                            req[r].start_position <= req[s].start_position}

\* 1.1.3 The position requests come first when their time is lower.
PositionsFirst ==
  \E p \in lpos : /\ req[p].start_position # NULL
                  /\ \E t \in ltime : Time(req[p].start_position) < req[t].start_time

list_in == IF PositionsFirst THEN lpos ELSE ltime
list_out == Listed \ list_in

\* 3. The read stops at position p: an end time of list_in, a start time of
\* list_out, a number of events, or the lowest of the end positions.  The
\* latter is looked for only if the first request of list_in has one, and
\* among the end positions of both lists.
HasEnd(r) == req[r].end_position # NULL

ReadStopsAt(first, from, p) ==
  \/ p = End
  \/ \E r \in list_in : \/ Time(p) >= req[r].end_time
                        \/ p - from >= req[r].num_events
  \/ \E r \in list_out : Time(p) >= req[r].start_time
  \/ p - from >= CHUNK_NUM_EVENTS
  \/ /\ HasEnd(first)
     /\ \E r \in Listed : /\ HasEnd(r)
                          /\ p = req[r].end_position
                          /\ \A s \in Listed : HasEnd(s) => p <= req[s].end_position

\* 4. lttv_process_traceset_middle reads from one position to the other.  The
\* requests of stoppers set their stop_flag and return TRUE from the hook of
\* the last event read, which ends the read.
Reads(first, from, to, stoppers) ==
  /\ to \in from..End
  /\ \A p \in from..(to - 1) : ~ReadStopsAt(first, from, p)
  /\ IF stoppers = {} THEN ReadStopsAt(first, from, to)
                      ELSE /\ to > from
                           /\ \A r \in stoppers : IsAbout(current, req[r], to - 1)

\* 5. The requests of list_in that the chunk ends.
Finished(from, to) ==
  {r \in list_in : \/ to = End
                   \/ req[r].num_events = to - from
                   \/ Time(to) >= req[r].end_time
                   \/ to = req[r].end_position}

\* Mutant: the position is saved only the first time.
InterruptedOnce(r, from, to) ==
  [r EXCEPT !.servicing = TRUE,
            !.start_position = IF @ = NULL THEN to ELSE @,
            !.start_time = ltt_time_infinite, !.num_events = @ - (to - from)]

\* Mutant: the request is not marked as being served.
InterruptedUnmarked(r, from, to) ==
  [r EXCEPT !.start_position = to,
            !.start_time = ltt_time_infinite, !.num_events = @ - (to - from)]

\* B. What is left of a request interrupted between two chunks.
Interrupted(r, from, to) ==
  [r EXCEPT !.servicing = TRUE, !.start_position = to,
            !.start_time = ltt_time_infinite, !.num_events = @ - (to - from)]

\* One request per trace of the traceset for the window w: what every viewer
\* that draws asks for.
PerTrace(viewer, w) ==
  [k \in 1..current.number |->
     [owner |-> viewer, servicing |-> FALSE, trace |-> k - 1,
      start_time |-> w.start_time, start_position |-> NULL,
      end_time |-> w.end_time, end_position |-> NULL, num_events |-> G_MAXUINT]]

\* A second pass in the window of its viewer for each of the requests firsts, in
\* their order in the list.
SecondPasses(firsts, window) ==
  LET order == Keep(events_requests, firsts)
  IN [k \in 1..(Len(order) * current.number) |->
        LET viewer == req[order[((k - 1) \div current.number) + 1]].owner
        IN PerTrace(viewer, window[viewer])[((k - 1) % current.number) + 1]]

\* What the after_request hooks of the requests done may append to the list
\* in the middle of the scheduler: each a second pass, or nothing if it ends
\* the second pass itself.
FollowUps(done) ==
  {SecondPasses(firsts, window) :
     firsts \in SUBSET {id \in done : req[id].owner \in FollowUpViewers},
     window \in [Viewers -> Windows]}

Delivered(h, r, from, to) ==
  [e \in DOMAIN h |-> IF e \in from..(to - 1) /\ IsAbout(current, r, e)
                      THEN h[e] + 1 ELSE h[e]]

HistoryAfterChunk(id, from, to, stoppers) ==
  LET done == Finished(from, to) \cup stoppers
  IN [history[id] EXCEPT
        !.before = @ + (IF req[id].servicing THEN 0 ELSE 1),
        !.after = @ + (IF id \in done THEN 1 ELSE 0),
        !.fate = IF id \in Finished(from, to) THEN "finished"
                 ELSE IF id \in stoppers THEN "stopped" ELSE @,
        !.got = Delivered(@, req[id], from, to)]

\* The scheduler runs: its idle source is there and no viewer reads the
\* traceset itself.  An empty list fails an assertion of the code.
SchedulerRuns ==
  /\ idle_sources > 0
  /\ lttvwindow_preempt_count = 0
  /\ to_notify = {}
  /\ events_requests # << >>

\* Mutant: the pending flag is not put back to normal.
LeaveIdlePending(list) ==
  IF list = << >> THEN idle_sources' = idle_sources - 1 /\ UNCHANGED events_request_pending
                  ELSE UNCHANGED <<idle_sources, events_request_pending>>

\* Mutant: the idle function is called once.
LeaveIdleOnce(list) == idle_sources' = idle_sources - 1 /\ UNCHANGED events_request_pending

\* The idle function stays registered as long as requests are left.
LeaveIdle(list) ==
  IF list = << >> THEN idle_sources' = idle_sources - 1 /\ events_request_pending' = FALSE
                  ELSE UNCHANGED <<idle_sources, events_request_pending>>

\* The end of a chunk read from one position to the other: the requests done
\* leave the list, the others of list_in go behind list_out and behind what
\* the hooks appended meanwhile.
ServeChunk(from, to, stoppers, news) ==
  LET done == Finished(from, to) \cup stoppers
  IN /\ issued + Len(news) <= MaxRequests
     /\ issued' = issued + Len(news)
     /\ events_requests' = (Keep(events_requests, list_out) \o NewIds(news))
                             \o Keep(events_requests, list_in \ done)
     /\ req' = [id \in Ids |->
                  IF IsNew(id, news) THEN news[id - issued]
                  ELSE IF id \in list_in \ done THEN Interrupted(req[id], from, to)
                  ELSE req[id]]
     /\ history' = [id \in Ids |->
                      IF IsNew(id, news) THEN NewHistory(news[id - issued])
                      ELSE IF id \in list_in THEN HistoryAfterChunk(id, from, to, stoppers)
                      ELSE history[id]]
     /\ LeaveIdle(events_requests')

\* lttvwindow_process_pending_requests on a traceset that has traces.  A
\* request about a trace that is not there fails an assertion.
ProcessChunk ==
  /\ SchedulerRuns
  /\ current.number > 0
  /\ \A r \in list_in : req[r].trace < current.number
  /\ \E first \in list_in, from \in Positions :
       /\ IsFirstOf(first, list_in, events_requests)
       /\ from = StartOf(current, req[first])
       /\ \E to \in Positions, stoppers \in SUBSET list_in :
            /\ Reads(first, from, to, stoppers)
            /\ \E news \in FollowUps(Finished(from, to) \cup stoppers) :
                 ServeChunk(from, to, stoppers, news)
  /\ UNCHANGED <<lttvwindow_preempt_count, traceset, to_notify>>

\* The same function on an empty traceset drops every request, and calls
\* after_request for those being served.
ProcessEmptyTraceset ==
  /\ SchedulerRuns
  /\ current.number = 0
  /\ events_requests' = << >>
  /\ history' = [id \in Ids |->
                   IF id \in Listed
                   THEN [history[id] EXCEPT !.fate = "dropped",
                                            !.after = @ + (IF req[id].servicing THEN 1 ELSE 0)]
                   ELSE history[id]]
  /\ LeaveIdle(<< >>)
  /\ UNCHANGED <<lttvwindow_preempt_count, traceset, to_notify, req, issued>>

-----------------------------------------------------------------------------
(* The callbacks of the viewers and of the window.                         *)

\* The list, the structures and the histories after the requests of removed
\* are freed and those of news appended.
Replace(removed, news) ==
  /\ issued + Len(news) <= MaxAsked
  /\ issued' = issued + Len(news)
  /\ events_requests' = Keep(events_requests, Listed \ removed) \o NewIds(news)
  /\ req' = [id \in Ids |-> IF IsNew(id, news) THEN news[id - issued] ELSE req[id]]
  /\ history' = [id \in Ids |->
                   IF IsNew(id, news) THEN NewHistory(news[id - issued])
                   ELSE IF id \in removed THEN [history[id] EXCEPT !.fate = "dropped"]
                   ELSE history[id]]

\* A list left empty loses its pending flag and one idle source
\* (g_idle_remove_by_data); the first append after that sets them again.
IdleAfter(removed, news) ==
  LET emptied == Listed \ removed = {}
      pending == events_request_pending /\ ~emptied
      sources == IF emptied /\ idle_sources > 0 THEN idle_sources - 1 ELSE idle_sources
  IN /\ events_request_pending' = (pending \/ news # << >>)
     /\ idle_sources' = IF news # << >> /\ ~pending THEN sources + 1 ELSE sources

\* lttvwindow_events_request, called by anyone.
RequestEvents(r) ==
  /\ to_notify = {}
  /\ r.start_position <= End
  /\ Replace({}, <<r>>)
  /\ AddIdle
  /\ UNCHANGED <<lttvwindow_preempt_count, traceset, to_notify>>

\* A viewer draws the window w: it removes its requests and makes new ones.
Redraw(viewer, w) ==
  /\ lttvwindow_preempt_count = 0
  /\ Replace(RemovedByRemoveAll(viewer), PerTrace(viewer, w))
  /\ IdleAfter(RemovedByRemoveAll(viewer), PerTrace(viewer, w))
  /\ UNCHANGED <<lttvwindow_preempt_count, traceset>>

RedrawViewer(viewer, w) == to_notify = {} /\ Redraw(viewer, w) /\ UNCHANGED to_notify

\* A viewer is destroyed.
RemoveAll(viewer) ==
  /\ to_notify = {}
  /\ lttvwindow_preempt_count = 0
  /\ Replace(RemovedByRemoveAll(viewer), << >>)
  /\ IdleAfter(RemovedByRemoveAll(viewer), << >>)
  /\ UNCHANGED <<lttvwindow_preempt_count, traceset, to_notify>>

\* The stop button; detailedevents handles it while it reads as well.
StopProcessing ==
  /\ to_notify = {}
  /\ Replace(Listed, << >>)
  /\ IdleAfter(Listed, << >>)
  /\ UNCHANGED <<lttvwindow_preempt_count, traceset, to_notify>>

\* detailedevents reads the traceset itself and lets no other request be
\* served meanwhile.
GetEventsBegins ==
  /\ to_notify = {}
  /\ lttvwindow_preempt_count = 0
  /\ lttvwindow_preempt_count' = 1
  /\ UNCHANGED <<events_requests, events_request_pending, idle_sources, traceset,
                 to_notify, req, issued, history>>

GetEventsEnds ==
  /\ lttvwindow_preempt_count > 0
  /\ lttvwindow_preempt_count' = lttvwindow_preempt_count - 1
  /\ UNCHANGED <<events_requests, events_request_pending, idle_sources, traceset,
                 to_notify, req, issued, history>>

\* A trace is added or removed: the context is made anew, and the hooks
\* through which viewers learn of it called, which redraw every viewer
\* (updatetraceset and, by time_change_manager, updatetimewindow).  Bound:
\* enough requests are left for them.
ChangeTraceset ==
  /\ to_notify = {}
  /\ lttvwindow_preempt_count = 0
  /\ traceset < Len(Tracesets)
  /\ issued + Cardinality(Viewers) * Tracesets[traceset + 1].number <= MaxAsked
  /\ traceset' = traceset + 1
  /\ to_notify' = Viewers
  /\ UNCHANGED <<events_requests, events_request_pending, idle_sources,
                 lttvwindow_preempt_count, req, issued, history>>

NotifyTraceset(viewer, w) ==
  /\ viewer \in to_notify
  /\ Redraw(viewer, w)
  /\ to_notify' = to_notify \ {viewer}

-----------------------------------------------------------------------------
Init ==
  /\ events_requests = << >>
  /\ events_request_pending = FALSE
  /\ idle_sources = 0
  /\ lttvwindow_preempt_count = 0
  /\ traceset = 1
  /\ to_notify = {}
  /\ req = [id \in Ids |-> NoRequest]
  /\ issued = 0
  /\ history = [id \in Ids |-> NoHistory]

Next ==
  \/ ProcessChunk
  \/ ProcessEmptyTraceset
  \/ \E r \in ApiRequests : RequestEvents(r)
  \/ \E v \in Viewers, w \in Windows : RedrawViewer(v, w) \/ NotifyTraceset(v, w)
  \/ \E v \in Viewers : RemoveAll(v)
  \/ StopProcessing
  \/ GetEventsBegins
  \/ GetEventsEnds
  \/ ChangeTraceset

Spec == Init /\ [][Next]_vars

-----------------------------------------------------------------------------
(* Properties.                                                             *)

TypeOK ==
  /\ events_requests \in Seq(Ids)
  /\ events_request_pending \in BOOLEAN
  /\ idle_sources \in Nat
  /\ lttvwindow_preempt_count \in 0..1
  /\ traceset \in DOMAIN Tracesets
  /\ to_notify \subseteq Viewers
  /\ req \in [Ids -> EventsRequest]
  /\ issued \in 0..MaxRequests
  /\ history \in [Ids -> History]

\* The scheduler's idle source is registered, once, exactly while the list
\* holds a request, and the list holds no request twice: the idle function
\* never meets the empty list its assertion excludes (callbacks.c:1006), and
\* no request waits without a source to serve it, whatever callbacks emptied
\* or refilled the list in between.
IdleMatchesList ==
  /\ NoDuplicates(events_requests)
  /\ IF events_requests = << >>
     THEN idle_sources = 0 /\ ~events_request_pending
     ELSE idle_sources = 1 /\ events_request_pending

\* The events a request asks for: those of its trace from its start to the
\* first of its end time, its end position and its number of events.
Wanted(id) ==
  LET h == history[id]
      ts == Tracesets[h.traceset]
      s == StartOf(ts, h.asked)
  IN {e \in 1..Len(ts.time) :
        /\ IsAbout(ts, h.asked, e)
        /\ s <= e
        /\ ts.time[e] < h.asked.end_time
        /\ h.asked.end_position # NULL => e < h.asked.end_position
        /\ e - s < h.asked.num_events}

\* before_request is called once, before the first event, even when the
\* request is served in several chunks or starts again from a position;
\* after_request at most once, and always for a request that ran to its end.
HooksBracketDelivery ==
  \A id \in Ids :
    LET h == history[id] IN
    /\ h.before \in 0..1
    /\ h.after <= h.before
    /\ h.fate \in {"finished", "stopped"} => h.after = 1
    /\ h.fate = "listed" => h.after = 0
    /\ \A e \in DOMAIN h.got : h.got[e] # 0 => h.before = 1

-----------------------------------------------------------------------------
(* What every request is promised (EventDelivery), and what the main loop  *)
(* has to do for it.                                                       *)

Delivery == INSTANCE EventDelivery WITH
  Events <- 1..(EndOf(Tracesets[Len(Tracesets)]) - 1),
  wanted <- [id \in Ids |-> IF history[id].fate = "unmade" THEN {} ELSE Wanted(id)],
  delivered <- [id \in Ids |->
                  {e \in DOMAIN history[id].got : history[id].got[e] = 1}],
  phase <- [id \in Ids |->
              CASE history[id].fate = "unmade" -> "unmade"
                [] history[id].fate = "listed" -> "waiting"
                [] history[id].fate = "finished" -> "ended"
                [] OTHER -> "withdrawn"]

\* "All events requested, and only them, will be delivered" (lttvwindow.h): the
\* scheduler implements the promise made to each request, whatever chunks it was
\* cut into and whatever requests shared them.
ImplementsDelivery == Delivery!Spec

\* The main loop comes back to its idle sources whatever the user does in
\* between (strong fairness: a reading detailedevents viewer takes the idle
\* function's turn, again and again if the user scrolls, but always gives it
\* back), and a hook that was called returns, as does SetTraceset.
Fairness ==
  /\ SF_vars(ProcessChunk \/ ProcessEmptyTraceset)
  /\ WF_vars(GetEventsEnds)
  /\ WF_vars(\E v \in Viewers, w \in Windows : NotifyTraceset(v, w))

FairSpec == Spec /\ Fairness

\* Every request leaves the list: no end criterion is missed, and requests
\* that start where others stand do not keep each other waiting.  Of a bounded
\* number of requests each does if, again and again, none is left.
EventuallyServed == []<>(\A id \in Ids : history[id].fate # "listed")
=============================================================================
