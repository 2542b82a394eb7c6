----------------------- MODULE BackgroundComputation -----------------------
(***************************************************************************)
(* The background scheduler of LTTV (lttvwindowtraces.c): what the "state" *)
(* and "stats" modules compute over a whole trace is computed once per     *)
(* trace, by an idle function of the main loop that reads it chunk by      *)
(* chunk, and the viewers that wait for it are notified.                   *)
(*                                                                         *)
(* Each callback of the main loop is one action.  SetTraceset is the       *)
(* exception: its loops over the traces to open again and over the viewers *)
(* to notify are cut into steps, and nothing else runs until they end.     *)
(*                                                                         *)
(* Left out: lttvwindow_preempt_count, which only delays the idle function *)
(* as not taking its action does, and the trace lock, taken and released   *)
(* within one callback.                                                    *)
(***************************************************************************)
EXTENDS GSList

CONSTANTS
  Traces,
  Tabs,
  Viewers,
  module,        \* what each viewer needs: "state" or "stats"
  tab,           \* the tab each viewer is in
  Events,        \* how many events each trace has
  has_precomputed_states, \* the traces whose states were read from a file
  InitialTraceset, \* the traces every tab shows at first
  RemovableTraces, \* the traces users remove
  MaxChanges,    \* bound: how often tracesets change, without and with optionSync
  CHUNK_NUM_EVENTS

Modules == {"state", "stats"}

ASSUME BackgroundAssumption ==
  /\ module \in [Viewers -> Modules]
  /\ tab \in [Viewers -> Tabs]
  /\ Events \in [Traces -> Nat]
  /\ InitialTraceset \in Seq(Traces)
  /\ NoDuplicates(InitialTraceset)
  /\ RemovableTraces \subseteq Traces
  /\ MaxChanges \in [BOOLEAN -> Nat]
  /\ CHUNK_NUM_EVENTS \in Nat \ {0}
  /\ IsFiniteSet(Traces)

VARIABLES
  optionSync,        \* traces are synchronized, thus opened again, with each traceset
  traces,            \* the global attribute "traces": those open, in its order
  traceset,          \* the traces of each tab
  opened,            \* the viewers that exist
  idle_sources,      \* the traces with an idle source that calls the scheduler
  requests_queue,    \* modules to compute next, per trace
  requests_current,  \* modules being computed
  notify_queue,      \* notifications each viewer waits for with requests_queue
  notify_current,    \* and with requests_current
  in_progress,       \* modules flagged in progress, per trace
  ready,             \* modules flagged ready
  position,          \* events the computation context of the trace has read
  computed,          \* events each module has seen of them
  stopped,           \* traces that lost their source with another trace (history)
  background_info_waiting, \* each viewer's count of notifications to come
  asked,             \* the traces whose data a viewer wants (history)
  drawn,             \* its last drawing had all of it (history)
  miscounted,        \* viewers that count other notifications than wait (history)
  to_reopen,         \* traces SetTraceset still has to open again
  to_notify,         \* viewers it still has to notify
  changes            \* how often tracesets changed

scheduling == <<idle_sources, requests_queue, requests_current, in_progress, ready,
                position, computed, stopped>>
viewing == <<notify_queue, notify_current, background_info_waiting, asked, drawn,
             miscounted>>
tracesets == <<optionSync, traces, traceset, to_reopen, to_notify, changes>>
vars == <<scheduling, viewing, tracesets, opened>>

MainLoop == to_reopen = << >> /\ to_notify = {}

None(t) == [v \in Viewers |-> 0]
NoComputation == [m \in Modules |-> 0]

Available(m, t) ==
  m \in ready[t] \/ (m = "state" /\ t \in has_precomputed_states)

-----------------------------------------------------------------------------
(* A viewer asks: request_background_data.                                 *)

\* The statistics viewer looks at every trace, the others at their tab's.
LookedAt(v) == IF module[v] = "stats" THEN Range(traces) ELSE Range(traceset[tab[v]])

Missing(v) == {t \in LookedAt(v) : ~Available(module[v], t)}

\* Mutant: a request that waits is taken for one that is served.
RequestedOrInProgress(v) ==
  {t \in Missing(v) : module[v] \in in_progress[t] \cup Range(requests_queue[t])}

\* Traces that are already being computed for the viewer's module.
AskedInProgress(v) == {t \in Missing(v) : module[v] \in in_progress[t]}

\* Mutant: the viewer does not look for a request made by another.
EveryMissing(v) == Missing(v) \ AskedInProgress(v)

\* Traces that nobody has asked the module to compute.
Unrequested(v) ==
  {t \in Missing(v) \ AskedInProgress(v) : module[v] \notin Range(requests_queue[t])}

Plus(notify, v, T) ==
  [t \in Traces |-> IF t \in T THEN [notify[t] EXCEPT ![v] = @ + 1] ELSE notify[t]]

\* The traces where it waits for a notification.
Pending(v) == {t \in Traces : notify_queue[t][v] > 0 \/ notify_current[t][v] > 0}

\* Notifications it still waits for are counted no more when it asks again.
\* A state viewer redraws with what is there; the statistics viewer has only
\* something to show if nothing is missing.
RequestBackgroundData(v) ==
  /\ requests_queue' = [t \in Traces |->
       IF t \in Unrequested(v) THEN Append(requests_queue[t], module[v])
                               ELSE requests_queue[t]]
  /\ idle_sources' = idle_sources \cup Unrequested(v)
  /\ notify_queue' = Plus(notify_queue, v, Missing(v) \ AskedInProgress(v))
  /\ notify_current' = Plus(notify_current, v, AskedInProgress(v))
  /\ background_info_waiting' =
       [background_info_waiting EXCEPT ![v] = Cardinality(Missing(v))]
  /\ asked' = [asked EXCEPT ![v] = LookedAt(v)]
  /\ drawn' = [drawn EXCEPT ![v] = (Missing(v) = {})]
  /\ miscounted' = IF Pending(v) = {} THEN miscounted \ {v} ELSE miscounted \cup {v}
  /\ stopped' = stopped \ Unrequested(v)
  /\ UNCHANGED <<requests_current, in_progress, ready, position, computed>>

CreateViewer(v) ==
  /\ MainLoop
  /\ v \notin opened
  /\ opened' = opened \cup {v}
  /\ RequestBackgroundData(v)
  /\ UNCHANGED tracesets

NotificationsWithout(notify, gone) ==
  [t \in Traces |-> [v \in Viewers |->
     IF v \in gone /\ t \in Range(traces) THEN 0 ELSE notify[t][v]]]

\* lttvwindowtraces_background_notify_remove, for each viewer destroyed.
Destroy(gone) ==
  /\ opened' = opened \ gone
  /\ notify_queue' = NotificationsWithout(notify_queue, gone)
  /\ notify_current' = NotificationsWithout(notify_current, gone)
  /\ background_info_waiting' =
       [v \in Viewers |-> IF v \in gone THEN 0 ELSE background_info_waiting[v]]
  /\ asked' = [v \in Viewers |-> IF v \in gone THEN {} ELSE asked[v]]
  /\ drawn' = [v \in Viewers |-> IF v \in gone THEN FALSE ELSE drawn[v]]
  /\ miscounted' = miscounted \ gone
  /\ UNCHANGED scheduling

DestroyViewer(v) ==
  /\ MainLoop
  /\ v \in opened
  /\ Destroy({v})
  /\ UNCHANGED tracesets

-----------------------------------------------------------------------------
(* The scheduler: lttvwindowtraces_process_pending_requests.               *)

Starting(t) == requests_current[t] = << >>

\* Mutant: requests join the computation of others that has begun.
JoinedRound(t) == requests_current[t] \o requests_queue[t]

\* What this chunk computes: requests wait for the end of those being served.
Round(t) == IF Starting(t) THEN requests_queue[t] ELSE requests_current[t]

\* The requests and notifications still waiting after that.
Requested(t) == IF Starting(t) THEN << >> ELSE requests_queue[t]

From(t) == IF Starting(t) THEN 0 ELSE position[t]

To(t) == IF From(t) + CHUNK_NUM_EVENTS < Events[t] THEN From(t) + CHUNK_NUM_EVENTS
                                                  ELSE Events[t]
EndOfTrace(t) == To(t) = Events[t]

\* Who is notified at the end of the trace, and how often.
Notified(t) ==
  [v \in Viewers |-> notify_current[t][v] + (IF Starting(t) THEN notify_queue[t][v] ELSE 0)]

\* Mutant: it is redrawn one notification too early.
RedrawsEarly(v, n) == background_info_waiting[v] \in 2..(n + 1)

\* background_ready decrements the count and redraws when it is zero then.
Redraws(v, n) == background_info_waiting[v] \in 1..n

\* Mutant: the flag stays.
StillInProgress(t) == in_progress[t] \cup Range(Round(t))

InProgressAfter(t) ==
  IF EndOfTrace(t) THEN in_progress[t] \ Range(Round(t))
                   ELSE in_progress[t] \cup Range(Round(t))

\* Mutant: the source is removed at the end of the trace, whatever waits.
AlwaysStops(t) == EndOfTrace(t)

\* The idle function returns FALSE.
Stops(t) == EndOfTrace(t) /\ Requested(t) = << >>

ProcessPendingRequests(t) ==
  /\ MainLoop
  /\ t \in idle_sources
  /\ Round(t) # << >>
  /\ requests_queue' = [requests_queue EXCEPT ![t] = Requested(t)]
  /\ requests_current' =
       [requests_current EXCEPT ![t] = IF EndOfTrace(t) THEN << >> ELSE Round(t)]
  /\ in_progress' = [in_progress EXCEPT ![t] = InProgressAfter(t)]
  /\ ready' = [ready EXCEPT ![t] = IF EndOfTrace(t) THEN @ \cup Range(Round(t)) ELSE @]
  /\ position' = [position EXCEPT ![t] = IF EndOfTrace(t) THEN 0 ELSE To(t)]
  /\ computed' = [computed EXCEPT ![t] =
       [m \in Modules |-> IF m \notin Range(Round(t)) THEN @[m]
                          ELSE (IF Starting(t) THEN 0 ELSE @[m]) + (To(t) - From(t))]]
  /\ notify_queue' = [notify_queue EXCEPT ![t] = IF Starting(t) THEN None(t) ELSE @]
  /\ notify_current' = [notify_current EXCEPT ![t] = IF EndOfTrace(t) THEN None(t)
                                                                     ELSE Notified(t)]
  /\ IF EndOfTrace(t)
     THEN /\ background_info_waiting' = [v \in Viewers |->
               background_info_waiting[v] - Notified(t)[v]]
          /\ drawn' = [v \in Viewers |->
               IF Redraws(v, Notified(t)[v])
               THEN \A u \in asked[v] : module[v] \in ready'[u] \/ Available(module[v], u)
               ELSE drawn[v]]
     ELSE UNCHANGED <<background_info_waiting, drawn>>
  /\ idle_sources' = IF Stops(t) THEN idle_sources \ {t} ELSE idle_sources
  /\ UNCHANGED <<asked, miscounted, stopped, tracesets, opened>>

-----------------------------------------------------------------------------
(* Traces come and go.                                                     *)

SetTraceset(b) ==
  /\ to_reopen' = IF optionSync THEN traceset'[b] ELSE << >>
  /\ to_notify' = {v \in opened : tab[v] = b}

Change ==
  /\ MainLoop
  /\ changes < MaxChanges[optionSync]
  /\ changes' = changes + 1
  /\ UNCHANGED optionSync

\* add_trace, of a trace that is open in the program or not: one the tab shows
\* already is not added, but its viewers are notified.
AddTrace(b, t) ==
  /\ Change
  /\ traces' = IF t \in Range(traces) THEN traces ELSE Append(traces, t)
  /\ traceset' = IF t \in Range(traceset[b]) THEN traceset
                 ELSE [traceset EXCEPT ![b] = Append(@, t)]
  /\ SetTraceset(b)
  /\ UNCHANGED <<scheduling, viewing, opened>>

\* add_trace, of a trace that cannot be opened.
FailToAdd(b) ==
  /\ Change
  /\ UNCHANGED <<traces, traceset, scheduling, viewing, opened>>
  /\ SetTraceset(b)

\* g_array_remove_index_fast: the last element takes the place.
RemoveFast(list, i) ==
  [k \in 1..(Len(list) - 1) |-> IF k = i THEN list[Len(list)] ELSE list[k]]

\* Mutant: only the sources of the traces before it.
SourcesBefore(i) == {traces[k] : k \in 1..(i - 1)}

\* The sources lttvwindowtraces_remove_trace removes: the loop that looks for
\* the trace in the global attribute removes that of each trace it looks at.
SourcesRemoved(i) == {traces[k] : k \in 1..i}

\* lttvwindowtraces_remove_trace: the requests and notifications are gone
\* with their attributes.
ForgetRequests(t) ==
  /\ idle_sources' =
       idle_sources \ UNION {SourcesRemoved(i) : i \in {k \in DOMAIN traces : traces[k] = t}}
  /\ requests_queue' = [requests_queue EXCEPT ![t] = << >>]
  /\ requests_current' = [requests_current EXCEPT ![t] = << >>]
  /\ notify_queue' = [notify_queue EXCEPT ![t] = None(t)]
  /\ notify_current' = [notify_current EXCEPT ![t] = None(t)]
  /\ position' = [position EXCEPT ![t] = 0]
  /\ stopped' = (stopped \cup (idle_sources \ idle_sources')) \ {t}
  /\ miscounted' = miscounted \cup {v \in Viewers : t \in Pending(v)}

\* remove_trace: a trace that no other tab shows is closed.
RemoveTrace(b, t) ==
  /\ Change
  /\ t \in Range(traceset[b])
  /\ traceset' = [traceset EXCEPT ![b] = Keep(@, Range(@) \ {t})]
  /\ IF \E other \in Tabs \ {b} : t \in Range(traceset[other])
     THEN UNCHANGED <<traces, scheduling, viewing>>
     ELSE /\ traces' = RemoveFast(traces, CHOOSE i \in DOMAIN traces : traces[i] = t)
          /\ ForgetRequests(t)
          /\ in_progress' = [in_progress EXCEPT ![t] = {}]
          /\ ready' = [ready EXCEPT ![t] = {}]
          /\ computed' = [computed EXCEPT ![t] = NoComputation]
          /\ asked' = [v \in Viewers |-> asked[v] \ {t}]
          /\ UNCHANGED <<background_info_waiting, drawn>>
  /\ SetTraceset(b)
  /\ UNCHANGED opened

\* SetTraceset opens the traces again after they were synchronized: their
\* flags stay, with the attributes of the trace itself.
ReopenTrace ==
  /\ to_reopen # << >>
  /\ to_reopen' = Tail(to_reopen)
  /\ LET t == Head(to_reopen) IN
     /\ traces' = Append(RemoveFast(traces, CHOOSE i \in DOMAIN traces : traces[i] = t), t)
     /\ ForgetRequests(t)
  /\ UNCHANGED <<optionSync, traceset, to_notify, changes, in_progress, ready, computed,
                 background_info_waiting, asked, drawn, opened>>

\* The traceset_notify hook of a viewer.
NotifyViewer(v) ==
  /\ to_reopen = << >>
  /\ v \in to_notify
  /\ to_notify' = to_notify \ {v}
  /\ RequestBackgroundData(v)
  /\ UNCHANGED <<optionSync, traces, traceset, to_reopen, changes, opened>>

\* The tab and its viewers are gone; its traces stay open in the program.
CloseTab(b) ==
  /\ Change
  /\ traceset' = [traceset EXCEPT ![b] = << >>]
  /\ Destroy({v \in opened : tab[v] = b})
  /\ UNCHANGED <<traces, to_reopen, to_notify>>

-----------------------------------------------------------------------------
\* The traces named on the command line are open, in tabs without viewers, and
\* SetTraceset is called for them (create_main_window_with_trace_list).
Init ==
  /\ optionSync \in BOOLEAN
  /\ traces = InitialTraceset
  /\ traceset = [b \in Tabs |-> InitialTraceset]
  /\ opened = {}
  /\ idle_sources = {}
  /\ requests_queue = [t \in Traces |-> << >>]
  /\ requests_current = [t \in Traces |-> << >>]
  /\ notify_queue = [t \in Traces |-> None(t)]
  /\ notify_current = [t \in Traces |-> None(t)]
  /\ in_progress = [t \in Traces |-> {}]
  /\ ready = [t \in Traces |-> {}]
  /\ position = [t \in Traces |-> 0]
  /\ computed = [t \in Traces |-> NoComputation]
  /\ stopped = {}
  /\ background_info_waiting = [v \in Viewers |-> 0]
  /\ asked = [v \in Viewers |-> {}]
  /\ drawn = [v \in Viewers |-> FALSE]
  /\ miscounted = {}
  /\ to_reopen = IF optionSync THEN InitialTraceset ELSE << >>
  /\ to_notify = {}
  /\ changes = 0

Next ==
  \/ \E t \in Traces : ProcessPendingRequests(t)
  \/ \E v \in Viewers : CreateViewer(v) \/ DestroyViewer(v) \/ NotifyViewer(v)
  \/ \E b \in Tabs : \/ \E t \in Traces : AddTrace(b, t)
                     \/ \E t \in RemovableTraces : RemoveTrace(b, t)
                     \/ FailToAdd(b) \/ CloseTab(b)
  \/ ReopenTrace

Spec == Init /\ [][Next]_vars

-----------------------------------------------------------------------------
(* Properties.                                                             *)

TypeOK ==
  /\ optionSync \in BOOLEAN
  /\ traces \in Seq(Traces)
  /\ traceset \in [Tabs -> Seq(Traces)]
  /\ opened \subseteq Viewers
  /\ idle_sources \subseteq Traces
  /\ requests_queue \in [Traces -> Seq(Modules)]
  /\ requests_current \in [Traces -> Seq(Modules)]
  /\ notify_queue \in [Traces -> [Viewers -> Nat]]
  /\ notify_current \in [Traces -> [Viewers -> Nat]]
  /\ in_progress \in [Traces -> SUBSET Modules]
  /\ ready \in [Traces -> SUBSET Modules]
  /\ \A t \in Traces : position[t] \in 0..Events[t]
  /\ computed \in [Traces -> [Modules -> Nat]]
  /\ background_info_waiting \in [Viewers -> Int]
  /\ asked \in [Viewers -> SUBSET Traces]
  /\ drawn \in [Viewers -> BOOLEAN]
  /\ stopped \subseteq Traces
  /\ miscounted \subseteq Viewers
  /\ to_reopen \in Seq(Traces)
  /\ to_notify \subseteq opened
  /\ changes \in 0..MaxChanges[optionSync]

\* The assertion of the scheduler (lttvwindowtraces.c:1083): it is never
\* called for a trace that has nothing to compute, even after the trace was
\* closed and opened again.
IdleHasRequests ==
  \A t \in idle_sources : requests_queue[t] # << >> \/ requests_current[t] # << >>

\* Who waits for a notification waits in the same list as a request that will
\* cause it, so the second viewer that asks joins the computation of the
\* first; in particular nobody waits in notify_current when a computation
\* starts, as the scheduler asserts (lttvwindowtraces.c:1181).
NotificationsHaveRequests ==
  \A t \in Traces, v \in Viewers :
    /\ notify_queue[t][v] > 0 => module[v] \in Range(requests_queue[t])
    /\ notify_current[t][v] > 0 => module[v] \in Range(requests_current[t])

\* "Only one precomputation must be launched for each trace and no
\* duplication of precomputation must be done" (the same document, line 30);
\* a flag set twice would be a duplicate attribute, which ends the program
\* (attribute.c:149).
NoDuplicateComputation ==
  \A t \in Traces :
    /\ NoDuplicates(requests_current[t] \o requests_queue[t])
    /\ ready[t] \cap Range(requests_current[t] \o requests_queue[t]) = {}
    /\ in_progress[t] \cap Range(requests_queue[t]) = {}

\* "If the flag in_progress is set, that means that the data it needs is
\* currently being serviced" (line 104).
InProgressIsServed ==
  \A t \in Traces : in_progress[t] \subseteq Range(requests_current[t])

\* "Once precomputation is over, the widgets will be redrawn if they needed
\* such information" (line 21): when all a viewer asked for is there, its last
\* drawing was made from all of it, however many traces and other viewers it
\* had to wait for, and however often it asked before, as traces were added and
\* removed.  Not so for one that asked again while it waited, which then takes
\* earlier notifications for those it counts (eventhooks.c:130), nor for one
\* whose notification was dropped with its trace, which counts it for ever
\* (lttvwindowtraces.c:228), until it asks while nothing of it waits.
RedrawnOncePrecomputed ==
  \A v \in opened \ miscounted :
    (\A t \in asked[v] : Available(module[v], t)) => drawn[v]

\* The computations implement what the document promises of them.
phase ==
  [t \in Traces |-> [m \in Modules |->
     IF m \in ready[t] THEN "ready"
     ELSE IF m \in in_progress[t] THEN "in_progress"
     ELSE IF m \in Range(requests_queue[t]) THEN "requested" ELSE "none"]]

Precomputing == INSTANCE Precomputation
ImplementsPrecomputation == Precomputing!Spec

\* The main loop calls an idle source again and again as long as it is
\* registered, once the sources of higher priority have nothing left to do,
\* and SetTraceset ends.
Fairness ==
  /\ \A t \in Traces : SF_vars(ProcessPendingRequests(t))
  /\ \A v \in Viewers : WF_vars(NotifyViewer(v))
  /\ WF_vars(ReopenTrace)

FairSpec == Spec /\ Fairness

\* Nothing will bring the notifications it waits for.
IsStuck(v) == v \in miscounted \/ Pending(v) \cap stopped # {}

\* Every viewer gets a drawing made from all it asked for, unless it is
\* destroyed first, counts wrong, or waits for a trace whose idle source went
\* with that of another trace that was closed (lttvwindowtraces.c:247).
EventuallyDrawn ==
  \A v \in Viewers : v \in opened ~> (drawn[v] \/ v \notin opened \/ IsStuck(v))
=============================================================================
