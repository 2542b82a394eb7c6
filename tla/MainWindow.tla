----------------------------- MODULE MainWindow -----------------------------
(***************************************************************************)
(* A tab of the main window (gui/lttvwindow/callbacks.c and lttvwindow.c): *)
(* its traces, its time window and current time, and the viewers that      *)
(* follow them through hooks.  Changing the time window redraws viewers,   *)
(* viewers ask for events and change the time window in their turn.  How   *)
(* the requests are scheduled is in EventsRequests; here any one is served *)
(* next, any number of events at a time.                                   *)
(*                                                                         *)
(* The traces of a tab are one trace or none: with several, a viewer has a *)
(* request for each and withdraws only one of them when it asks again.     *)
(***************************************************************************)
EXTENDS Histogram, Sequences, SequencesExt

CONSTANTS Traces,        \* the traces that may be opened, each with its span and event times
          Widths,        \* the width a drawing, of one pixel until then, is shown with, and others
          Clipboard,     \* what may be pasted: the numbers of a text, four of them
          MaxOperations  \* bound on what the user does

ASSUME MainWindowAssumption ==
  /\ \A trace \in Traces :
       /\ trace.span.start_time + NANOSECONDS_PER_SECOND < trace.span.end_time
       /\ NSec(trace.span.end_time) # 0
       /\ trace.events \subseteq trace.span.start_time .. trace.span.end_time
  /\ Widths \in Seq(2 .. MaxWidth) /\ Widths # <<>> /\ MaxOperations \in Nat

VARIABLES tab,         \* the tab
          operations   \* what the user did so far, to bound it

vars == <<tab, operations>>

Viewers == {"controlflow", "histogram"}
NoRequest == [end |-> 0, begun |-> FALSE, next |-> 0]
Unbuilt == [width |-> 0]

TimeSpan(traceset) ==
  IF traceset = <<>> THEN [start_time |-> 0, end_time |-> 0] ELSE traceset[1].span
EventTimes(traceset) == IF traceset = <<>> THEN {} ELSE traceset[1].events
Span == TimeSpan(tab.traceset)

-----------------------------------------------------------------------------
(* Requests for events *)

lttvwindow_events_request_remove_all(tb, v) == [tb EXCEPT !.events_requests[v] = NoRequest]
lttvwindow_events_request(tb, v, x, width) ==
  LET columns == tb.views[v].width
      start == convert_pixels_to_time(columns, x, tb.window)
      end == ltt_time_add(convert_pixels_to_time(columns, x + width, tb.window), 1)
      free == [lttvwindow_events_request_remove_all(tb, v) EXCEPT
                 !.stopped = @ \ {v},
                 !.spoiled = IF x = 0 /\ width = columns THEN @ \ {v} ELSE @]
  IN  IF width < 0 THEN tb
      ELSE IF tb.traceset = <<>> THEN free
      ELSE [free EXCEPT !.events_requests[v] = [next |-> start, end |-> end, begun |-> FALSE]]
\* A viewer after one of its hooks, and the request the hook made.
WithView(tb, v, view) ==
  LET put == [tb EXCEPT !.views[v] = [view EXCEPT !.ask = Nothing]]
  IN  IF view.ask = Nothing THEN put
      ELSE lttvwindow_events_request(put, v, view.ask[1], view.ask[2])

-----------------------------------------------------------------------------
(* Hooks, called on the viewers in the order in which they were inserted *)

TimeWindowHook(v, view, old, new) ==
  IF v = "histogram" THEN histo_update_time_window_hook(view, old, new)
  ELSE update_time_window_hook(view, old, new)
set_time_window(tb, new) ==
  FoldLeft(LAMBDA t, v : WithView(t, v, TimeWindowHook(v, t.views[v], tb.window, new)),
           [tb EXCEPT !.window = new], tb.viewers)
\* An empty window fails an assertion, and ends the program.
time_change_manager(tb, new) ==
  IF tb.aborted THEN tb
  ELSE IF new.start_time >= new.end_time THEN [tb EXCEPT !.aborted = TRUE]
  ELSE set_time_window(tb, new)

\* Mutant: only if it lies before it.
update_current_time_hook_leftward(tb, time) ==
  IF time < tb.window.start_time
  THEN time_change_manager(tb, Window(Before(TimeSpan(tb.traceset), tb.window, time), tb.window.time_width))
  ELSE tb
\* A viewer moves the window to the current time, unless it is in it already.
update_current_time_hook(tb, time) ==
  LET span == TimeSpan(tb.traceset)
      width == tb.window.time_width
  IN  IF time < tb.window.start_time
        THEN time_change_manager(tb, Window(Before(span, tb.window, time), width))
      ELSE IF time > ltt_time_add(tb.window.start_time, width)
        THEN time_change_manager(tb, Window(After(span, tb.window, time), width))
      ELSE tb
current_time_change_manager(tb, time) ==
  FoldLeft(LAMBDA t, v : update_current_time_hook(t, time),
           [tb EXCEPT !.current_time = time], tb.viewers)

TracesetHook(v, view, unready) ==
  IF v = "histogram" THEN histo_traceset_notify(view) ELSE traceset_notify(view, unready)
\* The viewers are told of the traces first, while the window is still the old
\* one, which is then replaced if it is out of the bounds of the traces.
SetTraceset(tb, traceset, unready) ==
  LET span == TimeSpan(traceset)
      fits == span.start_time <= tb.window.start_time /\ tb.window.end_time <= span.end_time
      width == IF \/ lttvwindow_default_time_width < ltt_time_sub(span.end_time, span.start_time)
                  \/ span.end_time = span.start_time
               THEN lttvwindow_default_time_width ELSE span.end_time
      told == FoldLeft(LAMBDA t, v : WithView(t, v, TracesetHook(v, t.views[v], unready)),
                       [tb EXCEPT !.traceset = traceset], tb.viewers)
  IN  current_time_change_manager(
        time_change_manager(told, IF fits THEN tb.window ELSE Window(span.start_time, width)),
        IF fits THEN tb.current_time ELSE span.start_time)

-----------------------------------------------------------------------------
NewTab ==
  [traceset |-> <<>>, window |-> Window(0, lttvwindow_default_time_width), current_time |-> 0,
   viewers |-> <<>>, views |-> [v \in Viewers |-> Unbuilt],
   stopped |-> {}, spoiled |-> {},
   events_requests |-> [v \in Viewers |-> NoRequest], aborted |-> FALSE]

Tracesets == {<<>>} \cup {<<trace>> : trace \in Traces}
\* A new tab, with the traces of the command line.
Init ==
  /\ operations = 0
  /\ \E traceset \in Tracesets : tab = SetTraceset(NewTab, traceset, 0)

\* What the user does, up to a bound.  A window that ends past the traces, by a
\* nanosecond, is not followed: its end can then be typed to be a second late.
Operates ==
  /\ ~tab.aborted /\ operations < MaxOperations
  /\ tab.traceset = <<>> \/ tab.window.end_time <= Span.end_time
  /\ operations' = operations + 1

ChangeTraceset ==
  /\ Operates
  /\ \E traceset \in Tracesets \ {tab.traceset} : \E unready \in 0 .. Len(traceset) :
       tab' = SetTraceset(tab, traceset, unready)

\* A value typed in an entry: nothing happens if it is the one shown.
HandleEntry(tb, i, entered) ==
  LET span == TimeSpan(tb.traceset)
      range == EntryRange(span, tb.window, tb.current_time)[i]
      value == Clamped(range, entered)
      window == EntryWindow(span, tb.window, tb.current_time, i, value)
  IN  IF value = Clamped(range, Entered(tb.window, tb.current_time)[i]) THEN tb
      ELSE IF i \in {5, 6}
        THEN current_time_change_manager(tb, EntryTime(span, tb.current_time, i, value))
      ELSE IF window.time_width = 0 THEN tb
      ELSE time_change_manager(tb, window)
Typed ==
  UNION {{<<<<i, value>>>> :
            value \in LET range == EntryRange(Span, tab.window, tab.current_time)[i]
                      IN  range.lower .. range.upper} : i \in 1 .. 8}
\* A text pasted on the time bar gives its numbers to entries in turn: all of the
\* window, its start, its end, the current time or the width.
MEventBox1a_receive(text) == <<<<1, text[1]>>, <<2, text[2]>>, <<3, text[3]>>, <<4, text[4]>>>>
MEventBox1b_receive(text) == <<<<1, text[1]>>, <<2, text[2]>>>>
MEventBox3b_receive(text) == <<<<3, text[1]>>, <<4, text[2]>>>>
MEventBox5b_receive(text) == <<<<5, text[1]>>, <<6, text[2]>>>>
MEventBox8_receive(text) == <<<<7, text[1]>>, <<8, text[2]>>>>
Pasted ==
  UNION {{MEventBox1a_receive(text), MEventBox1b_receive(text), MEventBox3b_receive(text),
          MEventBox5b_receive(text), MEventBox8_receive(text)} : text \in Clipboard}
\* Values are typed, or pasted in several entries, one entry after the other.
Enter ==
  /\ Operates /\ tab.traceset # <<>>
  /\ \E edits \in Typed \cup Pasted :
       tab' = FoldLeft(LAMBDA t, edit : HandleEntry(t, edit[1], edit[2]), tab, edits)

\* Zoom in (1), out (-1) and to the whole of the traces (0).
zoom ==
  /\ Operates
  /\ \E size \in {-1, 0, 1} :
       LET window == IF size = 0 THEN Whole(Span)
                     ELSE Centered(Span, tab.current_time, Zoomed(tab.window, size))
       IN  tab' = IF window.time_width = 0 THEN tab ELSE time_change_manager(tab, window)

scroll_value_changed_cb ==
  /\ Operates /\ tab.traceset # <<>>
  /\ LET page == tab.window.time_width
     IN  \E value \in 0 .. Max({0, ltt_time_sub(Span.end_time, Span.start_time) - page}) :
           tab' = time_change_manager(tab, Window(ltt_time_add(value, Span.start_time), page))

\* A click in a drawing, or the event selected in the list of events.
Clicked ==
  UNION {{convert_pixels_to_time(tab.views[v].width, x, tab.window) : x \in 0 .. tab.views[v].width - 1}
         : v \in ToSet(tab.viewers)}
lttvwindow_report_current_time ==
  /\ Operates
  /\ \E time \in Clicked \cup EventTimes(tab.traceset) : tab' = current_time_change_manager(tab, time)

-----------------------------------------------------------------------------
(* Viewers *)

Registered(tb, v, view) == [tb EXCEPT !.viewers = Append(@, v), !.views[v] = view]
Unregistered(tb, v) ==
  [tb EXCEPT !.viewers = SelectSeq(@, LAMBDA u : u # v), !.views[v] = Unbuilt,
             !.stopped = @ \ {v}, !.spoiled = @ \ {v}]

insert_viewer(v) ==
  /\ ~tab.aborted /\ tab.views[v] = Unbuilt
  /\ \E unready \in 0 .. Len(tab.traceset) :
       tab' = Registered(tab, v, IF v = "histogram" THEN guihistocontrolflow
                                 ELSE [guicontrolflow EXCEPT !.background_info_waiting = unready])
  /\ UNCHANGED operations

delete_viewer(v) ==
  /\ v \in ToSet(tab.viewers) /\ Operates
  /\ tab' = lttvwindow_events_request_remove_all(Unregistered(tab, v), v)

RedrawHook(v, view) == IF v = "histogram" THEN histo_redraw_notify(view) ELSE redraw_notify(view)
ContinueHook(v, view) == IF v = "histogram" THEN histo_continue_notify(view) ELSE continue_notify(view)
FilterHook(v, view) == IF v = "histogram" THEN histo_filter_changed(view) ELSE view
CallHooks(Hook(_, _)) ==
  FoldLeft(LAMBDA t, v : WithView(t, v, Hook(v, t.views[v])), tab, tab.viewers)

redraw == Operates /\ tab' = CallHooks(RedrawHook)
continue_processing == Operates /\ tab' = CallHooks(ContinueHook)
lttvwindow_report_filter == Operates /\ tab' = CallHooks(FilterHook)
\* The requests are dropped, in the middle of what they draw.
stop_processing ==
  /\ Operates
  /\ tab' = [tab EXCEPT !.events_requests = [v \in Viewers |-> NoRequest], !.stopped = ToSet(tab.viewers)]

BackgroundReady ==
  /\ "controlflow" \in ToSet(tab.viewers) /\ ~tab.aborted
  /\ tab.views["controlflow"].background_info_waiting > 0
  /\ tab' = WithView(tab, "controlflow", background_ready(tab.views["controlflow"]))
  /\ UNCHANGED operations

ConfigureHook(v, view, width) ==
  IF v = "histogram" THEN histo_configure_event(view, width) ELSE configure_event(view, width)
\* A histogram that waits for the rest of its counts: a request that begins right
\* of its first pixel.
WaitsForTheRest(v) ==
  /\ v = "histogram" /\ tab.events_requests[v] # NoRequest
  /\ ~tab.events_requests[v].begun
  /\ tab.events_requests[v].next > tab.window.start_time
\* A drawing is shown, or configured again with the width it has: its height
\* changes, or its window moves.  A histogram that waits for the rest is spoiled
\* by the latter (history): the damage is all of it then, and before the rest is
\* counted all of that is zeroed.
Configure(v) ==
  /\ v \in ToSet(tab.viewers) /\ ~tab.aborted
  /\ LET view == tab.views[v]
     IN  tab' = WithView([tab EXCEPT !.spoiled = IF WaitsForTheRest(v) THEN @ \cup {v} ELSE @],
                         v, ConfigureHook(v, view, IF view.width = 1 THEN Widths[1] ELSE view.width))
  /\ UNCHANGED operations
\* The user makes it wider or narrower.
Resize(v) ==
  /\ v \in ToSet(tab.viewers) /\ Operates
  /\ \E width \in ToSet(Widths) \ {tab.views[v].width} :
       tab' = WithView(tab, v, ConfigureHook(v, tab.views[v], width))

\* The events of a request up to one of them, or to its end.
Chunk(v, view, window, next, end, times) ==
  LET some == {t \in times : next <= t /\ t < end}
  IN  IF v = "histogram"
      THEN histo_after_chunk(histo_count_event(histo_drawing_chunk_begin(view), window, some), window, end)
      ELSE after_chunk(before_chunk(view), window, end)
BeforeRequest(v, view, window, start) ==
  IF v = "histogram" THEN histo_before_trace(view) ELSE before_request(view, window, start)
AfterRequest(v, view, window, end) ==
  IF v = "histogram" THEN histo_after_trace(view, window, end) ELSE after_request(view, window, end)
Serve(v) ==
  LET request == tab.events_requests[v]
      times == EventTimes(tab.traceset)
      left == {t \in times : request.next < t /\ t < request.end}
      begun == IF request.begun THEN tab.views[v]
               ELSE BeforeRequest(v, tab.views[v], tab.window, request.next)
  IN  /\ request # NoRequest /\ ~tab.aborted
      /\ \E to \in left \cup {request.end} :
           LET view == Chunk(v, begun, tab.window, request.next, to, times)
           IN  tab' = IF to = request.end
                      THEN [tab EXCEPT !.views[v] = AfterRequest(v, view, tab.window, to),
                                       !.events_requests[v] = NoRequest]
                      ELSE [tab EXCEPT !.views[v] = view,
                                       !.events_requests[v] = [request EXCEPT !.next = to, !.begun = TRUE]]
      /\ UNCHANGED operations

Next ==
  \/ ChangeTraceset \/ Enter \/ zoom \/ scroll_value_changed_cb \/ lttvwindow_report_current_time
  \/ redraw \/ continue_processing \/ stop_processing \/ lttvwindow_report_filter \/ BackgroundReady
  \/ \E v \in Viewers : insert_viewer(v) \/ delete_viewer(v) \/ Serve(v)
                      \/ Configure(v) \/ Resize(v)

Spec == Init /\ [][Next]_vars

-----------------------------------------------------------------------------
\* Whatever is entered, zoomed, scrolled or opened, the time window is a part
\* of the traces, and its start, width and end agree.  (A viewer that moves a
\* window of an odd width to the current time may end a nanosecond too late: it
\* rounds half of the width down.)
WindowIsWithin ==
  ~tab.aborted /\ tab.traceset # <<>> =>
    /\ Span.start_time <= tab.window.start_time /\ tab.window.end_time <= Span.end_time + 1
    /\ tab.window.time_width = tab.window.end_time - tab.window.start_time

MissingPixels(v) ==
  IF v \notin ToSet(tab.viewers) \/ tab.views[v].width <= 1 THEN {}
  ELSE IF v = "histogram" THEN Uncounted(tab.views[v], tab.window, EventTimes(tab.traceset))
  ELSE Missing(tab.views[v], tab.window)

\* What a drawing does not show of the time window is within its damage: no
\* sequence of scrolls, zooms, resizes and interrupted requests leaves pixels
\* that show nothing or another time and that nobody will draw.  It does so only
\* in a spoiled histogram (histoeventhooks.c:369 zeroes what its request does not
\* reach), until all of it is asked for again.
MissingIsDamaged ==
  ~tab.aborted /\ tab.traceset # <<>> =>
    \A v \in ToSet(tab.viewers) \ tab.spoiled :
      MissingPixels(v) \subseteq tab.views[v].damage_begin .. tab.views[v].damage_end - 1

\* What is missing is on its way, unless the user stopped it or the histogram
\* was spoiled: one request of the viewer reaches from the first missing pixel
\* over the last one.
MissingIsRequested ==
  ~tab.aborted /\ tab.traceset # <<>> =>
    \A v \in Viewers \ (tab.stopped \cup tab.spoiled) :
      LET request == tab.events_requests[v]
          Pixel(t) == convert_time_to_pixels(tab.window, t, tab.views[v].width)
      IN  \A q \in MissingPixels(v) :
            request # NoRequest /\ Pixel(request.next) <= q /\ q < Pixel(request.end)

\* Wherever the user goes in the traces, a viewer brings it into the window.
CurrentTimeIsShown ==
  [][/\ tab'.current_time # tab.current_time /\ ~tab'.aborted /\ tab.viewers # <<>>
     /\ tab'.current_time \in Span'.start_time .. Span'.end_time
     => /\ tab'.window.start_time <= tab'.current_time
        /\ tab'.current_time <= tab'.window.end_time]_vars
=============================================================================
