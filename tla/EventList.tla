------------------------------ MODULE EventList ------------------------------
(***************************************************************************)
(* The list of events of the detailed events viewer                        *)
(* (gui/detailedevents/events.c): it shows a few events, which it finds    *)
(* from the value of a scroll bar, in seconds from the start of the        *)
(* traceset.  How far the bar moved tells it whether to go by one event,   *)
(* by a page of events or to a time, and afterwards it sets the bar back   *)
(* to the time of what it shows.                                           *)
(***************************************************************************)
EXTENDS TracesetContext

CONSTANTS Span,            \* time_span of the context
          TicksPerSecond,
          NumVisible       \* num_visible_events

ASSUME EventListAssumption == TicksPerSecond \in Nat \ {0} /\ NumVisible \in Nat \ {0}

Upper == Span.end - Span.start  \* of the scroll bar

\* gtk_adjustment_set_value
Clamped(value) == Min({Upper, Max({0, value})})

EmptyList == [value |-> 0, previous |-> 0, pos |-> <<>>, filter |-> {},
              first |-> NoPosition, last |-> NoPosition, selected |-> NoPosition,
              stop_foreground |-> FALSE]

\* The events to go by for a move of the bar, and none for a jump to a time.
IsJump(move) == move > 2 * TicksPerSecond \/ move < -2 * TicksPerSecond
RelativePosition(move) ==
  LET distance == IF move < 0 THEN -move ELSE move
      events == IF 10 * distance <= 8 * TicksPerSecond THEN 0
                ELSE IF distance <= TicksPerSecond THEN 1 ELSE NumVisible
  IN  IF move < 0 THEN -events ELSE events

\* A position is found again with the state there by reading up to it.
AtTimeOf(s, known, pos) == SeekAndRead(s, known, pos.timestamp, UntilTime(pos.timestamp))
AtPosition(s, known, pos) == SeekAndRead(s, known, pos.timestamp, UntilPosition(pos))

\* Back to the first event shown, or to the bar's time if none is.  To go back
\* from there the state is not needed.
StartOfScroll(s, known, list, time, relative) ==
  IF list.pos # <<>> /\ relative < 0 THEN lttv_process_traceset_seek_position(s, list.pos[1])
  ELSE IF list.pos = <<>> THEN SeekAndRead(s, known, time, UntilTime(time))
  ELSE AtPosition(s, known, list.pos[1])

\* The dispersion of the events shown, or a second.
FirstOffset(list) ==
  IF list.last.timestamp = list.first.timestamp THEN TicksPerSecond
  ELSE list.last.timestamp - list.first.timestamp

ScrolledFrom(s, known, list, relative, button) ==
  IF relative >= 0 THEN lttv_process_traceset_seek_n_forward(s, list.filter, relative, button)
  ELSE lttv_process_traceset_seek_n_backward(s, known, Span, list.filter, -relative, FirstOffset(list), button)
Scrolled(s, known, list, time, relative, button) ==
  ScrolledFrom(StartOfScroll(s, known, list, time, relative), known, list, relative, button)

\* Reads the events to show from where the reader is: fewer than there are, or
\* none, when the button was pressed.
Shown(read, list, first, previous) ==
  [s |-> read.s,
   list |-> [list EXCEPT !.pos = read.h.pos, !.previous = previous, !.value = Clamped(previous),
                         !.first = first, !.stop_foreground = read.h.button.pressed,
                         !.last = IF read.h.pos # <<>> THEN read.h.pos[Len(read.h.pos)]
                                  ELSE lttv_traceset_context_position_save(read.s)]]
ShowFrom(s, list, first, previous, button) ==
  Shown(lttv_process_traceset_middle(s, ListHook(list.filter, NumVisible, button), UntilHook),
        list, first, previous)

\* A jump shows what is read on from where it went; a move by events reads up to
\* the first one again, for the state there, and sets the bar to its time.
ShowEvents(moved, known, list, first, jump, value) ==
  ShowFrom(IF jump THEN moved.s ELSE AtPosition(moved.s, known, first), list, first,
           IF jump THEN value ELSE first.timestamp - Span.start, moved.button)
ShowMoved(moved, known, list, jump, value) ==
  ShowEvents(moved, known, list, lttv_traceset_context_position_save(moved.s), jump, value)

\* The bar's changes that the looks at the button handle have no effect: nothing
\* is read meanwhile, and afterwards the bar is set back.
get_events(s, known, list, new_value, looks) ==
  LET move == new_value - list.previous
      time == Span.start + new_value
  IN  ShowMoved(IF IsJump(move)
                THEN [s |-> SeekAndRead(s, known, time, UntilTime(time)), button |-> Button(looks)]
                ELSE Scrolled(s, known, list, time, RelativePosition(move), Button(looks)),
                known, list, IsJump(move), new_value)

\* v_scroll_cb, when the bar changes.
v_scroll_cb(s, known, list, new_value, looks) ==
  IF new_value = list.previous THEN [s |-> s, list |-> [list EXCEPT !.value = new_value]]
  ELSE get_events(s, known, list, new_value, looks)

gtk_adjustment_set_value(s, known, list, value, looks) ==
  IF Clamped(value) = list.value THEN [s |-> s, list |-> list]
  ELSE v_scroll_cb(s, known, list, Clamped(value), looks)

filter_changed(s, known, list, filter, looks) ==
  get_events(s, known, [list EXCEPT !.filter = filter], list.value, looks)

\* Selects the first event that passes the filter at or after the current time
\* of the window, and moves to it if it is not among those shown.
FirstAt(s, known, list, time) ==
  lttv_process_traceset_middle(SeekAndRead(s, known, time, UntilTime(time)),
                               FirstHook(list.filter), UntilHook)

IsOutside(list, pos) ==
  \/ lttv_traceset_context_pos_pos_compare(pos, list.first) < 0
  \/ lttv_traceset_context_pos_pos_compare(pos, list.last) > 0

MoveToSelected(s, known, list, looks) ==
  IF IsOutside(list, list.selected)
  THEN gtk_adjustment_set_value(s, known, list, list.selected.timestamp - Span.start, looks)
  ELSE [s |-> s, list |-> list]

Select(read, known, list, looks) ==
  MoveToSelected(read.s, known,
                 [list EXCEPT !.selected = IF read.h.pos = <<>> THEN NoPosition ELSE read.h.pos[1]], looks)
update_current_time(s, known, list, time, looks) ==
  Select(IF list.selected.timestamp = time THEN [s |-> s, h |-> [pos |-> <<list.selected>>]]
         ELSE FirstAt(s, known, list, time),
         known, list, looks)
=============================================================================
