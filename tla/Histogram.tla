----------------------------- MODULE Histogram -----------------------------
(***************************************************************************)
(* The histogram viewer: how many events of the time window fall on each   *)
(* of its pixels (gui/histogram).  Unlike the control flow viewer it is    *)
(* counted anew whenever the window changes.                               *)
(***************************************************************************)
EXTENDS DrawingArea

guihistocontrolflow ==
  [width |-> 1, damage_begin |-> 0, damage_end |-> 0,
   number_of_process |-> [q \in Pixmap |-> 0], len |-> 1, chunk |-> FALSE, ask |-> Nothing]

histo_request_event(view, x, width) == [view EXCEPT !.ask = <<x, width>>]
AllRequested(view) == histo_request_event(Damaged(view, 0, view.width), 0, view.width)

histo_update_time_window_hook(view, old, new) ==
  IF new.start_time = old.start_time /\ new.time_width = old.time_width THEN view
  ELSE AllRequested(view)
histo_redraw_notify(view) == AllRequested(view)
histo_filter_changed(view) == AllRequested(view)
histo_traceset_notify(view) ==
  IF view.width = 1 THEN view
  ELSE histo_redraw_notify([view EXCEPT !.number_of_process = [q \in Pixmap |-> 0]])
histo_continue_notify(view) ==
  IF view.damage_begin < view.damage_end
  THEN histo_request_event(view, view.damage_begin, view.damage_end - view.damage_begin)
  ELSE view

\* The counts of another width are asked for, with zeroes where there were none;
\* those of the same width are shown, but all marked as missing.
histo_configure_event(view, width) ==
  LET damaged == Damaged(view, 0, width)
  IN  IF width = view.width THEN damaged
      ELSE histo_request_event(
             [damaged EXCEPT !.width = width, !.len = width,
                !.number_of_process = [q \in Pixmap |-> IF q < view.len THEN @[q] ELSE 0]],
             0, width)

histo_before_trace(view) ==
  [view EXCEPT !.number_of_process =
     [q \in Pixmap |-> IF view.damage_begin <= q /\ q < view.damage_end /\ q < view.len THEN 0 ELSE @[q]]]
histo_drawing_chunk_begin(view) == [view EXCEPT !.chunk = TRUE]
\* Each event counts at the pixel of its time.
histo_count_event(view, window, times) ==
  [view EXCEPT !.number_of_process =
     [q \in Pixmap |->
        @[q] + Cardinality({t \in times : convert_time_to_pixels(window, t, view.width) = q})]]
histo_after_chunk(view, window, end) ==
  IF view.chunk THEN [view EXCEPT !.damage_begin = convert_time_to_pixels(window, end, view.width)]
  ELSE view
histo_after_trace(view, window, end) ==
  [view EXCEPT !.damage_begin = convert_time_to_pixels(window, end, view.width)]

Uncounted(view, window, times) ==
  {q \in 0 .. view.width - 1 :
     view.number_of_process[q] < Cardinality({t \in times :
       window.start_time <= t /\ convert_time_to_pixels(window, t, view.width) = q})}
=============================================================================
