---------------------------- MODULE DrawingArea ----------------------------
(***************************************************************************)
(* The drawing of the control flow viewer over the time window, and what   *)
(* of it is missing (gui/controlflow/drawing.c and eventhooks.c).  Pixels  *)
(* are copied when the window scrolls, cleared and asked for again when    *)
(* the window, the width or the traces change, and drawn from left to      *)
(* right while events arrive.  The damage, pixels damage_begin up to       *)
(* damage_end, is what is still to be drawn.                               *)
(*                                                                         *)
(* A pixel shows the lines of the processes from some time on, so that     *)
(* time stands for them.  What an operation asks the main window for is    *)
(* left in "ask", the first pixel and the number of them.                  *)
(***************************************************************************)
EXTENDS TimeWindow

CONSTANTS MaxWidth,  \* pixels of the widest drawing
          SAFETY     \* pixels of the buffer beyond the drawing

ASSUME DrawingAreaAssumption == MaxWidth \in Nat \ {0} /\ SAFETY \in Nat

Black == [time |-> 0, moved |-> -1]
Pixmap == 0 .. MaxWidth + SAFETY - 1
Nothing == <<>>

guicontrolflow ==
  [width |-> 1, damage_begin |-> 0, damage_end |-> 0,
   shown |-> [q \in Pixmap |-> Black], x |-> 0, chunk |-> FALSE,
   background_info_waiting |-> 0, ask |-> Nothing]

rectangle_pixmap(view, x, width) ==
  [view EXCEPT !.shown = [q \in Pixmap |-> IF q \in x .. x + width - 1 THEN Black ELSE @[q]]]
copy_pixmap_region(view, from, to, width) ==
  [view EXCEPT !.shown =
     [q \in Pixmap |->
        LET p == q - to + from
        IN  IF q < to \/ q >= to + width THEN @[q]
            ELSE IF p \notin Pixmap \/ @[p] = Black THEN Black
            ELSE [@[p] EXCEPT !.moved = @ + 1]]]

\* The damage is asked for; without traces there is no one to ask.
drawing_data_request(view) ==
  [view EXCEPT !.ask = <<view.damage_begin, view.damage_end - view.damage_begin>>]
Damaged(view, begin, end) == [view EXCEPT !.damage_begin = begin, !.damage_end = end]
Redrawn(view) ==
  drawing_data_request(Damaged(rectangle_pixmap(view, 0, view.width + SAFETY), 0, view.width))

-----------------------------------------------------------------------------
\* What is left on the screen is kept, and the strip that appears is damaged;
\* when something was damaged before, everything is.
ScrollRight(view, old, new) ==
  LET x == convert_time_to_pixels(old, new.start_time, view.width)
      begin == IF view.damage_begin = view.damage_end THEN view.width - x ELSE 0
      moved == copy_pixmap_region(view, x, 0, view.width - x + SAFETY)
  IN  drawing_data_request(Damaged(rectangle_pixmap(moved, begin + SAFETY, view.width - begin),
                                   begin, view.width))
\* Mutant: earlier damage is forgotten.
ScrollLeftForgetful(view, old, new) ==
  LET x == convert_time_to_pixels(new, old.start_time, view.width)
      moved == copy_pixmap_region(view, 0, x, MaxWidth + SAFETY)
  IN  drawing_data_request(Damaged(rectangle_pixmap(moved, 0, x), 0, x))
ScrollLeft(view, old, new) ==
  LET x == convert_time_to_pixels(new, old.start_time, view.width)
      end == IF view.damage_begin = view.damage_end THEN x ELSE view.width
      moved == copy_pixmap_region(view, 0, x, MaxWidth + SAFETY)
  IN  drawing_data_request(Damaged(rectangle_pixmap(moved, 0, end), 0, end))
ScrollsRight(old, new) == new.start_time < old.end_time /\ old.start_time < new.start_time
ScrollsLeft(old, new) == new.start_time < old.start_time /\ old.start_time < new.end_time

update_time_window_hook(view, old, new) ==
  IF new.time_width # old.time_width THEN Redrawn(view)
  ELSE IF ScrollsRight(old, new) THEN ScrollRight(view, old, new)
  ELSE IF ScrollsLeft(old, new) THEN ScrollLeft(view, old, new)
  ELSE IF new.start_time = old.start_time THEN view
  ELSE Redrawn(view)

redraw_notify(view) ==
  LET clear == Damaged(rectangle_pixmap(view, 0, MaxWidth + SAFETY), 0, view.width)
  IN  IF view.width > 0 THEN drawing_data_request(clear) ELSE clear

\* The traces change: a viewer not shown yet has nothing to redraw.  The states
\* of the new traces are computed in the background, and it is redrawn then.
traceset_notify(view, traces) ==
  IF view.width = 1 THEN view
  ELSE [redraw_notify(view) EXCEPT !.background_info_waiting = traces]
background_ready(view) ==
  LET told == [view EXCEPT !.background_info_waiting = @ - 1]
  IN  IF told.background_info_waiting = 0 THEN redraw_notify(told) ELSE told

continue_notify(view) ==
  IF view.damage_begin < view.damage_end THEN drawing_data_request(view) ELSE view

\* The drawing is shown, or given another width.
configure_event_deferred(view, width) ==
  IF width = view.width THEN view
  ELSE rectangle_pixmap(Damaged([view EXCEPT !.width = width], 0, width), 0, MaxWidth + SAFETY)
configure_event(view, width) ==
  IF width = view.width THEN view
  ELSE LET damaged == Damaged([view EXCEPT !.width = width], 0, width)
       IN  IF width = 1 THEN damaged
           ELSE drawing_data_request(rectangle_pixmap(damaged, 0, MaxWidth + SAFETY))

-----------------------------------------------------------------------------
(* While the events of a request arrive *)

before_request(view, window, start) ==
  [view EXCEPT !.x = convert_time_to_pixels(window, start, view.width)]
before_chunk(view) == [view EXCEPT !.chunk = TRUE]

\* The lines are drawn up to a time, the start of the next event or the end.
Drawn(view, window, end) ==
  LET x_end == convert_time_to_pixels(window, end, view.width)
  IN  [view EXCEPT !.x = x_end, !.damage_begin = x_end,
         !.shown = [q \in Pixmap |->
            IF view.x <= q /\ q < x_end
            THEN [time |-> convert_pixels_to_time(view.width, q, window), moved |-> 0]
            ELSE @[q]]]
after_chunk(view, window, end) ==
  IF view.chunk THEN [Drawn(view, window, end) EXCEPT !.chunk = FALSE] ELSE view
after_request(view, window, end) == Drawn(view, window, end)

-----------------------------------------------------------------------------
\* A pixel shows its time when what it shows is less than a pixel and a
\* nanosecond off for every time it was moved.
Shows(view, window, q) ==
  LET pixel == view.shown[q]
      off == pixel.time - convert_pixels_to_time(view.width, q, window)
  IN  /\ pixel # Black
      /\ off * view.width <= pixel.moved * (window.time_width + view.width)
      /\ -off * view.width <= pixel.moved * (window.time_width + view.width)
Missing(view, window) == {q \in 0 .. view.width - 1 : ~Shows(view, window, q)}
=============================================================================
