------------------------------ MODULE TimeLines ------------------------------
(***************************************************************************)
(* One line of a drawing over time, as the control flow and the resource   *)
(* viewers draw it (gui/controlflow and gui/resourceview, eventhooks.c):   *)
(* from left to right, one piece up to every event, in the colour of the   *)
(* state before the event.  Several events may fall on one pixel: the      *)
(* first is drawn, the others leave a mark (the collision indicator).      *)
(***************************************************************************)
EXTENDS Integers

CONSTANTS WindowStart,    \* time of the first pixel
          TicksPerPixel,  \* time that a pixel stands for
          Width           \* pixels of the drawing

ASSUME TimeLinesAssumption ==
  WindowStart \in Nat /\ TicksPerPixel \in Nat \ {0} /\ Width \in Nat \ {0}

convert_time_to_pixels(t) == (t - WindowStart) \div TicksPerPixel
convert_pixels_to_time(x) == WindowStart + x * TicksPerPixel
WindowEnd == convert_pixels_to_time(Width)

Black == "BLACK"

\* A new line was not drawn yet, and is drawn from the first pixel on.
NewLine ==
  [x |-> 0, used |-> FALSE, marked |-> FALSE, good |-> 0,
   shown |-> [q \in 0 .. Width |-> Black], marks |-> {}]

Painted(line, x, color) ==
  [q \in 0 .. Width |-> IF line.x <= q /\ q < x THEN color ELSE line.shown[q]]

\* Draws the state before the event at time t, or marks the pixel that is taken.
DrawUpTo(line, t, color) ==
  LET x == convert_time_to_pixels(t)
  IN  IF line.good > t \/ (x = line.x /\ line.used)
      THEN IF line.marked THEN line ELSE [line EXCEPT !.marks = @ \cup {x}, !.marked = TRUE]
      ELSE [line EXCEPT !.shown = Painted(line, x, color), !.x = x, !.used = TRUE,
                        !.marked = FALSE, !.good = convert_pixels_to_time(x + 1)]

\* After the event: what is drawn next starts at its time.
MoveTo(line, t) ==
  LET x == convert_time_to_pixels(t)
  IN  IF line.good > t \/ line.x = x THEN line
      ELSE [line EXCEPT !.x = x, !.used = FALSE, !.marked = FALSE]

\* draw_closure: the line as it is between two events; the pixel is free still.
CloseUsed(line, t, color) ==
  LET x == convert_time_to_pixels(t)
  IN  IF line.good > t THEN line
      ELSE [line EXCEPT !.shown = Painted(line, x + 1, color), !.x = x + 1, !.used = TRUE]

Close(line, t, color) ==
  LET x == convert_time_to_pixels(t)
      painted == [line EXCEPT !.shown = Painted(line, x, color)]
  IN  IF line.good > t \/ (x = line.x /\ line.used) THEN line
      ELSE IF x = line.x THEN painted
      ELSE [painted EXCEPT !.x = x, !.used = FALSE, !.good = convert_pixels_to_time(x + 1)]
=============================================================================
