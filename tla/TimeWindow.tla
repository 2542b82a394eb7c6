----------------------------- MODULE TimeWindow -----------------------------
(***************************************************************************)
(* The time window of a tab of the main window and what the user does to   *)
(* it (gui/lttvwindow/callbacks.c): the eight entries of the time bar,     *)
(* zooming, and the conversion between times and the pixels of a viewer.   *)
(* A time is a whole number of nanoseconds.                                *)
(***************************************************************************)
EXTENDS Integers, FiniteSetsExt

CONSTANTS NANOSECONDS_PER_SECOND,
          Wrap  \* where the unsigned seconds wrap around, in nanoseconds

ASSUME TimeWindowAssumption ==
  /\ NANOSECONDS_PER_SECOND \in Nat \ {0}
  /\ Wrap \in Nat \ {0}
  /\ Wrap % NANOSECONDS_PER_SECOND = 0

Sec(t) == t \div NANOSECONDS_PER_SECOND
NSec(t) == t % NANOSECONDS_PER_SECOND
Time(sec, nsec) == sec * NANOSECONDS_PER_SECOND + nsec
ltt_time_sub(t, u) == (t - u) % Wrap
ltt_time_add(t, u) == (t + u) % Wrap
lttvwindow_default_time_width == NANOSECONDS_PER_SECOND

Window(start, width) ==
  [start_time |-> start, time_width |-> width, end_time |-> ltt_time_add(start, width)]
Between(start, end) ==
  [start_time |-> start, time_width |-> ltt_time_sub(end, start), end_time |-> end]
Whole(span) == Window(span.start_time, ltt_time_sub(span.end_time, span.start_time))

-----------------------------------------------------------------------------
(* Times and pixels *)

convert_pixels_to_time(width, x, window) ==
  ltt_time_add(window.start_time, (window.time_width * x) \div width)
convert_time_to_pixels(window, t, width) ==
  IF window.time_width = 0 THEN 0
  ELSE (ltt_time_sub(t, window.start_time) * width) \div window.time_width

-----------------------------------------------------------------------------
(* What is entered: 1-2 start, 3-4 end, 5-6 current time, 7-8 width; the   *)
(* first of a pair the seconds, the second the nanoseconds                 *)

Entered(window, current) ==
  [i \in 1 .. 8 |->
     LET t == IF i < 3 THEN window.start_time ELSE IF i < 5 THEN window.end_time
              ELSE IF i < 7 THEN current ELSE window.time_width
     IN  IF i % 2 = 1 THEN Sec(t) ELSE NSec(t)]

\* The nanoseconds that may be entered: those of the traces when the seconds
\* are their first or last ones.
NSecRange(span, t, first, last) ==
  [lower |-> IF Sec(t) = Sec(span.start_time) THEN first ELSE 0,
   upper |-> IF Sec(t) = Sec(span.end_time) THEN last ELSE NANOSECONDS_PER_SECOND - 1]
WidthRange(window, upper) ==
  [lower |-> IF Sec(window.time_width) = 0 THEN 1 ELSE 0,
   upper |-> IF Sec(window.time_width) \in {0, Sec(upper)} THEN NSec(upper)
             ELSE NANOSECONDS_PER_SECOND - 1]
EntryRange(span, window, current) ==
  LET first == NSec(span.start_time)
      last == NSec(span.end_time)
      seconds == [lower |-> Sec(span.start_time), upper |-> Sec(span.end_time)]
      upper == ltt_time_sub(span.end_time, span.start_time)
  IN  [i \in 1 .. 8 |->
         CASE i \in {1, 3, 5} -> seconds
           [] i = 2 -> NSecRange(span, window.start_time, first, last - 1)
           [] i = 4 -> NSecRange(span, window.end_time, first + 1, last)
           [] i = 6 -> NSecRange(span, current, first, last)
           [] i = 7 -> [lower |-> IF NSec(window.time_width) = 0 THEN 1 ELSE 0, upper |-> Sec(upper)]
           [] i = 8 -> WidthRange(window, upper)]
Clamped(range, value) == Max({range.lower, Min({range.upper, value})})

\* A time whose seconds were entered: its nanoseconds are clipped to the traces.
Clipped(span, sec, nsec, first, last) ==
  LET below == IF sec = Sec(span.end_time) /\ nsec > NSec(span.end_time) THEN last ELSE nsec
  IN  Time(sec, IF sec = Sec(span.start_time) /\ below < NSec(span.start_time) THEN first ELSE below)

\* A start past the end pushes the end back, an end before the start the start.
WithStart(span, window, start) ==
  IF start < window.end_time THEN Between(start, window.end_time)
  ELSE Between(start, Min({ltt_time_add(start, window.time_width), span.end_time}))
WithEnd(span, window, end) ==
  IF window.start_time < end THEN Between(window.start_time, end)
  ELSE Between(Max({ltt_time_sub(end, window.time_width), span.start_time}), end)

\* A window of another width is centered on the current time, without
\* falling off the traces.
CenteredUnbounded(span, current, width) ==
  LET start == ltt_time_sub(current, width \div 2)
  IN  IF width > ltt_time_sub(span.end_time, span.start_time) THEN Whole(span)
      ELSE IF start < span.start_time \/ start > span.end_time THEN Window(span.start_time, width)
      ELSE Window(start, width)
Centered(span, current, width) ==
  LET start == ltt_time_sub(current, width \div 2)
      end == ltt_time_add(start, width)
  IN  IF width > ltt_time_sub(span.end_time, span.start_time) THEN Whole(span)
      ELSE IF start < span.start_time \/ start > span.end_time THEN Window(span.start_time, width)
      ELSE IF end > span.end_time \/ end < span.start_time
        THEN Window(ltt_time_sub(span.end_time, width), width)
      ELSE Window(start, width)

\* The window asked for by the value of an entry that is not the current time.
EntryWindow(span, window, current, i, value) ==
  LET first == NSec(span.start_time)
      last == NSec(span.end_time)
      start == window.start_time
      end == window.end_time
      width == window.time_width
  IN  CASE i = 1 -> WithStart(span, window, Clipped(span, value, NSec(start), first, last - 1))
        [] i = 2 -> WithStart(span, window, Time(Sec(start), value))
        [] i = 3 -> WithEnd(span, window, Clipped(span, value, NSec(end), first + 1, last))
        [] i = 4 -> WithEnd(span, window, Time(Sec(end), value))
        [] i = 7 -> Centered(span, current, Time(value, NSec(width)))
        [] i = 8 -> Centered(span, current, Time(Sec(width), value))
EntryTime(span, current, i, value) ==
  IF i = 5 THEN Clipped(span, value, NSec(current), NSec(span.start_time), NSec(span.end_time))
  ELSE Time(Sec(current), value)

\* Zooms by a power of two: 1 in, -1 out.
Zoomed(window, size) ==
  IF size = 1 THEN window.time_width \div 2 ELSE window.time_width * 2

\* A viewer's wish to show the current time, when it is outside the window.
Before(span, window, current) ==
  IF current < ltt_time_add(span.start_time, window.time_width \div 2) THEN span.start_time
  ELSE ltt_time_sub(current, window.time_width \div 2)
After(span, window, current) ==
  IF current > ltt_time_sub(span.end_time, window.time_width \div 2)
  THEN ltt_time_sub(span.end_time, window.time_width)
  ELSE ltt_time_sub(current, window.time_width \div 2)
=============================================================================
