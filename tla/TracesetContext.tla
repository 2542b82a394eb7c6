--------------------------- MODULE TracesetContext ---------------------------
(***************************************************************************)
(* Contexts of a traceset (lttv/tracecontext.c): the tracefiles, their     *)
(* cursors, and per context the time of the next event of each tracefile.  *)
(* The tree of the tracefiles that still have events is keyed by these     *)
(* times, and a tracefile is in it when its time is not infinite.          *)
(*                                                                         *)
(* A reader `s' is the cursors, which all contexts share, and the times of *)
(* one context.  A hook `h' is one of those that the program adds to a     *)
(* read, with its data; `stop' is what its last call returned.             *)
(***************************************************************************)
EXTENDS Tracefile, FiniteSets, FiniteSetsExt, TLC

CONSTANTS Infinite,      \* ltt_time_infinite
          SaveInterval,  \* LTTV_STATE_SAVE_INTERVAL
          CHECK_GDK_INTERVAL

ASSUME CheckAssumption == CHECK_GDK_INTERVAL \in Nat \ {0}

Files(s) == DOMAIN s.timestamp
IsQueued(s, f) == s.timestamp[f] # Infinite

\* compare_tracefile
IsBefore(s, f, g) ==
  \/ s.timestamp[f] < s.timestamp[g]
  \/ /\ s.timestamp[f] = s.timestamp[g]
     /\ \/ Tracefiles[f].index < Tracefiles[g].index
        \/ Tracefiles[f].index = Tracefiles[g].index /\ Tracefiles[f].trace < Tracefiles[g].trace

NoFile == 0
lttv_traceset_context_get_current_tfc(s) ==
  IF \A f \in Files(s) : ~IsQueued(s, f) THEN NoFile
  ELSE CHOOSE f \in Files(s) : IsQueued(s, f) /\ \A g \in Files(s) \ {f} : IsBefore(s, f, g)

\* A seek or read of one tracefile, and the tree after it.
Put(s, f, read) ==
  [s EXCEPT !.cursor[f] = read.cursor,
            !.timestamp[f] = IF read.ret = "ok" THEN read.cursor.time ELSE Infinite,
            !.aborted = @ \/ read.ret = "aborted"]

(* ------------------------------ positions ------------------------------- *)

NoPosition == [timestamp |-> Infinite, tfcp |-> << >>]

lttv_traceset_context_position_save(s) ==
  [timestamp |-> Min({s.timestamp[f] : f \in Files(s)}),
   tfcp |-> [f \in Files(s) |-> [used |-> IsQueued(s, f),
                                 event |-> IF IsQueued(s, f) THEN ltt_event_position(s.cursor[f]) ELSE <<>>]]]

SeekPositions(s, tfcp) ==
  FoldSet(LAMBDA f, r : IF tfcp[f].used
                        THEN Put(r, f, [cursor |-> ltt_tracefile_seek_position(f, r.cursor[f], tfcp[f].event),
                                        ret |-> "ok"])
                        ELSE [r EXCEPT !.timestamp[f] = Infinite],
          s, Files(s))

\* Nothing is done for a position after the end.
lttv_process_traceset_seek_position(s, pos) ==
  IF pos.timestamp = Infinite THEN s ELSE SeekPositions(s, pos.tfcp)

\* lttv_traceset_context_ctx_pos_compare(s, pos) == 0
IsAtPosition(s, pos) ==
  \A f \in Files(s) :
    IF pos.tfcp[f].used
    THEN /\ IsQueued(s, f)
         /\ s.cursor[f].block = pos.tfcp[f].event.block /\ s.cursor[f].offset = pos.tfcp[f].event.offset
    ELSE ~IsQueued(s, f)

\* The sign of the first difference, tracefile by tracefile.
lttv_traceset_context_pos_pos_compare(p1, p2) ==
  LET compare(f) ==
        LET e1 == p1.tfcp[f] e2 == p2.tfcp[f]
        IN  IF e1.used /\ e2.used
            THEN IF e1.event.block # e2.event.block THEN e1.event.block - e2.event.block
                 ELSE e1.event.offset - e2.event.offset
            ELSE IF e1.used THEN -1 ELSE IF e2.used THEN 1 ELSE 0
      differing == {f \in DOMAIN p1.tfcp : compare(f) # 0}
  IN  IF p1.timestamp = Infinite THEN IF p2.timestamp = Infinite THEN 0 ELSE 1
      ELSE IF p2.timestamp = Infinite THEN -1
      ELSE IF differing = {} THEN 0 ELSE compare(Min(differing))

(* ----------------------------- seek by time ------------------------------ *)

SeekFiles(s, files, t) ==
  FoldSet(LAMBDA f, r : Put(r, f, ltt_tracefile_seek_time(f, r.cursor[f], t)), s, files)

FilesOf(s, trace) == {f \in Files(s) : Tracefiles[f].trace = trace}
Traces(s) == {Tracefiles[f].trace : f \in Files(s)}

lttv_process_traceset_seek_time(s, t) == SeekFiles(s, Files(s), t)

\* Per trace, `known' holds the saved states, here their times and positions,
\* and max_time_state_recomputed_in_seek.
lttv_state_traceset_seek_time_closest(s, known, t) ==
  LET seek(trace, r) ==
        LET saved == known[trace].saved
            earlier == {i \in DOMAIN saved : saved[i].time < t}
            ahead == t >= known[trace].maxTime
        IN  IF ahead \/ earlier = {} THEN SeekFiles(r, FilesOf(r, trace), IF ahead THEN t ELSE 0)
            ELSE LET restored == SeekPositions([r EXCEPT !.timestamp = [f \in FilesOf(r, trace) |-> @[f]]],
                                               saved[Max(earlier)].tfcp)
                 IN  [restored EXCEPT !.timestamp = @ @@ r.timestamp]
  IN  FoldSet(seek, s, Traces(s))

(* -------------------------------- reading -------------------------------- *)

EventAt(s, f) == Events(f, s.cursor[f].block)[s.cursor[f].offset]

\* What hooks keep of the event they are called for.
Seen(s, f) == [file |-> f, block |-> s.cursor[f].block, offset |-> s.cursor[f].offset,
               time |-> s.timestamp[f]]

\* event_hook of the viewers: keeps the events, or their positions.
LogHook == [kind |-> "log", log |-> <<>>, stop |-> FALSE]
event_hook(s, h, f) == [h EXCEPT !.log = Append(@, Seen(s, f))]

\* state_save_event_hook: keeps the position every SaveInterval events.
SaveHook(known) == [kind |-> "save", log |-> <<>>, known |-> known, stop |-> FALSE]
state_save_event_hook(s, h, f) ==
  IF h.known.count < SaveInterval THEN [event_hook(s, h, f) EXCEPT !.known.count = @ + 1]
  ELSE [event_hook(s, h, f) EXCEPT
          !.known.count = 0, !.known.maxTime = s.timestamp[f],
          !.known.saved = Append(@, [time |-> s.timestamp[f],
                                     tfcp |-> lttv_traceset_context_position_save(s).tfcp])]

\* The button that stops a read: the user presses it when it was looked at
\* `looks' times, and `pressed' is stop_foreground, once that was seen.
Button(looks) == [looks |-> looks, pressed |-> FALSE]

\* events_check_handler: every so many events, before they pass the filter, a
\* hook looks at the button; a pressed one stops the read and is looked at
\* again for the event after that.
IsLook(h) == h.raw % CHECK_GDK_INTERVAL = 0
events_check_handler(h) == IsLook(h) /\ h.button.looks = 0
Stopped(h) == [h EXCEPT !.button.pressed = TRUE, !.stop = TRUE]
Counted(h) == [h EXCEPT !.raw = @ + 1, !.stop = FALSE,
                        !.button.looks = IF IsLook(h) THEN @ - 1 ELSE @]

\* The first n events that pass the filter, and their positions: the "first"
\* one with no look at the button, those of a "list" with.
FirstHook(filter) == [kind |-> "first", filter |-> filter, n |-> 1, pos |-> <<>>, stop |-> FALSE]
ListHook(filter, n, button) ==
  [kind |-> "list", filter |-> filter, n |-> n, pos |-> <<>>, raw |-> 0, button |-> button, stop |-> FALSE]
first_event_hook(s, h, f) ==
  [h EXCEPT !.pos = Append(@, lttv_traceset_context_position_save(s)), !.stop = Len(h.pos) + 1 >= h.n]

ForwardHook(filter, n, button) ==
  [kind |-> "forward", filter |-> filter, n |-> n, found |-> 0, raw |-> 0, button |-> button, stop |-> FALSE]
seek_forward_event_hook(h) == [h EXCEPT !.found = @ + 1, !.stop = h.found + 1 >= h.n]

\* The last events that pass the filter, in a circular array of positions.
BackHook(filter, n, button) ==
  [kind |-> "back", filter |-> filter, n |-> n, array |-> [i \in 0 .. n - 1 |-> NoPosition],
   first |-> 0, found |-> 0, raw |-> 0, button |-> button, stop |-> FALSE]
seek_back_unwrapped(s, h) ==
  [h EXCEPT !.array[h.first] = lttv_traceset_context_position_save(s),
            !.first = Min({@ + 1, Cardinality(DOMAIN h.array) - 1}),
            !.found = Min({h.n, @ + 1})]
seek_back_event_hook(s, h) ==
  [h EXCEPT !.array[h.first] = lttv_traceset_context_position_save(s),
            !.first = IF @ >= Cardinality(DOMAIN h.array) - 1 THEN 0 ELSE @ + 1,
            !.found = Min({h.n, @ + 1})]

FilteredHook(s, h, f) ==
  CASE EventAt(s, f).id \notin h.filter -> [h EXCEPT !.stop = FALSE]
    [] h.kind \in {"first", "list"} -> first_event_hook(s, h, f)
    [] h.kind = "forward" -> seek_forward_event_hook(h)
    [] h.kind = "back" -> seek_back_event_hook(s, h)

CallHook(s, h, f) ==
  CASE h.kind = "none" -> h
    [] h.kind = "log" -> event_hook(s, h, f)
    [] h.kind = "save" -> state_save_event_hook(s, h, f)
    [] OTHER -> LET looks == h.kind # "first"
                IN  IF looks /\ events_check_handler(h) THEN Stopped(h)
                    ELSE FilteredHook(s, IF looks THEN Counted(h) ELSE h, f)

NoHook == [kind |-> "none", stop |-> FALSE]

\* Read until the end time, the number of events, the position or the hook stops.
Until(time, nb_events, pos) == [time |-> time, nb_events |-> nb_events, pos |-> pos]
UntilTime(t) == Until(t, Infinite, <<>>)
UntilPosition(pos) == Until(Infinite, Infinite, <<pos>>)
UntilEvents(n) == Until(Infinite, n, <<>>)
UntilHook == UntilTime(Infinite)

RECURSIVE ReadOn(_, _, _, _)
ReadNext(s, h, until, n, f) ==
  IF \/ f = NoFile \/ h.stop \/ n >= until.nb_events
     \/ \E i \in DOMAIN until.pos : IsAtPosition(s, until.pos[i])
     \/ until.time <= s.timestamp[f]
  THEN [s |-> s, h |-> h]
  ELSE ReadOn(Put(s, f, ltt_tracefile_read(f, s.cursor[f])), CallHook(s, h, f), until, n + 1)
ReadOn(s, h, until, n) == ReadNext(s, h, until, n, lttv_traceset_context_get_current_tfc(s))

lttv_process_traceset_middle(s, h, until) == ReadOn(s, h, until, 0)

\* A seek followed by a read with no hooks but those of the state.
SeekAndRead(s, known, t, until) ==
  lttv_process_traceset_middle(lttv_state_traceset_seek_time_closest(s, known, t), NoHook, until).s

\* The reader after a seek by events, and the button as the seek left it.
Sought(s, h) == [s |-> s, button |-> h.button]

lttv_process_traceset_seek_n_forward(s, filter, n, button) ==
  LET sought(read) == Sought(read.s, read.h)
  IN  IF n = 0 THEN [s |-> s, button |-> button]
      ELSE sought(lttv_process_traceset_middle(s, ForwardHook(filter, n, button), UntilHook))

\* Goes back by an offset that doubles, and reads up to where the last read
\* began, until n events are found or the traceset's start was asked for.  A
\* pressed button ends one read, and each of those that follow at its first event.
BACKWARD_SEEK_MUL == 2

RECURSIVE SeekBack(_, _, _, _, _, _, _)
FoundBack(read, known, span, asked, begin, offset, kept) ==
  LET missing == read.h.n - read.h.found
      saved == IF read.h.first > 0 THEN read.h.array[0] ELSE kept.saved
      backTo(pos) == Sought(lttv_process_traceset_seek_position(read.s, pos), read.h)
  IN  IF missing = 0 THEN backTo(read.h.array[read.h.first])
      ELSE IF asked = span.start THEN backTo(saved)
      ELSE SeekBack(read.s, known, span,
                    [read.h EXCEPT !.array = [i \in 0 .. missing - 1 |-> @[i]], !.first = 0, !.stop = FALSE],
                    IF begin.timestamp > span.end THEN span.end ELSE begin.timestamp,
                    offset * BACKWARD_SEEK_MUL, [end |-> begin, saved |-> saved])

ReadBack(sought, known, span, h, asked, offset, kept) ==
  FoundBack(lttv_process_traceset_middle(sought, h, UntilPosition(kept.end)), known, span, asked,
            lttv_traceset_context_position_save(sought), offset, kept)

SeekBack(s, known, span, h, time, offset, kept) ==
  LET asked == IF time > offset THEN time - offset ELSE span.start
  IN  ReadBack(lttv_state_traceset_seek_time_closest(s, known, asked), known, span, h, asked, offset, kept)

lttv_process_traceset_seek_n_backward(s, known, span, filter, n, first_offset, button) ==
  LET pos == lttv_traceset_context_position_save(s)
  IN  SeekBack(s, known, span, BackHook(filter, n, button),
               IF pos.timestamp > span.end THEN span.end ELSE pos.timestamp,
               first_offset, [end |-> pos, saved |-> pos])
=============================================================================
