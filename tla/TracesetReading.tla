--------------------------- MODULE TracesetReading ---------------------------
(***************************************************************************)
(* The readers of a window's traceset: the foreground scheduler, which     *)
(* reads it all in chunks; the background scheduler of each trace, with a  *)
(* context of its own; and the detailed events viewer, which reads with    *)
(* the foreground context whenever it is scrolled, between two chunks.     *)
(* All move the same cursors, and the contexts put them back (sync).       *)
(***************************************************************************)
EXTENDS EventList, SequencesExt

CONSTANTS Filters,           \* sets of ids that pass
          CHUNK_NUM_EVENTS,
          StartTimes,        \* of the requests of the foreground
          CurrentTimes,      \* that another viewer sets
          Looks,             \* at the stop button before the user presses it
          MaxScrolls         \* bound on the moves of the list

VARIABLES cursor,     \* per tracefile, shared by all contexts
          aborted,    \* whether an assertion of map_block failed
          context,    \* per context, the times of its tracefiles and its sync_position
          background, \* per trace, the saved states and what was computed
          foreground, \* the request of the foreground scheduler
          list,       \* the list of events
          scroll      \* how the list moved last, and from where

vars == <<cursor, aborted, context, background, foreground, list, scroll>>

AllFiles == DOMAIN Tracefiles
AllTraces == {Tracefiles[f].trace : f \in AllFiles}
Window == 0  \* the context of the window; that of a trace has its number
FilesRead(ctx) == {f \in AllFiles : ctx = Window \/ Tracefiles[f].trace = ctx}

Reader(ctx) == [cursor |-> cursor, timestamp |-> context[ctx].timestamp, aborted |-> FALSE]

\* lttv_process_traceset_synchronize_tracefiles
Unsynchronized(ctx) == Reader(ctx)
Synchronized(ctx) == lttv_process_traceset_seek_position(Reader(ctx), context[ctx].sync)

KeepReader(ctx, s) ==
  /\ cursor' = s.cursor
  /\ aborted' = s.aborted
  /\ context' = [context EXCEPT ![ctx].timestamp = s.timestamp]

\* lttv_process_traceset_get_sync_data
KeepSynchronized(ctx, s) ==
  /\ cursor' = s.cursor
  /\ aborted' = s.aborted
  /\ context' = [context EXCEPT ![ctx] = [timestamp |-> s.timestamp,
                                          sync |-> lttv_traceset_context_position_save(s)]]

AtStart == [f \in AllFiles |->
  lttv_process_traceset_seek_time(
    [cursor |-> [g \in AllFiles |-> [block |-> 1, offset |-> 0, tsc |-> 0, time |-> 0]],
     timestamp |-> [g \in AllFiles |-> Infinite], aborted |-> FALSE], 0).timestamp[f]]

Init ==
  /\ cursor = [f \in AllFiles |->
                 ltt_tracefile_time_span_get(f, [block |-> 1, offset |-> 0, tsc |-> 0, time |-> AtStart[f]])]
  /\ aborted = FALSE
  /\ context = [ctx \in {Window} \cup AllTraces |->
                  [timestamp |-> [f \in FilesRead(ctx) |-> AtStart[f]],
                   sync |-> [timestamp |-> Infinite, tfcp |-> <<>>]]]
  /\ background = [t \in AllTraces |-> [phase |-> "waiting", log |-> <<>>,
                                        known |-> [saved |-> <<>>, count |-> 0, maxTime |-> 0]]]
  /\ foreground = [phase |-> "waiting", start |-> 0, position |-> NoPosition, log |-> <<>>]
  /\ list = [EmptyList EXCEPT !.filter = UNION Filters]
  /\ scroll = [asked |-> [events |-> 0, from |-> 0, jump |-> FALSE, time |-> 0], number |-> 0]

Known == [t \in AllTraces |-> background[t].known]

\* A chunk of lttvwindowtraces_process_pending_requests.
BackgroundRead(t, read) ==
  LET ended == lttv_traceset_context_get_current_tfc(read.s) = NoFile
  IN  /\ background' = [background EXCEPT
           ![t] = [phase |-> IF ended THEN "ended" ELSE "reading", log |-> read.h.log,
                   known |-> IF ended THEN [read.h.known EXCEPT !.maxTime = Max({End(f, NumBlocks(f)) : f \in FilesRead(t)})]
                             ELSE read.h.known]]
      /\ KeepSynchronized(t, read.s)

BackgroundChunk(t) ==
  LET s == IF background[t].phase = "waiting"
           THEN lttv_process_traceset_seek_time(Synchronized(t), 0) ELSE Synchronized(t)
  IN  /\ ~aborted /\ background[t].phase # "ended"
      /\ BackgroundRead(t, lttv_process_traceset_middle(
                             s, [SaveHook(background[t].known) EXCEPT !.log = background[t].log],
                             UntilEvents(CHUNK_NUM_EVENTS)))
      /\ UNCHANGED <<foreground, list, scroll>>

\* A request of a viewer for all the events from a time on.
RequestEvents(start) ==
  /\ ~aborted /\ foreground.phase = "waiting"
  /\ foreground' = [foreground EXCEPT !.phase = "requested", !.start = start]
  /\ UNCHANGED <<cursor, aborted, context, background, list, scroll>>

\* A chunk of lttvwindow_process_pending_requests, from the time asked for or
\* from the position at which the request was interrupted.
StartOfChunk ==
  LET s == Synchronized(Window)
  IN  IF foreground.phase = "requested" THEN AtTimeOf(s, Known, [timestamp |-> foreground.start])
      ELSE IF IsAtPosition(s, foreground.position) THEN s
      ELSE AtPosition(s, Known, foreground.position)

ForegroundRead(read) ==
  LET ended == lttv_traceset_context_get_current_tfc(read.s) = NoFile
  IN  /\ foreground' = [foreground EXCEPT !.phase = IF ended THEN "ended" ELSE "reading",
                                          !.position = lttv_traceset_context_position_save(read.s),
                                          !.log = read.h.log]
      /\ KeepSynchronized(Window, read.s)

ForegroundChunk ==
  /\ ~aborted /\ foreground.phase \in {"requested", "reading"}
  /\ ForegroundRead(lttv_process_traceset_middle(StartOfChunk, [LogHook EXCEPT !.log = foreground.log],
                                                 UntilEvents(CHUNK_NUM_EVENTS)))
  /\ UNCHANGED <<background, list, scroll>>

(* -------------------------- the list of events --------------------------- *)

\* Events in the order of their times, and in that of the tracefiles when these
\* are equal; a position is the number of events before it.
AllEvents(files) ==
  UNION {{[file |-> fb[1], block |-> fb[2], offset |-> i,
           time |-> ltt_interpolate_time_from_tsc(fb[1], Events(fb[1], fb[2])[i].tsc)]
          : i \in DOMAIN Events(fb[1], fb[2])}
         : fb \in UNION {{f} \X DOMAIN Blocks(f) : f \in files}}

Precedes(e, g) ==
  LET Key(x) == <<x.time, Tracefiles[x.file].index, Tracefiles[x.file].trace, x.block, x.offset>>
      differing == {i \in 1 .. 5 : Key(e)[i] # Key(g)[i]}
  IN  differing # {} /\ Key(e)[Min(differing)] < Key(g)[Min(differing)]

Merged(files) ==
  LET events == AllEvents(files)
  IN  [n \in 1 .. Cardinality(events) |->
         CHOOSE e \in events : Cardinality({g \in events : Precedes(g, e)}) = n - 1]
AllMerged == Merged(AllFiles)

IdAt(rank) == Events(AllMerged[rank + 1].file, AllMerged[rank + 1].block)[AllMerged[rank + 1].offset].id
Passing(filter) == {rank \in 0 .. Len(AllMerged) - 1 : IdAt(rank) \in filter}

EveryEvent == AllEvents(AllFiles)
RankOfTime(t) == Cardinality({e \in EveryEvent : e.time < t})
RankOf(pos) ==
  Cardinality({e \in EveryEvent :
    pos.tfcp[e.file].used =>
      \/ e.block < pos.tfcp[e.file].event.block
      \/ e.block = pos.tfcp[e.file].event.block /\ e.offset < pos.tfcp[e.file].event.offset})

\* What the list has to do when it is given a value of the bar.
Asked(l, value) ==
  [events |-> RelativePosition(value - l.previous),
   from |-> IF l.pos = <<>> THEN RankOfTime(Span.start + value) ELSE RankOf(l.pos[1]),
   jump |-> IsJump(value - l.previous),
   time |-> Span.start + value]

ListMoves(r, value, read) ==
  /\ ~aborted
  /\ KeepReader(Window, r.s)
  /\ list' = r.list
  /\ scroll' = [asked |-> IF read THEN Asked(list, value) ELSE scroll.asked, number |-> scroll.number + 1]
  /\ UNCHANGED <<background, foreground>>

\* Whether the bar's new value makes the list read.
IsRead(value) == Clamped(value) \notin {list.value, list.previous}

\* The wheel and the keys at either end of the list move the bar by a second or
\* two, and it can be dragged anywhere.
Scroll ==
  /\ scroll.number < MaxScrolls
  /\ \E value \in (0 .. Upper) \ {list.value}, looks \in Looks :
       ListMoves(gtk_adjustment_set_value(Reader(Window), Known, list, value, looks), value, IsRead(value))

FilterChanges ==
  /\ scroll.number < MaxScrolls
  /\ \E filter \in Filters, looks \in Looks :
       /\ list.filter # filter \/ list.last = NoPosition
       /\ ListMoves(filter_changed(Reader(Window), Known, list, filter, looks), list.value, TRUE)

\* Another viewer sets the current time of the window.
SelectionMoves(r) ==
  LET value == r.list.selected.timestamp - Span.start
  IN  ListMoves(r, Clamped(value), IsOutside(list, r.list.selected) /\ IsRead(value))

CurrentTimeChanges(t) ==
  /\ list.last # NoPosition /\ scroll.number < MaxScrolls
  /\ \E looks \in Looks : SelectionMoves(update_current_time(Reader(Window), Known, list, t, looks))

Next ==
  \/ \E t \in AllTraces : BackgroundChunk(t)
  \/ \E t \in StartTimes : RequestEvents(t)
  \/ ForegroundChunk
  \/ Scroll
  \/ FilterChanges
  \/ \E t \in CurrentTimes : CurrentTimeChanges(t)

Spec == Init /\ [][Next]_vars

(* ------------------------------ properties ------------------------------- *)

\* Each scheduler calls the hooks for every event of its traces once, in the
\* order and with the times at which they happened, however the others move
\* the cursors between its chunks.
IsInOrder(log, events, ended) == IsPrefix(log, events) /\ (ended => log = events)
ReadInOrder ==
  /\ \A t \in AllTraces :
       IsInOrder(background[t].log, SelectSeq(AllMerged, LAMBDA e : e.file \in FilesRead(t)),
                 background[t].phase = "ended")
  /\ IsInOrder(foreground.log, SelectSeq(AllMerged, LAMBDA e : e.time >= foreground.start),
               foreground.phase = "ended")

\* The list shows the first events from its position on that pass the filter:
\* as many as it has room for or as there are, unless the user stopped it.
ListIsComplete ==
  list.last # NoPosition =>
    LET from == {rank \in Passing(list.filter) : rank >= RankOf(list.first)}
        shown == {RankOf(list.pos[i]) : i \in DOMAIN list.pos}
    IN  /\ shown \subseteq from /\ Cardinality(shown) = Len(list.pos)
        /\ Len(list.pos) <= NumVisible
        /\ ~list.stop_foreground => Len(list.pos) = Min({NumVisible, Cardinality(from)})
        /\ \A a \in shown, b \in from \ shown : a < b

\* A step or a page moves the list by that many events that pass the filter, or
\* as many as there are.  When the user stops it, one forward has not gone too
\* far, and one back has not gone forward.
ScrollsByEvents ==
  LET asked == scroll.asked
      passing == Passing(list.filter)
      to == RankOf(list.first)
      ahead == Cardinality({rank \in passing : asked.from <= rank /\ rank < to})
      back == Cardinality({rank \in passing : to <= rank /\ rank < asked.from})
  IN  list.last # NoPosition /\ ~asked.jump =>
        IF asked.events >= 0
        THEN LET wanted == Min({asked.events, Cardinality({rank \in passing : rank >= asked.from})})
             IN  to >= asked.from /\ ahead <= wanted /\ (~list.stop_foreground => ahead = wanted)
        ELSE LET wanted == Min({-asked.events, Cardinality({rank \in passing : rank < asked.from})})
             IN  to <= asked.from /\ (~list.stop_foreground => back = wanted)

\* A jump shows the events from the time asked for on.
JumpsToTime == scroll.asked.jump => RankOf(list.first) = RankOfTime(scroll.asked.time)

\* A seek to any time maps a buffer of the tracefile (the assertion of
\* map_block), also to one between two buffers, of which ltt_tracefile_seek_time
\* says that its search ends at one of the two.
SeeksMapABuffer == ~aborted
=============================================================================
