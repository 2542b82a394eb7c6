# A TLA+ verification of LTTV

LTTV, the Linux Trace Toolkit viewer, reads kernel traces that were recorded on
several machines, reconstructs the state of the traced systems from their events
and shows both in graphical viewers and in reports. This directory holds TLA+
modules that model what LTTV computes and how it schedules it, TLC
configurations that check them on small instances, and theorems about them that
the TLA+ proof system checks for every instance.

The program has one thread, a GLib main loop. What makes it hard is that the
reading of a trace, which may take minutes, is cut into chunks: an idle function
reads a few thousand events and returns, and between two chunks any other
callback runs (a viewer redraws and makes new requests, a tab or a trace is
closed, the user presses stop). Several requests share one read, several
readers share the cursors of one trace, and all of it goes through lists, flags,
counts and caches that the callbacks update in whatever order they come. The
second difficulty is the traces: what the state of a system is must be guessed
from events that start in the middle of its life.

Paths below are relative to `src/lttv/` unless they start with `src/`.

## Inventory

| component | state | operations | interacts with |
|---|---|---|---|
| foreground scheduler (`modules/gui/lttvwindow/lttvwindow/callbacks.c`, `lttvwindow.c`) | per tab: list of requests, pending flag, idle source | process a chunk, append, remove all of an owner, stop | viewers ask, hooks of requests are called, the traceset context is moved |
| background scheduler (`lttvwindowtraces.c`) | per trace: request and notification lists (waiting, current), flags `in_progress` and `ready`, idle source; the list of open traces | request, notify, remove notifications, process a chunk, add and remove a trace | viewers ask and are notified; reads the trace with a context of its own |
| viewers (`modules/gui/*`) | counts of notifications to come, lines and pixels drawn, what is damaged | draw, scroll, resize, traceset changed, destroyed, `background_ready` | both schedulers, the hooks of the tab, the state before and after each event |
| tab and time window (`callbacks.c`, `lttvwindow.c`) | traceset, time window, current time, eight entries | type, paste, zoom, scroll, open a traceset | tells the viewers by hooks, which change the window in their turn |
| traceset context (`lttv/tracecontext.c`) | tree of tracefiles ordered by next event, saved positions | `middle`, seek by time, position and number of events, synchronize | tracefile cursors shared by contexts, hooks by event |
| hooks (`lttv/hook.c`) | sorted array of closures with reference counts | add, add list, remove, call, merged call | contexts, plug-ins |
| modules (`lttv/module.c`) | libraries with load counts and locks, modules with use counts | require, release, load, unload, destroy | every module's init and destroy, options, the windows' menus |
| attributes (`lttv/attribute.c`) | array of values and an index by name | get, add, remove, find subtree | used for all of the program's global state |
| state (`lttv/state.c`) | process, CPU, IRQ tables; stacks of execution modes; saved states | one hook per kernel event, save, restore, seek to the closest | contexts, background scheduler, every viewer and analysis |
| statistics (`lttv/stats.c`) | sums by attribute tree, a cached branch per processor | hooks before and after the state's | state |
| filter (`lttv/filter.c`) | expression tree | parse, evaluate per event | contexts, options, viewers |
| trace reading (`src/ltt/tracefile.c`, `event.c`, `marker.c`) | open files, mapped buffer, cursor, last timestamp | read, seek by time and position, map a block | contexts |
| synchronization (`lttv/sync/*`) | unmatched packets and segments, convex hulls, factors | one callback per network event, finalize | tracefile clocks |
| text modules (`modules/text/*`) | delayed stacks, histories of processes | hooks per event, reports at the end | contexts, options, state |
| options, printing, window layout, trace control | widgets and command lines | - | - |

What makes each of them correct, and what is hard about it:

* **Foreground scheduler.** Each request gets exactly the events it asked for,
  in order, between one call of its `before_request` and one of its
  `after_request` hook, though it is served in chunks that it shares with
  others. Hard: requests with different starts and ends in one read, requests
  interrupted at a position and resumed after others moved the cursors,
  callbacks that change the list between chunks and a hook that does so within
  one, the pending flag and the idle source that must follow the list.
* **Background scheduler.** Each computation is made once per trace, over all of
  it; who asked is notified once it is there. Hard: requests that come while
  the same or another computation is under way; two lists each of requests and
  notifications that must move together; traces closed in the middle; counts of
  notifications in the viewers that must match what is queued.
* **Viewers.** A pixel shows a state its process had then, and nothing stays
  undrawn that nobody will draw. Hard: several events on a pixel, chunks that
  end anywhere, a cache of the running process's line, drawings that are
  resized and scrolled while their requests are served.
* **Tab and time window.** The window stays within the traces. Hard: eight
  entries, borders at both ends, viewers that move the window in the middle of
  being told of it.
* **Traceset context and trace reading.** Events come in the order of their
  times, from any position a seek reaches, and a saved position restores the
  same future. Hard: several contexts over the same cursors; times of which an
  event has the low bits only; buffers that are empty or have gaps in between; a
  user who stops a read in its middle.
* **Hooks.** Called in order of priority, merged lists included.
* **Modules.** A module is initialized after its prerequisites and destroyed
  before them, once; a library is unloaded only when none of its modules is
  used. Hard: failures half way, recursion, locks, menus that must follow.
* **State.** The running process of a processor and the stack of execution modes
  of every process are the kernel's. Hard: a process ends by two events in any
  order, on two processors, and its pid comes back; modes nest over switches;
  what is restored at a saved state must include all that later events read.
* **Statistics.** A process is charged for the time it ran. Hard: hooks before
  and after the state's own share one event, and a branch is cached in between.
* **Dependency analysis.** What it says a process waited for is what it waited
  for. Hard: everything over a system call is held back until its end is read.
* **Synchronization.** A message is one that was sent, the bounds of the drift
  hold the true one, and every trace is related to its reference. Hard: lost and
  repeated segments, records missing, traces read out of the true order.
* **Filter.** The events kept are those the text describes. Hard: one pass over
  the text that never goes back, texts with brackets that do not match.
* **Attributes.** A name finds its value whatever was removed before it.

`PROJECT.json` lists these components with what is modelled of each, and the
hazards at their lines with the properties that are about them.

## Modules

Modules of one row are composed from left to right: each extends those before it.

| part | modules | instance for TLC | proofs |
|---|---|---|---|
| lists | `GSList` | | `GSListProofs` |
| foreground scheduler | `EventDelivery` (abstract), `EventsRequests` | `MCEventsRequests` | `EventsRequestsProofs`, `DeliveryProofs` |
| background scheduler | `Precomputation` (abstract), `BackgroundComputation` | `MCBackgroundComputation` | `BackgroundComputationProofs` |
| modules and menus | `Modules`, `WindowMenus` | `MCModules` | `ModulesProofs` |
| state | `State`, `Statistics`, `StateTrace` | configurations only | `StateTraceProofs`, `ProcessorProofs` |
| saved states | `State` ... `StateTrace`, `StateSeek` | configuration only | |
| dependency analysis | `DelayStack`, `StateTrace`, `DependencyAnalysis` | configuration only | |
| lines of the viewers | `TimeLines`, `ControlFlowView`, `ResourceView`, `StateTrace`, `TraceViews` | configuration only | |
| reading | `Tracefile`, `TracesetContext`, `EventList`, `TracesetReading` | `MCTracesetReading` | |
| synchronization | `EventMatching`, `ConvexHull`, `FactorReduction`, `Synchronization` | `MCSynchronization` | `SynchronizationProofs` |
| filter | `Filter`, `Filtering` | `MCFiltering` | |
| main window | `TimeWindow`, `DrawingArea`, `Histogram`, `MainWindow` | `MCMainWindow` | |

A handler that is a function of its input is an operator of the handler's name
on a record (`schedchange(ts, e)` in `State`, `sstack_add_item` in
`DelayStack`); a handler that interleaves with others is an action. Modules of
operators have no variables; the module that composes them has.

### EventsRequests

The list `events_requests` holds ids; `req[id]` is the request's structure as
the scheduler rewrites it, `history[id]` what it asked and what it got (a
history, no variable of the program). `idle_sources` counts the idle sources that
call `lttvwindow_process_pending_requests`; the code's
`events_request_pending` says whether it believes there is one.

A traceset is the merged sequence of its events, each with a time and a trace,
and a position an index in it. The merge itself is in `TracesetContext`; that
times may be equal is modelled here, since a seek by time stops at the
first of them and a chunk may end among them.

| action | code |
|---|---|
| `ProcessChunk` | one call of `lttvwindow_process_pending_requests`: choose `list_in`, seek, read, take out what is finished, save positions |
| `ProcessEmptyTraceset` | the same on a traceset without traces |
| `RequestEvents` | `lttvwindow_events_request` by any caller |
| `RedrawViewer`, `NotifyTraceset` | a viewer removes its requests and makes one per trace (`drawing_data_request`, `histo_request_event`, ...) |
| `RemoveAll` | `lttvwindow_events_request_remove_all` |
| `StopProcessing` | the stop button |
| `GetEventsBegins`, `GetEventsEnds` | detailedevents, which reads the traceset by itself with `lttvwindow_preempt_count` raised, and runs the main loop meanwhile |
| `ChangeTraceset` | `SetTraceset`, followed by `NotifyTraceset` of each viewer before anything else |

Nondeterministic are the callers' requests, which requests set their stop flag
in a chunk, and which of the `after_request` hooks called at its end append a
second pass (`SecondRequest` of `interrupts.c`: one batch, a request per trace,
for each first request that is done). `ReadStopsAt` is the condition under which
`lttv_process_traceset_middle` stops, computed as the code does from the
requests of `list_in` and `list_out`.

`EventDelivery` is the promise of `lttvwindow.h`, "all events requested, and only
them, will be delivered": each request is made, gets the events it wants some at
a time, and rests. `Delivery` instantiates it with what is asked and delivered.

### BackgroundComputation

`requests_queue`, `requests_current`, `notify_queue`, `notify_current`, `ready`
and `in_progress` are the attributes of each trace; the notification lists are
counts per viewer, whose order is not observable. `position` is the cursor of
the background context, `computed` what each module has seen. The counts
`background_info_waiting` are the viewers'. Histories are `asked` and `drawn`,
what a viewer asked for and whether its last drawing was complete, `miscounted`,
the viewers that asked again while notifications of theirs were pending, and
`stopped`, the traces whose idle source went with that of another trace.
`optionSync` is the option `--sync`.

| action | code |
|---|---|
| `CreateViewer`, `NotifyViewer` | `request_background_data` of a viewer that is created, or whose traceset changed |
| `DestroyViewer`, `CloseTab` | `lttvwindowtraces_background_notify_remove` for each viewer that goes |
| `ProcessPendingRequests` | one chunk of `lttvwindowtraces_process_pending_requests` |
| `AddTrace`, `FailToAdd` | `add_trace`: of a new trace, of one shown elsewhere or in the tab already, and of one that cannot be opened; the tab's viewers are notified in any case |
| `RemoveTrace` | `remove_trace`, and `lttvwindowtraces_remove_trace` when it closes the trace |
| `ReopenTrace` | the loop of `SetTraceset` that closes and opens every trace when they are synchronized |

`Precomputation` is the promise of `lttv_requests_servicing_schedulers.txt`: a
module computes a trace at most once, over all its events, and is ready then.

### Modules and WindowMenus

A module is its library and its name. `use_count`, `require_count`,
`prerequisites`, `load_count`, `locked_loaded` and `modules_by_name` are the
code's; `references` is the count GModule keeps of a library, on which it depends
whether the constructors of its modules run. `module_require` and
`module_release` are recursive, so `stack` holds the calls under way and every
action is a step of the innermost: the search by module name and then by library
name (`FindModule`, `FindLibrary`, `FindInLibrary`, `FindNothing`,
`NotInLibrary`), the loop over the prerequisites (`RequirePrerequisite`,
`GetPrerequisite`, `Initialize`), its way out (`MissPrerequisite`,
`UndoPrerequisite`, `Fail`), `module_release` (`ModuleRelease`,
`ReleasePrerequisite`, `EndRelease`), and `EndRequire`.

`WindowMenus` has the clients: the options of the command line
(`lttv_module_option`, after whose failure the program ends), the windows with
their constructors and viewers, and the menus that load and unload libraries and
modules and change the paths. What a module's `init` and `destroy` do to the
windows (`lttvwindow_register_constructor`, `_unregister_constructor`) happens in
the step that calls them. A library is a file, chosen by name where the code goes
by name: the first of that name, and the name of a library depends on whether it
was first loaded by file name or by module name. The program releases neither
lttvwindow's module nor the main module, which is a guard on the menu.

### State, Statistics, StateTrace and StateSeek

`State` has one operator per hook of `state.c`, from a state and an event to the
next state; `Statistics` the same for `stats.c`, on a record of state and
statistics. Reads of memory nobody wrote give `Garbage`. `StateTrace` reads a
trace: the traced kernel (which process runs where, its stack of modes, who was
born and who died) is external, modelled as far as the hooks depend on it; each
of its steps is an event (`Read`), which goes through the hooks before the
state's, the state's, and those after it. The trace starts in the middle of the
kernel's life, so at first the state knows nothing. `Described` are the events of
the state dump, which tell of what exists already.

`StateSeek` adds the saved states: `Background` is a read by the background
context with `state_save_event_hook`, `SeekTo` is
`lttv_state_traceset_seek_time_closest` of the window's context with its binary
search over the saved states, `ReadOn` its reading on.

### DelayStack and DependencyAnalysis

`DelayStack` is `sstack.c`: pushes, pops and events are queued, and a push may
hold back all that follows until its pop. `DependencyAnalysis` is
`depanalysis.c` on top of it, run after the state's hook at each event: the
low-level states pushed and popped, the high-level one that follows from the
top, wakeups that end another process's delay, and at the end of the trace
(`EndTrace`) the flush of the stacks and the reports: summary, critical path of
a process's delays over a range, and what it and its descendants did.

### TimeLines, ControlFlowView, ResourceView and TraceViews

A line is a sequence of pixels and a place up to which it is drawn. Hooks before
the state's draw in the colour before the event, hooks after it add lines and
names; `TraceViews` calls them around those of the state, as their priorities
do, and ends a chunk before any event (`after_chunk`: the cached lines are
forgotten and all lines closed).

### Tracefile, TracesetContext, EventList and TracesetReading

A tracefile is a list of buffers of events, of which the header holds the low
`TscBits` bits of the cycle counter; its cursor is shared by all readers.
`TracesetContext` merges tracefiles by the times of their next events, with the
seeks of `tracecontext.c`, forward and backward by a number of events included.
`EventList` is the list of detailedevents: from the value of a scroll bar it
finds out whether to go by one event, a page or to a time. `TracesetReading`
composes the foreground scheduler's chunks (`ForegroundChunk`), the background
scheduler's (`BackgroundChunk`), each with a context of its own, and the list
(`Scroll`, `FilterChanges`, `SelectionMoves`, `CurrentTimeChanges`), which reads
with the foreground context between chunks. The reads of the list look at the stop
button every `CHECK_GDK_INTERVAL` events (`events_check_handler`): a move carries
the number of looks after which the user presses it (`Looks`), and a pressed
button ends the read at hand and the reads that follow in the same move.

### EventMatching, ConvexHull, FactorReduction and Synchronization

`EventMatching` turns records of network events into segments and pairs them
into messages and exchanges; `ConvexHull` keeps the half hulls of each pair of
traces and finds two lines between them, in integers (`Unit` is a multiple of
all denominators that occur); `FactorReduction` finds the shortest paths between
traces, the reference of each island and the conversions along the paths.
`Synchronization` runs hosts, their clocks, TCP and the network (external) until
the traffic is used up, then reads the traces in the order of their clocks.

### Filter and Filtering

`Filter` is the loop of `lttv_filter_update` over a text of tokens, with its
pending negation, group, comparison and stack of open groups, and the evaluation
of the tree it builds. `Filtering` writes the options of a text session, token
by token, as `textFilter.c` joins them, with the loop reading at once what is
written; what the user means is defined on the text.

### TimeWindow, DrawingArea, Histogram and MainWindow

`TimeWindow` is the arithmetic of the entries, of zooming and of times and
pixels, in whole nanoseconds that wrap (`Wrap`) as unsigned seconds do.
`DrawingArea` and `Histogram` are what is scrolled, damaged, requested again and
drawn in the two kinds of viewers. `MainWindow` composes a tab with a viewer of
each kind: a user's operation changes the window and calls the viewers' hooks in
the order they were inserted, and between operations requests are served in
pieces of any size. `Resize` makes a drawing wider or narrower; `Configure` is a
configure event at the width it has (its height changed), which may come at any
time. The history `spoiled` has the histogram from when that happens while it
waits for the rest of its counts until all of it is asked for again.

## What the runs check

Eleven runs pass. Every property of theirs has a mutant in `PROJECT.json`, a
plausible bug in a mapped definition that makes TLC report the property violated
under the same configuration. The twelfth, `TracesetReading_gap`, shows a fault of
the program: TLC finds its property violated.

| run | question | states |
|---|---|---|
| `EventsRequests_delivered` | drawing requests, requests by the API, second passes, a tab that is empty at first: does the scheduler implement `EventDelivery`, with each request's hooks around it, does the idle source follow the list, and does every request leave the list, under fairness? | 90 thousand |
| `BackgroundComputation_shared` | viewers of two kinds in two tabs that come and go, traces added and closed, or traces of the command line opened again by `--sync`: is the scheduler never called for nothing, nothing computed twice, nobody left waiting; does it implement `Precomputation`; is every viewer redrawn once all it asked for is there, and at last, under fairness? | 184 thousand |
| `Modules_required` | options, windows, viewers and menus require, release, load and unload in any order: are uses counted, up to the one use a failed module keeps, does nothing dangle, do the menus follow, does every call return? | 304 thousand |
| `DependencyAnalysis_depends` | are the running processes and the processes born in the trace those of the kernel, and is what the analysis tells of them at the end what they did? | 634 thousand |
| `StateTrace_times` | do the modes of processors and interrupts agree with the kernel's, is the cached branch never stale, is a process charged for the time it ran? | 901 thousand |
| `StateSeek_seek` | is the state after any seek what a whole read gives there, and does the seek stop close before the time? | 495 thousand |
| `TraceViews_shown` | does a pixel show a status its process or resource had then, are collisions marked, does the end of a chunk leave no trace? | 1.2 million |
| `TracesetReading_read` | two schedulers and the list of events read the same tracefiles: is every event read once and in order, and does the list show what was asked, or, when the user stops it, as much of it as was read? | 29 thousand |
| `TracesetReading_gap` | (a fault) does a seek to any time map a buffer of the tracefile, as `map_block` asserts? Not for a time between the second and the third of four | - |
| `Synchronization_synchronized` | are messages and exchanges what happened, do the bounds hold the true drift, is every trace related to the reference of its island? | 2.4 million |
| `Filtering_dumped` | is a filter made of the texts with brackets in pairs, does it keep the events described, do options hold together? | 2.2 million |
| `MainWindow_window` | any three operations, resizing among them, while drawings are configured again and requests served in pieces: does the window stay within the traces, and is all that is missing damaged and asked for? | 1.1 million |

### Bounds, and why they are enough

* **EventsRequests.** Chunks of two events over five events of two traces, two of
  which have the same time across traces: requests need up to three chunks, end on and
  off the boundary of a chunk, and start between two chunks of another. Six
  requests, of which viewers and the API ask for four and the others are second
  passes: two in one chunk, one waiting, one made after the first is interrupted,
  and a batch for each of two that end in the same chunk. That the number of
  requests is bounded is part of what `EventuallyServed` says: the scheduler serves
  the lowest start first, and a request that starts late waits as long as requests
  with a lower start keep coming.
* **BackgroundComputation.** Traces of two events (one chunk), three or five
  (several), so that a trace is ready at once or after others have come in
  between. Two changes of a traceset are enough to add a trace to the other tab
  and close it in the first, and to make a viewer ask three times. With `--sync`
  there are none (`MaxChanges`) but the opening of the traces of the command line:
  what opening them again does to computations under way is a fault (see below).
* **Modules.** Five libraries: builtin, the window, a viewer and one of the same
  name in a directory of the user's, which also has a module whose second
  prerequisite cannot be had, because the library of that name registers another
  (as `modules/examples/samplemodule.c` does). A count of two lets a library be
  loaded twice and a module be required while it is used; two windows let one
  close while the other keeps its viewers.
* **StateTrace, DependencyAnalysis.** Two processors, a process that was there
  and one that is born: enough for a process to end on one processor while it is
  released on the other, and for its pid to be used again. Six to seven events
  let modes nest three deep over a switch. Kinds of events that a property does
  not depend on are left to the other runs. In `DependencyAnalysis_depends` the
  dump of the state ends at the first event, since what is read before is
  ignored.
* **StateSeek, TraceViews.** One processor (nothing there is shared between
  processors), a state saved at every event, so that every event is the first
  after a restored state; windows of pixels of two ticks, so that up to two
  events fall on one, and two chunks.
* **TracesetReading.** One trace of two tracefiles with equal times, an overflow
  of the low bits, a counter written in full and an empty
  buffer; chunks of three events, pages of two, three moves of the list, each of
  which is stopped at its second look at the button or not at all, with a look every
  two events. No time asked for is in a gap between two buffers; that is the run
  `TracesetReading_gap`. With two traces the reader has a known fault (below).
* **Synchronization.** Segments and acknowledgements of which one is lost, sent
  again, missing in a trace or of another protocol; a host that talks to itself;
  clocks of different rates with up to seven frames, so that hulls have corners;
  and four traces whose six pairs have good, bad or no factors, in all 729
  combinations. Sequence numbers are modulo eight and wrap.
* **Filtering.** Ten symbols hold three comparisons, a negation of a group and
  two levels of brackets. Three of the six comparisons are read otherwise than
  they are meant (`plain` is FALSE); `FilterKeepsDescribed` says nothing of a text
  that holds one of these or a negated group (`IsUnderstood`).
* **MainWindow.** Drawings of three pixels and of two, resized in both
  directions; seconds of three nanoseconds, a trace of more than two seconds
  and a shorter one inside it; windows at both borders, at either end of a
  second and across two of them.

### Fairness

The main loop calls an idle source again and again while it is registered and
nothing of higher priority is ready. Expose events and button presses have a
higher priority but are finite between two idles, so strong fairness of the
scheduler's step is what GLib gives: a reading detailedevents viewer disables it
for a while (`lttvwindow_preempt_count`), again and again perhaps, but
`get_events` returns (weak fairness of `GetEventsEnds`). Without `GetEventsEnds`
or with weak fairness of the scheduler a user who scrolls for ever would starve
the requests. In `BackgroundComputation` the same holds for the idle source of
each trace, and the loops of `SetTraceset` end. A call of `module.c` goes on
until it returns (weak fairness of `CallStep`). No fairness is assumed of users
or of viewers' requests.

## What modelling showed of the program

None of this is needed to read the runs, but it explains what they leave out: a
property is stated for the cases in which the program has a chance, and these
are the others. Lines are of the files the modules are mapped to.

* **Schedulers.** Requests with a lower start that keep coming starve a later one
  (callbacks.c:1095). `lttvwindow_events_request_remove_all` removes the first
  request of its owner only (lttvwindow.c:1069). An end position is ignored when
  the first request of the chunk has none (callbacks.c:1481). A request keeps
  the position it stands at when a trace is added, though the same events are
  then at other positions. Closing a trace removes idle sources of others
  (lttvwindowtraces.c:247). With `--sync`, traces that are opened again keep
  their `in_progress` flags while their requests are dropped (callbacks.c:502).
  A viewer that asks again while it waits has its count set anew and takes the
  notifications of before for those it counts (controlflow/eventhooks.c:130); one
  whose trace is closed counts a notification that was dropped. The unset `num_events`, 2^32 - 1, is
  decremented as well and would end a request after that many events.
* **Modules.** A module whose prerequisites were missing keeps the use it was
  counted for (module.c:353-373), against module.h:77-80 and module.c:388, which
  know of uses by requires and prerequisites only; it is taken for initialized later
  (module.c:357). `UsesCounted` has this use as `Leaked`: it is just one, however
  often such a module is asked for. The menu offers modules that are only prerequisites, and
  unloading those wraps `require_count` (callbacks.c:3040). Unloading the module
  that alone required lttvwindow destroys the code of the running callback. When
  two viewers register one name, the later takes it, and its unregistering leaves
  the first without. `destroy` unlocks twice (module.c:593).
* **State and statistics.** The popped function index may be -1 (state.c:2850),
  tables are read out of bounds (394, 1751, 2697), `fix_process` reads a slot
  nobody wrote after a restore (3369), the wakeup of a running process makes it
  wait (2956), forked kernel threads run before they do (3163), a fork over
  leftovers of a pid ends the program (3100). Cumulative times lose nested ones
  (stats.c:506, against its comment), function tracing counts time twice
  (stats.c:443). The statistics
  have no hooks for page faults, which the state takes for traps (stats.c:1072,
  state.c:3635), so the branch is that of before until the next hooked event
  (against stats.h:113). Files of saved states leave out modes of processors, interrupts,
  devices and files, and their reader appends frames to those already made.
* **Dependency analysis.** The waker's stack is read when an event is processed,
  not when it happens. A history of one state is never reported, and the last
  state of a process never enters its history. A wakeup's time is uninitialized
  for a process that was never woken. Reports over a range count a state that
  spans its start whole, and not at all one that spans its end; parents whose
  pids were used again may loop for ever, and the idle process aborts.
* **Viewers.** `draw_closure` does not reset its collision mark; rows go by pid,
  not birth; an exec resets a brand that stays shown; rows first known by a wakeup
  start at pixel 0; colours of interrupts are read before their tables grow.
* **Reading.** The binary search over four or more buffers aborts for a time in
  a gap (tracefile.c:1098), which `TracesetReading_gap` shows. Going back over two traces misses the position and
  leaves the list empty (tracecontext.c:1455). The list does nothing when it is
  scrolled up in the first second or down in the last, and takes a change of the
  current time by less than two seconds for a step or a page.
* **Synchronization.** The test of the protocol never holds
  (event_processing_lttng_standard.c:349). The search for a line never tries the
  first point of one hull nor the last of the other, so that the line may cut
  a hull (event_analysis_chull.c, comment before `calculateFactorsExact`).
  `getFactors` composes with the pair of the reference where the predecessor's
  is meant, and aborts without one (factor_reduction_accuracy.c:426), which is
  why `TracesAreRelated` speaks of the factors of direct neighbours only.
  Retransmissions pair wrong events, stale frames stay pending.
* **Filter.** A negated group is TRUE (filter.c, `lttv_filter_tree_parse`); `&&`
  and `||` are not read as filter.h:36 tells; a closing quote swallows a
  character; an unknown field makes a leaf that is TRUE; `(a)(b)` drops the
  second group; operators associate to the right; pids of 65536 and more never
  match; a fraction "1.5" of a time is five nanoseconds.
* **Main window.** A start typed at the second of the end makes the assertion on
  the window fail (callbacks.c:3617, `>` for `>=`); nanoseconds wrap when an end
  has none; a trace of less than a second has a default window as wide as its
  end. A histogram configured again at the width it has, while it waits for
  the rest of its counts, is zeroed and not counted again (histodrawing.c:282,
  histoeventhooks.c:369), which `MissingIsDamaged` and `MissingIsRequested` excuse
  until all of it is asked for again; an event at the window's end
  is counted one past its array.

## What is proved

TLAPS checks the theorems below for all values of the constants that satisfy the
assumptions of their modules. Each is an invariant, proved from one that is
inductive, or a refinement, proved step by step from such an invariant; liveness is not among them.
`GSListProofs` has no theorem about the program, only lemmas on lists that the
proofs about the schedulers cite: keeping some elements of a list yields a list of
exactly these, in their order, none twice if none was.

**Foreground scheduler (`EventsRequestsProofs`, `DeliveryProofs`).** For any
viewers, windows, requests and tracesets that satisfy `EventsAssumption` (what
`lttvwindow.h` asks of callers: either a start time or a start position, times
in order).

* `TypeCorrect` and `IdleSourceMatchesList`, from `StateInv`, the type invariant
  with `ListInv`: listed ids are at most `issued`, so that appended ones are new
  and the list gets no duplicate. That `num_events`, unsigned and decremented
  by the events read, never wraps rests on `Reads`, which stops at the first
  position where the count of some request of `list_in` is used up.
* `HooksAreBrackets`: `Spec => []HooksBracketDelivery`, from `HooksInv`, which
  relates the mark `servicing` of a request to what its hooks were called for.
* `DeliveryIsImplemented`: `TimedEnds /\ GrownFromEmpty /\ Spec =>
  ImplementsDelivery`. `PromiseInv` says that every request stands at its place:
  what it got is what it wants of the events before its saved position, or from
  its start if it was never served. A chunk delivers what is wanted between
  its two ends because `Reads` never passes the end of a request of `list_in`
  nor the start of one of `list_out`. The hypotheses are about the program, not
  about the proof: `TimedEnds` (requests of the API do not end at a position
  within the traceset) is needed because such an end may be ignored
  (callbacks.c:1481), `GrownFromEmpty` (tracesets before the last have no
  events) because positions do not survive a change of the traceset. Both hold
  in the instance TLC checks.

**Background scheduler.** For any traces, tabs, viewers and their modules.

* `NeverCalledForNothing`: `Spec => []IdleHasRequests`, the scheduler's assertion,
  synchronization included. The invariant is not inductive by itself: closing a
  trace removes its idle source only because the loop that looks for the trace
  finds it, so `IdleInv` says that the traces of every tab, and those
  still to be opened again, are open, and this is kept by the unordered removal
  of `lttv_attribute_remove` (`RemoveFastLemma`).
* `WaitersHaveRequests`, `NeverComputedTwice`, `FlagsTellTheTruth`: under
  `OpenedOnce` (no synchronization, or no change of a traceset),
  `[]NotificationsHaveRequests`, `[]NoDuplicateComputation` and
  `[]InProgressIsServed`. One inductive invariant, `ServedInv`, carries the three:
  the modules flagged in progress are exactly those of `requests_current`, the
  two lists and the ready flags are disjoint, and notifications wait with
  requests. Each needs the others: a viewer joins `notify_current` because of
  the flag, which is right only if the flag stands for a request there. Without
  `OpenedOnce` the three are false (callbacks.c:502).
* `PrecomputationIsImplemented`: under `OpenedOnce`, `Spec =>
  ImplementsPrecomputation`, from `ComputedInv`: a module of
  `requests_current` has computed the events up to the cursor, and a ready one
  all of them.
* `ViewersAreRedrawn`: under `OpenedOnce`, `Spec => []RedrawnOncePrecomputed`,
  whatever traces are added and removed and however often viewers ask again.
  `CountInv` says that the count of a viewer that is not `miscounted` is the number
  of traces it still has a notification in, in one list or the other; an argument on
  cardinalities that move from list to list. A viewer that asks again counts right
  because nothing of it is pending then, or else it is `miscounted`: the property
  excuses a viewer from when it asks with a notification pending (eventhooks.c:130)
  or loses one with a closed trace, until it asks with none. Without the excuse the
  theorem is false of the program.

**State (`StateTraceProofs`, `ProcessorProofs`).** For any processors, pids, ids and kinds of
events, and whatever a trace tells: `Traced` is `Spec` with the events of
`Described` as well, so the theorems cover the specifications of all runs that
read a trace.

* `RunningIsKnown`: `Traced => []RunningIsCurrent`, from `RunInv`: the kernel's
  own invariants (who runs where, who ended how far), and `Tracks`, which says of
  the state what the hooks need: every process in the table is keyed by its
  pid, or pid 0 and its processor; the process a processor is taken to run is in
  the table; and one that is half ended (switched out dead or released, not
  both) has counted one of its two events.
  `exit_process` therefore frees it with the second event, whichever that is.
* `BornLivesAreKnown`: `Traced => []BornLivesAgree`, from `LifeInv` on top of it:
  a process born in the trace is in the table as long as the kernel has it, its
  stack of modes is the kernel's, and `Tells` carries the rest that the next hook
  reads (the status, the count of its ends, the mode a forked process returns
  through). One lemma per hook of `state.c` says that it changes the process of
  its event and no other.
* `BranchesAreCurrent`: `(Counting => Faults \cap Kinds = {}) /\ Traced =>
  []BranchIsCurrent`, from `BranchInv` on top of `RunInv`. The branch depends on
  the pid, the birth, the function and the mode on top of the running process,
  so each hook of `state.c` is shown to leave that alone for all processes but
  those of a set of keys (`SameBranches`), and each event for which the set is
  not empty is one after which a hook of `stats.c` finds the branch again. An
  event of one processor may change a process that another one runs; that it
  never moves it to another branch needs that two processors run two processes
  (`TakenApart`). The hypothesis is about the program: with page faults the
  property is false (stats.c:1072), as TLC shows when the configuration of
  `StateTrace_times` has `page_fault_entry` and `page_fault_exit` in `Kinds`.
* `CpuModesAreKnown`: `Traced => []CpuModesAgree`, from `ProcessorInv` on top of
  `RunInv` and `LifeInv`. A processor's stack of modes is cut to one or two
  entries at a switch, made from the mode on top of the process switched in; the
  process's own stack is not cut. `NestInv` says how the modes of the kernel
  nest, and that a process that does not run is in no interrupt: the stack that
  `schedchange` makes is then right, and `Mirrors` says how both go on from
  there. `LifeInv` is needed for the mode of the process switched in, which is
  read from the state and not from the trace. For interrupts, `Settled` relates
  the tables to the stacks of all processors: an interrupt is busy
  just when some stack holds it, and a soft interrupt runs as often as it is
  in them, an argument on the cardinality of the places where it is (`Places`)
  as they are pushed and popped, while the tables grow under the ids met.

**Modules (`ModulesProofs`).** For any libraries, modules, names and paths, and
whatever the options, the menus and the windows require, release, load and
unload: `WindowsStep` says that a step of `WindowMenus` is one of `Modules` or
leaves it alone.

* `NothingIsFreedInUse`: `WindowsSpec => []NothingDangles`, from `HeldInv` and
  `LoadedInv`. In the middle of the recursion use counts and what is recorded
  part, so `CountInv` settles them with the stack: the use count of a module is
  what clients require, plus the prerequisites that are kept and not given back
  by a frame yet, plus the calls that hold a use (`Holding`), plus the result
  that is on its way to its caller, plus one if the module failed. `CallsInv`
  gives the order of the frames: below a call that requires there are only
  such that require, one call works on the prerequisites of a module at a time, and
  a result waits for one who takes it. `BusyInv` ties both to what is
  initialized. `LockInv` says that the lock count of a library is
  the number of frames that lock it, and `ThereInv` that modules in use, or whose
  prerequisites are being released, are in memory: `library_unload` frees a
  library only when neither holds.
* `UsesAreCounted`: `WindowsSpec => []UsesCounted` for a `rank` of names
  such that `IsOrder(rank)`, which says that modules need none that needs them. The
  count is exact for a module whose prerequisites could be had, and one too many
  (`Leaked`) for one that could not get them, however often it is asked for.
  `ReadyInv` adds that what a frame asks for has a lower rank than all the
  frames acquire below it, so that the module `module_require` finds in use already is
  initialized or failed. The hypothesis is about the program: with a cycle
  `module_require` returns the module whose prerequisites it is acquiring
  (module.c:351). It holds of the modules of LTTV, and TLC confirms it of the instance
  (`NamesAreOrdered`). That counts agree and locks are returned between calls
  (`CountedAtRest`) needs no order.
* `MenusAreTrue`: `WindowsSpec => []MenusFollowModules` for such a `rank` and a
  set `B` of names such that `IsSupplied(B)`: what a module of the windows needs,
  with all that this needs, is linked with the program. `lttvwindow` needs `stats`,
  `option` and `sync` (init_module.c:260), and these `state` and `option`, all of them
  sources of the program (lttv/Makefile.am); TLC confirms it of the instance
  (`WindowsAreSupplied`). `MenuInv` is about menus and constructors alone: they
  follow `init` and `destroy`, which each step calls at most once. That the windows'
  module is there for a viewer's needs more. `AskInv` relates the stack to the
  lists of names: what a call is asked for, finds and returns is the next
  prerequisite of the one below it, so prerequisites have the names asked for, and
  a module that is initialized has them all. `SupplyInv` says that the windows'
  module never fails: no menu gives up main's module, which keeps the library
  that is linked with the program, where what the windows need is found by its name.
  A viewer's module that is initialized then has a module of the windows among
  its prerequisites, which by `ReadyInv` is initialized or failed, and did not fail.

**Synchronization (`SynchronizationProofs`).** For any number of traces, any
clocks and any traffic, whichever analysis is used.

* `MessagesAreTrue`: `Spec => []MessagesAreTransmissions`. `MatchingInv` is about
  the past (frames sent, clocks, kinds of records lost), the network, the traces
  that are still to be read and the state of matching. The argument on buffers is
  `RecordsAreTrue`: for every record of TCP that is left to read, playing the
  records before it on the frames now pending (`InBuffer`) leaves in its buffer
  the frame the segment arrived in. It holds as records are appended and
  as the first one is read (`InBufferAppend`, `InBufferTail`), so the times of
  messages are right however the traces interleave. `NothingIsLeftOut` says that
  the two events of a segment are on their way to each other until they are a
  message: as a record, in a host's buffers, or among the unmatched; and
  `EventsAreTrue` that no two of those that wait have the same key.
* `ExchangesAreTrue`: `NumbersSuffice` implies `Spec => []ExchangesAreCausal`.
  `SequenceInv` is about what TCP knows: the place of a sequence number
  (`Place`, how much data comes before it) of what a frame carries is below that
  of what its sender sends next, and all the data before the number it acknowledges
  had arrived before it was sent (`IsKnown`), with losses, repetitions and
  segments that pass each other. The comparison of `SEQ_GT`, modulo the range of
  the numbers, then agrees with the order of places (`GreaterNumber`) as long as no
  place passes half the range, which is the hypothesis: `NumbersSuffice` bounds
  the frames of a traffic by half of `SeqMod` (2^31 in the code). Beyond it an
  old number may look like a new one, which the theorem does not cover.
  TLC finds `NumbersSuffice` true of the traffics of the run
  (`TrafficsAreFew`). `AnalysisInv` is about the queues of the analysis: what
  waits is a matched segment of its connection that needs an acknowledgement, so
  the two packets of an exchange are always of two hosts, each way, and the
  traces are never found disorganized (`AnalyzeAck`).

### What is only model-checked, and why

* Liveness: `EventuallyServed`, `EventuallyDrawn`, `EveryCallReturns`. Fairness
  and ENABLED are out of the prover's reach.
* What is computed by recursion over data, which needs an induction that the
  installed provers cannot instantiate, in modules with RECURSIVE operators: the
  delayed stack and the reports (`HistoryIsTrue`, `ReportIsTrue`), reading and
  going back (`ReadInOrder`, `ListIsComplete`, `ScrollsByEvents`,
  `JumpsToTime`), the filter's loop (`FilterKeepsDescribed`), and the folds of
  `ConvexHull`, `FactorReduction` and `MainWindow` (`DriftsAreBounded`,
  `TracesAreRelated`, `WindowIsWithin` and the rest of that run).
* Not attempted: `BornTimesAgree`,
  `SeekRebuildsState`, `SeekIsClose`, and the properties of the viewers.
* Reopening traces in the middle of computations: no run allows it, since the
  other properties are false then; the theorem `NeverCalledForNothing` covers it.

## What is not modelled

* The trace lock of both schedulers: it is taken and released within one
  callback of one thread, so no behaviour depends on it.
* `destroy` of `module.c` and the end of the program.
* `lttvwindow_preempt_count` in the background scheduler, where it delays only.
* The index of attributes by name, the lists of hooks (their order of priorities
  is in the modules that compose hooks), reference counts of traces but for the
  condition that closes one: sequential data.
* Files of saved states, the opening and mapping of tracefiles, markers and the
  decoding of fields: input and output, and pure data.
* The other text modules, the statistics and other viewers' own sums, command
  lines, printing, trace control: no state that outlives a call or widgets.
* The linear regression and the middle of two bounds: real arithmetic. The
  evaluation of synchronization and its graphs: output.

## Plan

Done: the schedulers with their abstract specifications, modules and menus, the
state with its statistics, seeks and views, the dependency analysis, reading,
synchronization, filters and the main window; and the theorems above.

Left, in this order:

1. `SeekRebuildsState`: hooks respect what is visible of a state, from which a
   restored state and the one a whole read gives stay alike.
2. `ProcessesShown`, of which the cached line needs `RunningIsCurrent`.
