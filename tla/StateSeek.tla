------------------------------ MODULE StateSeek ------------------------------
(***************************************************************************)
(* Seeking in a trace without reading it again from its start (state.c).   *)
(* A background pass over the trace saves the state every few events; the  *)
(* foreground context of a window, which seeks to any time and reads on    *)
(* from there, restores the last state saved before that time.             *)
(*                                                                         *)
(* StateTrace gives the trace and the state of the background pass.  Each  *)
(* context seeks before it reads, so a position is a number of events.     *)
(***************************************************************************)
EXTENDS StateTrace

CONSTANTS SaveInterval,  \* LTTV_STATE_SAVE_INTERVAL
          MaxSeeks       \* bound on the number of seeks

ASSUME StateSeekAssumption == SaveInterval \in Nat /\ MaxSeeks \in Nat

VARIABLES history,  \* the states of the background pass, after every event
          saved,    \* saved states, with their times and positions
          count,    \* the event count of the save hook
          maxTime,  \* max_time_state_recomputed_in_seek
          ended,    \* whether the background pass ended
          fg,       \* the foreground context: its state, position and whether it knows its state
          seeks     \* seeks made so far

seekVars == <<history, saved, count, maxTime, ended, fg, seeks>>

SeekInit ==
  /\ Init
  /\ history = <<v.ts>> /\ saved = <<>> /\ count = 0 /\ maxTime = 0 /\ ended = FALSE
  /\ fg = [ts |-> v.ts, pos |-> 0, known |-> TRUE]
  /\ seeks = 0

\* A copied stack has room beyond its last mode that was never written.
copy_base_state(p) == [p EXCEPT !.stack = SubSeq(@, 1, 1)]
copy_process_state(p) == [p EXCEPT !.second = IF Len(p.stack) = 1 THEN GarbageStatus ELSE @]

CopyProcesses(processes) == [k \in DOMAIN processes |-> copy_process_state(processes[k])]

\* state_save: the running processes are saved by their pids, the tables with
\* the entries they have, the position is that of the event being read.
state_save(ts, time, pos) ==
  [time |-> time, pos |-> pos,
   processes |-> CopyProcesses(ts.processes),
   pids |-> [c \in Cpus |-> Running(ts, c).pid],
   cpus |-> ts.cpus, irqs |-> ts.irqs, softIrqs |-> ts.softIrqs, traps |-> ts.traps,
   bdevs |-> ts.bdevs]

state_restore(ts, s) ==
  [ts EXCEPT !.processes = CopyProcesses(s.processes),
             !.running = [c \in Cpus |-> Key(c, s.pids[c])],
             !.cpus = s.cpus, !.irqs = s.irqs, !.softIrqs = s.softIrqs, !.traps = s.traps,
             !.bdevs = s.bdevs]

\* state_save_event_hook runs before the hooks of the state: it has their
\* priority, and the hooks of every event come first.
state_save_event_hook(ts, e, pos) ==
  IF count < SaveInterval
  THEN count' = count + 1 /\ UNCHANGED <<saved, maxTime>>
  ELSE /\ count' = 0
       /\ saved' = Append(saved, state_save(ts, e.time, pos))
       /\ maxTime' = e.time

Background ==
  /\ ~ended
  /\ Next \/ Described
  /\ state_save_event_hook(v.ts, trace'[Len(trace')], Len(trace))
  /\ history' = Append(history, v'.ts)
  /\ UNCHANGED <<ended, fg, seeks>>

\* state_save_after_trace_hook
BackgroundEnd ==
  /\ ~ended /\ trace # <<>>
  /\ ended' = TRUE /\ maxTime' = clock
  /\ UNCHANGED <<history, saved, count, fg, seeks, vars>>

\* The binary search of the last state saved before t, 0 if there is none
\* (positions from 0 in the code, from 1 here).
FirstSaved(t) == IF saved # <<>> /\ saved[1].time < t THEN 1 ELSE 0
ClosestSaved(t) ==
  LET N == Len(saved)
      search[r \in (0 .. N) \X (0 .. N) \X (0 .. N)] ==
        LET min == r[1] max == r[2] mid == r[3]
            before == saved[mid].time < t
            newMin == IF before THEN mid ELSE min
            newMax == IF before THEN max ELSE mid - 1
        IN  IF min >= max THEN min
            ELSE search[<<newMin, newMax, (newMin + newMax + 1) \div 2>>]
  IN  search[<<0, N, IF N = 0 THEN 0 ELSE (N - 1) \div 2 + 1>>]

\* The position of the first event at or after t.
PositionOf(t) == Cardinality({i \in DOMAIN trace : trace[i].time < t})

lttv_state_traceset_seek_time_closest(t) ==
  LET closest == ClosestSaved(t)
  IN  IF t >= maxTime
      THEN [ts |-> restore_init_state(fg.ts, 1), pos |-> PositionOf(t), known |-> PositionOf(t) = 0]
      ELSE IF closest = 0 THEN [ts |-> restore_init_state(fg.ts, 1), pos |-> 0, known |-> TRUE]
      ELSE [ts |-> state_restore(fg.ts, saved[closest]), pos |-> saved[closest].pos, known |-> TRUE]

SeekTo(t) ==
  /\ seeks < MaxSeeks
  /\ seeks' = seeks + 1
  /\ fg' = lttv_state_traceset_seek_time_closest(t)
  /\ UNCHANGED <<history, saved, count, maxTime, ended, vars>>

\* The foreground reads one more event, with the hooks of the state.
ReadOn ==
  /\ fg.pos < Len(trace)
  /\ fg' = [fg EXCEPT !.ts = Hook(@, trace[fg.pos + 1]), !.pos = @ + 1]
  /\ UNCHANGED <<history, saved, count, maxTime, ended, seeks, vars>>

SeekNext == Background \/ BackgroundEnd \/ ReadOn \/ \E t \in 1 .. MaxTime : SeekTo(t)

SeekSpec == SeekInit /\ [][SeekNext]_<<vars, seekVars>>

(* ----------------------------- properties ------------------------------- *)

\* What hooks and viewers can see of a state.
Visible(ts) ==
  [ts EXCEPT !.processes = [k \in DOMAIN @ |-> [@[k] EXCEPT !.second = GarbageStatus]]]

\* Reading on from a restored state gives the states that reading the whole
\* trace gives, at every event and whatever was read before.
SeekRebuildsState == fg.known => Visible(fg.ts) = Visible(history[fg.pos + 1])

\* A seek to a time the background pass went beyond never goes past the first
\* event at that time, and never back further than the interval between two
\* saved states.
SeekIsClose ==
  [][\A t \in 1 .. MaxTime :
       SeekTo(t) /\ t < maxTime => /\ fg'.pos <= PositionOf(t)
                                   /\ PositionOf(t) - fg'.pos <= SaveInterval + 1]_<<vars, seekVars>>
=============================================================================
