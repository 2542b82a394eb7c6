------------------------------ MODULE TraceViews ------------------------------
(***************************************************************************)
(* The control flow viewer and the resource viewer draw one request of a   *)
(* traced system's events: the hooks of the viewers run before and after   *)
(* those of the state (Hook of State), and the scheduler of the events     *)
(* requests may end a chunk before any event, in which case the viewers    *)
(* forget what they cached and draw what they have.                        *)
(*                                                                         *)
(* `whole' is what the control flow viewer would have drawn in one chunk,  *)
(* `seen' the colours that the states had, both only for the properties.   *)
(***************************************************************************)
EXTENDS StateTrace, ControlFlowView, ResourceView

CONSTANT MaxChunks  \* bound on the chunks of the request

ASSUME TraceViewsAssumption == Recorded = TRUE /\ MaxChunks \in Nat \ {0}

VARIABLES view,       \* the control flow viewer
          resources,  \* the lines of the resource viewer
          whole,      \* the control flow viewer, had there been one chunk
          chunks,     \* chunks ended before the last one
          seen,       \* the colours from every event on, with its time
          done        \* whether the request ended

viewVars == <<view, resources, whole, chunks, seen, done>>
allVars == <<vars, viewVars>>

\* The resources that may be drawn.
Resources(ts) ==
  ({"CPU"} \X Cpus) \cup ({"IRQ"} \X DOMAIN ts.irqs) \cup ({"SOFT_IRQ"} \X DOMAIN ts.softIrqs)
    \cup ({"TRAP"} \X DOMAIN ts.traps) \cup ({"BDEV"} \X Ids)

Snapshot(ts, t) ==
  LET rows == {Row(ts.processes[k]) : k \in DOMAIN ts.processes}
  IN  [time |-> t,
       rows |-> [row \in rows |-> Color(ts.processes[Key(row[2], row[1])])],
       resources |-> [r \in Resources(ts) |-> ResourceColor(ts, r)]]

ViewInit ==
  /\ Init
  /\ view = NewControlFlow /\ whole = NewControlFlow /\ resources = NewResources
  /\ chunks = 0 /\ done = FALSE
  /\ seen = <<Snapshot(v.ts, clock)>>

\* A chunk ends before an event that is in the request: the next event is known.
Cut(w, ts, t, cut) == IF cut THEN after_chunk(w, ts, t) ELSE w
CutResources(lines, ts, t, cut) == IF cut THEN draw_closure_resources(lines, ts, t) ELSE lines

\* One event: before the request it only changes the state, in it the hooks of
\* the viewers run around those of the state.
ReadEvent(cut) ==
  /\ (Next \/ Described) /\ ~done /\ clock' < WindowEnd
  /\ LET e == Last1(trace')
         drawn(w) == ControlFlowAfter(ControlFlowBefore(w, v.ts, e), v'.ts, e)
     IN  IF e.time < WindowStart THEN ~cut /\ UNCHANGED <<view, resources, whole, chunks>>
         ELSE /\ cut => chunks < MaxChunks - 1 /\ clock >= WindowStart
              /\ chunks' = IF cut THEN chunks + 1 ELSE chunks
              /\ view' = drawn(Cut(view, v.ts, e.time, cut))
              /\ whole' = drawn(whole)
              /\ resources' = ResourcesAfter(
                   ResourcesBefore(CutResources(resources, v.ts, e.time, cut), v.ts, e), v'.ts, e)
  /\ seen' = Append(seen, Snapshot(v'.ts, clock'))
  /\ UNCHANGED done

\* The last chunk ends with the request, at the end of the window.
EndRequest ==
  /\ ~done /\ done' = TRUE
  /\ view' = after_request(after_chunk(view, v.ts, WindowEnd), v.ts)
  /\ whole' = after_request(after_chunk(whole, v.ts, WindowEnd), v.ts)
  /\ resources' = draw_closure_resources(draw_closure_resources(resources, v.ts, WindowEnd),
                                         v.ts, WindowEnd)
  /\ UNCHANGED <<vars, chunks, seen>>

ViewNext == (\E cut \in BOOLEAN : ReadEvent(cut)) \/ EndRequest

ViewSpec == ViewInit /\ [][ViewNext]_allVars

(* ----------------------------- properties ------------------------------- *)

PixelStart(q) == convert_pixels_to_time(q)
PixelEnd(q) == convert_pixels_to_time(q + 1)

\* The moments of the trace that fall on a pixel, the one it starts with included.
On(q) ==
  {i \in DOMAIN seen :
     /\ seen[i].time < PixelEnd(q)
     /\ i + 1 \in DOMAIN seen => seen[i + 1].time > PixelStart(q)}

\* Rows that are judged: those of processes born in the trace (the state may believe
\* that another one runs before it saw a switch), but for kernel threads (process_kernel_thread has no hook in the viewer)
\* and for processes whose pid was used again (draw_closure goes by the pid).
Judged(row) ==
  /\ row[1] \in born \ kthread
  /\ \A other \in DOMAIN view.rows : other[1] = row[1] /\ other[2] = row[2] => other = row

ColorsOn(row, q) == {seen[i].rows[row] : i \in {j \in On(q) : row \in DOMAIN seen[j].rows}}

ChangesOn(row, q) ==
  {i \in DOMAIN seen \ {1} :
     /\ seen[i].time >= PixelStart(q) /\ seen[i].time < PixelEnd(q)
     /\ row \in DOMAIN seen[i - 1].rows /\ row \in DOMAIN seen[i].rows
     /\ seen[i - 1].rows[row] # seen[i].rows[row]}

\* A pixel of a process shows a status or mode the process had while the pixel's
\* time passed; it is left black only if the process was not there all the time.
\* Drawn in one chunk, a pixel in which a process changed twice or more, from one
\* of its colours to another and on, has a collision mark.  (draw_closure leaves
\* the line marked when it moves on, so that after a chunk a mark may be missing.)
ProcessesShown ==
  /\ \A row \in {r \in DOMAIN view.rows : Judged(r)} :
       \A q \in 0 .. Width - 1 :
         q < view.rows[row].x =>
           IF view.rows[row].shown[q] = Black
           THEN \E i \in On(q) : row \notin DOMAIN seen[i].rows
           ELSE view.rows[row].shown[q] \in ColorsOn(row, q)
  /\ \A row \in {r \in DOMAIN whole.rows : Judged(r)} :
       \A q \in 0 .. Width - 1 :
         Cardinality(ChangesOn(row, q)) > 1 => q \in whole.rows[row].marks

\* The same for the lines of the resource viewer.
ResourcesShown ==
  \A r \in DOMAIN resources :
    \A q \in 0 .. Width - 1 :
      q < resources[r].x =>
        resources[r].shown[q] \in
          {seen[i].resources[r] : i \in {j \in On(q) : r \in DOMAIN seen[j].resources}}

\* Where the scheduler ends the chunks cannot be seen in the lines of the judged
\* processes.
ChunksDoNotShow ==
  done => \A row \in DOMAIN view.rows \cup DOMAIN whole.rows :
            Judged(row) => /\ row \in DOMAIN view.rows \cap DOMAIN whole.rows
                           /\ view.rows[row].shown = whole.rows[row].shown
=============================================================================
