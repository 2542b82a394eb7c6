--------------------------- MODULE ControlFlowView ---------------------------
(***************************************************************************)
(* The control flow viewer (gui/controlflow/eventhooks.c): a line for      *)
(* every process, in the colour of its status and mode.  Hooks that run    *)
(* before those of the state draw up to the event, hooks that run after    *)
(* them add lines and names.  The line of the process that runs on a       *)
(* processor is cached during a chunk of the trace (current_hash_data).    *)
(***************************************************************************)
EXTENDS State, TimeLines

NoRow == <<>>

\* A process is the one of a pid that was born at its time.
Row(p) == <<p.pid, IF p.pid = 0 THEN p.cpu ELSE 0, p.creation>>

NewControlFlow == [rows |-> <<>>, names |-> <<>>, current |-> [c \in Cpus |-> NoRow]]

\* prepare_s_e_line
Color(p) == IF Top(p).s = "RUN" THEN Top(p).t ELSE Top(p).s

NameOf(p) == [name |-> p.name, brand |-> p.brand]

processlist_add(view, p) ==
  IF Row(p) \in DOMAIN view.rows THEN view
  ELSE [view EXCEPT !.rows = Put(@, Row(p), NewLine), !.names = Put(@, Row(p), NameOf(p))]

DrawRow(view, row, p, e) == [view EXCEPT !.rows[row] = DrawUpTo(@, e.time, Color(p))]
DrawProcess(view, p, e) == DrawRow(processlist_add(view, p), Row(p), p, e)
MoveRow(view, row, e) == [view EXCEPT !.rows[row] = MoveTo(@, e.time)]

\* The line of the process that runs, cached or added to the list and cached.
SetCurrent(view, p) == [processlist_add(view, p) EXCEPT !.current[p.cpu] = Row(p)]
WithCurrent(view, ts, cpu) ==
  IF view.current[cpu] # NoRow THEN view ELSE SetCurrent(view, Running(ts, cpu))

before_trywakeup_hook(view, ts, e) ==
  IF ~Known(ts, e.wokenCpu, e.pid) THEN view
  ELSE DrawProcess(view, ts.processes[Key(e.wokenCpu, e.pid)], e)

\* The process switched out is the one the event tells, if the state knows it.
before_schedchange_out(view, ts, e) ==
  IF Running(ts, e.cpu).pid = e.pidOut THEN DrawProcess(view, Running(ts, e.cpu), e)
  ELSE IF Known(ts, e.cpu, e.pidOut) THEN DrawProcess(view, ts.processes[Key(e.cpu, e.pidOut)], e)
  ELSE view

before_schedchange_in(view, ts, e) ==
  IF Known(ts, e.cpu, e.pidIn) THEN DrawProcess(view, ts.processes[Key(e.cpu, e.pidIn)], e)
  ELSE view

before_schedchange_hook(view, ts, e) ==
  before_schedchange_in(before_schedchange_out(view, ts, e), ts, e)

after_schedchange_uncached(view, ts, e) ==
  LET p == Running(ts, e.cpu) IN MoveRow(processlist_add(view, p), Row(p), e)
after_schedchange_hook(view, ts, e) ==
  LET p == Running(ts, e.cpu) IN MoveRow(SetCurrent(view, p), Row(p), e)

before_execmode_hook(view, ts, e) ==
  LET known == WithCurrent(view, ts, e.cpu)
  IN  DrawRow(known, known.current[e.cpu], Running(ts, e.cpu), e)

\* Like before_execmode_hook, but a line it looks for is not cached.
before_process_exit_hook(view, ts, e) ==
  IF view.current[e.cpu] = NoRow THEN DrawProcess(view, Running(ts, e.cpu), e)
  ELSE DrawRow(view, view.current[e.cpu], Running(ts, e.cpu), e)

\* A process that has no line is dead already: it gets none.
before_process_release_hook(view, ts, e) ==
  LET p == ts.processes[Key(0, e.pid)]
  IN  IF ~Known(ts, 0, e.pid) THEN view
      ELSE IF Row(p) \notin DOMAIN view.rows THEN view
      ELSE DrawRow(view, Row(p), p, e)

after_process_fork_hook(view, ts, e) ==
  LET child == ts.processes[Key(0, e.pid)]
  IN  MoveRow(processlist_add(view, child), Row(child), e)

after_process_exit_hook(view, ts, e) ==
  LET known == WithCurrent(view, ts, e.cpu) IN MoveRow(known, known.current[e.cpu], e)

after_fs_exec_hook(view, ts, e) ==
  LET known == WithCurrent(view, ts, e.cpu)
  IN  [known EXCEPT !.names[known.current[e.cpu]].name = Running(ts, e.cpu).name]

after_user_generic_thread_brand_hook(view, ts, e) ==
  LET known == WithCurrent(view, ts, e.cpu)
  IN  [known EXCEPT !.names[known.current[e.cpu]].brand = Running(ts, e.cpu).brand]

\* The idle process is told to all processors.
after_event_enum_process_hook(view, ts, e) ==
  LET told == {ts.processes[k] : k \in IF e.pid = 0 THEN {Key(c, 0) : c \in Cpus}
                                       ELSE {Key(0, e.pid)}}
      rows == {Row(p) : p \in told}
      name(row) == IF row \in rows THEN (CHOOSE p \in told : Row(p) = row).name
                   ELSE view.names[row].name
      brand(row) == IF row \in DOMAIN view.names THEN view.names[row].brand
                    ELSE (CHOOSE p \in told : Row(p) = row).brand
  IN  [view EXCEPT
        !.rows = [row \in DOMAIN @ \cup rows |-> IF row \in DOMAIN @ THEN @[row] ELSE NewLine],
        !.names = [row \in DOMAIN @ \cup rows |-> [name |-> name(row), brand |-> brand(row)]]]

\* A line is closed in the colour of the process its pid has now.
draw_closure(view, ts, t) ==
  [view EXCEPT !.rows =
     [row \in DOMAIN @ |->
        IF Key(row[2], row[1]) \in DOMAIN ts.processes
        THEN Close(@[row], t, Color(ts.processes[Key(row[2], row[1])]))
        ELSE @[row]]]

before_statedump_end(view, ts, e) == draw_closure(view, ts, e.time)

\* A chunk ends: the cache is dropped and the lines are drawn to the next event.
after_chunk(view, ts, t) == draw_closure([view EXCEPT !.current = [c \in Cpus |-> NoRow]], ts, t)
after_request(view, ts) == draw_closure(view, ts, WindowEnd)

\* The hooks of a request, in the order drawing_data_request registers them.
ControlFlowBefore(view, ts, e) ==
  CASE e.kind = "sched_try_wakeup" -> before_trywakeup_hook(view, ts, e)
    [] e.kind = "schedchange" -> before_schedchange_hook(view, ts, e)
    [] e.kind \in {"syscall_entry", "syscall_exit", "trap_entry", "trap_exit", "irq_entry",
                   "irq_exit", "soft_irq_entry", "soft_irq_exit", "page_fault_entry",
                   "page_fault_exit"} -> before_execmode_hook(view, ts, e)
    [] e.kind = "process_exit" -> before_process_exit_hook(view, ts, e)
    [] e.kind = "process_free" -> before_process_release_hook(view, ts, e)
    [] e.kind = "statedump_end" -> before_statedump_end(view, ts, e)
    [] OTHER -> view

ControlFlowAfter(view, ts, e) ==
  CASE e.kind = "schedchange" -> after_schedchange_hook(view, ts, e)
    [] e.kind = "process_fork" -> after_process_fork_hook(view, ts, e)
    [] e.kind = "process_exit" -> after_process_exit_hook(view, ts, e)
    [] e.kind = "process_exec" -> after_fs_exec_hook(view, ts, e)
    [] e.kind = "thread_brand" -> after_user_generic_thread_brand_hook(view, ts, e)
    [] e.kind = "enum_process_state" -> after_event_enum_process_hook(view, ts, e)
    [] OTHER -> view
=============================================================================
