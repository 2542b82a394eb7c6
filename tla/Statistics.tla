----------------------------- MODULE Statistics -----------------------------
(***************************************************************************)
(* The statistics of a trace (lttv/stats.c): for every branch of a process *)
(* (processor, function, execution mode, submode) the events counted in it *)
(* and the time spent in it.  Each processor caches the branch that its    *)
(* running process is in; hooks that run before and after the hooks of the *)
(* state add up the times and move the cached branch.                      *)
(*                                                                         *)
(* Cumulative times are kept in the modes of the state, so a hook is an    *)
(* operator on the record v of the state v.ts and the statistics v.st.     *)
(***************************************************************************)
EXTENDS State

\* The branch of a processor's running process, as update_event_tree finds it.
BranchOf(ts, cpu) ==
  LET p == Running(ts, cpu)
  IN  [pid |-> p.pid, creation |-> p.creation, cpu |-> cpu, function |-> p.current,
       t |-> Top(p).t, n |-> Top(p).n]

NoTimes == [cpuTime |-> 0, elapsed |-> 0, cumulative |-> 0, events |-> 0]

\* lttv_attribute_find: a value that is not there yet is added as zero.
Values(st, b) == IF b \in DOMAIN st.tree THEN st.tree[b] ELSE NoTimes

\* lttv_stats_init: every processor starts in the branch of an unknown process.
UnknownBranch(cpu) ==
  [pid |-> -1, creation |-> 0, cpu |-> cpu, function |-> 0, t |-> "MODE_UNKNOWN", n |-> -2]

InitialStatistics == [branch |-> [c \in Cpus |-> UnknownBranch(c)], tree |-> <<>>]

\* Time is charged to a known mode of a running process, since its last change.
Charged(ts, cpu, time) ==
  LET top == Top(Running(ts, cpu))
  IN  IF top.s = "RUN" /\ top.t # "MODE_UNKNOWN" THEN time - top.change ELSE 0

AddCum(ts, cpu, delta) ==
  LET p == Running(ts, cpu)
  IN  SetRunning(ts, cpu, WithTop(p, [Top(p) EXCEPT !.cum = @ + delta]))

mode_change(v, e) ==
  LET b == v.st.branch[e.cpu]
      delta == Charged(v.ts, e.cpu, e.time)
  IN  [ts |-> AddCum(v.ts, e.cpu, delta),
       st |-> [v.st EXCEPT !.tree = Put(@, b, [Values(v.st, b) EXCEPT !.cpuTime = @ + delta])]]

mode_end(v, e) ==
  LET b == v.st.branch[e.cpu]
      delta == Charged(v.ts, e.cpu, e.time)
      top == Top(Running(v.ts, e.cpu))
      elapsed == IF top.t = "MODE_UNKNOWN" THEN 0 ELSE e.time - top.entry
  IN  [ts |-> AddCum(v.ts, e.cpu, delta),
       st |-> [v.st EXCEPT !.tree = Put(@, b, [Values(v.st, b) EXCEPT
                                                 !.elapsed = @ + elapsed,
                                                 !.cpuTime = @ + delta,
                                                 !.cumulative = @ + top.cum + delta])]]

update_event_tree(v, cpu) == [v EXCEPT !.st.branch[cpu] = BranchOf(v.ts, cpu)]

update_trace_event_tree(v) ==
  [v EXCEPT !.st.branch = [c \in Cpus |-> BranchOf(v.ts, c)]]

\* The cumulative time of the mode that is on top after the end of another is
\* set to zero and given back: nothing of the ended mode reaches it.
after_mode_end_unmoved(v, e) == v
after_mode_end(v, e) == update_event_tree(v, e.cpu)

Entries == {"syscall_entry", "trap_entry", "irq_entry", "soft_irq_entry", "function_entry"}
Exits == {"syscall_exit", "trap_exit", "irq_exit", "soft_irq_exit", "function_exit"}

\* The hooks registered before those of the state.
BeforeState(v, e) ==
  CASE e.kind \in Entries \cup {"schedchange"} -> mode_change(v, e)
    [] e.kind \in Exits -> mode_end(v, e)
    [] OTHER -> v

\* The hooks registered after those of the state.  The process scheduled in is
\* charged with the time since its change, which is now.
AfterState(v, e) ==
  CASE e.kind \in Entries \cup {"process_exit"} -> update_event_tree(v, e.cpu)
    [] e.kind \in Exits -> after_mode_end(v, e)
    [] e.kind = "schedchange" -> mode_change(update_event_tree(v, e.cpu), e)
    [] e.kind \in {"enum_process_state", "statedump_end"} -> update_trace_event_tree(v)
    [] OTHER -> v

every_event(v, e) ==
  LET b == v.st.branch[e.cpu]
  IN  [v EXCEPT !.st.tree = Put(@, b, [Values(v.st, b) EXCEPT !.events = @ + 1])]

CpuTime(st, branches) ==
  LET spent[S \in SUBSET branches] ==
        IF S = {} THEN 0
        ELSE LET b == CHOOSE x \in S : TRUE IN st.tree[b].cpuTime + spent[S \ {b}]
  IN  spent[branches]
=============================================================================
