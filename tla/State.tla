------------------------------- MODULE State -------------------------------
(***************************************************************************)
(* The state of a traced system as lttv rebuilds it from the events of one *)
(* trace (lttv/state.c): the process table with the execution mode stack   *)
(* of every process, the process each processor runs, and the state of the *)
(* processors, interrupts, soft interrupts, traps and block devices.       *)
(*                                                                         *)
(* The state of a trace is the record `ts', every hook of state.c is an    *)
(* operator from a state and an event to the next state.  Names of system  *)
(* calls, interrupts and soft interrupts are their numbers, times are      *)
(* natural numbers, and a process is known by its key in the table.        *)
(***************************************************************************)
EXTENDS Integers, Sequences, FiniteSets

CONSTANTS Cpus,        \* the processors of the traced system
          NbIrqs,      \* entries of the interrupt table of a new trace
          NbSoftIrqs,  \* entries of the soft interrupt table
          NbTraps      \* entries of the trap table

ASSUME StateAssumption ==
  /\ Cpus \subseteq Nat /\ Cpus # {}
  /\ NbIrqs \in Nat /\ NbSoftIrqs \in Nat /\ NbTraps \in Nat

ExecutionModes == {"MODE_UNKNOWN", "USER_MODE", "SYSCALL", "TRAP", "IRQ", "SOFT_IRQ"}
ProcessStatuses == {"UNNAMED", "WAIT_FORK", "WAIT_CPU", "EXIT", "ZOMBIE", "WAIT", "RUN", "DEAD"}
CpuModes == {"CPU_UNKNOWN", "CPU_IDLE", "CPU_BUSY", "CPU_IRQ", "CPU_SOFT_IRQ", "CPU_TRAP"}

\* What memory that was never written holds, where a number or a status is read.
Garbage == -1
GarbageStatus == "GARBAGE"

\* A running_process pointer to a process that was freed.
Freed == <<-1, -1>>

\* The table compares pids, and processors too for the idle processes.
Key(cpu, pid) == IF pid = 0 THEN <<0, cpu>> ELSE <<pid, -1>>

SubmodeNone == -1

(* ------------------------------ helpers -------------------------------- *)

Last1(s) == s[Len(s)]
Front1(s) == SubSeq(s, 1, Len(s) - 1)
Put(f, k, v) == [x \in DOMAIN f \cup {k} |-> IF x = k THEN v ELSE f[x]]
Without(f, k) == [x \in DOMAIN f \ {k} |-> f[x]]

Frame(t, n, s, time) == [t |-> t, n |-> n, s |-> s, entry |-> time, change |-> time, cum |-> 0]

\* process->state, the top of the execution stack, and the change of one of its fields.
Top(p) == Last1(p.stack)
WithTop(p, frame) == [p EXCEPT !.stack[Len(p.stack)] = frame]
SetStatus(p, s, time) == WithTop(p, [Top(p) EXCEPT !.s = s, !.change = time])

\* g_array_set_size(stack, 1): what the second entry held stays in memory.
CutTo1(p) ==
  [p EXCEPT !.stack = SubSeq(@, 1, 1),
            !.second = IF Len(p.stack) > 1 THEN p.stack[2].s ELSE @]

SetProcess(ts, k, p) == [ts EXCEPT !.processes = Put(@, k, p)]
Running(ts, cpu) == ts.processes[ts.running[cpu]]
SetRunning(ts, cpu, p) == SetProcess(ts, ts.running[cpu], p)

\* check_expand: an index beyond a table of nb entries at least doubles it.
check_expand(nb, id) ==
  IF nb > id THEN nb ELSE IF id + 1 > nb * 2 THEN id + 1 ELSE nb * 2

Expand(table, nb, id, new) ==
  [i \in 0 .. check_expand(nb, id) - 1 |-> IF i \in DOMAIN table /\ i < nb THEN table[i] ELSE new]

expand_irq_table(ts, id) ==
  [ts EXCEPT !.irqs = Expand(@, ts.nb.irq, id, <<>>), !.nb.irq = check_expand(@, id)]

\* Only the running count of a new entry is set.
expand_soft_irq_table(ts, id) ==
  [ts EXCEPT !.softIrqs = Expand(@, ts.nb.softIrq, id, [pending |-> Garbage, running |-> 0]),
             !.nb.softIrq = check_expand(@, id)]

expand_trap_table(ts, id) ==
  [ts EXCEPT !.traps = Expand(@, ts.nb.trap, id, 0), !.nb.trap = check_expand(@, id)]

(* ------------------------- stacks of modes ------------------------------ *)

SetBaseMode(m) == <<m>>
PopMode(stack, unknown) == IF Len(stack) <= 1 THEN SetBaseMode(unknown) ELSE Front1(stack)

cpu_push_mode(ts, cpu, m) == [ts EXCEPT !.cpus[cpu].modes = Append(@, m)]
cpu_pop_mode(ts, cpu) == [ts EXCEPT !.cpus[cpu].modes = PopMode(@, "CPU_UNKNOWN")]

\* The mode is pushed with the status of the mode it interrupts.
push_state(ts, cpu, t, n, time) ==
  LET p == Running(ts, cpu)
  IN  SetRunning(ts, cpu, [p EXCEPT !.stack = Append(@, Frame(t, n, Top(p).s, time))])

\* lttv_state_pop_state_cleanup, for a stack of more than one mode.
PoppedUnchanged(p, time) == [p EXCEPT !.stack = Front1(@)]
Popped(p, time) ==
  LET under == Front1(p.stack)
  IN  [p EXCEPT !.stack = [under EXCEPT ![Len(under)].change = time],
                !.second = IF Len(under) = 1 THEN Top(p).s ELSE @]

\* A mode that is not on top, or that is the last one, is not popped.
pop_state(ts, cpu, t, time) ==
  LET p == Running(ts, cpu)
  IN  IF Top(p).t # t \/ Len(p.stack) = 1 THEN ts
      ELSE SetRunning(ts, cpu, Popped(p, time))

(* --------------------------- process table ------------------------------ *)

\* A process is born in a system call, waiting for its fork to end, over user mode.
NewProcess(ppid, cpu, pid, name, creation, time) ==
  [pid |-> pid, ppid |-> ppid, cpu |-> cpu, type |-> "USER_THREAD",
   name |-> name, brand |-> "UNBRANDED",
   stack |-> <<Frame("USER_MODE", SubmodeNone, "RUN", time),
               Frame("SYSCALL", SubmodeNone, "WAIT_FORK", time)>>,
   second |-> "WAIT_FORK", creation |-> creation, freeEvents |-> 0,
   functions |-> <<>>, current |-> 0, fds |-> {}]

\* A process nothing is known of: an unknown mode only.
UnknownProcess(cpu, pid, time) ==
  LET p == CutTo1(NewProcess(0, cpu, pid, "UNNAMED", 0, time))
  IN  WithTop(p, [Top(p) EXCEPT !.t = "MODE_UNKNOWN", !.s = "UNNAMED"])

Known(ts, cpu, pid) == Key(cpu, pid) \in DOMAIN ts.processes

find_process_or_create(ts, cpu, pid, time) ==
  IF Known(ts, cpu, pid) THEN ts
  ELSE SetProcess(ts, Key(cpu, pid), UnknownProcess(cpu, pid, time))

\* Freed by the second of the schedule out of the dead process and its release.
exit_process(ts, k) ==
  IF ts.processes[k].freeEvents + 1 < 2
  THEN [ts EXCEPT !.processes[k].freeEvents = @ + 1]
  ELSE [ts EXCEPT !.processes = Without(@, k),
                  !.running = [c \in Cpus |-> IF @[c] = k THEN Freed ELSE @[c]]]

\* The state at the beginning of a trace, or of a part of it.  The stacks of a
\* processor are emptied together, if its mode stack is not empty.
restore_init_state(ts, start) ==
  LET emptied(c) == [modes |-> <<>>, irqs |-> <<>>, softIrqs |-> <<>>, traps |-> <<>>]
  IN  [ts EXCEPT
        !.processes = [k \in {Key(c, 0) : c \in Cpus} |-> UnknownProcess(k[2], 0, start)],
        !.running = [c \in Cpus |-> Key(c, 0)],
        !.cpus = [c \in Cpus |-> IF @[c].modes # <<>> THEN emptied(c) ELSE @[c]],
        !.irqs = [i \in DOMAIN @ |-> <<>>],
        !.softIrqs = [i \in DOMAIN @ |-> [pending |-> 0, running |-> 0]],
        !.traps = [i \in DOMAIN @ |-> 0],
        !.bdevs = <<>>]

\* init: the tables of a trace with the entries the name tables have.
InitialState(start) ==
  restore_init_state(
    [processes |-> <<>>, running |-> <<>>,
     cpus |-> [c \in Cpus |-> [modes |-> <<>>, irqs |-> <<>>, softIrqs |-> <<>>, traps |-> <<>>]],
     irqs |-> [i \in 0 .. NbIrqs - 1 |-> <<>>],
     softIrqs |-> [i \in 0 .. NbSoftIrqs - 1 |-> 0],
     traps |-> [i \in 0 .. NbTraps - 1 |-> 0],
     bdevs |-> <<>>,
     nb |-> [irq |-> NbIrqs, softIrq |-> NbSoftIrqs, trap |-> NbTraps]], start)

(* ------------------------ system calls and traps ------------------------ *)

\* There can be no system call from pid 0.
syscall_entry(ts, e) ==
  IF Running(ts, e.cpu).pid = 0 THEN ts
  ELSE push_state(ts, e.cpu, "SYSCALL", e.id, e.time)

syscall_exit(ts, e) ==
  IF Running(ts, e.cpu).pid = 0 THEN ts
  ELSE pop_state(ts, e.cpu, "SYSCALL", e.time)

trap_entry(ts, e) ==
  LET wide == expand_trap_table(ts, e.id)
      busy == cpu_push_mode(push_state(wide, e.cpu, "TRAP", e.id, e.time), e.cpu, "CPU_TRAP")
  IN  [busy EXCEPT !.cpus[e.cpu].traps = Append(@, e.id),
                   !.traps[e.id] = @ + 1]

trap_exit(ts, e) ==
  LET out == cpu_pop_mode(pop_state(ts, e.cpu, "TRAP", e.time), e.cpu)
      nested == ts.cpus[e.cpu].traps
  IN  IF nested = <<>> THEN out
      ELSE [out EXCEPT !.traps[Last1(nested)] = IF @ > 0 THEN @ - 1 ELSE @,
                       !.cpus[e.cpu].traps = Front1(nested)]

(* ------------------------------ interrupts ------------------------------ *)

irq_entry(ts, e) ==
  LET wide == expand_irq_table(ts, e.id)
      busy == cpu_push_mode(push_state(wide, e.cpu, "IRQ", e.id, e.time), e.cpu, "CPU_IRQ")
  IN  [busy EXCEPT !.cpus[e.cpu].irqs = Append(@, e.id),
                   !.irqs[e.id] = Append(@, "IRQ_BUSY")]

irq_exit(ts, e) ==
  LET out == cpu_pop_mode(pop_state(ts, e.cpu, "IRQ", e.time), e.cpu)
      nested == ts.cpus[e.cpu].irqs
  IN  IF nested = <<>> THEN out
      ELSE [out EXCEPT !.cpus[e.cpu].irqs = Front1(nested),
                       !.irqs[Last1(nested)] = PopMode(@, "IRQ_UNKNOWN")]

\* Raising is not cumulative.  The table is not expanded here: an index beyond
\* it is written all the same, outside of the entries the model keeps.
soft_irq_raise(ts, e) ==
  IF e.id \in DOMAIN ts.softIrqs THEN [ts EXCEPT !.softIrqs[e.id].pending = 1] ELSE ts

soft_irq_entry(ts, e) ==
  LET wide == expand_soft_irq_table(ts, e.id)
      busy == cpu_push_mode(push_state(wide, e.cpu, "SOFT_IRQ", e.id, e.time),
                            e.cpu, "CPU_SOFT_IRQ")
  IN  [busy EXCEPT !.cpus[e.cpu].softIrqs = Append(@, e.id),
                   !.softIrqs[e.id] = [pending |-> IF @.pending = 1 THEN 0 ELSE @.pending,
                                       running |-> @.running + 1]]

soft_irq_exit(ts, e) ==
  LET out == cpu_pop_mode(pop_state(ts, e.cpu, "SOFT_IRQ", e.time), e.cpu)
      nested == ts.cpus[e.cpu].softIrqs
  IN  IF nested = <<>> THEN out
      ELSE [out EXCEPT !.softIrqs[Last1(nested)].running = IF @ > 0 THEN @ - 1 ELSE @,
                       !.cpus[e.cpu].softIrqs = Front1(nested)]

\* The lists of the state dump name interrupts, and make room for their names.
enum_interrupt(ts, e) == expand_irq_table(ts, e.id)
dump_softirq(ts, e) == expand_soft_irq_table(ts, e.id)

(* ----------------------------- block devices ---------------------------- *)

\* get_hashed_bdevstate: a device not seen before has an empty stack.
BdevModes(ts, dev) == IF dev \in DOMAIN ts.bdevs THEN ts.bdevs[dev] ELSE <<>>

bdev_request_issue(ts, e) ==
  [ts EXCEPT !.bdevs = Put(@, e.dev, Append(BdevModes(ts, e.dev), e.oper))]

bdev_request_complete(ts, e) ==
  [ts EXCEPT !.bdevs = Put(@, e.dev, PopMode(BdevModes(ts, e.dev), "BDEV_UNKNOWN"))]

(* ----------------------------- user functions --------------------------- *)

function_entry(ts, e) ==
  SetRunning(ts, e.cpu, [Running(ts, e.cpu) EXCEPT !.functions = Append(@, e.id),
                                                   !.current = e.id])

\* The function under the one that ends is current again; under the first one
\* the code reads the entry before the array.
function_exit(ts, e) ==
  LET p == Running(ts, e.cpu)
      under == Front1(p.functions)
  IN  IF p.current # e.id \/ p.functions = <<>> THEN ts
      ELSE SetRunning(ts, e.cpu,
             [p EXCEPT !.functions = under,
                       !.current = IF under = <<>> THEN Garbage ELSE Last1(under)])

(* ------------------------------ scheduling ------------------------------ *)

sched_try_wakeup(ts, e) ==
  LET k == Key(e.wokenCpu, e.pid)
      found == find_process_or_create(ts, e.wokenCpu, e.pid, e.time)
  IN  SetProcess(found, k, SetStatus(found.processes[k], "WAIT_CPU", e.time))

\* Mutant: only the state of zombies is taken for an end.
ZombieOnly(stateOut) == stateOut = 32
Dead(stateOut) == stateOut \in {32, 64}

\* What the schedule out does to the process the state believes to run.
ScheduledOut(ts, e) ==
  LET k == ts.running[e.cpu]
      p == Running(ts, e.cpu)
      out == SetProcess(ts, k, SetStatus(p, IF Top(p).s = "EXIT" THEN "ZOMBIE"
                                            ELSE IF e.stateOut = 0 THEN "WAIT_CPU"
                                            ELSE "WAIT", e.time))
      left == exit_process(out, k)
  IN  IF p.pid = 0 /\ Top(p).t = "MODE_UNKNOWN"
      THEN IF e.pidOut # 0 THEN ts
           ELSE SetProcess(ts, k, WithTop(p, [Top(p) EXCEPT !.t = "SYSCALL", !.s = "WAIT",
                                                            !.change = e.time, !.entry = e.time]))
      ELSE IF ~Dead(e.stateOut) THEN out
      ELSE IF k \notin DOMAIN left.processes THEN left
      ELSE SetProcess(left, k, SetStatus(left.processes[k], "DEAD", e.time))

InKeyOfAnyCpu(e) == Key(0, e.pidIn)
InKey(e) == Key(e.cpu, e.pidIn)

\* The stack of the processor starts anew with the mode of the process.
SwitchedModesFlat(pid, p) == SetBaseMode(IF pid = 0 THEN "CPU_IDLE" ELSE "CPU_BUSY")
SwitchedModes(pid, p) ==
  IF pid = 0 THEN SetBaseMode("CPU_IDLE")
  ELSE IF Top(p).t = "TRAP" THEN Append(SetBaseMode("CPU_BUSY"), "CPU_TRAP")
  ELSE SetBaseMode("CPU_BUSY")

schedchange(ts, e) ==
  LET k == InKey(e)
      found == find_process_or_create(ScheduledOut(ts, e), e.cpu, e.pidIn, e.time)
      p == SetStatus(found.processes[k], "RUN", e.time)
  IN  [SetProcess(found, k, [p EXCEPT !.cpu = e.cpu])
         EXCEPT !.running[e.cpu] = k, !.cpus[e.cpu].modes = SwitchedModes(e.pidIn, p)]

(* ------------------------ births and deaths ----------------------------- *)

\* A child that is known already ends the program with an error (BornLivesAgree
\* of StateTrace is about that).
process_fork(ts, e) ==
  LET parent == Running(ts, e.cpu)
      child == NewProcess(parent.pid, e.cpu, e.pid, parent.name, e.time, e.time)
  IN  SetProcess(ts, Key(e.cpu, e.pid), [child EXCEPT !.brand = parent.brand])

process_kernel_thread(ts, e) ==
  LET k == Key(e.cpu, e.pid)
      found == find_process_or_create(ts, e.cpu, e.pid, 0)
      p == found.processes[k]
      cut == CutTo1(p)
      thread == IF Top(p).s = "DEAD" THEN p
                ELSE WithTop(cut, [Top(cut) EXCEPT !.t = "SYSCALL"])
  IN  SetProcess(found, k, [thread EXCEPT !.type = "KERNEL_THREAD"])

process_exit(ts, e) ==
  LET k == Key(e.cpu, e.pid)
      p == ts.processes[k]
  IN  IF ~Known(ts, e.cpu, e.pid) THEN ts
      ELSE SetProcess(ts, k, WithTop(p, [Top(p) EXCEPT !.s = "EXIT"]))

process_free(ts, e) ==
  IF Known(ts, e.cpu, e.pid) THEN exit_process(ts, Key(e.cpu, e.pid)) ELSE ts

process_exec(ts, e) ==
  SetRunning(ts, e.cpu, [Running(ts, e.cpu) EXCEPT !.name = e.name, !.brand = "UNBRANDED"])

thread_brand(ts, e) ==
  SetRunning(ts, e.cpu, [Running(ts, e.cpu) EXCEPT !.brand = e.name])

fs_open(ts, e) ==
  SetRunning(ts, e.cpu, [Running(ts, e.cpu) EXCEPT !.fds = @ \cup {e.id}])

(* ------------------------------ state dump ------------------------------ *)

\* One process of the dump.  The idle processes are all told their parent and
\* name; a process that is not known yet is created with an unknown mode.
enum_process_state(ts, e) ==
  LET k == Key(e.cpu, e.pid)
      parent == Key(e.cpu, e.parent)
      told(p) == [p EXCEPT !.ppid = e.parent, !.name = e.name, !.type = e.type]
      new == CutTo1(NewProcess(
               IF parent \in DOMAIN ts.processes THEN ts.processes[parent].pid ELSE 0,
               e.cpu, e.pid, e.name,
               IF parent \in DOMAIN ts.processes THEN e.time ELSE 0, e.time))
  IN  IF e.pid = 0
      THEN [ts EXCEPT !.processes =
              [x \in DOMAIN @ |-> IF @[x].pid # 0 THEN @[x]
                                  ELSE [told(@[x]) EXCEPT !.type = "KERNEL_THREAD"]]]
      ELSE IF Known(ts, e.cpu, e.pid) THEN SetProcess(ts, k, told(ts.processes[k]))
      ELSE SetProcess(ts, k,
             [WithTop(new, [Top(new) EXCEPT !.t = "MODE_UNKNOWN", !.s = "UNNAMED", !.n = -2])
                EXCEPT !.type = e.type])

\* At the end of the dump unknown modes are guessed: kernel threads are in a
\* system call, other processes in user mode, and in a system call over it
\* unless they are known to wait for a processor.
fix_process(p, time) ==
  LET bottom == p.stack[1]
      known(t, s) == [Frame(t, SubmodeNone, s, time) EXCEPT
                        !.s = IF bottom.s = "UNNAMED" THEN s ELSE bottom.s]
      user == known("USER_MODE", "RUN")
      call == Frame("SYSCALL", SubmodeNone,
                    IF p.second = "WAIT_FORK" THEN "WAIT" ELSE p.second, time)
  IN  IF bottom.t # "MODE_UNKNOWN" THEN p
      ELSE IF p.type = "KERNEL_THREAD" THEN [p EXCEPT !.stack[1] = known("SYSCALL", "WAIT")]
      ELSE IF Len(p.stack) = 1 /\ user.s # "WAIT_CPU" THEN [p EXCEPT !.stack = <<user, call>>]
      ELSE [p EXCEPT !.stack[1] = user]

statedump_end(ts, e) ==
  [ts EXCEPT !.processes = [k \in DOMAIN @ |-> fix_process(@[k], e.time)]]

\* lttv_state_add_event_hooks: the hook of every kind of event.  Page faults are
\* traps to the state; other events have no hook.
Hook(ts, e) ==
  CASE e.kind = "syscall_entry" -> syscall_entry(ts, e)
    [] e.kind = "syscall_exit" -> syscall_exit(ts, e)
    [] e.kind \in {"trap_entry", "page_fault_entry"} -> trap_entry(ts, e)
    [] e.kind \in {"trap_exit", "page_fault_exit"} -> trap_exit(ts, e)
    [] e.kind = "irq_entry" -> irq_entry(ts, e)
    [] e.kind = "irq_exit" -> irq_exit(ts, e)
    [] e.kind = "soft_irq_raise" -> soft_irq_raise(ts, e)
    [] e.kind = "soft_irq_entry" -> soft_irq_entry(ts, e)
    [] e.kind = "soft_irq_exit" -> soft_irq_exit(ts, e)
    [] e.kind = "schedchange" -> schedchange(ts, e)
    [] e.kind = "sched_try_wakeup" -> sched_try_wakeup(ts, e)
    [] e.kind = "process_fork" -> process_fork(ts, e)
    [] e.kind = "process_kernel_thread" -> process_kernel_thread(ts, e)
    [] e.kind = "process_exit" -> process_exit(ts, e)
    [] e.kind = "process_free" -> process_free(ts, e)
    [] e.kind = "process_exec" -> process_exec(ts, e)
    [] e.kind = "thread_brand" -> thread_brand(ts, e)
    [] e.kind = "fs_open" -> fs_open(ts, e)
    [] e.kind = "enum_process_state" -> enum_process_state(ts, e)
    [] e.kind = "statedump_end" -> statedump_end(ts, e)
    [] e.kind = "enum_interrupt" -> enum_interrupt(ts, e)
    [] e.kind = "dump_softirq" -> dump_softirq(ts, e)
    [] e.kind = "bdev_request_issue" -> bdev_request_issue(ts, e)
    [] e.kind = "bdev_request_complete" -> bdev_request_complete(ts, e)
    [] e.kind = "function_entry" -> function_entry(ts, e)
    [] e.kind = "function_exit" -> function_exit(ts, e)
    [] OTHER -> ts
=============================================================================
