----------------------------- MODULE StateTrace -----------------------------
(***************************************************************************)
(* A trace being read: the traced kernel, whose events are the trace, and  *)
(* the state and statistics lttv computes from them.  The kernel is no     *)
(* part of the program; it is modelled as far as the hooks of state.c      *)
(* depend on it: which process runs where, in which modes, and when        *)
(* processes are born and die.  The trace starts in the middle of its      *)
(* life, so the state has to find out what the kernel is doing.            *)
(***************************************************************************)
EXTENDS Statistics

CONSTANTS InitialPids,  \* processes that live when the trace starts
          NewPids,      \* pids of the processes born in the trace, used again and again
          Ids,          \* numbers of system calls, interrupts, ...
          Kinds,        \* kinds of events that are traced
          Ticks,        \* the clock's advance between events, 0 where times do not matter
          MaxTime,      \* bound of the clock
          MaxDepth,     \* bound of the nesting of modes
          Counting,     \* whether the hooks of the statistics are registered
          Recorded      \* whether the events are kept, to be read again

Pids == InitialPids \cup NewPids

ASSUME StateTraceAssumption ==
  /\ Pids \subseteq Nat \ {0} /\ Ids \subseteq Nat /\ InitialPids \cap NewPids = {}
  /\ Ticks \in Nat /\ MaxTime \in Nat /\ MaxDepth \in Nat
  /\ Counting \in BOOLEAN /\ Recorded \in BOOLEAN

VARIABLES current,  \* the pid every processor runs
          mode,     \* the modes of every process, and of the idle process of every processor
          status,   \* none, forked, ready, run, wait or dead
          ending,   \* how far a process got in its end: exit, free
          kthread,  \* the kernel threads
          clock,    \* time of the last event
          trace,    \* the events read, where they are kept
          v,        \* the state (v.ts) and the statistics (v.st)
          synced,   \* processors that switched processes since the trace started
          born,     \* pids whose process was born in the trace
          ran       \* time every process ran since it was born

kernel == <<current, mode, status, ending, kthread>>
vars == <<current, mode, status, ending, kthread, clock, trace, v, synced, born, ran>>

CurrentKey(c) == Key(c, current[c])
TopMode(c) == Last1(mode[CurrentKey(c)])

\* Process modes the kernel may be in when the trace starts.
StartModes == {<<"USER_MODE">>, <<"USER_MODE", "SYSCALL">>}

Init ==
  /\ current \in {f \in [Cpus -> {0} \cup InitialPids] :
                    \A c, d \in Cpus : f[c] = f[d] /\ f[c] # 0 => c = d}
  /\ \E m \in [InitialPids -> StartModes] :
       mode = [k \in {Key(c, 0) : c \in Cpus} \cup {Key(0, p) : p \in Pids} |->
                 IF k[1] \in InitialPids THEN m[k[1]] ELSE <<"SYSCALL">>]
  /\ status \in {s \in [Pids -> {"none", "ready", "run", "wait"}] :
                   /\ \A p \in NewPids : s[p] = "none"
                   /\ \A p \in InitialPids :
                        /\ s[p] # "none"
                        /\ s[p] = "run" <=> \E c \in Cpus : current[c] = p
                        /\ s[p] = "wait" => Last1(mode[Key(0, p)]) = "SYSCALL"}
  /\ ending = [p \in Pids |-> {}]
  /\ kthread = {}
  /\ clock = 1 /\ trace = <<>>
  /\ v = [ts |-> InitialState(1), st |-> InitialStatistics]
  /\ synced = {} /\ born = {}
  /\ ran = [p \in Pids |-> 0]

\* The hooks of one event, in the order of their priorities, and the clock.
Process(w, e) ==
  LET before == BeforeState(w, e)
      after == AfterState([before EXCEPT !.ts = Hook(@, e)], e)
  IN  IF Counting THEN every_event(after, e) ELSE [w EXCEPT !.ts = Hook(@, e)]

Elapse ==
  ran' = [p \in Pids |-> IF p \in born /\ status[p] = "run" THEN ran[p] + Ticks ELSE ran[p]]

Read(e) ==
  /\ e.kind \in Kinds
  /\ Ticks > 0 => clock < MaxTime
  /\ clock' = clock + Ticks
  /\ v' = Process(v, e)
  /\ trace' = IF Recorded THEN Append(trace, e) ELSE trace

Event(kind, c) == [kind |-> kind, cpu |-> c, time |-> clock + Ticks]
EventId(kind, c, id) == [kind |-> kind, cpu |-> c, time |-> clock + Ticks, id |-> id]

(* ------------------------ modes of the kernel --------------------------- *)

Push(c, m) ==
  /\ Len(mode[CurrentKey(c)]) < MaxDepth
  /\ mode' = [mode EXCEPT ![CurrentKey(c)] = Append(@, m)]
  /\ Elapse
  /\ UNCHANGED <<current, status, ending, kthread, synced, born>>

Pop(c, m) ==
  /\ TopMode(c) = m /\ Len(mode[CurrentKey(c)]) > 1
  /\ mode' = [mode EXCEPT ![CurrentKey(c)] = Front1(@)]
  /\ Elapse
  /\ UNCHANGED <<current, status, ending, kthread, synced, born>>

\* Events that tell of something that changes no mode and no process.
Tell == Elapse /\ UNCHANGED <<current, mode, status, ending, kthread, synced, born>>

Exiting(c) == current[c] # 0 /\ ending[current[c]] # {}

SyscallEntry(c, id) ==
  current[c] # 0 /\ TopMode(c) = "USER_MODE" /\ Push(c, "SYSCALL")
    /\ Read(EventId("syscall_entry", c, id))

SyscallExit(c) ==
  ~Exiting(c) /\ Pop(c, "SYSCALL") /\ Read(Event("syscall_exit", c))

TrapEntry(c, id, kind) ==
  /\ kind \in {"trap_entry", "page_fault_entry"}
  /\ current[c] # 0 /\ TopMode(c) \in {"USER_MODE", "SYSCALL"}
  /\ Push(c, "TRAP") /\ Read(EventId(kind, c, id))

TrapExit(c, kind) ==
  kind \in {"trap_exit", "page_fault_exit"} /\ Pop(c, "TRAP") /\ Read(Event(kind, c))

IrqEntry(c, id) == Push(c, "IRQ") /\ Read(EventId("irq_entry", c, id))
IrqExit(c) == Pop(c, "IRQ") /\ Read(Event("irq_exit", c))

SoftIrqRaise(c, id) ==
  TopMode(c) = "IRQ" /\ Tell /\ Read(EventId("soft_irq_raise", c, id))

SoftIrqEntry(c, id) ==
  TopMode(c) \notin {"IRQ", "SOFT_IRQ"} /\ Push(c, "SOFT_IRQ")
    /\ Read(EventId("soft_irq_entry", c, id))

SoftIrqExit(c) == Pop(c, "SOFT_IRQ") /\ Read(Event("soft_irq_exit", c))

(* ---------------------- processes of the kernel ------------------------- *)

\* The state the process that is switched out is left in, as the event tells it.
OutStates(c) ==
  IF current[c] = 0 THEN {0}
  ELSE {0} \cup (IF TopMode(c) \in {"SYSCALL", "TRAP"} THEN {1} ELSE {})
           \cup (IF Exiting(c) /\ TopMode(c) = "SYSCALL" THEN {64} ELSE {})

\* A process that is dead and released is gone, and its pid free for another.
AfterSwitch(p, stateOut) ==
  CASE stateOut = 0 -> "ready"
    [] stateOut = 64 -> IF "free" \in ending[p] THEN "none" ELSE "dead"
    [] OTHER -> "wait"

SchedChange(c, in, stateOut) ==
  LET out == current[c]
      left == IF out = 0 THEN status ELSE [status EXCEPT ![out] = AfterSwitch(out, stateOut)]
  IN  /\ TopMode(c) \in {"USER_MODE", "SYSCALL", "TRAP"}
      /\ in # out /\ in \in {0} \cup {p \in Pids : status[p] = "ready"}
      /\ stateOut \in OutStates(c)
      /\ current' = [current EXCEPT ![c] = in]
      /\ status' = IF in = 0 THEN left ELSE [left EXCEPT ![in] = "run"]
      /\ ending' = [p \in Pids |-> IF status'[p] = "none" THEN {} ELSE ending[p]]
      /\ synced' = synced \cup {c}
      /\ Elapse
      /\ UNCHANGED <<mode, kthread, born>>
      /\ Read([kind |-> "schedchange", cpu |-> c, time |-> clock + Ticks,
               pidOut |-> out, pidIn |-> in, stateOut |-> stateOut])

Wakeup(c, p) ==
  /\ status[p] = "wait"
  /\ status' = [status EXCEPT ![p] = "ready"]
  /\ Elapse
  /\ UNCHANGED <<current, mode, ending, kthread, synced, born>>
  /\ Read([kind |-> "sched_try_wakeup", cpu |-> c, time |-> clock + Ticks,
           pid |-> p, wokenCpu |-> c])

Fork(c, p, thread) ==
  /\ current[c] # 0 /\ TopMode(c) = "SYSCALL" /\ ~Exiting(c)
  /\ p \in NewPids /\ status[p] = "none"
  /\ thread => "process_kernel_thread" \in Kinds
  /\ status' = [status EXCEPT ![p] = IF thread THEN "forked" ELSE "ready"]
  /\ mode' = [mode EXCEPT ![Key(c, p)] = IF thread THEN <<"SYSCALL">>
                                         ELSE <<"USER_MODE", "SYSCALL">>]
  /\ kthread' = IF thread THEN kthread \cup {p} ELSE kthread \ {p}
  /\ born' = born \cup {p}
  /\ ran' = [q \in Pids |-> IF q = p THEN 0
                            ELSE IF q \in born /\ status[q] = "run" THEN ran[q] + Ticks
                            ELSE ran[q]]
  /\ UNCHANGED <<current, ending, synced>>
  /\ Read([kind |-> "process_fork", cpu |-> c, time |-> clock + Ticks, pid |-> p])

\* A kernel thread is stamped as one before it may run.
KernelThread(c, p) ==
  /\ status[p] = "forked"
  /\ status' = [status EXCEPT ![p] = "ready"]
  /\ Elapse
  /\ UNCHANGED <<current, mode, ending, kthread, synced, born>>
  /\ Read([kind |-> "process_kernel_thread", cpu |-> c, time |-> clock + Ticks, pid |-> p])

Exit(c) ==
  /\ current[c] # 0 /\ TopMode(c) = "SYSCALL" /\ ~Exiting(c)
  /\ ending' = [ending EXCEPT ![current[c]] = {"exit"}]
  /\ Elapse
  /\ UNCHANGED <<current, mode, status, kthread, synced, born>>
  /\ Read([kind |-> "process_exit", cpu |-> c, time |-> clock + Ticks, pid |-> current[c]])

\* The release of an ending process, before or after it is switched out dead.
Free(c, p) ==
  /\ ending[p] = {"exit"}
  /\ status' = IF status[p] = "dead" THEN [status EXCEPT ![p] = "none"] ELSE status
  /\ ending' = [ending EXCEPT ![p] = IF status[p] = "dead" THEN {} ELSE @ \cup {"free"}]
  /\ Elapse
  /\ UNCHANGED <<current, mode, kthread, synced, born>>
  /\ Read([kind |-> "process_free", cpu |-> c, time |-> clock + Ticks, pid |-> p])

Exec(c) ==
  current[c] # 0 /\ TopMode(c) = "SYSCALL" /\ Tell
    /\ Read([kind |-> "process_exec", cpu |-> c, time |-> clock + Ticks, name |-> "program"])

Brand(c) ==
  current[c] # 0 /\ TopMode(c) = "SYSCALL" /\ Tell
    /\ Read([kind |-> "thread_brand", cpu |-> c, time |-> clock + Ticks, name |-> "branded"])

Open(c, id) ==
  current[c] # 0 /\ TopMode(c) = "SYSCALL" /\ Tell /\ Read(EventId("fs_open", c, id))

\* The dump tells the idle process and every process that exists.
ProcessState(c, p) ==
  /\ p \in {0} \cup {q \in Pids : status[q] # "none"}
  /\ Tell
  /\ Read([kind |-> "enum_process_state", cpu |-> c, time |-> clock + Ticks, pid |-> p,
           parent |-> 0, name |-> "dumped",
           type |-> IF p \in kthread \cup {0} THEN "KERNEL_THREAD" ELSE "USER_THREAD"])

StatedumpEnd(c) == Tell /\ Read(Event("statedump_end", c))

ListInterrupt(c, id) == Tell /\ Read(EventId("enum_interrupt", c, id))
ListSoftIrq(c, id) == Tell /\ Read(EventId("dump_softirq", c, id))

Request(c, id, oper) ==
  Tell /\ Read([kind |-> "bdev_request_issue", cpu |-> c, time |-> clock + Ticks,
                dev |-> id, oper |-> oper])
    /\ Len(BdevModes(v.ts, id)) < 2

RequestDone(c, id) ==
  Tell /\ Read([kind |-> "bdev_request_complete", cpu |-> c, time |-> clock + Ticks, dev |-> id])

Call(c, id) ==
  /\ TopMode(c) = "USER_MODE" /\ Len(Running(v.ts, c).functions) < 2
  /\ Tell /\ Read(EventId("function_entry", c, id))

Return(c, id) == TopMode(c) = "USER_MODE" /\ Tell /\ Read(EventId("function_exit", c, id))

Next ==
  \E c \in Cpus :
    \/ SyscallExit(c) \/ IrqExit(c) \/ SoftIrqExit(c)
    \/ \E kind \in {"trap_exit", "page_fault_exit"} : TrapExit(c, kind)
    \/ \E id \in Ids :
         \/ SyscallEntry(c, id) \/ IrqEntry(c, id)
         \/ \E kind \in {"trap_entry", "page_fault_entry"} : TrapEntry(c, id, kind)
         \/ SoftIrqRaise(c, id) \/ SoftIrqEntry(c, id)
         \/ ListInterrupt(c, id) \/ ListSoftIrq(c, id)
    \/ \E in \in {0} \cup Pids, stateOut \in {0, 1, 64} : SchedChange(c, in, stateOut)
    \/ \E p \in Pids :
         \/ Wakeup(c, p) \/ KernelThread(c, p) \/ Free(c, p)
         \/ \E thread \in BOOLEAN : Fork(c, p, thread)
    \/ Exit(c) \/ StatedumpEnd(c)

\* Events about what processes and devices are called and do, which matter to
\* who keeps, restores or shows the state.
Described ==
  \E c \in Cpus :
    \/ Exec(c) \/ Brand(c)
    \/ \E id \in Ids :
         \/ Open(c, id) \/ Call(c, id) \/ Return(c, id)
         \/ \E oper \in {"BUSY_READING", "BUSY_WRITING"} : Request(c, id, oper)
         \/ RequestDone(c, id)
    \/ \E p \in {0} \cup Pids : ProcessState(c, p)

Spec == Init /\ [][Next]_vars

(* ----------------------------- properties ------------------------------- *)

Modes(p) == [i \in 1 .. Len(p.stack) |-> p.stack[i].t]
Table == v.ts.processes
Alive(p) == status[p] # "none"
BornAlive == {p \in born : Alive(p) /\ status[p] # "forked"}

\* From its first switch on, the process a processor is taken to run is the one
\* it runs; before, it is one of the table too, never one exit_process freed.
RunningIsCurrent ==
  \A c \in Cpus :
    /\ v.ts.running[c] \in DOMAIN Table
    /\ c \in synced => v.ts.running[c] = CurrentKey(c)

\* A process whose birth is in the trace is known until it is dead and released,
\* whatever the order of the two, and no longer, so that its pid may be used
\* again; its modes are those it has in the kernel, over interrupts, switches
\* between processors and its end.
BornLivesAgree ==
  /\ \A p \in born : Alive(p) <=> Key(0, p) \in DOMAIN Table
  /\ \A p \in BornAlive : Modes(Table[Key(0, p)]) = mode[Key(0, p)]

\* The mode shown for a processor is the mode of the process it runs, once both
\* are known: the stack of the processor is rebuilt at every switch, from the
\* mode the process was left in, perhaps on another processor.  An interrupt is
\* busy exactly while some processor serves it, and a soft interrupt runs as
\* many times as processors are in it, from the start on.
ShownMode(c) ==
  CASE TopMode(c) = "TRAP" -> "CPU_TRAP"
    [] TopMode(c) = "IRQ" -> "CPU_IRQ"
    [] TopMode(c) = "SOFT_IRQ" -> "CPU_SOFT_IRQ"
    [] OTHER -> IF current[c] = 0 THEN "CPU_IDLE" ELSE "CPU_BUSY"

Nested(s, id) == Cardinality({i \in DOMAIN s : s[i] = id})

\* Where stacks of the processors hold an id.
Places(stacks, id) ==
  {x \in UNION {{c} \X DOMAIN stacks[c] : c \in Cpus} : stacks[x[1]][x[2]] = id}

CpuModesAgree ==
  /\ \A c \in synced :
       current[c] \in born \cup {0} => Last1(v.ts.cpus[c].modes) = ShownMode(c)
  /\ \A id \in Ids :
       /\ Places([c \in Cpus |-> v.ts.cpus[c].irqs], id) # {}
            <=> /\ id \in DOMAIN v.ts.irqs
                /\ v.ts.irqs[id] # <<>> /\ Last1(v.ts.irqs[id]) = "IRQ_BUSY"
       /\ Cardinality(Places([c \in Cpus |-> v.ts.cpus[c].softIrqs], id)) =
            IF id \in DOMAIN v.ts.softIrqs THEN v.ts.softIrqs[id].running ELSE 0
       /\ \A c \in Cpus : Nested(v.ts.cpus[c].irqs, id) <= Nested(mode[CurrentKey(c)], "IRQ")

\* The branch a processor's events and times are counted in is the one its
\* running process is in, unless nothing was known yet: every hook that changes
\* what the branch depends on is followed by one that finds it again.
BranchIsCurrent ==
  \A c \in Cpus : v.st.branch[c] \in {UnknownBranch(c), BranchOf(v.ts, c)}

BranchesOf(p) ==
  {b \in DOMAIN v.st.tree : b.pid = p /\ b.creation = Table[Key(0, p)].creation}

\* What is charged for the mode that is on top with the next event.
Pending(p) ==
  IF status[p] # "run" THEN 0
  ELSE LET c == CHOOSE x \in Cpus : current[x] = p IN Charged(v.ts, c, clock)

\* The processor time of a process born in the trace is the time it ran: never
\* more, and not less before it exits, however its modes nest and wherever it is
\* switched to.
BornTimesAgree ==
  \A p \in BornAlive :
    LET spent == CpuTime(v.st, BranchesOf(p)) + Pending(p)
    IN  spent <= ran[p] /\ (ending[p] = {} => spent = ran[p])

TypeOK ==
  /\ \A k \in DOMAIN Table :
       LET p == Table[k]
       IN  /\ k = Key(p.cpu, p.pid) /\ p.freeEvents \in {0, 1}
           /\ p.stack # <<>>
           /\ \A i \in DOMAIN p.stack : /\ p.stack[i].t \in ExecutionModes
                                       /\ p.stack[i].s \in ProcessStatuses \cup {GarbageStatus}
                                       /\ p.stack[i].entry <= p.stack[i].change
  /\ \A c \in Cpus : \A i \in DOMAIN v.ts.cpus[c].modes : v.ts.cpus[c].modes[i] \in CpuModes
=============================================================================
