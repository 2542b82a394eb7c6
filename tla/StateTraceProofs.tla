--------------------------- MODULE StateTraceProofs ---------------------------
(***************************************************************************)
(* What the state keeps of the processes of any traced system, whatever    *)
(* the trace tells of its processors, processes and interrupts.            *)
(***************************************************************************)
EXTENDS StateTrace, TLAPS

-----------------------------------------------------------------------------
(* States and processes.                                                   *)

IsFrame(f) == DOMAIN f = {"t", "n", "s", "entry", "change", "cum"}

\* A stack of modes is never empty.
IsStack(s) == s # <<>> /\ \E S : s \in Seq(S) /\ \A f \in S : IsFrame(f)

IsProcess(p) ==
  /\ DOMAIN p = {"pid", "ppid", "cpu", "type", "name", "brand", "stack", "second", "creation",
                 "freeEvents", "functions", "current", "fds"}
  /\ IsStack(p.stack)

LEMMA StackFacts ==
  ASSUME NEW s, IsStack(s)
  PROVE  /\ Len(s) \in Nat \ {0} /\ DOMAIN s = 1 .. Len(s)
         /\ \A i \in 1 .. Len(s) : IsFrame(s[i])
         /\ IsFrame(Last1(s))
<1>1. PICK S : s \in Seq(S) /\ \A f \in S : IsFrame(f)
  BY DEF IsStack
<1>2. Len(s) \in Nat /\ DOMAIN s = 1 .. Len(s) /\ \A i \in 1 .. Len(s) : s[i] \in S
  BY <1>1
<1>3. Len(s) # 0
  BY <1>1 DEF IsStack
<1> QED
  BY <1>1, <1>2, <1>3 DEF Last1

LEMMA PushFacts ==
  ASSUME NEW s, IsStack(s), NEW f, IsFrame(f)
  PROVE  LET u == Append(s, f) IN
         /\ IsStack(u) /\ Len(u) = Len(s) + 1 /\ Last1(u) = f /\ Front1(u) = s
         /\ \A i \in 1 .. Len(s) : u[i] = s[i]
<1>1. PICK S : s \in Seq(S) /\ \A g \in S : IsFrame(g)
  BY DEF IsStack
<1> DEFINE u == Append(s, f)
<1>2. s \in Seq(S \cup {f}) /\ f \in S \cup {f}
  BY <1>1
<1>3. u \in Seq(S \cup {f}) /\ Len(u) = Len(s) + 1 /\ u[Len(s) + 1] = f
      /\ \A i \in 1 .. Len(s) : u[i] = s[i]
  BY <1>2
<1>4. u # <<>>
  BY <1>2, <1>3
<1>5. Front1(u) = s
  <2>1. Len(u) - 1 = Len(s) /\ Len(s) \in Nat
    BY <1>2, <1>3
  <2>2. SubSeq(u, 1, Len(s)) = s
    BY <1>2, <1>3, <2>1
  <2> QED
    BY <2>1, <2>2 DEF Front1
<1> QED
  BY <1>1, <1>3, <1>4, <1>5 DEF IsStack, Last1

LEMMA PairFacts ==
  ASSUME NEW f, NEW g, IsFrame(f), IsFrame(g)
  PROVE  IsStack(<<f, g>>) /\ Len(<<f, g>>) = 2 /\ Last1(<<f, g>>) = g
<1> DEFINE T == {f, g}
           s == <<f, g>>
<1>1. s \in Seq(T) /\ s # <<>> /\ Len(s) = 2 /\ Last1(s) = g
  BY DEF Last1
<1>2. \A x \in T : IsFrame(x)
  OBVIOUS
<1> HIDE DEF T, s
<1>3. IsStack(s)
  BY <1>1, <1>2 DEF IsStack
<1> QED
  BY <1>1, <1>3 DEF s

LEMMA WriteFacts ==
  ASSUME NEW s, IsStack(s), NEW i \in 1 .. Len(s), NEW f, IsFrame(f)
  PROVE  LET u == [s EXCEPT ![i] = f] IN
         /\ IsStack(u) /\ Len(u) = Len(s) /\ u[i] = f
         /\ \A j \in 1 .. Len(s) : j # i => u[j] = s[j]
<1>1. PICK S : s \in Seq(S) /\ \A g \in S : IsFrame(g)
  BY DEF IsStack
<1> DEFINE u == [s EXCEPT ![i] = f]
<1>2. u \in Seq(S \cup {f}) /\ Len(u) = Len(s) /\ u[i] = f
      /\ \A j \in 1 .. Len(s) : j # i => u[j] = s[j]
  BY <1>1
<1>3. u # <<>>
  BY <1>1, <1>2
<1> QED
  BY <1>1, <1>2, <1>3 DEF IsStack

LEMMA CutFacts ==
  ASSUME NEW s, IsStack(s), NEW n \in 1 .. Len(s)
  PROVE  LET u == SubSeq(s, 1, n) IN
         /\ IsStack(u) /\ Len(u) = n
         /\ \A j \in 1 .. n : u[j] = s[j]
<1>1. PICK S : s \in Seq(S) /\ \A g \in S : IsFrame(g)
  BY DEF IsStack
<1> DEFINE u == SubSeq(s, 1, n)
<1>2. Len(s) \in Nat /\ \A j \in 1 .. Len(s) : s[j] \in S
  BY <1>1
<1>3. u \in Seq(S) /\ Len(u) = n /\ \A j \in 1 .. n : u[j] = s[j]
  BY <1>1, <1>2
<1>4. u # <<>>
  BY <1>2, <1>3
<1> QED
  BY <1>1, <1>3, <1>4 DEF IsStack
\* Every processor is taken to run a process of the table.
IsState(ts) ==
  /\ DOMAIN ts = {"processes", "running", "cpus", "irqs", "softIrqs", "traps", "bdevs", "nb"}
  /\ \A k \in DOMAIN ts.processes : IsProcess(ts.processes[k])

RunsKnown(ts) ==
  DOMAIN ts.running = Cpus /\ \A c \in Cpus : ts.running[c] \in DOMAIN ts.processes

\* What is known of the life of a process.
SameLife(p, q) == IsProcess(q) /\ q.pid = p.pid /\ q.freeEvents = p.freeEvents

\* The processes of the table live on and run where they ran.
Keeps(ts, us) ==
  /\ IsState(us)
  /\ us.running = ts.running
  /\ DOMAIN us.processes = DOMAIN ts.processes
  /\ \A k \in DOMAIN ts.processes : SameLife(ts.processes[k], us.processes[k])

LEMMA KeepsSelf ==
  ASSUME NEW ts, IsState(ts)
  PROVE  Keeps(ts, ts)
BY DEF Keeps, IsState, SameLife

LEMMA KeepsTransitive ==
  ASSUME NEW ts, NEW us, NEW ws, Keeps(ts, us), Keeps(us, ws)
  PROVE  Keeps(ts, ws)
BY DEF Keeps, SameLife

LEMMA KeepsRuns ==
  ASSUME NEW ts, NEW us, Keeps(ts, us), RunsKnown(ts)
  PROVE  RunsKnown(us) /\ IsState(us)
BY DEF Keeps, RunsKnown

\* A state in which only other parts changed.
LEMMA OtherParts ==
  ASSUME NEW ts, NEW us, IsState(ts), DOMAIN us = DOMAIN ts,
         us.running = ts.running, us.processes = ts.processes
  PROVE  Keeps(ts, us)
BY DEF Keeps, IsState, SameLife

LEMMA SetProcessLemma ==
  ASSUME NEW ts, IsState(ts), NEW k, NEW p, IsProcess(p)
  PROVE  LET us == SetProcess(ts, k, p) IN
         /\ IsState(us) /\ us.running = ts.running
         /\ DOMAIN us.processes = DOMAIN ts.processes \cup {k}
         /\ us.processes[k] = p
         /\ \A j \in DOMAIN ts.processes : j # k => us.processes[j] = ts.processes[j]
         /\ us.cpus = ts.cpus
<1> DEFINE us == SetProcess(ts, k, p)
<1>1. us.processes = Put(ts.processes, k, p) /\ us.running = ts.running /\ us.cpus = ts.cpus
      /\ DOMAIN us = DOMAIN ts
  BY DEF SetProcess, IsState
<1>2. /\ DOMAIN Put(ts.processes, k, p) = DOMAIN ts.processes \cup {k}
      /\ Put(ts.processes, k, p)[k] = p
      /\ \A j \in DOMAIN ts.processes : j # k => Put(ts.processes, k, p)[j] = ts.processes[j]
  BY DEF Put
<1> HIDE DEF us
<1> QED
  BY <1>1, <1>2 DEF IsState, us

\* A process of the table is written to.
LEMMA SetKnown ==
  ASSUME NEW ts, IsState(ts), NEW k \in DOMAIN ts.processes, NEW p, IsProcess(p)
  PROVE  LET us == SetProcess(ts, k, p) IN
         /\ IsState(us) /\ us.running = ts.running
         /\ DOMAIN us.processes = DOMAIN ts.processes
         /\ us.processes[k] = p
         /\ \A j \in DOMAIN ts.processes : j # k => us.processes[j] = ts.processes[j]
<1> DEFINE us == SetProcess(ts, k, p)
<1>1. /\ IsState(us) /\ us.running = ts.running
      /\ DOMAIN us.processes = DOMAIN ts.processes \cup {k}
      /\ us.processes[k] = p
      /\ \A j \in DOMAIN ts.processes : j # k => us.processes[j] = ts.processes[j]
  BY SetProcessLemma
<1> HIDE DEF us
<1>2. DOMAIN us.processes = DOMAIN ts.processes
  BY <1>1
<1> QED
  BY <1>1, <1>2 DEF us

LEMMA SetSame ==
  ASSUME NEW ts, IsState(ts), NEW k \in DOMAIN ts.processes, NEW p, SameLife(ts.processes[k], p)
  PROVE  Keeps(ts, SetProcess(ts, k, p))
<1>1. IsProcess(p)
  BY DEF SameLife
<1> DEFINE us == SetProcess(ts, k, p)
<1>2. /\ IsState(us) /\ us.running = ts.running
      /\ DOMAIN us.processes = DOMAIN ts.processes \cup {k}
      /\ us.processes[k] = p
      /\ \A j \in DOMAIN ts.processes : j # k => us.processes[j] = ts.processes[j]
  BY <1>1, SetProcessLemma
<1> HIDE DEF us
<1>3. \A j \in DOMAIN ts.processes : SameLife(ts.processes[j], us.processes[j])
  BY <1>2 DEF SameLife, IsState
<1> QED
  BY <1>2, <1>3 DEF Keeps, us

\* What changes a process's modes does not end it.
LEMMA StackLemma ==
  ASSUME NEW p, IsProcess(p), NEW s, NEW t
  PROVE  /\ SameLife(p, p)
         /\ \A f : IsFrame(f) => SameLife(p, WithTop(p, f))
         /\ \A u : IsStack(u) => SameLife(p, [p EXCEPT !.stack = u])
         /\ SameLife(p, SetStatus(p, s, t))
         /\ SameLife(p, CutTo1(p))
         /\ Len(p.stack) > 1 => SameLife(p, Popped(p, t))
<1>1. /\ Len(p.stack) \in Nat \ {0} /\ IsFrame(Top(p))
      /\ \A i \in 1 .. Len(p.stack) : IsFrame(p.stack[i])
  BY StackFacts DEF IsProcess, Top
<1>2. ASSUME NEW u, IsStack(u), NEW second
      PROVE  /\ SameLife(p, [p EXCEPT !.stack = u])
             /\ SameLife(p, [p EXCEPT !.stack = u, !.second = second])
  BY <1>2 DEF SameLife, IsProcess
<1>3. ASSUME NEW f, IsFrame(f)
      PROVE  SameLife(p, WithTop(p, f))
  <2>1. WithTop(p, f) = [p EXCEPT !.stack = [p.stack EXCEPT ![Len(p.stack)] = f]]
    BY DEF WithTop, IsProcess
  <2>2. IsStack([p.stack EXCEPT ![Len(p.stack)] = f])
    BY <1>1, <1>3, WriteFacts DEF IsProcess
  <2> QED
    BY <1>2, <2>1, <2>2
<1>4. SameLife(p, SetStatus(p, s, t))
  <2>1. IsFrame([Top(p) EXCEPT !.s = s, !.change = t])
    BY <1>1 DEF IsFrame
  <2> QED
    BY <1>3, <2>1 DEF SetStatus
<1>5. SameLife(p, CutTo1(p))
  <2> DEFINE u == SubSeq(p.stack, 1, 1)
             second == IF Len(p.stack) > 1 THEN p.stack[2].s ELSE p.second
  <2>1. IsStack(u)
    BY <1>1, CutFacts DEF IsProcess
  <2>2. CutTo1(p) = [p EXCEPT !.stack = u, !.second = second]
    BY DEF CutTo1, IsProcess
  <2> HIDE DEF u, second
  <2> QED
    BY <2>1, <2>2 DEF SameLife, IsProcess
<1>6. ASSUME Len(p.stack) > 1
      PROVE  SameLife(p, Popped(p, t))
  <2> DEFINE under == Front1(p.stack)
             f == [under[Len(under)] EXCEPT !.change = t]
             u == [under EXCEPT ![Len(under)] = f]
             second == IF Len(under) = 1 THEN Top(p).s ELSE p.second
  <2>1. IsStack(under) /\ Len(under) \in Nat \ {0} /\ Len(under) \in 1 .. Len(under)
    <3>1. Len(p.stack) - 1 \in 1 .. Len(p.stack)
      BY <1>1, <1>6
    <3>2. IsStack(under)
      BY <3>1, CutFacts DEF IsProcess, Front1
    <3> HIDE DEF under
    <3>3. Len(under) \in Nat \ {0}
      BY <3>2, StackFacts
    <3> QED
      BY <3>2, <3>3
  <2> HIDE DEF under
  <2>2. IsFrame(f)
    BY <2>1, StackFacts DEF IsFrame
  <2>3. Popped(p, t) = [p EXCEPT !.stack = u, !.second = second]
    BY DEF Popped, under, IsProcess
  <2> HIDE DEF f
  <2>4. IsStack(u)
    BY <2>1, <2>2, WriteFacts
  <2> HIDE DEF u, second
  <2> QED
    BY <2>3, <2>4 DEF SameLife, IsProcess
<1> QED
  BY <1>1, <1>2, <1>3, <1>4, <1>5, <1>6 DEF SameLife

\* The modes of a process are frames, and what is written to one is one.
LEMMA FrameLemma ==
  ASSUME NEW p, IsProcess(p)
  PROVE  /\ IsFrame(Top(p)) /\ Len(p.stack) \in Nat \ {0}
         /\ \A x : /\ IsFrame([Top(p) EXCEPT !.s = x]) /\ IsFrame([Top(p) EXCEPT !.t = x])
                   /\ IsFrame([Top(p) EXCEPT !.cum = x])
         /\ \A t, s, n : IsFrame([Top(p) EXCEPT !.t = t, !.s = s, !.n = n])
         /\ \A t, s : IsFrame([Top(p) EXCEPT !.t = t, !.s = s])
         /\ \A t, s, a, b : IsFrame([Top(p) EXCEPT !.t = t, !.s = s, !.change = a, !.entry = b])
<1>1. IsFrame(Top(p)) /\ Len(p.stack) \in Nat \ {0}
  BY StackFacts DEF IsProcess, Top
<1> QED
  BY <1>1 DEF IsFrame

LEMMA SetRunningSame ==
  ASSUME NEW ts, IsState(ts), RunsKnown(ts), NEW c \in Cpus, NEW p, SameLife(Running(ts, c), p)
  PROVE  Keeps(ts, SetRunning(ts, c, p))
BY SetSame DEF RunsKnown, Running, SetRunning

LEMMA push_stateLemma ==
  ASSUME NEW ts, IsState(ts), RunsKnown(ts), NEW c \in Cpus, NEW t, NEW n, NEW time
  PROVE  Keeps(ts, push_state(ts, c, t, n, time))
<1> DEFINE p == Running(ts, c)
           u == Append(p.stack, Frame(t, n, Top(p).s, time))
<1>1. IsProcess(p)
  BY DEF IsState, RunsKnown, Running
<1>2. IsFrame(Frame(t, n, Top(p).s, time))
  BY DEF IsFrame, Frame
<1>3. IsStack(u)
  BY <1>1, <1>2, PushFacts DEF IsProcess
<1>4. push_state(ts, c, t, n, time) = SetRunning(ts, c, [p EXCEPT !.stack = u])
  BY <1>1 DEF push_state, IsProcess
<1> HIDE DEF p, u
<1>5. SameLife(p, [p EXCEPT !.stack = u])
  BY <1>1, <1>3, StackLemma
<1> QED
  BY <1>4, <1>5, SetRunningSame DEF p

LEMMA pop_stateLemma ==
  ASSUME NEW ts, IsState(ts), RunsKnown(ts), NEW c \in Cpus, NEW t, NEW time
  PROVE  Keeps(ts, pop_state(ts, c, t, time))
<1> DEFINE p == Running(ts, c)
<1>1. IsProcess(p) /\ Len(p.stack) \in Nat \ {0}
  BY FrameLemma DEF IsState, RunsKnown, Running
<1>2. CASE Top(p).t # t \/ Len(p.stack) = 1
  BY <1>2, KeepsSelf DEF pop_state
<1>3. CASE ~(Top(p).t # t \/ Len(p.stack) = 1)
  <2>1. pop_state(ts, c, t, time) = SetRunning(ts, c, Popped(p, time))
    BY <1>3 DEF pop_state
  <2>2. Len(p.stack) > 1
    <3> DEFINE n == Len(p.stack)
    <3>1. n \in Nat \ {0} /\ n # 1
      BY <1>1, <1>3, Zenon
    <3> HIDE DEF n
    <3>2. n > 1
      BY <3>1
    <3> QED
      BY <3>2 DEF n
  <2> HIDE DEF p
  <2>3. SameLife(p, Popped(p, time))
    BY <1>1, <2>2, StackLemma
  <2> QED
    BY <2>1, <2>3, SetRunningSame DEF p
<1> QED
  BY <1>2, <1>3

-----------------------------------------------------------------------------
(* The hooks that neither make nor end a process, and switch none.         *)

QuietKinds ==
  {"syscall_entry", "syscall_exit", "trap_entry", "page_fault_entry", "trap_exit",
   "page_fault_exit", "irq_entry", "irq_exit", "soft_irq_raise", "soft_irq_entry",
   "soft_irq_exit", "process_exit", "process_exec", "thread_brand", "fs_open",
   "statedump_end", "enum_interrupt", "dump_softirq", "bdev_request_issue",
   "bdev_request_complete", "function_entry", "function_exit"}

LEMMA ModesOfCpus ==
  ASSUME NEW ts, IsState(ts), NEW c, NEW m
  PROVE  Keeps(ts, cpu_push_mode(ts, c, m)) /\ Keeps(ts, cpu_pop_mode(ts, c))
<1>1. DOMAIN cpu_push_mode(ts, c, m) = DOMAIN ts /\ DOMAIN cpu_pop_mode(ts, c) = DOMAIN ts
  BY DEF cpu_push_mode, cpu_pop_mode
<1>2. /\ cpu_push_mode(ts, c, m).running = ts.running
      /\ cpu_push_mode(ts, c, m).processes = ts.processes
      /\ cpu_pop_mode(ts, c).running = ts.running
      /\ cpu_pop_mode(ts, c).processes = ts.processes
  BY DEF cpu_push_mode, cpu_pop_mode, IsState
<1> QED
  BY <1>1, <1>2, OtherParts

LEMMA TablesOfTrace ==
  ASSUME NEW ts, IsState(ts), NEW id
  PROVE  /\ Keeps(ts, expand_irq_table(ts, id))
         /\ Keeps(ts, expand_soft_irq_table(ts, id))
         /\ Keeps(ts, expand_trap_table(ts, id))
<1>1. /\ DOMAIN expand_irq_table(ts, id) = DOMAIN ts
      /\ expand_irq_table(ts, id).running = ts.running
      /\ expand_irq_table(ts, id).processes = ts.processes
  BY DEF expand_irq_table, IsState
<1>2. /\ DOMAIN expand_soft_irq_table(ts, id) = DOMAIN ts
      /\ expand_soft_irq_table(ts, id).running = ts.running
      /\ expand_soft_irq_table(ts, id).processes = ts.processes
  BY DEF expand_soft_irq_table, IsState
<1>3. /\ DOMAIN expand_trap_table(ts, id) = DOMAIN ts
      /\ expand_trap_table(ts, id).running = ts.running
      /\ expand_trap_table(ts, id).processes = ts.processes
  BY DEF expand_trap_table, IsState
<1> QED
  BY <1>1, <1>2, <1>3, OtherParts

\* The entry of an interrupt or a trap, and its exit.
LEMMA EntryKeeps ==
  ASSUME NEW ts, IsState(ts), RunsKnown(ts), NEW c \in Cpus, NEW wide, Keeps(ts, wide),
         NEW t, NEW id, NEW time, NEW m
  PROVE  Keeps(ts, cpu_push_mode(push_state(wide, c, t, id, time), c, m))
<1>1. RunsKnown(wide) /\ IsState(wide)
  BY KeepsRuns
<1>2. Keeps(wide, push_state(wide, c, t, id, time))
  BY <1>1, push_stateLemma
<1>3. IsState(push_state(wide, c, t, id, time))
  BY <1>2 DEF Keeps
<1>4. Keeps(push_state(wide, c, t, id, time), cpu_push_mode(push_state(wide, c, t, id, time), c, m))
  BY <1>3, ModesOfCpus
<1> QED
  BY <1>2, <1>4, KeepsTransitive

LEMMA ExitKeeps ==
  ASSUME NEW ts, IsState(ts), RunsKnown(ts), NEW c \in Cpus, NEW t, NEW time
  PROVE  Keeps(ts, cpu_pop_mode(pop_state(ts, c, t, time), c))
<1>1. Keeps(ts, pop_state(ts, c, t, time))
  BY pop_stateLemma
<1>2. IsState(pop_state(ts, c, t, time))
  BY <1>1 DEF Keeps
<1>3. Keeps(pop_state(ts, c, t, time), cpu_pop_mode(pop_state(ts, c, t, time), c))
  BY <1>2, ModesOfCpus
<1> QED
  BY <1>1, <1>3, KeepsTransitive

\* What a hook writes to the tables of interrupts, besides.
LEMMA TableWrites ==
  ASSUME NEW ts, NEW us, Keeps(ts, us), NEW a, NEW b
  PROVE  /\ Keeps(ts, [us EXCEPT !.cpus = a])
         /\ Keeps(ts, [us EXCEPT !.cpus = a, !.traps = b])
         /\ Keeps(ts, [us EXCEPT !.traps = a, !.cpus = b])
         /\ Keeps(ts, [us EXCEPT !.cpus = a, !.irqs = b])
         /\ Keeps(ts, [us EXCEPT !.cpus = a, !.softIrqs = b])
         /\ Keeps(ts, [us EXCEPT !.softIrqs = a, !.cpus = b])
         /\ Keeps(ts, [us EXCEPT !.softIrqs = a])
         /\ Keeps(ts, [us EXCEPT !.bdevs = a])
BY DEF Keeps, IsState

\* However deep they reach.
LEMMA Besides ==
  ASSUME NEW ts, NEW us, Keeps(ts, us), NEW ws, DOMAIN ws = DOMAIN us,
         ws.running = us.running, ws.processes = us.processes
  PROVE  Keeps(ts, ws)
BY DEF Keeps, IsState

LEMMA EntryHooks ==
  ASSUME NEW ts, IsState(ts), RunsKnown(ts), NEW e, e.cpu \in Cpus
  PROVE  /\ Keeps(ts, trap_entry(ts, e))
         /\ Keeps(ts, irq_entry(ts, e))
         /\ Keeps(ts, soft_irq_entry(ts, e))
<1>1. Keeps(ts, trap_entry(ts, e))
  <2> DEFINE busy == cpu_push_mode(push_state(expand_trap_table(ts, e.id), e.cpu, "TRAP", e.id, e.time),
                                   e.cpu, "CPU_TRAP")
  <2>1. Keeps(ts, busy)
    BY TablesOfTrace, EntryKeeps
  <2>2. trap_entry(ts, e) = [busy EXCEPT !.cpus[e.cpu].traps = Append(@, e.id),
                                         !.traps[e.id] = @ + 1]
    BY DEF trap_entry
  <2>3. IsState(busy)
    BY <2>1 DEF Keeps
  <2> HIDE DEF busy
  <2>4. /\ DOMAIN trap_entry(ts, e) = DOMAIN busy
        /\ trap_entry(ts, e).running = busy.running
        /\ trap_entry(ts, e).processes = busy.processes
    BY <2>2, <2>3 DEF IsState
  <2> QED
    BY <2>1, <2>4, Besides
<1>2. Keeps(ts, irq_entry(ts, e))
  <2> DEFINE busy == cpu_push_mode(push_state(expand_irq_table(ts, e.id), e.cpu, "IRQ", e.id, e.time),
                                   e.cpu, "CPU_IRQ")
  <2>1. Keeps(ts, busy)
    BY TablesOfTrace, EntryKeeps
  <2>2. irq_entry(ts, e) = [busy EXCEPT !.cpus[e.cpu].irqs = Append(@, e.id),
                                        !.irqs[e.id] = Append(@, "IRQ_BUSY")]
    BY DEF irq_entry
  <2>3. IsState(busy)
    BY <2>1 DEF Keeps
  <2> HIDE DEF busy
  <2>4. /\ DOMAIN irq_entry(ts, e) = DOMAIN busy
        /\ irq_entry(ts, e).running = busy.running
        /\ irq_entry(ts, e).processes = busy.processes
    BY <2>2, <2>3 DEF IsState
  <2> QED
    BY <2>1, <2>4, Besides
<1>3. Keeps(ts, soft_irq_entry(ts, e))
  <2> DEFINE busy == cpu_push_mode(push_state(expand_soft_irq_table(ts, e.id), e.cpu, "SOFT_IRQ",
                                              e.id, e.time), e.cpu, "CPU_SOFT_IRQ")
  <2>1. Keeps(ts, busy)
    BY TablesOfTrace, EntryKeeps
  <2>2. soft_irq_entry(ts, e) =
          [busy EXCEPT !.cpus[e.cpu].softIrqs = Append(@, e.id),
                       !.softIrqs[e.id] = [pending |-> IF @.pending = 1 THEN 0 ELSE @.pending,
                                           running |-> @.running + 1]]
    BY DEF soft_irq_entry
  <2>3. IsState(busy)
    BY <2>1 DEF Keeps
  <2> HIDE DEF busy
  <2>4. /\ DOMAIN soft_irq_entry(ts, e) = DOMAIN busy
        /\ soft_irq_entry(ts, e).running = busy.running
        /\ soft_irq_entry(ts, e).processes = busy.processes
    BY <2>2, <2>3 DEF IsState
  <2> QED
    BY <2>1, <2>4, Besides
<1> QED
  BY <1>1, <1>2, <1>3

LEMMA ExitHooks ==
  ASSUME NEW ts, IsState(ts), RunsKnown(ts), NEW e, e.cpu \in Cpus
  PROVE  /\ Keeps(ts, trap_exit(ts, e))
         /\ Keeps(ts, irq_exit(ts, e))
         /\ Keeps(ts, soft_irq_exit(ts, e))
<1> DEFINE trap == cpu_pop_mode(pop_state(ts, e.cpu, "TRAP", e.time), e.cpu)
           irq == cpu_pop_mode(pop_state(ts, e.cpu, "IRQ", e.time), e.cpu)
           soft == cpu_pop_mode(pop_state(ts, e.cpu, "SOFT_IRQ", e.time), e.cpu)
<1>1. Keeps(ts, trap) /\ Keeps(ts, irq) /\ Keeps(ts, soft)
  BY ExitKeeps
<1>2. \/ trap_exit(ts, e) = trap
      \/ trap_exit(ts, e) =
           [trap EXCEPT !.traps[Last1(ts.cpus[e.cpu].traps)] = IF @ > 0 THEN @ - 1 ELSE @,
                        !.cpus[e.cpu].traps = Front1(ts.cpus[e.cpu].traps)]
  BY DEF trap_exit
<1>3. \/ irq_exit(ts, e) = irq
      \/ irq_exit(ts, e) =
           [irq EXCEPT !.cpus[e.cpu].irqs = Front1(ts.cpus[e.cpu].irqs),
                       !.irqs[Last1(ts.cpus[e.cpu].irqs)] = PopMode(@, "IRQ_UNKNOWN")]
  BY DEF irq_exit
<1>4. \/ soft_irq_exit(ts, e) = soft
      \/ soft_irq_exit(ts, e) =
           [soft EXCEPT !.softIrqs[Last1(ts.cpus[e.cpu].softIrqs)].running =
                          IF @ > 0 THEN @ - 1 ELSE @,
                        !.cpus[e.cpu].softIrqs = Front1(ts.cpus[e.cpu].softIrqs)]
  BY DEF soft_irq_exit
<1> HIDE DEF trap, irq, soft
<1>5. Keeps(ts, trap_exit(ts, e))
  <2>1. IsState(trap)
    BY <1>1 DEF Keeps
  <2>2. /\ DOMAIN trap_exit(ts, e) = DOMAIN trap
        /\ trap_exit(ts, e).running = trap.running
        /\ trap_exit(ts, e).processes = trap.processes
    BY <1>2, <2>1 DEF IsState
  <2> QED
    BY <1>1, <2>2, Besides
<1>6. Keeps(ts, irq_exit(ts, e))
  <2>1. IsState(irq)
    BY <1>1 DEF Keeps
  <2>2. /\ DOMAIN irq_exit(ts, e) = DOMAIN irq
        /\ irq_exit(ts, e).running = irq.running
        /\ irq_exit(ts, e).processes = irq.processes
    BY <1>3, <2>1 DEF IsState
  <2> QED
    BY <1>1, <2>2, Besides
<1>7. Keeps(ts, soft_irq_exit(ts, e))
  <2>1. IsState(soft)
    BY <1>1 DEF Keeps
  <2>2. /\ DOMAIN soft_irq_exit(ts, e) = DOMAIN soft
        /\ soft_irq_exit(ts, e).running = soft.running
        /\ soft_irq_exit(ts, e).processes = soft.processes
    BY <1>4, <2>1 DEF IsState
  <2> QED
    BY <1>1, <2>2, Besides
<1> QED
  BY <1>5, <1>6, <1>7

\* Hooks that write to the running process.
LEMMA RunningHooks ==
  ASSUME NEW ts, IsState(ts), RunsKnown(ts), NEW e, e.cpu \in Cpus
  PROVE  /\ Keeps(ts, function_entry(ts, e))
         /\ Keeps(ts, function_exit(ts, e))
         /\ Keeps(ts, process_exec(ts, e))
         /\ Keeps(ts, thread_brand(ts, e))
         /\ Keeps(ts, fs_open(ts, e))
<1> DEFINE p == Running(ts, e.cpu)
<1>1. IsProcess(p)
  BY DEF IsState, RunsKnown, Running
<1>2. \A a, b : /\ SameLife(p, [p EXCEPT !.functions = a, !.current = b])
                /\ SameLife(p, [p EXCEPT !.name = a, !.brand = b])
                /\ SameLife(p, [p EXCEPT !.brand = a])
                /\ SameLife(p, [p EXCEPT !.fds = a])
  BY <1>1 DEF IsProcess, SameLife
<1>3. \A q : SameLife(p, q) => Keeps(ts, SetRunning(ts, e.cpu, q))
  BY SetRunningSame
<1>4. function_entry(ts, e) =
        SetRunning(ts, e.cpu, [p EXCEPT !.functions = Append(@, e.id), !.current = e.id])
  BY DEF function_entry
<1>5. \/ function_exit(ts, e) = ts
      \/ \E b : function_exit(ts, e) =
                  SetRunning(ts, e.cpu, [p EXCEPT !.functions = Front1(p.functions), !.current = b])
  BY DEF function_exit
<1>6. /\ process_exec(ts, e) =
           SetRunning(ts, e.cpu, [p EXCEPT !.name = e.name, !.brand = "UNBRANDED"])
      /\ thread_brand(ts, e) = SetRunning(ts, e.cpu, [p EXCEPT !.brand = e.name])
      /\ fs_open(ts, e) = SetRunning(ts, e.cpu, [p EXCEPT !.fds = @ \cup {e.id}])
  BY DEF process_exec, thread_brand, fs_open
<1> HIDE DEF p
<1> QED
  BY <1>2, <1>3, <1>4, <1>5, <1>6, KeepsSelf

LEMMA OtherHooks ==
  ASSUME NEW ts, IsState(ts), RunsKnown(ts), NEW e, e.cpu \in Cpus
  PROVE  /\ Keeps(ts, syscall_entry(ts, e))
         /\ Keeps(ts, syscall_exit(ts, e))
         /\ Keeps(ts, soft_irq_raise(ts, e))
         /\ Keeps(ts, enum_interrupt(ts, e))
         /\ Keeps(ts, dump_softirq(ts, e))
         /\ Keeps(ts, bdev_request_issue(ts, e))
         /\ Keeps(ts, bdev_request_complete(ts, e))
         /\ Keeps(ts, process_exit(ts, e))
         /\ Keeps(ts, statedump_end(ts, e))
<1>1. Keeps(ts, ts)
  BY KeepsSelf
<1>2. Keeps(ts, syscall_entry(ts, e)) /\ Keeps(ts, syscall_exit(ts, e))
  BY <1>1, push_stateLemma, pop_stateLemma DEF syscall_entry, syscall_exit
<1>3. Keeps(ts, soft_irq_raise(ts, e))
  BY <1>1, TableWrites DEF soft_irq_raise
<1>4. Keeps(ts, enum_interrupt(ts, e)) /\ Keeps(ts, dump_softirq(ts, e))
  BY TablesOfTrace DEF enum_interrupt, dump_softirq
<1>5. Keeps(ts, bdev_request_issue(ts, e)) /\ Keeps(ts, bdev_request_complete(ts, e))
  BY <1>1, TableWrites DEF bdev_request_issue, bdev_request_complete
<1>6. Keeps(ts, process_exit(ts, e))
  <2> DEFINE k == Key(e.cpu, e.pid)
             p == ts.processes[k]
             f == [Top(p) EXCEPT !.s = "EXIT"]
  <2>1. CASE k \notin DOMAIN ts.processes
    BY <1>1, <2>1 DEF process_exit, Known
  <2>2. CASE k \in DOMAIN ts.processes
    <3>1. process_exit(ts, e) = SetProcess(ts, k, WithTop(p, f))
      BY <2>2 DEF process_exit, Known
    <3>2. IsProcess(p)
      BY <2>2 DEF IsState
    <3>3. SameLife(p, WithTop(p, f))
      BY <3>2, FrameLemma, StackLemma
    <3> QED
      BY <2>2, <3>1, <3>3, SetSame
  <2> QED
    BY <2>1, <2>2
<1>7. Keeps(ts, statedump_end(ts, e))
  <2>1. ASSUME NEW p, IsProcess(p)
        PROVE  SameLife(p, fix_process(p, e.time))
    <3> DEFINE known(t, s) == [Frame(t, SubmodeNone, s, e.time) EXCEPT
                                 !.s = IF p.stack[1].s = "UNNAMED" THEN s ELSE p.stack[1].s]
               user == known("USER_MODE", "RUN")
               call == Frame("SYSCALL", SubmodeNone,
                             IF p.second = "WAIT_FORK" THEN "WAIT" ELSE p.second, e.time)
               written(f) == [p EXCEPT !.stack = [p.stack EXCEPT ![1] = f]]
    <3>1. \/ fix_process(p, e.time) = p
          \/ fix_process(p, e.time) = written(known("SYSCALL", "WAIT"))
          \/ fix_process(p, e.time) = [p EXCEPT !.stack = <<user, call>>]
          \/ fix_process(p, e.time) = written(user)
      BY <2>1 DEF fix_process, IsProcess
    <3>2. \A t, s : IsFrame(known(t, s))
      BY DEF IsFrame, Frame
    <3>3. IsFrame(user) /\ IsFrame(call)
      BY DEF IsFrame, Frame
    <3> HIDE DEF user, call, known
    <3>4. \A f : IsFrame(f) => SameLife(p, written(f))
      <4>1. IsStack(p.stack) /\ 1 \in 1 .. Len(p.stack)
        <5>1. Len(p.stack) \in Nat \ {0}
          BY <2>1, FrameLemma
        <5> QED
          BY <2>1, <5>1 DEF IsProcess
      <4> QED
        BY <2>1, <4>1, WriteFacts, StackLemma
    <3>5. SameLife(p, [p EXCEPT !.stack = <<user, call>>])
      <4>1. IsStack(<<user, call>>)
        BY <3>3, PairFacts
      <4> QED
        BY <2>1, <4>1, StackLemma
    <3> HIDE DEF written
    <3> QED
      BY <2>1, <3>1, <3>2, <3>3, <3>4, <3>5, StackLemma
  <2> DEFINE us == statedump_end(ts, e)
  <2>2. DOMAIN us = DOMAIN ts /\ us.running = ts.running
        /\ us.processes = [k \in DOMAIN ts.processes |-> fix_process(ts.processes[k], e.time)]
    BY DEF statedump_end, IsState
  <2> HIDE DEF us
  <2>3. \A k \in DOMAIN ts.processes : SameLife(ts.processes[k], us.processes[k])
    BY <2>1, <2>2 DEF IsState
  <2> QED
    BY <2>2, <2>3 DEF Keeps, IsState, SameLife, us
<1> QED
  BY <1>2, <1>3, <1>4, <1>5, <1>6, <1>7

LEMMA QuietHook ==
  ASSUME NEW ts, IsState(ts), RunsKnown(ts), NEW e, e.cpu \in Cpus, e.kind \in QuietKinds
  PROVE  Keeps(ts, Hook(ts, e))
BY EntryHooks, ExitHooks, RunningHooks, OtherHooks DEF QuietKinds, Hook
-----------------------------------------------------------------------------
(* What the state takes the processors to run, and the processes it lets   *)
(* go: a processor that has not switched yet is taken to be idle; a        *)
(* process has lost one of its two ends only when the kernel has ended it  *)
(* too, one way at least.                                                  *)

Kernel ==
  /\ current \in [Cpus -> {0} \cup Pids]
  /\ \A c, d \in Cpus : current[c] = current[d] /\ current[c] # 0 => c = d
  /\ status \in [Pids -> {"none", "forked", "ready", "run", "wait", "dead"}]
  /\ ending \in [Pids -> {{}, {"exit"}, {"exit", "free"}}]
  /\ \A c \in Cpus : current[c] # 0 => status[current[c]] = "run"
  /\ \A p \in Pids : /\ status[p] = "dead" => ending[p] = {"exit"}
                     /\ ending[p] # {} => status[p] \notin {"none", "forked"}
  /\ synced \subseteq Cpus

TakenToRun == [c \in Cpus |-> IF c \in synced THEN CurrentKey(c) ELSE Key(c, 0)]

Ended(p) == status[p] \in {"dead", "none"} \/ "free" \in ending[p]

\* Where one of the two ends of a process may be behind it.
HalfEnded == {Key(c, 0) : c \in synced} \cup {Key(0, p) : p \in {q \in Pids : Ended(q)}}

Tracks(ts, run, half) ==
  /\ IsState(ts)
  /\ ts.running = run
  /\ run \in [Cpus -> DOMAIN ts.processes]
  /\ \A k \in DOMAIN ts.processes :
       ts.processes[k].freeEvents = 0 \/ (ts.processes[k].freeEvents = 1 /\ k \in half)

RunInv == Kernel /\ Tracks(v.ts, TakenToRun, HalfEnded)

LEMMA Keys ==
  ASSUME NEW c \in Cpus, NEW d \in Cpus, NEW p \in Pids, NEW q \in Pids
  PROVE  /\ Key(c, p) = Key(0, p)
         /\ Key(0, p) = Key(0, q) <=> p = q
         /\ Key(c, 0) = Key(d, 0) <=> c = d
         /\ Key(c, 0) # Key(0, p)
BY StateTraceAssumption, StateAssumption DEF Key, Pids

LEMMA TracksRuns ==
  ASSUME NEW ts, NEW run, NEW half, Tracks(ts, run, half)
  PROVE  IsState(ts) /\ RunsKnown(ts)
BY DEF Tracks, RunsKnown

LEMMA KeepsTracks ==
  ASSUME NEW ts, NEW us, NEW run, NEW half, Tracks(ts, run, half), Keeps(ts, us)
  PROVE  Tracks(us, run, half)
BY DEF Tracks, Keeps, SameLife

LEMMA TracksMore ==
  ASSUME NEW ts, NEW run, NEW half, Tracks(ts, run, half), NEW more, half \subseteq more
  PROVE  Tracks(ts, run, more)
BY DEF Tracks

\* A process comes, or another takes its place.
LEMMA TracksPut ==
  ASSUME NEW ts, NEW run, NEW half, Tracks(ts, run, half), NEW k, NEW p, IsProcess(p),
         p.freeEvents = 0
  PROVE  Tracks(SetProcess(ts, k, p), run, half \ {k})
<1> DEFINE us == SetProcess(ts, k, p)
<1>1. /\ IsState(us) /\ us.running = ts.running
      /\ DOMAIN us.processes = DOMAIN ts.processes \cup {k}
      /\ us.processes[k] = p
      /\ \A j \in DOMAIN ts.processes : j # k => us.processes[j] = ts.processes[j]
  BY SetProcessLemma DEF Tracks
<1> HIDE DEF us
<1>2. Tracks(us, run, half \ {k})
  BY <1>1 DEF Tracks
<1> QED
  BY <1>2 DEF us

LEMMA NewLemma ==
  ASSUME NEW ppid, NEW cpu, NEW pid, NEW name, NEW creation, NEW time
  PROVE  LET p == NewProcess(ppid, cpu, pid, name, creation, time)
             q == UnknownProcess(cpu, pid, time)
         IN  /\ IsProcess(p) /\ p.freeEvents = 0 /\ p.pid = pid
             /\ IsProcess(q) /\ q.freeEvents = 0 /\ q.pid = pid
<1>1. \A x, y, z : LET p == NewProcess(x, cpu, pid, y, z, time)
                  IN  IsProcess(p) /\ p.freeEvents = 0 /\ p.pid = pid
  <2> DEFINE f == Frame("USER_MODE", SubmodeNone, "RUN", time)
             g == Frame("SYSCALL", SubmodeNone, "WAIT_FORK", time)
  <2>1. IsFrame(f) /\ IsFrame(g)
    BY DEF IsFrame, Frame
  <2>2. \A x, y, z : LET p == NewProcess(x, cpu, pid, y, z, time)
                     IN  /\ DOMAIN p = {"pid", "ppid", "cpu", "type", "name", "brand", "stack",
                                        "second", "creation", "freeEvents", "functions",
                                        "current", "fds"}
                         /\ p.stack = <<f, g>> /\ p.freeEvents = 0 /\ p.pid = pid
    BY DEF NewProcess
  <2> HIDE DEF f, g
  <2>4. IsStack(<<f, g>>)
    BY <2>1, PairFacts
  <2> QED
    BY <2>2, <2>4 DEF IsProcess
<1> DEFINE p == NewProcess(0, cpu, pid, "UNNAMED", 0, time)
           cut == CutTo1(p)
           f == [Top(cut) EXCEPT !.t = "MODE_UNKNOWN", !.s = "UNNAMED"]
<1>2. IsProcess(p) /\ p.freeEvents = 0 /\ p.pid = pid
  BY <1>1
<1>3. UnknownProcess(cpu, pid, time) = WithTop(cut, f)
  BY DEF UnknownProcess
<1> HIDE DEF p
<1>4. SameLife(p, cut)
  BY <1>2, StackLemma
<1> HIDE DEF cut
<1>5. SameLife(cut, WithTop(cut, f))
  <2>1. IsProcess(cut)
    BY <1>4 DEF SameLife
  <2>2. IsFrame(f)
    BY <2>1, FrameLemma DEF IsFrame
  <2> HIDE DEF f
  <2> QED
    BY <2>1, <2>2, StackLemma
<1> QED
  BY <1>1, <1>2, <1>3, <1>4, <1>5 DEF SameLife

LEMMA CreateLemma ==
  ASSUME NEW ts, IsState(ts), NEW c, NEW p, NEW time
  PROVE  LET us == find_process_or_create(ts, c, p, time)
             k == Key(c, p)
         IN  /\ IsState(us) /\ us.running = ts.running /\ us.cpus = ts.cpus
             /\ DOMAIN us.processes = DOMAIN ts.processes \cup {k}
             /\ \A j \in DOMAIN ts.processes : us.processes[j] = ts.processes[j]
             /\ k \notin DOMAIN ts.processes => /\ us.processes[k] = UnknownProcess(c, p, time)
                                                /\ us.processes[k].freeEvents = 0
<1> DEFINE k == Key(c, p)
           new == UnknownProcess(c, p, time)
           us == SetProcess(ts, k, new)
<1>1. CASE k \in DOMAIN ts.processes
  BY <1>1 DEF find_process_or_create, Known
<1>2. CASE k \notin DOMAIN ts.processes
  <2>1. IsProcess(new) /\ new.freeEvents = 0
    BY NewLemma
  <2>2. find_process_or_create(ts, c, p, time) = us
    BY <1>2 DEF find_process_or_create, Known
  <2> HIDE DEF new, k
  <2>3. /\ IsState(us) /\ us.running = ts.running
        /\ DOMAIN us.processes = DOMAIN ts.processes \cup {k}
        /\ us.processes[k] = new
        /\ \A j \in DOMAIN ts.processes : j # k => us.processes[j] = ts.processes[j]
        /\ us.cpus = ts.cpus
    BY <2>1, SetProcessLemma
  <2> HIDE DEF us
  <2> QED
    BY <1>2, <2>1, <2>2, <2>3 DEF k, new
<1> QED
  BY <1>1, <1>2

LEMMA CreateTracks ==
  ASSUME NEW ts, NEW run, NEW half, Tracks(ts, run, half), NEW c, NEW p, NEW time
  PROVE  LET us == find_process_or_create(ts, c, p, time) IN
         Tracks(us, run, half) /\ Key(c, p) \in DOMAIN us.processes
<1> DEFINE us == find_process_or_create(ts, c, p, time)
           k == Key(c, p)
<1>1. /\ IsState(us) /\ us.running = ts.running
      /\ DOMAIN us.processes = DOMAIN ts.processes \cup {k}
      /\ \A j \in DOMAIN ts.processes : us.processes[j] = ts.processes[j]
      /\ k \notin DOMAIN ts.processes => us.processes[k].freeEvents = 0
  BY CreateLemma DEF Tracks
<1> HIDE DEF us, k
<1>2. Tracks(us, run, half) /\ k \in DOMAIN us.processes
  BY <1>1 DEF Tracks
<1> QED
  BY <1>2 DEF us, k

\* One of the two ends of a process that the state does not take to run.
LEMMA EndTracks ==
  ASSUME NEW ts, NEW run, NEW half, Tracks(ts, run, half),
         NEW k \in DOMAIN ts.processes,
         \/ \A c \in Cpus : run[c] # k
         \/ ts.processes[k].freeEvents = 0
  PROVE  Tracks(exit_process(ts, k), run, half \cup {k})
<1>1. CASE ts.processes[k].freeEvents + 1 < 2
  <2>1. ts.processes[k].freeEvents = 0
    BY <1>1 DEF Tracks
  <2>2. exit_process(ts, k) = [ts EXCEPT !.processes[k].freeEvents = 1]
    BY <2>1, <1>1 DEF exit_process, Tracks, IsState, IsProcess
  <2> DEFINE us == [ts EXCEPT !.processes[k].freeEvents = 1]
  <2>3. /\ DOMAIN us = DOMAIN ts /\ us.running = ts.running
        /\ DOMAIN us.processes = DOMAIN ts.processes
        /\ us.processes[k] = [ts.processes[k] EXCEPT !.freeEvents = 1]
        /\ \A j \in DOMAIN ts.processes : j # k => us.processes[j] = ts.processes[j]
    BY DEF Tracks, IsState
  <2>4. IsProcess(us.processes[k]) /\ us.processes[k].freeEvents = 1
    BY <2>3 DEF Tracks, IsState, IsProcess
  <2> HIDE DEF us
  <2>5. Tracks(us, run, half \cup {k})
    BY <2>3, <2>4 DEF Tracks, IsState
  <2> QED
    BY <2>2, <2>5 DEF us
<1>2. CASE ~(ts.processes[k].freeEvents + 1 < 2)
  <2>1. \A c \in Cpus : run[c] # k
    BY <1>2
  <2> DEFINE us == [ts EXCEPT !.processes = Without(@, k),
                              !.running = [c \in Cpus |-> IF @[c] = k THEN Freed ELSE @[c]]]
  <2>2. exit_process(ts, k) = us
    BY <1>2 DEF exit_process
  <2>3. ts.running = run /\ IsState(ts)
    BY DEF Tracks
  <2>4. /\ DOMAIN us = DOMAIN ts
        /\ us.running = [c \in Cpus |-> IF run[c] = k THEN Freed ELSE run[c]]
        /\ us.processes = Without(ts.processes, k)
    BY <2>3 DEF IsState
  <2>5. us.running = run
    BY <2>1, <2>4 DEF Tracks
  <2> HIDE DEF us
  <2>6. DOMAIN us.processes = DOMAIN ts.processes \ {k}
        /\ \A j \in DOMAIN us.processes : us.processes[j] = ts.processes[j]
    BY <2>4 DEF Without
  <2> QED
    BY <2>1, <2>2, <2>4, <2>5, <2>6 DEF Tracks, IsState
<1> QED
  BY <1>1, <1>2

-----------------------------------------------------------------------------
(* The hooks of the statistics around those of the state.                  *)

IsComputed(w) == DOMAIN w = {"ts", "st"}

\* A process and a state in which only times were added up.
Recounted(p, q) ==
  /\ IsProcess(q)
  /\ \A f \in DOMAIN p \ {"stack"} : q[f] = p[f]
  /\ Len(q.stack) = Len(p.stack)
  /\ \A i \in 1 .. Len(p.stack) :
       \A f \in {"t", "n", "s", "entry", "change"} : q.stack[i][f] = p.stack[i][f]

Recounts(ts, us) ==
  /\ IsState(us)
  /\ \A f \in DOMAIN ts \ {"processes"} : us[f] = ts[f]
  /\ DOMAIN us.processes = DOMAIN ts.processes
  /\ \A k \in DOMAIN ts.processes : Recounted(ts.processes[k], us.processes[k])

\* From one state to the next by the hook of an event, among those that count.
Hooked(w, e, x) ==
  /\ \E ts : Recounts(w.ts, ts) /\ IsState(Hook(ts, e)) /\ Recounts(Hook(ts, e), x.ts)
  /\ \A ts : Recounts(w.ts, ts) => IsState(Hook(ts, e)) /\ RunsKnown(Hook(ts, e))

LEMMA RecountsSelf ==
  ASSUME NEW ts, IsState(ts)
  PROVE  Recounts(ts, ts)
BY DEF Recounts, Recounted, IsState

LEMMA RecountsTransitive ==
  ASSUME NEW ts, IsState(ts), NEW us, NEW ws, Recounts(ts, us), Recounts(us, ws)
  PROVE  Recounts(ts, ws)
<1>1. ASSUME NEW k \in DOMAIN ts.processes
      PROVE  Recounted(ts.processes[k], ws.processes[k])
  <2> DEFINE p == ts.processes[k]
             q == us.processes[k]
             r == ws.processes[k]
  <2>1. Recounted(p, q) /\ Recounted(q, r) /\ IsProcess(p)
    BY <1>1 DEF Recounts, IsState
  <2> HIDE DEF p, q, r
  <2>2. Recounted(p, r)
    BY <2>1 DEF Recounted, IsProcess
  <2> QED
    BY <2>2 DEF p, r
<1> QED
  BY <1>1 DEF Recounts, IsState

LEMMA RecountsKeeps ==
  ASSUME NEW ts, IsState(ts), NEW us, Recounts(ts, us)
  PROVE  Keeps(ts, us)
BY DEF Recounts, Recounted, Keeps, SameLife, IsState, IsProcess

LEMMA AddCumLemma ==
  ASSUME NEW ts, IsState(ts), RunsKnown(ts), NEW c \in Cpus, NEW delta
  PROVE  Recounts(ts, AddCum(ts, c, delta))
<1> DEFINE k == ts.running[c]
           p == ts.processes[k]
           n == Len(p.stack)
           f == [Top(p) EXCEPT !.cum = @ + delta]
           u == [p.stack EXCEPT ![n] = f]
           q == [p EXCEPT !.stack = u]
<1>1. k \in DOMAIN ts.processes /\ IsProcess(p)
  BY DEF IsState, RunsKnown
<1>2. AddCum(ts, c, delta) = SetProcess(ts, k, q)
  BY <1>1 DEF AddCum, SetRunning, Running, WithTop, IsProcess
<1> HIDE DEF k, p
<1>3. n \in Nat \ {0} /\ IsFrame(Top(p)) /\ Top(p) = p.stack[n] /\ IsStack(p.stack)
  BY <1>1, FrameLemma DEF Top, Last1, IsProcess
<1> HIDE DEF n
<1>4. IsFrame(f) /\ \A g \in {"t", "n", "s", "entry", "change"} : f[g] = Top(p)[g]
  BY <1>3 DEF IsFrame
<1> HIDE DEF f
<1>5. n \in 1 .. Len(p.stack)
  BY <1>3 DEF n
<1>6. IsStack(u) /\ Len(u) = n /\ u[n] = f /\ \A i \in 1 .. n : i # n => u[i] = p.stack[i]
  BY <1>3, <1>4, <1>5, WriteFacts DEF n
<1> HIDE DEF u
<1>7. \A i \in 1 .. n : \A g \in {"t", "n", "s", "entry", "change"} : u[i][g] = p.stack[i][g]
  BY <1>3, <1>4, <1>6
<1>8. Recounted(p, q)
  BY <1>1, <1>6, <1>7 DEF Recounted, IsProcess, n
<1>9. Recounts(ts, SetProcess(ts, k, q))
  <2> HIDE DEF q
  <2> DEFINE us == SetProcess(ts, k, q)
  <2>1. /\ IsState(us) /\ DOMAIN us.processes = DOMAIN ts.processes
        /\ us.processes[k] = q
        /\ \A j \in DOMAIN ts.processes : j # k => us.processes[j] = ts.processes[j]
    <3>1. IsProcess(q)
      BY <1>8 DEF Recounted
    <3>2. /\ IsState(us) /\ DOMAIN us.processes = DOMAIN ts.processes \cup {k}
          /\ us.processes[k] = q
          /\ \A j \in DOMAIN ts.processes : j # k => us.processes[j] = ts.processes[j]
      BY <3>1, SetProcessLemma
    <3> HIDE DEF us
    <3> QED
      BY <1>1, <3>2
  <2>2. \A g \in DOMAIN ts \ {"processes"} : us[g] = ts[g]
    BY DEF SetProcess, IsState
  <2> HIDE DEF us
  <2>3. ASSUME NEW j \in DOMAIN ts.processes
        PROVE  Recounted(ts.processes[j], us.processes[j])
    <3>1. CASE j = k
      BY <3>1, <2>1, <1>8 DEF p
    <3>2. CASE j # k
      BY <3>2, <2>1 DEF Recounted, IsState
    <3> QED
      BY <3>1, <3>2
  <2>4. Recounts(ts, us)
    BY <2>1, <2>2, <2>3 DEF Recounts
  <2> QED
    BY <2>4 DEF us
<1> QED
  BY <1>2, <1>9

LEMMA CountedLemma ==
  ASSUME NEW w, IsComputed(w), IsState(w.ts), RunsKnown(w.ts), NEW e, e.cpu \in Cpus
  PROVE  /\ IsComputed(BeforeState(w, e)) /\ Recounts(w.ts, BeforeState(w, e).ts)
         /\ IsComputed(AfterState(w, e)) /\ Recounts(w.ts, AfterState(w, e).ts)
<1>1. /\ IsComputed(mode_change(w, e)) /\ Recounts(w.ts, mode_change(w, e).ts)
      /\ IsComputed(mode_end(w, e)) /\ Recounts(w.ts, mode_end(w, e).ts)
  BY AddCumLemma DEF IsComputed, mode_change, mode_end
<1>2. Recounts(w.ts, w.ts)
  BY RecountsSelf
<1> DEFINE u == update_event_tree(w, e.cpu)
<1>3. /\ IsComputed(u) /\ u.ts = w.ts
      /\ IsComputed(update_trace_event_tree(w)) /\ update_trace_event_tree(w).ts = w.ts
  BY DEF IsComputed, update_event_tree, update_trace_event_tree
<1> HIDE DEF u
<1>4. IsComputed(mode_change(u, e)) /\ Recounts(w.ts, mode_change(u, e).ts)
  BY <1>3, AddCumLemma DEF IsComputed, mode_change
<1>5. BeforeState(w, e) \in {w, mode_change(w, e), mode_end(w, e)}
  BY DEF BeforeState
<1>6. AfterState(w, e) \in {w, u, mode_change(u, e), update_trace_event_tree(w)}
  BY DEF AfterState, after_mode_end, u
<1> QED
  BY <1>1, <1>2, <1>3, <1>4, <1>5, <1>6

\* Around a hook of the state, only times are added up.
LEMMA ProcessLemma ==
  ASSUME NEW w, IsComputed(w), IsState(w.ts), RunsKnown(w.ts), NEW e, e.cpu \in Cpus,
         \A ts : Recounts(w.ts, ts) => IsState(Hook(ts, e)) /\ RunsKnown(Hook(ts, e))
  PROVE  /\ IsComputed(Process(w, e))
         /\ \E ts : Recounts(w.ts, ts) /\ Recounts(Hook(ts, e), Process(w, e).ts)
<1>1. CASE ~Counting
  <2>1. IsComputed(Process(w, e)) /\ Process(w, e).ts = Hook(w.ts, e)
    BY <1>1 DEF Process, IsComputed
  <2>2. Recounts(w.ts, w.ts) /\ Recounts(Hook(w.ts, e), Hook(w.ts, e))
    BY RecountsSelf
  <2> QED
    BY <2>1, <2>2
<1>2. CASE Counting
  <2> DEFINE before == BeforeState(w, e)
             hooked == [before EXCEPT !.ts = Hook(@, e)]
             after == AfterState(hooked, e)
  <2>1. IsComputed(before) /\ Recounts(w.ts, before.ts)
    BY CountedLemma
  <2> HIDE DEF before
  <2>2. hooked.ts = Hook(before.ts, e) /\ IsComputed(hooked)
    BY <2>1 DEF IsComputed
  <2> HIDE DEF hooked
  <2>3. IsComputed(after) /\ Recounts(hooked.ts, after.ts)
    BY <2>1, <2>2, CountedLemma
  <2>4. Process(w, e) = every_event(after, e)
    BY <1>2 DEF Process, before, hooked
  <2> HIDE DEF after
  <2>5. IsComputed(Process(w, e)) /\ Process(w, e).ts = after.ts
    BY <2>3, <2>4 DEF every_event, IsComputed
  <2> QED
    BY <2>1, <2>2, <2>3, <2>5
<1> QED
  BY <1>1, <1>2 DEF StateTraceAssumption

-----------------------------------------------------------------------------
(* The hooks that make and end processes, and the one that switches them.  *)

\* A process of the table that is written to lives on.
LEMMA WriteTracks ==
  ASSUME NEW ts, NEW run, NEW half, Tracks(ts, run, half), NEW k \in DOMAIN ts.processes,
         NEW p, SameLife(ts.processes[k], p)
  PROVE  Tracks(SetProcess(ts, k, p), run, half)
BY SetSame, KeepsTracks DEF Tracks

LEMMA WakeupTracks ==
  ASSUME NEW ts, NEW run, NEW half, Tracks(ts, run, half), NEW e
  PROVE  Tracks(sched_try_wakeup(ts, e), run, half)
<1> DEFINE k == Key(e.wokenCpu, e.pid)
           found == find_process_or_create(ts, e.wokenCpu, e.pid, e.time)
           p == SetStatus(found.processes[k], "WAIT_CPU", e.time)
<1>1. Tracks(found, run, half) /\ k \in DOMAIN found.processes
  BY CreateTracks
<1>2. IsProcess(found.processes[k])
  BY <1>1 DEF Tracks, IsState
<1>3. sched_try_wakeup(ts, e) = SetProcess(found, k, p)
  BY DEF sched_try_wakeup
<1> HIDE DEF found, k
<1>4. SameLife(found.processes[k], p)
  BY <1>2, StackLemma
<1> HIDE DEF p
<1> QED
  BY <1>1, <1>3, <1>4, WriteTracks

LEMMA ForkTracks ==
  ASSUME NEW ts, NEW run, NEW half, Tracks(ts, run, half), NEW e
  PROVE  Tracks(process_fork(ts, e), run, half \ {Key(e.cpu, e.pid)})
<1> DEFINE parent == Running(ts, e.cpu)
           child == NewProcess(parent.pid, e.cpu, e.pid, parent.name, e.time, e.time)
           p == [child EXCEPT !.brand = parent.brand]
<1>1. IsProcess(child) /\ child.freeEvents = 0
  BY NewLemma
<1>2. process_fork(ts, e) = SetProcess(ts, Key(e.cpu, e.pid), p)
  BY DEF process_fork
<1> HIDE DEF child, parent
<1>3. IsProcess(p) /\ p.freeEvents = 0
  BY <1>1 DEF IsProcess
<1> HIDE DEF p
<1> QED
  BY <1>2, <1>3, TracksPut

LEMMA ThreadTracks ==
  ASSUME NEW ts, NEW run, NEW half, Tracks(ts, run, half), NEW e
  PROVE  Tracks(process_kernel_thread(ts, e), run, half)
<1> DEFINE k == Key(e.cpu, e.pid)
           found == find_process_or_create(ts, e.cpu, e.pid, 0)
           p == found.processes[k]
           cut == CutTo1(p)
           f == [Top(cut) EXCEPT !.t = "SYSCALL"]
           thread == IF Top(p).s = "DEAD" THEN p ELSE WithTop(cut, f)
           q == [thread EXCEPT !.type = "KERNEL_THREAD"]
<1>1. Tracks(found, run, half) /\ k \in DOMAIN found.processes
  BY CreateTracks
<1>2. IsProcess(p)
  BY <1>1 DEF Tracks, IsState
<1>3. process_kernel_thread(ts, e) = SetProcess(found, k, q)
  BY DEF process_kernel_thread
<1> HIDE DEF found, k, p
<1>4. SameLife(p, cut)
  BY <1>2, StackLemma
<1> HIDE DEF cut
<1>5. SameLife(cut, WithTop(cut, f))
  BY <1>4, FrameLemma, StackLemma DEF SameLife
<1> HIDE DEF f
<1>6. SameLife(p, thread)
  BY <1>2, <1>4, <1>5, StackLemma DEF SameLife
<1> HIDE DEF thread
<1>7. SameLife(p, q)
  BY <1>6 DEF SameLife, IsProcess
<1> HIDE DEF q
<1> QED
  BY <1>1, <1>3, <1>7, WriteTracks DEF p

LEMMA DumpTracks ==
  ASSUME NEW ts, NEW run, NEW half, Tracks(ts, run, half), NEW e
  PROVE  Tracks(enum_process_state(ts, e), run, half)
<1> DEFINE k == Key(e.cpu, e.pid)
           parent == Key(e.cpu, e.parent)
           told(p) == [p EXCEPT !.ppid = e.parent, !.name = e.name, !.type = e.type]
           idle(p) == [told(p) EXCEPT !.type = "KERNEL_THREAD"]
           made == NewProcess(
                     IF parent \in DOMAIN ts.processes THEN ts.processes[parent].pid ELSE 0,
                     e.cpu, e.pid, e.name,
                     IF parent \in DOMAIN ts.processes THEN e.time ELSE 0, e.time)
           new == CutTo1(made)
           f == [Top(new) EXCEPT !.t = "MODE_UNKNOWN", !.s = "UNNAMED", !.n = -2]
           q == [WithTop(new, f) EXCEPT !.type = e.type]
<1>1. \A p : IsProcess(p) => SameLife(p, told(p)) /\ SameLife(p, idle(p))
  BY DEF IsProcess, SameLife
<1>2. CASE e.pid = 0
  <2> DEFINE us == enum_process_state(ts, e)
  <2>1. /\ DOMAIN us = DOMAIN ts /\ us.running = ts.running
        /\ us.processes = [x \in DOMAIN ts.processes |->
                             IF ts.processes[x].pid # 0 THEN ts.processes[x]
                             ELSE idle(ts.processes[x])]
    BY <1>2 DEF enum_process_state, Tracks, IsState
  <2> HIDE DEF us, idle
  <2>2. \A x \in DOMAIN ts.processes : SameLife(ts.processes[x], us.processes[x])
    BY <1>1, <2>1, StackLemma DEF Tracks, IsState
  <2>3. Keeps(ts, us)
    BY <2>1, <2>2 DEF Keeps, Tracks, IsState, SameLife
  <2> QED
    BY <2>3, KeepsTracks DEF us
<1>3. CASE e.pid # 0 /\ Known(ts, e.cpu, e.pid)
  <2>1. enum_process_state(ts, e) = SetProcess(ts, k, told(ts.processes[k]))
    BY <1>3 DEF enum_process_state
  <2>2. k \in DOMAIN ts.processes /\ SameLife(ts.processes[k], told(ts.processes[k]))
    BY <1>1, <1>3 DEF Known, Tracks, IsState
  <2> HIDE DEF told, k
  <2> QED
    BY <2>1, <2>2, WriteTracks
<1>4. CASE e.pid # 0 /\ ~Known(ts, e.cpu, e.pid)
  <2>1. enum_process_state(ts, e) = SetProcess(ts, k, q)
    BY <1>4 DEF enum_process_state
  <2>2. IsProcess(made) /\ made.freeEvents = 0
    BY NewLemma
  <2> HIDE DEF made, k
  <2>3. SameLife(made, new)
    BY <2>2, StackLemma
  <2> HIDE DEF new
  <2>4. SameLife(new, WithTop(new, f))
    <3>1. IsProcess(new)
      BY <2>3 DEF SameLife
    <3>2. IsFrame(f)
      BY <3>1, FrameLemma DEF IsFrame
    <3> HIDE DEF f
    <3> QED
      BY <3>1, <3>2, StackLemma
  <2> HIDE DEF f
  <2>5. IsProcess(q) /\ q.freeEvents = 0
    BY <2>2, <2>3, <2>4 DEF SameLife, IsProcess
  <2> HIDE DEF q
  <2>6. Tracks(SetProcess(ts, k, q), run, half \ {k})
    BY <2>5, TracksPut
  <2> QED
    BY <2>1, <2>6, TracksMore
<1> QED
  BY <1>2, <1>3, <1>4

LEMMA FreeTracks ==
  ASSUME NEW ts, NEW run, NEW half, Tracks(ts, run, half), NEW e,
         NEW k, k = Key(e.cpu, e.pid),
         \/ \A c \in Cpus : run[c] # k
         \/ k \notin half
  PROVE  Tracks(process_free(ts, e), run, half \cup {k})
<1>1. CASE ~Known(ts, e.cpu, e.pid)
  BY <1>1, TracksMore DEF process_free
<1>2. CASE Known(ts, e.cpu, e.pid)
  <2>1. k \in DOMAIN ts.processes /\ process_free(ts, e) = exit_process(ts, k)
    BY <1>2 DEF process_free, Known
  <2>2. \/ \A c \in Cpus : run[c] # k
        \/ ts.processes[k].freeEvents = 0
    BY <2>1 DEF Tracks
  <2> QED
    BY <2>1, <2>2, EndTracks
<1> QED
  BY <1>1, <1>2

\* The processor switches from a process that is found dead only when the
\* kernel has ended it, or from its idle process, with the first switch.
LEMMA OutTracks ==
  ASSUME NEW ts, NEW run, NEW half, Tracks(ts, run, half), NEW e, e.cpu \in Cpus,
         Dead(e.stateOut) => \/ run[e.cpu] \notin half
                             \/ \A c \in Cpus \ {e.cpu} : run[c] # run[e.cpu],
         NEW ended, half \subseteq ended, Dead(e.stateOut) => run[e.cpu] \in ended
  PROVE  LET us == ScheduledOut(ts, e) IN
         /\ IsState(us)
         /\ \A c \in Cpus \ {e.cpu} : us.running[c] = run[c] /\ run[c] \in DOMAIN us.processes
         /\ DOMAIN us.running = Cpus
         /\ \A k \in DOMAIN us.processes :
              us.processes[k].freeEvents = 0 \/ (us.processes[k].freeEvents = 1 /\ k \in ended)
<1> DEFINE k == run[e.cpu]
           p == ts.processes[k]
           idle == WithTop(p, [Top(p) EXCEPT !.t = "SYSCALL", !.s = "WAIT",
                                             !.change = e.time, !.entry = e.time])
           s == IF Top(p).s = "EXIT" THEN "ZOMBIE" ELSE IF e.stateOut = 0 THEN "WAIT_CPU" ELSE "WAIT"
           out == SetProcess(ts, k, SetStatus(p, s, e.time))
           left == exit_process(out, k)
           dead == SetProcess(left, k, SetStatus(left.processes[k], "DEAD", e.time))
<1>1. k \in DOMAIN ts.processes /\ IsProcess(p) /\ ts.running = run
  BY DEF Tracks, IsState
<1>2. ScheduledOut(ts, e) \in {ts, SetProcess(ts, k, idle), out}
        \/ (Dead(e.stateOut) /\ ScheduledOut(ts, e) = left /\ k \notin DOMAIN left.processes)
        \/ (Dead(e.stateOut) /\ ScheduledOut(ts, e) = dead /\ k \in DOMAIN left.processes)
  BY <1>1, Zenon DEF ScheduledOut, Running
<1>3. Tracks(ts, run, half) /\ Tracks(SetProcess(ts, k, idle), run, half)
  <2> HIDE DEF k, p
  <2>1. SameLife(p, idle)
    <3>1. IsFrame([Top(p) EXCEPT !.t = "SYSCALL", !.s = "WAIT", !.change = e.time, !.entry = e.time])
      BY <1>1, FrameLemma DEF IsFrame
    <3> QED
      BY <1>1, <3>1, StackLemma
  <2> HIDE DEF idle
  <2> QED
    BY <1>1, <2>1, WriteTracks DEF p
<1>4. Tracks(out, run, half) /\ k \in DOMAIN out.processes
      /\ out.processes[k].freeEvents = p.freeEvents
  <2> HIDE DEF k, p, s
  <2>1. SameLife(p, SetStatus(p, s, e.time))
    BY <1>1, StackLemma
  <2> DEFINE q == SetStatus(p, s, e.time)
  <2> HIDE DEF q
  <2>2. Tracks(SetProcess(ts, k, q), run, half)
    BY <1>1, <2>1, WriteTracks DEF p, q
  <2>3. k \in DOMAIN SetProcess(ts, k, q).processes /\ SetProcess(ts, k, q).processes[k] = q
    BY <2>1, SetProcessLemma DEF SameLife, Tracks, q
  <2> QED
    BY <2>1, <2>2, <2>3 DEF q, SameLife
<1> DEFINE Switched(us) ==
             /\ IsState(us)
             /\ \A c \in Cpus \ {e.cpu} : us.running[c] = run[c] /\ run[c] \in DOMAIN us.processes
             /\ DOMAIN us.running = Cpus
             /\ \A j \in DOMAIN us.processes :
                  us.processes[j].freeEvents = 0 \/ (us.processes[j].freeEvents = 1 /\ j \in ended)
<1>5. \A us : Tracks(us, run, half) => Switched(us)
  BY DEF Tracks
<1>6. ASSUME Dead(e.stateOut)
      PROVE  Switched(left)
  <2>1. CASE run[e.cpu] \notin half
    <3>1. out.processes[k].freeEvents = 0
      BY <1>4, <2>1 DEF Tracks
    <3> HIDE DEF out, k
    <3>2. Tracks(left, run, half \cup {k})
      BY <1>4, <3>1, EndTracks
    <3> HIDE DEF left
    <3> QED
      BY <3>2, <1>6 DEF Tracks, k
  <2>2. CASE \A c \in Cpus \ {e.cpu} : run[c] # run[e.cpu]
    <3> HIDE DEF out
    <3>1. CASE out.processes[k].freeEvents + 1 < 2
      <4>1. left = [out EXCEPT !.processes[k].freeEvents = @ + 1]
        BY <3>1 DEF exit_process
      <4>2. out.processes[k].freeEvents = 0
        BY <3>1, <1>4 DEF Tracks
      <4> HIDE DEF k
      <4>3. Tracks(left, run, half \cup {k})
        BY <1>4, <4>2, EndTracks
      <4> HIDE DEF left
      <4> QED
        BY <4>3, <1>6 DEF Tracks, k
    <3>2. CASE ~(out.processes[k].freeEvents + 1 < 2)
      <4>1. left = [out EXCEPT !.processes = Without(@, k),
                       !.running = [c \in Cpus |-> IF @[c] = k THEN Freed ELSE @[c]]]
        BY <3>2, Zenon DEF exit_process
      <4>2. /\ IsState(out) /\ out.running = run /\ run \in [Cpus -> DOMAIN out.processes]
            /\ \A j \in DOMAIN out.processes :
                 out.processes[j].freeEvents = 0
                   \/ (out.processes[j].freeEvents = 1 /\ j \in half)
        BY <1>4 DEF Tracks
      <4> HIDE DEF left
      <4>3. /\ DOMAIN left = DOMAIN out
            /\ left.running = [c \in Cpus |-> IF run[c] = k THEN Freed ELSE run[c]]
            /\ left.processes = Without(out.processes, k)
        BY <4>1, <4>2 DEF IsState
      <4>4. /\ DOMAIN left.processes = DOMAIN out.processes \ {k}
            /\ \A j \in DOMAIN left.processes : left.processes[j] = out.processes[j]
        BY <4>3 DEF Without
      <4>5. \A c \in Cpus \ {e.cpu} : left.running[c] = run[c] /\ run[c] \in DOMAIN left.processes
        BY <4>2, <4>3, <4>4, <2>2
      <4> QED
        BY <4>2, <4>3, <4>4, <4>5 DEF IsState
    <3> QED
      BY <3>1, <3>2
  <2> QED
    BY <1>6, <2>1, <2>2
<1>7. ASSUME Dead(e.stateOut), k \in DOMAIN left.processes
      PROVE  Switched(dead)
  <2> HIDE DEF k
  <2>1. Switched(left)
    BY <1>6, <1>7
  <2> HIDE DEF left
  <2> DEFINE q == SetStatus(left.processes[k], "DEAD", e.time)
  <2>2. SameLife(left.processes[k], q)
    BY <2>1, <1>7, StackLemma DEF IsState
  <2> HIDE DEF q
  <2>3. Keeps(left, SetProcess(left, k, q))
    BY <2>1, <2>2, <1>7, SetSame
  <2>4. dead = SetProcess(left, k, q)
    BY DEF q
  <2> HIDE DEF dead
  <2> QED
    BY <2>1, <2>3, <2>4 DEF Keeps, SameLife
<1> HIDE DEF out, left, dead, idle, k, Switched
<1>8. Switched(ScheduledOut(ts, e))
  BY <1>2, <1>3, <1>4, <1>5, <1>6, <1>7
<1> QED
  BY <1>8 DEF Switched

LEMMA SwitchTracks ==
  ASSUME NEW ts, NEW run, NEW half, Tracks(ts, run, half), NEW e, e.cpu \in Cpus,
         Dead(e.stateOut) => \/ run[e.cpu] \notin half
                             \/ \A c \in Cpus \ {e.cpu} : run[c] # run[e.cpu],
         NEW ended, half \subseteq ended, Dead(e.stateOut) => run[e.cpu] \in ended
  PROVE  Tracks(schedchange(ts, e), [run EXCEPT ![e.cpu] = InKey(e)], ended)
<1> DEFINE k == InKey(e)
           out == ScheduledOut(ts, e)
           found == find_process_or_create(out, e.cpu, e.pidIn, e.time)
           p == SetStatus(found.processes[k], "RUN", e.time)
           q == [p EXCEPT !.cpu = e.cpu]
           us == SetProcess(found, k, q)
           new == [run EXCEPT ![e.cpu] = k]
<1>1. /\ IsState(out)
      /\ \A c \in Cpus \ {e.cpu} : out.running[c] = run[c] /\ run[c] \in DOMAIN out.processes
      /\ DOMAIN out.running = Cpus
      /\ \A j \in DOMAIN out.processes :
           out.processes[j].freeEvents = 0 \/ (out.processes[j].freeEvents = 1 /\ j \in ended)
  BY OutTracks
<1> HIDE DEF out
<1>2. /\ IsState(found) /\ found.running = out.running
      /\ DOMAIN found.processes = DOMAIN out.processes \cup {k}
      /\ \A j \in DOMAIN out.processes : found.processes[j] = out.processes[j]
      /\ k \notin DOMAIN out.processes => found.processes[k].freeEvents = 0
  BY <1>1, CreateLemma DEF InKey
<1> HIDE DEF found, k
<1>3. SameLife(found.processes[k], p)
  BY <1>2, StackLemma DEF IsState
<1> HIDE DEF p
<1>4. SameLife(found.processes[k], q)
  BY <1>3 DEF SameLife, IsProcess
<1> HIDE DEF q
<1>5. Keeps(found, us)
  BY <1>2, <1>4, SetSame
<1>6. schedchange(ts, e) = [us EXCEPT !.running[e.cpu] = k,
                                      !.cpus[e.cpu].modes = SwitchedModes(e.pidIn, p)]
  BY Zenon DEF schedchange, us, q, p, found, out, k
<1> HIDE DEF us
<1> DEFINE done == schedchange(ts, e)
<1>7. /\ DOMAIN done = DOMAIN us
      /\ done.running = [out.running EXCEPT ![e.cpu] = k]
      /\ done.processes = us.processes
  BY <1>2, <1>5, <1>6 DEF Keeps, IsState
<1>8. done.running = new
  BY <1>1, <1>7 DEF Tracks
<1> HIDE DEF done
<1>9. /\ DOMAIN us.processes = DOMAIN out.processes \cup {k}
      /\ \A j \in DOMAIN us.processes : IsProcess(us.processes[j])
      /\ \A j \in DOMAIN us.processes :
           us.processes[j].freeEvents = 0 \/ (us.processes[j].freeEvents = 1 /\ j \in ended)
  BY <1>1, <1>2, <1>5 DEF Keeps, SameLife
<1>10. new \in [Cpus -> DOMAIN us.processes]
  BY <1>1, <1>9 DEF Tracks
<1>11. Tracks(done, new, ended)
  BY <1>5, <1>7, <1>8, <1>9, <1>10 DEF Tracks, IsState, Keeps
<1> QED
  BY <1>11 DEF done, k

-----------------------------------------------------------------------------
(* The steps of the traced system.                                         *)

LEMMA HookStep ==
  ASSUME RunInv, IsComputed(v), NEW e, e.cpu \in Cpus, v' = Process(v, e), Kernel',
         NEW half, HalfEnded' = half, NEW run, TakenToRun' = run,
         \A ts : Tracks(ts, TakenToRun, HalfEnded) => Tracks(Hook(ts, e), run, half)
  PROVE  RunInv' /\ IsComputed(v)' /\ Hooked(v, e, v')
<1>1. IsState(v.ts) /\ RunsKnown(v.ts)
  BY TracksRuns DEF RunInv
<1>2. ASSUME NEW ts, Recounts(v.ts, ts)
      PROVE  Tracks(Hook(ts, e), run, half)
  BY <1>1, <1>2, RecountsKeeps, KeepsTracks DEF RunInv
<1> DEFINE w == Process(v, e)
<1>3. /\ IsComputed(w)
      /\ \E ts : Recounts(v.ts, ts) /\ Recounts(Hook(ts, e), w.ts)
  BY <1>1, <1>2, TracksRuns, ProcessLemma
<1> HIDE DEF w
<1>4. PICK ts : Recounts(v.ts, ts) /\ Recounts(Hook(ts, e), w.ts)
  BY <1>3
<1>5. Tracks(w.ts, run, half)
  BY <1>2, <1>4, TracksRuns, RecountsKeeps, KeepsTracks
<1>6. v' = w
  BY DEF w
<1>7. Hooked(v, e, v')
  BY <1>2, <1>4, <1>6, TracksRuns DEF Hooked
<1> QED
  BY <1>3, <1>5, <1>6, <1>7 DEF RunInv, IsComputed

\* Steps that leave the processes where and what they are.
LEMMA QuietStep ==
  ASSUME RunInv, IsComputed(v), NEW e, e.cpu \in Cpus, e.kind \in QuietKinds \cup {"enum_process_state"},
         v' = Process(v, e), UNCHANGED <<current, status, ending, synced>>
  PROVE  RunInv' /\ IsComputed(v)' /\ Hooked(v, e, v')
<1>1. Kernel' /\ HalfEnded' = HalfEnded /\ TakenToRun' = TakenToRun
  BY DEF RunInv, Kernel, HalfEnded, TakenToRun, Ended, CurrentKey
<1>2. ASSUME NEW ts, Tracks(ts, TakenToRun, HalfEnded)
      PROVE  Tracks(Hook(ts, e), TakenToRun, HalfEnded)
  <2>1. CASE e.kind \in QuietKinds
    BY <1>2, <2>1, TracksRuns, QuietHook, KeepsTracks
  <2>2. CASE e.kind = "enum_process_state"
    BY <1>2, <2>2, DumpTracks DEF Hook
  <2> QED
    BY <2>1, <2>2
<1> QED
  BY <1>1, <1>2, HookStep

LEMMA SwitchStep ==
  ASSUME RunInv, IsComputed(v), NEW c \in Cpus, NEW in \in {0} \cup Pids, NEW stateOut \in {0, 1, 64},
         SchedChange(c, in, stateOut),
         NEW e, e = [kind |-> "schedchange", cpu |-> c, time |-> clock + Ticks,
               pidOut |-> current[c], pidIn |-> in, stateOut |-> stateOut]
  PROVE  RunInv' /\ IsComputed(v)' /\ Hooked(v, e, v')
<1> DEFINE left == IF current[c] = 0 THEN status
                   ELSE [status EXCEPT ![current[c]] = AfterSwitch(current[c], stateOut)]
<1>1. /\ in # current[c] /\ (in # 0 => status[in] = "ready")
      /\ stateOut \in OutStates(c)
      /\ current' = [current EXCEPT ![c] = in]
      /\ status' = IF in = 0 THEN left ELSE [left EXCEPT ![in] = "run"]
      /\ ending' = [p \in Pids |-> IF status'[p] = "none" THEN {} ELSE ending[p]]
      /\ synced' = synced \cup {c}
      /\ v' = Process(v, e)
  BY DEF SchedChange, Read, left
<1>2. /\ current[c] \in {0} \cup Pids
      /\ current[c] = 0 => stateOut = 0
      /\ stateOut = 64 => current[c] # 0 /\ ending[current[c]] # {}
      /\ AfterSwitch(current[c], stateOut) \in {"ready", "wait", "dead", "none"}
      /\ AfterSwitch(current[c], stateOut) = "dead"
           => stateOut = 64 /\ "free" \notin ending[current[c]]
      /\ AfterSwitch(current[c], stateOut) = "none"
           => stateOut = 64 /\ "free" \in ending[current[c]]
      /\ stateOut = 64 => AfterSwitch(current[c], stateOut) \in {"dead", "none"}
  BY <1>1 DEF OutStates, Exiting, AfterSwitch, RunInv, Kernel
<1>3. Pids \subseteq Nat \ {0}
  BY StateTraceAssumption
<1>4. left \in [Pids -> {"none", "forked", "ready", "run", "wait", "dead"}]
      /\ \A p \in Pids : p # current[c] => left[p] = status[p]
  BY <1>2 DEF RunInv, Kernel
<1>5. current[c] # 0 => left[current[c]] = AfterSwitch(current[c], stateOut)
  BY <1>2 DEF RunInv, Kernel
<1> HIDE DEF left
<1>6. /\ status' \in [Pids -> {"none", "forked", "ready", "run", "wait", "dead"}]
      /\ \A p \in Pids : p \notin {current[c], in} => status'[p] = status[p]
      /\ current[c] # 0 => status'[current[c]] = AfterSwitch(current[c], stateOut)
      /\ in # 0 => status'[in] = "run"
  BY <1>1, <1>3, <1>4, <1>5
<1>7. /\ current' \in [Cpus -> {0} \cup Pids]
      /\ current'[c] = in
      /\ \A d \in Cpus : d # c => current'[d] = current[d]
  BY <1>1 DEF RunInv, Kernel
<1>8. ending' \in [Pids -> {{}, {"exit"}, {"exit", "free"}}]
      /\ \A p \in Pids : ending'[p] = IF status'[p] = "none" THEN {} ELSE ending[p]
  BY <1>1 DEF RunInv, Kernel
<1>9. ASSUME NEW p \in Pids
      PROVE  /\ status'[p] = "dead" => ending'[p] = {"exit"}
             /\ ending'[p] # {} => status'[p] \notin {"none", "forked"}
  <2>1. CASE p = current[c]
    <3>1. status'[p] = AfterSwitch(p, stateOut) /\ p # 0
      BY <2>1, <1>3, <1>6
    <3> QED
      BY <2>1, <3>1, <1>2, <1>8 DEF RunInv, Kernel
  <2>2. CASE p # current[c] /\ p = in
    BY <2>2, <1>3, <1>6, <1>8
  <2>3. CASE p # current[c] /\ p # in
    BY <2>3, <1>6, <1>8 DEF RunInv, Kernel
  <2> QED
    BY <2>1, <2>2, <2>3
<1>10. ASSUME NEW d \in Cpus, current'[d] # 0
       PROVE  status'[current'[d]] = "run"
  <2>1. CASE d = c
    BY <2>1, <1>6, <1>7, <1>10
  <2>2. CASE d # c
    <3>1. current'[d] = current[d] /\ current[d] # 0 /\ status[current[d]] = "run"
          /\ current[d] # current[c] /\ current[d] # in /\ current[d] \in Pids
      BY <2>2, <1>1, <1>7, <1>10 DEF RunInv, Kernel
    <3> QED
      BY <3>1, <1>6
  <2> QED
    BY <2>1, <2>2
<1>11. ASSUME NEW a \in Cpus, NEW b \in Cpus, current'[a] = current'[b], current'[a] # 0
       PROVE  a = b
  <2>1. \A d \in Cpus : d # c => current[d] # in \/ in = 0
    BY <1>1 DEF RunInv, Kernel
  <2> QED
    BY <2>1, <1>7, <1>11 DEF RunInv, Kernel
<1>12. Kernel'
  BY <1>1, <1>6, <1>7, <1>8, <1>9, <1>10, <1>11 DEF RunInv, Kernel
<1>13. /\ DOMAIN TakenToRun = Cpus /\ DOMAIN TakenToRun' = Cpus
       /\ \A d \in Cpus : TakenToRun[d] = IF d \in synced THEN Key(d, current[d]) ELSE Key(d, 0)
       /\ \A d \in Cpus : TakenToRun'[d] = IF d \in synced \/ d = c THEN Key(d, current'[d])
                                           ELSE Key(d, 0)
  BY <1>1 DEF TakenToRun, CurrentKey
<1>14. TakenToRun' = [TakenToRun EXCEPT ![e.cpu] = InKey(e)]
  <2>1. e.cpu = c /\ InKey(e) = Key(c, in)
    BY DEF InKey
  <2>2. TakenToRun'[c] = Key(c, in)
    BY <1>7, <1>13
  <2>3. \A d \in Cpus : d # c => TakenToRun'[d] = TakenToRun[d]
    BY <1>7, <1>13
  <2>4. TakenToRun' = [d \in Cpus |-> TakenToRun'[d]] /\ TakenToRun = [d \in Cpus |-> TakenToRun[d]]
    BY DEF TakenToRun
  <2> QED
    BY <2>1, <2>2, <2>3, <2>4
<1>15. HalfEnded \subseteq HalfEnded'
  <2>1. ASSUME NEW p \in Pids, Ended(p)
        PROVE  Ended(p)'
    <3>1. CASE status[p] \in {"dead", "none"}
      <4>1. p # current[c] /\ p # in
        BY <3>1, <1>1, <1>3 DEF RunInv, Kernel
      <4> QED
        BY <3>1, <4>1, <1>6 DEF Ended
    <3>2. CASE "free" \in ending[p]
      BY <3>2, <1>8 DEF Ended
    <3> QED
      BY <2>1, <3>1, <3>2 DEF Ended
  <2> QED
    BY <2>1, <1>1 DEF HalfEnded
<1>16. ASSUME Dead(stateOut)
       PROVE  /\ \/ TakenToRun[c] \notin HalfEnded
                 \/ \A d \in Cpus \ {c} : TakenToRun[d] # TakenToRun[c]
              /\ TakenToRun[c] \in HalfEnded'
  <2>1. stateOut = 64
    BY <1>16 DEF Dead
  <2>2. CASE c \in synced
    <3>1. TakenToRun[c] = Key(c, current[c]) /\ current[c] \in Pids
      BY <2>1, <2>2, <1>2, <1>13
    <3>2. \A d \in Cpus \ {c} : TakenToRun[d] # TakenToRun[c]
      <4>1. ASSUME NEW d \in Cpus, d # c
            PROVE  current[d] # current[c]
        BY <4>1, <3>1, <1>3 DEF RunInv, Kernel
      <4>2. ASSUME NEW d \in Cpus, d # c
            PROVE  Key(d, current[d]) # Key(c, current[c]) /\ Key(d, 0) # Key(c, current[c])
        <5>1. CASE current[d] = 0
          BY <5>1, <3>1, Keys
        <5>2. CASE current[d] # 0
          <6>1. current[d] \in Pids /\ current[d] # current[c]
            BY <5>2, <4>1, <4>2 DEF RunInv, Kernel
          <6> QED
            BY <6>1, <3>1, Keys
        <5> QED
          BY <5>1, <5>2
      <4> QED
        BY <4>2, <3>1, <1>13
    <3>3. Key(0, current[c]) = Key(c, current[c]) /\ status'[current[c]] \in {"dead", "none"}
      <4>1. status'[current[c]] \in {"dead", "none"}
        BY <2>1, <1>2, <1>3, <1>6, <3>1
      <4>2. Key(0, current[c]) = Key(c, current[c])
        BY <3>1, Keys
      <4> QED
        BY <4>1, <4>2
    <3>4. TakenToRun[c] \in HalfEnded'
      BY <3>1, <3>3 DEF HalfEnded, Ended
    <3> QED
      BY <3>2, <3>4
  <2>3. CASE c \notin synced
    <3>1. TakenToRun[c] = Key(c, 0)
      BY <2>3, <1>13
    <3>2. Key(c, 0) \notin HalfEnded
      <4>1. \A d \in synced : Key(c, 0) # Key(d, 0)
        <5>1. synced \subseteq Cpus
          BY DEF RunInv, Kernel
        <5>2. ASSUME NEW d \in synced
              PROVE  Key(c, 0) # Key(d, 0)
          <6>1. d \in Cpus /\ d # c
            BY <5>1, <5>2, <2>3
          <6> QED
            BY <6>1 DEF Key
        <5> QED
          BY <5>2
      <4>2. \A p \in Pids : Key(c, 0) # Key(0, p)
        BY Keys
      <4> QED
        BY <4>1, <4>2 DEF HalfEnded
    <3>3. Key(c, 0) \in HalfEnded'
      BY <1>1 DEF HalfEnded
    <3> QED
      BY <3>1, <3>2, <3>3
  <2> QED
    BY <2>2, <2>3
<1>17. ASSUME NEW ts, Tracks(ts, TakenToRun, HalfEnded)
       PROVE  Tracks(Hook(ts, e), TakenToRun', HalfEnded')
  <2>1. e.cpu \in Cpus /\ e.cpu = c /\ e.stateOut = stateOut /\ e.kind = "schedchange"
    OBVIOUS
  <2>2. Hook(ts, e) = schedchange(ts, e)
    BY <2>1 DEF Hook
  <2>3. Tracks(schedchange(ts, e), [TakenToRun EXCEPT ![e.cpu] = InKey(e)], HalfEnded')
    BY <2>1, <1>15, <1>16, <1>17, SwitchTracks
  <2> QED
    BY <2>2, <2>3, <1>14
<1> QED
  <2>1. e.cpu \in Cpus
    OBVIOUS
  <2> QED
    BY <2>1, <1>1, <1>12, <1>17, HookStep

LEMMA WakeupStep ==
  ASSUME RunInv, IsComputed(v), NEW c \in Cpus, NEW p \in Pids, Wakeup(c, p),
         NEW e, e = [kind |-> "sched_try_wakeup", cpu |-> c, time |-> clock + Ticks,
               pid |-> p, wokenCpu |-> c]
  PROVE  RunInv' /\ IsComputed(v)' /\ Hooked(v, e, v')
<1>1. /\ status[p] = "wait" /\ status' = [status EXCEPT ![p] = "ready"]
      /\ v' = Process(v, e) /\ UNCHANGED <<current, ending, synced>>
  BY DEF Wakeup, Read
<1>2. e.cpu \in Cpus /\ e.kind = "sched_try_wakeup"
  OBVIOUS
<1>3. Kernel'
  BY <1>1, StateTraceAssumption DEF RunInv, Kernel
<1>4. HalfEnded' = HalfEnded /\ TakenToRun' = TakenToRun
  <2>1. \A q \in Pids : Ended(q)' <=> Ended(q)
    BY <1>1 DEF Ended, RunInv, Kernel
  <2> QED
    BY <1>1, <2>1 DEF HalfEnded, TakenToRun, CurrentKey
<1>5. ASSUME NEW ts, Tracks(ts, TakenToRun, HalfEnded)
      PROVE  Tracks(Hook(ts, e), TakenToRun, HalfEnded)
  BY <1>2, <1>5, WakeupTracks DEF Hook
<1> QED
  BY <1>1, <1>2, <1>3, <1>4, <1>5, HookStep

LEMMA ForkStep ==
  ASSUME RunInv, IsComputed(v), NEW c \in Cpus, NEW p \in Pids, NEW thread \in BOOLEAN,
         Fork(c, p, thread),
         NEW e, e = [kind |-> "process_fork", cpu |-> c, time |-> clock + Ticks, pid |-> p]
  PROVE  RunInv' /\ IsComputed(v)' /\ Hooked(v, e, v')
<1>1. /\ status[p] = "none" /\ status' = [status EXCEPT ![p] = IF thread THEN "forked" ELSE "ready"]
      /\ v' = Process(v, e) /\ UNCHANGED <<current, ending, synced>>
  BY DEF Fork, Read
<1>2. e.cpu \in Cpus /\ e.kind = "process_fork" /\ Key(e.cpu, e.pid) = Key(0, p)
  BY Keys
<1>3. Kernel'
  BY <1>1, StateTraceAssumption DEF RunInv, Kernel
<1>4. HalfEnded' = HalfEnded \ {Key(0, p)} /\ TakenToRun' = TakenToRun
  <2>1. \A q \in Pids : Ended(q)' <=> Ended(q) /\ q # p
    BY <1>1 DEF Ended, RunInv, Kernel
  <2>2. \A q \in Pids : Key(0, q) = Key(0, p) <=> q = p
    BY StateAssumption, Keys
  <2>3. \A d \in synced : Key(d, 0) # Key(0, p)
    BY Keys DEF RunInv, Kernel
  <2> QED
    BY <1>1, <2>1, <2>2, <2>3 DEF HalfEnded, TakenToRun, CurrentKey
<1>5. ASSUME NEW ts, Tracks(ts, TakenToRun, HalfEnded)
      PROVE  Tracks(Hook(ts, e), TakenToRun, HalfEnded \ {Key(0, p)})
  <2>1. Hook(ts, e) = process_fork(ts, e)
    BY <1>2 DEF Hook
  <2> QED
    BY <1>2, <1>5, <2>1, ForkTracks
<1> QED
  BY <1>1, <1>2, <1>3, <1>4, <1>5, HookStep

LEMMA ThreadStep ==
  ASSUME RunInv, IsComputed(v), NEW c \in Cpus, NEW p \in Pids, KernelThread(c, p),
         NEW e, e = [kind |-> "process_kernel_thread", cpu |-> c, time |-> clock + Ticks, pid |-> p]
  PROVE  RunInv' /\ IsComputed(v)' /\ Hooked(v, e, v')
<1>1. /\ status[p] = "forked" /\ status' = [status EXCEPT ![p] = "ready"]
      /\ v' = Process(v, e) /\ UNCHANGED <<current, ending, synced>>
  BY DEF KernelThread, Read
<1>2. e.cpu \in Cpus /\ e.kind = "process_kernel_thread"
  OBVIOUS
<1>3. Kernel'
  BY <1>1, StateTraceAssumption DEF RunInv, Kernel
<1>4. HalfEnded' = HalfEnded /\ TakenToRun' = TakenToRun
  <2>1. \A q \in Pids : Ended(q)' <=> Ended(q)
    BY <1>1 DEF Ended, RunInv, Kernel
  <2> QED
    BY <1>1, <2>1 DEF HalfEnded, TakenToRun, CurrentKey
<1>5. ASSUME NEW ts, Tracks(ts, TakenToRun, HalfEnded)
      PROVE  Tracks(Hook(ts, e), TakenToRun, HalfEnded)
  BY <1>2, <1>5, ThreadTracks DEF Hook
<1> QED
  BY <1>1, <1>2, <1>3, <1>4, <1>5, HookStep

LEMMA ExitStep ==
  ASSUME RunInv, IsComputed(v), NEW c \in Cpus, Exit(c),
         NEW e, e = [kind |-> "process_exit", cpu |-> c, time |-> clock + Ticks, pid |-> current[c]]
  PROVE  RunInv' /\ IsComputed(v)' /\ Hooked(v, e, v')
<1>1. /\ current[c] # 0 /\ ending[current[c]] = {}
      /\ ending' = [ending EXCEPT ![current[c]] = {"exit"}]
      /\ v' = Process(v, e) /\ UNCHANGED <<current, status, synced>>
  BY DEF Exit, Exiting, Read
<1>2. e.cpu \in Cpus /\ e.kind \in QuietKinds
  BY DEF QuietKinds
<1>3. Kernel'
  BY <1>1 DEF RunInv, Kernel
<1>4. HalfEnded' = HalfEnded /\ TakenToRun' = TakenToRun
  <2>1. \A q \in Pids : Ended(q)' <=> Ended(q)
    BY <1>1 DEF Ended, RunInv, Kernel
  <2> QED
    BY <1>1, <2>1 DEF HalfEnded, TakenToRun, CurrentKey
<1>5. ASSUME NEW ts, Tracks(ts, TakenToRun, HalfEnded)
      PROVE  Tracks(Hook(ts, e), TakenToRun, HalfEnded)
  BY <1>2, <1>5, TracksRuns, QuietHook, KeepsTracks
<1> QED
  BY <1>1, <1>2, <1>3, <1>4, <1>5, HookStep

LEMMA FreeStep ==
  ASSUME RunInv, IsComputed(v), NEW c \in Cpus, NEW p \in Pids, Free(c, p),
         NEW e, e = [kind |-> "process_free", cpu |-> c, time |-> clock + Ticks, pid |-> p]
  PROVE  RunInv' /\ IsComputed(v)' /\ Hooked(v, e, v')
<1> DEFINE k == Key(0, p)
<1>1. /\ ending[p] = {"exit"}
      /\ status' = IF status[p] = "dead" THEN [status EXCEPT ![p] = "none"] ELSE status
      /\ ending' = [ending EXCEPT ![p] = IF status[p] = "dead" THEN {} ELSE @ \cup {"free"}]
      /\ v' = Process(v, e) /\ UNCHANGED <<current, synced>>
  BY DEF Free, Read
<1>2. e.cpu \in Cpus /\ e.kind = "process_free" /\ k = Key(e.cpu, e.pid)
  BY Keys
<1>3. Kernel'
  <2>1. CASE status[p] = "dead"
    BY <1>1, <2>1, StateTraceAssumption DEF RunInv, Kernel
  <2>2. CASE status[p] # "dead"
    <3>1. ending' = [ending EXCEPT ![p] = {"exit", "free"}] /\ status' = status
      BY <1>1, <2>2 DEF RunInv, Kernel
    <3> QED
      BY <1>1, <2>2, <3>1 DEF RunInv, Kernel
  <2> QED
    BY <2>1, <2>2
<1>4. HalfEnded' = HalfEnded \cup {k} /\ TakenToRun' = TakenToRun
  <2>1. \A q \in Pids : Ended(q)' <=> Ended(q) \/ q = p
    BY <1>1 DEF Ended, RunInv, Kernel
  <2> QED
    BY <1>1, <2>1 DEF HalfEnded, TakenToRun, CurrentKey
<1>5. (\A d \in Cpus : TakenToRun[d] # k) \/ k \notin HalfEnded
  <2>1. CASE Ended(p)
    <3>1. status[p] \in {"dead", "none"}
      BY <1>1, <2>1 DEF Ended
    <3>2. ASSUME NEW d \in Cpus
          PROVE  Key(d, current[d]) # k /\ Key(d, 0) # k
      <4>1. CASE current[d] = 0
        BY <4>1, Keys
      <4>2. CASE current[d] # 0
        <5>1. current[d] \in Pids /\ current[d] # p
          BY <3>1, <4>2 DEF RunInv, Kernel
        <5> QED
          BY <5>1, Keys
      <4> QED
        BY <4>1, <4>2
    <3> QED
      BY <3>2 DEF TakenToRun, CurrentKey
  <2>2. CASE ~Ended(p)
    <3>1. \A q \in Pids : Key(0, q) = k <=> q = p
      BY StateAssumption, Keys
    <3>2. \A d \in synced : Key(d, 0) # k
      BY Keys DEF RunInv, Kernel
    <3> QED
      BY <2>2, <3>1, <3>2 DEF HalfEnded
  <2> QED
    BY <2>1, <2>2
<1>6. ASSUME NEW ts, Tracks(ts, TakenToRun, HalfEnded)
      PROVE  Tracks(Hook(ts, e), TakenToRun, HalfEnded \cup {k})
  <2>1. Hook(ts, e) = process_free(ts, e)
    BY <1>2 DEF Hook
  <2>2. Tracks(process_free(ts, e), TakenToRun, HalfEnded \cup {k})
    BY <1>2, <1>5, <1>6, FreeTracks
  <2> QED
    BY <2>1, <2>2
<1> QED
  BY <1>1, <1>2, <1>3, <1>4, <1>6, HookStep

-----------------------------------------------------------------------------

\* All that a trace may tell.
Traced == Init /\ [][Next \/ Described]_vars

LEMMA RunInit ==
  ASSUME Init
  PROVE  RunInv /\ IsComputed(v)
<1>1. /\ v = [ts |-> InitialState(1), st |-> InitialStatistics]
      /\ synced = {} /\ ending = [p \in Pids |-> {}]
      /\ current \in [Cpus -> {0} \cup InitialPids]
      /\ \A c, d \in Cpus : current[c] = current[d] /\ current[c] # 0 => c = d
      /\ status \in [Pids -> {"none", "ready", "run", "wait"}]
      /\ \A p \in InitialPids : status[p] = "run" <=> \E c \in Cpus : current[c] = p
  BY DEF Init
<1>2. Kernel
  <2>1. \A c \in Cpus : current[c] # 0 => status[current[c]] = "run"
    BY <1>1
  <2>2. \A p \in Pids : ending[p] = {} /\ status[p] # "dead"
    BY <1>1
  <2>3. /\ current \in [Cpus -> {0} \cup Pids] /\ synced \subseteq Cpus
        /\ status \in [Pids -> {"none", "forked", "ready", "run", "wait", "dead"}]
        /\ ending \in [Pids -> {{}, {"exit"}, {"exit", "free"}}]
    BY <1>1 DEF Pids
  <2> QED
    BY <1>1, <2>1, <2>2, <2>3 DEF Kernel
<1> DEFINE ts == InitialState(1)
<1>3. /\ DOMAIN ts = {"processes", "running", "cpus", "irqs", "softIrqs", "traps", "bdevs", "nb"}
      /\ ts.processes = [k \in {Key(c, 0) : c \in Cpus} |-> UnknownProcess(k[2], 0, 1)]
      /\ ts.running = [c \in Cpus |-> Key(c, 0)]
  BY DEF InitialState, restore_init_state
<1> HIDE DEF ts
<1>4. TakenToRun = ts.running
  BY <1>1, <1>3 DEF TakenToRun
<1>5. \A x : IsProcess(UnknownProcess(x, 0, 1)) /\ UnknownProcess(x, 0, 1).freeEvents = 0
  BY NewLemma
<1>6. Tracks(ts, TakenToRun, HalfEnded)
  BY <1>3, <1>4, <1>5 DEF Tracks, IsState
<1> QED
  BY <1>1, <1>2, <1>6 DEF RunInv, IsComputed, ts

LEMMA RunStep ==
  ASSUME RunInv, IsComputed(v), Next \/ Described
  PROVE  RunInv' /\ IsComputed(v)'
<1>1. ASSUME NEW e, e.cpu \in Cpus, e.kind \in QuietKinds \cup {"enum_process_state"}, Read(e),
             UNCHANGED <<current, status, ending, synced>>
      PROVE  RunInv' /\ IsComputed(v)'
  BY <1>1, QuietStep DEF Read
<1>2. ASSUME NEW c \in Cpus,
             \/ SyscallExit(c) \/ IrqExit(c) \/ SoftIrqExit(c) \/ StatedumpEnd(c)
             \/ \E kind \in {"trap_exit", "page_fault_exit"} : TrapExit(c, kind)
             \/ Exec(c) \/ Brand(c)
             \/ \E id \in Ids :
                  \/ SyscallEntry(c, id) \/ IrqEntry(c, id) \/ SoftIrqRaise(c, id)
                  \/ \E kind \in {"trap_entry", "page_fault_entry"} : TrapEntry(c, id, kind)
                  \/ SoftIrqEntry(c, id) \/ ListInterrupt(c, id) \/ ListSoftIrq(c, id)
                  \/ Open(c, id) \/ Call(c, id) \/ Return(c, id)
                  \/ \E oper \in {"BUSY_READING", "BUSY_WRITING"} : Request(c, id, oper)
                  \/ RequestDone(c, id)
             \/ \E p \in {0} \cup Pids : ProcessState(c, p)
      PROVE  \E e : /\ e.cpu \in Cpus /\ e.kind \in QuietKinds \cup {"enum_process_state"} /\ Read(e)
                    /\ UNCHANGED <<current, status, ending, synced>>
  BY <1>2 DEF QuietKinds, SyscallExit, IrqExit, SoftIrqExit, StatedumpEnd, TrapExit, Exec, Brand,
              SyscallEntry, IrqEntry, SoftIrqRaise, TrapEntry, SoftIrqEntry, ListInterrupt,
              ListSoftIrq, Open, Call, Return, Request, RequestDone, ProcessState, Push, Pop, Tell,
              Event, EventId
<1>3. ASSUME NEW c \in Cpus, NEW in \in {0} \cup Pids, NEW stateOut \in {0, 1, 64},
             SchedChange(c, in, stateOut)
      PROVE  RunInv' /\ IsComputed(v)'
  <2> DEFINE e == [kind |-> "schedchange", cpu |-> c, time |-> clock + Ticks,
                   pidOut |-> current[c], pidIn |-> in, stateOut |-> stateOut]
  <2>1. e = [kind |-> "schedchange", cpu |-> c, time |-> clock + Ticks,
             pidOut |-> current[c], pidIn |-> in, stateOut |-> stateOut]
    OBVIOUS
  <2> HIDE DEF e
  <2> QED
    BY <1>3, <2>1, SwitchStep
<1>4. ASSUME NEW c \in Cpus, NEW p \in Pids,
             \/ Wakeup(c, p) \/ KernelThread(c, p) \/ Free(c, p)
             \/ \E thread \in BOOLEAN : Fork(c, p, thread)
      PROVE  RunInv' /\ IsComputed(v)'
  BY <1>4, WakeupStep, ThreadStep, FreeStep, ForkStep
<1>5. ASSUME NEW c \in Cpus, Exit(c)
      PROVE  RunInv' /\ IsComputed(v)'
  BY <1>5, ExitStep
<1> QED
  BY <1>1, <1>2, <1>3, <1>4, <1>5, Zenon DEF Next, Described

\* Whatever the trace tells of processes that come and go while it is read, a
\* processor is taken to run a process that the state still has, and from its
\* first switch on the one it does run (RunningIsCurrent): exit_process never
\* frees a running process, for a process ends once when it is switched out dead
\* and once when it is released, in either order, and no processor is taken to
\* run it after the second.
THEOREM RunningIsKnown == Traced => []RunningIsCurrent
<1> DEFINE I == RunInv /\ IsComputed(v)
<1>1. Init => I
  BY RunInit
<1>2. I /\ [Next \/ Described]_vars => I'
  <2>1. ASSUME I, UNCHANGED vars
        PROVE  I'
    BY <2>1 DEF vars, RunInv, Kernel, HalfEnded, Ended, TakenToRun, CurrentKey, IsComputed, Tracks
  <2> QED
    BY <2>1, RunStep
<1>3. I => RunningIsCurrent
  BY DEF RunInv, Tracks, RunningIsCurrent, TakenToRun, Table
<1> HIDE DEF I
<1> QED
  BY <1>1, <1>2, <1>3, PTL DEF Traced

-----------------------------------------------------------------------------
(* The modes of a process, one by one.                                     *)

LEMMA ModesFacts ==
  ASSUME NEW p, IsProcess(p)
  PROVE  LET m == Modes(p) IN
         /\ m \in Seq({p.stack[i].t : i \in 1 .. Len(p.stack)})
         /\ Len(m) = Len(p.stack) /\ Len(m) \in Nat \ {0}
         /\ DOMAIN m = 1 .. Len(p.stack)
         /\ \A i \in 1 .. Len(m) : m[i] = p.stack[i].t
         /\ Last1(m) = Top(p).t
<1>1. Len(p.stack) \in Nat \ {0}
  BY FrameLemma
<1> DEFINE m == Modes(p)
           n == Len(p.stack)
<1>2. m = [i \in 1 .. n |-> p.stack[i].t]
  BY DEF Modes
<1> HIDE DEF n
<1>3. m \in [1 .. n -> {p.stack[i].t : i \in 1 .. n}]
  BY <1>2
<1> DEFINE T == {p.stack[i].t : i \in 1 .. n}
<1> HIDE DEF T
<1>4. m \in Seq(T) /\ Len(m) = n /\ n \in Nat \ {0}
  BY <1>1, <1>3 DEF n, T
<1>5. n \in 1 .. n
  BY <1>4
<1>6. Last1(m) = p.stack[n].t
  BY <1>2, <1>4, <1>5 DEF Last1
<1> QED
  BY <1>2, <1>4, <1>6 DEF n, T, Top, Last1

\* Two sequences with the same elements.
LEMMA SameSequence ==
  ASSUME NEW S, NEW T, NEW s \in Seq(S), NEW t \in Seq(T), Len(s) = Len(t),
         \A i \in 1 .. Len(s) : s[i] = t[i]
  PROVE  s = t
<1>1. Len(s) \in Nat /\ DOMAIN s = 1 .. Len(s) /\ DOMAIN t = 1 .. Len(s)
      /\ s = [i \in 1 .. Len(s) |-> s[i]] /\ t = [i \in 1 .. Len(s) |-> t[i]]
  OBVIOUS
<1> QED
  BY <1>1

LEMMA ModesPush ==
  ASSUME NEW p, IsProcess(p), NEW f, IsFrame(f), NEW q, IsProcess(q), q.stack = Append(p.stack, f)
  PROVE  /\ Modes(q) = Append(Modes(p), f.t) /\ Top(q) = f
         /\ q.stack[1] = p.stack[1]
<1> DEFINE m == Modes(p)
           S == {p.stack[i].t : i \in 1 .. Len(p.stack)} \cup {f.t}
           u == Append(m, f.t)
<1>1. /\ Len(q.stack) = Len(p.stack) + 1 /\ Last1(q.stack) = f
      /\ \A i \in 1 .. Len(p.stack) : q.stack[i] = p.stack[i]
  BY PushFacts DEF IsProcess
<1>2. Len(p.stack) \in Nat \ {0}
  BY FrameLemma
<1>3. m \in Seq(S) /\ Len(m) = Len(p.stack) /\ \A i \in 1 .. Len(m) : m[i] = p.stack[i].t
  <2> DEFINE T == {p.stack[i].t : i \in 1 .. Len(p.stack)}
  <2>1. m \in Seq(T) /\ Len(m) = Len(p.stack) /\ \A i \in 1 .. Len(m) : m[i] = p.stack[i].t
    BY ModesFacts
  <2>2. T \subseteq S
    OBVIOUS
  <2> HIDE DEF T, S, m
  <2> QED
    BY <2>1, <2>2
<1>4. f.t \in S
  OBVIOUS
<1> HIDE DEF S, m
<1>5. u \in Seq(S) /\ Len(u) = Len(q.stack) /\ u[Len(q.stack)] = f.t
      /\ \A i \in 1 .. Len(p.stack) : u[i] = p.stack[i].t
  BY <1>1, <1>2, <1>3, <1>4
<1>6. \E T : Modes(q) \in Seq(T)
  BY ModesFacts
<1>7. Len(Modes(q)) = Len(q.stack) /\ \A i \in 1 .. Len(q.stack) : Modes(q)[i] = q.stack[i].t
  BY ModesFacts
<1>8. q.stack[Len(q.stack)] = f
  BY <1>1 DEF Last1
<1> HIDE DEF u
<1>9. \A i \in 1 .. Len(q.stack) : Modes(q)[i] = u[i]
  BY <1>1, <1>2, <1>5, <1>7, <1>8
<1>10. Modes(q) = u
  BY <1>5, <1>6, <1>7, <1>9, SameSequence
<1> QED
  BY <1>1, <1>2, <1>8, <1>10 DEF u, m, Top, Last1

LEMMA ModesCut ==
  ASSUME NEW p, IsProcess(p), NEW q, IsProcess(q), NEW n \in 1 .. Len(p.stack), Len(q.stack) = n,
         \A i \in 1 .. n : q.stack[i].t = p.stack[i].t
  PROVE  Modes(q) = SubSeq(Modes(p), 1, n)
<1> DEFINE m == Modes(p)
           u == SubSeq(m, 1, n)
<1>1. \E T : m \in Seq(T)
  BY ModesFacts
<1>2. Len(m) = Len(p.stack) /\ (\A i \in 1 .. Len(m) : m[i] = p.stack[i].t)
      /\ Len(p.stack) \in Nat
  BY ModesFacts
<1>3. PICK T : m \in Seq(T)
  BY <1>1
<1> HIDE DEF m
<1>4. u \in Seq(T) /\ Len(u) = n /\ \A i \in 1 .. n : u[i] = m[i]
  BY <1>2, <1>3
<1>5. \E S : Modes(q) \in Seq(S)
  BY ModesFacts
<1>6. Len(Modes(q)) = n /\ \A i \in 1 .. n : Modes(q)[i] = q.stack[i].t
  BY ModesFacts
<1> HIDE DEF u
<1>7. \A i \in 1 .. n : Modes(q)[i] = u[i]
  BY <1>2, <1>4, <1>6
<1>8. Modes(q) = u
  BY <1>4, <1>5, <1>6, <1>7, SameSequence
<1> QED
  BY <1>8 DEF u, m

-----------------------------------------------------------------------------
(* What the state tells of the processes born in the trace.  A life is     *)
(* what the kernel knows of one: its modes, whether one of its two ends is *)
(* behind it, and whether it waits to be stamped as a kernel thread.       *)

Like(p, life) ==
  /\ p.pid = life.pid /\ p.freeEvents = life.freed /\ Modes(p) = life.modes
  /\ p.stack[1].t # "MODE_UNKNOWN"
  /\ life.forked => Top(p).s = "WAIT_FORK"

\* The processes of the keys B are those of the lives L.
Tells(ts, B, L) ==
  /\ DOMAIN L \subseteq B
  /\ \A k \in B : k \in DOMAIN ts.processes <=> k \in DOMAIN L
  /\ \A k \in DOMAIN L : Like(ts.processes[k], L[k])

\* One process and its life change.
LEMMA TellsOne ==
  ASSUME NEW ts, NEW B, NEW L, Tells(ts, B, L), NEW k, NEW us,
         \A j : j # k => (j \in DOMAIN us.processes <=> j \in DOMAIN ts.processes),
         \A j \in DOMAIN ts.processes : j # k => us.processes[j] = ts.processes[j],
         NEW B2, B \subseteq B2, B2 \subseteq B \cup {k}, NEW L2, DOMAIN L2 \subseteq B2,
         \A j : j # k => (j \in DOMAIN L2 <=> j \in DOMAIN L),
         \A j \in DOMAIN L : j # k => L2[j] = L[j],
         k \in B2 => (k \in DOMAIN us.processes <=> k \in DOMAIN L2),
         k \in DOMAIN L2 => Like(us.processes[k], L2[k])
  PROVE  Tells(us, B2, L2)
<1>1. ASSUME NEW j \in B2
      PROVE  j \in DOMAIN us.processes <=> j \in DOMAIN L2
  <2>1. CASE j = k
    BY <2>1, <1>1
  <2>2. CASE j # k
    BY <2>2, <1>1 DEF Tells
  <2> QED
    BY <2>1, <2>2
<1>2. ASSUME NEW j \in DOMAIN L2
      PROVE  Like(us.processes[j], L2[j])
  <2>1. CASE j = k
    BY <2>1, <1>2
  <2>2. CASE j # k
    <3>1. j \in DOMAIN L /\ j \in B /\ j \in DOMAIN ts.processes
      BY <2>2, <1>2 DEF Tells
    <3> QED
      BY <2>2, <3>1 DEF Tells
  <2> QED
    BY <2>1, <2>2
<1> QED
  BY <1>1, <1>2 DEF Tells

\* One process that is not among them changes.
LEMMA TellsElse ==
  ASSUME NEW ts, NEW B, NEW L, Tells(ts, B, L), NEW k, k \notin B, NEW us,
         \A j : j # k => (j \in DOMAIN us.processes <=> j \in DOMAIN ts.processes),
         \A j \in DOMAIN ts.processes : j # k => us.processes[j] = ts.processes[j]
  PROVE  Tells(us, B, L)
BY DEF Tells

\* Nothing of their lives changes.
SameLook(p, q) ==
  q.pid = p.pid /\ q.freeEvents = p.freeEvents /\ q.stack = p.stack

LooksSame(ts, us) ==
  /\ DOMAIN us.processes = DOMAIN ts.processes
  /\ \A k \in DOMAIN ts.processes : SameLook(ts.processes[k], us.processes[k])

LEMMA TellsSame ==
  ASSUME NEW ts, NEW B, NEW L, Tells(ts, B, L), NEW us, LooksSame(ts, us)
  PROVE  Tells(us, B, L)
<1>1. ASSUME NEW k \in DOMAIN L
      PROVE  Like(us.processes[k], L[k])
  <2> DEFINE p == ts.processes[k]
             q == us.processes[k]
  <2>1. SameLook(p, q) /\ Like(p, L[k])
    BY <1>1 DEF LooksSame, Tells
  <2> HIDE DEF p, q
  <2>2. Modes(q) = Modes(p) /\ Top(q) = Top(p)
    BY <2>1 DEF SameLook, Modes, Top
  <2> QED
    BY <2>1, <2>2 DEF Like, SameLook, q
<1> QED
  BY <1>1 DEF Tells, LooksSame

LEMMA TellsRecounted ==
  ASSUME NEW ts, IsState(ts), NEW B, NEW L, Tells(ts, B, L), NEW us, Recounts(ts, us)
  PROVE  Tells(us, B, L)
<1>1. ASSUME NEW k \in DOMAIN L
      PROVE  Like(us.processes[k], L[k])
  <2> DEFINE p == ts.processes[k]
             q == us.processes[k]
  <2>1. Recounted(p, q) /\ IsProcess(p) /\ Like(p, L[k])
    BY <1>1 DEF Recounts, Tells, IsState
  <2> HIDE DEF p, q
  <2>2. /\ Len(p.stack) \in Nat \ {0} /\ Len(q.stack) = Len(p.stack) /\ IsProcess(q)
        /\ \A i \in 1 .. Len(p.stack) : q.stack[i].t = p.stack[i].t /\ q.stack[i].s = p.stack[i].s
    BY <2>1, FrameLemma DEF Recounted
  <2>3. /\ 1 \in 1 .. Len(p.stack) /\ Len(p.stack) \in 1 .. Len(p.stack)
    BY <2>2
  <2>4. Modes(q) = Modes(p)
    BY <2>2 DEF Modes
  <2>5. Top(q).s = Top(p).s /\ q.stack[1].t = p.stack[1].t
    BY <2>2, <2>3 DEF Top, Last1
  <2>6. q.pid = p.pid /\ q.freeEvents = p.freeEvents
    BY <2>1 DEF Recounted, IsProcess
  <2> QED
    BY <2>1, <2>4, <2>5, <2>6 DEF Like, q
<1> QED
  BY <1>1 DEF Tells, Recounts

\* The modes of a process with another on top.
Deeper(m, t) == Append(m, t)

\* Two stacks and the processes they are of.
LEMMA TellsPush ==
  ASSUME NEW ts, IsState(ts), RunsKnown(ts), NEW B, NEW L, Tells(ts, B, L), NEW c \in Cpus,
         NEW k, k = ts.running[c], NEW t, NEW n, NEW time,
         NEW us, us.processes = push_state(ts, c, t, n, time).processes,
         NEW L2, DOMAIN L2 = DOMAIN L, \A j \in DOMAIN L : j # k => L2[j] = L[j],
         k \in DOMAIN L => /\ ~L[k].forked
                           /\ L2[k] = [pid |-> L[k].pid, freed |-> L[k].freed,
                                       modes |-> Deeper(L[k].modes, t), forked |-> FALSE]
  PROVE  Tells(us, B, L2)
<1> DEFINE p == ts.processes[k]
           f == Frame(t, n, Top(p).s, time)
           q == [p EXCEPT !.stack = Append(p.stack, f)]
<1>1. k \in DOMAIN ts.processes /\ IsProcess(p)
  BY DEF IsState, RunsKnown
<1>2. push_state(ts, c, t, n, time) = SetProcess(ts, k, q)
  BY <1>1 DEF push_state, SetRunning, Running, IsProcess
<1>3. IsFrame(f) /\ f.t = t
  BY DEF Frame, IsFrame
<1> HIDE DEF f
<1>4. IsProcess(q) /\ q.stack = Append(p.stack, f) /\ q.pid = p.pid /\ q.freeEvents = p.freeEvents
  BY <1>1, <1>3, PushFacts DEF IsProcess
<1> HIDE DEF q
<1>5. /\ DOMAIN us.processes = DOMAIN ts.processes
      /\ us.processes[k] = q
      /\ \A j \in DOMAIN ts.processes : j # k => us.processes[j] = ts.processes[j]
  BY <1>1, <1>2, <1>4, SetKnown
<1>6. ASSUME k \in DOMAIN L2
      PROVE  Like(q, L2[k])
  <2>1. Like(p, L[k])
    BY <1>6 DEF Tells
  <2> HIDE DEF p
  <2>2. Modes(q) = Append(Modes(p), t) /\ q.stack[1] = p.stack[1]
    BY <1>1, <1>3, <1>4, ModesPush
  <2> QED
    BY <1>4, <1>6, <2>1, <2>2 DEF Like, Deeper
<1>7. DOMAIN L2 \subseteq B /\ (k \in B => (k \in DOMAIN us.processes <=> k \in DOMAIN L2))
  BY <1>5 DEF Tells
<1> QED
  BY <1>5, <1>6, <1>7, TellsOne

LEMMA PoppedLemma ==
  ASSUME NEW p, IsProcess(p), Len(p.stack) > 1, NEW time
  PROVE  LET q == Popped(p, time) IN
         /\ IsProcess(q) /\ Modes(q) = Front1(Modes(p))
         /\ q.pid = p.pid /\ q.freeEvents = p.freeEvents /\ q.stack[1].t = p.stack[1].t
<1> DEFINE q == Popped(p, time)
           n == Len(p.stack)
           under == Front1(p.stack)
           f == [under[Len(under)] EXCEPT !.change = time]
           u == [under EXCEPT ![Len(under)] = f]
<1>1. SameLife(p, q)
  BY StackLemma
<1>2. q.stack = u
  BY DEF Popped, IsProcess
<1>3. n \in Nat /\ n > 1 /\ n - 1 \in 1 .. n
  <2>1. n \in Nat \ {0} /\ n > 1
    BY FrameLemma
  <2> HIDE DEF n
  <2> QED
    BY <2>1
<1>4. IsStack(under) /\ Len(under) = n - 1 /\ \A i \in 1 .. n - 1 : under[i] = p.stack[i]
  BY <1>3, CutFacts DEF Front1, IsProcess
<1> HIDE DEF under
<1>5. IsFrame(under[Len(under)]) /\ Len(under) \in 1 .. Len(under)
  BY <1>3, <1>4, StackFacts
<1>6. IsFrame(f) /\ f.t = under[Len(under)].t
  BY <1>5 DEF IsFrame
<1> HIDE DEF f
<1>7. Len(u) = n - 1 /\ u[Len(under)] = f /\ \A i \in 1 .. n - 1 : i # Len(under) => u[i] = under[i]
  BY <1>4, <1>5, <1>6, WriteFacts
<1> HIDE DEF u, n
<1>8. \A i \in 1 .. n - 1 : u[i].t = p.stack[i].t
  BY <1>3, <1>4, <1>6, <1>7
<1>9. Modes(q) = SubSeq(Modes(p), 1, n - 1)
  BY <1>1, <1>2, <1>3, <1>7, <1>8, ModesCut DEF SameLife, n
<1>10. Len(Modes(p)) = n
  BY ModesFacts DEF n
<1>11. q.stack[1].t = p.stack[1].t
  BY <1>2, <1>3, <1>8
<1> HIDE DEF q
<1> QED
  BY <1>1, <1>9, <1>10, <1>11 DEF q, SameLife, Front1

LEMMA TellsPop ==
  ASSUME NEW ts, IsState(ts), RunsKnown(ts), NEW B, NEW L, Tells(ts, B, L), NEW c \in Cpus,
         NEW k, k = ts.running[c], NEW t, NEW time,
         NEW us, us.processes = pop_state(ts, c, t, time).processes,
         NEW L2, DOMAIN L2 = DOMAIN L, \A j \in DOMAIN L : j # k => L2[j] = L[j],
         k \in DOMAIN L => /\ ~L[k].forked /\ Last1(L[k].modes) = t /\ Len(L[k].modes) > 1
                           /\ L2[k] = [pid |-> L[k].pid, freed |-> L[k].freed,
                                       modes |-> Front1(L[k].modes), forked |-> FALSE]
  PROVE  Tells(us, B, L2)
<1> DEFINE p == ts.processes[k]
           q == Popped(p, time)
<1>1. k \in DOMAIN ts.processes /\ IsProcess(p) /\ Running(ts, c) = p
  BY DEF IsState, RunsKnown, Running
<1>2. Len(p.stack) \in Nat \ {0}
  BY <1>1, FrameLemma
<1>3. k \in B => k \in DOMAIN L
  BY <1>1 DEF Tells
<1>4. CASE Top(p).t # t \/ Len(p.stack) = 1
  <2>1. pop_state(ts, c, t, time) = ts
    BY <1>1, <1>4 DEF pop_state
  <2>2. k \notin DOMAIN L
    <3>1. SUFFICES ASSUME k \in DOMAIN L
                   PROVE  FALSE
      OBVIOUS
    <3>2. Modes(p) = L[k].modes
      BY <3>1 DEF Tells, Like
    <3>3. Last1(Modes(p)) = Top(p).t /\ Len(Modes(p)) = Len(p.stack)
      BY <1>1, ModesFacts
    <3>4. Last1(L[k].modes) = t /\ Len(L[k].modes) > 1
      BY <3>1
    <3> DEFINE n == Len(L[k].modes)
    <3>5. n = 1
      BY <1>4, <3>2, <3>3, <3>4, Zenon
    <3>6. n > 1
      BY <3>4
    <3> HIDE DEF n
    <3> QED
      BY <3>5, <3>6
  <2>3. k \notin B
    BY <1>3, <2>2
  <2>4. Tells(us, B, L)
    BY <2>1, <2>3, TellsElse
  <2>5. \A j \in DOMAIN L : L2[j] = L[j]
    BY <2>2
  <2> QED
    BY <2>4, <2>5 DEF Tells
<1>5. CASE ~(Top(p).t # t \/ Len(p.stack) = 1)
  <2>1. pop_state(ts, c, t, time) = SetProcess(ts, k, q)
    BY <1>1, <1>5 DEF pop_state, SetRunning
  <2>2. Len(p.stack) > 1
    <3> DEFINE n == Len(p.stack)
    <3>1. n \in Nat \ {0} /\ n # 1
      BY <1>2, <1>5, Zenon
    <3> HIDE DEF n
    <3>2. n > 1
      BY <3>1
    <3> QED
      BY <3>2 DEF n
  <2> HIDE DEF p
  <2>3. /\ IsProcess(q) /\ Modes(q) = Front1(Modes(p))
        /\ q.pid = p.pid /\ q.freeEvents = p.freeEvents /\ q.stack[1].t = p.stack[1].t
    BY <1>1, <2>2, PoppedLemma
  <2> HIDE DEF q
  <2>4. /\ DOMAIN us.processes = DOMAIN ts.processes
        /\ us.processes[k] = q
        /\ \A j \in DOMAIN ts.processes : j # k => us.processes[j] = ts.processes[j]
    BY <1>1, <2>1, <2>3, SetKnown
  <2>5. ASSUME k \in DOMAIN L2
        PROVE  Like(q, L2[k])
    <3>1. Like(p, L[k])
      BY <2>5 DEF Tells, p
    <3> QED
      BY <2>3, <2>5, <3>1 DEF Like
  <2>6. DOMAIN L2 \subseteq B /\ (k \in B => (k \in DOMAIN us.processes <=> k \in DOMAIN L2))
    BY <1>3, <2>4 DEF Tells
  <2> QED
    BY <2>4, <2>5, <2>6, TellsOne
<1> QED
  BY <1>4, <1>5

-----------------------------------------------------------------------------
(* What every hook does to the lives.                                      *)

\* The state of a mode is not its kind.
LEMMA WithTopModes ==
  ASSUME NEW p, IsProcess(p), NEW f, IsFrame(f), f.t = Top(p).t
  PROVE  LET q == WithTop(p, f) IN
         /\ IsProcess(q) /\ Modes(q) = Modes(p) /\ Top(q) = f
         /\ q.pid = p.pid /\ q.freeEvents = p.freeEvents /\ q.stack[1].t = p.stack[1].t
<1> DEFINE q == WithTop(p, f)
           n == Len(p.stack)
           u == [p.stack EXCEPT ![n] = f]
<1>1. SameLife(p, q)
  BY StackLemma
<1>2. q.stack = u
  BY DEF WithTop, IsProcess
<1>3. n \in Nat \ {0}
  BY FrameLemma
<1>4. n \in 1 .. n /\ 1 \in 1 .. n
  <2> HIDE DEF n
  <2> QED
    BY <1>3
<1>5. Top(p) = p.stack[n]
  BY DEF Top, Last1
<1>6. Len(u) = n /\ u[n] = f /\ \A i \in 1 .. n : i # n => u[i] = p.stack[i]
  BY <1>4, WriteFacts DEF IsProcess
<1> HIDE DEF u, n
<1>7. \A i \in 1 .. n : u[i].t = p.stack[i].t
  BY <1>5, <1>6
<1>8. Modes(q) = Modes(p)
  BY <1>2, <1>6, <1>7 DEF Modes, n
<1>9. Top(q) = f
  BY <1>2, <1>6 DEF Top, Last1
<1>10. q.stack[1].t = p.stack[1].t
  BY <1>2, <1>4, <1>7
<1> HIDE DEF q
<1> QED
  BY <1>1, <1>8, <1>9, <1>10 DEF q, SameLife

\* A process is given another status.
LEMMA LikeStatus ==
  ASSUME NEW p, IsProcess(p), NEW life, Like(p, life), ~life.forked, NEW f, IsFrame(f),
         f.t = Top(p).t
  PROVE  Like(WithTop(p, f), life)
<1> DEFINE q == WithTop(p, f)
<1>1. /\ Modes(q) = Modes(p)
      /\ q.pid = p.pid /\ q.freeEvents = p.freeEvents /\ q.stack[1].t = p.stack[1].t
  BY WithTopModes
<1> HIDE DEF q
<1>2. Like(q, life)
  BY <1>1 DEF Like
<1> QED
  BY <1>2 DEF q

LEMMA StatusFrame ==
  ASSUME NEW p, IsProcess(p), NEW x, NEW time
  PROVE  LET f == [Top(p) EXCEPT !.s = x, !.change = time] IN
         IsFrame(f) /\ f.t = Top(p).t /\ f.s = x
<1>1. IsFrame(Top(p))
  BY FrameLemma
<1> QED
  BY <1>1 DEF IsFrame

LEMMA TellsWritten ==
  ASSUME NEW ts, IsState(ts), NEW B, NEW L, Tells(ts, B, L), NEW k \in DOMAIN ts.processes,
         NEW q, IsProcess(q), k \in DOMAIN L => Like(q, L[k])
  PROVE  Tells(SetProcess(ts, k, q), B, L)
<1> DEFINE us == SetProcess(ts, k, q)
<1>1. /\ DOMAIN us.processes = DOMAIN ts.processes
      /\ us.processes[k] = q
      /\ \A j \in DOMAIN ts.processes : j # k => us.processes[j] = ts.processes[j]
  BY SetKnown
<1> HIDE DEF us
<1>2. DOMAIN L \subseteq B /\ (k \in B => (k \in DOMAIN us.processes <=> k \in DOMAIN L))
  BY <1>1 DEF Tells
<1>3. Tells(us, B, L)
  BY <1>1, <1>2, TellsOne
<1> QED
  BY <1>3 DEF us

LEMMA TellsEntry ==
  ASSUME NEW ts, IsState(ts), RunsKnown(ts), NEW B, NEW L, Tells(ts, B, L),
         NEW e, e.cpu \in Cpus, NEW k, k = ts.running[e.cpu], NEW t,
         \/ e.kind = "syscall_entry" /\ t = "SYSCALL"
         \/ e.kind \in {"trap_entry", "page_fault_entry"} /\ t = "TRAP"
         \/ e.kind = "irq_entry" /\ t = "IRQ"
         \/ e.kind = "soft_irq_entry" /\ t = "SOFT_IRQ",
         NEW L2, DOMAIN L2 = DOMAIN L, \A j \in DOMAIN L : j # k => L2[j] = L[j],
         k \in DOMAIN L => /\ ~L[k].forked /\ L[k].pid # 0
                           /\ L2[k] = [pid |-> L[k].pid, freed |-> L[k].freed,
                                       modes |-> Deeper(L[k].modes, t), forked |-> FALSE]
  PROVE  Tells(Hook(ts, e), B, L2)
<1>1. CASE e.kind = "syscall_entry" /\ Running(ts, e.cpu).pid = 0
  <2>1. Hook(ts, e) = ts
    BY <1>1 DEF Hook, syscall_entry
  <2>2. k \notin DOMAIN L
    BY <1>1 DEF Running, Tells, Like
  <2>3. \A j \in DOMAIN L : L2[j] = L[j]
    BY <2>2
  <2> QED
    BY <2>1, <2>3 DEF Tells
<1>2. CASE ~(e.kind = "syscall_entry" /\ Running(ts, e.cpu).pid = 0)
  <2>1. trap_entry(ts, e).processes = push_state(ts, e.cpu, "TRAP", e.id, e.time).processes
    BY DEF trap_entry, cpu_push_mode, push_state, expand_trap_table, SetRunning, SetProcess,
           Running, IsState
  <2>2. irq_entry(ts, e).processes = push_state(ts, e.cpu, "IRQ", e.id, e.time).processes
    BY DEF irq_entry, cpu_push_mode, push_state, expand_irq_table, SetRunning, SetProcess,
           Running, IsState
  <2>3. soft_irq_entry(ts, e).processes = push_state(ts, e.cpu, "SOFT_IRQ", e.id, e.time).processes
    BY DEF soft_irq_entry, cpu_push_mode, push_state, expand_soft_irq_table, SetRunning, SetProcess,
           Running, IsState
  <2>4. Hook(ts, e).processes = push_state(ts, e.cpu, t, e.id, e.time).processes
    BY <1>2, <2>1, <2>2, <2>3 DEF Hook, syscall_entry
  <2>5. ASSUME NEW n, NEW time
        PROVE  Tells(push_state(ts, e.cpu, t, n, time), B, L2)
    <3> DEFINE us == push_state(ts, e.cpu, t, n, time)
    <3>1. us.processes = push_state(ts, e.cpu, t, n, time).processes
      OBVIOUS
    <3> HIDE DEF us
    <3>2. Tells(us, B, L2)
      BY <3>1, TellsPush
    <3> QED
      BY <3>2 DEF us
  <2>6. Tells(push_state(ts, e.cpu, t, e.id, e.time), B, L2)
    BY <2>5
  <2> QED
    BY <2>4, <2>6 DEF Tells
<1> QED
  BY <1>1, <1>2

LEMMA TellsExit ==
  ASSUME NEW ts, IsState(ts), RunsKnown(ts), NEW B, NEW L, Tells(ts, B, L),
         NEW e, e.cpu \in Cpus, NEW k, k = ts.running[e.cpu], NEW t,
         \/ e.kind = "syscall_exit" /\ t = "SYSCALL"
         \/ e.kind \in {"trap_exit", "page_fault_exit"} /\ t = "TRAP"
         \/ e.kind = "irq_exit" /\ t = "IRQ"
         \/ e.kind = "soft_irq_exit" /\ t = "SOFT_IRQ",
         NEW L2, DOMAIN L2 = DOMAIN L, \A j \in DOMAIN L : j # k => L2[j] = L[j],
         k \in DOMAIN L => /\ ~L[k].forked /\ L[k].pid # 0
                           /\ Last1(L[k].modes) = t /\ Len(L[k].modes) > 1
                           /\ L2[k] = [pid |-> L[k].pid, freed |-> L[k].freed,
                                       modes |-> Front1(L[k].modes), forked |-> FALSE]
  PROVE  Tells(Hook(ts, e), B, L2)
<1>1. CASE e.kind = "syscall_exit" /\ Running(ts, e.cpu).pid = 0
  <2>1. Hook(ts, e) = ts
    BY <1>1 DEF Hook, syscall_exit
  <2>2. k \notin DOMAIN L
    BY <1>1 DEF Running, Tells, Like
  <2>3. \A j \in DOMAIN L : L2[j] = L[j]
    BY <2>2
  <2> QED
    BY <2>1, <2>3 DEF Tells
<1>2. CASE ~(e.kind = "syscall_exit" /\ Running(ts, e.cpu).pid = 0)
  <2>1. \A x : IsState(pop_state(ts, e.cpu, x, e.time))
    BY pop_stateLemma DEF Keeps
  <2>2. trap_exit(ts, e).processes = pop_state(ts, e.cpu, "TRAP", e.time).processes
    BY <2>1 DEF trap_exit, cpu_pop_mode, IsState
  <2>3. irq_exit(ts, e).processes = pop_state(ts, e.cpu, "IRQ", e.time).processes
    BY <2>1 DEF irq_exit, cpu_pop_mode, IsState
  <2>4. soft_irq_exit(ts, e).processes = pop_state(ts, e.cpu, "SOFT_IRQ", e.time).processes
    BY <2>1 DEF soft_irq_exit, cpu_pop_mode, IsState
  <2>5. Hook(ts, e).processes = pop_state(ts, e.cpu, t, e.time).processes
    BY <1>2, <2>2, <2>3, <2>4 DEF Hook, syscall_exit
  <2> QED
    BY <2>5, TellsPop
<1> QED
  BY <1>1, <1>2

\* Hooks that only tell.
LEMMA TellsNothing ==
  ASSUME NEW ts, IsState(ts), RunsKnown(ts), NEW B, NEW L, Tells(ts, B, L),
         NEW e, e.cpu \in Cpus,
         e.kind \in {"soft_irq_raise", "enum_interrupt", "dump_softirq", "bdev_request_issue",
                     "bdev_request_complete", "function_entry", "function_exit", "process_exec",
                     "thread_brand", "fs_open"}
  PROVE  Tells(Hook(ts, e), B, L)
<1> DEFINE k == ts.running[e.cpu]
           p == ts.processes[k]
<1>1. k \in DOMAIN ts.processes /\ IsProcess(p) /\ Running(ts, e.cpu) = p
  BY DEF IsState, RunsKnown, Running
<1>2. CASE e.kind \in {"soft_irq_raise", "enum_interrupt", "dump_softirq", "bdev_request_issue",
                       "bdev_request_complete"}
  <2>1. Hook(ts, e).processes = ts.processes
    BY <1>2 DEF Hook, soft_irq_raise, enum_interrupt, dump_softirq, bdev_request_issue,
                bdev_request_complete, expand_irq_table, expand_soft_irq_table, IsState
  <2> QED
    BY <2>1 DEF Tells
<1>3. CASE e.kind \in {"function_entry", "function_exit", "process_exec", "thread_brand", "fs_open"}
  <2>1. \A a, b : /\ SameLook(p, [p EXCEPT !.functions = a, !.current = b])
                  /\ IsProcess([p EXCEPT !.functions = a, !.current = b])
                  /\ SameLook(p, [p EXCEPT !.name = a, !.brand = b])
                  /\ IsProcess([p EXCEPT !.name = a, !.brand = b])
                  /\ SameLook(p, [p EXCEPT !.brand = a])
                  /\ IsProcess([p EXCEPT !.brand = a])
                  /\ SameLook(p, [p EXCEPT !.fds = a])
                  /\ IsProcess([p EXCEPT !.fds = a])
    BY <1>1 DEF IsProcess, SameLook
  <2>2. ASSUME NEW q, IsProcess(q), SameLook(p, q)
        PROVE  Tells(SetProcess(ts, k, q), B, L)
    <3> HIDE DEF p, k
    <3> DEFINE us == SetProcess(ts, k, q)
    <3>1. /\ DOMAIN us.processes = DOMAIN ts.processes
          /\ us.processes[k] = q
          /\ \A j \in DOMAIN ts.processes : j # k => us.processes[j] = ts.processes[j]
      BY <1>1, <2>2, SetKnown
    <3> HIDE DEF us
    <3>2. LooksSame(ts, us)
      BY <3>1, <2>2 DEF LooksSame, SameLook, p
    <3> QED
      BY <3>2, TellsSame DEF us
  <2>3. \/ Hook(ts, e) = ts
        \/ \E q : Hook(ts, e) = SetProcess(ts, k, q) /\ IsProcess(q) /\ SameLook(p, q)
    <3>1. /\ function_entry(ts, e) =
               SetProcess(ts, k, [p EXCEPT !.functions = Append(p.functions, e.id), !.current = e.id])
          /\ \/ function_exit(ts, e) = ts
             \/ \E b : function_exit(ts, e) =
                         SetProcess(ts, k, [p EXCEPT !.functions = Front1(p.functions), !.current = b])
          /\ process_exec(ts, e) =
               SetProcess(ts, k, [p EXCEPT !.name = e.name, !.brand = "UNBRANDED"])
          /\ thread_brand(ts, e) = SetProcess(ts, k, [p EXCEPT !.brand = e.name])
          /\ fs_open(ts, e) = SetProcess(ts, k, [p EXCEPT !.fds = p.fds \cup {e.id}])
      BY <1>1 DEF function_entry, function_exit, process_exec, thread_brand, fs_open, SetRunning,
                  IsProcess
    <3>2. Hook(ts, e) \in {function_entry(ts, e), function_exit(ts, e), process_exec(ts, e),
                           thread_brand(ts, e), fs_open(ts, e)}
      BY <1>3 DEF Hook
    <3> HIDE DEF p, k
    <3> QED
      BY <2>1, <3>1, <3>2
  <2> HIDE DEF p, k
  <2> QED
    BY <2>2, <2>3
<1> QED
  BY <1>2, <1>3

LEMMA TellsEnd ==
  ASSUME NEW ts, IsState(ts), NEW B, NEW L, Tells(ts, B, L), NEW e, NEW k,
         k = Key(e.cpu, e.pid), k \in DOMAIN L => ~L[k].forked
  PROVE  Tells(process_exit(ts, e), B, L)
<1> DEFINE p == ts.processes[k]
           f == [Top(p) EXCEPT !.s = "EXIT"]
           q == WithTop(p, f)
<1>1. CASE k \notin DOMAIN ts.processes
  BY <1>1 DEF process_exit, Known
<1>2. CASE k \in DOMAIN ts.processes
  <2>1. process_exit(ts, e) = SetProcess(ts, k, q)
    BY <1>2 DEF process_exit, Known
  <2>2. IsProcess(p)
    BY <1>2 DEF IsState
  <2>3. IsFrame(f) /\ f.t = Top(p).t
    BY <2>2, FrameLemma DEF IsFrame
  <2> HIDE DEF f, p
  <2>4. IsProcess(q)
    BY <2>2, <2>3, WithTopModes
  <2>5. k \in DOMAIN L => Like(q, L[k])
    BY <2>2, <2>3, LikeStatus DEF Tells, p
  <2> HIDE DEF q
  <2> QED
    BY <1>2, <2>1, <2>4, <2>5, TellsWritten
<1> QED
  BY <1>1, <1>2

\* Nothing is guessed of a process whose birth was seen.
LEMMA TellsFixed ==
  ASSUME NEW ts, IsState(ts), NEW B, NEW L, Tells(ts, B, L), NEW e
  PROVE  Tells(statedump_end(ts, e), B, L)
<1> DEFINE us == statedump_end(ts, e)
<1>1. us.processes = [k \in DOMAIN ts.processes |-> fix_process(ts.processes[k], e.time)]
  BY DEF statedump_end, IsState
<1> HIDE DEF us
<1>2. ASSUME NEW k \in DOMAIN L
      PROVE  us.processes[k] = ts.processes[k]
  <2>1. k \in DOMAIN ts.processes /\ ts.processes[k].stack[1].t # "MODE_UNKNOWN"
    BY <1>2 DEF Tells, Like
  <2>2. fix_process(ts.processes[k], e.time) = ts.processes[k]
    BY <2>1 DEF fix_process
  <2> QED
    BY <1>1, <2>1, <2>2
<1>3. Tells(us, B, L)
  BY <1>1, <1>2 DEF Tells
<1> QED
  BY <1>3 DEF us

LEMMA TellsDump ==
  ASSUME NEW ts, IsState(ts), NEW B, NEW L, Tells(ts, B, L), NEW e, NEW k,
         k = Key(e.cpu, e.pid), k \in B => k \in DOMAIN L
  PROVE  Tells(enum_process_state(ts, e), B, L)
<1> DEFINE told(p) == [p EXCEPT !.ppid = e.parent, !.name = e.name, !.type = e.type]
           idle(p) == [told(p) EXCEPT !.type = "KERNEL_THREAD"]
           us == enum_process_state(ts, e)
<1>1. \A p : IsProcess(p) => SameLook(p, told(p)) /\ SameLook(p, idle(p)) /\ IsProcess(told(p))
  BY DEF IsProcess, SameLook
<1>2. CASE e.pid = 0
  <2>1. us.processes = [x \in DOMAIN ts.processes |->
                          IF ts.processes[x].pid # 0 THEN ts.processes[x]
                          ELSE idle(ts.processes[x])]
    BY <1>2 DEF enum_process_state, IsState
  <2> HIDE DEF us, idle
  <2>2. LooksSame(ts, us)
    BY <1>1, <2>1 DEF LooksSame, IsState, SameLook
  <2>3. Tells(us, B, L)
    BY <2>2, TellsSame
  <2> QED
    BY <2>3 DEF us
<1>3. CASE e.pid # 0 /\ k \in DOMAIN ts.processes
  <2> DEFINE q == told(ts.processes[k])
  <2>1. enum_process_state(ts, e) = SetProcess(ts, k, q)
    BY <1>3 DEF enum_process_state, Known
  <2>2. SameLook(ts.processes[k], q) /\ IsProcess(q)
    BY <1>1, <1>3 DEF IsState
  <2> HIDE DEF q, us
  <2>3. us = SetProcess(ts, k, q)
    BY <2>1 DEF us
  <2>4. /\ DOMAIN us.processes = DOMAIN ts.processes
        /\ us.processes[k] = q
        /\ \A j \in DOMAIN ts.processes : j # k => us.processes[j] = ts.processes[j]
    BY <1>3, <2>2, <2>3, SetKnown
  <2>5. LooksSame(ts, us)
    BY <2>2, <2>4 DEF LooksSame, SameLook
  <2>6. Tells(us, B, L)
    BY <2>5, TellsSame
  <2> QED
    BY <2>6 DEF us
<1>4. CASE e.pid # 0 /\ k \notin DOMAIN ts.processes
  <2>1. k \notin B
    BY <1>4 DEF Tells
  <2>2. PICK q : us = SetProcess(ts, k, q)
    BY <1>4 DEF enum_process_state, Known
  <2>3. us.processes = Put(ts.processes, k, q)
    BY <2>2 DEF SetProcess, IsState
  <2> HIDE DEF us
  <2>4. /\ DOMAIN us.processes = DOMAIN ts.processes \cup {k}
        /\ \A j \in DOMAIN ts.processes : j # k => us.processes[j] = ts.processes[j]
    BY <2>3 DEF Put
  <2>5. Tells(us, B, L)
    BY <2>1, <2>4, TellsElse
  <2> QED
    BY <2>5 DEF us
<1> QED
  BY <1>2, <1>3, <1>4

\* A process that is known is found, and not made again.
LEMMA TellsCreate ==
  ASSUME NEW ts, IsState(ts), NEW B, NEW L, Tells(ts, B, L), NEW c, NEW p, NEW time,
         Key(c, p) \in B => Key(c, p) \in DOMAIN L
  PROVE  Tells(find_process_or_create(ts, c, p, time), B, L)
<1> DEFINE us == find_process_or_create(ts, c, p, time)
           k == Key(c, p)
<1>1. /\ DOMAIN us.processes = DOMAIN ts.processes \cup {k}
      /\ \A j \in DOMAIN ts.processes : us.processes[j] = ts.processes[j]
  BY CreateLemma
<1> HIDE DEF us, k
<1>2. CASE k \in DOMAIN ts.processes
  <2>1. \A j \in DOMAIN L : j \in DOMAIN ts.processes
    BY DEF Tells
  <2>2. Tells(us, B, L)
    BY <1>1, <1>2, <2>1 DEF Tells
  <2> QED
    BY <2>2 DEF us
<1>3. CASE k \notin DOMAIN ts.processes
  <2>1. k \notin B
    BY <1>3 DEF Tells, k
  <2>2. Tells(us, B, L)
    BY <1>1, <2>1, TellsElse
  <2> QED
    BY <2>2 DEF us
<1> QED
  BY <1>2, <1>3

LEMMA TellsWakeup ==
  ASSUME NEW ts, IsState(ts), NEW B, NEW L, Tells(ts, B, L), NEW e, NEW k,
         k = Key(e.wokenCpu, e.pid), k \in B => k \in DOMAIN L /\ ~L[k].forked
  PROVE  Tells(sched_try_wakeup(ts, e), B, L)
<1> DEFINE found == find_process_or_create(ts, e.wokenCpu, e.pid, e.time)
           p == found.processes[k]
           f == [Top(p) EXCEPT !.s = "WAIT_CPU", !.change = e.time]
           q == WithTop(p, f)
<1>1. Tells(found, B, L)
  BY TellsCreate
<1>2. IsState(found) /\ k \in DOMAIN found.processes /\ IsProcess(p)
  BY CreateLemma DEF IsState
<1>3. sched_try_wakeup(ts, e) = SetProcess(found, k, q)
  BY DEF sched_try_wakeup, SetStatus
<1> HIDE DEF found, p
<1>4. IsFrame(f) /\ f.t = Top(p).t
  <2> DEFINE time == e.time
  <2>1. f = [Top(p) EXCEPT !.s = "WAIT_CPU", !.change = time]
    OBVIOUS
  <2> HIDE DEF f, time
  <2>2. IsFrame(Top(p))
    BY <1>2, FrameLemma
  <2> QED
    BY <2>1, <2>2 DEF IsFrame
<1> HIDE DEF f
<1>5. IsProcess(q)
  BY <1>2, <1>4, WithTopModes
<1>6. k \in DOMAIN L => Like(q, L[k])
  BY <1>1, <1>2, <1>4, LikeStatus DEF Tells, p
<1> HIDE DEF q
<1> QED
  BY <1>1, <1>2, <1>3, <1>5, <1>6, TellsWritten

IsNewLife(life, pid) ==
  life.pid = pid /\ life.freed = 0 /\ life.modes = <<"USER_MODE", "SYSCALL">>

LEMMA TellsFork ==
  ASSUME NEW ts, IsState(ts), NEW B, NEW L, Tells(ts, B, L), NEW e, NEW k,
         k = Key(e.cpu, e.pid),
         NEW L2, DOMAIN L2 = DOMAIN L \cup {k}, \A j \in DOMAIN L : j # k => L2[j] = L[j],
         IsNewLife(L2[k], e.pid), NEW B2, B2 = B \cup {k}
  PROVE  Tells(process_fork(ts, e), B2, L2)
<1> DEFINE parent == Running(ts, e.cpu)
           child == NewProcess(parent.pid, e.cpu, e.pid, parent.name, e.time, e.time)
           q == [child EXCEPT !.brand = parent.brand]
           f == Frame("USER_MODE", SubmodeNone, "RUN", e.time)
           g == Frame("SYSCALL", SubmodeNone, "WAIT_FORK", e.time)
           us == process_fork(ts, e)
<1>1. us = SetProcess(ts, k, q)
  BY DEF process_fork
<1>2. IsProcess(child) /\ child.freeEvents = 0 /\ child.pid = e.pid
  BY NewLemma
<1>3. child.stack = <<f, g>>
  BY DEF NewProcess
<1>4. f.t = "USER_MODE" /\ g.t = "SYSCALL" /\ g.s = "WAIT_FORK"
  BY DEF Frame
<1> HIDE DEF child, parent, f, g
<1>5. IsProcess(q) /\ q.freeEvents = 0 /\ q.pid = e.pid /\ q.stack = <<f, g>>
  BY <1>2, <1>3 DEF IsProcess
<1> HIDE DEF q
<1>6. Modes(q) = <<"USER_MODE", "SYSCALL">>
  BY <1>4, <1>5 DEF Modes
<1>7. Top(q).s = "WAIT_FORK" /\ q.stack[1].t # "MODE_UNKNOWN"
  BY <1>4, <1>5 DEF Top, Last1
<1>8. Like(q, L2[k])
  BY <1>5, <1>6, <1>7 DEF Like, IsNewLife
<1>9. /\ DOMAIN us.processes = DOMAIN ts.processes \cup {k}
      /\ us.processes[k] = q
      /\ \A j \in DOMAIN ts.processes : j # k => us.processes[j] = ts.processes[j]
  BY <1>1, <1>5, SetProcessLemma
<1> HIDE DEF us
<1>10. Tells(us, B2, L2)
  <2>1. DOMAIN L2 \subseteq B2 /\ B \subseteq B2 /\ B2 \subseteq B \cup {k}
    BY DEF Tells
  <2>2. /\ \A j : j # k => (j \in DOMAIN us.processes <=> j \in DOMAIN ts.processes)
        /\ \A j : j # k => (j \in DOMAIN L2 <=> j \in DOMAIN L)
        /\ k \in DOMAIN us.processes /\ k \in DOMAIN L2
    BY <1>9
  <2>3. Like(us.processes[k], L2[k])
    BY <1>8, <1>9
  <2>4. ASSUME NEW j \in B2
        PROVE  j \in DOMAIN us.processes <=> j \in DOMAIN L2
    <3>1. CASE j = k
      BY <3>1, <2>2
    <3>2. CASE j # k
      BY <3>2, <2>1, <2>2 DEF Tells
    <3> QED
      BY <3>1, <3>2
  <2>5. ASSUME NEW j \in DOMAIN L2
        PROVE  Like(us.processes[j], L2[j])
    <3>1. CASE j = k
      BY <3>1, <2>3
    <3>2. CASE j # k
      <4>1. j \in DOMAIN L /\ j \in B /\ j \in DOMAIN ts.processes
        BY <2>2, <2>5, <3>2 DEF Tells
      <4>2. L2[j] = L[j] /\ us.processes[j] = ts.processes[j]
        BY <1>9, <3>2, <4>1
      <4> QED
        BY <4>1, <4>2 DEF Tells
    <3> QED
      BY <3>1, <3>2
  <2> QED
    BY <2>1, <2>4, <2>5 DEF Tells
<1> QED
  BY <1>10 DEF us

\* The thread is stamped while it still waits for its fork to end.
LEMMA TellsThread ==
  ASSUME NEW ts, IsState(ts), NEW B, NEW L, Tells(ts, B, L), NEW e, NEW k,
         k = Key(e.cpu, e.pid), k \in B => k \in DOMAIN L,
         k \in DOMAIN L => L[k].forked /\ L[k].modes = <<"USER_MODE", "SYSCALL">>,
         NEW L2, DOMAIN L2 = DOMAIN L, \A j \in DOMAIN L : j # k => L2[j] = L[j],
         k \in DOMAIN L => L2[k] = [pid |-> L[k].pid, freed |-> L[k].freed,
                                    modes |-> <<"SYSCALL">>, forked |-> FALSE]
  PROVE  Tells(process_kernel_thread(ts, e), B, L2)
<1> DEFINE found == find_process_or_create(ts, e.cpu, e.pid, 0)
           p == found.processes[k]
           cut == CutTo1(p)
           f == [Top(cut) EXCEPT !.t = "SYSCALL"]
           thread == IF Top(p).s = "DEAD" THEN p ELSE WithTop(cut, f)
           q == [thread EXCEPT !.type = "KERNEL_THREAD"]
           us == process_kernel_thread(ts, e)
<1>1. Tells(found, B, L)
  BY TellsCreate
<1>2. IsState(found) /\ k \in DOMAIN found.processes /\ IsProcess(p)
  BY CreateLemma DEF IsState
<1>3. us = SetProcess(found, k, q)
  BY DEF process_kernel_thread
<1> HIDE DEF us
<1>4. /\ DOMAIN us.processes = DOMAIN found.processes
      /\ us.processes[k] = q
      /\ \A j \in DOMAIN found.processes : j # k => us.processes[j] = found.processes[j]
      /\ IsProcess(q)
  <2> HIDE DEF found, p, f
  <2>1. SameLife(p, cut)
    BY <1>2, StackLemma
  <2> HIDE DEF cut
  <2>2. SameLife(cut, WithTop(cut, f))
    BY <2>1, FrameLemma, StackLemma DEF SameLife, f
  <2>3. IsProcess(thread)
    BY <1>2, <2>1, <2>2 DEF SameLife
  <2> HIDE DEF thread
  <2>4. IsProcess(q)
    BY <2>3 DEF IsProcess
  <2> HIDE DEF q
  <2> QED
    BY <1>2, <1>3, <2>4, SetKnown
<1>5. ASSUME k \in DOMAIN L
      PROVE  Like(q, L2[k])
  <2>1. Like(p, L[k])
    BY <1>1, <1>5 DEF Tells
  <2>2. Top(p).s = "WAIT_FORK" /\ Modes(p) = <<"USER_MODE", "SYSCALL">>
    BY <1>5, <2>1 DEF Like
  <2> HIDE DEF found, p
  <2>3. thread = WithTop(cut, f)
    BY <2>2
  <2>4. SameLife(p, cut) /\ cut.stack = SubSeq(p.stack, 1, 1)
    BY <1>2, StackLemma DEF CutTo1, IsProcess
  <2>5. 1 \in 1 .. Len(p.stack)
    <3>1. Len(p.stack) \in Nat \ {0}
      BY <1>2, FrameLemma
    <3> QED
      BY <3>1
  <2>6. IsStack(cut.stack) /\ Len(cut.stack) = 1
    BY <1>2, <2>4, <2>5, CutFacts DEF IsProcess
  <2> HIDE DEF cut
  <2>7. IsFrame(Top(cut))
    BY <2>4, FrameLemma DEF SameLife
  <2>8. IsFrame(f) /\ f.t = "SYSCALL"
    BY <2>7 DEF IsFrame
  <2> HIDE DEF f
  <2> DEFINE w == WithTop(cut, f)
  <2>9. IsProcess(w) /\ w.pid = p.pid /\ w.freeEvents = p.freeEvents
    BY <2>4, <2>8, StackLemma DEF SameLife
  <2>10. w.stack = [cut.stack EXCEPT ![1] = f]
    BY <2>4, <2>6 DEF WithTop, SameLife, IsProcess
  <2>11. Len(w.stack) = 1 /\ w.stack[1] = f
    BY <2>6, <2>8, <2>10, WriteFacts
  <2> HIDE DEF w
  <2>12. q.pid = p.pid /\ q.freeEvents = p.freeEvents /\ q.stack = w.stack
    BY <2>3, <2>9 DEF IsProcess, w
  <2> HIDE DEF thread, q
  <2>13. Modes(q) = <<"SYSCALL">>
    <3>1. Len(q.stack) = 1 /\ q.stack[1].t = "SYSCALL"
      BY <2>8, <2>11, <2>12
    <3> DEFINE stk == q.stack
    <3>2. Modes(q) = [i \in 1 .. 1 |-> stk[i].t]
      BY <3>1 DEF Modes
    <3> HIDE DEF stk
    <3>3. \A i \in 1 .. 1 : stk[i].t = "SYSCALL"
      BY <3>1 DEF stk
    <3>4. [i \in 1 .. 1 |-> stk[i].t] = [i \in 1 .. 1 |-> "SYSCALL"]
      BY <3>3
    <3>5. [i \in 1 .. 1 |-> "SYSCALL"] = <<"SYSCALL">>
      OBVIOUS
    <3> QED
      BY <3>2, <3>4, <3>5
  <2> QED
    BY <1>5, <2>1, <2>8, <2>11, <2>12, <2>13 DEF Like
<1> HIDE DEF found, q
<1>6. DOMAIN L2 \subseteq B /\ (k \in B => (k \in DOMAIN us.processes <=> k \in DOMAIN L2))
  BY <1>1, <1>2, <1>4 DEF Tells
<1>7. Tells(us, B, L2)
  BY <1>1, <1>4, <1>5, <1>6, TellsOne
<1> QED
  BY <1>7 DEF us

\* The first end of a process leaves it marked, the second one removes it.
OneEnd(L, k, L1) ==
  /\ \A j : j # k => (j \in DOMAIN L1 <=> j \in DOMAIN L)
  /\ \A j \in DOMAIN L : j # k => L1[j] = L[j]
  /\ k \notin DOMAIN L => k \notin DOMAIN L1
  /\ k \in DOMAIN L /\ L[k].freed = 0
       => /\ k \in DOMAIN L1
          /\ L1[k] = [pid |-> L[k].pid, freed |-> 1, modes |-> L[k].modes, forked |-> FALSE]
  /\ k \in DOMAIN L /\ L[k].freed = 1 => k \notin DOMAIN L1

LEMMA TellsOneEnd ==
  ASSUME NEW ts, IsState(ts), NEW B, NEW L, Tells(ts, B, L), NEW k \in DOMAIN ts.processes,
         k \in DOMAIN L => ~L[k].forked /\ L[k].freed \in {0, 1},
         NEW L1, OneEnd(L, k, L1)
  PROVE  Tells(exit_process(ts, k), B, L1) /\ IsState(exit_process(ts, k))
<1> DEFINE p == ts.processes[k]
           us == exit_process(ts, k)
<1>1. IsProcess(p)
  BY DEF IsState
<1>2. CASE p.freeEvents + 1 < 2
  <2> DEFINE q == [p EXCEPT !.freeEvents = @ + 1]
  <2>1. /\ DOMAIN us = DOMAIN ts /\ us.processes = [ts.processes EXCEPT ![k] = q]
    BY <1>2 DEF exit_process, IsState
  <2>2. IsProcess(q) /\ q.freeEvents = p.freeEvents + 1 /\ q.stack = p.stack /\ q.pid = p.pid
    BY <1>1 DEF IsProcess
  <2> HIDE DEF us, q
  <2>3. /\ DOMAIN us.processes = DOMAIN ts.processes /\ us.processes[k] = q
        /\ \A j \in DOMAIN ts.processes : j # k => us.processes[j] = ts.processes[j]
    BY <2>1
  <2>4. IsState(us)
    BY <2>1, <2>2, <2>3 DEF IsState
  <2>5. ASSUME k \in DOMAIN L
        PROVE  k \in DOMAIN L1 /\ Like(q, L1[k])
    <3>1. Like(p, L[k])
      BY <2>5 DEF Tells
    <3>2. L[k].freed = 0 /\ p.freeEvents = 0
      BY <1>2, <2>5, <3>1 DEF Like
    <3>3. /\ k \in DOMAIN L1
          /\ L1[k] = [pid |-> L[k].pid, freed |-> 1, modes |-> L[k].modes, forked |-> FALSE]
      BY <2>5, <3>2 DEF OneEnd
    <3>4. q.freeEvents = 1
      BY <2>2, <3>2
    <3> HIDE DEF p
    <3>5. Modes(q) = Modes(p)
      BY <2>2 DEF Modes
    <3> QED
      BY <2>2, <3>1, <3>3, <3>4, <3>5 DEF Like
  <2>6. Tells(us, B, L1)
    <3>1. k \in B <=> k \in DOMAIN L
      BY DEF Tells
    <3>2. k \in DOMAIN L1 <=> k \in DOMAIN L
      BY <2>5 DEF OneEnd
    <3>3. DOMAIN L1 = DOMAIN L
      BY <3>2 DEF OneEnd
    <3>4. \A j \in DOMAIN L1 : Like(us.processes[j], L1[j])
      <4>1. ASSUME NEW j \in DOMAIN L, j # k
            PROVE  Like(us.processes[j], L1[j])
        <5>1. j \in DOMAIN ts.processes
          BY DEF Tells
        <5>2. us.processes[j] = ts.processes[j] /\ L1[j] = L[j]
          BY <2>3, <4>1, <5>1 DEF OneEnd
        <5> QED
          BY <5>2 DEF Tells
      <4> QED
        BY <2>3, <2>5, <3>3, <4>1
    <3> QED
      BY <2>3, <3>3, <3>4 DEF Tells
  <2> QED
    BY <2>4, <2>6 DEF us
<1>3. CASE ~(p.freeEvents + 1 < 2)
  <2>1. DOMAIN us = DOMAIN ts /\ us.processes = Without(ts.processes, k)
    BY <1>3 DEF exit_process, IsState
  <2> HIDE DEF us
  <2>2. /\ DOMAIN us.processes = DOMAIN ts.processes \ {k}
        /\ \A j \in DOMAIN us.processes : us.processes[j] = ts.processes[j]
    BY <2>1 DEF Without
  <2>3. IsState(us)
    BY <2>1, <2>2 DEF IsState
  <2>4. k \notin DOMAIN L1
    <3>1. ASSUME k \in DOMAIN L
          PROVE  L[k].freed # 0
      BY <1>3, <3>1 DEF Tells, Like
    <3> QED
      BY <3>1 DEF OneEnd
  <2>5. DOMAIN L1 = DOMAIN L \ {k} /\ \A j \in DOMAIN L1 : L1[j] = L[j]
    BY <2>4 DEF OneEnd
  <2>6. Tells(us, B, L1)
    BY <2>2, <2>5 DEF Tells
  <2> QED
    BY <2>3, <2>6 DEF us
<1> QED
  BY <1>2, <1>3

LEMMA TellsFree ==
  ASSUME NEW ts, IsState(ts), NEW B, NEW L, Tells(ts, B, L), NEW e, NEW k,
         k = Key(e.cpu, e.pid), k \in B => k \in DOMAIN L,
         k \in DOMAIN L => ~L[k].forked /\ L[k].freed \in {0, 1},
         NEW L1, OneEnd(L, k, L1)
  PROVE  Tells(process_free(ts, e), B, L1)
<1>1. CASE k \in DOMAIN ts.processes
  <2>1. process_free(ts, e) = exit_process(ts, k)
    BY <1>1 DEF process_free, Known
  <2> QED
    BY <1>1, <2>1, TellsOneEnd
<1>2. CASE k \notin DOMAIN ts.processes
  <2>1. process_free(ts, e) = ts
    BY <1>2 DEF process_free, Known
  <2>2. k \notin DOMAIN L
    BY <1>2 DEF Tells
  <2>3. DOMAIN L1 = DOMAIN L /\ \A j \in DOMAIN L : L1[j] = L[j]
    BY <2>2 DEF OneEnd
  <2> QED
    BY <2>1, <2>3 DEF Tells
<1> QED
  BY <1>1, <1>2

\* What happens to the process that is switched out.
LEMMA TellsOut ==
  ASSUME NEW ts, IsState(ts), RunsKnown(ts), NEW B, NEW L, Tells(ts, B, L),
         NEW e, e.cpu \in Cpus, NEW k, k = ts.running[e.cpu],
         k \in DOMAIN L => ~L[k].forked /\ L[k].pid # 0 /\ L[k].freed \in {0, 1},
         NEW L1, Dead(e.stateOut) => OneEnd(L, k, L1), ~Dead(e.stateOut) => L1 = L
  PROVE  Tells(ScheduledOut(ts, e), B, L1) /\ IsState(ScheduledOut(ts, e))
<1> DEFINE p == ts.processes[k]
           f == [Top(p) EXCEPT !.t = "SYSCALL", !.s = "WAIT", !.change = e.time, !.entry = e.time]
           idle == WithTop(p, f)
           s == IF Top(p).s = "EXIT" THEN "ZOMBIE" ELSE IF e.stateOut = 0 THEN "WAIT_CPU" ELSE "WAIT"
           q == SetStatus(p, s, e.time)
           out == SetProcess(ts, k, q)
           left == exit_process(out, k)
           dead == SetProcess(left, k, SetStatus(left.processes[k], "DEAD", e.time))
<1>1. k \in DOMAIN ts.processes /\ IsProcess(p) /\ Running(ts, e.cpu) = p
  BY DEF IsState, RunsKnown, Running
<1>2. CASE p.pid = 0 /\ Top(p).t = "MODE_UNKNOWN"
  <2>1. k \notin DOMAIN L
    BY <1>2 DEF Tells, Like
  <2>2. ScheduledOut(ts, e) \in {ts, SetProcess(ts, k, idle)}
    BY <1>1, <1>2, Zenon DEF ScheduledOut
  <2> HIDE DEF p
  <2>3. IsFrame(f)
    BY <1>1, FrameLemma DEF IsFrame
  <2> HIDE DEF f
  <2>4. IsProcess(idle)
    BY <1>1, <2>3, StackLemma DEF SameLife
  <2> HIDE DEF idle
  <2>5. Tells(SetProcess(ts, k, idle), B, L) /\ IsState(SetProcess(ts, k, idle))
    BY <1>1, <2>1, <2>4, TellsWritten, SetKnown
  <2>6. DOMAIN L1 = DOMAIN L /\ \A j \in DOMAIN L : L1[j] = L[j]
    BY <2>1 DEF OneEnd
  <2>7. \A us : Tells(us, B, L) => Tells(us, B, L1)
    BY <2>6 DEF Tells
  <2> QED
    BY <2>2, <2>5, <2>7
<1>3. CASE ~(p.pid = 0 /\ Top(p).t = "MODE_UNKNOWN")
  <2>1. /\ ~Dead(e.stateOut) => ScheduledOut(ts, e) = out
        /\ Dead(e.stateOut) /\ k \notin DOMAIN left.processes => ScheduledOut(ts, e) = left
        /\ Dead(e.stateOut) /\ k \in DOMAIN left.processes => ScheduledOut(ts, e) = dead
    BY <1>1, <1>3, Zenon DEF ScheduledOut
  <2>2. IsProcess(q) /\ (k \in DOMAIN L => Like(q, L[k]))
    <3>1. k \in DOMAIN L => Like(p, L[k])
      BY DEF Tells
    <3> HIDE DEF p, s
    <3> DEFINE time == e.time
               g == [Top(p) EXCEPT !.s = s, !.change = time]
    <3>2. q = WithTop(p, g)
      BY DEF SetStatus
    <3>3. IsFrame(Top(p))
      BY <1>1, FrameLemma
    <3> HIDE DEF time
    <3>4. IsFrame(g) /\ g.t = Top(p).t
      BY <3>3 DEF IsFrame
    <3> HIDE DEF g, q
    <3>5. IsProcess(q)
      BY <1>1, <3>2, <3>4, WithTopModes
    <3>6. k \in DOMAIN L => Like(q, L[k])
      BY <1>1, <3>1, <3>2, <3>4, LikeStatus
    <3> QED
      BY <3>5, <3>6
  <2> HIDE DEF p, q
  <2>3. Tells(out, B, L) /\ IsState(out) /\ k \in DOMAIN out.processes
    BY <1>1, <2>2, TellsWritten, SetKnown
  <2> HIDE DEF out
  <2>4. ASSUME Dead(e.stateOut)
        PROVE  Tells(left, B, L1) /\ IsState(left)
    BY <2>3, <2>4, TellsOneEnd
  <2> HIDE DEF left
  <2>5. ASSUME Dead(e.stateOut), k \in DOMAIN left.processes
        PROVE  Tells(dead, B, L1) /\ IsState(dead)
    <3> DEFINE r == left.processes[k]
               time == e.time
               g == [Top(r) EXCEPT !.s = "DEAD", !.change = time]
               d == WithTop(r, g)
    <3>1. dead = SetProcess(left, k, d)
      BY DEF SetStatus
    <3> HIDE DEF dead
    <3>2. IsProcess(r)
      BY <2>4, <2>5 DEF IsState
    <3>3. k \in DOMAIN L1 => Like(r, L1[k]) /\ ~L1[k].forked
      BY <2>4, <2>5 DEF Tells, OneEnd
    <3> HIDE DEF r, time
    <3>4. IsFrame(Top(r))
      BY <3>2, FrameLemma
    <3>5. IsFrame(g) /\ g.t = Top(r).t
      BY <3>4 DEF IsFrame
    <3> HIDE DEF g
    <3>6. IsProcess(d)
      BY <3>2, <3>5, WithTopModes
    <3>7. k \in DOMAIN L1 => Like(d, L1[k])
      BY <3>2, <3>3, <3>5, LikeStatus
    <3> HIDE DEF d
    <3> QED
      BY <2>4, <2>5, <3>1, <3>6, <3>7, TellsWritten, SetKnown
  <2> QED
    BY <2>1, <2>3, <2>4, <2>5
<1> QED
  BY <1>2, <1>3

LEMMA TellsSwitch ==
  ASSUME NEW ts, IsState(ts), RunsKnown(ts), NEW B, NEW L, Tells(ts, B, L),
         NEW e, e.cpu \in Cpus, NEW k, k = ts.running[e.cpu],
         k \in DOMAIN L => ~L[k].forked /\ L[k].pid # 0 /\ L[k].freed \in {0, 1},
         NEW L1, Dead(e.stateOut) => OneEnd(L, k, L1), ~Dead(e.stateOut) => L1 = L,
         InKey(e) \in B => InKey(e) \in DOMAIN L1 /\ ~L1[InKey(e)].forked
  PROVE  Tells(schedchange(ts, e), B, L1)
<1> DEFINE j == InKey(e)
           out == ScheduledOut(ts, e)
           found == find_process_or_create(out, e.cpu, e.pidIn, e.time)
           r == found.processes[j]
           p == SetStatus(r, "RUN", e.time)
           q == [p EXCEPT !.cpu = e.cpu]
           us == SetProcess(found, j, q)
<1>1. Tells(out, B, L1) /\ IsState(out)
  BY TellsOut
<1> HIDE DEF out
<1>2. /\ IsState(found) /\ DOMAIN found.processes = DOMAIN out.processes \cup {j}
  BY <1>1, CreateLemma DEF InKey
<1>3. Tells(found, B, L1)
  BY <1>1, TellsCreate DEF InKey
<1>4. schedchange(ts, e) = [us EXCEPT !.running[e.cpu] = j,
                                      !.cpus[e.cpu].modes = SwitchedModes(e.pidIn, p)]
  BY Zenon DEF schedchange, us, q, p, r, found, out, j
<1> HIDE DEF found
<1>5. j \in DOMAIN found.processes /\ IsProcess(r)
  BY <1>2 DEF IsState
<1>6. j \in DOMAIN L1 => Like(r, L1[j]) /\ ~L1[j].forked
  BY <1>3 DEF Tells
<1> HIDE DEF r, j
<1> DEFINE time == e.time
           g == [Top(r) EXCEPT !.s = "RUN", !.change = time]
<1>7. p = WithTop(r, g)
  BY DEF SetStatus
<1> HIDE DEF time
<1>8. IsFrame(g) /\ g.t = Top(r).t
  <2>1. IsFrame(Top(r))
    BY <1>5, FrameLemma
  <2> QED
    BY <2>1 DEF IsFrame
<1> HIDE DEF g, p
<1>9. IsProcess(p)
  BY <1>5, <1>7, <1>8, WithTopModes
<1>10. j \in DOMAIN L1 => Like(p, L1[j])
  BY <1>5, <1>6, <1>7, <1>8, LikeStatus
<1>11. IsProcess(q) /\ q.pid = p.pid /\ q.freeEvents = p.freeEvents /\ q.stack = p.stack
  BY <1>9 DEF IsProcess
<1> HIDE DEF q
<1>12. Modes(q) = Modes(p) /\ Top(q) = Top(p)
  BY <1>11 DEF Modes, Top
<1>13. j \in DOMAIN L1 => Like(q, L1[j])
  BY <1>10, <1>11, <1>12 DEF Like
<1>14. Tells(us, B, L1) /\ IsState(us)
  BY <1>2, <1>3, <1>5, <1>11, <1>13, TellsWritten, SetKnown
<1> HIDE DEF us
<1>15. schedchange(ts, e).processes = us.processes
  BY <1>4, <1>14 DEF IsState
<1> QED
  BY <1>14, <1>15 DEF Tells

-----------------------------------------------------------------------------
(* The lives of the processes born in the trace.                           *)

LifeOf(p, stat, end, m) ==
  [pid |-> p, freed |-> IF stat[p] = "dead" \/ "free" \in end[p] THEN 1 ELSE 0,
   modes |-> IF stat[p] = "forked" THEN <<"USER_MODE", "SYSCALL">> ELSE m[Key(0, p)],
   forked |-> stat[p] = "forked"]

KeysOf(ps) == {Key(0, p) : p \in ps}

LivesOf(b, stat, end, m) ==
  [k \in KeysOf({p \in b : stat[p] # "none"}) |-> LifeOf(k[1], stat, end, m)]

BornKeys == KeysOf(born)
Lives == LivesOf(born, status, ending, mode)

\* The births are of new processes, which only a switch brings to a processor.
BornKernel ==
  /\ born \subseteq NewPids
  /\ DOMAIN mode = {Key(c, 0) : c \in Cpus} \cup {Key(0, p) : p \in Pids}
  /\ \A c \in Cpus : current[c] \in born => c \in synced
  /\ \A p \in born : status[p] = "forked" => mode[Key(0, p)] = <<"SYSCALL">>

LifeInv == BornKernel /\ Tells(v.ts, BornKeys, Lives)

LEMMA LivesFacts ==
  ASSUME NEW b, b \subseteq Pids, NEW stat, NEW end, NEW m, NEW L, L = LivesOf(b, stat, end, m)
  PROVE  /\ DOMAIN L \subseteq KeysOf(b)
         /\ \A p \in Pids : Key(0, p) \in KeysOf(b) <=> p \in b
         /\ \A p \in Pids : Key(0, p) \in DOMAIN L <=> p \in b /\ stat[p] # "none"
         /\ \A p \in b : stat[p] # "none" => L[Key(0, p)] = LifeOf(p, stat, end, m)
<1> DEFINE alive == {p \in b : stat[p] # "none"}
<1>1. DOMAIN L = KeysOf(alive) /\ \A k \in KeysOf(alive) : L[k] = LifeOf(k[1], stat, end, m)
  BY DEF LivesOf
<1>2. \A p \in Pids : Key(0, p) = <<p, -1>>
  BY StateTraceAssumption DEF Key
<1>3. \A p, q \in Pids : Key(0, p) = Key(0, q) => p = q
  BY <1>2
<1>4. \A p \in Pids : Key(0, p) \in KeysOf(alive) <=> p \in alive
  BY <1>3 DEF KeysOf
<1>5. \A p \in Pids : Key(0, p) \in KeysOf(b) <=> p \in b
  BY <1>3 DEF KeysOf
<1>6. KeysOf(alive) \subseteq KeysOf(b)
  BY DEF KeysOf
<1>7. ASSUME NEW p \in b, stat[p] # "none"
      PROVE  L[Key(0, p)] = LifeOf(p, stat, end, m)
  <2>1. p \in Pids /\ Key(0, p) \in KeysOf(alive) /\ Key(0, p)[1] = p
    BY <1>2, <1>4, <1>7
  <2> QED
    BY <1>1, <2>1
<1> QED
  BY <1>1, <1>4, <1>5, <1>6, <1>7

\* The processes other than q live on as they did.
OthersLive(q, b, stat, end, m, b2, stat2, end2, m2) ==
  \A p \in Pids : p # q =>
    /\ p \in b <=> p \in b2
    /\ p \in b => /\ stat[p] = "none" <=> stat2[p] = "none"
                  /\ LifeOf(p, stat2, end2, m2) = LifeOf(p, stat, end, m)

\* One process has another life, or none any more, or its first.
LEMMA LivesOne ==
  ASSUME NEW b, b \subseteq Pids, NEW b2, b2 \subseteq Pids, NEW q \in Pids,
         NEW stat, NEW end, NEW m, NEW stat2, NEW end2, NEW m2,
         OthersLive(q, b, stat, end, m, b2, stat2, end2, m2),
         NEW L, L = LivesOf(b, stat, end, m), NEW L2, L2 = LivesOf(b2, stat2, end2, m2),
         NEW k, k = Key(0, q)
  PROVE  /\ \A j : j # k => (j \in DOMAIN L2 <=> j \in DOMAIN L)
         /\ \A j \in DOMAIN L : j # k => L2[j] = L[j]
<1>1. /\ DOMAIN L \subseteq KeysOf(b)
      /\ \A p \in Pids : Key(0, p) \in DOMAIN L <=> p \in b /\ stat[p] # "none"
      /\ \A p \in b : stat[p] # "none" => L[Key(0, p)] = LifeOf(p, stat, end, m)
  BY LivesFacts
<1>2. /\ DOMAIN L2 \subseteq KeysOf(b2)
      /\ \A p \in Pids : Key(0, p) \in DOMAIN L2 <=> p \in b2 /\ stat2[p] # "none"
      /\ \A p \in b2 : stat2[p] # "none" => L2[Key(0, p)] = LifeOf(p, stat2, end2, m2)
  BY LivesFacts
<1>3. ASSUME NEW j, j # k, j \in DOMAIN L \cup DOMAIN L2
      PROVE  \E p \in Pids : j = Key(0, p) /\ p # q
  BY <1>1, <1>2, <1>3 DEF KeysOf
<1>4. ASSUME NEW j, j # k
      PROVE  (j \in DOMAIN L2 <=> j \in DOMAIN L) /\ (j \in DOMAIN L => L2[j] = L[j])
  <2>1. CASE j \notin DOMAIN L \cup DOMAIN L2
    BY <2>1
  <2>2. CASE j \in DOMAIN L \cup DOMAIN L2
    <3>1. PICK p \in Pids : j = Key(0, p) /\ p # q
      BY <1>3, <1>4, <2>2
    <3>2. j \in DOMAIN L2 <=> j \in DOMAIN L
      BY <1>1, <1>2, <3>1 DEF OthersLive
    <3>3. ASSUME j \in DOMAIN L
          PROVE  L2[j] = L[j]
      <4>1. p \in b /\ p \in b2 /\ stat[p] # "none" /\ stat2[p] # "none"
        BY <1>1, <1>2, <3>1, <3>2, <3>3 DEF OthersLive
      <4>2. L[j] = LifeOf(p, stat, end, m) /\ L2[j] = LifeOf(p, stat2, end2, m2)
        BY <1>1, <1>2, <3>1, <4>1
      <4> QED
        BY <3>1, <4>1, <4>2 DEF OthersLive
    <3> QED
      BY <3>2, <3>3
  <2> QED
    BY <2>1, <2>2
<1> QED
  BY <1>4

\* The process that the state takes to run is no process born in the trace, or
\* the one the kernel runs.
LEMMA CurrentLife ==
  ASSUME RunInv, BornKernel, NEW c \in Cpus, NEW k, k = TakenToRun[c]
  PROVE  /\ k \in BornKeys => k \in DOMAIN Lives
         /\ current[c] \in born => k = CurrentKey(c) /\ k \in DOMAIN Lives
         /\ k \in DOMAIN Lives => /\ current[c] \in born /\ current[c] \in Pids /\ current[c] # 0
                                  /\ k = CurrentKey(c) /\ k = Key(0, current[c])
                                  /\ Lives[k] = LifeOf(current[c], status, ending, mode)
                                  /\ ~Lives[k].forked /\ Lives[k].pid = current[c]
                                  /\ Lives[k].freed \in {0, 1}
                                  /\ Lives[k].freed = 1 <=> "free" \in ending[current[c]]
                                  /\ Lives[k].modes = mode[CurrentKey(c)]
<1>1. born \subseteq Pids /\ Pids \subseteq Nat \ {0}
  BY StateTraceAssumption DEF BornKernel, Pids
<1>2. /\ DOMAIN Lives \subseteq BornKeys
      /\ \A p \in Pids : Key(0, p) \in BornKeys <=> p \in born
      /\ \A p \in Pids : Key(0, p) \in DOMAIN Lives <=> p \in born /\ status[p] # "none"
      /\ \A p \in born : status[p] # "none" => Lives[Key(0, p)] = LifeOf(p, status, ending, mode)
  <2> DEFINE L == Lives
             b == born
             stat == status
             end == ending
             m == mode
  <2>1. L = LivesOf(b, stat, end, m) /\ BornKeys = KeysOf(b) /\ b \subseteq Pids
    BY <1>1 DEF Lives, BornKeys
  <2> HIDE DEF L, b, stat, end, m
  <2>2. /\ DOMAIN L \subseteq KeysOf(b)
        /\ \A p \in Pids : Key(0, p) \in KeysOf(b) <=> p \in b
        /\ \A p \in Pids : Key(0, p) \in DOMAIN L <=> p \in b /\ stat[p] # "none"
        /\ \A p \in b : stat[p] # "none" => L[Key(0, p)] = LifeOf(p, stat, end, m)
    BY <2>1, LivesFacts
  <2> QED
    BY <2>1, <2>2 DEF L, b, stat, end, m
<1>3. ASSUME current[c] \in born
      PROVE  /\ k = CurrentKey(c) /\ k = Key(0, current[c]) /\ status[current[c]] = "run"
             /\ current[c] \in Pids /\ k \in DOMAIN Lives
  <2>1. current[c] \in Pids /\ current[c] # 0
    BY <1>1, <1>3
  <2>2. k = CurrentKey(c)
    BY <1>3 DEF BornKernel, TakenToRun
  <2>3. Key(c, current[c]) = Key(0, current[c])
    BY <2>1 DEF Key
  <2>4. status[current[c]] = "run"
    BY <2>1 DEF RunInv, Kernel
  <2> QED
    BY <1>2, <1>3, <2>1, <2>2, <2>3, <2>4 DEF CurrentKey
<1>4. ASSUME k \in BornKeys
      PROVE  current[c] \in born
  <2>1. PICK p \in born : k = Key(0, p)
    BY <1>4 DEF BornKeys, KeysOf
  <2>2. p \in Pids /\ Key(0, p) = <<p, -1>>
    BY <1>1 DEF Key
  <2>3. k = Key(c, 0) \/ k = Key(c, current[c])
    BY DEF TakenToRun, CurrentKey
  <2>4. Key(c, 0) = <<0, c>>
    BY DEF Key
  <2>5. k = Key(c, current[c]) /\ current[c] # 0
    <3>1. k # <<0, c>>
      BY <1>1, <2>1, <2>2
    <3> QED
      BY <2>3, <2>4, <3>1
  <2>6. k = <<current[c], -1>>
    BY <2>5 DEF Key
  <2> QED
    BY <2>1, <2>2, <2>6
<1>5. ASSUME k \in DOMAIN Lives
      PROVE  /\ Lives[k] = LifeOf(current[c], status, ending, mode)
             /\ ~Lives[k].forked /\ Lives[k].pid = current[c]
             /\ Lives[k].freed \in {0, 1}
             /\ Lives[k].freed = 1 <=> "free" \in ending[current[c]]
             /\ Lives[k].modes = mode[CurrentKey(c)]
  <2>1. current[c] \in born
    BY <1>2, <1>4, <1>5
  <2>2. Lives[k] = LifeOf(current[c], status, ending, mode)
    BY <1>2, <1>3, <2>1
  <2>3. status[current[c]] = "run" /\ CurrentKey(c) = Key(0, current[c])
    BY <1>3, <2>1
  <2> DEFINE p == current[c]
             life == LifeOf(p, status, ending, mode)
  <2>4. /\ ~life.forked /\ life.pid = p /\ life.modes = mode[Key(0, p)]
        /\ life.freed = IF "free" \in ending[p] THEN 1 ELSE 0
    BY <2>3 DEF LifeOf
  <2> HIDE DEF life, p
  <2>5. life.freed \in {0, 1} /\ (life.freed = 1 <=> "free" \in ending[p])
    BY <2>4
  <2>6. Lives[k] = life
    BY <2>2 DEF life, p
  <2> QED
    BY <2>2, <2>3, <2>4, <2>5, <2>6 DEF p
<1> QED
  BY <1>1, <1>2, <1>3, <1>4, <1>5

LEMMA LifeHook ==
  ASSUME RunInv, LifeInv, NEW e, Hooked(v, e, v'), BornKernel',
         NEW B2, BornKeys' = B2, NEW L2, Lives' = L2,
         \A ts : IsState(ts) /\ RunsKnown(ts) /\ ts.running = TakenToRun /\ Tells(ts, BornKeys, Lives)
                   => Tells(Hook(ts, e), B2, L2)
  PROVE  LifeInv'
<1>1. PICK ts : Recounts(v.ts, ts) /\ IsState(Hook(ts, e)) /\ Recounts(Hook(ts, e), v'.ts)
  BY DEF Hooked
<1>2. IsState(v.ts) /\ Tracks(v.ts, TakenToRun, HalfEnded)
  BY TracksRuns DEF RunInv
<1>3. Tracks(ts, TakenToRun, HalfEnded)
  BY <1>1, <1>2, RecountsKeeps, KeepsTracks
<1>4. IsState(ts) /\ RunsKnown(ts) /\ ts.running = TakenToRun
  BY <1>3, TracksRuns DEF Tracks
<1>5. Tells(ts, BornKeys, Lives)
  BY <1>1, <1>2, TellsRecounted DEF LifeInv
<1>6. Tells(Hook(ts, e), B2, L2)
  BY <1>4, <1>5
<1> DEFINE us == Hook(ts, e)
           ws == v'.ts
<1>7. IsState(us) /\ Tells(us, B2, L2) /\ Recounts(us, ws)
  BY <1>1, <1>6
<1> HIDE DEF us, ws
<1>8. Tells(ws, B2, L2)
  BY <1>7, TellsRecounted
<1> QED
  BY <1>8 DEF LifeInv, ws

-----------------------------------------------------------------------------
(* How the lives change with a step of the kernel.                         *)

LEMMA LivesChange ==
  ASSUME born \subseteq NewPids, born' \subseteq NewPids, NEW q \in Pids, NEW k, k = Key(0, q),
         OthersLive(q, born, status, ending, mode, born', status', ending', mode')
  PROVE  /\ \A j : j # k => (j \in DOMAIN Lives' <=> j \in DOMAIN Lives)
         /\ \A j \in DOMAIN Lives : j # k => Lives'[j] = Lives[j]
         /\ k \in BornKeys <=> q \in born
         /\ k \in DOMAIN Lives <=> q \in born /\ status[q] # "none"
         /\ k \in DOMAIN Lives => Lives[k] = LifeOf(q, status, ending, mode)
         /\ k \in DOMAIN Lives' <=> q \in born' /\ status'[q] # "none"
         /\ k \in DOMAIN Lives' => Lives'[k] = LifeOf(q, status', ending', mode')
<1> DEFINE L == Lives
           b == born
           stat == status
           end == ending
           m == mode
           L2 == Lives'
           b2 == born'
           stat2 == status'
           end2 == ending'
           m2 == mode'
<1>1. /\ L = LivesOf(b, stat, end, m) /\ BornKeys = KeysOf(b) /\ b \subseteq Pids
      /\ L2 = LivesOf(b2, stat2, end2, m2) /\ b2 \subseteq Pids
  BY DEF Lives, BornKeys, Pids
<1>2. OthersLive(q, b, stat, end, m, b2, stat2, end2, m2)
  OBVIOUS
<1> HIDE DEF L, b, stat, end, m, L2, b2, stat2, end2, m2
<1>3. /\ \A j : j # k => (j \in DOMAIN L2 <=> j \in DOMAIN L)
      /\ \A j \in DOMAIN L : j # k => L2[j] = L[j]
  BY <1>1, <1>2, LivesOne
<1>4. /\ k \in KeysOf(b) <=> q \in b
      /\ k \in DOMAIN L <=> q \in b /\ stat[q] # "none"
      /\ q \in b /\ stat[q] # "none" => L[k] = LifeOf(q, stat, end, m)
  BY <1>1, LivesFacts
<1>5. /\ k \in DOMAIN L2 <=> q \in b2 /\ stat2[q] # "none"
      /\ q \in b2 /\ stat2[q] # "none" => L2[k] = LifeOf(q, stat2, end2, m2)
  BY <1>1, LivesFacts
<1>6. /\ k \in BornKeys <=> q \in b
      /\ k \in DOMAIN L => L[k] = LifeOf(q, stat, end, m)
      /\ k \in DOMAIN L2 => L2[k] = LifeOf(q, stat2, end2, m2)
  BY <1>1, <1>4, <1>5
<1> QED
  BY <1>3, <1>4, <1>5, <1>6 DEF L, b, stat, end, m, L2, b2, stat2, end2, m2

LEMMA LivesStay ==
  ASSUME born \subseteq NewPids, born' = born,
         \A p \in born : /\ status[p] = "none" <=> status'[p] = "none"
                         /\ LifeOf(p, status', ending', mode') = LifeOf(p, status, ending, mode)
  PROVE  Lives' = Lives /\ BornKeys' = BornKeys
<1> DEFINE alive == {p \in born : status[p] # "none"}
<1>1. {p \in born' : status'[p] # "none"} = alive
  OBVIOUS
<1>2. \A k \in KeysOf(alive) : k[1] \in born
  <2>1. \A p \in born : Key(0, p) = <<p, -1>>
    BY StateTraceAssumption DEF Key, Pids
  <2> QED
    BY <2>1 DEF KeysOf
<1>3. Lives' = [k \in KeysOf(alive) |-> LifeOf(k[1], status', ending', mode')]
  BY <1>1 DEF Lives, LivesOf
<1>4. Lives = [k \in KeysOf(alive) |-> LifeOf(k[1], status, ending, mode)]
  BY DEF Lives, LivesOf
<1>5. \A k \in KeysOf(alive) :
        LifeOf(k[1], status', ending', mode') = LifeOf(k[1], status, ending, mode)
  BY <1>2
<1> HIDE DEF alive
<1> QED
  BY <1>3, <1>4, <1>5 DEF BornKeys

\* The process a processor runs gets into another mode.
LEMMA ModesStep ==
  ASSUME RunInv, BornKernel, NEW c \in Cpus, NEW m, mode' = [mode EXCEPT ![CurrentKey(c)] = m],
         UNCHANGED <<current, status, ending, synced, born>>, NEW k, k = TakenToRun[c]
  PROVE  /\ BornKernel' /\ BornKeys' = BornKeys /\ DOMAIN Lives' = DOMAIN Lives
         /\ \A j \in DOMAIN Lives : j # k => Lives'[j] = Lives[j]
         /\ k \in DOMAIN Lives =>
              Lives'[k] = [pid |-> Lives[k].pid, freed |-> Lives[k].freed, modes |-> m,
                           forked |-> FALSE]
<1>1. born \subseteq Pids /\ Pids \subseteq Nat \ {0}
  BY StateTraceAssumption DEF BornKernel, Pids
<1>2. \A p \in Pids : Key(0, p) = <<p, -1>> /\ Key(c, p) = <<p, -1>>
  BY <1>1 DEF Key
<1>3. Key(c, 0) = <<0, c>>
  BY DEF Key
<1>4. \A p \in Pids : Key(0, p) = CurrentKey(c) => p = current[c]
  <2>1. CASE current[c] = 0
    BY <1>1, <1>2, <1>3, <2>1 DEF CurrentKey
  <2>2. CASE current[c] # 0
    <3>1. current[c] \in Pids
      BY <2>2 DEF RunInv, Kernel
    <3>2. CurrentKey(c) = <<current[c], -1>>
      BY <1>2, <3>1 DEF CurrentKey
    <3> QED
      BY <1>2, <3>2
  <2> QED
    BY <2>1, <2>2
<1>5. \A p \in Pids : p # current[c] => mode'[Key(0, p)] = mode[Key(0, p)]
  <2>1. \A p \in Pids : Key(0, p) \in DOMAIN mode
    BY DEF BornKernel
  <2> QED
    BY <1>4, <2>1
<1>6. BornKernel'
  <2>1. \A p \in born : status[p] = "forked" => p # current[c]
    BY <1>1 DEF RunInv, Kernel
  <2>2. \A p \in born : status[p] = "forked" => mode'[Key(0, p)] = <<"SYSCALL">>
    BY <1>1, <1>5, <2>1 DEF BornKernel
  <2>3. DOMAIN mode' = DOMAIN mode
    OBVIOUS
  <2> QED
    BY <2>2, <2>3 DEF BornKernel
<1>7. \A p \in born : p # current[c] =>
        LifeOf(p, status', ending', mode') = LifeOf(p, status, ending, mode)
  BY <1>1, <1>5 DEF LifeOf
<1>8. CASE current[c] \notin born
  <2>1. Lives' = Lives /\ BornKeys' = BornKeys
    BY <1>7, <1>8, LivesStay DEF BornKernel
  <2>2. k \notin DOMAIN Lives
    BY <1>8, CurrentLife
  <2> QED
    BY <1>6, <2>1, <2>2
<1>9. CASE current[c] \in born
  <2> DEFINE q == current[c]
  <2>1. /\ k = CurrentKey(c) /\ k = Key(0, q) /\ k \in DOMAIN Lives /\ q \in Pids /\ q # 0
        /\ Lives[k] = LifeOf(q, status, ending, mode) /\ ~Lives[k].forked
    BY <1>9, CurrentLife
  <2>2. /\ \A j : j # k => (j \in DOMAIN Lives' <=> j \in DOMAIN Lives)
        /\ \A j \in DOMAIN Lives : j # k => Lives'[j] = Lives[j]
        /\ k \in DOMAIN Lives' <=> q \in born' /\ status'[q] # "none"
        /\ k \in DOMAIN Lives' => Lives'[k] = LifeOf(q, status', ending', mode')
    <3>1. OthersLive(q, born, status, ending, mode, born', status', ending', mode')
      BY <1>7 DEF OthersLive
    <3>2. born \subseteq NewPids /\ born' \subseteq NewPids /\ q \in Pids /\ k = Key(0, q)
      BY <2>1 DEF BornKernel
    <3> HIDE DEF q
    <3> QED
      BY <3>1, <3>2, LivesChange
  <2>3. status[q] = "run"
    BY <2>1 DEF RunInv, Kernel
  <2>4. k \in DOMAIN Lives' /\ Lives'[k] = LifeOf(q, status', ending', mode')
    BY <1>9, <2>2, <2>3
  <2>5. mode'[k] = m
    BY <2>1 DEF BornKernel
  <2>6. Lives'[k] = [pid |-> Lives[k].pid, freed |-> Lives[k].freed, modes |-> m, forked |-> FALSE]
    <3>1. LifeOf(q, status', ending', mode') =
            [pid |-> q, freed |-> IF "free" \in ending[q] THEN 1 ELSE 0, modes |-> m, forked |-> FALSE]
      BY <2>1, <2>3, <2>5 DEF LifeOf
    <3>2. Lives[k].pid = q /\ Lives[k].freed = IF "free" \in ending[q] THEN 1 ELSE 0
      BY <2>1, <2>3 DEF LifeOf
    <3> QED
      BY <2>4, <3>1, <3>2
  <2>7. BornKeys' = BornKeys
    BY DEF BornKeys
  <2> QED
    BY <1>6, <2>1, <2>2, <2>4, <2>6, <2>7
<1> QED
  BY <1>8, <1>9

LEMMA EntryLife ==
  ASSUME RunInv, IsComputed(v), LifeInv, NEW c \in Cpus, NEW e, e.cpu = c, v' = Process(v, e), NEW t,
         \/ e.kind = "syscall_entry" /\ t = "SYSCALL"
         \/ e.kind \in {"trap_entry", "page_fault_entry"} /\ t = "TRAP"
         \/ e.kind = "irq_entry" /\ t = "IRQ"
         \/ e.kind = "soft_irq_entry" /\ t = "SOFT_IRQ",
         Push(c, t)
  PROVE  LifeInv'
<1> DEFINE k == TakenToRun[c]
           m == Deeper(mode[CurrentKey(c)], t)
<1>1. mode' = [mode EXCEPT ![CurrentKey(c)] = m] /\ UNCHANGED <<current, status, ending, synced, born>>
  BY DEF Push, Deeper
<1>2. e.kind \in QuietKinds \cup {"enum_process_state"}
  BY DEF QuietKinds
<1>3. Hooked(v, e, v')
  BY <1>1, <1>2, QuietStep
<1> HIDE DEF m
<1> DEFINE L == Lives
           L2 == Lives'
           B == BornKeys
<1>4. /\ BornKernel' /\ BornKeys' = B /\ DOMAIN L2 = DOMAIN L
      /\ \A j \in DOMAIN L : j # k => L2[j] = L[j]
      /\ k \in DOMAIN L => L2[k] = [pid |-> L[k].pid, freed |-> L[k].freed, modes |-> m,
                                    forked |-> FALSE]
  BY <1>1, ModesStep DEF LifeInv
<1>5. k \in DOMAIN L => ~L[k].forked /\ L[k].pid # 0 /\ L[k].modes = mode[CurrentKey(c)]
  BY CurrentLife DEF LifeInv
<1>6. k \in DOMAIN L => /\ ~L[k].forked /\ L[k].pid # 0
                        /\ L2[k] = [pid |-> L[k].pid, freed |-> L[k].freed,
                                    modes |-> Deeper(L[k].modes, t), forked |-> FALSE]
  BY <1>4, <1>5 DEF m
<1> HIDE DEF L, L2, B, k
<1>7. ASSUME NEW ts, IsState(ts), RunsKnown(ts), ts.running = TakenToRun, Tells(ts, B, L)
      PROVE  Tells(Hook(ts, e), B, L2)
  <2>1. k = ts.running[e.cpu] /\ e.cpu \in Cpus
    BY <1>7 DEF k
  <2> QED
    BY <1>4, <1>6, <1>7, <2>1, TellsEntry
<1> QED
  BY <1>3, <1>4, <1>7, LifeHook DEF L, L2, B

LEMMA ExitLife ==
  ASSUME RunInv, IsComputed(v), LifeInv, NEW c \in Cpus, NEW e, e.cpu = c, v' = Process(v, e), NEW t,
         \/ e.kind = "syscall_exit" /\ t = "SYSCALL"
         \/ e.kind \in {"trap_exit", "page_fault_exit"} /\ t = "TRAP"
         \/ e.kind = "irq_exit" /\ t = "IRQ"
         \/ e.kind = "soft_irq_exit" /\ t = "SOFT_IRQ",
         Pop(c, t)
  PROVE  LifeInv'
<1> DEFINE k == TakenToRun[c]
           m == Front1(mode[CurrentKey(c)])
<1>1. /\ mode' = [mode EXCEPT ![CurrentKey(c)] = m] /\ UNCHANGED <<current, status, ending, synced, born>>
      /\ Last1(mode[CurrentKey(c)]) = t /\ Len(mode[CurrentKey(c)]) > 1
  BY DEF Pop, TopMode
<1>2. e.kind \in QuietKinds \cup {"enum_process_state"}
  BY DEF QuietKinds
<1>3. Hooked(v, e, v')
  BY <1>1, <1>2, QuietStep
<1> HIDE DEF m
<1> DEFINE L == Lives
           L2 == Lives'
           B == BornKeys
<1>4. /\ BornKernel' /\ BornKeys' = B /\ DOMAIN L2 = DOMAIN L
      /\ \A j \in DOMAIN L : j # k => L2[j] = L[j]
      /\ k \in DOMAIN L => L2[k] = [pid |-> L[k].pid, freed |-> L[k].freed, modes |-> m,
                                    forked |-> FALSE]
  BY <1>1, ModesStep DEF LifeInv
<1>5. k \in DOMAIN L => ~L[k].forked /\ L[k].pid # 0 /\ L[k].modes = mode[CurrentKey(c)]
  BY CurrentLife DEF LifeInv
<1>6. k \in DOMAIN L => /\ ~L[k].forked /\ L[k].pid # 0
                        /\ Last1(L[k].modes) = t /\ Len(L[k].modes) > 1
                        /\ L2[k] = [pid |-> L[k].pid, freed |-> L[k].freed,
                                    modes |-> Front1(L[k].modes), forked |-> FALSE]
  BY <1>1, <1>4, <1>5 DEF m
<1> HIDE DEF L, L2, B, k
<1>7. ASSUME NEW ts, IsState(ts), RunsKnown(ts), ts.running = TakenToRun, Tells(ts, B, L)
      PROVE  Tells(Hook(ts, e), B, L2)
  <2>1. k = ts.running[e.cpu] /\ e.cpu \in Cpus
    BY <1>7 DEF k
  <2> QED
    BY <1>4, <1>6, <1>7, <2>1, TellsExit
<1> QED
  BY <1>3, <1>4, <1>7, LifeHook DEF L, L2, B

\* Steps that neither change the mode of a process nor begin or end one.
LEMMA TellLife ==
  ASSUME RunInv, IsComputed(v), LifeInv, NEW e, e.cpu \in Cpus, v' = Process(v, e),
         UNCHANGED <<current, mode, status, ending, synced, born>>,
         \/ e.kind \in {"soft_irq_raise", "enum_interrupt", "dump_softirq", "bdev_request_issue",
                        "bdev_request_complete", "function_entry", "function_exit", "process_exec",
                        "thread_brand", "fs_open", "statedump_end"}
         \/ /\ e.kind = "enum_process_state"
            /\ e.pid \in {0} \cup {q \in Pids : status[q] # "none"}
  PROVE  LifeInv'
<1> DEFINE L == Lives
           B == BornKeys
<1>1. e.kind \in QuietKinds \cup {"enum_process_state"}
  BY DEF QuietKinds
<1>2. Hooked(v, e, v')
  BY <1>1, QuietStep
<1>3. BornKernel' /\ Lives' = L /\ BornKeys' = B
  <2>1. BornKernel'
    BY DEF LifeInv, BornKernel
  <2>2. Lives' = Lives
    BY DEF Lives
  <2>3. BornKeys' = BornKeys
    BY DEF BornKeys
  <2> QED
    BY <2>1, <2>2, <2>3
<1>4. ASSUME e.kind = "enum_process_state"
      PROVE  Key(e.cpu, e.pid) \in B => Key(e.cpu, e.pid) \in DOMAIN L
  <2> DEFINE q == e.pid
  <2>1. CASE q = 0
    <3>1. Key(e.cpu, q) = <<0, e.cpu>>
      BY <2>1 DEF Key
    <3>2. \A p \in born : Key(0, p) = <<p, -1>> /\ p # 0
      BY StateTraceAssumption DEF Key, LifeInv, BornKernel, Pids
    <3> QED
      BY <3>1, <3>2 DEF B, BornKeys, KeysOf
  <2>2. CASE q # 0
    <3>1. q \in Pids /\ status[q] # "none"
      BY <1>4, <2>2
    <3>2. Key(e.cpu, q) = Key(0, q)
      BY <2>2 DEF Key
    <3>3. OthersLive(q, born, status, ending, mode, born', status', ending', mode')
      BY DEF OthersLive
    <3>4. born \subseteq NewPids /\ born' \subseteq NewPids
      BY DEF LifeInv, BornKernel
    <3> DEFINE k == Key(0, q)
    <3>5. k = Key(0, q)
      OBVIOUS
    <3> HIDE DEF k, q
    <3>6. (k \in BornKeys <=> q \in born) /\ (k \in DOMAIN Lives <=> q \in born /\ status[q] # "none")
      BY <3>1, <3>3, <3>4, <3>5, LivesChange
    <3> QED
      BY <3>1, <3>2, <3>5, <3>6 DEF q
  <2> QED
    BY <2>1, <2>2
<1> HIDE DEF L, B
<1>5. ASSUME NEW ts, IsState(ts), RunsKnown(ts), Tells(ts, B, L)
      PROVE  Tells(Hook(ts, e), B, L)
  <2>1. CASE e.kind \in {"soft_irq_raise", "enum_interrupt", "dump_softirq", "bdev_request_issue",
                         "bdev_request_complete", "function_entry", "function_exit",
                         "process_exec", "thread_brand", "fs_open"}
    BY <1>5, <2>1, TellsNothing
  <2>2. CASE e.kind = "statedump_end"
    <3>1. Hook(ts, e) = statedump_end(ts, e)
      BY <2>2 DEF Hook
    <3> QED
      BY <1>5, <3>1, TellsFixed
  <2>3. CASE e.kind = "enum_process_state"
    <3>1. Hook(ts, e) = enum_process_state(ts, e)
      BY <2>3 DEF Hook
    <3> DEFINE k == Key(e.cpu, e.pid)
    <3>2. k = Key(e.cpu, e.pid) /\ (k \in B => k \in DOMAIN L)
      BY <1>4, <2>3
    <3> HIDE DEF k
    <3>3. Tells(enum_process_state(ts, e), B, L)
      BY <1>5, <3>2, TellsDump
    <3> QED
      BY <3>1, <3>3
  <2> QED
    BY <2>1, <2>2, <2>3
<1> QED
  BY <1>2, <1>3, <1>5, LifeHook DEF L, B

\* What is known of one process in a step that changes no other.
LEMMA OneLife ==
  ASSUME BornKernel, BornKernel', NEW q \in Pids, NEW c \in Cpus, NEW k, k = Key(c, q),
         OthersLive(q, born, status, ending, mode, born', status', ending', mode')
  PROVE  /\ k = Key(0, q)
         /\ \A j : j # k => (j \in DOMAIN Lives' <=> j \in DOMAIN Lives)
         /\ \A j \in DOMAIN Lives : j # k => Lives'[j] = Lives[j]
         /\ k \in BornKeys <=> q \in born
         /\ k \in DOMAIN Lives <=> q \in born /\ status[q] # "none"
         /\ k \in DOMAIN Lives => Lives[k] = LifeOf(q, status, ending, mode)
         /\ k \in DOMAIN Lives' <=> q \in born' /\ status'[q] # "none"
         /\ k \in DOMAIN Lives' => Lives'[k] = LifeOf(q, status', ending', mode')
<1>1. k = Key(0, q)
  BY Keys, StateTraceAssumption DEF Key
<1>2. born \subseteq NewPids /\ born' \subseteq NewPids
  BY DEF BornKernel
<1> QED
  BY <1>1, <1>2, LivesChange

LEMMA EndLife ==
  ASSUME RunInv, IsComputed(v), LifeInv, NEW c \in Cpus, Exit(c),
         NEW e, e = [kind |-> "process_exit", cpu |-> c, time |-> clock + Ticks, pid |-> current[c]]
  PROVE  LifeInv'
<1> DEFINE q == current[c]
           k == Key(c, q)
           L == Lives
           B == BornKeys
<1>1. /\ q \in Pids /\ ending[q] = {} /\ ending' = [ending EXCEPT ![q] = {"exit"}]
      /\ UNCHANGED <<current, mode, status, synced, born>> /\ status[q] = "run"
  BY DEF Exit, Exiting, RunInv, Kernel
<1>2. Hooked(v, e, v')
  BY ExitStep
<1>3. BornKernel /\ BornKernel'
  BY <1>1 DEF LifeInv, BornKernel
<1>4. \A p \in born : LifeOf(p, status', ending', mode') = LifeOf(p, status, ending, mode)
  <2>1. \A p \in Pids : "free" \in ending'[p] <=> "free" \in ending[p]
    BY <1>1 DEF RunInv, Kernel
  <2>2. born \subseteq Pids
    BY <1>3 DEF BornKernel, Pids
  <2> QED
    BY <1>1, <2>1, <2>2 DEF LifeOf
<1>5. Lives' = L /\ BornKeys' = B
  BY <1>1, <1>3, <1>4, LivesStay DEF BornKernel
<1>6. k \in DOMAIN L => ~L[k].forked
  <2>1. OthersLive(q, born, status, ending, mode, born', status', ending', mode')
    BY <1>1, <1>4 DEF OthersLive
  <2>2. q \in Pids /\ k = Key(c, q)
    BY <1>1
  <2> HIDE DEF q, k
  <2>3. k \in DOMAIN Lives => Lives[k] = LifeOf(q, status, ending, mode)
    BY <1>3, <2>1, <2>2, OneLife
  <2>4. ~LifeOf(q, status, ending, mode).forked
    BY <1>1 DEF LifeOf, q
  <2> QED
    BY <2>3, <2>4 DEF L
<1>7. k = Key(e.cpu, e.pid) /\ e.kind = "process_exit"
  OBVIOUS
<1> HIDE DEF L, B, k
<1>8. ASSUME NEW ts, IsState(ts), Tells(ts, B, L)
      PROVE  Tells(Hook(ts, e), B, L)
  <2>1. Hook(ts, e) = process_exit(ts, e)
    BY <1>7 DEF Hook
  <2>2. Tells(process_exit(ts, e), B, L)
    BY <1>6, <1>7, <1>8, TellsEnd
  <2> QED
    BY <2>1, <2>2
<1> QED
  BY <1>2, <1>3, <1>5, <1>8, LifeHook DEF L, B

LEMMA WakeupLife ==
  ASSUME RunInv, IsComputed(v), LifeInv, NEW c \in Cpus, NEW q \in Pids, Wakeup(c, q),
         NEW e, e = [kind |-> "sched_try_wakeup", cpu |-> c, time |-> clock + Ticks,
                     pid |-> q, wokenCpu |-> c]
  PROVE  LifeInv'
<1> DEFINE k == Key(c, q)
           L == Lives
           B == BornKeys
<1>1. /\ status[q] = "wait" /\ status' = [status EXCEPT ![q] = "ready"]
      /\ UNCHANGED <<current, mode, ending, synced, born>>
  BY DEF Wakeup
<1>2. Hooked(v, e, v')
  BY WakeupStep
<1>3. BornKernel /\ BornKernel'
  <2>1. \A p \in Pids : status'[p] = "forked" => status[p] = "forked"
    BY <1>1 DEF RunInv, Kernel
  <2>2. born \subseteq Pids
    BY DEF LifeInv, BornKernel, Pids
  <2> QED
    BY <1>1, <2>1, <2>2 DEF LifeInv, BornKernel
<1>4. \A p \in born : /\ status[p] = "none" <=> status'[p] = "none"
                      /\ LifeOf(p, status', ending', mode') = LifeOf(p, status, ending, mode)
  <2>1. \A p \in Pids : /\ status[p] = "none" <=> status'[p] = "none"
                        /\ status[p] = "dead" <=> status'[p] = "dead"
                        /\ status[p] = "forked" <=> status'[p] = "forked"
    BY <1>1 DEF RunInv, Kernel
  <2>2. born \subseteq Pids
    BY <1>3 DEF BornKernel, Pids
  <2> QED
    BY <1>1, <2>1, <2>2 DEF LifeOf
<1>5. Lives' = L /\ BornKeys' = B
  BY <1>1, <1>3, <1>4, LivesStay DEF BornKernel
<1>6. k \in B => k \in DOMAIN L /\ ~L[k].forked
  <2>1. OthersLive(q, born, status, ending, mode, born', status', ending', mode')
    BY <1>1, <1>4 DEF OthersLive
  <2>2. k = Key(c, q)
    OBVIOUS
  <2> HIDE DEF k
  <2>3. /\ k \in BornKeys <=> q \in born
        /\ k \in DOMAIN Lives <=> q \in born /\ status[q] # "none"
        /\ k \in DOMAIN Lives => Lives[k] = LifeOf(q, status, ending, mode)
    BY <1>3, <2>1, <2>2, OneLife
  <2>4. ~LifeOf(q, status, ending, mode).forked
    BY <1>1 DEF LifeOf
  <2> QED
    BY <1>1, <2>3, <2>4 DEF L, B
<1>7. k = Key(e.wokenCpu, e.pid) /\ e.kind = "sched_try_wakeup"
  OBVIOUS
<1> HIDE DEF L, B, k
<1>8. ASSUME NEW ts, IsState(ts), Tells(ts, B, L)
      PROVE  Tells(Hook(ts, e), B, L)
  <2>1. Hook(ts, e) = sched_try_wakeup(ts, e)
    BY <1>7 DEF Hook
  <2>2. Tells(sched_try_wakeup(ts, e), B, L)
    BY <1>6, <1>7, <1>8, TellsWakeup
  <2> QED
    BY <2>1, <2>2
<1> QED
  BY <1>2, <1>3, <1>5, <1>8, LifeHook DEF L, B
LEMMA ForkLife ==
  ASSUME RunInv, IsComputed(v), LifeInv, NEW c \in Cpus, NEW q \in Pids, NEW thread \in BOOLEAN,
         Fork(c, q, thread),
         NEW e, e = [kind |-> "process_fork", cpu |-> c, time |-> clock + Ticks, pid |-> q]
  PROVE  LifeInv'
<1> DEFINE k == Key(c, q)
           L == Lives
           L2 == Lives'
           B == BornKeys
<1>1. /\ q \in NewPids /\ status[q] = "none" /\ ending[q] = {}
      /\ status' = [status EXCEPT ![q] = IF thread THEN "forked" ELSE "ready"]
      /\ mode' = [mode EXCEPT ![k] = IF thread THEN <<"SYSCALL">> ELSE <<"USER_MODE", "SYSCALL">>]
      /\ born' = born \cup {q} /\ UNCHANGED <<current, ending, synced>>
  BY DEF Fork, RunInv, Kernel
<1>2. Hooked(v, e, v')
  BY ForkStep
<1>3. born \subseteq Pids /\ BornKernel
  BY DEF LifeInv, BornKernel, Pids
<1>4. k = Key(0, q) /\ \A p \in Pids : Key(0, p) = Key(0, q) <=> p = q
  BY StateAssumption, Keys
<1>5. /\ \A p \in Pids : p # q => mode'[Key(0, p)] = mode[Key(0, p)] /\ status'[p] = status[p]
      /\ mode'[k] = (IF thread THEN <<"SYSCALL">> ELSE <<"USER_MODE", "SYSCALL">>)
      /\ status'[q] = (IF thread THEN "forked" ELSE "ready") /\ DOMAIN mode' = DOMAIN mode
  <2>1. \A p \in Pids : Key(0, p) \in DOMAIN mode
    BY <1>3 DEF BornKernel
  <2> QED
    BY <1>1, <1>4, <2>1 DEF RunInv, Kernel
<1>6. BornKernel'
  <2>1. \A d \in Cpus : current[d] # q
    BY <1>1, StateTraceAssumption DEF RunInv, Kernel
  <2>2. \A p \in born' : status'[p] = "forked" => mode'[Key(0, p)] = <<"SYSCALL">>
    BY <1>1, <1>3, <1>4, <1>5 DEF BornKernel
  <2> QED
    BY <1>1, <1>3, <1>5, <2>1, <2>2 DEF BornKernel
<1>7. OthersLive(q, born, status, ending, mode, born', status', ending', mode')
  <2>1. \A p \in Pids : p # q => LifeOf(p, status', ending', mode') = LifeOf(p, status, ending, mode)
    BY <1>1, <1>5 DEF LifeOf
  <2>2. \A p \in Pids : p # q => (status'[p] = "none" <=> status[p] = "none") /\ (p \in born <=> p \in born')
    BY <1>1, <1>5
  <2> QED
    BY <2>1, <2>2 DEF OthersLive
<1>8. LifeOf(q, status', ending', mode')
        = [pid |-> q, freed |-> 0, modes |-> <<"USER_MODE", "SYSCALL">>, forked |-> thread]
  BY <1>1, <1>4, <1>5 DEF LifeOf
<1>9. BornKeys' = B \cup {k}
  BY <1>1, <1>4 DEF BornKeys, KeysOf
<1>10. k = Key(e.cpu, e.pid) /\ e.kind = "process_fork" /\ e.pid = q
  OBVIOUS
<1>11. k = Key(c, q) /\ status'[q] # "none" /\ q \in born'
  BY <1>1, <1>5
<1> HIDE DEF k
<1>12. /\ DOMAIN L2 = DOMAIN L \cup {k}
       /\ \A j \in DOMAIN L : j # k => L2[j] = L[j]
       /\ L2[k] = [pid |-> q, freed |-> 0, modes |-> <<"USER_MODE", "SYSCALL">>, forked |-> thread]
  <2>1. /\ \A j : j # k => (j \in DOMAIN Lives' <=> j \in DOMAIN Lives)
        /\ \A j \in DOMAIN Lives : j # k => Lives'[j] = Lives[j]
        /\ k \in DOMAIN Lives' <=> q \in born' /\ status'[q] # "none"
        /\ k \in DOMAIN Lives' => Lives'[k] = LifeOf(q, status', ending', mode')
    BY <1>3, <1>6, <1>7, <1>11, OneLife
  <2> QED
    BY <1>8, <1>11, <2>1
<1> DEFINE B2 == B \cup {k}
<1> HIDE DEF L, L2, B
<1>13. ASSUME NEW ts, IsState(ts), Tells(ts, B, L)
       PROVE  Tells(Hook(ts, e), B2, L2)
  <2>1. Hook(ts, e) = process_fork(ts, e)
    BY <1>10 DEF Hook
  <2>2. IsNewLife(L2[k], e.pid)
    BY <1>10, <1>12 DEF IsNewLife
  <2>3. k = Key(e.cpu, e.pid)
    BY <1>10
  <2>4. DOMAIN L2 = DOMAIN L \cup {k} /\ \A j \in DOMAIN L : j # k => L2[j] = L[j]
    BY <1>12
  <2>5. B2 = B \cup {k}
    OBVIOUS
  <2> HIDE DEF B2
  <2>6. Tells(process_fork(ts, e), B2, L2)
    BY <1>13, <2>2, <2>3, <2>4, <2>5, TellsFork
  <2> QED
    BY <2>1, <2>6
<1> QED
  BY <1>2, <1>6, <1>9, <1>13, LifeHook DEF L, L2, B

LEMMA ThreadLife ==
  ASSUME RunInv, IsComputed(v), LifeInv, NEW c \in Cpus, NEW q \in Pids, KernelThread(c, q),
         NEW e, e = [kind |-> "process_kernel_thread", cpu |-> c, time |-> clock + Ticks, pid |-> q]
  PROVE  LifeInv'
<1> DEFINE k == Key(c, q)
           L == Lives
           L2 == Lives'
           B == BornKeys
<1>1. /\ status[q] = "forked" /\ ending[q] = {} /\ status' = [status EXCEPT ![q] = "ready"]
      /\ UNCHANGED <<current, mode, ending, synced, born>>
  BY DEF KernelThread, RunInv, Kernel
<1>2. Hooked(v, e, v')
  BY ThreadStep
<1>3. born \subseteq Pids /\ BornKernel
  BY DEF LifeInv, BornKernel, Pids
<1>4. status'[q] = "ready" /\ \A p \in Pids : p # q => status'[p] = status[p]
  BY <1>1 DEF RunInv, Kernel
<1>5. BornKernel'
  <2>1. \A p \in born' : status'[p] = "forked" => mode'[Key(0, p)] = <<"SYSCALL">>
    BY <1>1, <1>3, <1>4 DEF BornKernel
  <2> QED
    BY <1>1, <1>3, <2>1 DEF BornKernel
<1>6. OthersLive(q, born, status, ending, mode, born', status', ending', mode')
  <2>1. \A p \in Pids : p # q => LifeOf(p, status', ending', mode') = LifeOf(p, status, ending, mode)
    BY <1>1, <1>4 DEF LifeOf
  <2>2. \A p \in Pids : p # q => (status'[p] = "none" <=> status[p] = "none") /\ (p \in born <=> p \in born')
    BY <1>1, <1>4
  <2> QED
    BY <2>1, <2>2 DEF OthersLive
<1>7. k = Key(e.cpu, e.pid) /\ e.kind = "process_kernel_thread" /\ k = Key(c, q)
  OBVIOUS
<1> HIDE DEF k
<1>8. /\ k = Key(0, q)
      /\ \A j : j # k => (j \in DOMAIN Lives' <=> j \in DOMAIN Lives)
      /\ \A j \in DOMAIN Lives : j # k => Lives'[j] = Lives[j]
      /\ k \in BornKeys <=> q \in born
      /\ k \in DOMAIN Lives <=> q \in born /\ status[q] # "none"
      /\ k \in DOMAIN Lives => Lives[k] = LifeOf(q, status, ending, mode)
      /\ k \in DOMAIN Lives' <=> q \in born' /\ status'[q] # "none"
      /\ k \in DOMAIN Lives' => Lives'[k] = LifeOf(q, status', ending', mode')
  BY <1>3, <1>5, <1>6, <1>7, OneLife
<1>9. LifeOf(q, status, ending, mode)
        = [pid |-> q, freed |-> 0, modes |-> <<"USER_MODE", "SYSCALL">>, forked |-> TRUE]
  BY <1>1 DEF LifeOf
<1>10. q \in born => LifeOf(q, status', ending', mode')
         = [pid |-> q, freed |-> 0, modes |-> <<"SYSCALL">>, forked |-> FALSE]
  <2>1. q \in born => mode'[Key(0, q)] = <<"SYSCALL">>
    BY <1>1, <1>3 DEF BornKernel
  <2> QED
    BY <1>1, <1>4, <2>1 DEF LifeOf
<1>11. /\ DOMAIN L2 = DOMAIN L /\ \A j \in DOMAIN L : j # k => L2[j] = L[j]
       /\ k \in B => k \in DOMAIN L
       /\ k \in DOMAIN L => /\ L[k].forked /\ L[k].modes = <<"USER_MODE", "SYSCALL">>
                            /\ L2[k] = [pid |-> L[k].pid, freed |-> L[k].freed,
                                        modes |-> <<"SYSCALL">>, forked |-> FALSE]
  <2>1. k \in DOMAIN L2 <=> k \in DOMAIN L
    BY <1>1, <1>4, <1>8
  <2>2. DOMAIN L2 = DOMAIN L
    BY <1>8, <2>1
  <2>3. k \in B => k \in DOMAIN L
    BY <1>1, <1>8
  <2>4. ASSUME k \in DOMAIN L
        PROVE  /\ L[k] = [pid |-> q, freed |-> 0, modes |-> <<"USER_MODE", "SYSCALL">>, forked |-> TRUE]
               /\ L2[k] = [pid |-> q, freed |-> 0, modes |-> <<"SYSCALL">>, forked |-> FALSE]
    BY <1>8, <1>9, <1>10, <2>1, <2>4
  <2> HIDE DEF L, L2, B
  <2>5. k \in DOMAIN L => /\ L[k].forked /\ L[k].modes = <<"USER_MODE", "SYSCALL">>
                          /\ L2[k] = [pid |-> L[k].pid, freed |-> L[k].freed,
                                      modes |-> <<"SYSCALL">>, forked |-> FALSE]
    <3>1. SUFFICES ASSUME k \in DOMAIN L
                   PROVE  /\ L[k].forked /\ L[k].modes = <<"USER_MODE", "SYSCALL">>
                          /\ L2[k] = [pid |-> L[k].pid, freed |-> L[k].freed,
                                      modes |-> <<"SYSCALL">>, forked |-> FALSE]
      OBVIOUS
    <3>2. /\ L[k].pid = q /\ L[k].freed = 0 /\ L[k].forked = TRUE
          /\ L[k].modes = <<"USER_MODE", "SYSCALL">>
      BY <2>4, <3>1
    <3> QED
      BY <2>4, <3>1, <3>2
  <2> QED
    BY <1>8, <2>2, <2>3, <2>5 DEF L, L2, B
<1>12. BornKeys' = B
  BY <1>1 DEF BornKeys
<1> HIDE DEF L, L2, B
<1>13. ASSUME NEW ts, IsState(ts), Tells(ts, B, L)
       PROVE  Tells(Hook(ts, e), B, L2)
  <2>1. Hook(ts, e) = process_kernel_thread(ts, e)
    BY <1>7 DEF Hook
  <2>2. Tells(process_kernel_thread(ts, e), B, L2)
    BY <1>7, <1>11, <1>13, TellsThread
  <2> QED
    BY <2>1, <2>2
<1> QED
  BY <1>2, <1>5, <1>12, <1>13, LifeHook DEF L, L2, B

LEMMA FreeLife ==
  ASSUME RunInv, IsComputed(v), LifeInv, NEW c \in Cpus, NEW q \in Pids, Free(c, q),
         NEW e, e = [kind |-> "process_free", cpu |-> c, time |-> clock + Ticks, pid |-> q]
  PROVE  LifeInv'
<1> DEFINE k == Key(c, q)
           L == Lives
           L2 == Lives'
           B == BornKeys
<1>1. /\ ending[q] = {"exit"} /\ status[q] \notin {"none", "forked"}
      /\ status' = IF status[q] = "dead" THEN [status EXCEPT ![q] = "none"] ELSE status
      /\ ending' = [ending EXCEPT ![q] = IF status[q] = "dead" THEN {} ELSE @ \cup {"free"}]
      /\ UNCHANGED <<current, mode, synced, born>>
  BY DEF Free, RunInv, Kernel
<1>2. Hooked(v, e, v')
  BY FreeStep
<1>3. born \subseteq Pids /\ BornKernel
  BY DEF LifeInv, BornKernel, Pids
<1>4. /\ \A p \in Pids : p # q => status'[p] = status[p] /\ ending'[p] = ending[p]
      /\ status[q] = "dead" => status'[q] = "none"
      /\ status[q] # "dead" => status'[q] = status[q] /\ "free" \in ending'[q]
  BY <1>1 DEF RunInv, Kernel
<1>5. BornKernel'
  <2>1. \A p \in born' : status'[p] = "forked" => mode'[Key(0, p)] = <<"SYSCALL">>
    BY <1>1, <1>3, <1>4 DEF BornKernel
  <2> QED
    BY <1>1, <1>3, <2>1 DEF BornKernel
<1>6. OthersLive(q, born, status, ending, mode, born', status', ending', mode')
  <2>1. \A p \in Pids : p # q => LifeOf(p, status', ending', mode') = LifeOf(p, status, ending, mode)
    BY <1>1, <1>4 DEF LifeOf
  <2>2. \A p \in Pids : p # q => (status'[p] = "none" <=> status[p] = "none") /\ (p \in born <=> p \in born')
    BY <1>1, <1>4
  <2> QED
    BY <2>1, <2>2 DEF OthersLive
<1>7. k = Key(e.cpu, e.pid) /\ e.kind = "process_free" /\ k = Key(c, q)
  OBVIOUS
<1> HIDE DEF k
<1>8. /\ k = Key(0, q)
      /\ \A j : j # k => (j \in DOMAIN Lives' <=> j \in DOMAIN Lives)
      /\ \A j \in DOMAIN Lives : j # k => Lives'[j] = Lives[j]
      /\ k \in BornKeys <=> q \in born
      /\ k \in DOMAIN Lives <=> q \in born /\ status[q] # "none"
      /\ k \in DOMAIN Lives => Lives[k] = LifeOf(q, status, ending, mode)
      /\ k \in DOMAIN Lives' <=> q \in born' /\ status'[q] # "none"
      /\ k \in DOMAIN Lives' => Lives'[k] = LifeOf(q, status', ending', mode')
  BY <1>3, <1>5, <1>6, <1>7, OneLife
<1> DEFINE n == IF status[q] = "dead" THEN 1 ELSE 0
<1>9. LifeOf(q, status, ending, mode)
        = [pid |-> q, freed |-> n, modes |-> mode[Key(0, q)], forked |-> FALSE]
  BY <1>1 DEF LifeOf
<1>10. status[q] # "dead" => LifeOf(q, status', ending', mode')
         = [pid |-> q, freed |-> 1, modes |-> mode[Key(0, q)], forked |-> FALSE]
  BY <1>1, <1>4 DEF LifeOf
<1>11. /\ n \in {0, 1} /\ (n = 1 <=> status[q] = "dead")
       /\ k \in B => k \in DOMAIN L
       /\ k \in DOMAIN L => L[k] = [pid |-> q, freed |-> n, modes |-> mode[Key(0, q)], forked |-> FALSE]
       /\ k \in DOMAIN L /\ n = 0
            => k \in DOMAIN L2 /\ L2[k] = [pid |-> q, freed |-> 1, modes |-> mode[Key(0, q)], forked |-> FALSE]
       /\ n = 1 => k \notin DOMAIN L2
       /\ k \notin DOMAIN L => k \notin DOMAIN L2
  BY <1>1, <1>4, <1>8, <1>9, <1>10
<1>12. /\ \A j : j # k => (j \in DOMAIN L2 <=> j \in DOMAIN L)
       /\ \A j \in DOMAIN L : j # k => L2[j] = L[j]
       /\ BornKeys' = B
  BY <1>1, <1>8 DEF BornKeys
<1> HIDE DEF L, L2, B, n
<1>13. OneEnd(L, k, L2)
  <2> DEFINE m == mode[Key(0, q)]
  <2>1. k \in DOMAIN L => L[k].pid = q /\ L[k].freed = n /\ L[k].modes = m
    BY <1>11
  <2>2. k \in DOMAIN L /\ n = 0
          => k \in DOMAIN L2 /\ L2[k] = [pid |-> q, freed |-> 1, modes |-> m, forked |-> FALSE]
    BY <1>11
  <2> HIDE DEF m
  <2>3. k \in DOMAIN L /\ L[k].freed = 0
          => /\ k \in DOMAIN L2
             /\ L2[k] = [pid |-> L[k].pid, freed |-> 1, modes |-> L[k].modes, forked |-> FALSE]
    BY <2>1, <2>2
  <2>4. /\ k \in DOMAIN L /\ L[k].freed = 1 => k \notin DOMAIN L2
        /\ k \notin DOMAIN L => k \notin DOMAIN L2
    BY <1>11, <2>1
  <2> QED
    BY <1>12, <2>3, <2>4 DEF OneEnd
<1>14. k \in DOMAIN L => ~L[k].forked /\ L[k].freed \in {0, 1}
  BY <1>11
<1>15. ASSUME NEW ts, IsState(ts), Tells(ts, B, L)
       PROVE  Tells(Hook(ts, e), B, L2)
  <2>1. Hook(ts, e) = process_free(ts, e)
    BY <1>7 DEF Hook
  <2>2. Tells(process_free(ts, e), B, L2)
    BY <1>7, <1>11, <1>13, <1>14, <1>15, TellsFree
  <2> QED
    BY <2>1, <2>2
<1> QED
  BY <1>2, <1>5, <1>12, <1>15, LifeHook DEF L, L2, B
LEMMA SwitchLife ==
  ASSUME RunInv, IsComputed(v), LifeInv, NEW c \in Cpus, NEW in \in {0} \cup Pids,
         NEW stateOut \in {0, 1, 64}, SchedChange(c, in, stateOut),
         NEW e, e = [kind |-> "schedchange", cpu |-> c, time |-> clock + Ticks,
               pidOut |-> current[c], pidIn |-> in, stateOut |-> stateOut]
  PROVE  LifeInv'
<1> DEFINE q == current[c]
           k == TakenToRun[c]
           L == Lives
           L2 == Lives'
           B == BornKeys
           left == IF q = 0 THEN status ELSE [status EXCEPT ![q] = AfterSwitch(q, stateOut)]
<1>1. /\ in # q /\ (in # 0 => status[in] = "ready")
      /\ stateOut \in OutStates(c)
      /\ current' = [current EXCEPT ![c] = in]
      /\ status' = IF in = 0 THEN left ELSE [left EXCEPT ![in] = "run"]
      /\ ending' = [p \in Pids |-> IF status'[p] = "none" THEN {} ELSE ending[p]]
      /\ synced' = synced \cup {c}
      /\ UNCHANGED <<mode, born>>
  BY DEF SchedChange, left
<1>2. Hooked(v, e, v')
  BY SwitchStep
<1>3. born \subseteq Pids /\ BornKernel /\ Pids \subseteq Nat \ {0}
  BY StateTraceAssumption DEF LifeInv, BornKernel, Pids
<1>4. /\ q \in {0} \cup Pids
      /\ q = 0 => stateOut = 0
      /\ q # 0 => status[q] = "run"
      /\ stateOut # 64 => AfterSwitch(q, stateOut) \in {"ready", "wait"}
      /\ stateOut = 64 => AfterSwitch(q, stateOut) = IF "free" \in ending[q] THEN "none" ELSE "dead"
  BY <1>1 DEF OutStates, AfterSwitch, RunInv, Kernel
<1>5. left \in [Pids -> {"none", "forked", "ready", "run", "wait", "dead"}]
      /\ (\A p \in Pids : p # q => left[p] = status[p])
      /\ (q # 0 => left[q] = AfterSwitch(q, stateOut))
  BY <1>3, <1>4 DEF RunInv, Kernel
<1> HIDE DEF left
<1>6. /\ \A p \in Pids : p \notin {q, in} => status'[p] = status[p]
      /\ q # 0 => status'[q] = AfterSwitch(q, stateOut)
      /\ in # 0 => status'[in] = "run"
  BY <1>1, <1>3, <1>4, <1>5
<1>7. \A p \in Pids : ending'[p] = IF status'[p] = "none" THEN {} ELSE ending[p]
  BY <1>1
<1>8. \A d \in Cpus : d # c => current'[d] = current[d]
  BY <1>1 DEF RunInv, Kernel
<1>9. \A p \in Pids : status'[p] = "forked" => status[p] = "forked"
  BY <1>3, <1>4, <1>6
<1>10. BornKernel'
  <2>1. \A p \in born' : status'[p] = "forked" => mode'[Key(0, p)] = <<"SYSCALL">>
    BY <1>1, <1>3, <1>9 DEF BornKernel
  <2>2. \A d \in Cpus : current'[d] \in born' => d \in synced'
    BY <1>1, <1>3, <1>8 DEF BornKernel
  <2> QED
    BY <1>1, <1>3, <2>1, <2>2 DEF BornKernel
<1>11. \A p \in Pids : p # q =>
         /\ status[p] = "none" <=> status'[p] = "none"
         /\ LifeOf(p, status', ending', mode') = LifeOf(p, status, ending, mode)
  <2>1. \A p \in Pids : p # q =>
          /\ ending'[p] = ending[p]
          /\ \A s \in {"none", "dead", "forked"} : status'[p] = s <=> status[p] = s
    BY <1>1, <1>3, <1>6, <1>7 DEF RunInv, Kernel
  <2> QED
    BY <1>1, <2>1 DEF LifeOf
<1>12. BornKeys' = B
  BY <1>1 DEF BornKeys
<1>13. /\ q \in born => k = CurrentKey(c) /\ k \in DOMAIN L
       /\ k \in DOMAIN L => /\ q \in born /\ q \in Pids /\ q # 0
                            /\ k = Key(0, q) /\ L[k] = LifeOf(q, status, ending, mode)
                            /\ ~L[k].forked /\ L[k].pid = q /\ L[k].freed \in {0, 1}
                            /\ L[k].freed = 1 <=> "free" \in ending[q]
  BY <1>3, CurrentLife
<1>14. q \notin born \/ stateOut # 64 => L2 = L
  <2>1. ASSUME q \in born, stateOut # 64
        PROVE  /\ status[q] = "none" <=> status'[q] = "none"
               /\ LifeOf(q, status', ending', mode') = LifeOf(q, status, ending, mode)
    <3>1. /\ q # 0 /\ q \in Pids /\ status[q] = "run" /\ status'[q] \in {"ready", "wait"}
          /\ ending'[q] = ending[q]
      BY <1>3, <1>4, <1>6, <1>7, <2>1
    <3> QED
      BY <1>1, <3>1 DEF LifeOf
  <2>2. q \notin born \/ stateOut # 64 =>
          \A p \in born : /\ status[p] = "none" <=> status'[p] = "none"
                          /\ LifeOf(p, status', ending', mode') = LifeOf(p, status, ending, mode)
    BY <1>3, <1>11, <2>1
  <2>3. born \subseteq NewPids /\ born' = born
    BY <1>1, <1>3 DEF BornKernel
  <2> QED
    BY <2>2, <2>3, LivesStay
<1>15. stateOut = 64 => OneEnd(L, k, L2)
  <2>1. CASE q \notin born
    <3>1. L2 = L /\ k \notin DOMAIN L
      BY <1>13, <1>14, <2>1
    <3> HIDE DEF L, L2, k
    <3> QED
      BY <3>1 DEF OneEnd
  <2>2. CASE q \in born /\ stateOut = 64
    <3>1. q # 0 /\ q \in Pids /\ k = Key(0, q) /\ k \in DOMAIN L
      BY <1>13, <2>2
    <3>2. OthersLive(q, born, status, ending, mode, born', status', ending', mode')
      BY <1>1, <1>11 DEF OthersLive
    <3>3. born \subseteq NewPids /\ born' \subseteq NewPids
      BY <1>1, <1>3 DEF BornKernel
    <3> DEFINE m == mode[Key(0, q)]
    <3>4. /\ L[k].pid = q /\ L[k].freed \in {0, 1} /\ L[k].modes = m
          /\ L[k].freed = 1 <=> "free" \in ending[q]
      <4>1. LifeOf(q, status, ending, mode).modes = m
        BY <1>4, <3>1 DEF LifeOf
      <4> QED
        BY <1>13, <3>1, <4>1
    <3>5. "free" \in ending[q] => status'[q] = "none"
      BY <1>4, <1>6, <2>2, <3>1
    <3>6. "free" \notin ending[q] =>
            /\ status'[q] = "dead"
            /\ LifeOf(q, status', ending', mode')
                 = [pid |-> q, freed |-> 1, modes |-> m, forked |-> FALSE]
      <4>1. "free" \notin ending[q] => status'[q] = "dead"
        BY <1>4, <1>6, <2>2, <3>1
      <4> QED
        BY <1>1, <4>1 DEF LifeOf
    <3> HIDE DEF m, q, k
    <3>7. /\ \A j : j # k => (j \in DOMAIN Lives' <=> j \in DOMAIN Lives)
          /\ \A j \in DOMAIN Lives : j # k => Lives'[j] = Lives[j]
          /\ k \in DOMAIN Lives' <=> q \in born' /\ status'[q] # "none"
          /\ k \in DOMAIN Lives' => Lives'[k] = LifeOf(q, status', ending', mode')
      BY <3>1, <3>2, <3>3, LivesChange
    <3>8. /\ L[k].freed = 0 => /\ k \in DOMAIN L2
                               /\ L2[k] = [pid |-> q, freed |-> 1, modes |-> m, forked |-> FALSE]
          /\ L[k].freed = 1 => k \notin DOMAIN L2
      BY <1>1, <2>2, <3>4, <3>5, <3>6, <3>7
    <3>9. /\ \A j : j # k => (j \in DOMAIN L2 <=> j \in DOMAIN L)
          /\ \A j \in DOMAIN L : j # k => L2[j] = L[j]
      BY <3>7
    <3> HIDE DEF L, L2
    <3>10. L[k].freed = 0 =>
             L2[k] = [pid |-> L[k].pid, freed |-> 1, modes |-> L[k].modes, forked |-> FALSE]
      BY <3>4, <3>8
    <3> QED
      BY <3>1, <3>8, <3>9, <3>10 DEF OneEnd
  <2> QED
    BY <2>1, <2>2
<1>16. Key(c, in) \in B => Key(c, in) \in DOMAIN L2 /\ ~L2[Key(c, in)].forked
  <2>1. CASE in = 0
    <3>1. Key(c, in) = <<0, c>>
      BY <2>1 DEF Key
    <3>2. \A p \in born : Key(0, p) = <<p, -1>> /\ p # 0
      BY <1>3 DEF Key
    <3> QED
      BY <3>1, <3>2 DEF B, BornKeys, KeysOf
  <2>2. CASE in # 0
    <3>1. in \in Pids /\ status'[in] = "run"
      BY <1>6, <2>2
    <3>2. Key(c, in) = Key(0, in)
      BY <2>2 DEF Key
    <3> DEFINE b == born'
               stat == status'
               end == ending'
               m == mode'
    <3>3. L2 = LivesOf(b, stat, end, m) /\ B = KeysOf(b) /\ b \subseteq Pids
      BY <1>1, <1>3 DEF Lives, BornKeys
    <3>4. ~LifeOf(in, stat, end, m).forked
      BY <3>1 DEF LifeOf
    <3>5. stat[in] = "run"
      BY <3>1
    <3> HIDE DEF L2, B, b, stat, end, m
    <3>6. /\ \A p \in Pids : Key(0, p) \in KeysOf(b) <=> p \in b
          /\ \A p \in Pids : Key(0, p) \in DOMAIN L2 <=> p \in b /\ stat[p] # "none"
          /\ \A p \in b : stat[p] # "none" => L2[Key(0, p)] = LifeOf(p, stat, end, m)
      BY <3>3, LivesFacts
    <3> QED
      BY <3>1, <3>2, <3>3, <3>4, <3>5, <3>6
  <2> QED
    BY <2>1, <2>2
<1>17. /\ e.kind = "schedchange" /\ e.cpu = c /\ e.stateOut = stateOut
       /\ InKey(e) = Key(c, in)
  BY DEF InKey
<1>18. Dead(stateOut) <=> stateOut = 64
  BY DEF Dead
<1>19. k \in DOMAIN L => ~L[k].forked /\ L[k].pid # 0 /\ L[k].freed \in {0, 1}
  BY <1>13
<1>20. stateOut # 64 => L2 = L
  BY <1>14
<1>21. k = TakenToRun[c]
  OBVIOUS
<1> HIDE DEF L, L2, B, k
<1>22. ASSUME NEW ts, IsState(ts), RunsKnown(ts), ts.running = TakenToRun, Tells(ts, B, L)
       PROVE  Tells(Hook(ts, e), B, L2)
  <2>1. Hook(ts, e) = schedchange(ts, e)
    BY <1>17 DEF Hook
  <2>2. k = ts.running[e.cpu] /\ e.cpu \in Cpus
    BY <1>17, <1>21, <1>22
  <2>3. InKey(e) \in B => InKey(e) \in DOMAIN L2 /\ ~L2[InKey(e)].forked
    BY <1>16, <1>17
  <2>4. /\ Dead(e.stateOut) => OneEnd(L, k, L2)
        /\ ~Dead(e.stateOut) => L2 = L
    BY <1>15, <1>17, <1>18, <1>20
  <2>5. Tells(schedchange(ts, e), B, L2)
    BY <1>19, <1>22, <2>2, <2>3, <2>4, TellsSwitch
  <2> QED
    BY <2>1, <2>5
<1> QED
  BY <1>2, <1>10, <1>12, <1>22, LifeHook DEF L, L2, B

-----------------------------------------------------------------------------
(* The lives over the whole trace.                                         *)

LEMMA LifeInit ==
  ASSUME Init
  PROVE  LifeInv
<1>1. /\ born = {} /\ DOMAIN mode = {Key(c, 0) : c \in Cpus} \cup {Key(0, p) : p \in Pids}
      /\ current \in [Cpus -> {0} \cup InitialPids]
  BY DEF Init
<1>2. BornKernel
  BY <1>1 DEF BornKernel
<1>3. BornKeys = {}
  BY <1>1 DEF BornKeys, KeysOf
<1>4. DOMAIN Lives = {}
  BY <1>1 DEF Lives, LivesOf, KeysOf
<1> QED
  BY <1>2, <1>3, <1>4 DEF LifeInv, Tells

LEMMA LifeStep ==
  ASSUME RunInv, IsComputed(v), LifeInv, Next \/ Described
  PROVE  LifeInv'
<1>1. ASSUME NEW c \in Cpus, NEW e, e.cpu = c, Read(e), NEW t, Push(c, t),
             \/ e.kind = "syscall_entry" /\ t = "SYSCALL"
             \/ e.kind \in {"trap_entry", "page_fault_entry"} /\ t = "TRAP"
             \/ e.kind = "irq_entry" /\ t = "IRQ"
             \/ e.kind = "soft_irq_entry" /\ t = "SOFT_IRQ"
      PROVE  LifeInv'
  BY <1>1, EntryLife DEF Read
<1>2. ASSUME NEW c \in Cpus, NEW e, e.cpu = c, Read(e), NEW t, Pop(c, t),
             \/ e.kind = "syscall_exit" /\ t = "SYSCALL"
             \/ e.kind \in {"trap_exit", "page_fault_exit"} /\ t = "TRAP"
             \/ e.kind = "irq_exit" /\ t = "IRQ"
             \/ e.kind = "soft_irq_exit" /\ t = "SOFT_IRQ"
      PROVE  LifeInv'
  BY <1>2, ExitLife DEF Read
<1>3. ASSUME NEW e, e.cpu \in Cpus, Read(e), Tell,
             \/ e.kind \in {"soft_irq_raise", "enum_interrupt", "dump_softirq", "bdev_request_issue",
                            "bdev_request_complete", "function_entry", "function_exit",
                            "process_exec", "thread_brand", "fs_open", "statedump_end"}
             \/ /\ e.kind = "enum_process_state"
                /\ e.pid \in {0} \cup {q \in Pids : status[q] # "none"}
      PROVE  LifeInv'
  BY <1>3, TellLife DEF Read, Tell
<1>4. ASSUME NEW c \in Cpus,
             \/ \E id \in Ids :
                  \/ SyscallEntry(c, id) \/ IrqEntry(c, id) \/ SoftIrqEntry(c, id)
                  \/ \E kind \in {"trap_entry", "page_fault_entry"} : TrapEntry(c, id, kind)
      PROVE  LifeInv'
  <2>1. ASSUME NEW id \in Ids, SyscallEntry(c, id)
        PROVE  LifeInv'
    BY <1>1, <2>1 DEF SyscallEntry, EventId
  <2>2. ASSUME NEW id \in Ids, IrqEntry(c, id)
        PROVE  LifeInv'
    BY <1>1, <2>2 DEF IrqEntry, EventId
  <2>3. ASSUME NEW id \in Ids, SoftIrqEntry(c, id)
        PROVE  LifeInv'
    BY <1>1, <2>3 DEF SoftIrqEntry, EventId
  <2>4. ASSUME NEW id \in Ids, NEW kind \in {"trap_entry", "page_fault_entry"}, TrapEntry(c, id, kind)
        PROVE  LifeInv'
    BY <1>1, <2>4 DEF TrapEntry, EventId
  <2> QED
    BY <1>4, <2>1, <2>2, <2>3, <2>4
<1>5. ASSUME NEW c \in Cpus,
             \/ SyscallExit(c) \/ IrqExit(c) \/ SoftIrqExit(c)
             \/ \E kind \in {"trap_exit", "page_fault_exit"} : TrapExit(c, kind)
      PROVE  LifeInv'
  BY <1>2, <1>5 DEF SyscallExit, IrqExit, SoftIrqExit, TrapExit, Event
<1>6. ASSUME NEW c \in Cpus,
             \/ StatedumpEnd(c) \/ Exec(c) \/ Brand(c)
             \/ \E id \in Ids :
                  \/ SoftIrqRaise(c, id) \/ ListInterrupt(c, id) \/ ListSoftIrq(c, id)
                  \/ Open(c, id) \/ Call(c, id) \/ Return(c, id)
                  \/ \E oper \in {"BUSY_READING", "BUSY_WRITING"} : Request(c, id, oper)
                  \/ RequestDone(c, id)
             \/ \E p \in {0} \cup Pids : ProcessState(c, p)
      PROVE  LifeInv'
  BY <1>3, <1>6 DEF StatedumpEnd, Exec, Brand, SoftIrqRaise, ListInterrupt, ListSoftIrq, Open, Call,
                    Return, Request, RequestDone, ProcessState, Event, EventId
<1>7. ASSUME NEW c \in Cpus, NEW in \in {0} \cup Pids, NEW stateOut \in {0, 1, 64},
             SchedChange(c, in, stateOut)
      PROVE  LifeInv'
  <2> DEFINE e == [kind |-> "schedchange", cpu |-> c, time |-> clock + Ticks,
                   pidOut |-> current[c], pidIn |-> in, stateOut |-> stateOut]
  <2>1. e = [kind |-> "schedchange", cpu |-> c, time |-> clock + Ticks,
             pidOut |-> current[c], pidIn |-> in, stateOut |-> stateOut]
    OBVIOUS
  <2> HIDE DEF e
  <2> QED
    BY <1>7, <2>1, SwitchLife
<1>8. ASSUME NEW c \in Cpus, NEW p \in Pids,
             \/ Wakeup(c, p) \/ KernelThread(c, p) \/ Free(c, p)
             \/ \E thread \in BOOLEAN : Fork(c, p, thread)
      PROVE  LifeInv'
  BY <1>8, WakeupLife, ThreadLife, FreeLife, ForkLife
<1>9. ASSUME NEW c \in Cpus, Exit(c)
      PROVE  LifeInv'
  BY <1>9, EndLife
<1> QED
  BY <1>4, <1>5, <1>6, <1>7, <1>8, <1>9 DEF Next, Described

\* What the invariant says is what the property does.
LEMMA LivesAgree ==
  ASSUME RunInv, LifeInv
  PROVE  BornLivesAgree
<1>1. born \subseteq Pids
  BY DEF LifeInv, BornKernel, Pids
<1> DEFINE L == Lives
           b == born
           stat == status
           end == ending
           m == mode
<1>2. L = LivesOf(b, stat, end, m) /\ BornKeys = KeysOf(b) /\ b \subseteq Pids
  BY <1>1 DEF Lives, BornKeys
<1>3. Tells(v.ts, BornKeys, L)
  BY DEF LifeInv
<1> HIDE DEF L, b, stat, end, m
<1>4. /\ \A p \in Pids : Key(0, p) \in KeysOf(b) <=> p \in b
      /\ \A p \in Pids : Key(0, p) \in DOMAIN L <=> p \in b /\ stat[p] # "none"
      /\ \A p \in b : stat[p] # "none" => L[Key(0, p)] = LifeOf(p, stat, end, m)
  BY <1>2, LivesFacts
<1>5. ASSUME NEW p \in b
      PROVE  /\ stat[p] # "none" <=> Key(0, p) \in DOMAIN v.ts.processes
             /\ stat[p] \notin {"none", "forked"} => Modes(v.ts.processes[Key(0, p)]) = m[Key(0, p)]
  <2>1. p \in Pids /\ Key(0, p) \in BornKeys
    BY <1>2, <1>4
  <2>2. stat[p] # "none" <=> Key(0, p) \in DOMAIN v.ts.processes
    BY <1>3, <1>4, <2>1 DEF Tells
  <2>3. ASSUME stat[p] \notin {"none", "forked"}
        PROVE  Modes(v.ts.processes[Key(0, p)]) = m[Key(0, p)]
    <3>1. Key(0, p) \in DOMAIN L /\ L[Key(0, p)] = LifeOf(p, stat, end, m)
      BY <1>4, <2>1, <2>3
    <3>2. LifeOf(p, stat, end, m).modes = m[Key(0, p)]
      BY <2>3 DEF LifeOf
    <3>3. Like(v.ts.processes[Key(0, p)], L[Key(0, p)])
      BY <1>3, <3>1 DEF Tells
    <3> QED
      BY <3>1, <3>2, <3>3 DEF Like
  <2> QED
    BY <2>2, <2>3
<1> QED
  BY <1>5 DEF BornLivesAgree, BornAlive, Alive, Table, b, stat, m

\* Whatever the trace tells, a process whose birth is in it is in the state as
\* long as the kernel has it and no longer, and in the modes the kernel has it
\* in (BornLivesAgree): each of its two ends frees it only if the other came
\* before, its modes are pushed and popped on whatever processor it runs, a
\* fork makes the modes it returns through, and no hook for another process,
\* nor the idle process kept in its place before the first switch, touches it.
THEOREM BornLivesAreKnown == Traced => []BornLivesAgree
<1> DEFINE I == RunInv /\ IsComputed(v) /\ LifeInv
<1>1. Init => I
  BY RunInit, LifeInit
<1>2. I /\ [Next \/ Described]_vars => I'
  <2>1. ASSUME I, Next \/ Described
        PROVE  I'
    BY <2>1, RunStep, LifeStep
  <2>2. ASSUME I, UNCHANGED vars
        PROVE  I'
    BY <2>2 DEF vars, RunInv, IsComputed, LifeInv, Kernel, TakenToRun, HalfEnded, Ended, CurrentKey,
                BornKernel, BornKeys, Lives
  <2> QED
    BY <2>1, <2>2
<1>3. I => BornLivesAgree
  BY LivesAgree
<1> QED
  BY <1>1, <1>2, <1>3, PTL DEF Traced

-----------------------------------------------------------------------------
(* The branch of the statistics that the running process of a processor is *)
(* in: the hooks that keep it, and those after which it is found again.    *)

SameBranch(p, q) ==
  /\ q.pid = p.pid /\ q.creation = p.creation /\ q.current = p.current
  /\ Top(q).t = Top(p).t /\ Top(q).n = Top(p).n

\* The processes other than those of the keys K stay, in the branches they are in.
SameBranches(ts, us, K) ==
  \A j \in DOMAIN ts.processes \ K :
    j \in DOMAIN us.processes /\ SameBranch(ts.processes[j], us.processes[j])

LEMMA BranchSame ==
  ASSUME NEW ts, NEW us, NEW K, SameBranches(ts, us, K), NEW c,
         ts.running[c] \in DOMAIN ts.processes \ K, us.running[c] = ts.running[c]
  PROVE  BranchOf(us, c) = BranchOf(ts, c)
BY DEF SameBranches, SameBranch, BranchOf, Running

LEMMA BranchRecounted ==
  ASSUME NEW ts, IsState(ts), RunsKnown(ts), NEW us, Recounts(ts, us), NEW c \in Cpus
  PROVE  BranchOf(us, c) = BranchOf(ts, c)
<1> DEFINE k == ts.running[c]
           p == ts.processes[k]
           q == us.processes[k]
<1>1. k \in DOMAIN ts.processes /\ IsProcess(p) /\ Recounted(p, q)
  BY DEF RunsKnown, IsState, Recounts
<1>2. us.running = ts.running
  BY DEF Recounts, IsState
<1>3. Running(ts, c) = p /\ Running(us, c) = q
  BY <1>2 DEF Running
<1> HIDE DEF p, q
<1>4. Len(p.stack) \in Nat \ {0} /\ IsProcess(q)
  BY <1>1, FrameLemma DEF Recounted
<1>5. Len(p.stack) \in 1 .. Len(p.stack) /\ Len(q.stack) = Len(p.stack)
  BY <1>1, <1>4 DEF Recounted
<1>6. Top(q).t = Top(p).t /\ Top(q).n = Top(p).n
  BY <1>1, <1>5 DEF Recounted, Top, Last1
<1>7. q.pid = p.pid /\ q.creation = p.creation /\ q.current = p.current
  BY <1>1 DEF Recounted, IsProcess
<1> QED
  BY <1>3, <1>6, <1>7 DEF BranchOf

LEMMA BranchWritten ==
  ASSUME NEW ts, IsState(ts), NEW k, NEW q
  PROVE  /\ SameBranches(ts, SetProcess(ts, k, q), {k})
         /\ k \in DOMAIN ts.processes /\ SameBranch(ts.processes[k], q)
              => SameBranches(ts, SetProcess(ts, k, q), {})
<1> DEFINE us == SetProcess(ts, k, q)
<1>1. us.processes = Put(ts.processes, k, q)
  BY DEF SetProcess, IsState
<1>2. /\ DOMAIN us.processes = DOMAIN ts.processes \cup {k}
      /\ us.processes[k] = q
      /\ \A j \in DOMAIN ts.processes : j # k => us.processes[j] = ts.processes[j]
  BY <1>1 DEF Put
<1> HIDE DEF us
<1>3. \A p : SameBranch(p, p)
  BY DEF SameBranch
<1>4. /\ SameBranches(ts, us, {k})
      /\ k \in DOMAIN ts.processes /\ SameBranch(ts.processes[k], q) => SameBranches(ts, us, {})
  BY <1>2, <1>3 DEF SameBranches
<1> QED
  BY <1>4 DEF us

\* What the status of a process is does not tell its branch.
LEMMA BranchStatus ==
  ASSUME NEW p, IsProcess(p), NEW f, IsFrame(f), f.t = Top(p).t, f.n = Top(p).n
  PROVE  SameBranch(p, WithTop(p, f)) /\ IsProcess(WithTop(p, f))
<1> DEFINE q == WithTop(p, f)
<1>1. IsProcess(q) /\ Top(q) = f /\ q.pid = p.pid
  BY WithTopModes
<1>2. q.creation = p.creation /\ q.current = p.current
  BY DEF WithTop, IsProcess
<1> HIDE DEF q
<1>3. SameBranch(p, q)
  BY <1>1, <1>2 DEF SameBranch
<1> QED
  BY <1>1, <1>3 DEF q

\* Hooks after which every running process is in the branch it was in.
LEMMA QuietBranches ==
  ASSUME NEW ts, IsState(ts), RunsKnown(ts), NEW e, e.cpu \in Cpus,
         e.kind \in {"soft_irq_raise", "enum_interrupt", "dump_softirq", "bdev_request_issue",
                     "bdev_request_complete", "process_exec", "thread_brand", "fs_open",
                     "process_exit"}
  PROVE  SameBranches(ts, Hook(ts, e), {})
<1> DEFINE k == ts.running[e.cpu]
           p == ts.processes[k]
<1>1. k \in DOMAIN ts.processes /\ IsProcess(p) /\ Running(ts, e.cpu) = p
  BY DEF IsState, RunsKnown, Running
<1>2. \A x : SameBranch(x, x)
  BY DEF SameBranch
<1>3. CASE e.kind \in {"soft_irq_raise", "enum_interrupt", "dump_softirq", "bdev_request_issue",
                       "bdev_request_complete"}
  <2>1. /\ soft_irq_raise(ts, e).processes = ts.processes
        /\ enum_interrupt(ts, e).processes = ts.processes
        /\ dump_softirq(ts, e).processes = ts.processes
        /\ bdev_request_issue(ts, e).processes = ts.processes
        /\ bdev_request_complete(ts, e).processes = ts.processes
    BY DEF soft_irq_raise, enum_interrupt, dump_softirq, bdev_request_issue,
           bdev_request_complete, expand_irq_table, expand_soft_irq_table, IsState
  <2>2. Hook(ts, e).processes = ts.processes
    BY <1>3, <2>1 DEF Hook
  <2> QED
    BY <1>2, <2>2 DEF SameBranches
<1>4. CASE e.kind \in {"process_exec", "thread_brand", "fs_open"}
  <2> HIDE DEF p
  <2>1. \A a, b : /\ SameBranch(p, [p EXCEPT !.name = a, !.brand = b])
                  /\ SameBranch(p, [p EXCEPT !.brand = a])
                  /\ SameBranch(p, [p EXCEPT !.fds = a])
    BY <1>1 DEF IsProcess, SameBranch, Top
  <2>2. \/ Hook(ts, e) = SetProcess(ts, k, [p EXCEPT !.name = e.name, !.brand = "UNBRANDED"])
        \/ Hook(ts, e) = SetProcess(ts, k, [p EXCEPT !.brand = e.name])
        \/ Hook(ts, e) = SetProcess(ts, k, [p EXCEPT !.fds = p.fds \cup {e.id}])
    BY <1>1, <1>4 DEF Hook, process_exec, thread_brand, fs_open, SetRunning, IsProcess
  <2>3. PICK q : SameBranch(p, q) /\ Hook(ts, e) = SetProcess(ts, k, q)
    BY <2>1, <2>2
  <2> QED
    BY <1>1, <2>3, BranchWritten DEF p
<1>5. CASE e.kind = "process_exit"
  <2> DEFINE x == Key(e.cpu, e.pid)
             r == ts.processes[x]
             f == [Top(r) EXCEPT !.s = "EXIT"]
  <2>1. Hook(ts, e) = process_exit(ts, e)
    BY <1>5 DEF Hook
  <2>2. CASE x \notin DOMAIN ts.processes
    <3>1. Hook(ts, e) = ts
      BY <2>1, <2>2 DEF process_exit, Known
    <3> QED
      BY <3>1, <1>2 DEF SameBranches
  <2>3. CASE x \in DOMAIN ts.processes
    <3>1. Hook(ts, e) = SetProcess(ts, x, WithTop(r, f))
      BY <2>1, <2>3 DEF process_exit, Known
    <3>2. IsProcess(r)
      BY <2>3 DEF IsState
    <3> HIDE DEF r
    <3>3. IsFrame(f) /\ f.t = Top(r).t /\ f.n = Top(r).n
      <4>1. IsFrame(Top(r))
        BY <3>2, FrameLemma
      <4> QED
        BY <4>1 DEF IsFrame
    <3> HIDE DEF f
    <3>4. SameBranch(r, WithTop(r, f))
      BY <3>2, <3>3, BranchStatus
    <3> QED
      BY <2>3, <3>1, <3>4, BranchWritten DEF r
  <2> QED
    BY <2>2, <2>3
<1> QED
  BY <1>3, <1>4, <1>5

\* Hooks that move the running process of their processor only.
LEMMA RunningBranches ==
  ASSUME NEW ts, IsState(ts), RunsKnown(ts), NEW e, e.cpu \in Cpus, e.kind \in Entries \cup Exits
  PROVE  SameBranches(ts, Hook(ts, e), {ts.running[e.cpu]})
<1> DEFINE k == ts.running[e.cpu]
<1>1. \A x : SameBranch(x, x)
  BY DEF SameBranch
<1>2. SameBranches(ts, ts, {k})
  BY <1>1 DEF SameBranches
<1>3. \A q : SameBranches(ts, SetProcess(ts, k, q), {k})
  BY BranchWritten
<1>4. \A t, n, time : /\ SameBranches(ts, push_state(ts, e.cpu, t, n, time), {k})
                      /\ SameBranches(ts, pop_state(ts, e.cpu, t, time), {k})
  BY <1>2, <1>3 DEF push_state, pop_state, SetRunning
<1>5. \A us, ws : us.processes = ws.processes /\ SameBranches(ts, ws, {k}) => SameBranches(ts, us, {k})
  BY DEF SameBranches
<1> HIDE DEF k
<1>6. /\ trap_entry(ts, e).processes = push_state(ts, e.cpu, "TRAP", e.id, e.time).processes
      /\ irq_entry(ts, e).processes = push_state(ts, e.cpu, "IRQ", e.id, e.time).processes
      /\ soft_irq_entry(ts, e).processes = push_state(ts, e.cpu, "SOFT_IRQ", e.id, e.time).processes
  <2>1. trap_entry(ts, e).processes = push_state(ts, e.cpu, "TRAP", e.id, e.time).processes
    BY DEF trap_entry, cpu_push_mode, push_state, expand_trap_table, SetRunning, SetProcess,
           Running, IsState
  <2>2. irq_entry(ts, e).processes = push_state(ts, e.cpu, "IRQ", e.id, e.time).processes
    BY DEF irq_entry, cpu_push_mode, push_state, expand_irq_table, SetRunning, SetProcess,
           Running, IsState
  <2>3. soft_irq_entry(ts, e).processes = push_state(ts, e.cpu, "SOFT_IRQ", e.id, e.time).processes
    BY DEF soft_irq_entry, cpu_push_mode, push_state, expand_soft_irq_table, SetRunning, SetProcess,
           Running, IsState
  <2> QED
    BY <2>1, <2>2, <2>3
<1>7. \A x : IsState(pop_state(ts, e.cpu, x, e.time))
  BY pop_stateLemma DEF Keeps
<1>8. /\ trap_exit(ts, e).processes = pop_state(ts, e.cpu, "TRAP", e.time).processes
      /\ irq_exit(ts, e).processes = pop_state(ts, e.cpu, "IRQ", e.time).processes
      /\ soft_irq_exit(ts, e).processes = pop_state(ts, e.cpu, "SOFT_IRQ", e.time).processes
  BY <1>7 DEF trap_exit, irq_exit, soft_irq_exit, cpu_pop_mode, IsState
<1>9. /\ SameBranches(ts, trap_entry(ts, e), {k}) /\ SameBranches(ts, irq_entry(ts, e), {k})
      /\ SameBranches(ts, soft_irq_entry(ts, e), {k}) /\ SameBranches(ts, trap_exit(ts, e), {k})
      /\ SameBranches(ts, irq_exit(ts, e), {k}) /\ SameBranches(ts, soft_irq_exit(ts, e), {k})
  BY <1>4, <1>5, <1>6, <1>8
<1>10. SameBranches(ts, syscall_entry(ts, e), {k}) /\ SameBranches(ts, syscall_exit(ts, e), {k})
  BY <1>2, <1>4 DEF syscall_entry, syscall_exit
<1>11. SameBranches(ts, function_entry(ts, e), {k}) /\ SameBranches(ts, function_exit(ts, e), {k})
  BY <1>2, <1>3 DEF function_entry, function_exit, SetRunning, k
<1> QED
  BY <1>9, <1>10, <1>11, Zenon DEF Hook, Entries, Exits, k

\* Hooks that write to the process an event is about.
LEMMA BirthBranches ==
  ASSUME NEW ts, IsState(ts), NEW e, NEW k,
         \/ e.kind = "sched_try_wakeup" /\ k = Key(e.wokenCpu, e.pid)
         \/ e.kind \in {"process_fork", "process_kernel_thread"} /\ k = Key(e.cpu, e.pid)
  PROVE  SameBranches(ts, Hook(ts, e), {k})
<1>1. ASSUME NEW us, IsState(us), \A j \in DOMAIN ts.processes :
                j \in DOMAIN us.processes /\ us.processes[j] = ts.processes[j], NEW q
      PROVE  SameBranches(ts, SetProcess(us, k, q), {k})
  <2> DEFINE ws == SetProcess(us, k, q)
  <2>1. SameBranches(us, ws, {k})
    BY <1>1, BranchWritten
  <2> HIDE DEF ws
  <2> QED
    BY <1>1, <2>1 DEF SameBranches, ws
<1>2. CASE e.kind = "sched_try_wakeup" /\ k = Key(e.wokenCpu, e.pid)
  <2> DEFINE us == find_process_or_create(ts, e.wokenCpu, e.pid, e.time)
  <2>1. IsState(us) /\ \A j \in DOMAIN ts.processes :
          j \in DOMAIN us.processes /\ us.processes[j] = ts.processes[j]
    BY CreateLemma
  <2>2. Hook(ts, e) = SetProcess(us, k, SetStatus(us.processes[k], "WAIT_CPU", e.time))
    BY <1>2, Zenon DEF Hook, sched_try_wakeup
  <2> HIDE DEF us
  <2> QED
    BY <1>1, <2>1, <2>2
<1>3. CASE e.kind = "process_fork" /\ k = Key(e.cpu, e.pid)
  <2>1. Hook(ts, e) = process_fork(ts, e)
    BY <1>3, Zenon DEF Hook
  <2>2. PICK q : process_fork(ts, e) = SetProcess(ts, k, q)
    BY <1>3, Zenon DEF process_fork
  <2> QED
    BY <2>1, <2>2, <1>1
<1>4. CASE e.kind = "process_kernel_thread" /\ k = Key(e.cpu, e.pid)
  <2> DEFINE us == find_process_or_create(ts, e.cpu, e.pid, 0)
  <2>1. IsState(us) /\ \A j \in DOMAIN ts.processes :
          j \in DOMAIN us.processes /\ us.processes[j] = ts.processes[j]
    BY CreateLemma
  <2>2. Hook(ts, e) = process_kernel_thread(ts, e)
    BY <1>4, Zenon DEF Hook
  <2>3. PICK q : process_kernel_thread(ts, e) = SetProcess(us, k, q)
    BY <1>4, Zenon DEF process_kernel_thread
  <2> HIDE DEF us
  <2> QED
    BY <1>1, <2>1, <2>2, <2>3
<1> QED
  BY <1>2, <1>3, <1>4

\* The end of a process keeps the branches of those that are still there.
LEMMA EndBranches ==
  ASSUME NEW ts, IsState(ts), NEW k \in DOMAIN ts.processes
  PROVE  LET us == exit_process(ts, k) IN
         \A j \in DOMAIN us.processes :
           j \in DOMAIN ts.processes /\ SameBranch(ts.processes[j], us.processes[j])
<1>1. \A x : SameBranch(x, x)
  BY DEF SameBranch
<1> DEFINE us == exit_process(ts, k)
           p == ts.processes[k]
<1>2. CASE p.freeEvents + 1 < 2
  <2>1. us.processes = [ts.processes EXCEPT ![k] = [p EXCEPT !.freeEvents = p.freeEvents + 1]]
    BY <1>2 DEF exit_process, IsState, IsProcess
  <2> HIDE DEF us
  <2>2. SameBranch(p, [p EXCEPT !.freeEvents = p.freeEvents + 1])
    <3>1. IsProcess(p)
      BY DEF IsState
    <3> HIDE DEF p
    <3> QED
      BY <3>1 DEF SameBranch, IsProcess, Top
  <2>3. \A j \in DOMAIN us.processes :
          j \in DOMAIN ts.processes /\ SameBranch(ts.processes[j], us.processes[j])
    BY <1>1, <2>1, <2>2
  <2> QED
    BY <2>3 DEF us
<1>3. CASE ~(p.freeEvents + 1 < 2)
  <2>1. us.processes = Without(ts.processes, k)
    BY <1>3 DEF exit_process, IsState
  <2> HIDE DEF us
  <2>2. \A j \in DOMAIN us.processes :
          j \in DOMAIN ts.processes /\ SameBranch(ts.processes[j], us.processes[j])
    BY <1>1, <2>1 DEF Without
  <2> QED
    BY <2>2 DEF us
<1> QED
  BY <1>2, <1>3

\* The end of a process leaves others where they are.
LEMMA EndElse ==
  ASSUME NEW ts, IsState(ts), NEW k \in DOMAIN ts.processes
  PROVE  LET us == exit_process(ts, k) IN IsState(us) /\ SameBranches(ts, us, {k})
<1>1. \A x : SameBranch(x, x)
  BY DEF SameBranch
<1> DEFINE us == exit_process(ts, k)
           p == ts.processes[k]
<1>2. CASE p.freeEvents + 1 < 2
  <2>1. /\ us.processes = [ts.processes EXCEPT ![k] = [p EXCEPT !.freeEvents = p.freeEvents + 1]]
        /\ DOMAIN us = DOMAIN ts
    BY <1>2 DEF exit_process, IsState, IsProcess
  <2>2. IsProcess([p EXCEPT !.freeEvents = p.freeEvents + 1])
    BY DEF IsState, IsProcess
  <2> HIDE DEF us
  <2>3. IsState(us) /\ SameBranches(ts, us, {k})
    BY <1>1, <2>1, <2>2 DEF SameBranches, IsState
  <2> QED
    BY <2>3 DEF us
<1>3. CASE ~(p.freeEvents + 1 < 2)
  <2>1. us.processes = Without(ts.processes, k) /\ DOMAIN us = DOMAIN ts
    BY <1>3 DEF exit_process, IsState
  <2> HIDE DEF us
  <2>2. IsState(us) /\ SameBranches(ts, us, {k})
    BY <1>1, <2>1 DEF SameBranches, IsState, Without
  <2> QED
    BY <2>2 DEF us
<1> QED
  BY <1>2, <1>3

LEMMA ElseTransitive ==
  ASSUME NEW ts, NEW us, NEW ws, NEW K, SameBranches(ts, us, K), SameBranches(us, ws, K)
  PROVE  SameBranches(ts, ws, K)
BY DEF SameBranches, SameBranch

\* A switch leaves the processes where they are that it does not switch.
LEMMA SwitchBranches ==
  ASSUME NEW ts, IsState(ts), RunsKnown(ts), NEW e, e.cpu \in Cpus, NEW K,
         K = {ts.running[e.cpu], InKey(e)}
  PROVE  SameBranches(ts, schedchange(ts, e), K)
<1> DEFINE k == ts.running[e.cpu]
           p == ts.processes[k]
           f == [Top(p) EXCEPT !.t = "SYSCALL", !.s = "WAIT", !.change = e.time, !.entry = e.time]
           idle == WithTop(p, f)
           s == IF Top(p).s = "EXIT" THEN "ZOMBIE" ELSE IF e.stateOut = 0 THEN "WAIT_CPU" ELSE "WAIT"
           q == SetStatus(p, s, e.time)
           out == SetProcess(ts, k, q)
           left == exit_process(out, k)
           dead == SetProcess(left, k, SetStatus(left.processes[k], "DEAD", e.time))
           us == ScheduledOut(ts, e)
<1>1. k \in DOMAIN ts.processes /\ IsProcess(p) /\ Running(ts, e.cpu) = p
  BY DEF IsState, RunsKnown, Running
<1>2. \A xs, ys, j : SameBranches(xs, ys, {j}) /\ j \in K => SameBranches(xs, ys, K)
  BY DEF SameBranches
<1>3. SameBranches(ts, ts, K) /\ k \in K
  BY DEF SameBranches, SameBranch
<1>4. \/ us \in {ts, SetProcess(ts, k, idle), out, left}
      \/ us = dead /\ k \in DOMAIN left.processes
  BY <1>1, Zenon DEF ScheduledOut
<1>5. /\ IsProcess(q)
      /\ IsProcess(idle)
  <2>1. IsFrame(f)
    BY <1>1, FrameLemma DEF IsFrame
  <2> HIDE DEF p, f
  <2>2. IsProcess(idle)
    BY <1>1, <2>1, StackLemma DEF SameLife
  <2>3. IsProcess(q)
    BY <1>1, StackLemma DEF SameLife
  <2> QED
    BY <2>2, <2>3
<1> HIDE DEF p, f, idle, s, q
<1>6. /\ IsState(out) /\ k \in DOMAIN out.processes /\ IsState(SetProcess(ts, k, idle))
      /\ SameBranches(ts, out, K) /\ SameBranches(ts, SetProcess(ts, k, idle), K)
  BY <1>1, <1>2, <1>3, <1>5, SetKnown, BranchWritten
<1> HIDE DEF out, idle
<1>7. IsState(left) /\ SameBranches(ts, left, K)
  <2>1. IsState(left) /\ SameBranches(out, left, {k})
    BY <1>6, EndElse
  <2> HIDE DEF left
  <2> QED
    BY <2>1, <1>2, <1>3, <1>6, ElseTransitive
<1> HIDE DEF left
<1>8. ASSUME k \in DOMAIN left.processes
      PROVE  IsState(dead) /\ SameBranches(ts, dead, K)
  <2>1. IsProcess(SetStatus(left.processes[k], "DEAD", e.time))
    BY <1>7, <1>8, StackLemma DEF IsState, SameLife
  <2>2. IsState(dead) /\ SameBranches(left, dead, {k})
    BY <1>7, <1>8, <2>1, SetKnown, BranchWritten
  <2> HIDE DEF dead
  <2> QED
    BY <2>2, <1>2, <1>3, <1>7, ElseTransitive
<1> HIDE DEF dead
<1>9. IsState(us) /\ SameBranches(ts, us, K)
  BY <1>3, <1>4, <1>6, <1>7, <1>8
<1> HIDE DEF us
<1> DEFINE x == InKey(e)
           found == find_process_or_create(us, e.cpu, e.pidIn, e.time)
           r == SetStatus(found.processes[x], "RUN", e.time)
           ws == SetProcess(found, x, [r EXCEPT !.cpu = e.cpu])
<1>10. IsState(found) /\ \A j \in DOMAIN us.processes :
          j \in DOMAIN found.processes /\ found.processes[j] = us.processes[j]
  BY <1>9, CreateLemma
<1>11. schedchange(ts, e) = [ws EXCEPT !.running[e.cpu] = x,
                                       !.cpus[e.cpu].modes = SwitchedModes(e.pidIn, r)]
  BY Zenon DEF schedchange, ws, r, found, us, x
<1> HIDE DEF found, r
<1>12. SameBranches(found, ws, {x}) /\ x \in K
  BY <1>10, BranchWritten
<1>13. schedchange(ts, e).processes = ws.processes
  <2>1. DOMAIN ws = DOMAIN found
    BY DEF SetProcess
  <2> HIDE DEF ws, x
  <2> QED
    BY <1>10, <1>11, <2>1 DEF IsState
<1> HIDE DEF ws, x
<1>14. SameBranches(us, ws, {x})
  BY <1>10, <1>12 DEF SameBranches
<1>15. SameBranches(ts, ws, K)
  BY <1>2, <1>9, <1>12, <1>14, ElseTransitive
<1> QED
  BY <1>13, <1>15 DEF SameBranches

-----------------------------------------------------------------------------
(* The branches that the statistics keep.                                  *)

KeepsBranches(w) == IsComputed(w) /\ DOMAIN w.st = {"branch", "tree"} /\ DOMAIN w.st.branch = Cpus

\* The events after whose hooks the branch of a processor is found again.
FoundAgain(e, c) ==
  \/ e.kind \in Entries \cup Exits \cup {"process_exit", "schedchange"} /\ c = e.cpu
  \/ e.kind \in {"enum_process_state", "statedump_end"}

LEMMA CountedBranches ==
  ASSUME NEW w, KeepsBranches(w), IsState(w.ts), RunsKnown(w.ts), NEW e, e.cpu \in Cpus
  PROVE  /\ KeepsBranches(BeforeState(w, e)) /\ BeforeState(w, e).st.branch = w.st.branch
         /\ KeepsBranches(AfterState(w, e))
         /\ \A c \in Cpus : AfterState(w, e).st.branch[c] =
                             IF FoundAgain(e, c) THEN BranchOf(w.ts, c) ELSE w.st.branch[c]
<1>1. /\ KeepsBranches(mode_change(w, e)) /\ mode_change(w, e).st.branch = w.st.branch
      /\ KeepsBranches(mode_end(w, e)) /\ mode_end(w, e).st.branch = w.st.branch
  BY DEF KeepsBranches, IsComputed, mode_change, mode_end
<1> DEFINE u == update_event_tree(w, e.cpu)
<1>2. /\ KeepsBranches(u) /\ u.ts = w.ts
      /\ \A c \in Cpus : u.st.branch[c] = IF c = e.cpu THEN BranchOf(w.ts, c) ELSE w.st.branch[c]
  BY DEF KeepsBranches, IsComputed, update_event_tree
<1>3. /\ KeepsBranches(update_trace_event_tree(w))
      /\ \A c \in Cpus : update_trace_event_tree(w).st.branch[c] = BranchOf(w.ts, c)
  BY DEF KeepsBranches, IsComputed, update_trace_event_tree
<1> HIDE DEF u
<1>4. KeepsBranches(mode_change(u, e)) /\ mode_change(u, e).st.branch = u.st.branch
  BY <1>2 DEF KeepsBranches, IsComputed, mode_change
<1>5. BeforeState(w, e) \in {w, mode_change(w, e), mode_end(w, e)}
  BY DEF BeforeState
<1>6. CASE e.kind \in Entries \cup Exits \cup {"process_exit"}
  <2>1. AfterState(w, e) = u /\ \A c : FoundAgain(e, c) <=> c = e.cpu
    BY <1>6 DEF AfterState, after_mode_end, u, FoundAgain, Entries, Exits
  <2> QED
    BY <1>1, <1>2, <1>5, <2>1
<1>7. CASE e.kind = "schedchange"
  <2>1. AfterState(w, e) = mode_change(u, e) /\ \A c : FoundAgain(e, c) <=> c = e.cpu
    BY <1>7 DEF AfterState, u, FoundAgain, Entries, Exits
  <2> QED
    BY <1>1, <1>2, <1>4, <1>5, <2>1
<1>8. CASE e.kind \in {"enum_process_state", "statedump_end"}
  <2>1. AfterState(w, e) = update_trace_event_tree(w) /\ \A c : FoundAgain(e, c)
    BY <1>8 DEF AfterState, FoundAgain, Entries, Exits
  <2> QED
    BY <1>1, <1>3, <1>5, <2>1
<1>9. CASE e.kind \notin Entries \cup Exits \cup
                         {"process_exit", "schedchange", "enum_process_state", "statedump_end"}
  <2>1. AfterState(w, e) = w /\ \A c : ~FoundAgain(e, c)
    BY <1>9 DEF AfterState, FoundAgain
  <2> QED
    BY <1>1, <1>5, <2>1
<1> QED
  BY <1>6, <1>7, <1>8, <1>9

\* Around a hook of the state, a branch is found again or left as it is.
LEMMA ProcessBranches ==
  ASSUME Counting, NEW w, KeepsBranches(w), IsState(w.ts), RunsKnown(w.ts),
         NEW e, e.cpu \in Cpus,
         \A ts : Recounts(w.ts, ts) => IsState(Hook(ts, e)) /\ RunsKnown(Hook(ts, e))
  PROVE  LET x == Process(w, e) IN
         /\ KeepsBranches(x)
         /\ \E ts : /\ Recounts(w.ts, ts) /\ Recounts(Hook(ts, e), x.ts)
                   /\ \A c \in Cpus :
                        x.st.branch[c] = IF FoundAgain(e, c) THEN BranchOf(Hook(ts, e), c)
                                         ELSE w.st.branch[c]
<1> DEFINE before == BeforeState(w, e)
           hooked == [before EXCEPT !.ts = Hook(@, e)]
           after == AfterState(hooked, e)
           x == Process(w, e)
<1>1. Recounts(w.ts, before.ts) /\ KeepsBranches(before) /\ before.st.branch = w.st.branch
  BY CountedLemma, CountedBranches DEF KeepsBranches
<1> HIDE DEF before
<1> DEFINE ts == before.ts
<1>2. hooked.ts = Hook(ts, e) /\ KeepsBranches(hooked) /\ hooked.st = before.st
  BY <1>1 DEF KeepsBranches, IsComputed
<1>3. IsState(Hook(ts, e)) /\ RunsKnown(Hook(ts, e))
  BY <1>1
<1> HIDE DEF ts, hooked
<1>4. /\ Recounts(hooked.ts, after.ts) /\ KeepsBranches(after)
      /\ \A c \in Cpus : after.st.branch[c] =
                          IF FoundAgain(e, c) THEN BranchOf(hooked.ts, c) ELSE hooked.st.branch[c]
  BY <1>2, <1>3, CountedLemma, CountedBranches DEF KeepsBranches
<1>5. x = every_event(after, e)
  BY DEF Process, before, hooked
<1> HIDE DEF after, x
<1>6. KeepsBranches(x) /\ x.ts = after.ts /\ x.st.branch = after.st.branch
  BY <1>4, <1>5 DEF every_event, KeepsBranches, IsComputed
<1>7. KeepsBranches(x) /\ Recounts(w.ts, ts) /\ Recounts(Hook(ts, e), x.ts)
      /\ \A c \in Cpus : x.st.branch[c] = IF FoundAgain(e, c) THEN BranchOf(Hook(ts, e), c)
                                          ELSE w.st.branch[c]
  BY <1>1, <1>2, <1>4, <1>6 DEF ts
<1> QED
  BY <1>7 DEF x

\* Without the hooks of the statistics, the branches are those they start with.
BranchInv ==
  /\ KeepsBranches(v)
  /\ BranchIsCurrent
  /\ ~Counting => \A c \in Cpus : v.st.branch[c] = UnknownBranch(c)

LEMMA BranchUncounted ==
  ASSUME ~Counting, BranchInv, NEW e, v' = Process(v, e)
  PROVE  BranchInv'
<1>1. v' = [v EXCEPT !.ts = Hook(@, e)]
  BY DEF Process
<1>2. KeepsBranches(v)' /\ v'.st = v.st
  BY <1>1 DEF BranchInv, KeepsBranches, IsComputed
<1> QED
  BY <1>2 DEF BranchInv, BranchIsCurrent

\* A hook that leaves the branches where they are that are not found again.
LEMMA BranchHook ==
  ASSUME RunInv, BranchInv, RunInv', NEW e, e.cpu \in Cpus, v' = Process(v, e), Hooked(v, e, v'),
         \A ts, us : /\ IsState(ts) /\ RunsKnown(ts) /\ ts.running = TakenToRun
                    /\ us = Hook(ts, e) /\ IsState(us) /\ RunsKnown(us)
                    /\ us.running = v'.ts.running
                    => \A c \in Cpus : FoundAgain(e, c) \/ BranchOf(us, c) = BranchOf(ts, c)
  PROVE  BranchInv'
<1>1. Tracks(v.ts, TakenToRun, HalfEnded) /\ IsState(v.ts) /\ RunsKnown(v.ts)
  BY TracksRuns DEF RunInv
<1>2. CASE ~Counting
  BY <1>2, BranchUncounted
<1>3. CASE Counting
  <2> DEFINE x == Process(v, e)
  <2>1. /\ KeepsBranches(x)
        /\ \E ts : /\ Recounts(v.ts, ts) /\ Recounts(Hook(ts, e), x.ts)
                  /\ \A c \in Cpus :
                       x.st.branch[c] = IF FoundAgain(e, c) THEN BranchOf(Hook(ts, e), c)
                                        ELSE v.st.branch[c]
    BY <1>1, <1>3, ProcessBranches DEF BranchInv, Hooked
  <2>2. v' = x
    OBVIOUS
  <2> HIDE DEF x
  <2>3. PICK ts : /\ Recounts(v.ts, ts) /\ Recounts(Hook(ts, e), x.ts)
                  /\ \A c \in Cpus :
                       x.st.branch[c] = IF FoundAgain(e, c) THEN BranchOf(Hook(ts, e), c)
                                        ELSE v.st.branch[c]
    BY <2>1
  <2> DEFINE us == Hook(ts, e)
  <2>4. IsState(us) /\ RunsKnown(us)
    BY <2>3 DEF Hooked
  <2>5. Tracks(ts, TakenToRun, HalfEnded)
    BY <1>1, <2>3, RecountsKeeps, KeepsTracks
  <2>6. IsState(ts) /\ RunsKnown(ts) /\ ts.running = TakenToRun
    BY <2>5, TracksRuns DEF Tracks
  <2>7. us.running = x.ts.running
    BY <2>3, <2>4 DEF Recounts, IsState
  <2>8. \A c \in Cpus : FoundAgain(e, c) \/ BranchOf(us, c) = BranchOf(ts, c)
    BY <2>2, <2>4, <2>6, <2>7
  <2>9. ASSUME NEW c \in Cpus
        PROVE  x.st.branch[c] \in {UnknownBranch(c), BranchOf(x.ts, c)}
    <3>1. BranchOf(x.ts, c) = BranchOf(us, c)
      BY <2>3, <2>4, BranchRecounted
    <3>2. BranchOf(ts, c) = BranchOf(v.ts, c)
      BY <1>1, <2>3, BranchRecounted
    <3>3. CASE FoundAgain(e, c)
      BY <3>1, <3>3, <2>3
    <3>4. CASE ~FoundAgain(e, c)
      BY <3>1, <3>2, <3>4, <2>3, <2>8 DEF BranchInv, BranchIsCurrent
    <3> QED
      BY <3>3, <3>4
  <2> QED
    BY <1>3, <2>1, <2>2, <2>9 DEF BranchInv, BranchIsCurrent
<1> QED
  BY <1>2, <1>3

\* No two processors are taken to run the same process.
TakenApart == \A a, b \in Cpus : TakenToRun[a] = TakenToRun[b] => a = b

LEMMA TakenOnce ==
  Kernel => TakenApart
<1> SUFFICES ASSUME Kernel, NEW c \in Cpus, NEW d \in Cpus, TakenToRun[c] = TakenToRun[d]
             PROVE  c = d
  BY DEF TakenApart
<1> DEFINE a == IF c \in synced THEN current[c] ELSE 0
           b == IF d \in synced THEN current[d] ELSE 0
<1>1. /\ TakenToRun[c] = Key(c, a) /\ TakenToRun[d] = Key(d, b)
      /\ a \in {0} \cup Pids /\ b \in {0} \cup Pids
      /\ a = b /\ a # 0 => c = d
  BY DEF TakenToRun, CurrentKey, Kernel
<1> HIDE DEF a, b
<1>2. CASE a = 0 /\ b = 0
  <2>1. Key(c, 0) = Key(d, 0)
    BY <1>1, <1>2
  <2>2. Key(c, 0) = <<0, c>> /\ Key(d, 0) = <<0, d>>
    BY DEF Key
  <2> QED
    BY <2>1, <2>2
<1>3. CASE a # 0 /\ b # 0
  <2>1. a \in Pids /\ b \in Pids
    BY <1>1, <1>3
  <2>2. Key(0, a) = Key(0, b)
    <3>1. Key(c, a) = Key(0, a) /\ Key(d, b) = Key(0, b)
      BY <2>1, Keys
    <3> QED
      BY <3>1, <1>1
  <2>3. a = b
    BY <2>1, <2>2, Keys
  <2> QED
    BY <1>1, <1>3, <2>3
<1>4. CASE a = 0 /\ b # 0
  <2>1. b \in Pids /\ Key(d, b) = Key(0, b)
    BY <1>1, <1>4, Keys
  <2>2. Key(c, 0) = Key(0, b)
    BY <1>1, <1>4, <2>1
  <2> QED
    BY <2>1, <2>2, Keys
<1>5. CASE a # 0 /\ b = 0
  <2>1. a \in Pids /\ Key(c, a) = Key(0, a)
    BY <1>1, <1>5, Keys
  <2>2. Key(d, 0) = Key(0, a)
    BY <1>1, <1>5, <2>1
  <2> QED
    BY <2>1, <2>2, Keys
<1> QED
  BY <1>2, <1>3, <1>4, <1>5

LEMMA NotTaken ==
  ASSUME Kernel, NEW p \in Pids, status[p] # "run", NEW c \in Cpus
  PROVE  TakenToRun[c] # Key(0, p)
<1>1. TakenToRun[c] = Key(c, current[c]) \/ TakenToRun[c] = Key(c, 0)
  BY DEF TakenToRun, CurrentKey
<1>2. current[c] \in {0} \cup Pids
  BY DEF Kernel
<1>3. current[c] # p
  <2>1. p # 0
    BY StateTraceAssumption
  <2> QED
    BY <2>1 DEF Kernel
<1>4. Key(c, 0) # Key(0, p)
  BY Keys
<1>5. current[c] # 0 => Key(c, current[c]) # Key(0, p)
  BY <1>2, <1>3, Keys
<1> QED
  BY <1>1, <1>2, <1>4, <1>5

\* The steps that keep the branches or find them again.
LEMMA BranchQuiet ==
  ASSUME RunInv, IsComputed(v), BranchInv, NEW e, e.cpu \in Cpus, Read(e),
         UNCHANGED <<current, status, ending, synced>>,
         e.kind \in {"soft_irq_raise", "enum_interrupt", "dump_softirq", "bdev_request_issue",
                     "bdev_request_complete", "process_exec", "thread_brand", "fs_open",
                     "statedump_end", "enum_process_state"} \cup Entries \cup Exits
  PROVE  BranchInv'
<1>1. v' = Process(v, e)
  BY DEF Read
<1>2. e.kind \in QuietKinds \cup {"enum_process_state"}
  BY DEF QuietKinds, Entries, Exits
<1>3. RunInv' /\ Hooked(v, e, v')
  BY <1>1, <1>2, QuietStep
<1>4. v'.ts.running = TakenToRun
  BY <1>3 DEF RunInv, Tracks, TakenToRun, CurrentKey
<1>5. ASSUME NEW ts, NEW us, IsState(ts), RunsKnown(ts), ts.running = TakenToRun,
             us = Hook(ts, e), us.running = v'.ts.running, NEW c \in Cpus
      PROVE  FoundAgain(e, c) \/ BranchOf(us, c) = BranchOf(ts, c)
  <2>1. ts.running[c] \in DOMAIN ts.processes /\ us.running[c] = ts.running[c]
    BY <1>4, <1>5 DEF RunsKnown
  <2>2. CASE e.kind \in {"soft_irq_raise", "enum_interrupt", "dump_softirq", "bdev_request_issue",
                         "bdev_request_complete", "process_exec", "thread_brand", "fs_open"}
    <3>1. SameBranches(ts, us, {})
      BY <1>5, <2>2, QuietBranches
    <3> QED
      BY <2>1, <3>1, BranchSame
  <2>3. CASE e.kind \in Entries \cup Exits
    <3>1. SameBranches(ts, us, {ts.running[e.cpu]})
      BY <1>5, <2>3, RunningBranches
    <3>2. CASE c = e.cpu
      BY <2>3, <3>2 DEF FoundAgain
    <3>3. CASE c # e.cpu
      <4>1. ts.running[c] # ts.running[e.cpu]
        BY <1>5, <3>3, TakenOnce DEF RunInv, TakenApart
      <4> QED
        BY <2>1, <3>1, <4>1, BranchSame
    <3> QED
      BY <3>2, <3>3
  <2>4. CASE e.kind \in {"statedump_end", "enum_process_state"}
    BY <2>4 DEF FoundAgain
  <2> QED
    BY <2>2, <2>3, <2>4
<1> QED
  BY <1>1, <1>3, <1>5, BranchHook

LEMMA BranchExit ==
  ASSUME RunInv, IsComputed(v), BranchInv, NEW c \in Cpus, Exit(c)
  PROVE  BranchInv'
<1> DEFINE e == [kind |-> "process_exit", cpu |-> c, time |-> clock + Ticks, pid |-> current[c]]
<1>1. v' = Process(v, e) /\ e.cpu = c /\ e.kind = "process_exit" /\ UNCHANGED <<current, synced>>
  BY DEF Exit, Read
<1>2. RunInv' /\ Hooked(v, e, v')
  BY ExitStep
<1> HIDE DEF e
<1>3. v'.ts.running = TakenToRun
  BY <1>1, <1>2 DEF RunInv, Tracks, TakenToRun, CurrentKey
<1>4. ASSUME NEW ts, NEW us, IsState(ts), RunsKnown(ts), ts.running = TakenToRun,
             us = Hook(ts, e), us.running = v'.ts.running, NEW d \in Cpus
      PROVE  BranchOf(us, d) = BranchOf(ts, d)
  <2>1. ts.running[d] \in DOMAIN ts.processes /\ us.running[d] = ts.running[d]
    BY <1>3, <1>4 DEF RunsKnown
  <2>2. SameBranches(ts, us, {})
    BY <1>1, <1>4, QuietBranches
  <2> QED
    BY <2>1, <2>2, BranchSame
<1> QED
  BY <1>1, <1>2, <1>4, BranchHook

\* The process is one that no processor is taken to run.
LEMMA BranchBirth ==
  ASSUME RunInv, BranchInv, NEW c \in Cpus, NEW p \in Pids, status[p] # "run",
         UNCHANGED <<current, synced>>, NEW e, e.cpu = c, v' = Process(v, e),
         RunInv', Hooked(v, e, v'),
         \/ e.kind = "sched_try_wakeup" /\ Key(0, p) = Key(e.wokenCpu, e.pid)
         \/ /\ e.kind \in {"process_fork", "process_kernel_thread"}
            /\ Key(0, p) = Key(e.cpu, e.pid)
  PROVE  BranchInv'
<1>1. v'.ts.running = TakenToRun
  BY DEF RunInv, Tracks, TakenToRun, CurrentKey
<1>2. ASSUME NEW ts, NEW us, IsState(ts), RunsKnown(ts), ts.running = TakenToRun,
             us = Hook(ts, e), us.running = v'.ts.running, NEW d \in Cpus
      PROVE  BranchOf(us, d) = BranchOf(ts, d)
  <2>1. ts.running[d] \in DOMAIN ts.processes /\ us.running[d] = ts.running[d]
    BY <1>1, <1>2 DEF RunsKnown
  <2>2. SameBranches(ts, us, {Key(0, p)})
    BY <1>2, BirthBranches
  <2>3. ts.running[d] # Key(0, p)
    BY <1>2, NotTaken DEF RunInv
  <2> QED
    BY <2>1, <2>2, <2>3, BranchSame
<1> QED
  BY <1>2, BranchHook

LEMMA BranchFree ==
  ASSUME RunInv, IsComputed(v), BranchInv, NEW c \in Cpus, NEW p \in Pids, Free(c, p)
  PROVE  BranchInv'
<1> DEFINE e == [kind |-> "process_free", cpu |-> c, time |-> clock + Ticks, pid |-> p]
<1>1. v' = Process(v, e) /\ e.cpu = c /\ e.kind = "process_free" /\ UNCHANGED <<current, synced>>
  BY DEF Free, Read
<1>2. RunInv' /\ Hooked(v, e, v')
  BY FreeStep
<1> HIDE DEF e
<1>3. v'.ts.running = TakenToRun
  BY <1>1, <1>2 DEF RunInv, Tracks, TakenToRun, CurrentKey
<1>4. ASSUME NEW ts, NEW us, IsState(ts), RunsKnown(ts), ts.running = TakenToRun,
             us = Hook(ts, e), RunsKnown(us), us.running = v'.ts.running, NEW d \in Cpus
      PROVE  BranchOf(us, d) = BranchOf(ts, d)
  <2> DEFINE k == ts.running[d]
  <2>1. us.running[d] = k /\ k \in DOMAIN us.processes
    BY <1>3, <1>4 DEF RunsKnown
  <2>2. us = process_free(ts, e)
    BY <1>1, <1>4 DEF Hook
  <2>3. CASE ~Known(ts, e.cpu, e.pid)
    BY <2>2, <2>3 DEF process_free
  <2>4. CASE Known(ts, e.cpu, e.pid)
    <3>1. us = exit_process(ts, Key(e.cpu, e.pid)) /\ Key(e.cpu, e.pid) \in DOMAIN ts.processes
      BY <2>2, <2>4 DEF process_free, Known
    <3>2. SameBranch(ts.processes[k], us.processes[k])
      BY <1>4, <2>1, <3>1, EndBranches
    <3> QED
      BY <2>1, <3>2 DEF SameBranch, BranchOf, Running
  <2> QED
    BY <2>3, <2>4
<1> QED
  BY <1>1, <1>2, <1>4, BranchHook

LEMMA BranchSwitch ==
  ASSUME RunInv, IsComputed(v), BranchInv, NEW c \in Cpus, NEW in \in {0} \cup Pids,
         NEW stateOut \in {0, 1, 64}, SchedChange(c, in, stateOut)
  PROVE  BranchInv'
<1> DEFINE e == [kind |-> "schedchange", cpu |-> c, time |-> clock + Ticks,
                 pidOut |-> current[c], pidIn |-> in, stateOut |-> stateOut]
<1>1. /\ v' = Process(v, e) /\ e.cpu = c /\ e.kind = "schedchange" /\ e.pidIn = in
      /\ current' = [current EXCEPT ![c] = in] /\ synced' = synced \cup {c}
  BY DEF SchedChange, Read
<1>2. RunInv' /\ Hooked(v, e, v')
  <2>1. e = [kind |-> "schedchange", cpu |-> c, time |-> clock + Ticks,
             pidOut |-> current[c], pidIn |-> in, stateOut |-> stateOut]
    OBVIOUS
  <2> HIDE DEF e
  <2> QED
    BY <2>1, SwitchStep
<1> HIDE DEF e
<1>3. /\ v'.ts.running = TakenToRun' /\ Kernel'
      /\ TakenToRun'[c] = InKey(e)
      /\ \A d \in Cpus : d # c => TakenToRun'[d] = TakenToRun[d]
  BY <1>1, <1>2 DEF RunInv, Kernel, Tracks, TakenToRun, CurrentKey, InKey
<1>4. ASSUME NEW d \in Cpus, d # c
      PROVE  TakenToRun'[d] # TakenToRun'[c] /\ TakenToRun[d] # TakenToRun[c]
  <2>1. TakenToRun[d] # TakenToRun[c]
    BY <1>4, TakenOnce DEF RunInv, TakenApart
  <2>2. TakenApart'
    <3>1. (Kernel => TakenApart)'
      BY TakenOnce, PTL
    <3> QED
      BY <1>3, <3>1
  <2> QED
    BY <1>4, <2>1, <2>2 DEF TakenApart
<1>5. ASSUME NEW ts, NEW us, IsState(ts), RunsKnown(ts), ts.running = TakenToRun,
             us = Hook(ts, e), us.running = v'.ts.running, NEW d \in Cpus
      PROVE  FoundAgain(e, d) \/ BranchOf(us, d) = BranchOf(ts, d)
  <2>1. CASE d = c
    BY <1>1, <2>1 DEF FoundAgain
  <2>2. CASE d # c
    <3>1. ts.running[d] \in DOMAIN ts.processes /\ us.running[d] = ts.running[d]
      BY <1>3, <1>5, <2>2 DEF RunsKnown
    <3>2. us = schedchange(ts, e)
      BY <1>1, <1>5 DEF Hook
    <3>3. SameBranches(ts, us, {ts.running[e.cpu], InKey(e)})
      BY <1>1, <1>5, <3>2, SwitchBranches
    <3>4. ts.running[d] \notin {ts.running[e.cpu], InKey(e)}
      BY <1>1, <1>3, <1>4, <1>5, <2>2
    <3> QED
      BY <3>1, <3>3, <3>4, BranchSame
  <2> QED
    BY <2>1, <2>2
<1> QED
  BY <1>1, <1>2, <1>5, BranchHook

LEMMA BranchInit ==
  ASSUME Init
  PROVE  BranchInv
BY DEF Init, InitialStatistics, BranchInv, BranchIsCurrent, KeepsBranches, IsComputed

\* The statistics have no hooks for page faults, which are traps to the state.
Faults == {"page_fault_entry", "page_fault_exit"}

LEMMA BranchStep ==
  ASSUME Counting => Faults \cap Kinds = {}, RunInv, IsComputed(v), BranchInv, Next \/ Described
  PROVE  BranchInv'
<1> DEFINE Quiet == {"soft_irq_raise", "enum_interrupt", "dump_softirq", "bdev_request_issue",
                     "bdev_request_complete", "process_exec", "thread_brand", "fs_open",
                     "statedump_end", "enum_process_state"} \cup Entries \cup Exits
           Still == UNCHANGED <<current, status, ending, synced>>
<1>1. ASSUME NEW e, e.cpu \in Cpus, Read(e), Still, e.kind \in Quiet
      PROVE  BranchInv'
  BY <1>1, BranchQuiet
<1>2. ASSUME NEW e, e.kind \in Faults, Read(e)
      PROVE  BranchInv'
  <2>1. ~Counting /\ v' = Process(v, e)
    BY <1>2 DEF Read
  <2> QED
    BY <2>1, BranchUncounted
<1>3. ASSUME NEW c \in Cpus,
             \/ SyscallExit(c) \/ IrqExit(c) \/ SoftIrqExit(c)
             \/ \E kind \in {"trap_exit", "page_fault_exit"} : TrapExit(c, kind)
      PROVE  BranchInv'
  <2>1. ASSUME NEW e, e.cpu = c, Read(e), NEW m, Pop(c, m),
               e.kind \in {"syscall_exit", "irq_exit", "soft_irq_exit", "trap_exit"} \cup Faults
        PROVE  BranchInv'
    BY <1>1, <1>2, <2>1 DEF Pop, Exits
  <2> QED
    BY <1>3, <2>1 DEF SyscallExit, IrqExit, SoftIrqExit, TrapExit, Event, Faults
<1>4. ASSUME NEW c \in Cpus, NEW id \in Ids,
             \/ SyscallEntry(c, id) \/ IrqEntry(c, id) \/ SoftIrqEntry(c, id)
             \/ \E kind \in {"trap_entry", "page_fault_entry"} : TrapEntry(c, id, kind)
      PROVE  BranchInv'
  <2>1. ASSUME NEW e, e.cpu = c, Read(e), NEW m, Push(c, m),
               e.kind \in {"syscall_entry", "irq_entry", "soft_irq_entry", "trap_entry"} \cup Faults
        PROVE  BranchInv'
    BY <1>1, <1>2, <2>1 DEF Push, Entries
  <2>2. CASE SyscallEntry(c, id)
    BY <2>1, <2>2 DEF SyscallEntry, EventId
  <2>3. CASE IrqEntry(c, id)
    BY <2>1, <2>3 DEF IrqEntry, EventId
  <2>4. CASE SoftIrqEntry(c, id)
    BY <2>1, <2>4 DEF SoftIrqEntry, EventId
  <2>5. ASSUME NEW kind \in {"trap_entry", "page_fault_entry"}, TrapEntry(c, id, kind)
        PROVE  BranchInv'
    BY <2>1, <2>5 DEF TrapEntry, EventId, Faults
  <2> QED
    BY <1>4, <2>2, <2>3, <2>4, <2>5
<1>5. ASSUME NEW c \in Cpus, NEW in \in {0} \cup Pids, NEW stateOut \in {0, 1, 64},
             SchedChange(c, in, stateOut)
      PROVE  BranchInv'
  BY <1>5, BranchSwitch
<1>6. ASSUME NEW c \in Cpus, NEW p \in Pids, Wakeup(c, p)
      PROVE  BranchInv'
  <2> DEFINE e == [kind |-> "sched_try_wakeup", cpu |-> c, time |-> clock + Ticks,
                   pid |-> p, wokenCpu |-> c]
  <2>1. RunInv' /\ Hooked(v, e, v') /\ v' = Process(v, e) /\ status[p] # "run"
        /\ UNCHANGED <<current, synced>>
    BY <1>6, WakeupStep DEF Wakeup, Read
  <2>2. e.cpu = c /\ e.kind = "sched_try_wakeup" /\ Key(0, p) = Key(e.wokenCpu, e.pid)
    BY Keys
  <2> HIDE DEF e
  <2> QED
    BY <2>1, <2>2, BranchBirth
<1>7. ASSUME NEW c \in Cpus, NEW p \in Pids, KernelThread(c, p)
      PROVE  BranchInv'
  <2> DEFINE e == [kind |-> "process_kernel_thread", cpu |-> c, time |-> clock + Ticks, pid |-> p]
  <2>1. RunInv' /\ Hooked(v, e, v') /\ v' = Process(v, e) /\ status[p] # "run"
        /\ UNCHANGED <<current, synced>>
    BY <1>7, ThreadStep DEF KernelThread, Read
  <2>2. e.cpu = c /\ e.kind = "process_kernel_thread" /\ Key(0, p) = Key(e.cpu, e.pid)
    BY Keys
  <2> HIDE DEF e
  <2> QED
    BY <2>1, <2>2, BranchBirth
<1>8. ASSUME NEW c \in Cpus, NEW p \in Pids, NEW thread \in BOOLEAN, Fork(c, p, thread)
      PROVE  BranchInv'
  <2> DEFINE e == [kind |-> "process_fork", cpu |-> c, time |-> clock + Ticks, pid |-> p]
  <2>1. RunInv' /\ Hooked(v, e, v') /\ v' = Process(v, e) /\ status[p] # "run"
        /\ UNCHANGED <<current, synced>>
    BY <1>8, ForkStep DEF Fork, Read
  <2>2. e.cpu = c /\ e.kind = "process_fork" /\ Key(0, p) = Key(e.cpu, e.pid)
    BY Keys
  <2> HIDE DEF e
  <2> QED
    BY <2>1, <2>2, BranchBirth
<1>9. ASSUME NEW c \in Cpus,
             \/ StatedumpEnd(c) \/ Exec(c) \/ Brand(c)
             \/ \E id \in Ids :
                  \/ SoftIrqRaise(c, id) \/ ListInterrupt(c, id) \/ ListSoftIrq(c, id)
                  \/ Open(c, id) \/ Call(c, id) \/ Return(c, id)
                  \/ \E oper \in {"BUSY_READING", "BUSY_WRITING"} : Request(c, id, oper)
                  \/ RequestDone(c, id)
             \/ \E p \in {0} \cup Pids : ProcessState(c, p)
      PROVE  BranchInv'
  <2>1. ASSUME NEW e, e.cpu = c, Read(e), Tell, e.kind \in Quiet
        PROVE  BranchInv'
    BY <1>1, <2>1 DEF Tell
  <2> QED
    BY <1>9, <2>1 DEF StatedumpEnd, Exec, Brand, SoftIrqRaise, ListInterrupt, ListSoftIrq, Open, Call,
                      Return, Request, RequestDone, ProcessState, Event, EventId, Entries, Exits
<1>10. ASSUME NEW c \in Cpus, NEW p \in Pids,
             \/ Wakeup(c, p) \/ KernelThread(c, p) \/ Free(c, p)
             \/ \E thread \in BOOLEAN : Fork(c, p, thread)
      PROVE  BranchInv'
  BY <1>6, <1>7, <1>8, <1>10, BranchFree
<1>11. ASSUME NEW c \in Cpus, Exit(c)
       PROVE  BranchInv'
  BY <1>11, BranchExit
<1> HIDE DEF Quiet, Still
<1> QED
  BY <1>3, <1>4, <1>5, <1>9, <1>10, <1>11, Zenon DEF Next, Described

\* While no page faults are traced, whose hooks the statistics lack, the branch
\* that a processor's events and times are counted in is the one its running
\* process is in (BranchIsCurrent): of the hooks of state.c, those that move a
\* running process to another branch are followed by one of stats.c that finds
\* its branch again, and no process that another processor runs is moved.
THEOREM BranchesAreCurrent ==
  ASSUME Counting => Faults \cap Kinds = {}
  PROVE  Traced => []BranchIsCurrent
<1> DEFINE I == RunInv /\ IsComputed(v) /\ BranchInv
<1>1. Init => I
  BY RunInit, BranchInit
<1>2. I /\ [Next \/ Described]_vars => I'
  <2>1. ASSUME I, Next \/ Described
        PROVE  I'
    BY <2>1, RunStep, BranchStep
  <2>2. ASSUME I, UNCHANGED vars
        PROVE  I'
    BY <2>2 DEF vars, RunInv, IsComputed, BranchInv, BranchIsCurrent, KeepsBranches, Kernel,
                TakenToRun, HalfEnded, Ended, CurrentKey
  <2> QED
    BY <2>1, <2>2
<1>3. I => BranchIsCurrent
  BY DEF BranchInv
<1> HIDE DEF I
<1> QED
  BY <1>1, <1>2, <1>3, PTL DEF Traced
=============================================================================
