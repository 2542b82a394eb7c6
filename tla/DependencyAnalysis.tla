------------------------- MODULE DependencyAnalysis -------------------------
(***************************************************************************)
(* The dependency analysis (modules/text/depanalysis.c): what every        *)
(* process did, in terms of running, being interrupted and being blocked,  *)
(* what it was blocked in and who woke it.  Low-level states are pushed    *)
(* and popped by events, through a delayed stack (DelayStack) of every     *)
(* process, and the high-level state follows from the one on top.          *)
(*                                                                         *)
(* The hook of the analysis runs after those of the state (StateTrace).    *)
(* Names of processes and files are left out.                              *)
(***************************************************************************)
EXTENDS StateTrace, DelayStack, SequencesExt

CONSTANTS DumpWithin,  \* bound: the dump of the kernel's state ends by that time
          Time1, Time2 \* --dep-time-start, --dep-time-end

ASSUME DependencyAssumption == DumpWithin \in Nat /\ Time1 \in Nat /\ Time2 \in Nat

VARIABLES d,       \* the analysis: its processes by pid, and what is global
          report,  \* what is printed at the end of the trace
          calls,   \* the file operation of every system call of the processes
          reason,  \* why a process does not run: fork, preempted, waiting, woken
          truth    \* what the processes did that were born in the trace (history)

depVars == <<d, report, calls, reason, truth>>

PROCESS_STATE_STACK_SIZE == 10
UnknownParent == -1
PostBlock == -1
UserSpace == -1
Undefined == "UNDEFINED"
NobodyYet == [pid |-> Garbage, time |-> Garbage]

differentiate_swappers(pid, cpu) == IF pid = 0 THEN cpu + 2000000 ELSE pid

(* -------------------------- low-level states ---------------------------- *)

State(b, n, begin) == [b |-> b, n |-> n, sub |-> Undefined, begin |-> begin, end |-> Garbage]

High(b, begin) ==
  [b |-> b, begin |-> begin, end |-> Garbage, n |-> Garbage, trap |-> FALSE, sub |-> Undefined,
   woken |-> NobodyYet]

NewInfo(time) ==
  [parent |-> UnknownParent, stack |-> sstack_new, llev |-> << >>,
   overflow |-> FALSE, hlev |-> High("UNKNOWN", time), history |-> << >>]

Positions(p, b) == {i \in DOMAIN p.llev : p.llev[i].b = b}
find_pos_in_stack(b, p) ==
  IF Positions(p, b) = {} THEN 0
  ELSE CHOOSE i \in Positions(p, b) : \A j \in Positions(p, b) : j <= i

HighLevel(state) ==
  CASE state.b \in {"RUNNING", "TRAP", "SYSCALL"} -> "RUNNING"
    [] state.b = "IRQ" -> "INTERRUPTED_IRQ"
    [] state.b = "SOFTIRQ" -> "INTERRUPTED_SOFTIRQ"
    [] state.b = "UNKNOWN" -> "UNKNOWN"
    [] state.b = "PREEMPTED" ->
         CASE state.n = 0 -> "INTERRUPTED_CPU"
           [] state.n = PostBlock -> "INTERRUPTED_POST_BLOCK"
           [] OTHER -> "BLOCKED"

\* A process is blocked in its innermost system call, or in a trap over it.
Blocked(p, time) ==
  LET call == find_pos_in_stack("SYSCALL", p)
      known == [High("BLOCKED", time) EXCEPT
                  !.n = UserSpace, !.trap = find_pos_in_stack("TRAP", p) > call]
  IN  IF call = 0 THEN known
      ELSE [known EXCEPT !.n = p.llev[call].n, !.sub = p.llev[call].sub]

NewHigh(p, time) ==
  LET b == HighLevel(LastOf(p.llev))
  IN  IF b = "BLOCKED" THEN Blocked(p, time)
      ELSE IF b \in {"INTERRUPTED_IRQ", "INTERRUPTED_SOFTIRQ"}
           THEN [High(b, time) EXCEPT !.n = LastOf(p.llev).n]
      ELSE High(b, time)

\* What takes no time is not kept.
update_hlev_state(p, time) ==
  IF HighLevel(LastOf(p.llev)) = p.hlev.b THEN p
  ELSE [p EXCEPT !.history = IF p.hlev.begin = time THEN @
                             ELSE Append(@, [p.hlev EXCEPT !.end = time]),
                 !.hlev = NewHigh(p, time)]

old_process_push_llev_state(p, state) ==
  [p EXCEPT !.llev = Append(@, state),
            !.overflow = @ \/ Len(p.llev) >= PROCESS_STATE_STACK_SIZE]

\* An empty stack tells nothing, or that a system call returned.
old_process_pop_llev_state(p, state) ==
  [p EXCEPT !.llev =
     IF Len(@) > 1 THEN AllButLast(@)
     ELSE <<State(IF state.b = "SYSCALL" THEN "RUNNING" ELSE "UNKNOWN", 0, state.end)>>]

TryWakeup(p, wakeup) == IF p.hlev.b = "BLOCKED" THEN [p EXCEPT !.hlev.woken = wakeup] ELSE p

process_delayed_stack_action(p, item) ==
  CASE item.type = "PUSH" ->
         update_hlev_state(old_process_push_llev_state(p, item.data), item.data.begin)
    [] item.type = "POP" ->
         update_hlev_state(old_process_pop_llev_state(p, item.data), item.data.end)
    [] item.type = "EVENT" -> TryWakeup(p, item.data)

Advance(p, advanced) ==
  FoldLeft(process_delayed_stack_action, [p EXCEPT !.stack = advanced.stack], advanced.due)

Add(p, item) == Advance(p, sstack_add_item(p.stack, item))

\* Only a system call waits for its pop, with all that is pushed over it.
Pushed(p, state) == Add(p, sstack_item_new_push(state.b = "SYSCALL", state))

Current(p) == p.stack.array[LastPush(p.stack)].data

\* The pop ends the last push, or what was under way before the analysis began.
prepare_pop_item_commit_nocheck(p, b, time) ==
  Add(p, sstack_item_new_pop(IF LastPush(p.stack) # NoPush THEN [Current(p) EXCEPT !.end = time]
                             ELSE [State(b, 0, Garbage) EXCEPT !.end = time]))

Matches(p, b) == LastPush(p.stack) # NoPush => Current(p).b = b
Popped1(p, b, time) ==
  IF Matches(p, b) THEN prepare_pop_item_commit_nocheck(p, b, time) ELSE p

IsBlocked(p) ==
  LastPush(p.stack) # NoPush => Current(p).b = "PREEMPTED" /\ Current(p).n > 0

\* A process that is blocked waits for a processor from now on.
WokenUp(p, wakeup) ==
  LET told == Add(p, sstack_item_new_event(wakeup))
  IN  IF IsBlocked(told)
      THEN Pushed(prepare_pop_item_commit_nocheck(told, "PREEMPTED", wakeup.time),
                  State("PREEMPTED", PostBlock, wakeup.time))
      ELSE told

(* ------------------------------- events --------------------------------- *)

get_or_init_process_info(a, pid, time) ==
  IF pid \in DOMAIN a.processes THEN a
  ELSE [a EXCEPT !.processes = Put(@, pid, NewInfo(time))]

Aborted(a) == [a EXCEPT !.aborted = TRUE]
WithInfo(a, pid, p) ==
  IF p.overflow THEN Aborted(a)
  ELSE [a EXCEPT !.processes[pid] = p]

PushState(a, pid, b, n, time) == WithInfo(a, pid, Pushed(a.processes[pid], State(b, n, time)))

\* A pop that does not match is fatal, but for the exit of a system call, which
\* is told twice after a fork.
prepare_pop_item_commit(a, pid, b, time) ==
  IF b # "SYSCALL" /\ ~Matches(a.processes[pid], b) THEN Aborted(a)
  ELSE WithInfo(a, pid, Popped1(a.processes[pid], b, time))

\* The process that runs next is known from now on, and so is the one before it.
SwitchedIn(a, e) ==
  IF e.pidIn = 0 THEN a
  ELSE prepare_pop_item_commit(get_or_init_process_info(a, e.pidIn, e.time),
                               e.pidIn, "PREEMPTED", e.time)
SwitchedOut(a, e) ==
  IF e.pidOut = 0 THEN a
  ELSE PushState(get_or_init_process_info(a, e.pidOut, e.time),
                 e.pidOut, "PREEMPTED", e.stateOut, e.time)

ForkCall == 57
Forked(a, parent, e) ==
  LET known == get_or_init_process_info(a, e.pid, e.time)
      child == [known.processes[e.pid] EXCEPT !.parent = parent]
      inFork == Pushed(Pushed(child, State("RUNNING", 0, e.time)),
                     State("SYSCALL", ForkCall, e.time))
  IN  WithInfo(known, e.pid, Pushed(inFork, State("PREEMPTED", 1, e.time)))

\* process_find_state: the last system call that is queued.
Calls(p) == {i \in DOMAIN p.stack.array : /\ p.stack.array[i].type # "EVENT"
                                          /\ p.stack.array[i].data.b = "SYSCALL"}
\* The first file operation of a system call says what it is about; polls tell
\* more than one, and a second one of another kind fails an assertion.
FileOperation(a, pid, e) ==
  LET p == a.processes[pid]
      call == CHOOSE i \in Calls(p) : \A j \in Calls(p) : j <= i
      sub == p.stack.array[call].data.sub
  IN  IF Calls(p) = {} \/ (e.kind = "fs_poll" /\ sub = e.kind) THEN a
      ELSE IF sub # Undefined THEN Aborted(a)
      ELSE [a EXCEPT !.processes[pid].stack.array[call].data.sub = e.kind]

\* A wakeup of a process that is not known yet is lost.
WakeupSent(a, waker, e) ==
  IF e.pid \in DOMAIN a.processes
  THEN WithInfo(a, e.pid, WokenUp(a.processes[e.pid], [pid |-> waker, time |-> e.time]))
  ELSE a

StateMachine(a, process, e) ==
  LET pid == differentiate_swappers(process.pid, e.cpu)
      known == get_or_init_process_info(a, pid, e.time)
      push(b, n) == PushState(known, pid, b, n, e.time)
      pop(b) == prepare_pop_item_commit(known, pid, b, e.time)
  IN  CASE e.kind = "irq_entry" -> push("IRQ", e.id)
        [] e.kind = "irq_exit" -> pop("IRQ")
        [] e.kind = "schedchange" -> SwitchedOut(SwitchedIn(known, e), e)
        [] e.kind = "trap_entry" -> push("TRAP", 0)
        [] e.kind = "trap_exit" -> pop("TRAP")
        [] e.kind = "syscall_entry" -> push("SYSCALL", e.id)
        [] e.kind = "syscall_exit" -> pop("SYSCALL")
        [] e.kind = "soft_irq_entry" -> push("SOFTIRQ", e.id)
        [] e.kind = "soft_irq_exit" -> pop("SOFTIRQ")
        [] e.kind = "process_fork" -> Forked(known, process.pid, e)
        [] e.kind \in {"fs_open", "fs_read", "fs_poll"} -> FileOperation(known, pid, e)
        [] e.kind = "sched_try_wakeup" -> WakeupSent(known, pid, e)
        [] OTHER -> known

\* The processes of the state are not reliable before the end of the dump.
process_event(a, ts, e) ==
  LET process == Running(ts, e.cpu)
      ranged == IF e.time <= Time2 THEN [a EXCEPT !.range_pid = process.pid] ELSE a
      begun == [ranged EXCEPT !.statedump_finished = @ \/ e.kind = "statedump_end"]
  IN  IF a.aborted \/ ~begun.statedump_finished THEN begun
      ELSE StateMachine(begun, process, e)

(* ------------------------------- reports -------------------------------- *)

\* Mutant: what still waits is left out.
unflushed_process_sstacks(processes) == processes
Flushed(p) == Advance(p, sstack_force_flush(p.stack))
flush_process_sstacks(processes) == [pid \in DOMAIN processes |-> Flushed(processes[pid])]

Duration(state) == state.end - state.begin

\* modify_path_with_private: where a state counts in the tree of the summary.
Path(state) ==
  CASE state.b = "UNKNOWN" -> <<"Total", "Unknown">>
    [] state.b = "RUNNING" -> <<"Total", "Working">>
    [] state.b = "INTERRUPTED_CPU" -> <<"Total", "Interrupted", "Preempted">>
    [] state.b = "INTERRUPTED_POST_BLOCK" -> <<"Total", "Interrupted", "Waiting schedule after blocking">>
    [] state.b = "INTERRUPTED_IRQ" -> <<"Total", "Interrupted", "IRQ", <<state.n>>>>
    [] state.b = "INTERRUPTED_SOFTIRQ" -> <<"Total", "Interrupted", "SoftIRQ", <<state.n>>>>
    [] state.b = "BLOCKED" ->
         <<"Total", "Blocked">> \o (IF state.trap THEN <<"Trap">> ELSE << >>)
           \o (IF state.n = UserSpace THEN <<"Userspace">> ELSE <<<<state.n>>>>)
           \o (IF state.sub = Undefined THEN << >> ELSE <<state.sub>>)

\* Every node of the tree has the duration of the states at it and below it.
Nodes(states) == UNION {{SubSeq(Path(states[i]), 1, n) : n \in 1 .. Len(Path(states[i]))}
                        : i \in DOMAIN states}
print_simple_summary(states) ==
  [node \in Nodes(states) |->
     FoldLeft(LAMBDA sum, s : IF IsPrefix(node, Path(s)) THEN sum + Duration(s) ELSE sum,
              0, states)]

\* The first state of a history that ends after a time, or 0: a binary search
\* between two states, which gives up on histories of one state.
RECURSIVE Converge(_, _, _, _)
Converge(states, time, under, over) ==
  LET dicho == (under + over) \div 2
      low == IF states[dicho].end < time THEN dicho ELSE under
      high == IF states[dicho].end > time THEN dicho ELSE over
  IN  IF states[dicho].end = time THEN dicho + 1
      ELSE IF high - low = 1 THEN high
      ELSE Converge(states, time, low, high)

dicho_search_state_ending_after(states, time) ==
  IF Len(states) < 2 \/ LastOf(states).end <= time THEN 0
  ELSE IF states[1].end > time THEN 1
  ELSE Converge(states, time, 1, Len(states))

\* How the waker was found, if it was: in a state that ended after the wakeup.
find_state_ending_after(processes, wakeup) ==
  IF wakeup.pid \notin DOMAIN processes THEN "nowhere"
  ELSE LET states == processes[wakeup.pid].history
           i == dicho_search_state_ending_after(states, wakeup.time)
       IN  IF i = 0 THEN "nowhere" ELSE states[i].b

AtLeast(a, b) == IF a < b THEN b ELSE a
AtMost(a, b) == IF a > b THEN b ELSE a

\* The delays of a process that end in a period, with those of who ended them in
\* the same time, unless that was an interrupt.  Who ended a delay that no wakeup
\* did is read from memory that was never written; here it is nobody.
RECURSIVE print_delay_pid(_, _, _, _)
print_delay_pid(processes, pid, t1, t2) ==
  LET states == processes[pid].history
      first == dicho_search_state_ending_after(states, t1)
      shown == {i \in DOMAIN states : /\ first # 0 /\ i >= first
                                      /\ \A j \in first .. i : states[j].end <= t2
                                      /\ states[i].b = "BLOCKED"}
      delay(s) ==
        LET waker == find_state_ending_after(processes, s.woken)
        IN  [pid |-> pid, begin |-> s.begin, end |-> s.end, by |-> s.woken.pid, in |-> waker,
             within |-> IF waker \in {"nowhere", "INTERRUPTED_IRQ", "INTERRUPTED_SOFTIRQ"}
                        THEN {}
                        ELSE print_delay_pid(processes, s.woken.pid, AtLeast(t1, s.begin),
                                             AtMost(t2, s.end))]
  IN  IF pid \notin DOMAIN processes THEN {} ELSE {delay(states[i]) : i \in shown}

print_process_critical_path_summary(processes) ==
  [pid \in DOMAIN processes |->
     LET states == processes[pid].history
     IN  IF states = << >> THEN {}
         ELSE print_delay_pid(processes, pid, states[1].begin, LastOf(states).end)]

\* The process at the end of the range and its ancestors, to the one that was
\* known before the range began; if there is none the program aborts, and it
\* never finds one among processes that are each other's parents.
Creation(p) == p.history[1].begin
RECURSIVE Family(_, _)
Family(processes, pid) ==
  IF pid \notin DOMAIN processes \/ processes[pid].history = << >> THEN << >>
  ELSE IF Creation(processes[pid]) < Time1 THEN <<pid>>
  ELSE LET older == Family(processes, processes[pid].parent)
       IN  IF older = << >> THEN << >> ELSE Append(older, pid)

StatesOf(states, t1, t2) ==
  SelectSeq(states, LAMBDA s : s.end >= t1 /\ s.end <= t2)

\* Every one of the family is told of from its creation to that of the next.
print_range_reports(processes, pid) ==
  LET family == Family(processes, pid)
      from(i) == IF i = 1 THEN Time1 ELSE Creation(processes[family[i]])
      to(i) == IF i = Len(family) THEN Time2 ELSE Creation(processes[family[i + 1]])
  IN  [i \in DOMAIN family |->
         [pid |-> family[i], t1 |-> from(i), t2 |-> to(i),
          summary |-> print_simple_summary(
                        StatesOf(processes[family[i]].history, from(i), to(i)))]]

NoReport == [summary |-> << >>, paths |-> << >>, range |-> << >>, delays |-> {}]

\* The report of the end of the trace, after what is left in the stacks.
write_traceset_footer(a) ==
  LET processes == flush_process_sstacks(a.processes)
  IN  [summary |-> [pid \in DOMAIN processes |-> print_simple_summary(processes[pid].history)],
       paths |-> print_process_critical_path_summary(processes),
       range |-> print_range_reports(processes, a.range_pid),
       delays |-> IF Family(processes, a.range_pid) = << >> THEN {}
                  ELSE print_delay_pid(processes, a.range_pid, Time1, Time2)]

(* ----------------------------- the trace -------------------------------- *)

\* What the kernel tells of a process: the high-level state it is in.
KernelHigh(p) ==
  CASE status[p] = "run" ->
         (LET c == CHOOSE x \in Cpus : current[x] = p
          IN  CASE TopMode(c) = "IRQ" -> "INTERRUPTED_IRQ"
                [] TopMode(c) = "SOFT_IRQ" -> "INTERRUPTED_SOFTIRQ"
                [] OTHER -> "RUNNING")
    [] status[p] = "ready" ->
         (CASE reason[p] = "fork" -> "BLOCKED"
            [] reason[p] = "preempted" -> "INTERRUPTED_CPU"
            [] reason[p] = "woken" -> "INTERRUPTED_POST_BLOCK")
    [] OTHER -> "BLOCKED"

\* The system call a process is in, if it is in one.
CallOf(p) == IF \E i \in DOMAIN mode[Key(0, p)] : mode[Key(0, p)][i] = "SYSCALL"
             THEN Len(calls[p]) ELSE 0

Did(b, call) == [b |-> b, begin |-> clock, call |-> call, by |-> Garbage]

\* Who runs on a processor, if lttv can know it.
NotKnown == -2
Waker(c) == IF c \in synced THEN differentiate_swappers(current[c], c) ELSE NotKnown

Happened(did, p, e) ==
  LET told == IF e.kind = "sched_try_wakeup" /\ e.pid = p
              THEN [did EXCEPT !.states[Len(did.states)].by = Waker(e.cpu)'] ELSE did
  IN  IF LastOf(did.states).b = KernelHigh(p)' THEN told
      ELSE [told EXCEPT !.states = Append(@, Did(KernelHigh(p), CallOf(p))')]

\* A process is judged if its birth is the first that the analysis hears of it.
Truth(e) ==
  LET others == [p \in DOMAIN truth |-> Happened(truth[p], p, e)]
  IN  IF e.kind # "process_fork" THEN others
      ELSE IF e.pid \in DOMAIN d.processes THEN Without(others, e.pid)
      ELSE IF d'.statedump_finished
      THEN Put(others, e.pid, [parent |-> Waker(e.cpu)', states |-> <<Did("BLOCKED", 1)'>>])
      ELSE others

Reason(e) ==
  [p \in Pids |->
     CASE e.kind = "process_fork" /\ e.pid = p -> "fork"
       [] e.kind = "schedchange" /\ e.pidOut = p ->
            IF e.stateOut = 0 THEN "preempted" ELSE "waiting"
       [] e.kind = "sched_try_wakeup" /\ e.pid = p -> "woken"
       [] OTHER -> reason[p]]

CallsAfter(e) ==
  [p \in Pids |->
     CASE e.kind = "process_fork" /\ e.pid = p -> <<Undefined>>
       [] e.kind = "syscall_entry" /\ current[e.cpu] = p -> Append(calls[p], Undefined)
       [] e.kind \in {"fs_open", "fs_read", "fs_poll"} /\ current[e.cpu] = p ->
            [calls[p] EXCEPT ![Len(calls[p])] = e.kind]
       [] OTHER -> calls[p]]

\* A system call operates on files in one way, and tells every file it polls.
FileEvent(c, kind) ==
  /\ current[c] # 0 /\ TopMode(c) = "SYSCALL"
  /\ LastOf(calls[current[c]]) \in {Undefined} \cup ({"fs_poll"} \cap {kind})
  /\ Tell /\ Read(EventId(kind, c, 0))

FileEvents == \E c \in Cpus, kind \in {"fs_open", "fs_read", "fs_poll"} : FileEvent(c, kind)

DependencyInit ==
  /\ Init
  /\ d = [statedump_finished |-> FALSE, processes |-> << >>, range_pid |-> UnknownParent,
          aborted |-> FALSE]
  /\ report = NoReport /\ truth = << >>
  /\ calls = [p \in Pids |-> <<Undefined>>]
  /\ reason = [p \in Pids |-> "preempted"]

ReadEvent ==
  /\ report = NoReport
  /\ Next \/ FileEvents
  /\ \E e \in {Last1(trace')} :
        /\ e.kind = "statedump_end" => ~d.statedump_finished /\ e.cpu = 0
        /\ d' = process_event(d, v'.ts, e)
        /\ e.time > DumpWithin => d'.statedump_finished
        /\ calls' = CallsAfter(e)
        /\ reason' = Reason(e)
        /\ truth' = Truth(e)
  /\ UNCHANGED report

EndTrace ==
  /\ report = NoReport /\ d.processes # << >> /\ ~d.aborted
  /\ report' = write_traceset_footer(d)
  /\ UNCHANGED <<vars, d, calls, reason, truth>>

DependencySpec == DependencyInit /\ [][ReadEvent \/ EndTrace]_<<vars, depVars>>

(* ----------------------------- properties ------------------------------- *)

\* What the analysis would tell of a process if the trace ended now.
Told(p) ==
  LET info == Flushed(d.processes[p])
  IN  Append(info.history, info.hlev)

\* Who is said to have woken a process woke it, at the end of that delay.
WakerIsTrue(told, did, i) ==
  did[i].b = "BLOCKED" =>
    IF did[i].by = Garbage THEN told[i].woken = NobodyYet
    ELSE /\ told[i].woken.time = did[i + 1].begin
         /\ did[i].by # NotKnown => told[i].woken.pid = did[i].by

\* The high-level states of a process that was born in the trace are those it was
\* in, one after the other, with the times they began; what it is blocked in is
\* the operation of that system call, also if it is only known after it was
\* blocked, and who woke it is who did.  No order of events ends the program.
HistoryIsTrue ==
  /\ ~d.aborted
  /\ \A p \in DOMAIN truth :
       LET did == truth[p].states
           told == Told(p)
       IN  /\ Len(told) = Len(did)
           /\ \A i \in DOMAIN did :
                /\ told[i].b = did[i].b /\ told[i].begin = did[i].begin
                /\ did[i].b = "BLOCKED" =>
                     told[i].sub = IF did[i].call = 0 THEN Undefined
                                      ELSE calls[p][did[i].call]
           /\ \A i \in DOMAIN did : WakerIsTrue(told, did, i)

RECURSIVE WithNested(_)
WithNested(delays) == delays \cup UNION {WithNested(x.within) : x \in delays}

\* The delays of a process that ended are those in its report, but for processes
\* with one state in their history; each has in it only delays of the one who
\* ended it that ended in the same time.
DelaysAreTrue ==
  \A p \in DOMAIN report.paths :
    /\ \A x \in WithNested(report.paths[p]) :
         /\ x.begin < x.end
         /\ \A y \in x.within : y.pid = x.by /\ x.begin < y.end /\ y.end < x.end
    /\ p \in DOMAIN truth /\ Len(truth[p].states) > 2 =>
         {x.begin : x \in report.paths[p]} =
           {truth[p].states[i].begin : i \in {j \in 1 .. Len(truth[p].states) - 1 :
                                                truth[p].states[j].b = "BLOCKED"}}

TimeIn(did, b) ==
  FoldFunction(+, 0, [i \in {j \in 1 .. Len(did) - 1 : did[j].b = b} |->
                        did[i + 1].begin - did[i].begin])

\* All the time of a process since its birth is in its summary, in every state
\* the time it spent there.
TimesAddUp ==
  \A p \in DOMAIN truth :
    LET did == truth[p].states
        summary == report.summary[p]
        total(node) == IF node \in DOMAIN summary THEN summary[node] ELSE 0
    IN  /\ total(<<"Total">>) = LastOf(did).begin - did[1].begin
        /\ total(<<"Total", "Blocked">>) = TimeIn(did, "BLOCKED")
        /\ total(<<"Total", "Working">>) = TimeIn(did, "RUNNING")
        /\ total(<<"Total", "Interrupted", "IRQ">>) = TimeIn(did, "INTERRUPTED_IRQ")

\* The processes of a range follow from one another by birth, without a gap.
RangeIsCovered ==
  \A i \in 2 .. Len(report.range) :
    LET child == report.range[i].pid
        before == report.range[i - 1]
    IN  /\ report.range[i].t1 = before.t2
        /\ child \in DOMAIN truth /\ truth[child].parent # NotKnown
             => truth[child].parent = before.pid

\* What is printed at the end of the trace is what happened: where the time of
\* every process went, what it waited for and for whom, and who was born of whom,
\* also of what was still in the delayed stacks.
ReportIsTrue == report # NoReport => DelaysAreTrue /\ TimesAddUp /\ RangeIsCovered
=============================================================================
