SPECIFICATION DependencySpec
CONSTANTS
  Cpus = {0, 1}
  NbIrqs = 1
  NbSoftIrqs = 1
  NbTraps = 1
  InitialPids = {1}
  NewPids = {2}
  Ids = {0}
  Kinds = {"schedchange", "sched_try_wakeup", "process_fork", "process_exit", "process_free", "syscall_entry", "syscall_exit", "irq_entry", "irq_exit", "fs_open", "statedump_end"}
  Ticks = 1
  MaxTime = 8
  MaxDepth = 3
  Counting = FALSE
  Recorded = TRUE
  DumpWithin = 1
  Time1 = 3
  Time2 = 6
INVARIANTS RunningIsCurrent BornLivesAgree HistoryIsTrue ReportIsTrue
CHECK_DEADLOCK FALSE
