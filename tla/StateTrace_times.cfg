SPECIFICATION Spec
CONSTANTS
  Cpus = {0, 1}
  NbIrqs = 1
  NbSoftIrqs = 1
  NbTraps = 1
  InitialPids = {1}
  NewPids = {2}
  Ids = {0}
  Kinds = {"schedchange", "sched_try_wakeup", "process_fork", "process_exit", "process_free", "syscall_entry", "syscall_exit", "trap_entry", "trap_exit", "irq_entry", "irq_exit", "soft_irq_raise", "soft_irq_entry", "soft_irq_exit", "statedump_end", "process_kernel_thread", "enum_interrupt", "dump_softirq"}
  Ticks = 1
  MaxTime = 6
  MaxDepth = 3
  Counting = TRUE
  Recorded = FALSE
INVARIANTS CpuModesAgree BranchIsCurrent BornTimesAgree
CHECK_DEADLOCK FALSE
