\* One processor; a window of two pixels, of three events each; two chunks.
CONSTANTS
  Cpus = {0}
  NbIrqs = 1
  NbSoftIrqs = 1
  NbTraps = 1
  InitialPids = {1}
  NewPids = {2}
  Ids = {0}
  Kinds = {"schedchange", "sched_try_wakeup", "process_fork", "process_exit", "process_free", "process_exec", "thread_brand", "syscall_exit", "trap_entry", "trap_exit", "irq_entry", "irq_exit", "soft_irq_raise", "soft_irq_entry", "soft_irq_exit", "bdev_request_issue"}
  Ticks = 1
  MaxTime = 6
  MaxDepth = 3
  Counting = FALSE
  Recorded = TRUE
  WindowStart = 2
  TicksPerPixel = 2
  Width = 3
  MaxChunks = 2
SPECIFICATION ViewSpec
INVARIANTS ProcessesShown ResourcesShown ChunksDoNotShow
CHECK_DEADLOCK FALSE
