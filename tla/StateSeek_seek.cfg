SPECIFICATION SeekSpec
CONSTANTS
  Cpus = {0}
  NbIrqs = 1
  NbSoftIrqs = 1
  NbTraps = 1
  InitialPids = {1}
  NewPids = {2}
  Ids = {0}
  Kinds = {"schedchange", "process_fork", "page_fault_entry", "page_fault_exit", "bdev_request_issue", "bdev_request_complete", "function_entry", "function_exit", "process_exec", "thread_brand", "fs_open", "enum_process_state"}
  Ticks = 1
  MaxTime = 5
  MaxDepth = 3
  Counting = FALSE
  Recorded = TRUE
CONSTANTS
  SaveInterval = 0
  MaxSeeks = 1
INVARIANTS SeekRebuildsState
PROPERTIES SeekIsClose
CHECK_DEADLOCK FALSE
