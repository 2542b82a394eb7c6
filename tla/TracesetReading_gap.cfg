\* A time between the second and the third of four buffers is asked for.
CONSTANTS
  Tracefiles <- GapTrace
  Drift <- GapClocks
  Offset <- Offsets
  Span <- GapSpan
  TscBits = 2
  Infinite = 100
  SaveInterval = 1
  TicksPerSecond = 2
  NumVisible = 2
  Filters = {{"a", "b"}}
  CHUNK_NUM_EVENTS = 3
  StartTimes = {9, 11}
  CurrentTimes = {12}
  CHECK_GDK_INTERVAL = 2
  Looks = {100}
  MaxScrolls = 1
SPECIFICATION Spec
INVARIANTS SeeksMapABuffer
CHECK_DEADLOCK FALSE
