\* Chunks of three events, pages of two, and moves of the list, which the user
\* stops at the second look at the button or not at all (100); a second has two
\* ticks.
CONSTANTS
  Tracefiles <- OneTrace
  Drift <- Clocks
  Offset <- Offsets
  Span <- OneSpan
  TscBits = 2
  Infinite = 100
  SaveInterval = 1
  TicksPerSecond = 2
  NumVisible = 2
  Filters = {{"a"}, {"a", "b"}}
  CHUNK_NUM_EVENTS = 3
  StartTimes = {6}
  CurrentTimes = {9}
  CHECK_GDK_INTERVAL = 2
  Looks = {1, 100}
  MaxScrolls = 3
SPECIFICATION Spec
INVARIANTS ReadInOrder ListIsComplete ScrollsByEvents JumpsToTime
CHECK_DEADLOCK FALSE
