CONSTANTS
  NANOSECONDS_PER_SECOND = 3
  Wrap = 300
  MaxWidth = 3
  SAFETY = 1
  Traces <- MCTraces
  Widths <- MCWidths
  Clipboard <- MCClipboard
  MaxOperations = 3
SPECIFICATION Spec
INVARIANTS WindowIsWithin MissingIsDamaged MissingIsRequested
PROPERTY CurrentTimeIsShown
CHECK_DEADLOCK FALSE
