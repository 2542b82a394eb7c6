CONSTANTS
  Number <- Atoi
  Comparisons <- MC
  Events <- SomeEvents
  MaxComparisons = 3
  MaxLength = 10
  MaxOptions = 2
SPECIFICATION Spec
INVARIANTS FilterKeepsDescribed
CHECK_DEADLOCK FALSE
