SPECIFICATION Spec
CONSTANTS
  Periods <- SomePeriods
  Usize = 64
  Interval = 10
  MaxRound = 26
  MaxLate = 40
CHECK_DEADLOCK FALSE
INVARIANT RetriesInInterval
