SPECIFICATION Spec
CONSTANTS
  Rows <- MCRows
  Days <- MCDays
  Months <- MCMonths
  DayOf <- MCDayOf
  MonthOf <- MCMonthOf
  Batch = 2
  CrashAt <- Step
  Backfill = FALSE
  BulkRanges <- MCRanges
  Unreadable = {}
INVARIANTS
  NothingLost
CHECK_DEADLOCK FALSE
