SPECIFICATION Spec
CONSTANTS
  Rows <- MCRows
  Days <- MCDays
  Months <- MCMonths
  DayOf <- MCDayOf
  MonthOf <- MCMonthOf
  Batch = 2
  CrashAt <- SafeSteps
  Backfill = FALSE
  BulkRanges <- MCRanges
  Unreadable = {9}
INVARIANTS
  ArchivedReadOnce
  DayOrBulk
CHECK_DEADLOCK FALSE
