SPECIFICATION FairSpec
CONSTANTS
  Jobs <- SharedJobs
  Tables <- MCTables
  Generic = {"api_rst"}
  Outputs <- SharedOutputs
  CycleOf <- SharedCycleOf
  Overwrite = {"listing"}
  Repeated = {"listing", "login"}
  EmptyIsPending = {}
  Cycles = {"daily_early"}
  Callers = {"api"}
  Retirable = {}
  Deletable = {"listing"}
  MaxRuns = 3
  MaxCrashes = 0
INVARIANTS
  NothingHalfSaved
PROPERTIES
  ExecutionsEnd
CHECK_DEADLOCK FALSE
