SPECIFICATION Spec
CONSTANTS
  Jobs <- MCJobs
  Tables <- MCTables
  Generic = {"api_rst"}
  Outputs <- MCOutputs
  CycleOf <- MCCycleOf
  Overwrite = {"listing"}
  Repeated = {"listing"}
  EmptyIsPending = {"bars"}
  Cycles = {"daily_early", "daily_batch2"}
  Callers = {}
  Retirable = {"bars"}
  Deletable = {"listing"}
  MaxRuns = 3
  MaxCrashes = 1
INVARIANTS
  TypeOK
  WholeOrNothing
  HistoryComplete
  ReplacedOrUntouched
  DoneMeansCollected
  TrailCovers
PROPERTIES
  LedgerSpec
CHECK_DEADLOCK FALSE
