SPECIFICATION Spec
CONSTANTS
  Apis <- MCApis
  Builders <- MCBuilders
  ApiOf <- MCApiOf
  Params <- MCParams
  Keys = {"fri", "mon", "call"}
  KeyOf <- MCKeyOf
  DateOf <- MCDateOf
  Expansion <- MCExpansion
  Generators = {timer, api}
  Batches <- MCBatches
  Repeated = {"quote"}
  EmptyIsPending = {"bars"}
  Contracts = {"quote"}
  Stale = {}
  Window = 1
  DeadDays = 2
  JobDays = 1
  OkDays = 1
  FailDays = 2
  ByHand = FALSE
  MaxDay = 3
  MaxRuns = 3
SYMMETRY Callers
INVARIANTS
  TypeOK
  LivingSourceKept
  CollectedOnce
  SnapshotKept
PROPERTIES
  Represented
