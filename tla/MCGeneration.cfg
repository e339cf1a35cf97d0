SPECIFICATION Spec
CONSTANTS
  Builders <- MCBuilders
  KeyParams <- MCKeyParams
  Answers <- MCAnswers
  Replies <- MCReplies
  Validators <- MCValidators
  Fields = {"code", "std_dt"}
  Required = {"code"}
  Cycles <- MCCycles
  FirstDay <- MCFirstDay
  Days = 436
  BuildDays = {0, 4, 5, 6, 7, 8}
  RunDays = {1}
  Generations = 2
  ClockDays = {10, 11}
  Minutes = 130
INVARIANTS MeansTheDay OnTheGrid EachCombinationHasItsJob RowsAsMeant
CHECK_DEADLOCK FALSE
