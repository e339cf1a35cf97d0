SPECIFICATION FairSpec
CONSTANTS
  Names <- MCNames
  Docs <- MCDocs
  Csv <- MCCsv
  Nested = {}
  Workers = {"daily_batch1", "daily_batch2"}
  DocsOf <- MCDocsOf
  Overlap = FALSE
  CrashAt = {"staged"}
  MaxRuns = 3
  MaxKills = 1
INVARIANTS
  DescribedIntact
PROPERTIES
  DocumentsArrive
CHECK_DEADLOCK FALSE
