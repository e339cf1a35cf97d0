SPECIFICATION Spec
CONSTANTS
  Units = {"daily-early", "daily-start"}
  Lines <- MCLines
  Steps <- MCSteps
  Written <- MCWritten
  BatchLines = 2
  Listings = {"krx_deriv_info"}
  Collects <- MCCollects
  Tokens = {"KIS_ACCESS_TOKEN"}
  Refreshes <- MCRefreshes
  LastDay = 2
  MaxTokens = 1
  Threads = {"worker-1", "worker-2"}
  Processes = {"api"}
  ProcessOf <- MCProcessOf
  Hosts <- MCHosts
  Rules <- MCRules
  Default = 1
  MaxTime = 3
  MaxLife = 1
  MaxMade = 2
INVARIANTS
  GreenMeansFresh
  TokenCurrent
  Spaced
CHECK_DEADLOCK FALSE
