SPECIFICATION FairSpec
CONSTANTS
  HttpRows <- MCHttpRows
  Oldest = 5
  PageSize = 2
  MaxGrow = 1
  MaxPages = 6
  MaxTries = 3
  BrowserRows <- MCBrowserRows
  LoginRow <- MCLoginRow
  Runners = {"cycle", "api"}
  Keys = {"portal.kr"}
  Pages = 3
  MaxSessions = 3
INVARIANTS
  Complete
  LoginOnce
  Gapless
  WholeOrNamed
  FreshSession
PROPERTIES
  Ends
CHECK_DEADLOCK FALSE
