SPECIFICATION FairSpec
CONSTANTS
  NoHost <- MCNoHost
  NoLogin = "none"
  Apis <- MCApis
  LoginOf <- MCLoginOf
  SessionRows = {"plogin"}
  Hosts <- MCHosts
  HostOf <- MCHostOf
  Contacts <- MCOwnHost
  Jobs <- MCJobs
  ApiOf <- MCApiOf
  Replies <- MCReplies
  Repeated = {"plogin"}
  EmptyIsPending = {"feed"}
  Deletable = {"detail", "plogin"}
  Limit = 2
INVARIANTS
  AtMostTwoRefusals
  NotHammered
  EveryJobAccountedFor
  DeadSourceCost
PROPERTIES
  OneMoreChance
  CycleEnds
