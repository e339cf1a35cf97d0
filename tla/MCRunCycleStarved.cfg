SPECIFICATION FairSpec
CONSTANTS
  NoHost <- MCNoHost
  NoLogin = "none"
  Apis <- MCApis
  LoginOf <- MCLoginOf
  SessionRows = {"plogin"}
  Hosts <- MCHosts
  HostOf <- MCHostOf
  Contacts <- MCOwnHost
  Jobs <- BrokenJobs
  ApiOf <- BrokenApiOf
  Replies <- BrokenReplies
  Repeated = {"plogin"}
  EmptyIsPending = {"feed"}
  Deletable = {}
  Limit = 2
PROPERTIES
  WorkingJobsFinish
