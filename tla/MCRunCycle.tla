----------------------------- MODULE MCRunCycle -----------------------------
(***************************************************************************)
(* Instances of RunCycle for TLC: a portal behind a login, with two api    *)
(* rows on one host, and an open feed on another host.                     *)
(***************************************************************************)
EXTENDS RunCycle

MCHosts  == {"portal.kr", "feed.kr"}
MCNoHost == ""
MCApis   == {"plogin", "listing", "detail", "feed"}

MCHostOf == [a \in MCApis |-> IF a = "feed" THEN "feed.kr" ELSE "portal.kr"]

MCLoginOf == [a \in MCApis |->
                IF a \in {"listing", "detail"} THEN "plogin" ELSE "none"]

\* Every source is refused by its own host only.
MCOwnHost == [a \in MCApis |-> {MCHostOf[a]}]

\* Six jobs: the login row, three of one portal row, one of the other portal
\* row, one of the feed.
MCJobs  == {"log", "l1", "l2", "l3", "d1", "f1"}
MCApiOf == [j \in MCJobs |-> CASE j = "log" -> "plogin"
                               [] j \in {"l1", "l2", "l3"} -> "listing"
                               [] j = "d1" -> "detail"
                               [] j = "f1" -> "feed"]
MCReplies ==
  [j \in MCJobs |-> CASE j = "log" -> {"data", "refusal"}
                      [] j = "f1" -> {"data", "empty", "refusal"}
                      [] j = "d1" -> {"empty", "refusal"}
                      [] OTHER -> {"data", "error", "refusal"}]

-----------------------------------------------------------------------------
\* Two jobs of an api never work (delisted codes, say), as many as the limit:
\* they may come first in every scan.
BrokenJobs    == {"l1", "l2", "l3", "f1"}
BrokenApiOf   == [j \in BrokenJobs |-> MCApiOf[j]]
BrokenReplies == [j \in BrokenJobs |->
                    IF j \in {"l1", "l2"} THEN {"error"} ELSE {"data"}]
=============================================================================
