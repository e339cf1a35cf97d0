------------------------------ MODULE Collect ------------------------------
(***************************************************************************)
(* BaseScraper.collect with the HTTP engine under it (dynamic.py): one row *)
(* is fetched request by request, each request is tried up to three times, *)
(* and a session that expires in the middle is renewed once.               *)
(*                                                                         *)
(* The source holds records 1..head, the newest last.  It answers          *)
(* PageSize of them at a time, newest first, and may grow meanwhile.       *)
(***************************************************************************)
EXTENDS Integers, FiniteSets

CONSTANTS
  Rows,      \* api_mst rows: how each is paginated and whether it names a login
  Oldest,    \* how many records the source held when the job was generated
  PageSize,
  MaxGrow,   \* bound: records published during the run
  MaxPages,  \* pagination_json['max_pages']
  MaxTries   \* stop_after_attempt of fetch

Mode == {"single", "page", "cursor", "token"}
Row  == [mode : Mode,
         clamps : BOOLEAN,  \* a page past the end answers the last page again
         full : BOOLEAN,    \* pagination_json has 'min_records' (a full page)
         login : BOOLEAN]   \* response_parse_json has 'login'
Id   == 1..(Oldest + MaxGrow)

\* With PageSize newcomers between two requests a page would equal the one
\* before it, which reads as the end.
CollectAssumption ==
  /\ Rows \subseteq Row
  /\ Oldest \in Nat \ {0} /\ MaxGrow \in Nat
  /\ PageSize \in Nat /\ PageSize > 1 /\ MaxGrow < PageSize
  /\ MaxPages \in Nat \ {0} /\ MaxTries \in Nat \ {0}

VARIABLES
  \* ---- the site ----
  head,     \* newest record published
  session,  \* somebody is logged in
  \* ---- the scraper ----
  row,
  pc,
  attempt,  \* of collect
  tries,    \* of the request under way
  asked,    \* requests of fetch_all_pages answered
  at,       \* self.params[param]: page number, anchor or token (0: none yet)
  got,      \* all_records, by identity
  previous, \* the reply before this one
  \* ---- history ----
  logins,   \* replies of the login row
  cutOff    \* max_pages ended the loop

site    == <<head, session>>
reading == <<asked, at, got, previous>>
vars == <<head, session, row, pc, attempt, tries, asked, at, got, previous,
          logins, cutOff>>

Ended == {"returned", "failed", "expired", "refused"}
Nothing == [i \in Id |-> "absent"]

\* The parameter as the job row has it; page mode seeds its own.
FirstRequest(r) == IF r.mode = "page" THEN 1 ELSE IF r.mode = "cursor" THEN Oldest ELSE 0

Init ==
  /\ head = Oldest
  /\ session \in BOOLEAN
  /\ row \in Rows
  /\ pc = "fetch"
  /\ attempt = 1
  /\ tries = 0
  /\ asked = 0
  /\ at = FirstRequest(row)
  /\ got = Nothing
  /\ previous = {}
  /\ logins = 0
  /\ cutOff = FALSE

-----------------------------------------------------------------------------
(* What the source answers. *)

LastPage == (head - 1) \div PageSize + 1

\* The newest record of the reply.
From ==
  CASE row.mode = "single" -> head
    [] row.mode = "cursor" -> at
    [] row.mode = "token"  -> IF at = 0 THEN head ELSE at
    [] row.mode = "page"   ->
         LET page == IF row.clamps /\ at > LastPage THEN LastPage ELSE at
         IN  head - (page - 1) * PageSize

Reply ==
  IF row.mode = "single" THEN 1..head ELSE {i \in 1..From : i > From - PageSize}

Last(reply) == CHOOSE i \in reply : \A k \in reply : i <= k

\* A series cut at the cap shows its last bar as far as the cap let it.
Shown(reply, i) ==
  IF row.mode = "cursor" /\ Cardinality(reply) = PageSize /\ i = Last(reply)
  THEN "clipped" ELSE "whole"

-----------------------------------------------------------------------------
(* fetch_all_pages. *)

\* Faulty variant: a record seen before is left as it was.
MergeFirstWins(reply) ==
  [i \in Id |-> IF i \in reply /\ got[i] = "absent" THEN Shown(reply, i) ELSE got[i]]

\* merge_records: the later page wins at the seam.
Merge(reply) == [i \in Id |-> IF i \in reply THEN Shown(reply, i) ELSE got[i]]

\* _advance: the next value of the parameter, if there is one.
Advance(reply) ==
  CASE row.mode = "page"   -> {at + 1}
    [] row.mode = "cursor" -> IF row.full /\ Cardinality(reply) < PageSize
                              THEN {} ELSE {Last(reply)} \ {at}
    [] row.mode = "token"  -> {Last(reply) - 1} \ {0}
    [] row.mode = "single" -> {}

\* No records, or the same as before: whatever has been merged is the result.
StopReading ==
  /\ row.mode # "single"
  /\ Reply \in {{}, previous}
  /\ pc' = "returned"
  /\ UNCHANGED <<asked, at, got, previous, cutOff>>

ReadOn ==
  /\ row.mode = "single" \/ Reply \notin {{}, previous}
  /\ got' = Merge(Reply)
  /\ previous' = Reply
  /\ asked' = asked + 1
  /\ LET next == Advance(Reply) IN
       \/ /\ next = {}
          /\ pc' = "returned"
          /\ UNCHANGED <<at, cutOff>>
       \/ /\ at' \in next
          /\ cutOff' = (asked' = MaxPages)
          /\ pc' = IF asked' = MaxPages THEN "returned" ELSE "fetch"

-----------------------------------------------------------------------------
(* fetch. *)

\* A row that names a login is answered only while somebody is logged in.
Welcome == row.login => session

Answered ==
  /\ pc = "fetch"
  /\ Welcome
  /\ StopReading \/ ReadOn
  /\ tries' = 0
  /\ UNCHANGED <<site, row, attempt, logins>>

\* Faulty variant: no end to the attempts.
RequestAlwaysRetried ==
  /\ pc \in {"fetch", "login"}
  /\ tries' = (tries + 1) % MaxTries
  /\ UNCHANGED <<site, row, pc, attempt, reading, logins, cutOff>>

\* A timeout or an error status.  The request is sent again, the last time
\* excepted.  The request of a login row is tried as often as any other.
RequestFails ==
  /\ pc \in {"fetch", "login"}
  /\ tries' = tries + 1
  /\ pc' = IF tries' = MaxTries THEN "failed" ELSE pc
  /\ UNCHANGED <<site, row, attempt, reading, logins, cutOff>>

\* The reply cannot be parsed, or there is no such login row: not tried again.
Unusable ==
  /\ pc \in {"fetch", "login"}
  /\ pc' = "failed"
  /\ UNCHANGED <<site, row, attempt, tries, reading, logins, cutOff>>

\* The refusal page, to the row or to its login.
Refused ==
  /\ pc \in {"fetch", "login"}
  /\ pc' = "refused"
  /\ UNCHANGED <<site, row, attempt, tries, reading, logins, cutOff>>

-----------------------------------------------------------------------------
(* collect and login. *)

\* Faulty variant: the attempt is not looked at.
LoggedOutAgain ==
  /\ pc = "fetch"
  /\ ~Welcome
  /\ pc' = "login"
  /\ tries' = 0
  /\ UNCHANGED <<site, row, attempt, reading, logins, cutOff>>

\* The reply carries the 'logged_out' marker: SessionExpired, not retried.
LoggedOut ==
  /\ pc = "fetch"
  /\ ~Welcome
  /\ pc' = IF attempt = 1 THEN "login" ELSE "expired"
  /\ tries' = 0
  /\ UNCHANGED <<site, row, attempt, reading, logins, cutOff>>

\* _collect_once starts over, with nothing collected; of the parameters only a
\* page number is put back.
LogIn ==
  /\ pc = "login"
  /\ session' = TRUE
  /\ logins' = logins + 1
  /\ pc' = "fetch"
  /\ attempt' = 2
  /\ tries' = 0
  /\ asked' = 0
  /\ got' = Nothing
  /\ previous' = {}
  /\ at' = IF row.mode = "page" THEN 1 ELSE at
  /\ UNCHANGED <<head, row, cutOff>>

\* The login reply lacks 'expect'.
LoginRejected ==
  /\ pc = "login"
  /\ logins' = logins + 1
  /\ pc' = "failed"
  /\ UNCHANGED <<site, row, attempt, tries, reading, cutOff>>

-----------------------------------------------------------------------------
(* The site. *)

Expire ==
  /\ session
  /\ session' = FALSE
  /\ UNCHANGED <<head, row, pc, attempt, tries, reading, logins, cutOff>>

Publish ==
  /\ head < Oldest + MaxGrow
  /\ head' = head + 1
  /\ UNCHANGED <<session, row, pc, attempt, tries, reading, logins, cutOff>>

-----------------------------------------------------------------------------
Step ==
  \/ Answered \/ RequestFails \/ Unusable \/ Refused
  \/ LoggedOut \/ LogIn \/ LoginRejected

Next == Step \/ Expire \/ Publish

\* collect has come back.
Over == pc \in Ended

-----------------------------------------------------------------------------
(* Properties *)

\* "Keep requesting until the result is complete": what collect returns has
\* every record the source held when it began, none of them clipped at a seam,
\* unless max_pages cut it off.
Complete ==
  (pc = "returned" /\ ~cutOff) => \A i \in 1..Oldest : got[i] = "whole"

\* "A wrong password must not turn into a login loop that locks the account":
\* however often the session expires, the site answers the login row once.
\* (fetch may have sent it up to three times until then, as it does any
\* request that gets no answer: dynamic.py:425-435.)
LoginOnce == logins <= 1
=============================================================================
