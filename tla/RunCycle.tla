------------------------------ MODULE RunCycle ------------------------------
(***************************************************************************)
(* One timer-driven process executing the pending jobs of one cycle:       *)
(* run_cycle, _run_deferred, _login_rows_first, _HostIndex and _FailStreak *)
(* of src/app/services/execution.py, run again every time the timer fires. *)
(*                                                                         *)
(* A call of _execute_job is one step here, and the reply it met is chosen *)
(* from the outcomes the source tells apart; what happens inside the       *)
(* database transaction is the subject of JobTxn.                          *)
(***************************************************************************)
EXTENDS Integers, Sequences, FiniteSets

CONSTANTS
  Jobs,            \* the ApiJob rows of this execution_cycle
  Apis,            \* the ApiMst rows
  Hosts,           \* hosts that may answer with a refusal page
  NoHost,          \* the "" of _HostIndex.of: no such api row, or no url
  NoLogin,         \* a row without response_parse_json['login']
  ApiOf,           \* job.api_id
  HostOf,          \* the host of the api's own url
  LoginOf,         \* response_parse_json['login'], or NoLogin
  Contacts,        \* hosts whose refusal a request of this api may carry: its
                   \* own, its login row's, wherever either one redirects
  SessionRows,     \* apis whose response_type is 'session'
  Repeated,        \* is_repeated_api
  EmptyIsPending,  \* response_parse_json['empty_is_pending']
  Replies,         \* job -> the replies its source may give
  Deletable,       \* apis somebody may delete through the CRUD router
  Limit            \* _FAIL_STREAK_LIMIT

Reply == {"data", "empty", "error", "refusal"}

ASSUME RowsAssumption ==
  /\ NoHost \notin Hosts
  /\ NoLogin \notin Apis
  /\ ApiOf \in [Jobs -> Apis]
  /\ HostOf \in [Apis -> Hosts \cup {NoHost}]
  /\ LoginOf \in [Apis -> Apis \cup {NoLogin}]
  /\ Contacts \in [Apis -> SUBSET Hosts]
  /\ Replies \in [Jobs -> (SUBSET Reply) \ {{}}]
  /\ \A j \in Jobs : "refusal" \in Replies[j] => Contacts[ApiOf[j]] # {}
  /\ SessionRows \subseteq Apis
  /\ Repeated \subseteq Apis
  /\ EmptyIsPending \subseteq Apis
  /\ Deletable \subseteq Apis

ASSUME LimitAssumption == Limit \in Int

ASSUME FiniteAssumption == IsFiniteSet(Jobs)

VARIABLES
  \* ---- the database ----
  present,   \* the ApiMst rows that exist
  active,    \* the jobs with is_active = True
  \* ---- the process ----
  phase,
  todo,      \* scanned jobs the main loop has not reached
  known,     \* apis whose host _HostIndex has cached
  loginApis, \* login_apis of _login_rows_first, read after the scan
  streak,    \* _FailStreak._streak
  skipped,   \* the jobs behind the counters of _FailStreak.skipped
  setAside,  \* the keys of the dict `deferred` still to be tried again
  deferred,  \* its values: the jobs put off for each host, in order
  host,      \* the host _run_deferred is working on
  pending,   \* what is left of that host's jobs
  \* ---- history of the current cycle, read by no action ----
  scanned,   \* the jobs the scan returned
  tried,     \* how often each was sent
  last,      \* how the last attempt of each ended
  refusals,  \* how many refusal pages each host served
  left       \* the jobs given up with their host

dbVars      == <<present, active>>
passVars    == <<host, pending, left>>
historyVars == <<scanned, tried, last, refusals, left>>
vars == <<present, active, phase, todo, known, loginApis, streak, skipped,
          setAside, deferred, host, pending, scanned, tried, last, refusals,
          left>>

Elems(s) == {s[i] : i \in DOMAIN s}

Phase   == {"idle", "main", "cool", "login", "deferred", "done", "aborted"}
Ending  == {"none", "done", "empty", "failed", "refused"}
Settled == {"done", "empty", "failed"}

TypeOK ==
  /\ present \subseteq Apis
  /\ active \subseteq Jobs
  /\ phase \in Phase
  /\ todo \subseteq Jobs
  /\ known \subseteq Apis
  /\ loginApis \subseteq SessionRows
  /\ streak \in [Apis -> Nat]
  /\ skipped \subseteq Jobs
  /\ setAside \subseteq Hosts
  /\ deferred \in [Hosts -> Seq(Jobs)]
  /\ host \in Hosts \cup {NoHost}
  /\ pending \in Seq(Jobs)
  /\ scanned \subseteq Jobs
  /\ tried \in [Jobs -> Nat]
  /\ last \in [Jobs -> Ending]
  /\ refusals \in [Hosts -> Nat]
  /\ left \subseteq Jobs

Init ==
  /\ present = Apis
  /\ active = Jobs
  /\ phase = "idle"
  /\ todo = {}
  /\ known = {}
  /\ loginApis = {}
  /\ streak = [a \in Apis |-> 0]
  /\ skipped = {}
  /\ setAside = {}
  /\ deferred = [h \in Hosts |-> <<>>]
  /\ host = NoHost
  /\ pending = <<>>
  /\ scanned = {}
  /\ tried = [j \in Jobs |-> 0]
  /\ last = [j \in Jobs |-> "none"]
  /\ refusals = [h \in Hosts |-> 0]
  /\ left = {}

-----------------------------------------------------------------------------
(* What the loop consults. *)

\* Any order the database may return, the login rows sorted in front: the next
\* job is a login row as long as one is left.  A row deleted before the cycle
\* began is no login row any more.
NextInOrder(j) ==
  /\ j \in todo
  /\ ApiOf[j] \in loginApis \/ \A k \in todo : ApiOf[k] \notin loginApis

\* Faulty variant: one failure too late.
TrippedLate(a) == Limit > 0 /\ streak[a] > Limit

\* A streak of Limit failures; 0 or less disables the breaker.
Tripped(a) == Limit > 0 /\ streak[a] >= Limit

\* hosts.of(job): the cached host, else the url of the row as it is now.
SeenHost(a) == IF a \in known \cup present THEN HostOf[a] ELSE NoHost

-----------------------------------------------------------------------------
(* One call of _execute_job that reaches its source, by how it ends. *)

\* An empty reply is a real answer for most rows.
Succeed(j) ==
  /\ \/ "data" \in Replies[j]
     \/ "empty" \in Replies[j] /\ ApiOf[j] \notin EmptyIsPending \ Repeated
  /\ last' = [last EXCEPT ![j] = "done"]
  /\ active' = IF ApiOf[j] \in Repeated THEN active ELSE active \ {j}
  /\ streak' = [streak EXCEPT ![ApiOf[j]] = 0]

\* pending_empty: logged as a success, but the job stays active.
ComeUpEmpty(j) ==
  /\ "empty" \in Replies[j]
  /\ ApiOf[j] \in EmptyIsPending \ Repeated
  /\ last' = [last EXCEPT ![j] = "empty"]
  /\ streak' = [streak EXCEPT ![ApiOf[j]] = 0]
  /\ UNCHANGED active

Fail(j) ==
  /\ "error" \in Replies[j]
  /\ last' = [last EXCEPT ![j] = "failed"]
  /\ streak' = [streak EXCEPT ![ApiOf[j]] = @ + 1]
  /\ UNCHANGED active

\* SiteBlocked: logged, handed up, and not counted by the breaker.
Refuse(j, h) ==
  /\ "refusal" \in Replies[j]
  /\ h \in Contacts[ApiOf[j]]
  /\ last' = [last EXCEPT ![j] = "refused"]
  /\ refusals' = [refusals EXCEPT ![h] = @ + 1]
  /\ UNCHANGED <<active, streak>>

Send(j) ==
  /\ ApiOf[j] \in present
  /\ tried' = [tried EXCEPT ![j] = @ + 1]

-----------------------------------------------------------------------------
(* The main loop of run_cycle. *)

\* The timer starts a fresh process: it scans once, and remembers nothing of
\* the run before.
Scan ==
  /\ phase \in {"idle", "done", "aborted"}
  /\ phase' = "main"
  /\ todo' = active
  /\ scanned' = active
  /\ known' = {}
  /\ loginApis' = SessionRows \cap present
  /\ streak' = [a \in Apis |-> 0]
  /\ skipped' = {}
  /\ setAside' = {}
  /\ deferred' = [h \in Hosts |-> <<>>]
  /\ host' = NoHost
  /\ pending' = <<>>
  /\ tried' = [j \in Jobs |-> 0]
  /\ last' = [j \in Jobs |-> "none"]
  /\ refusals' = [h \in Hosts |-> 0]
  /\ left' = {}
  /\ UNCHANGED dbVars

SkipJob(j) ==
  /\ phase = "main"
  /\ NextInOrder(j)
  /\ Tripped(ApiOf[j])
  /\ todo' = todo \ {j}
  /\ skipped' = skipped \cup {j}
  /\ UNCHANGED <<dbVars, phase, known, loginApis, streak, setAside, deferred,
                 passVars, scanned, tried, last, refusals>>

\* Faulty variant: the job is kept, the host not recognised again.
SetAsideUnmarked(j, h) ==
  /\ deferred' = [deferred EXCEPT ![h] = Append(@, j)]
  /\ UNCHANGED setAside

\* Faulty variant: an empty list for the host.
SetAsideWithoutJob(j, h) ==
  /\ setAside' = setAside \cup {h}
  /\ UNCHANGED deferred

\* deferred.setdefault(host, []).append(job)
SetAside(j, h) ==
  /\ setAside' = setAside \cup {h}
  /\ deferred' = [deferred EXCEPT ![h] = Append(@, j)]

PutOff(j) ==
  LET h == SeenHost(ApiOf[j]) IN
  /\ phase = "main"
  /\ NextInOrder(j)
  /\ ~Tripped(ApiOf[j])
  /\ h \in setAside
  /\ todo' = todo \ {j}
  /\ known' = known \cup {ApiOf[j]}
  /\ SetAside(j, h)
  /\ UNCHANGED <<dbVars, phase, loginApis, streak, skipped, passVars,
                 scanned, tried, last, refusals>>

RunJob(j) ==
  /\ phase = "main"
  /\ NextInOrder(j)
  /\ ~Tripped(ApiOf[j])
  /\ SeenHost(ApiOf[j]) \notin setAside
  /\ Send(j)
  /\ todo' = todo \ {j}
  /\ known' = known \cup {ApiOf[j]}
  /\ \/ /\ Succeed(j) \/ ComeUpEmpty(j) \/ Fail(j)
        /\ UNCHANGED <<setAside, deferred, refusals>>
     \/ \E h \in Hosts : Refuse(j, h) /\ SetAside(j, h)
  /\ UNCHANGED <<present, phase, loginApis, skipped, passVars, scanned>>

\* No ApiMst row: the ValueError of _execute_job is raised outside its try, no
\* caller catches it, and the process ends here.
OrphanAborts(j) ==
  /\ ApiOf[j] \notin present
  /\ \/ /\ phase = "main"
        /\ NextInOrder(j)
        /\ SeenHost(ApiOf[j]) \notin setAside
     \/ /\ phase = "deferred"
        /\ pending # <<>>
        /\ j = Head(pending)
  /\ ~Tripped(ApiOf[j])
  /\ phase' = "aborted"
  /\ UNCHANGED <<dbVars, todo, known, loginApis, streak, skipped, setAside,
                 deferred, passVars, scanned, tried, last, refusals>>

EndMainLoop ==
  /\ phase = "main"
  /\ todo = {}
  /\ phase' = "cool"
  /\ UNCHANGED <<dbVars, todo, known, loginApis, streak, skipped, setAside,
                 deferred, passVars, scanned, tried, last, refusals>>

-----------------------------------------------------------------------------
(* _run_deferred, once for each host set aside.  The dict's order is left  *)
(* open: any host may be next.                                             *)

\* time.sleep(_BLOCK_COOLDOWN_SEC) is over for h.
WakeUp(h) ==
  /\ phase = "cool"
  /\ h \in setAside
  /\ phase' = "login"
  /\ host' = h
  /\ pending' = deferred[h]
  /\ setAside' = setAside \ {h}
  /\ deferred' = [deferred EXCEPT ![h] = <<>>]
  /\ UNCHANGED <<dbVars, todo, known, loginApis, streak, skipped, historyVars>>

LoginRow == IF ApiOf[Head(pending)] \in present
            THEN LoginOf[ApiOf[Head(pending)]] ELSE NoLogin

\* Nothing to log in with, or the login went through.
LoggedIn ==
  /\ phase = "login"
  /\ LoginRow \in present \cup {NoLogin}
  /\ phase' = "deferred"
  /\ UNCHANGED <<dbVars, todo, known, loginApis, streak, skipped, setAside,
                 deferred, passVars, scanned, tried, last, refusals>>

\* Faulty variant: only the refused job is given up.
GiveUpJob ==
  /\ phase' = "deferred"
  /\ left' = left \cup {Head(pending)}
  /\ pending' = Tail(pending)
  /\ UNCHANGED <<present, todo, known, loginApis, skipped, setAside, deferred,
                 host, scanned>>

\* Faulty variant: another cool-down and another pass.
TryAgainLater ==
  /\ phase' = "cool"
  /\ setAside' = setAside \cup {host}
  /\ deferred' = [deferred EXCEPT ![host] = pending]
  /\ pending' = <<>>
  /\ UNCHANGED <<present, todo, known, loginApis, skipped, host, scanned, left>>

\* The rest of the host's jobs, the refused one included, are not tried again.
GiveUpHost ==
  /\ phase' = "cool"
  /\ left' = left \cup Elems(pending)
  /\ pending' = <<>>
  /\ UNCHANGED <<present, todo, known, loginApis, skipped, setAside, deferred,
                 host, scanned>>

\* Any exception out of the login gives the host up; a refusal is one of them.
LoginFails ==
  /\ phase = "login"
  /\ LoginRow # NoLogin
  /\ \/ UNCHANGED refusals
     \/ \E h \in Hosts :
          /\ LoginRow \in present
          /\ h \in Contacts[LoginRow]
          /\ refusals' = [refusals EXCEPT ![h] = @ + 1]
  /\ GiveUpHost
  /\ UNCHANGED <<active, streak, tried, last>>

\* Faulty variant: the same job again.
StayOnJob == UNCHANGED pending

\* The pass goes on with the next job, whatever became of this one.
PassOn == pending' = Tail(pending)

SkipDeferredJob ==
  /\ phase = "deferred"
  /\ pending # <<>>
  /\ Tripped(ApiOf[Head(pending)])
  /\ skipped' = skipped \cup {Head(pending)}
  /\ PassOn
  /\ UNCHANGED <<dbVars, phase, todo, known, loginApis, streak, setAside,
                 deferred, host, historyVars>>

RunDeferredJob ==
  LET j == Head(pending) IN
  /\ phase = "deferred"
  /\ pending # <<>>
  /\ ~Tripped(ApiOf[j])
  /\ Send(j)
  /\ \/ /\ Succeed(j) \/ ComeUpEmpty(j) \/ Fail(j)
        /\ PassOn
        /\ UNCHANGED <<present, phase, todo, known, loginApis, skipped,
                       setAside, deferred, host, scanned, refusals, left>>
     \/ \E h \in Hosts : Refuse(j, h) /\ GiveUpHost

EndDeferredPass ==
  /\ phase = "deferred"
  /\ pending = <<>>
  /\ phase' = "cool"
  /\ UNCHANGED <<dbVars, todo, known, loginApis, streak, skipped, setAside,
                 deferred, passVars, scanned, tried, last, refusals>>

Finish ==
  /\ phase = "cool"
  /\ setAside = {}
  /\ phase' = "done"
  /\ UNCHANGED <<dbVars, todo, known, loginApis, streak, skipped, setAside,
                 deferred, passVars, scanned, tried, last, refusals>>

-----------------------------------------------------------------------------
\* DELETE /crud/api-mst/{id}: no check for jobs that still name the row.
DeleteApi(a) ==
  /\ a \in Deletable \cap present
  /\ present' = present \ {a}
  /\ UNCHANGED <<active, phase, todo, known, loginApis, streak, skipped,
                 setAside, deferred, passVars, scanned, tried, last, refusals>>

CycleStep ==
  \/ Scan
  \/ \E j \in Jobs : SkipJob(j) \/ PutOff(j) \/ RunJob(j) \/ OrphanAborts(j)
  \/ EndMainLoop
  \/ \E h \in Hosts : WakeUp(h)
  \/ LoggedIn
  \/ LoginFails
  \/ SkipDeferredJob
  \/ RunDeferredJob
  \/ EndDeferredPass
  \/ Finish

Next == CycleStep \/ \E a \in Apis : DeleteApi(a)

Spec == Init /\ [][Next]_vars

\* The process takes its next step, and the timer starts the next process.
FairSpec == Spec /\ WF_vars(CycleStep)

-----------------------------------------------------------------------------
(* Properties *)

\* The requests of an api, and of the login row it names, can only be refused
\* by the host of the api's own url (no SSO page, no redirect elsewhere).
OwnHostOnly ==
  \A a \in Apis :
    /\ Contacts[a] \subseteq {HostOf[a]}
    /\ LoginOf[a] # NoLogin => Contacts[LoginOf[a]] \subseteq {HostOf[a]}

\* A refused host is asked for one more chance and no further: in one cycle it
\* serves at most one refusal in the main loop and one in its deferred pass.
AtMostTwoRefusals == \A h \in Hosts : refusals[h] <= 2

\* "A host that has refused us is set aside rather than hammered": while the
\* main loop runs, a host that has served a refusal does not serve another.
NotHammered == phase = "main" => \A h \in Hosts : refusals[h] <= 1

\* A job is sent at most once per cycle, except that a refused job is sent
\* once more in the deferred pass.
OneMoreChance ==
  [][\A j \in Jobs :
       (phase # "done" /\ tried'[j] > tried[j])
         => \/ tried[j] = 0
            \/ tried[j] = 1 /\ last[j] = "refused" /\ phase = "deferred"]_vars

\* Where a scanned job can be found; one element for each occurrence.
Whereabouts(j) ==
  {<<"todo">> : x \in {j} \cap todo}
    \cup {<<"deferred", o[1], o[2]>> :
            o \in {p \in Hosts \X (1..Cardinality(Jobs)) :
                     p[2] \in DOMAIN deferred[p[1]] /\ deferred[p[1]][p[2]] = j}}
    \cup {<<"pending", i>> : i \in {n \in DOMAIN pending : pending[n] = j}}
    \cup {<<"settled">> : x \in {k \in {j} : last[k] \in Settled}}
    \cup {<<"skipped">> : x \in {j} \cap skipped}
    \cup {<<"left">> : x \in {j} \cap left}

\* No pending job is forgotten or handled twice: at every moment of a cycle it
\* is in exactly one place, and once the cycle is done that place is one of
\* executed, skipped by the breaker, or given up with its host.
EveryJobAccountedFor ==
  /\ \A j \in scanned : Cardinality(Whereabouts(j)) = 1
  /\ phase = "done" =>
       \A j \in scanned : last[j] \in Settled \/ j \in skipped \cup left

Executed(a, endings) == {j \in Jobs : ApiOf[j] = a /\ last[j] \in endings}

\* A dead source costs at most Limit failures per cycle, whichever of the two
\* loops meets them.
DeadSourceCost ==
  Limit > 0 =>
    \A a \in Apis : Executed(a, {"done", "empty"}) = {}
                      => Cardinality(Executed(a, {"failed"})) <= Limit

\* A cycle that has started comes to an end.
CycleEnds == phase = "main" ~> phase \in {"done", "aborted"}

\* run_cycle says of jobs it did not try, refused or dropped with their api,
\* that "the jobs stay active and the next cycle picks them up": a one-shot job
\* whose source always answers it is executed in the end, in this cycle or a
\* later one, whatever the other jobs run into.
Reliable == {j \in Jobs : Replies[j] = {"data"} /\ ApiOf[j] \notin Repeated}
WorkingJobsFinish == \A j \in Reliable : <>(j \notin active)
=============================================================================
