---------------------------- MODULE JobLifecycle ----------------------------
(***************************************************************************)
(* The life of the ApiJob rows over the days: generated by the builders    *)
(* (job_builder.py), closed by a success (execution.py), retired by        *)
(* sp_retire_expired_jobs, purged by sp_purge_jobs, while                  *)
(* sp_purge_job_logs shortens the history the retirement reads.            *)
(*                                                                         *)
(* An api has a key_params_list, so job_id follows from the parameters     *)
(* (without one every generation makes new jobs).  Times are days.         *)
(***************************************************************************)
EXTENDS Integers, FiniteSets

CONSTANTS
  Apis, Builders,
  ApiOf,          \* builder.api_id
  Params, Keys,   \* parameter sets, and what key_params_list names of them
  KeyOf,          \* parameter set -> key
  DateOf,         \* BASDD or trdDd of a parameter set, or the last trading
                  \* day of the contract it names
  Expansion,      \* builder -> day -> the parameter sets of its axes
  Generators,     \* processes of generate-jobs, requests of /jobs/generate
  Batches,        \* sets of builders generated together
  Repeated,       \* is_repeated_api
  EmptyIsPending, \* response_parse_json['empty_is_pending']
  Contracts,      \* apis of the cycles 3m_call and 3m_put
  Stale,          \* apis whose old jobs are let go (KRX_ETF_PDF)
  Window,         \* the 7 days of the retirement rules
  DeadDays,       \* days with a failure that make a source dead
  JobDays,        \* p_days of sp_purge_jobs
  OkDays,         \* p_ok_days and
  FailDays,       \* p_fail_days of sp_purge_job_logs
  ByHand,         \* somebody may run or reopen a job during a purge
  MaxDay,         \* bound: days
  MaxRuns         \* bound: executions

Day  == 1..MaxDay
Id   == [api : Apis, key : Keys]
Entry == [job : Id, day : Day, ok : BOOLEAN]
NoBuilder == "-"

ASSUME LifecycleAssumption ==
  /\ ApiOf \in [Builders -> Apis] /\ NoBuilder \notin Builders
  /\ KeyOf \in [Params -> Keys]
  /\ DateOf \in [Params -> Int]
  /\ Expansion \in [Builders -> [Day -> SUBSET Params]]
  /\ Batches \subseteq SUBSET Builders
  /\ Contracts \subseteq Repeated
  /\ Repeated \cap (EmptyIsPending \cup Stale) = {}
  /\ Window \in Nat /\ DeadDays \in Nat \ {0}
  /\ JobDays \in Nat /\ OkDays \in Nat /\ FailDays \in Nat
  /\ ByHand \in BOOLEAN
  /\ MaxDay \in Nat \ {0} /\ MaxRuns \in Nat

\* A builder's dates move on, or its query leaves out what the tables have: what
\* it, or another builder of its api, has asked for is not asked for again once
\* the purge may have come.
ASSUME LookbackAssumption ==
  \A b, c \in Builders : \A d, e \in Day :
    (/\ ApiOf[b] = ApiOf[c] /\ ApiOf[b] \notin Repeated
     /\ Expansion[b][d] \cap Expansion[c][e] # {}) => e - d <= JobDays

VARIABLES
  day,
  \* ---- api_job, api_job_log ----
  jobs, active,
  params,    \* job.params_json
  touched,   \* job.updated_at
  log,
  \* ---- each generation ----
  todo,      \* builders it has yet to come to
  building,  \* the builder at work
  wanted,    \* its param_sets
  staged,    \* those it found no job for
  \* ---- sp_purge_jobs ----
  old,       \* what its cursor still holds
  \* ---- history ----
  collected, \* one-shot work done: api and parameters
  wins,      \* api and day of every success
  runs       \* executions so far

rows       == <<jobs, active, params, touched, log>>
generation == <<todo, building, wanted, staged>>
history    == <<collected, wins, runs>>
vars == <<day, jobs, active, params, touched, log, todo, building, wanted,
          staged, old, collected, wins, runs>>

TypeOK ==
  /\ day \in Day
  /\ jobs \subseteq Id
  /\ active \subseteq jobs
  /\ params \in [jobs -> Params]
  /\ touched \in [jobs -> Day]
  /\ log \subseteq Entry /\ \A e \in log : e.job \in jobs
  /\ todo \in [Generators -> SUBSET Builders]
  /\ building \in [Generators -> Builders \cup {NoBuilder}]
  /\ wanted \in [Generators -> SUBSET Params]
  /\ staged \in [Generators -> SUBSET Params]
  /\ old \subseteq Id
  /\ collected \subseteq Apis \X Params
  /\ wins \subseteq Apis \X Day
  /\ runs \in 0..MaxRuns

Init ==
  /\ day = 1
  /\ jobs = {} /\ active = {}
  /\ params = <<>> /\ touched = <<>>
  /\ log = {}
  /\ todo = [g \in Generators |-> {}]
  /\ building = [g \in Generators |-> NoBuilder]
  /\ wanted = [g \in Generators |-> {}]
  /\ staged = [g \in Generators |-> {}]
  /\ old = {}
  /\ collected = {} /\ wins = {} /\ runs = 0

-----------------------------------------------------------------------------
(* generate_jobs, generate_all_jobs, generate_jobs_for_builder. *)

IdOf(a, p) == [api |-> a, key |-> KeyOf[p]]

Generate(g, B) ==
  /\ todo[g] = {} /\ building[g] = NoBuilder
  /\ B \in Batches
  /\ todo' = [todo EXCEPT ![g] = B]
  /\ UNCHANGED <<day, rows, building, wanted, staged, old, history>>

\* The exception ends the generation: the builders it had yet to come to make
\* no jobs.
Abandon(g) ==
  /\ todo' = [todo EXCEPT ![g] = {}]
  /\ building' = [building EXCEPT ![g] = NoBuilder]
  /\ wanted' = [wanted EXCEPT ![g] = {}]
  /\ staged' = [staged EXCEPT ![g] = {}]

\* Faulty variant: an existing job is a duplicate, whatever its parameters.
AmbiguousInBatch(a, P) ==
  \E p, q \in P : p # q /\ IdOf(a, p) = IdOf(a, q)

\* key_params_list is not specific enough: two parameter sets of this batch,
\* or one of them and an earlier job, have the same job_id.
Ambiguous(a, P) ==
  \/ \E p, q \in P : p # q /\ IdOf(a, p) = IdOf(a, q)
  \/ \E p \in P : IdOf(a, p) \in jobs /\ params[IdOf(a, p)] # p

\* build_jobs_from_builder up to its commit.  A query without rows and an
\* ambiguous key raise.
Build(g, b) ==
  LET P == Expansion[b][day]
      a == ApiOf[b] IN
  /\ b \in todo[g] /\ building[g] = NoBuilder
  /\ \/ /\ P = {} \/ Ambiguous(a, P)
        /\ Abandon(g)
     \/ /\ P # {} /\ ~Ambiguous(a, P)
        /\ todo' = [todo EXCEPT ![g] = @ \ {b}]
        /\ building' = [building EXCEPT ![g] = b]
        /\ wanted' = [wanted EXCEPT ![g] = P]
        /\ staged' = [staged EXCEPT ![g] = {p \in P : IdOf(a, p) \notin jobs}]
  /\ UNCHANGED <<day, rows, old, history>>

NewJobs(g) == {IdOf(ApiOf[building[g]], p) : p \in staged[g]}

\* One commit per builder.
CommitBuild(g) ==
  LET a == ApiOf[building[g]] IN
  /\ building[g] # NoBuilder
  /\ NewJobs(g) \cap jobs = {}
  /\ jobs' = jobs \cup NewJobs(g)
  /\ active' = active \cup NewJobs(g)
  /\ params' = [j \in jobs' |-> IF j \in jobs THEN params[j]
                                ELSE CHOOSE p \in staged[g] : IdOf(a, p) = j]
  /\ touched' = [j \in jobs' |-> IF j \in jobs THEN touched[j] ELSE day]
  /\ building' = [building EXCEPT ![g] = NoBuilder]
  /\ wanted' = [wanted EXCEPT ![g] = {}]
  /\ staged' = [staged EXCEPT ![g] = {}]
  /\ UNCHANGED <<day, log, todo, old, history>>

\* Another generation has inserted one of them: the primary key says no.
DuplicateKey(g) ==
  /\ building[g] # NoBuilder
  /\ NewJobs(g) \cap jobs # {}
  /\ Abandon(g)
  /\ UNCHANGED <<day, rows, old, history>>

-----------------------------------------------------------------------------
(* _execute_job, as far as the job row and the log go. *)

Logged(j, ok) == log \cup {[job |-> j, day |-> day, ok |-> ok]}

StaysActive(j, reply) ==
  j.api \in Repeated \/ (j.api \in EmptyIsPending /\ reply = "empty")

\* updated_at moves when a column does: when the job is closed, else only with a
\* new description.
Succeed(j, reply) ==
  /\ log' = Logged(j, TRUE)
  /\ wins' = wins \cup {<<j.api, day>>}
  /\ \/ /\ StaysActive(j, reply)
        /\ UNCHANGED <<active, collected>>
     \/ /\ ~StaysActive(j, reply)
        /\ active' = active \ {j}
        /\ collected' = collected \cup {<<j.api, params[j]>>}
  /\ \E d \in {touched[j], day} : /\ j \in active \ active' => d = day
                                 /\ touched' = [touched EXCEPT ![j] = d]
  /\ UNCHANGED <<day, jobs, params, generation, old>>

Fail(j) ==
  /\ log' = Logged(j, FALSE)
  /\ UNCHANGED <<day, jobs, active, params, touched, generation, old, collected,
                 wins>>

Execute(j) ==
  /\ runs < MaxRuns
  /\ runs' = runs + 1
  /\ Fail(j) \/ \E reply \in {"data", "empty"} : Succeed(j, reply)

RunPending(j) == j \in active /\ Execute(j)

-----------------------------------------------------------------------------
(* POST /jobs/run/{job_id} and PATCH /jobs/{job_id}, by hand. *)

HandsFree == ByHand \/ old = {}

RunFinished(j) ==
  /\ HandsFree
  /\ j \in jobs \ active
  /\ Execute(j)

\* is_active set again: the work is wanted once more.
Reopen(j) ==
  /\ HandsFree
  /\ j \in jobs \ active
  /\ active' = active \cup {j}
  /\ touched' = [touched EXCEPT ![j] = day]
  /\ collected' = collected \ {<<j.api, params[j]>>}
  /\ UNCHANGED <<day, jobs, params, log, generation, old, wins, runs>>

-----------------------------------------------------------------------------
(* sp_retire_expired_jobs *)

Expired(j) == j.api \in Contracts /\ DateOf[params[j]] < day

LetGo(j) == j.api \in Stale \cup EmptyIsPending /\ DateOf[params[j]] < day - Window

\* The log of the last days, joined with the jobs.
Recent(a) == {e \in log : e.job \in jobs /\ e.job.api = a /\ e.day >= day - Window}

\* Faulty variant: only pending jobs are joined, and a success closes its job.
LooksDeadPending(a) ==
  LET seen == {e \in Recent(a) : e.job \in active} IN
  /\ \A e \in seen : ~e.ok
  /\ Cardinality({e.day : e \in seen}) >= DeadDays

\* No success, and failures on DeadDays different days.
LooksDead(a) ==
  /\ \A e \in Recent(a) : ~e.ok
  /\ Cardinality({e.day : e \in Recent(a)}) >= DeadDays

\* Faulty variant: repeated jobs go with the others.
RetiredAll(j) == Expired(j) \/ LetGo(j) \/ LooksDead(j.api)

Retired(j) == Expired(j) \/ LetGo(j) \/ (LooksDead(j.api) /\ j.api \notin Repeated)

\* UPDATE in SQL: updated_at stays.
Retire ==
  /\ active' = {j \in active : ~Retired(j)}
  /\ UNCHANGED <<day, jobs, params, touched, log, generation, old, history>>

-----------------------------------------------------------------------------
(* sp_purge_jobs *)

\* Faulty variant: a day too soon.
OpenCursorSooner ==
  /\ old = {}
  /\ old' = {j \in jobs \ active :
               /\ touched[j] <= day - JobDays
               /\ \A e \in log : e.job = j => e.day <= day - JobDays}
  /\ UNCHANGED <<day, rows, generation, history>>

OpenCursor ==
  /\ old = {}
  /\ old' = {j \in jobs \ active :
               /\ touched[j] < day - JobDays
               /\ \A e \in log : e.job = j => e.day < day - JobDays}
  /\ UNCHANGED <<day, rows, generation, history>>

\* Faulty variant: the log is left to sp_purge_job_logs.
PurgeBatchOfJobs ==
  \E B \in SUBSET old :
    /\ B # {}
    /\ old' = old \ B
    /\ jobs' = jobs \ B
    /\ active' = active \ B
    /\ params' = [j \in jobs' |-> params[j]]
    /\ touched' = [j \in jobs' |-> touched[j]]
    /\ UNCHANGED <<day, log, generation, history>>

\* One batch, and its commit; what the cursor holds is not looked at again.
PurgeBatch ==
  \E B \in SUBSET old :
    /\ B # {}
    /\ old' = old \ B
    /\ log' = {e \in log : e.job \notin B}
    /\ jobs' = jobs \ B
    /\ active' = active \ B
    /\ params' = [j \in jobs' |-> params[j]]
    /\ touched' = [j \in jobs' |-> touched[j]]
    /\ UNCHANGED <<day, generation, history>>

PurgeStops ==
  /\ old # {}
  /\ old' = {}
  /\ UNCHANGED <<day, rows, generation, history>>

-----------------------------------------------------------------------------
(* sp_purge_job_logs: batch after batch, of what is old when it starts. *)

Outdated(e) == e.day < day - (IF e.ok THEN OkDays ELSE FailDays)

PurgeLogs ==
  /\ OkDays >= Window
  /\ \E E \in SUBSET {e \in log : Outdated(e)} : E # {} /\ log' = log \ E
  /\ UNCHANGED <<day, jobs, active, params, touched, generation, old, history>>

-----------------------------------------------------------------------------
\* A generation takes seconds; none goes past midnight.
NextDay ==
  /\ day < MaxDay
  /\ \A g \in Generators : todo[g] = {} /\ building[g] = NoBuilder
  /\ day' = day + 1
  /\ UNCHANGED <<rows, generation, old, history>>

Next ==
  \/ \E g \in Generators :
       \/ \E B \in Batches : Generate(g, B)
       \/ \E b \in Builders : Build(g, b)
       \/ CommitBuild(g)
       \/ DuplicateKey(g)
  \/ \E j \in Id : RunPending(j) \/ RunFinished(j) \/ Reopen(j)
  \/ Retire
  \/ OpenCursor \/ PurgeBatch \/ PurgeStops
  \/ PurgeLogs
  \/ NextDay

Spec == Init /\ [][Next]_vars

-----------------------------------------------------------------------------
(* Properties *)

\* "A shorter retention would retire sources that are collecting perfectly
\* well": whatever has been purged, a source that has succeeded within the
\* window is never taken for dead.
LivingSourceKept ==
  \A a \in Apis : LooksDead(a) => \A w \in wins : w[1] = a => w[2] < day - Window

\* A one-shot job that is done is done for good: no generation, on that day or
\* after its row has been purged, makes the same work pending again.
CollectedOnce == \A j \in active : <<j.api, params[j]>> \notin collected

\* A repeated job stays pending whatever its source answers and whoever
\* cleans up, a contract's until it has matured.
SnapshotKept ==
  \A j \in jobs :
    (j.api \in Repeated /\ (j.api \in Contracts => DateOf[params[j]] >= day))
      => j \in active

\* "Fail loudly rather than silently dropping one of them as a duplicate": a
\* builder whose jobs are committed has one for each of its parameter sets.
Represented ==
  [][\A g \in Generators :
       CommitBuild(g) =>
         \A p \in wanted[g] :
           \E j \in jobs' : j.api = ApiOf[building[g]] /\ params'[j] = p]_vars
=============================================================================
