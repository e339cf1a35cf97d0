------------------------------- MODULE JobTxn -------------------------------
(***************************************************************************)
(* _execute_job and run_and_save, step by step, as several processes run   *)
(* them against one database: the cycle processes of the systemd timers    *)
(* and the API server's POST /jobs/run/{job_id}.                           *)
(*                                                                         *)
(* The database is Oracle at READ COMMITTED: a statement sees what was     *)
(* committed when it started, a deleted row stays locked until its         *)
(* transaction ends, and a DELETE that had to wait is restarted on what    *)
(* was committed meanwhile.  Two transactions waiting for each other end   *)
(* with ORA-00060 in one of them.                                          *)
(***************************************************************************)
EXTENDS Integers, FiniteSets

CONSTANTS
  Jobs, Tables, Outputs, Overwrite, Repeated, EmptyIsPending,
  Generic,     \* tables with a result_json column: api_rst
  Cycles,      \* processes of run_cycle, one per execution_cycle
  Callers,     \* requests of POST /jobs/run/{job_id}
  CycleOf,     \* job.execution_cycle
  Retirable,   \* jobs somebody may deactivate while they are pending
  Deletable,   \* jobs somebody may delete
  MaxRuns,     \* bound: executions started
  MaxCrashes   \* bound: processes killed

Workers == Cycles \cup Callers
Runs    == 1..MaxRuns
NoJob   == "-"

ASSUME JobTxnAssumption ==
  /\ Outputs \in [Jobs -> SUBSET Tables]
  /\ CycleOf \in [Jobs -> Cycles]
  /\ NoJob \notin Jobs
  /\ MaxRuns \in Nat
  /\ MaxCrashes \in Nat

VARIABLES
  \* ---- committed ----
  jobs, active, rows, log,
  \* ---- on this machine's disk ----
  trail,     \* lines of the CSV buffers
  \* ---- each process, and its open transaction ----
  pc,
  scan,      \* what its scan of active jobs returned and it has yet to run
  seen,      \* jobs its session holds as read while they were pending
  job,       \* the job it is executing
  run,       \* the identity of that execution
  uncleared, \* tables _clear_previous_results has still to visit
  gone,      \* rows the transaction has deleted
  unstaged,  \* tables of the reply still to be staged
  staged,    \* rows the transaction has inserted
  \* ---- history ----
  started,   \* executions started so far
  reply,     \* the tables each execution's reply had records for
  retired,   \* jobs somebody else has deactivated
  crashes

committed == <<jobs, active, rows, log>>
txn       == <<seen, uncleared, gone, unstaged, staged>>
history   == <<started, reply, retired, crashes>>
vars == <<jobs, active, rows, log, trail, pc, scan, seen, job, run, uncleared,
          gone, unstaged, staged, started, reply, retired, crashes>>

Ledger == INSTANCE JobLedger
            WITH jobs <- jobs, active <- active, rows <- rows, log <- log

Row == Ledger!Row

TypeOK ==
  /\ jobs \subseteq Jobs
  /\ active \subseteq jobs
  /\ rows \subseteq Row
  /\ log \subseteq Ledger!Entry
  /\ trail \subseteq Row
  /\ pc \in [Workers -> {"idle", "clear", "stage", "failed"}]
  /\ scan \in [Workers -> SUBSET Jobs]
  /\ seen \in [Workers -> SUBSET Jobs]
  /\ job \in [Workers -> Jobs \cup {NoJob}]
  /\ run \in [Workers -> 0..MaxRuns]
  /\ uncleared \in [Workers -> SUBSET Tables]
  /\ gone \in [Workers -> SUBSET Row]
  /\ unstaged \in [Workers -> SUBSET Tables]
  /\ staged \in [Workers -> SUBSET Row]
  /\ started \in 0..MaxRuns
  /\ reply \in [Runs -> SUBSET Tables]
  /\ retired \subseteq Jobs
  /\ crashes \in 0..MaxCrashes

Init ==
  /\ Ledger!Init
  /\ trail = {}
  /\ pc = [w \in Workers |-> "idle"]
  /\ scan = [w \in Workers |-> {}]
  /\ seen = [w \in Workers |-> {}]
  /\ job = [w \in Workers |-> NoJob]
  /\ run = [w \in Workers |-> 0]
  /\ uncleared = [w \in Workers |-> {}]
  /\ gone = [w \in Workers |-> {}]
  /\ unstaged = [w \in Workers |-> {}]
  /\ staged = [w \in Workers |-> {}]
  /\ started = 0
  /\ reply = [r \in Runs |-> {}]
  /\ retired = {}
  /\ crashes = 0

-----------------------------------------------------------------------------
(* Choosing a job. *)

\* run_cycle reads the pending jobs once; the list is not looked at again.
ScanPending(w) ==
  /\ w \in Cycles
  /\ pc[w] = "idle"
  /\ scan[w] = {}
  /\ LET pending == {j \in active : CycleOf[j] = w}
     IN  scan' = [scan EXCEPT ![w] = pending] /\ seen' = [seen EXCEPT ![w] = pending]
  /\ UNCHANGED <<committed, trail, pc, job, run, uncleared, gone, unstaged,
                 staged, history>>

\* A caller names any job that exists, active or not.
Offered(w) == IF w \in Cycles THEN scan[w] ELSE jobs

\* A rollback expires what the session has read, a commit does not in the
\* session of run-cycle (expire_on_commit=False): a job the session no longer
\* holds is read again, as it stands now.
Start(w, j) ==
  /\ pc[w] = "idle"
  /\ j \in Offered(w)
  /\ j \in jobs \cup seen[w]
  /\ started < MaxRuns
  /\ started' = started + 1
  /\ pc' = [pc EXCEPT ![w] = "clear"]
  /\ scan' = [scan EXCEPT ![w] = @ \ {j}]
  /\ seen' = [seen EXCEPT ![w] = @ \cup ({j} \cap active)]
  /\ job' = [job EXCEPT ![w] = j]
  /\ run' = [run EXCEPT ![w] = started + 1]
  /\ uncleared' = [uncleared EXCEPT ![w] = IF j \in Overwrite THEN Outputs[j] ELSE {}]
  /\ UNCHANGED <<committed, trail, gone, unstaged, staged, reply, retired,
                 crashes>>

-----------------------------------------------------------------------------
(* _clear_previous_results: one DELETE per table, in no particular order   *)
(* (the loop is over a set of names), and no commit.                       *)

\* Faulty variant: no job_id in the WHERE clause.
MatchingAnyJob(w, t) == {x \in rows : x.table = t}

Matching(w, t) == {x \in rows : x.job = job[w] /\ x.table = t}

\* The transactions whose locks the DELETE on t would run into.
Blockers(w, t) == {v \in Workers \ {w} : gone[v] \cap Matching(w, t) # {}}

\* Faulty variant: a commit after each DELETE.
ClearAndCommit(w, t) ==
  /\ pc[w] = "clear"
  /\ t \in uncleared[w]
  /\ Blockers(w, t) = {}
  /\ rows' = rows \ Matching(w, t)
  /\ uncleared' = [uncleared EXCEPT ![w] = @ \ {t}]
  /\ UNCHANGED <<jobs, active, log, trail, pc, scan, seen, job, run, gone,
                 unstaged, staged, history>>

ClearTable(w, t) ==
  /\ pc[w] = "clear"
  /\ t \in uncleared[w]
  /\ Blockers(w, t) = {}
  /\ gone' = [gone EXCEPT ![w] = @ \cup Matching(w, t)]
  /\ uncleared' = [uncleared EXCEPT ![w] = @ \ {t}]
  /\ UNCHANGED <<committed, trail, pc, scan, seen, job, run, unstaged, staged,
                 history>>

Cleared(w) == pc[w] = "clear" /\ uncleared[w] = {}

-----------------------------------------------------------------------------
(* run_and_save: fetch, then stage selector by selector. *)

Fetch(w) ==
  /\ Cleared(w)
  /\ \E T \in SUBSET Outputs[job[w]] :
       /\ reply' = [reply EXCEPT ![run[w]] = T]
       /\ unstaged' = [unstaged EXCEPT ![w] = T]
  /\ pc' = [pc EXCEPT ![w] = "stage"]
  /\ UNCHANGED <<committed, trail, scan, seen, job, run, uncleared, gone,
                 staged, started, retired, crashes>>

\* Faulty variant: a commit after each table.
StageAndCommit(w, t) ==
  LET new == Ledger!Produce(job[w], run[w], {t}) IN
  /\ pc[w] = "stage"
  /\ t \in unstaged[w]
  /\ rows' = rows \cup new
  /\ trail' = IF t \in Generic THEN trail ELSE trail \cup new
  /\ unstaged' = [unstaged EXCEPT ![w] = @ \ {t}]
  /\ UNCHANGED <<jobs, active, log, pc, scan, seen, job, run, uncleared, gone,
                 staged, history>>

\* Faulty variant: rows that never reach the CSV buffer.
StageUnbuffered(w, t) ==
  /\ pc[w] = "stage"
  /\ t \in unstaged[w]
  /\ staged' = [staged EXCEPT ![w] = @ \cup Ledger!Produce(job[w], run[w], {t})]
  /\ unstaged' = [unstaged EXCEPT ![w] = @ \ {t}]
  /\ UNCHANGED <<committed, trail, pc, scan, seen, job, run, uncleared, gone,
                 history>>

\* The rows join the transaction.  Those of a typed table are also lines of its
\* CSV buffer, on disk at once; api_rst has no columns to buffer.
StageTable(w, t) ==
  LET new == Ledger!Produce(job[w], run[w], {t}) IN
  /\ pc[w] = "stage"
  /\ t \in unstaged[w]
  /\ staged' = [staged EXCEPT ![w] = @ \cup new]
  /\ trail' = IF t \in Generic THEN trail ELSE trail \cup new
  /\ unstaged' = [unstaged EXCEPT ![w] = @ \ {t}]
  /\ UNCHANGED <<committed, pc, scan, seen, job, run, uncleared, gone, history>>

Collected(w) == pc[w] = "stage" /\ unstaged[w] = {}

-----------------------------------------------------------------------------
(* How the execution ends. *)

\* The transaction is over and its locks are gone.
EndTxn(w) ==
  /\ uncleared' = [uncleared EXCEPT ![w] = {}]
  /\ gone' = [gone EXCEPT ![w] = {}]
  /\ unstaged' = [unstaged EXCEPT ![w] = {}]
  /\ staged' = [staged EXCEPT ![w] = {}]

Leave(w) ==
  /\ pc' = [pc EXCEPT ![w] = "idle"]
  /\ job' = [job EXCEPT ![w] = NoJob]
  /\ run' = [run EXCEPT ![w] = 0]

\* The process ends without handling the exception: what it had still to run
\* is forgotten, and a restart scans again.
Die(w) ==
  /\ EndTxn(w)
  /\ seen' = [seen EXCEPT ![w] = {}]
  /\ Leave(w)
  /\ scan' = [scan EXCEPT ![w] = {}]

\* The ApiJob row is written only where it changes.  With the same description
\* as before, a job that stays active, or was inactive when it was read, is not.
MayBeUnwritten(w) ==
  Ledger!StaysActive(job[w], reply[run[w]]) \/ job[w] \notin seen[w]

\* Result rows, ApiJob update and SUCCESS entry in one commit.  An unwritten row
\* is not missed when somebody has deleted it: rows and entry are committed.  The
\* session of a request ends with it.
Commit(w) ==
  LET j == job[w] IN
  /\ Collected(w)
  /\ j \in jobs \/ MayBeUnwritten(w)
  /\ rows' = (rows \ gone[w]) \cup staged[w]
  /\ active' = IF Ledger!StaysActive(j, reply[run[w]]) THEN active ELSE active \ {j}
  /\ log' = log \cup {Ledger!Logged(j, run[w], "SUCCESS")}
  /\ seen' = IF w \in Cycles THEN seen ELSE [seen EXCEPT ![w] = {}]
  /\ EndTxn(w)
  /\ Leave(w)
  /\ UNCHANGED <<jobs, trail, scan, history>>

\* Faulty variant: the session is not rolled back.
RollbackKeepsLocks(w) ==
  /\ Cleared(w) \/ pc[w] = "stage"
  /\ uncleared' = [uncleared EXCEPT ![w] = {}]
  /\ unstaged' = [unstaged EXCEPT ![w] = {}]
  /\ staged' = [staged EXCEPT ![w] = {}]
  /\ pc' = [pc EXCEPT ![w] = "failed"]
  /\ UNCHANGED <<committed, trail, scan, seen, job, run, gone, history>>

\* The fetch, a parser, an unknown table or the commit raises: rolled back.
Rollback(w) ==
  /\ Cleared(w) \/ pc[w] = "stage"
  /\ EndTxn(w)
  /\ seen' = [seen EXCEPT ![w] = {}]
  /\ pc' = [pc EXCEPT ![w] = "failed"]
  /\ UNCHANGED <<committed, trail, scan, job, run, history>>

\* Faulty variant: the is_active flip survives the failure.
LogFailedAsDone(w) ==
  /\ pc[w] = "failed"
  /\ job[w] \in jobs
  /\ log' = log \cup {Ledger!Logged(job[w], run[w], "FAILED")}
  /\ active' = active \ {job[w]}
  /\ Leave(w)
  /\ UNCHANGED <<jobs, rows, trail, scan, txn, history>>

\* The FAILED entry has a commit of its own.
LogFailed(w) ==
  /\ pc[w] = "failed"
  /\ job[w] \in jobs
  /\ log' = log \cup {Ledger!Logged(job[w], run[w], "FAILED")}
  /\ Leave(w)
  /\ UNCHANGED <<jobs, active, rows, trail, scan, txn, history>>

\* The job's row was deleted meanwhile.  Flushing its update (a description that
\* differs is enough) finds no row, and after the rollback so does every look
\* at the expired instance: the exception handler itself raises.
JobVanished(w) ==
  /\ Collected(w) \/ pc[w] = "failed"
  /\ job[w] \notin jobs
  /\ Die(w)
  /\ UNCHANGED <<committed, trail, history>>

\* Each waits for a row the other has deleted.  The DELETE raises ORA-00060
\* outside the try block.
Deadlock(w) ==
  /\ pc[w] = "clear"
  /\ \E t \in uncleared[w] : \E v \in Blockers(w, t) :
       /\ pc[v] = "clear"
       /\ \E u \in uncleared[v] : w \in Blockers(v, u)
  /\ Die(w)
  /\ UNCHANGED <<committed, trail, history>>

\* Nor is the row of a job the scan returned, once an earlier job's rollback has
\* expired it: the loop's own look at job.api_id raises.
ScanOutdated(w) ==
  /\ pc[w] = "idle"
  /\ \E j \in scan[w] : j \notin jobs \cup seen[w]
  /\ Die(w)
  /\ UNCHANGED <<committed, trail, history>>

Crash(w) ==
  /\ pc[w] # "idle"
  /\ crashes < MaxCrashes
  /\ crashes' = crashes + 1
  /\ Die(w)
  /\ UNCHANGED <<committed, trail, started, reply, retired>>

-----------------------------------------------------------------------------
(* Other processes. *)

\* sp_retire_expired_jobs, or a PATCH of is_active.
RetireJob(j) ==
  /\ j \in active \cap Retirable
  /\ active' = active \ {j}
  /\ retired' = retired \cup {j}
  /\ UNCHANGED <<jobs, rows, log, trail, pc, scan, job, run, txn, started,
                 reply, crashes>>

\* Faulty variant: the deleted job stays in the scan.
DeleteStillActive(j) ==
  /\ j \in jobs \cap Deletable
  /\ jobs' = jobs \ {j}
  /\ UNCHANGED <<active, rows, log, trail, pc, scan, job, run, txn, history>>

\* DELETE /jobs/{job_id}: the job's rows and log entries stay.
DeleteJob(j) ==
  /\ j \in jobs \cap Deletable
  /\ jobs' = jobs \ {j}
  /\ active' = active \ {j}
  /\ UNCHANGED <<rows, log, trail, pc, scan, job, run, txn, history>>

-----------------------------------------------------------------------------
Execution(w) ==
  \/ \E t \in Tables : ClearTable(w, t) \/ StageTable(w, t)
  \/ Fetch(w) \/ Commit(w) \/ Rollback(w) \/ LogFailed(w)
  \/ JobVanished(w) \/ Deadlock(w)

Next ==
  \/ \E w \in Workers :
       \/ ScanPending(w)
       \/ ScanOutdated(w)
       \/ \E j \in Jobs : Start(w, j)
       \/ Execution(w)
       \/ Crash(w)
  \/ \E j \in Jobs : RetireJob(j) \/ DeleteJob(j)

Spec == Init /\ [][Next]_vars

\* A process that is executing a job keeps going; the database resolves
\* deadlocks.  Nothing obliges anybody to start another execution.
FairSpec == Spec /\ \A w \in Workers : WF_vars(Execution(w))

-----------------------------------------------------------------------------
(* Properties *)

Succeeded(j, r) == Ledger!Logged(j, r, "SUCCESS") \in log
Kept(r) == {x.table : x \in {y \in rows : y.run = r}}

\* One change: of what a run collected, either every table's rows are in the
\* database or none (no longer, once a later run has replaced them).
WholeOrNothing == \A r \in Runs : Kept(r) \in {{}, reply[r]}

\* Whoever else runs the same job: a committed row comes from a run that is on
\* record as a SUCCESS, never from one that failed or was killed.
NothingHalfSaved == \A x \in rows : Succeeded(x.job, x.run)

\* An append job never loses what a successful run collected.
HistoryComplete ==
  \A e \in log : (e.status = "SUCCESS" /\ e.job \notin Overwrite)
                   => Kept(e.run) = reply[e.run]

\* "Replaced, or not touched": an overwrite job's rows are those of its last
\* successful run, whatever failed, crashed or was killed since.
ReplacedOrUntouched ==
  \A e \in log :
    (/\ e.status = "SUCCESS"
     /\ e.job \in Overwrite
     /\ \A d \in log : (d.job = e.job /\ d.status = "SUCCESS") => d.run <= e.run)
      => {x \in rows : x.job = e.job} = Ledger!Produce(e.job, e.run, reply[e.run])

\* A job leaves the pending set only because it succeeded or somebody retired
\* it; one whose every run failed is still there for the next cycle.
DoneMeansCollected ==
  \A j \in jobs \ active : j \in retired \/ \E r \in Runs : Succeeded(j, r)

\* The CSV buffers are a trail of what the typed tables hold, although the two
\* are written at different times and no transaction spans them.
TrailCovers == {x \in rows : x.table \notin Generic} \subseteq trail

\* No execution waits forever, not even for another one's locks.
ExecutionsEnd == \A w \in Workers : pc[w] = "clear" ~> pc[w] = "idle"

\* Each execution is one atomic step of the ledger.
LedgerSpec == Ledger!Spec
=============================================================================
