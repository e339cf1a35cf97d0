------------------------------ MODULE JobLedger ------------------------------
(***************************************************************************)
(* What running a job promises, with every execution as a single step: the *)
(* result rows, the job row and the log entry change together or only the  *)
(* failure is recorded.  JobTxn, the transaction as execution.py performs  *)
(* it, is shown to implement this.                                         *)
(***************************************************************************)
EXTENDS Integers

CONSTANTS
  Jobs,        \* ApiJob rows
  Tables,      \* result tables
  Outputs,     \* the tables of api.output_tables_json, per job
  Overwrite,   \* jobs with save_mode = 'overwrite'; the others append
  Repeated,    \* jobs of a repeated api, never flipped inactive
  EmptyIsPending,
  Generic,     \* the tables that keep a raw reply (api_rst)
  Runs         \* identities of executions

VARIABLES
  jobs,    \* the ApiJob rows that exist
  active,  \* those with is_active = True
  rows,    \* committed result rows
  log      \* committed ApiJobLog rows
ledger == <<jobs, active, rows, log>>

Row   == [job : Jobs, table : Tables, run : Runs]
Entry == [job : Jobs, run : Runs, status : {"SUCCESS", "FAILED"}]

RowsOf(j)        == {x \in rows : x.job = j}
Produce(j, r, T) == {[job |-> j, table |-> t, run |-> r] : t \in T}
Logged(j, r, s)  == [job |-> j, run |-> r, status |-> s]
Fresh(r)         == \A e \in log : e.run # r

\* A one-shot job is done for good once it succeeds, unless an empty reply
\* means "not yet" for it; the raw reply kept in api_rst is not data.
StaysActive(j, T) == j \in Repeated \/ (j \in EmptyIsPending /\ T \subseteq Generic)

Init ==
  /\ jobs = Jobs
  /\ active = Jobs
  /\ rows = {}
  /\ log = {}

\* Run r of job j brings data for the tables T.  Its row need not be there any
\* longer: an execution under way when the job was deleted may still succeed.
Success(j, r, T) ==
  /\ Fresh(r)
  /\ T \subseteq Outputs[j]
  /\ rows' = (IF j \in Overwrite THEN rows \ RowsOf(j) ELSE rows)
               \cup Produce(j, r, T)
  /\ active' = IF StaysActive(j, T) THEN active ELSE active \ {j}
  /\ log' = log \cup {Logged(j, r, "SUCCESS")}
  /\ UNCHANGED jobs

Failure(j, r) ==
  /\ Fresh(r)
  /\ log' = log \cup {Logged(j, r, "FAILED")}
  /\ UNCHANGED <<jobs, active, rows>>

\* Another process takes the job out of the scan (sp_retire_expired_jobs) ...
Retire(j) ==
  /\ active' = active \ {j}
  /\ UNCHANGED <<jobs, rows, log>>

\* ... or deletes its row, through the CRUD router.
Delete(j) ==
  /\ jobs' = jobs \ {j}
  /\ active' = active \ {j}
  /\ UNCHANGED <<rows, log>>

Next ==
  \E j \in Jobs :
    \/ \E r \in Runs : Failure(j, r) \/ \E T \in SUBSET Tables : Success(j, r, T)
    \/ Retire(j)
    \/ Delete(j)

Spec == Init /\ [][Next]_ledger
=============================================================================
