---------------------------- MODULE JobTxnProofs ----------------------------
(***************************************************************************)
(* Theorems about JobTxn, for every set of jobs, tables, cycle processes   *)
(* and API callers: what a transaction leaves behind, whoever else runs.   *)
(***************************************************************************)
EXTENDS JobTxn, TLAPS

\* A process that is executing a job holds the job and an identity handed out
\* by Start; only one that has neither failed nor ended has anything open.
Busy ==
  /\ \A w \in Workers : pc[w] # "idle" => job[w] \in Jobs /\ run[w] \in 1..started
  /\ \A w \in Workers : pc[w] \in {"idle", "failed"} => staged[w] = {} /\ gone[w] = {}
  /\ \A w \in Workers : pc[w] = "clear" => staged[w] = {}

-----------------------------------------------------------------------------
(* Type correctness. *)

LEMMA ProduceType ==
  ASSUME NEW j \in Jobs, NEW r \in Runs, NEW T \in SUBSET Tables
  PROVE  Ledger!Produce(j, r, T) \subseteq Row
  BY DEF Ledger!Produce, Row, Ledger!Row

LEMMA EntryType ==
  ASSUME NEW j \in Jobs, NEW r \in Runs, NEW s \in {"SUCCESS", "FAILED"}
  PROVE  Ledger!Logged(j, r, s) \in Ledger!Entry
  BY DEF Ledger!Logged, Ledger!Entry

LEMMA RunType ==
  ASSUME TypeOK, NEW w \in Workers, run[w] \in 1..started
  PROVE  run[w] \in Runs
  BY JobTxnAssumption DEF JobTxnAssumption, TypeOK, Runs

LEMMA LeaveType ==
  ASSUME TypeOK, NEW w \in Workers, Leave(w)
  PROVE  /\ pc' \in [Workers -> {"idle", "clear", "stage", "failed"}]
         /\ job' \in [Workers -> Jobs \cup {NoJob}]
         /\ run' \in [Workers -> 0..MaxRuns]
  BY JobTxnAssumption DEF JobTxnAssumption, Leave, TypeOK

LEMMA EndTxnType ==
  ASSUME TypeOK, NEW w \in Workers, EndTxn(w)
  PROVE  /\ uncleared' \in [Workers -> SUBSET Tables]
         /\ gone' \in [Workers -> SUBSET Row]
         /\ unstaged' \in [Workers -> SUBSET Tables]
         /\ staged' \in [Workers -> SUBSET Row]
  BY DEF EndTxn, TypeOK

LEMMA DieType ==
  ASSUME TypeOK, NEW w \in Workers, Die(w), UNCHANGED <<committed, trail>>,
         UNCHANGED <<started, reply, retired>>, crashes' \in 0..MaxCrashes
  PROVE  TypeOK'
  <1>1. scan' \in [Workers -> SUBSET Jobs] /\ seen' \in [Workers -> SUBSET Jobs]
    BY DEF Die, TypeOK
  <1> QED BY <1>1, LeaveType, EndTxnType DEF Die, TypeOK, committed

LEMMA TypeStep == TypeOK /\ Busy /\ [Next]_vars => TypeOK'
  <1> SUFFICES ASSUME TypeOK, Busy, [Next]_vars PROVE TypeOK'
    OBVIOUS
  <1> USE JobTxnAssumption DEF JobTxnAssumption
  <1>1. ASSUME NEW w \in Workers, ScanPending(w) PROVE TypeOK'
    BY <1>1 DEF ScanPending, TypeOK, committed, txn, history
  <1>2. ASSUME NEW w \in Workers, NEW j \in Jobs, Start(w, j) PROVE TypeOK'
    <2>1. started + 1 \in 0..MaxRuns
      BY <1>2 DEF Start, TypeOK
    <2>2. run' \in [Workers -> 0..MaxRuns] /\ started' \in 0..MaxRuns
      BY <1>2, <2>1 DEF Start, TypeOK
    <2>3. uncleared' \in [Workers -> SUBSET Tables]
      BY <1>2 DEF Start, TypeOK
    <2>4. scan' \in [Workers -> SUBSET Jobs] /\ seen' \in [Workers -> SUBSET Jobs]
      BY <1>2 DEF Start, TypeOK
    <2> QED BY <1>2, <2>2, <2>3, <2>4 DEF Start, TypeOK, committed
  <1>3. ASSUME NEW w \in Workers, NEW t \in Tables, ClearTable(w, t) PROVE TypeOK'
    <2>1. gone' \in [Workers -> SUBSET Row]
      BY <1>3 DEF ClearTable, Matching, TypeOK
    <2>2. uncleared' \in [Workers -> SUBSET Tables]
      BY <1>3 DEF ClearTable, TypeOK
    <2> QED BY <1>3, <2>1, <2>2 DEF ClearTable, TypeOK, committed, history
  <1>4. ASSUME NEW w \in Workers, NEW t \in Tables, StageTable(w, t) PROVE TypeOK'
    <2> DEFINE new == Ledger!Produce(job[w], run[w], {t})
    <2>1. new \subseteq Row
      <3>1. job[w] \in Jobs /\ run[w] \in Runs
        BY <1>4, RunType DEF StageTable, Busy
      <3> QED BY <3>1, ProduceType
    <2>2. /\ staged' = [staged EXCEPT ![w] = @ \cup new]
          /\ trail' \subseteq trail \cup new
      BY <1>4 DEF StageTable
    <2> HIDE DEF new
    <2>3. staged' \in [Workers -> SUBSET Row] /\ trail' \subseteq Row
      BY <2>1, <2>2 DEF TypeOK
    <2>4. unstaged' \in [Workers -> SUBSET Tables]
      BY <1>4 DEF StageTable, TypeOK
    <2> QED BY <1>4, <2>3, <2>4 DEF StageTable, TypeOK, committed, history
  <1>5. ASSUME NEW w \in Workers, Fetch(w) PROVE TypeOK'
    <2>1. job[w] \in Jobs /\ run[w] \in Runs
      BY <1>5, RunType DEF Fetch, Cleared, Busy
    <2>2. PICK T \in SUBSET Outputs[job[w]] :
            /\ reply' = [reply EXCEPT ![run[w]] = T]
            /\ unstaged' = [unstaged EXCEPT ![w] = T]
      BY <1>5 DEF Fetch
    <2>3. T \subseteq Tables
      BY <2>1, <2>2
    <2>4. reply' \in [Runs -> SUBSET Tables] /\ unstaged' \in [Workers -> SUBSET Tables]
      BY <2>2, <2>3 DEF TypeOK
    <2> QED BY <1>5, <2>4 DEF Fetch, TypeOK, committed
  <1>6. ASSUME NEW w \in Workers, Commit(w) PROVE TypeOK'
    <2>1. job[w] \in Jobs /\ run[w] \in Runs
      BY <1>6, RunType DEF Commit, Collected, Busy
    <2>2. log' \subseteq Ledger!Entry
      BY <1>6, <2>1, EntryType DEF Commit, TypeOK
    <2>3. rows' \subseteq Row /\ active' \subseteq jobs' /\ seen' \in [Workers -> SUBSET Jobs]
      BY <1>6 DEF Commit, TypeOK
    <2> QED
      BY <1>6, <2>2, <2>3, LeaveType, EndTxnType DEF Commit, TypeOK, history
  <1>7. ASSUME NEW w \in Workers, Rollback(w) PROVE TypeOK'
    BY <1>7, EndTxnType DEF Rollback, TypeOK, committed, history
  <1>8. ASSUME NEW w \in Workers, LogFailed(w) PROVE TypeOK'
    <2>1. job[w] \in Jobs /\ run[w] \in Runs
      BY <1>8, RunType DEF LogFailed, Busy
    <2>2. log' \subseteq Ledger!Entry
      BY <1>8, <2>1, EntryType DEF LogFailed, TypeOK
    <2> QED BY <1>8, <2>2, LeaveType DEF LogFailed, TypeOK, txn, history
  <1>9. ASSUME NEW w \in Workers, JobVanished(w) PROVE TypeOK'
    BY <1>9, DieType DEF JobVanished, history, TypeOK
  <1>10. ASSUME NEW w \in Workers, Deadlock(w) PROVE TypeOK'
    BY <1>10, DieType DEF Deadlock, history, TypeOK
  <1>11. ASSUME NEW w \in Workers, ScanOutdated(w) \/ Crash(w) PROVE TypeOK'
    <2>1. crashes' \in 0..MaxCrashes
      BY <1>11 DEF ScanOutdated, Crash, history, TypeOK
    <2> QED BY <1>11, <2>1, DieType DEF ScanOutdated, Crash, history
  <1>12. ASSUME NEW j \in Jobs, RetireJob(j) PROVE TypeOK'
    BY <1>12 DEF RetireJob, TypeOK, txn
  <1>13. ASSUME NEW j \in Jobs, DeleteJob(j) PROVE TypeOK'
    BY <1>13 DEF DeleteJob, TypeOK, txn, history
  <1>14. CASE UNCHANGED vars
    BY <1>14 DEF vars, TypeOK
  <1> QED
    BY <1>1, <1>2, <1>3, <1>4, <1>5, <1>6, <1>7, <1>8, <1>9, <1>10, <1>11,
       <1>12, <1>13, <1>14 DEF Next, Execution

LEMMA BusyStep == TypeOK /\ Busy /\ [Next]_vars => Busy'
  <1> SUFFICES ASSUME TypeOK, Busy, [Next]_vars PROVE Busy'
    OBVIOUS
  <1>1. ASSUME NEW w \in Workers, ScanPending(w) PROVE Busy'
    BY <1>1 DEF ScanPending, Busy, txn, history
  <1>2. ASSUME NEW w \in Workers, NEW j \in Jobs, Start(w, j) PROVE Busy'
    <2>1. started \in Nat /\ started' = started + 1
      BY <1>2, JobTxnAssumption DEF JobTxnAssumption, Start, TypeOK
    <2>2. \A v \in Workers : pc'[v] # "idle" => job'[v] \in Jobs /\ run'[v] \in 1..started'
      BY <1>2, <2>1 DEF Start, TypeOK, Busy
    <2> QED BY <1>2, <2>2 DEF Start, TypeOK, Busy
  <1>3. ASSUME NEW w \in Workers, NEW t \in Tables, ClearTable(w, t) PROVE Busy'
    BY <1>3 DEF ClearTable, TypeOK, Busy, history
  <1>4. ASSUME NEW w \in Workers, NEW t \in Tables, StageTable(w, t) PROVE Busy'
    BY <1>4 DEF StageTable, TypeOK, Busy, history
  <1>5. ASSUME NEW w \in Workers, Fetch(w) PROVE Busy'
    BY <1>5 DEF Fetch, Cleared, TypeOK, Busy
  <1>6. ASSUME NEW w \in Workers, EndTxn(w), Leave(w), started' = started PROVE Busy'
    BY <1>6 DEF EndTxn, Leave, TypeOK, Busy
  <1>7. ASSUME NEW w \in Workers, Commit(w) PROVE Busy'
    BY <1>6, <1>7 DEF Commit, history
  <1>8. ASSUME NEW w \in Workers, Rollback(w) PROVE Busy'
    BY <1>8 DEF Rollback, Cleared, EndTxn, TypeOK, Busy, history
  <1>9. ASSUME NEW w \in Workers, LogFailed(w) PROVE Busy'
    BY <1>9 DEF LogFailed, Leave, TypeOK, Busy, txn, history
  <1>10. ASSUME NEW w \in Workers, JobVanished(w) \/ Deadlock(w) \/ ScanOutdated(w) \/ Crash(w) PROVE Busy'
    BY <1>6, <1>10 DEF JobVanished, Deadlock, ScanOutdated, Crash, Die, history
  <1>11. ASSUME NEW j \in Jobs, RetireJob(j) \/ DeleteJob(j) PROVE Busy'
    BY <1>11 DEF RetireJob, DeleteJob, Busy, txn, history
  <1>12. CASE UNCHANGED vars
    BY <1>12 DEF vars, Busy
  <1> QED
    BY <1>1, <1>2, <1>3, <1>4, <1>5, <1>7, <1>8, <1>9, <1>10, <1>11, <1>12
    DEF Next, Execution

\* Every variable stays in its type: a transaction only ever touches rows,
\* tables and log entries that name existing jobs and executions.
THEOREM TxnTypeCorrect == Spec => []TypeOK
  <1>1. Init => TypeOK /\ Busy
    BY JobTxnAssumption DEF JobTxnAssumption, Init, Ledger!Init, TypeOK, Busy
  <1>2. TypeOK /\ Busy /\ [Next]_vars => (TypeOK /\ Busy)'
    BY TypeStep, BusyStep
  <1> QED BY <1>1, <1>2, PTL DEF Spec

-----------------------------------------------------------------------------
(* Transactions: what is staged, and what is deleted. *)

\* What a process has staged carries its own job and execution, and is already
\* in the CSV buffer if its table has one.
Tagged ==
  \A w \in Workers : \A x \in staged[w] :
    /\ x.job = job[w] /\ x.run = run[w]
    /\ x.table \in Generic \/ x \in trail

\* Only an overwrite job deletes, and only rows of its own.
ClearsOwn ==
  /\ \A w \in Workers : uncleared[w] # {} => pc[w] = "clear" /\ job[w] \in Overwrite
  /\ \A w \in Workers : \A x \in gone[w] : x.job \in Overwrite

LEMMA TaggedStep == TypeOK /\ Busy /\ Tagged /\ [Next]_vars => Tagged'
  <1> SUFFICES ASSUME TypeOK, Busy, Tagged, [Next]_vars PROVE Tagged'
    OBVIOUS
  <1>1. ASSUME NEW w \in Workers, ScanPending(w) PROVE Tagged'
    BY <1>1 DEF ScanPending, Tagged, txn
  <1>2. ASSUME NEW w \in Workers, NEW j \in Jobs, Start(w, j) PROVE Tagged'
    BY <1>2 DEF Start, TypeOK, Busy, Tagged
  <1>3. ASSUME NEW w \in Workers, NEW t \in Tables, ClearTable(w, t) PROVE Tagged'
    BY <1>3 DEF ClearTable, Tagged
  <1>4. ASSUME NEW w \in Workers, NEW t \in Tables, StageTable(w, t) PROVE Tagged'
    <2> DEFINE new == Ledger!Produce(job[w], run[w], {t})
    <2>1. \A x \in new : x.job = job[w] /\ x.run = run[w] /\ x.table = t
      BY DEF Ledger!Produce
    <2>2. /\ staged' = [staged EXCEPT ![w] = @ \cup new]
          /\ trail' = IF t \in Generic THEN trail ELSE trail \cup new
          /\ UNCHANGED <<job, run>>
      BY <1>4 DEF StageTable
    <2> HIDE DEF new
    <2> QED BY <2>1, <2>2 DEF TypeOK, Tagged
  <1>5. ASSUME NEW w \in Workers, Fetch(w) PROVE Tagged'
    BY <1>5 DEF Fetch, Tagged
  <1>6. ASSUME NEW w \in Workers, EndTxn(w), Leave(w), trail' = trail PROVE Tagged'
    BY <1>6 DEF EndTxn, Leave, TypeOK, Tagged
  <1>7. ASSUME NEW w \in Workers, Commit(w) PROVE Tagged'
    BY <1>6, <1>7 DEF Commit
  <1>8. ASSUME NEW w \in Workers, Rollback(w) PROVE Tagged'
    BY <1>8 DEF Rollback, EndTxn, TypeOK, Tagged
  <1>9. ASSUME NEW w \in Workers, LogFailed(w) PROVE Tagged'
    BY <1>9 DEF LogFailed, Leave, TypeOK, Busy, Tagged, txn
  <1>10. ASSUME NEW w \in Workers, JobVanished(w) \/ Deadlock(w) \/ ScanOutdated(w) \/ Crash(w) PROVE Tagged'
    BY <1>6, <1>10 DEF JobVanished, Deadlock, ScanOutdated, Crash, Die
  <1>11. ASSUME NEW j \in Jobs, RetireJob(j) \/ DeleteJob(j) PROVE Tagged'
    BY <1>11 DEF RetireJob, DeleteJob, Tagged, txn
  <1>12. CASE UNCHANGED vars
    BY <1>12 DEF vars, Tagged
  <1> QED
    BY <1>1, <1>2, <1>3, <1>4, <1>5, <1>7, <1>8, <1>9, <1>10, <1>11, <1>12
    DEF Next, Execution

LEMMA ClearsOwnStep == TypeOK /\ Busy /\ ClearsOwn /\ [Next]_vars => ClearsOwn'
  <1> SUFFICES ASSUME TypeOK, Busy, ClearsOwn, [Next]_vars PROVE ClearsOwn'
    OBVIOUS
  <1>1. ASSUME NEW w \in Workers, ScanPending(w) PROVE ClearsOwn'
    BY <1>1 DEF ScanPending, ClearsOwn, txn
  <1>2. ASSUME NEW w \in Workers, NEW j \in Jobs, Start(w, j) PROVE ClearsOwn'
    BY <1>2 DEF Start, TypeOK, ClearsOwn
  <1>3. ASSUME NEW w \in Workers, NEW t \in Tables, ClearTable(w, t) PROVE ClearsOwn'
    <2>1. \A x \in Matching(w, t) : x.job \in Overwrite
      BY <1>3 DEF ClearTable, Matching, ClearsOwn
    <2> QED BY <1>3, <2>1 DEF ClearTable, TypeOK, ClearsOwn
  <1>4. ASSUME NEW w \in Workers, NEW t \in Tables, StageTable(w, t) PROVE ClearsOwn'
    BY <1>4 DEF StageTable, ClearsOwn
  <1>5. ASSUME NEW w \in Workers, Fetch(w) PROVE ClearsOwn'
    BY <1>5 DEF Fetch, Cleared, TypeOK, ClearsOwn
  <1>6. ASSUME NEW w \in Workers, EndTxn(w), Leave(w) PROVE ClearsOwn'
    BY <1>6 DEF EndTxn, Leave, TypeOK, ClearsOwn
  <1>7. ASSUME NEW w \in Workers, Commit(w) PROVE ClearsOwn'
    BY <1>6, <1>7 DEF Commit
  <1>8. ASSUME NEW w \in Workers, Rollback(w) PROVE ClearsOwn'
    BY <1>8 DEF Rollback, EndTxn, TypeOK, ClearsOwn
  <1>9. ASSUME NEW w \in Workers, LogFailed(w) PROVE ClearsOwn'
    BY <1>9 DEF LogFailed, Leave, TypeOK, ClearsOwn, txn
  <1>10. ASSUME NEW w \in Workers, JobVanished(w) \/ Deadlock(w) \/ ScanOutdated(w) \/ Crash(w) PROVE ClearsOwn'
    BY <1>6, <1>10 DEF JobVanished, Deadlock, ScanOutdated, Crash, Die
  <1>11. ASSUME NEW j \in Jobs, RetireJob(j) \/ DeleteJob(j) PROVE ClearsOwn'
    BY <1>11 DEF RetireJob, DeleteJob, ClearsOwn, txn
  <1>12. CASE UNCHANGED vars
    BY <1>12 DEF vars, ClearsOwn
  <1> QED
    BY <1>1, <1>2, <1>3, <1>4, <1>5, <1>7, <1>8, <1>9, <1>10, <1>11, <1>12
    DEF Next, Execution

-----------------------------------------------------------------------------
(* Identities: no two executions, running or on record, are the same. *)

Identified ==
  /\ \A v, w \in Workers :
       (v # w /\ pc[v] # "idle" /\ pc[w] # "idle") => run[v] # run[w]
  /\ \A e \in log : e.run \in 1..started
  /\ \A e \in log : \A w \in Workers : pc[w] # "idle" => e.run # run[w]
  /\ \A d, e \in log : d.run = e.run => d = e

\* Leaving with an entry: the run's identity moves from the process to the log.
LEMMA IdentifiedLeave ==
  ASSUME TypeOK, Busy, Identified, NEW w \in Workers, pc[w] # "idle", Leave(w),
         started' = started, NEW s, log' = log \cup {Ledger!Logged(job[w], run[w], s)}
  PROVE  Identified'
  <1> DEFINE entry == Ledger!Logged(job[w], run[w], s)
  <1>1. entry.run = run[w]
    BY DEF Ledger!Logged
  <1>2. log' = log \cup {entry} /\ run[w] \in 1..started
    BY DEF Busy
  <1> HIDE DEF entry
  <1>3. pc' = [pc EXCEPT ![w] = "idle"] /\ run' = [run EXCEPT ![w] = 0]
    BY DEF Leave
  <1>4. \A v \in Workers : pc'[v] # "idle" => v # w /\ pc[v] # "idle" /\ run'[v] = run[v]
    BY <1>3 DEF TypeOK
  <1>5. \A e \in log : e.run # entry.run
    BY <1>1 DEF Identified
  <1>6. \A d, e \in log' : d.run = e.run => d = e
    BY <1>2, <1>5 DEF Identified
  <1>7. \A e \in log' : e.run \in 1..started'
    BY <1>1, <1>2 DEF Identified
  <1>8. \A v \in Workers : pc'[v] # "idle" => entry.run # run'[v]
    BY <1>1, <1>4 DEF Identified
  <1>9. \A e \in log' : \A v \in Workers : pc'[v] # "idle" => e.run # run'[v]
    BY <1>2, <1>4, <1>8 DEF Identified
  <1>10. \A u, v \in Workers :
           (u # v /\ pc'[u] # "idle" /\ pc'[v] # "idle") => run'[u] # run'[v]
    BY <1>4 DEF Identified
  <1> QED BY <1>6, <1>7, <1>9, <1>10 DEF Identified

LEMMA IdentifiedStep == TypeOK /\ Busy /\ Identified /\ [Next]_vars => Identified'
  <1> SUFFICES ASSUME TypeOK, Busy, Identified, [Next]_vars PROVE Identified'
    OBVIOUS
  <1>1. ASSUME NEW w \in Workers, ScanPending(w) PROVE Identified'
    BY <1>1 DEF ScanPending, Identified, committed, history
  <1>2. ASSUME NEW w \in Workers, NEW j \in Jobs, Start(w, j) PROVE Identified'
    <2>1. /\ started \in Nat /\ started' = started + 1 /\ log' = log
          /\ pc' = [pc EXCEPT ![w] = "clear"]
          /\ run' = [run EXCEPT ![w] = started + 1]
      BY <1>2, JobTxnAssumption DEF JobTxnAssumption, Start, TypeOK, committed
    <2>2. \A v \in Workers : v # w => pc'[v] = pc[v] /\ run'[v] = run[v]
      BY <2>1 DEF TypeOK
    <2>3. \A v \in Workers : pc[v] # "idle" => run[v] < run'[w]
      BY <2>1 DEF TypeOK, Busy
    <2>4. \A e \in log' : e.run \in 1..started' /\ e.run < run'[w]
      BY <2>1 DEF TypeOK, Identified
    <2>5. \A v \in Workers : v # w /\ pc'[v] # "idle" => run'[v] # run'[w]
      BY <2>1, <2>2, <2>3 DEF TypeOK, Busy
    <2>6. \A u, v \in Workers :
            (u # v /\ pc'[u] # "idle" /\ pc'[v] # "idle") => run'[u] # run'[v]
      BY <2>2, <2>5 DEF Identified
    <2>7. \A e \in log' : \A v \in Workers : pc'[v] # "idle" => e.run # run'[v]
      BY <2>1, <2>2, <2>4 DEF TypeOK, Identified
    <2> QED BY <2>1, <2>4, <2>6, <2>7 DEF Identified
  <1>3. ASSUME NEW w \in Workers, NEW t \in Tables, ClearTable(w, t) PROVE Identified'
    BY <1>3 DEF ClearTable, Identified, committed, history
  <1>4. ASSUME NEW w \in Workers, NEW t \in Tables, StageTable(w, t) PROVE Identified'
    BY <1>4 DEF StageTable, Identified, committed, history
  <1>5. ASSUME NEW w \in Workers, Fetch(w) PROVE Identified'
    BY <1>5 DEF Fetch, Cleared, TypeOK, Identified, committed
  <1>6. ASSUME NEW w \in Workers, Commit(w) PROVE Identified'
    BY <1>6, IdentifiedLeave DEF Commit, Collected, history
  <1>7. ASSUME NEW w \in Workers, Rollback(w) PROVE Identified'
    BY <1>7 DEF Rollback, Cleared, TypeOK, Identified, committed, history
  <1>8. ASSUME NEW w \in Workers, LogFailed(w) PROVE Identified'
    BY <1>8, IdentifiedLeave DEF LogFailed, history
  <1>9. ASSUME NEW w \in Workers, Die(w), log' = log, started' = started PROVE Identified'
    BY <1>9 DEF Die, Leave, TypeOK, Identified
  <1>10. ASSUME NEW w \in Workers, JobVanished(w) \/ Deadlock(w) \/ ScanOutdated(w) \/ Crash(w) PROVE Identified'
    BY <1>9, <1>10 DEF JobVanished, Deadlock, ScanOutdated, Crash, committed, history
  <1>11. ASSUME NEW j \in Jobs, RetireJob(j) \/ DeleteJob(j) PROVE Identified'
    BY <1>11 DEF RetireJob, DeleteJob, Identified, history
  <1>12. CASE UNCHANGED vars
    BY <1>12 DEF vars, Identified
  <1> QED
    BY <1>1, <1>2, <1>3, <1>4, <1>5, <1>6, <1>7, <1>8, <1>10, <1>11, <1>12
    DEF Next, Execution

\* What the reply brought is staged already or has yet to be.
Accounted ==
  \A w \in Workers :
    pc[w] = "stage" => {x.table : x \in staged[w]} \cup unstaged[w] = reply[run[w]]

LEMMA AccountedStep == TypeOK /\ Busy /\ Identified /\ Accounted /\ [Next]_vars => Accounted'
  <1> SUFFICES ASSUME TypeOK, Busy, Identified, Accounted, [Next]_vars PROVE Accounted'
    OBVIOUS
  <1>1. ASSUME NEW w \in Workers, ScanPending(w) PROVE Accounted'
    BY <1>1 DEF ScanPending, Accounted, txn, history
  <1>2. ASSUME NEW w \in Workers, NEW j \in Jobs, Start(w, j) PROVE Accounted'
    <2>1. \A v \in Workers : pc'[v] = "stage" => v # w /\ pc[v] = "stage" /\ run'[v] = run[v]
      BY <1>2 DEF Start, TypeOK
    <2> QED BY <1>2, <2>1 DEF Start, Accounted
  <1>3. ASSUME NEW w \in Workers, NEW t \in Tables, ClearTable(w, t) PROVE Accounted'
    BY <1>3 DEF ClearTable, Accounted, history
  <1>4. ASSUME NEW w \in Workers, NEW t \in Tables, StageTable(w, t) PROVE Accounted'
    <2> DEFINE new == Ledger!Produce(job[w], run[w], {t})
    <2>1. (\A x \in new : x.table = t) /\ \E x \in new : x.table = t
      <3> DEFINE row == [job |-> job[w], table |-> t, run |-> run[w]]
      <3>1. new = {row} /\ row.table = t
        BY DEF Ledger!Produce
      <3> HIDE DEF row, new
      <3> QED BY <3>1
    <2>2. /\ staged' = [staged EXCEPT ![w] = @ \cup new]
          /\ unstaged' = [unstaged EXCEPT ![w] = @ \ {t}]
          /\ t \in unstaged[w]
          /\ UNCHANGED <<pc, run, reply>>
      BY <1>4 DEF StageTable, history
    <2> HIDE DEF new
    <2>3. {x.table : x \in staged[w] \cup new} = {x.table : x \in staged[w]} \cup {t}
      BY <2>1
    <2>4. {x.table : x \in staged'[w]} \cup unstaged'[w]
            = {x.table : x \in staged[w]} \cup unstaged[w]
      <3>1. staged'[w] = staged[w] \cup new /\ unstaged'[w] = unstaged[w] \ {t}
        BY <2>2 DEF TypeOK
      <3>2. {x.table : x \in staged'[w]} = {x.table : x \in staged[w]} \cup {t}
        BY <2>3, <3>1
      <3> HIDE DEF new
      <3> QED BY <2>2, <3>1, <3>2
    <2>5. \A v \in Workers : v # w => staged'[v] = staged[v] /\ unstaged'[v] = unstaged[v]
      BY <2>2 DEF TypeOK
    <2> QED BY <2>2, <2>4, <2>5 DEF Accounted
  <1>5. ASSUME NEW w \in Workers, Fetch(w) PROVE Accounted'
    <2>1. pc[w] = "clear" /\ run[w] \in Runs /\ staged[w] = {}
      BY <1>5, RunType DEF Fetch, Cleared, Busy
    <2>2. PICK T : /\ reply' = [reply EXCEPT ![run[w]] = T]
                   /\ unstaged' = [unstaged EXCEPT ![w] = T]
      BY <1>5 DEF Fetch
    <2>3. pc' = [pc EXCEPT ![w] = "stage"] /\ UNCHANGED <<run, staged>>
      BY <1>5 DEF Fetch
    <2>4. {x.table : x \in staged'[w]} \cup unstaged'[w] = reply'[run'[w]]
      <3>1. unstaged'[w] = T /\ reply'[run'[w]] = T /\ staged'[w] = {}
        BY <2>1, <2>2, <2>3 DEF TypeOK
      <3> QED BY <3>1
    <2>5. ASSUME NEW v \in Workers, v # w, pc'[v] = "stage"
          PROVE  {x.table : x \in staged'[v]} \cup unstaged'[v] = reply'[run'[v]]
      <3>1. pc[v] = "stage" /\ run[v] \in Runs /\ run[v] # run[w]
        BY <2>1, <2>3, <2>5, RunType DEF TypeOK, Busy, Identified
      <3>2. unstaged'[v] = unstaged[v] /\ staged'[v] = staged[v] /\ reply'[run'[v]] = reply[run[v]]
        BY <2>2, <2>3, <2>5, <3>1 DEF TypeOK
      <3> QED BY <3>1, <3>2 DEF Accounted
    <2> QED BY <2>4, <2>5 DEF Accounted
  <1>6. ASSUME NEW w \in Workers, EndTxn(w), Leave(w), reply' = reply PROVE Accounted'
    <2>1. ASSUME NEW v \in Workers, pc'[v] = "stage"
          PROVE /\ pc[v] = "stage" /\ run'[v] = run[v]
                /\ staged'[v] = staged[v] /\ unstaged'[v] = unstaged[v]
      BY <1>6, <2>1 DEF EndTxn, Leave, TypeOK
    <2> QED BY <1>6, <2>1 DEF Accounted
  <1>7. ASSUME NEW w \in Workers, Commit(w) PROVE Accounted'
    BY <1>6, <1>7 DEF Commit, history
  <1>8. ASSUME NEW w \in Workers, Rollback(w) PROVE Accounted'
    <2>1. ASSUME NEW v \in Workers, pc'[v] = "stage"
          PROVE /\ pc[v] = "stage"
                /\ staged'[v] = staged[v] /\ unstaged'[v] = unstaged[v]
      BY <1>8, <2>1 DEF Rollback, EndTxn, TypeOK
    <2> QED BY <1>8, <2>1 DEF Rollback, Accounted, history
  <1>9. ASSUME NEW w \in Workers, LogFailed(w) PROVE Accounted'
    <2>1. \A v \in Workers : pc'[v] = "stage" => pc[v] = "stage" /\ run'[v] = run[v]
      BY <1>9 DEF LogFailed, Leave, TypeOK
    <2> QED BY <1>9, <2>1 DEF LogFailed, Accounted, txn, history
  <1>10. ASSUME NEW w \in Workers, JobVanished(w) \/ Deadlock(w) \/ ScanOutdated(w) \/ Crash(w) PROVE Accounted'
    BY <1>6, <1>10 DEF JobVanished, Deadlock, ScanOutdated, Crash, Die, history
  <1>11. ASSUME NEW j \in Jobs, RetireJob(j) \/ DeleteJob(j) PROVE Accounted'
    BY <1>11 DEF RetireJob, DeleteJob, Accounted, txn, history
  <1>12. CASE UNCHANGED vars
    BY <1>12 DEF vars, Accounted
  <1> QED
    BY <1>1, <1>2, <1>3, <1>4, <1>5, <1>7, <1>8, <1>9, <1>10, <1>11, <1>12
    DEF Next, Execution

-----------------------------------------------------------------------------
(* Safety. *)

IInv ==
  /\ TypeOK
  /\ Busy
  /\ Tagged
  /\ ClearsOwn
  /\ Identified
  /\ Accounted

LEMMA InvInit == Init => IInv
  BY JobTxnAssumption
  DEF JobTxnAssumption, Init, Ledger!Init, IInv, TypeOK, Busy, Tagged, ClearsOwn,
      Identified, Accounted

LEMMA InvStep == IInv /\ [Next]_vars => IInv'
  BY TypeStep, BusyStep, TaggedStep, ClearsOwnStep, IdentifiedStep, AccountedStep DEF IInv

\* Nobody but a committing execution touches the result tables, and nothing is
\* ever taken from the log or the buffers.
LEMMA OnlyCommits ==
  ASSUME [Next]_vars
  PROVE  /\ log \subseteq log' /\ trail \subseteq trail'
         /\ rows' = rows \/ \E w \in Workers : Commit(w)
  BY ZenonT(60) DEF Next, Execution, vars, committed, txn, history, ScanPending, Start, ClearTable,
         Fetch, StageTable, Commit, Rollback, LogFailed, JobVanished, Deadlock, ScanOutdated, Crash,
         RetireJob, DeleteJob

LEMMA HalfStep == IInv /\ NothingHalfSaved /\ [Next]_vars => NothingHalfSaved'
  <1> SUFFICES ASSUME IInv, NothingHalfSaved, [Next]_vars PROVE NothingHalfSaved'
    OBVIOUS
  <1>1. CASE rows' = rows
    BY <1>1, OnlyCommits DEF NothingHalfSaved, Succeeded
  <1>2. ASSUME NEW w \in Workers, Commit(w) PROVE NothingHalfSaved'
    <2>1. rows' \subseteq rows \cup staged[w] /\ log' = log \cup {Ledger!Logged(job[w], run[w], "SUCCESS")}
      BY <1>2 DEF Commit
    <2>2. \A x \in staged[w] : x.job = job[w] /\ x.run = run[w]
      BY DEF IInv, Tagged
    <2> QED BY <2>1, <2>2 DEF NothingHalfSaved, Succeeded
  <1> QED BY <1>1, <1>2, OnlyCommits

\* A committed result row always comes from a run whose SUCCESS entry is on
\* record, whoever else runs or clears the same job at the same time: run_and_save
\* commits nothing, and _execute_job commits rows and entry together.
THEOREM NothingHalf == Spec => []NothingHalfSaved
  <1>1. Init => NothingHalfSaved
    BY DEF Init, Ledger!Init, NothingHalfSaved
  <1> QED BY <1>1, InvInit, InvStep, HalfStep, PTL DEF Spec

\* Every committed row of a typed table is in the CSV buffers: run_and_save buffers
\* a table's records before the commit that makes them visible, and nothing that
\* fails or crashes afterwards takes a line away.
THEOREM BuffersCover == Spec => []TrailCovers
  <1>1. Init => TrailCovers
    BY DEF Init, Ledger!Init, TrailCovers
  <1>2. IInv /\ TrailCovers /\ [Next]_vars => TrailCovers'
    <2> SUFFICES ASSUME IInv, TrailCovers, [Next]_vars PROVE TrailCovers'
      OBVIOUS
    <2>1. ASSUME NEW w \in Workers, Commit(w), NEW x \in rows', x.table \notin Generic
          PROVE  x \in trail
      BY <2>1 DEF Commit, TrailCovers, IInv, Tagged
    <2> QED BY <2>1, OnlyCommits DEF TrailCovers
  <1> QED BY <1>1, <1>2, InvInit, InvStep, PTL DEF Spec

\* A job leaves the pending set only by a SUCCESS of its own or because somebody
\* retired it; failing, being killed or deadlocking leaves is_active alone.
THEOREM DoneOnlyBySuccess == Spec => []DoneMeansCollected
  <1>1. Init => DoneMeansCollected
    BY DEF Init, Ledger!Init, DoneMeansCollected
  <1>2. IInv /\ DoneMeansCollected /\ [Next]_vars => DoneMeansCollected'
    <2> SUFFICES ASSUME IInv, DoneMeansCollected, [Next]_vars PROVE DoneMeansCollected'
      OBVIOUS
    <2>1. ASSUME jobs' \ active' \subseteq jobs \ active, retired \subseteq retired'
          PROVE  DoneMeansCollected'
      BY <2>1, OnlyCommits DEF DoneMeansCollected, Succeeded
    <2>2. ASSUME NEW w \in Workers, Commit(w) PROVE DoneMeansCollected'
      <3>1. run[w] \in Runs
        BY <2>2, RunType DEF Commit, Collected, IInv, Busy
      <3>2. /\ Ledger!Logged(job[w], run[w], "SUCCESS") \in log'
            /\ jobs' = jobs /\ active \ {job[w]} \subseteq active'
        BY <2>2 DEF Commit
      <3>3. retired' = retired
        BY <2>2 DEF Commit, history
      <3> QED BY <3>1, <3>2, <3>3, OnlyCommits DEF DoneMeansCollected, Succeeded
    <2>3. ASSUME NEW j \in Jobs, RetireJob(j) PROVE DoneMeansCollected'
      BY <2>3, OnlyCommits DEF RetireJob, DoneMeansCollected, Succeeded
    <2>4. ASSUME NEW j \in Jobs, DeleteJob(j) PROVE DoneMeansCollected'
      BY <2>1, <2>4 DEF DeleteJob, history
    <2>5. ASSUME UNCHANGED <<jobs, active, retired>> PROVE DoneMeansCollected'
      BY <2>1, <2>5
    <2> QED
      BY ZenonT(60), <2>2, <2>3, <2>4, <2>5
      DEF Next, Execution, vars, committed, txn, history, ScanPending, Start, ClearTable,
          Fetch, StageTable, Rollback, LogFailed, JobVanished, Deadlock, ScanOutdated, Crash
  <1> QED BY <1>1, <1>2, InvInit, InvStep, PTL DEF Spec

\* A run on record keeps its reply: only a process still executing gets one.
LEMMA RepliesStand ==
  ASSUME IInv, [Next]_vars PROVE \A e \in log : reply'[e.run] = reply[e.run]
  <1>1. ASSUME NEW w \in Workers, Fetch(w), NEW e \in log
        PROVE  reply'[e.run] = reply[e.run]
    BY <1>1 DEF Fetch, Cleared, IInv, TypeOK, Identified
  <1>2. reply' = reply \/ \E w \in Workers : Fetch(w)
    BY ZenonT(60) DEF Next, Execution, vars, history, ScanPending, Start, ClearTable, StageTable,
           Commit, Rollback, LogFailed, JobVanished, Deadlock, ScanOutdated, Crash, RetireJob, DeleteJob
  <1> QED BY <1>1, <1>2

LEMMA HistoryStep ==
  IInv /\ NothingHalfSaved /\ HistoryComplete /\ [Next]_vars => HistoryComplete'
  <1> SUFFICES ASSUME IInv, NothingHalfSaved, HistoryComplete, [Next]_vars
               PROVE  HistoryComplete'
    OBVIOUS
  <1>1. \A e \in log : reply'[e.run] = reply[e.run]
    BY RepliesStand
  <1>2. CASE rows' = rows /\ \A e \in log' \ log : e.status # "SUCCESS"
    BY <1>1, <1>2 DEF HistoryComplete, Kept
  <1>3. ASSUME NEW w \in Workers, Commit(w) PROVE HistoryComplete'
    <2> DEFINE entry == Ledger!Logged(job[w], run[w], "SUCCESS")
    <2>1. /\ entry.run = run[w] /\ entry.job = job[w] /\ log' = log \cup {entry}
          /\ rows' = (rows \ gone[w]) \cup staged[w]
      BY <1>3 DEF Commit, Ledger!Logged
    <2>2. pc[w] = "stage" /\ unstaged[w] = {} /\ reply' = reply
      BY <1>3 DEF Commit, Collected, history
    <2> HIDE DEF entry
    <2>3. \A x \in staged[w] : x.run = run[w] /\ x.job = job[w]
      BY DEF IInv, Tagged
    <2>4. \A x \in rows : \E d \in log : d.run = x.run /\ d.job = x.job
      <3> SUFFICES ASSUME NEW x \in rows PROVE \E d \in log : d.run = x.run /\ d.job = x.job
        OBVIOUS
      <3> DEFINE d == Ledger!Logged(x.job, x.run, "SUCCESS")
      <3>1. d \in log
        BY DEF NothingHalfSaved, Succeeded
      <3>2. d.run = x.run /\ d.job = x.job
        BY DEF Ledger!Logged
      <3> QED BY <3>1, <3>2
    \* No row of this run was there before, and no row of an append job goes.
    <2>5. \A x \in rows : x.run # run[w]
      BY <2>2, <2>4 DEF IInv, Identified
    <2>6. \A e \in log : e.job \notin Overwrite => \A x \in gone[w] \cap rows : x.run # e.run
      BY <2>4 DEF IInv, Identified, ClearsOwn
    <2>7. ASSUME NEW e \in log, e.status = "SUCCESS", e.job \notin Overwrite
          PROVE  Kept(e.run)' = reply'[e.run]
      <3>1. e.run # run[w]
        BY <2>2 DEF IInv, Identified
      <3>2. {y \in rows' : y.run = e.run} = {y \in rows : y.run = e.run}
        BY <2>1, <2>3, <2>6, <2>7, <3>1
      <3> QED BY <2>2, <2>7, <3>2 DEF Kept, HistoryComplete
    <2>8. ASSUME NEW e \in log', e = entry PROVE Kept(e.run)' = reply'[e.run]
      <3>1. {y \in rows' : y.run = e.run} = staged[w]
        BY <2>1, <2>3, <2>5, <2>8
      <3>2. {x.table : x \in staged[w]} = reply[run[w]]
        BY <2>2 DEF IInv, Accounted
      <3> QED BY <2>1, <2>2, <2>8, <3>1, <3>2 DEF Kept
    <2> SUFFICES ASSUME NEW e \in log', e.status = "SUCCESS", e.job \notin Overwrite
                 PROVE  Kept(e.run)' = reply'[e.run]
      BY DEF HistoryComplete
    <2> QED BY <2>1, <2>7, <2>8
  <1>4. \A w \in Workers : LogFailed(w) =>
          rows' = rows /\ \A e \in log' \ log : e.status # "SUCCESS"
    BY DEF LogFailed, Ledger!Logged
  <1>5. \/ \E w \in Workers : Commit(w) \/ LogFailed(w)
        \/ rows' = rows /\ log' = log
    BY ZenonT(60) DEF Next, Execution, vars, committed, ScanPending, Start, ClearTable, Fetch,
           StageTable, Rollback, JobVanished, Deadlock, ScanOutdated, Crash, RetireJob, DeleteJob
  <1> QED BY <1>2, <1>3, <1>4, <1>5

\* What a successful run of an append job collected is there for good, table by
\* table, whatever runs, fails or dies afterwards: only an overwrite job's own
\* _clear_previous_results deletes rows.
THEOREM HistoryKept == Spec => []HistoryComplete
  <1>1. Init => NothingHalfSaved /\ HistoryComplete
    BY DEF Init, Ledger!Init, NothingHalfSaved, HistoryComplete
  <1> QED BY <1>1, InvInit, InvStep, HalfStep, HistoryStep, PTL DEF Spec

-----------------------------------------------------------------------------
(***************************************************************************)
(* The transaction of JobTxn implements JobLedger when nobody calls        *)
(* POST /jobs/run: a job then has one runner, the process of its own       *)
(* cycle, which runs one job at a time.                                    *)
(***************************************************************************)

SoleRunner == Callers = {}

\* A process only ever scans and runs jobs of its own cycle.
Alone ==
  /\ \A w \in Workers : \A j \in scan[w] : CycleOf[j] = w
  /\ \A w \in Workers : pc[w] # "idle" => CycleOf[job[w]] = w

\* What is on record for a job was started before the execution under way.
InOrder ==
  \A w \in Workers : pc[w] # "idle" =>
    \A e \in log : e.job = job[w] => e.run < run[w]

\* Rows are only in output tables of their job.
InPlace ==
  /\ \A x \in rows : x.table \in Outputs[x.job]
  /\ \A w \in Workers : pc[w] = "stage" => reply[run[w]] \subseteq Outputs[job[w]]

\* What an execution's DELETEs have met so far is all its job has in the tables
\* they have visited: nobody else has committed rows there meanwhile.
Swept ==
  \A w \in Workers : pc[w] \in {"clear", "stage"} =>
    gone[w] = IF job[w] \in Overwrite
                THEN {x \in rows : x.job = job[w] /\ x.table \notin uncleared[w]}
                ELSE {}

SInv == IInv /\ NothingHalfSaved /\ Alone /\ InOrder /\ InPlace /\ Swept

LEMMA StillRunning ==
  ASSUME TypeOK, [Next]_vars, NEW v \in Workers, pc'[v] # "idle"
  PROVE  \/ pc[v] # "idle" /\ job'[v] = job[v] /\ run'[v] = run[v]
         \/ \E j \in Jobs : Start(v, j)
  <1>1. ASSUME NEW w \in Workers, NEW j \in Jobs, Start(w, j), v # w
        PROVE  pc[v] # "idle" /\ job'[v] = job[v] /\ run'[v] = run[v]
    BY <1>1 DEF Start, TypeOK
  <1>2. ASSUME UNCHANGED <<job, run>>, \A w \in Workers : pc'[w] = pc[w] \/ pc[w] # "idle"
        PROVE  pc[v] # "idle" /\ job'[v] = job[v] /\ run'[v] = run[v]
    BY <1>2
  <1>3. ASSUME NEW w \in Workers, Leave(w)
        PROVE  pc[v] # "idle" /\ job'[v] = job[v] /\ run'[v] = run[v]
    BY <1>3 DEF Leave, TypeOK
  <1>4. ASSUME NEW w \in Workers, Fetch(w) \/ Rollback(w)
        PROVE  pc[v] # "idle" /\ job'[v] = job[v] /\ run'[v] = run[v]
    BY <1>2, <1>4 DEF Fetch, Rollback, Cleared, TypeOK
  <1>5. ASSUME NEW w \in Workers,
               \/ ScanPending(w)
               \/ \E t \in Tables : ClearTable(w, t) \/ StageTable(w, t)
        PROVE  UNCHANGED <<pc, job, run>>
    BY <1>5 DEF ScanPending, ClearTable, StageTable
  <1>6. ASSUME NEW w \in Workers,
               Commit(w) \/ LogFailed(w) \/ JobVanished(w) \/ Deadlock(w) \/ ScanOutdated(w) \/ Crash(w)
        PROVE  Leave(w)
    BY <1>6 DEF Commit, LogFailed, JobVanished, Deadlock, ScanOutdated, Crash, Die
  <1>7. ASSUME NEW j \in Jobs, RetireJob(j) \/ DeleteJob(j) PROVE UNCHANGED <<pc, job, run>>
    BY <1>7 DEF RetireJob, DeleteJob
  <1>8. CASE UNCHANGED vars
    BY <1>2, <1>8 DEF vars
  <1> QED BY <1>1, <1>2, <1>3, <1>4, <1>5, <1>6, <1>7, <1>8 DEF Next, Execution

LEMMA AloneStep ==
  ASSUME SoleRunner PROVE TypeOK /\ Alone /\ [Next]_vars => Alone'
  <1> SUFFICES ASSUME TypeOK, Alone, [Next]_vars PROVE Alone'
    OBVIOUS
  <1>1. ASSUME NEW v \in Workers PROVE \A j \in scan'[v] : CycleOf[j] = v
    <2>1. ASSUME NEW w \in Workers, ScanPending(w) PROVE \A j \in scan'[v] : CycleOf[j] = v
      BY <2>1 DEF ScanPending, TypeOK, Alone
    <2>2. ASSUME NEW w \in Workers, NEW j \in Jobs, Start(w, j) PROVE scan'[v] \subseteq scan[v]
      BY <2>2 DEF Start, TypeOK
    <2>3. ASSUME NEW w \in Workers, Die(w) PROVE scan'[v] \subseteq scan[v]
      BY <2>3 DEF Die, TypeOK
    <2>4. ASSUME scan' = scan PROVE scan'[v] \subseteq scan[v]
      BY <2>4
    <2> QED
      BY <2>1, <2>2, <2>3, <2>4
      DEF Alone, Next, Execution, vars, ClearTable, StageTable, Fetch, Commit, Rollback,
          LogFailed, JobVanished, Deadlock, ScanOutdated, Crash, RetireJob, DeleteJob
  <1>2. ASSUME NEW v \in Workers, pc'[v] # "idle" PROVE CycleOf[job'[v]] = v
    <2>1. ASSUME NEW j \in Jobs, Start(v, j) PROVE CycleOf[job'[v]] = v
      BY <2>1 DEF Start, Offered, Workers, SoleRunner, TypeOK, Alone
    <2> QED BY <1>2, <2>1, StillRunning DEF Alone
  <1> QED BY <1>1, <1>2 DEF Alone

\* No two processes execute the same job.
LEMMA OneAtATime ==
  ASSUME Alone, NEW v \in Workers, NEW w \in Workers, v # w, pc[v] # "idle", pc[w] # "idle"
  PROVE  job[v] # job[w]
  BY DEF Alone

LEMMA InOrderStep ==
  TypeOK /\ Busy /\ Identified /\ Alone /\ InOrder /\ [Next]_vars => InOrder'
  <1> SUFFICES ASSUME TypeOK, Busy, Identified, Alone, InOrder, [Next]_vars,
                      NEW v \in Workers, pc'[v] # "idle",
                      NEW e \in log', e.job = job'[v]
               PROVE  e.run < run'[v]
    BY DEF InOrder
  <1>1. ASSUME NEW j \in Jobs, Start(v, j) PROVE e.run < run'[v]
    <2>1. run'[v] = started + 1 /\ log' = log
      BY <1>1 DEF Start, TypeOK, committed
    <2>2. e.run \in 1..started /\ started \in Nat
      BY <2>1, JobTxnAssumption DEF JobTxnAssumption, TypeOK, Identified
    <2> QED BY <2>1, <2>2
  <1>2. CASE pc[v] # "idle" /\ job'[v] = job[v] /\ run'[v] = run[v]
    <2>1. ASSUME NEW w \in Workers, pc[w] # "idle", pc'[w] = "idle", NEW s,
                 log' = log \cup {Ledger!Logged(job[w], run[w], s)}
          PROVE  e \in log
      <3>1. job[w] # job[v]
        BY <1>2, <2>1, OneAtATime
      <3>2. Ledger!Logged(job[w], run[w], s).job = job[w]
        BY DEF Ledger!Logged
      <3> QED BY <1>2, <2>1, <3>1, <3>2
    <2>2. ASSUME NEW w \in Workers, Commit(w) \/ LogFailed(w) PROVE e \in log
      <3>1. pc[w] # "idle" /\ pc'[w] = "idle"
        BY <2>2 DEF Commit, LogFailed, Collected, Leave, TypeOK
      <3> QED BY <2>1, <2>2, <3>1 DEF Commit, LogFailed
    <2>3. log' = log \/ \E w \in Workers : Commit(w) \/ LogFailed(w)
      BY ZenonT(60) DEF Next, Execution, vars, committed, ScanPending, Start, ClearTable, Fetch,
             StageTable, Rollback, JobVanished, Deadlock, ScanOutdated, Crash, RetireJob, DeleteJob
    <2> QED BY <1>2, <2>2, <2>3 DEF InOrder
  <1> QED BY <1>1, <1>2, StillRunning

\* What Commit puts in and takes out.
LEMMA Replaced ==
  ASSUME SInv, NEW w \in Workers, Collected(w)
  PROVE  /\ staged[w] = Ledger!Produce(job[w], run[w], reply[run[w]])
         /\ gone[w] = IF job[w] \in Overwrite THEN Ledger!RowsOf(job[w]) ELSE {}
  <1>1. /\ pc[w] = "stage" /\ unstaged[w] = {} /\ uncleared[w] = {}
        /\ staged[w] \subseteq Row
    BY DEF Collected, SInv, IInv, TypeOK, ClearsOwn
  <1>2. {x.table : x \in staged[w]} = reply[run[w]]
    BY <1>1 DEF SInv, IInv, Accounted
  <1>3. \A x \in staged[w] : x = [job |-> job[w], table |-> x.table, run |-> run[w]]
    BY <1>1 DEF SInv, IInv, Tagged, Row, Ledger!Row
  <1>4. staged[w] = Ledger!Produce(job[w], run[w], reply[run[w]])
    <2>1. \A x \in staged[w] : x \in Ledger!Produce(job[w], run[w], reply[run[w]])
      BY <1>2, <1>3 DEF Ledger!Produce
    <2>2. ASSUME NEW t \in reply[run[w]]
          PROVE  [job |-> job[w], table |-> t, run |-> run[w]] \in staged[w]
      <3>1. PICK x \in staged[w] : x.table = t
        BY <1>2
      <3> QED BY <1>3, <3>1
    <2> QED BY <2>1, <2>2 DEF Ledger!Produce
  <1> QED BY <1>1, <1>4 DEF SInv, Swept, Ledger!RowsOf

\* Rows change by a commit, and only those of its job.
LEMMA OthersRows ==
  ASSUME SInv, [Next]_vars, NEW j, \A w \in Workers : Commit(w) => job[w] # j
  PROVE  {x \in rows' : x.job = j} = {x \in rows : x.job = j}
  <1>1. ASSUME NEW w \in Workers, Commit(w)
        PROVE  {x \in rows' : x.job = j} = {x \in rows : x.job = j}
    <2>1. rows' = (rows \ gone[w]) \cup staged[w] /\ pc[w] = "stage"
      BY <1>1 DEF Commit, Collected
    <2>2. \A x \in gone[w] \cup staged[w] : x.job = job[w]
      BY <2>1 DEF SInv, IInv, Tagged, Swept
    <2> QED BY <1>1, <2>1, <2>2
  <1> QED BY <1>1, OnlyCommits

LEMMA InPlaceStep == SInv /\ [Next]_vars => InPlace'
  <1> SUFFICES ASSUME SInv, [Next]_vars PROVE InPlace'
    OBVIOUS
  <1>1. ASSUME NEW w \in Workers, Commit(w), NEW x \in rows' PROVE x.table \in Outputs[x.job]
    <2>1. x \in rows \/ x \in Ledger!Produce(job[w], run[w], reply[run[w]])
      BY <1>1, Replaced DEF Commit
    <2> QED BY <1>1, <2>1 DEF Ledger!Produce, Commit, Collected, SInv, InPlace
  <1>2. ASSUME NEW v \in Workers, pc'[v] = "stage"
        PROVE  reply'[run'[v]] \subseteq Outputs[job'[v]]
    <2>1. pc[v] # "idle" /\ job'[v] = job[v] /\ run'[v] = run[v]
      BY <1>2, StillRunning DEF SInv, IInv, Start, TypeOK
    <2>2. run[v] \in Runs
      BY <2>1, RunType DEF SInv, IInv, Busy
    <2>3. ASSUME NEW w \in Workers, Fetch(w) PROVE reply'[run'[v]] \subseteq Outputs[job'[v]]
      <3>1. PICK T \in SUBSET Outputs[job[w]] : reply' = [reply EXCEPT ![run[w]] = T]
        BY <2>3 DEF Fetch
      <3>2. CASE v = w
        BY <2>1, <2>2, <3>1, <3>2 DEF SInv, IInv, TypeOK
      <3>3. CASE v # w
        <4>1. pc[w] # "idle" /\ pc[v] = "stage"
          BY <1>2, <2>3, <3>3 DEF Fetch, Cleared, SInv, IInv, TypeOK
        <4>2. run[v] # run[w]
          BY <3>3, <4>1 DEF SInv, IInv, Identified
        <4> QED BY <2>1, <2>2, <3>1, <4>1, <4>2 DEF SInv, IInv, TypeOK, InPlace
      <3> QED BY <3>2, <3>3
    <2>4. \/ \E w \in Workers : Fetch(w)
          \/ reply' = reply /\ (pc'[v] = "stage" => pc[v] = "stage")
      <3>1. ASSUME NEW w \in Workers, Leave(w) PROVE pc'[v] = "stage" => pc[v] = "stage"
        BY <3>1 DEF Leave, SInv, IInv, TypeOK
      <3>2. ASSUME NEW w \in Workers, Rollback(w) \/ \E j \in Jobs : Start(w, j)
            PROVE  pc'[v] = "stage" => pc[v] = "stage"
        BY <3>2 DEF Rollback, Start, SInv, IInv, TypeOK
      <3> QED
        BY ZenonT(60), <3>1, <3>2
        DEF Next, Execution, vars, history, ScanPending, Start, ClearTable, StageTable, Commit,
            Rollback, LogFailed, JobVanished, Deadlock, ScanOutdated, Crash, Die, RetireJob, DeleteJob
    <2> QED BY <1>2, <2>1, <2>3, <2>4 DEF SInv, InPlace
  <1> QED BY <1>1, <1>2, OnlyCommits DEF SInv, InPlace

LEMMA SweptStep == SInv /\ [Next]_vars => Swept'
  <1> SUFFICES ASSUME SInv, [Next]_vars, NEW v \in Workers, pc'[v] \in {"clear", "stage"}
               PROVE  gone'[v] = IF job'[v] \in Overwrite
                        THEN {x \in rows' : x.job = job'[v] /\ x.table \notin uncleared'[v]}
                        ELSE {}
    BY DEF Swept
  <1> DEFINE Want(j, R, U) ==
        IF j \in Overwrite THEN {x \in R : x.job = j /\ x.table \notin U} ELSE {}
  <1>1. ASSUME NEW j \in Jobs, Start(v, j) PROVE gone'[v] = Want(job'[v], rows', uncleared'[v])
    <2>1. gone'[v] = {} /\ rows' = rows /\ job'[v] = j
      BY <1>1 DEF Start, committed, SInv, IInv, TypeOK, Busy
    <2>2. j \in Overwrite => uncleared'[v] = Outputs[j]
      BY <1>1 DEF Start, SInv, IInv, TypeOK
    <2> QED BY <2>1, <2>2 DEF SInv, InPlace
  <1>2. ASSUME NEW t \in Tables, ClearTable(v, t)
        PROVE  gone'[v] = Want(job'[v], rows', uncleared'[v])
    <2>1. /\ gone'[v] = gone[v] \cup {x \in rows : x.job = job[v] /\ x.table = t}
          /\ uncleared'[v] = uncleared[v] \ {t} /\ t \in uncleared[v]
          /\ rows' = rows /\ job' = job /\ pc[v] = "clear"
      BY <1>2 DEF ClearTable, Matching, committed, SInv, IInv, TypeOK
    <2>2. job[v] \in Overwrite
      BY <2>1 DEF SInv, IInv, ClearsOwn
    <2>3. gone[v] = {x \in rows : x.job = job[v] /\ x.table \notin uncleared[v]}
      BY <2>1, <2>2 DEF SInv, Swept
    <2> QED BY <2>1, <2>2, <2>3
  <1>3. ASSUME pc[v] \in {"clear", "stage"}, job'[v] = job[v],
               gone'[v] = gone[v], uncleared'[v] = uncleared[v]
        PROVE  gone'[v] = Want(job'[v], rows', uncleared'[v])
    <2>1. {x \in rows' : x.job = job[v]} = {x \in rows : x.job = job[v]}
      <3>1. ASSUME NEW w \in Workers, Commit(w) PROVE job[w] # job[v]
        <4>1. pc[w] = "stage" /\ pc'[w] = "idle"
          BY <3>1 DEF Commit, Collected, Leave, SInv, IInv, TypeOK
        <4> QED BY <1>3, <4>1, OneAtATime DEF SInv
      <3> QED BY <3>1, OthersRows
    <2> QED BY <1>3, <2>1 DEF SInv, Swept
  <1>4. \/ \E j \in Jobs : Start(v, j)
        \/ \E t \in Tables : ClearTable(v, t)
        \/ /\ pc[v] \in {"clear", "stage"} /\ job'[v] = job[v]
           /\ gone'[v] = gone[v] /\ uncleared'[v] = uncleared[v]
    <2>1. ASSUME NEW w \in Workers, w # v, \E j \in Jobs : Start(w, j)
          PROVE  /\ pc[v] \in {"clear", "stage"} /\ job'[v] = job[v]
                 /\ gone'[v] = gone[v] /\ uncleared'[v] = uncleared[v]
      BY <2>1 DEF Start, SInv, IInv, TypeOK
    <2>2. ASSUME NEW w \in Workers, w # v, \E t \in Tables : ClearTable(w, t)
          PROVE  /\ pc[v] \in {"clear", "stage"} /\ job'[v] = job[v]
                 /\ gone'[v] = gone[v] /\ uncleared'[v] = uncleared[v]
      BY <2>2 DEF ClearTable, SInv, IInv, TypeOK
    <2>3. ASSUME NEW w \in Workers, \/ ScanPending(w)
                                    \/ Fetch(w)
                                    \/ \E t \in Tables : StageTable(w, t)
          PROVE  /\ pc[v] \in {"clear", "stage"} /\ job'[v] = job[v]
                 /\ gone'[v] = gone[v] /\ uncleared'[v] = uncleared[v]
      BY <2>3 DEF ScanPending, Fetch, Cleared, StageTable, txn, SInv, IInv, TypeOK
    <2>4. ASSUME NEW w \in Workers, EndTxn(w), Leave(w) \/ Rollback(w)
          PROVE  /\ pc[v] \in {"clear", "stage"} /\ job'[v] = job[v]
                 /\ gone'[v] = gone[v] /\ uncleared'[v] = uncleared[v]
      BY <2>4 DEF EndTxn, Leave, Rollback, SInv, IInv, TypeOK
    <2>5. ASSUME NEW w \in Workers, LogFailed(w)
          PROVE  /\ pc[v] \in {"clear", "stage"} /\ job'[v] = job[v]
                 /\ gone'[v] = gone[v] /\ uncleared'[v] = uncleared[v]
      BY <2>5 DEF LogFailed, Leave, txn, SInv, IInv, TypeOK
    <2>6. ASSUME NEW j \in Jobs, RetireJob(j) \/ DeleteJob(j)
          PROVE  UNCHANGED <<pc, job, gone, uncleared>>
      BY <2>6 DEF RetireJob, DeleteJob, txn
    <2>7. ASSUME NEW w \in Workers,
                 Commit(w) \/ JobVanished(w) \/ Deadlock(w) \/ ScanOutdated(w) \/ Crash(w)
          PROVE  EndTxn(w) /\ Leave(w)
      BY <2>7 DEF Commit, JobVanished, Deadlock, ScanOutdated, Crash, Die
    <2>8. ASSUME NEW w \in Workers, Rollback(w) PROVE EndTxn(w)
      BY <2>8 DEF Rollback
    <2>9. CASE UNCHANGED vars
      BY <2>9 DEF vars
    <2> QED
      BY <2>1, <2>2, <2>3, <2>4, <2>5, <2>6, <2>7, <2>8, <2>9 DEF Next, Execution
  <1> QED BY <1>1, <1>2, <1>3, <1>4
-----------------------------------------------------------------------------
(* Theorems. *)

LEMMA ProducedTables ==
  ASSUME NEW j, NEW r, NEW T PROVE {x.table : x \in Ledger!Produce(j, r, T)} = T
  <1>1. \A x \in Ledger!Produce(j, r, T) : x.table \in T
    BY DEF Ledger!Produce
  <1>2. ASSUME NEW t \in T PROVE \E x \in Ledger!Produce(j, r, T) : x.table = t
    <2> DEFINE x == [job |-> j, table |-> t, run |-> r]
    <2>1. x \in Ledger!Produce(j, r, T) /\ x.table = t
      BY DEF Ledger!Produce
    <2> QED BY <2>1
  <1> QED BY <1>1, <1>2

LEMMA SInvInit == Init => SInv
  BY InvInit
  DEF Init, Ledger!Init, SInv, NothingHalfSaved, Alone, InOrder, InPlace, Swept

LEMMA SInvStep == ASSUME SoleRunner PROVE SInv /\ [Next]_vars => SInv'
  BY InvStep, HalfStep, AloneStep, InOrderStep, InPlaceStep, SweptStep DEF SInv, IInv

\* A commit is a Success of the ledger.
LEMMA CommitIsSuccess ==
  ASSUME SInv, NEW w \in Workers, Commit(w)
  PROVE  /\ job[w] \in Jobs /\ run[w] \in Runs /\ reply[run[w]] \in SUBSET Tables
         /\ Ledger!Success(job[w], run[w], reply[run[w]])
  <1>1. pc[w] = "stage" /\ Collected(w)
    BY DEF Commit, Collected
  <1>2. job[w] \in Jobs /\ run[w] \in Runs
    BY <1>1, RunType DEF SInv, IInv, Busy
  <1>3. reply[run[w]] \in SUBSET Tables /\ reply[run[w]] \subseteq Outputs[job[w]]
    BY <1>1, <1>2 DEF SInv, IInv, TypeOK, InPlace
  <1>4. Ledger!Fresh(run[w])
    BY <1>1 DEF Ledger!Fresh, SInv, IInv, Identified
  <1>5. rows' = (IF job[w] \in Overwrite THEN rows \ Ledger!RowsOf(job[w]) ELSE rows)
                  \cup Ledger!Produce(job[w], run[w], reply[run[w]])
    BY <1>1, Replaced DEF Commit
  <1> QED BY <1>2, <1>3, <1>4, <1>5 DEF Commit, Ledger!Success

LEMMA LedgerStep == SInv /\ [Next]_vars => [Ledger!Next]_Ledger!ledger
  <1> SUFFICES ASSUME SInv, [Next]_vars PROVE [Ledger!Next]_Ledger!ledger
    OBVIOUS
  <1>1. ASSUME NEW w \in Workers, Commit(w) PROVE Ledger!Next
    BY <1>1, CommitIsSuccess DEF Ledger!Next
  <1>2. ASSUME NEW w \in Workers, LogFailed(w) PROVE Ledger!Next
    <2>1. job[w] \in Jobs /\ run[w] \in Runs
      BY <1>2, RunType DEF LogFailed, SInv, IInv, Busy
    <2>2. Ledger!Failure(job[w], run[w])
      BY <1>2 DEF LogFailed, Ledger!Failure, Ledger!Fresh, SInv, IInv, Identified
    <2> QED BY <2>1, <2>2 DEF Ledger!Next
  <1>3. ASSUME NEW j \in Jobs, RetireJob(j) PROVE Ledger!Next
    BY <1>3 DEF RetireJob, Ledger!Retire, Ledger!Next
  <1>4. ASSUME NEW j \in Jobs, DeleteJob(j) PROVE Ledger!Next
    BY <1>4 DEF DeleteJob, Ledger!Delete, Ledger!Next
  <1>5. ASSUME NEW w \in Workers,
               ScanPending(w) \/ Crash(w) \/ \E j \in Jobs : Start(w, j)
        PROVE  UNCHANGED Ledger!ledger
    BY <1>5 DEF ScanPending, Crash, Start, committed, Ledger!ledger
  <1>6. ASSUME NEW w \in Workers,
               \/ Fetch(w) \/ Rollback(w) \/ JobVanished(w) \/ Deadlock(w)
               \/ ScanOutdated(w)
               \/ \E t \in Tables : ClearTable(w, t) \/ StageTable(w, t)
        PROVE  UNCHANGED Ledger!ledger
    BY <1>6 DEF Fetch, Rollback, JobVanished, Deadlock, ScanOutdated, ClearTable, StageTable,
                committed, Ledger!ledger
  <1>7. CASE UNCHANGED vars
    BY <1>7 DEF vars, committed, Ledger!ledger
  <1>8. ASSUME NEW w \in Workers, Execution(w) PROVE Ledger!Next \/ UNCHANGED Ledger!ledger
    BY <1>1, <1>2, <1>6, <1>8 DEF Execution
  <1> QED BY <1>3, <1>4, <1>5, <1>6, <1>7, <1>8 DEF Next

\* Without API callers, everything _execute_job and run_and_save do to the
\* database, spread over deletes, flushes, a commit, rollbacks and kills of
\* several processes, amounts to one atomic step per execution.
THEOREM ImplementsLedger == ASSUME SoleRunner PROVE Spec => LedgerSpec
  <1>1. Init => Ledger!Init
    BY DEF Init
  <1> QED BY <1>1, SInvInit, SInvStep, LedgerStep, PTL DEF Spec, LedgerSpec, Ledger!Spec

\* Of a run, the tables of its reply are there together or not at all: a later
\* run's clearing takes every one of them.
THEOREM AllOrNothing == ASSUME SoleRunner PROVE Spec => []WholeOrNothing
  <1>1. Init => WholeOrNothing
    BY DEF Init, Ledger!Init, WholeOrNothing, Kept
  <1>2. SInv /\ WholeOrNothing /\ [Next]_vars => WholeOrNothing'
    <2> SUFFICES ASSUME SInv, WholeOrNothing, [Next]_vars, NEW r \in Runs
                 PROVE  Kept(r)' \in {{}, reply'[r]}
      BY DEF WholeOrNothing
    \* The row's run is on record, and with it its job.
    <2>1. \A x \in rows : \E e \in log : e.run = x.run /\ e.job = x.job
      <3> SUFFICES ASSUME NEW x \in rows PROVE \E e \in log : e.run = x.run /\ e.job = x.job
        OBVIOUS
      <3> DEFINE e == Ledger!Logged(x.job, x.run, "SUCCESS")
      <3>1. e \in log /\ e.run = x.run /\ e.job = x.job
        BY DEF SInv, NothingHalfSaved, Succeeded, Ledger!Logged
      <3> QED BY <3>1
    <2>2. ASSUME NEW w \in Workers, Commit(w) PROVE Kept(r)' \in {{}, reply'[r]}
      <3> DEFINE new == Ledger!Produce(job[w], run[w], reply[run[w]])
      <3>1. /\ pc[w] = "stage" /\ reply' = reply
            /\ rows' = (IF job[w] \in Overwrite THEN rows \ Ledger!RowsOf(job[w]) ELSE rows)
                         \cup new
        BY <2>2, CommitIsSuccess DEF Commit, Collected, history, Ledger!Success
      <3>2. \A x \in rows : x.run # run[w]
        BY <2>1, <3>1 DEF SInv, IInv, Identified
      <3>3. \A x \in new : x.run = run[w]
        BY DEF Ledger!Produce
      <3>4. {x.table : x \in new} = reply[run[w]]
        BY ProducedTables
      <3> HIDE DEF new
      <3>5. CASE r = run[w]
        <4>1. {y \in rows' : y.run = r} = new
          BY <3>1, <3>2, <3>3, <3>5
        <4> QED BY <3>1, <3>4, <3>5, <4>1 DEF Kept
      <3>6. CASE r # run[w]
        <4>1. \A x, y \in rows : x.run = y.run => x.job = y.job
          BY <2>1 DEF SInv, IInv, Identified
        <4>2. \/ {y \in rows' : y.run = r} = {y \in rows : y.run = r}
              \/ {y \in rows' : y.run = r} = {}
          BY <3>1, <3>3, <3>6, <4>1 DEF Ledger!RowsOf
        <4> QED BY <3>1, <4>2 DEF Kept, WholeOrNothing
      <3> QED BY <3>5, <3>6
    <2>3. ASSUME NEW w \in Workers, Fetch(w) PROVE Kept(r)' \in {{}, reply'[r]}
      <3>1. rows' = rows /\ pc[w] # "idle" /\ \E T : reply' = [reply EXCEPT ![run[w]] = T]
        BY <2>3 DEF Fetch, Cleared, committed
      <3>2. CASE r = run[w]
        <4>1. {y \in rows : y.run = r} = {}
          BY <2>1, <3>1, <3>2 DEF SInv, IInv, Identified
        <4> QED BY <3>1, <4>1 DEF Kept
      <3>3. CASE r # run[w]
        BY <3>1, <3>3 DEF SInv, IInv, TypeOK, Kept, WholeOrNothing
      <3> QED BY <3>2, <3>3
    <2>4. ASSUME rows' = rows, reply' = reply PROVE Kept(r)' \in {{}, reply'[r]}
      BY <2>4 DEF Kept, WholeOrNothing
    <2> QED
      BY ZenonT(60), <2>2, <2>3, <2>4
      DEF Next, Execution, vars, committed, history, ScanPending, Start, ClearTable, StageTable,
          Rollback, LogFailed, JobVanished, Deadlock, ScanOutdated, Crash, RetireJob, DeleteJob
  <1> QED BY <1>1, <1>2, SInvInit, SInvStep, PTL DEF Spec
LEMMA ReplacedStep ==
  ASSUME SoleRunner PROVE SInv /\ ReplacedOrUntouched /\ [Next]_vars => ReplacedOrUntouched'
  <1> SUFFICES ASSUME SInv, ReplacedOrUntouched, [Next]_vars,
                      NEW e \in log', e.status = "SUCCESS", e.job \in Overwrite,
                      \A d \in log' : (d.job = e.job /\ d.status = "SUCCESS") => d.run <= e.run
               PROVE  {x \in rows' : x.job = e.job}
                        = Ledger!Produce(e.job, e.run, reply'[e.run])
    BY DEF ReplacedOrUntouched
  <1>1. \A d \in log : reply'[d.run] = reply[d.run]
    BY RepliesStand DEF SInv
  \* Nothing was added for the job: its last success and its rows are the same.
  <1>2. CASE e \in log /\ \A w \in Workers : Commit(w) => job[w] # e.job
    <2>1. \A d \in log : (d.job = e.job /\ d.status = "SUCCESS") => d.run <= e.run
      BY OnlyCommits
    <2>2. {x \in rows : x.job = e.job} = Ledger!Produce(e.job, e.run, reply[e.run])
      BY <1>2, <2>1 DEF ReplacedOrUntouched
    <2> QED BY <1>1, <1>2, <2>2, OthersRows
  <1>3. ASSUME NEW w \in Workers, Commit(w), job[w] = e.job
        PROVE  {x \in rows' : x.job = e.job} = Ledger!Produce(e.job, e.run, reply'[e.run])
    <2> DEFINE entry == Ledger!Logged(job[w], run[w], "SUCCESS")
    <2>1. /\ entry.job = job[w] /\ entry.run = run[w] /\ entry.status = "SUCCESS"
          /\ log' = log \cup {entry} /\ reply' = reply /\ pc[w] = "stage"
      BY <1>3 DEF Commit, Collected, history, Ledger!Logged
    <2> HIDE DEF entry
    <2>2. e = entry
      <3>1. run[w] <= e.run
        BY <1>3, <2>1
      <3>2. ASSUME e \in log PROVE FALSE
        <4>1. e.run < run[w] /\ e.run \in 1..started /\ run[w] \in 1..started /\ started \in Nat
          BY <1>3, <2>1, <3>2, JobTxnAssumption
          DEF JobTxnAssumption, SInv, IInv, TypeOK, InOrder, Identified, Busy
        <4> QED BY <3>1, <4>1
      <3> QED BY <2>1, <3>2
    <2>3. rows' = (rows \ Ledger!RowsOf(e.job)) \cup Ledger!Produce(e.job, e.run, reply[e.run])
      BY <1>3, <2>1, <2>2, CommitIsSuccess DEF Ledger!Success
    <2>4. \A x \in Ledger!Produce(e.job, e.run, reply[e.run]) : x.job = e.job
      BY DEF Ledger!Produce
    <2> QED BY <2>1, <2>3, <2>4 DEF Ledger!RowsOf
  <1>4. ASSUME e \notin log PROVE \E w \in Workers : Commit(w) /\ job[w] = e.job
    <2>1. \A w \in Workers : Commit(w) /\ e \notin log => job[w] = e.job
      BY DEF Commit, Ledger!Logged
    <2>2. ~\E w \in Workers : LogFailed(w)
      BY <1>4 DEF LogFailed, Ledger!Logged
    <2>3. log' = log \/ \E w \in Workers : Commit(w) \/ LogFailed(w)
      BY ZenonT(60) DEF Next, Execution, vars, committed, ScanPending, Start, ClearTable, Fetch,
             StageTable, Rollback, JobVanished, Deadlock, ScanOutdated, Crash, RetireJob, DeleteJob
    <2> QED BY <1>4, <2>1, <2>2, <2>3
  <1> QED BY <1>2, <1>3, <1>4

\* An overwrite job's rows are exactly those of its last successful run, whatever
\* failed, was killed or is half way through clearing them since.
THEOREM LastSuccessStands == ASSUME SoleRunner PROVE Spec => []ReplacedOrUntouched
  <1>1. Init => ReplacedOrUntouched
    BY DEF Init, Ledger!Init, ReplacedOrUntouched
  <1> QED BY <1>1, SInvInit, SInvStep, ReplacedStep, PTL DEF Spec
=============================================================================
