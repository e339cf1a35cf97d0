------------------------- MODULE JobLifecycleProofs -------------------------
(***************************************************************************)
(* Proofs about JobLifecycle, for all apis, builders, parameters and days. *)
(***************************************************************************)
EXTENDS JobLifecycle, TLAPS

\* The steps of Execute, which four of the proofs below take apart.
LEMMA ExecuteCases ==
  ASSUME NEW j \in jobs, Execute(j)
  PROVE  \/ Fail(j)
         \/ \E reply \in {"data", "empty"} : Succeed(j, reply)
BY DEF Execute

-----------------------------------------------------------------------------
(* Types *)

LEMMA InitType == Init => TypeOK
<1>1. ASSUME Init PROVE TypeOK
  <2>1. /\ day \in Day /\ jobs \subseteq Id /\ active \subseteq jobs
        /\ log \subseteq Entry /\ \A e \in log : e.job \in jobs
        /\ old \subseteq Id /\ collected \subseteq Apis \X Params
        /\ wins \subseteq Apis \X Day
    BY <1>1, LifecycleAssumption DEF Init, LifecycleAssumption, Day
  <2>2. params \in [jobs -> Params] /\ touched \in [jobs -> Day]
    BY <1>1 DEF Init
  <2>3. /\ todo \in [Generators -> SUBSET Builders]
        /\ building \in [Generators -> Builders \cup {NoBuilder}]
        /\ wanted \in [Generators -> SUBSET Params]
        /\ staged \in [Generators -> SUBSET Params]
    BY <1>1 DEF Init
  <2>4. runs \in 0..MaxRuns
    BY <1>1, LifecycleAssumption DEF Init, LifecycleAssumption
  <2> QED BY <2>1, <2>2, <2>3, <2>4 DEF TypeOK
<1> QED BY <1>1

LEMMA IdType ==
  ASSUME NEW a \in Apis, NEW p \in Params
  PROVE  IdOf(a, p) \in Id /\ IdOf(a, p).api = a
BY LifecycleAssumption DEF LifecycleAssumption, IdOf, Id

\* What CommitBuild inserts: rows of the builder's api, each with the
\* parameters it was built from.
LEMMA NewRows ==
  ASSUME TypeOK, NEW g \in Generators, CommitBuild(g)
  PROVE  /\ ApiOf[building[g]] \in Apis
         /\ NewJobs(g) \subseteq Id
         /\ \A j \in NewJobs(g) : /\ j \notin jobs
                                  /\ params'[j] \in staged[g]
                                  /\ j = IdOf(ApiOf[building[g]], params'[j])
                                  /\ touched'[j] = day
         /\ \A j \in jobs : params'[j] = params[j] /\ touched'[j] = touched[j]
         /\ params' \in [jobs' -> Params]
         /\ touched' \in [jobs' -> Day]
<1> DEFINE a == ApiOf[building[g]]
<1>1. building[g] \in Builders /\ staged[g] \subseteq Params
  BY DEF TypeOK, CommitBuild
<1>2. a \in Apis
  BY <1>1, LifecycleAssumption DEF LifecycleAssumption
<1>3. NewJobs(g) \subseteq Id
  BY <1>1, <1>2, IdType DEF NewJobs
<1>4. ASSUME NEW j \in NewJobs(g)
      PROVE  /\ j \notin jobs
             /\ (CHOOSE p \in staged[g] : IdOf(a, p) = j) \in staged[g]
             /\ j = IdOf(a, CHOOSE p \in staged[g] : IdOf(a, p) = j)
  <2>1. \E p \in staged[g] : IdOf(a, p) = j
    BY <1>4 DEF NewJobs
  <2>2. j \notin jobs
    BY <1>4 DEF CommitBuild
  <2> QED BY <2>1, <2>2
<1>5. \A j \in jobs' : /\ params'[j] = IF j \in jobs THEN params[j]
                                     ELSE CHOOSE p \in staged[g] : IdOf(a, p) = j
                       /\ touched'[j] = IF j \in jobs THEN touched[j] ELSE day
  BY DEF CommitBuild
<1>6. jobs' = jobs \cup NewJobs(g)
  BY DEF CommitBuild
<1>7. \A j \in NewJobs(g) : /\ j \notin jobs
                            /\ params'[j] \in staged[g]
                            /\ j = IdOf(a, params'[j])
                            /\ touched'[j] = day
  BY <1>4, <1>5, <1>6
<1>8. \A j \in jobs : params'[j] = params[j] /\ touched'[j] = touched[j]
  BY <1>5, <1>6
<1>9. /\ params' = [j \in jobs' |-> params'[j]]
      /\ touched' = [j \in jobs' |-> touched'[j]]
  <2> DEFINE F == [j \in jobs' |-> IF j \in jobs THEN params[j]
                                   ELSE CHOOSE p \in staged[g] : IdOf(a, p) = j]
             T == [j \in jobs' |-> IF j \in jobs THEN touched[j] ELSE day]
  <2>1. params' = F /\ touched' = T
    BY DEF CommitBuild
  <2> QED BY <2>1
<1>10. /\ \A j \in jobs' : params'[j] \in Params
       /\ \A j \in jobs' : touched'[j] \in Day
  BY <1>1, <1>6, <1>7, <1>8 DEF TypeOK
<1>11. params' \in [jobs' -> Params] /\ touched' \in [jobs' -> Day]
  BY <1>9, <1>10
<1> QED BY <1>2, <1>3, <1>7, <1>8, <1>11

LEMMA ExecuteType ==
  ASSUME TypeOK, NEW j \in jobs, Execute(j)
  PROVE  TypeOK'
<1>1. j \in Id /\ j.api \in Apis /\ params[j] \in Params /\ day \in Day
  BY DEF TypeOK, Id
<1>2. runs' \in 0..MaxRuns
  BY LifecycleAssumption DEF Execute, TypeOK, LifecycleAssumption
<1>3. ASSUME NEW ok \in BOOLEAN, log' = Logged(j, ok), jobs' = jobs
      PROVE  log' \subseteq Entry /\ \A e \in log' : e.job \in jobs'
  BY <1>1, <1>3 DEF TypeOK, Logged, Entry
<1>4. CASE Fail(j)
  <2>1. log' \subseteq Entry /\ \A e \in log' : e.job \in jobs'
    BY <1>3, <1>4 DEF Fail
  <2> QED BY <1>2, <1>4, <2>1 DEF TypeOK, Fail, generation
<1>5. ASSUME NEW reply \in {"data", "empty"}, Succeed(j, reply)
      PROVE  TypeOK'
  <2>1. log' \subseteq Entry /\ \A e \in log' : e.job \in jobs'
    BY <1>3, <1>5 DEF Succeed
  <2>2. wins' \subseteq Apis \X Day
    BY <1>1, <1>5 DEF Succeed, TypeOK
  <2>3. touched' \in [jobs' -> Day]
    BY <1>1, <1>5 DEF Succeed, TypeOK
  <2>4. collected' \subseteq Apis \X Params /\ active' \subseteq jobs'
    BY <1>1, <1>5 DEF Succeed, TypeOK
  <2> QED BY <1>2, <1>5, <2>1, <2>2, <2>3, <2>4 DEF TypeOK, Succeed, generation
<1> QED BY <1>4, <1>5, ExecuteCases

LEMMA TypeStep == TypeOK /\ [Next]_vars => TypeOK'
<1> SUFFICES ASSUME TypeOK, [Next]_vars PROVE TypeOK'
  OBVIOUS
<1>1. ASSUME NEW g \in Generators, NEW B \in Batches, Generate(g, B)
      PROVE  TypeOK'
  BY <1>1, LifecycleAssumption
  DEF TypeOK, Generate, LifecycleAssumption, rows, history
<1>2. ASSUME NEW g \in Generators, Abandon(g),
             UNCHANGED <<day, rows, old, history>>
      PROVE  TypeOK'
  BY <1>2 DEF TypeOK, Abandon, rows, history
<1>3. ASSUME NEW g \in Generators, NEW b \in Builders, Build(g, b)
      PROVE  TypeOK'
  <2> DEFINE P == Expansion[b][day]
  <2>1. P \subseteq Params
    BY LifecycleAssumption DEF LifecycleAssumption, TypeOK
  <2>2. CASE P = {} \/ Ambiguous(ApiOf[b], P)
    BY <1>2, <1>3, <2>2 DEF Build
  <2>3. CASE ~(P = {} \/ Ambiguous(ApiOf[b], P))
    <3>1. /\ todo' = [todo EXCEPT ![g] = @ \ {b}]
          /\ building' = [building EXCEPT ![g] = b]
          /\ wanted' = [wanted EXCEPT ![g] = P]
          /\ staged' = [staged EXCEPT ![g] = {p \in P : IdOf(ApiOf[b], p) \notin jobs}]
          /\ UNCHANGED <<day, rows, old, history>>
      BY <1>3, <2>3 DEF Build
    <3> QED BY <2>1, <3>1 DEF TypeOK, rows, history
  <2> QED BY <2>2, <2>3
<1>4. ASSUME NEW g \in Generators, CommitBuild(g) PROVE TypeOK'
  <2>1. /\ jobs' \subseteq Id /\ active' \subseteq jobs'
        /\ params' \in [jobs' -> Params] /\ touched' \in [jobs' -> Day]
    BY <1>4, NewRows DEF TypeOK, CommitBuild
  <2>2. log' \subseteq Entry /\ \A e \in log' : e.job \in jobs'
    BY <1>4 DEF TypeOK, CommitBuild
  <2>3. /\ building' \in [Generators -> Builders \cup {NoBuilder}]
        /\ wanted' \in [Generators -> SUBSET Params]
        /\ staged' \in [Generators -> SUBSET Params]
    BY <1>4 DEF TypeOK, CommitBuild
  <2> QED BY <1>4, <2>1, <2>2, <2>3 DEF TypeOK, CommitBuild, history
<1>5. ASSUME NEW g \in Generators, DuplicateKey(g) PROVE TypeOK'
  BY <1>2, <1>5 DEF DuplicateKey
<1>6. ASSUME NEW j \in Id, RunPending(j) \/ RunFinished(j) PROVE TypeOK'
  <2>1. j \in jobs /\ Execute(j)
    BY <1>6 DEF RunPending, RunFinished, TypeOK
  <2> QED BY <2>1, ExecuteType
<1>7. ASSUME NEW j \in Id, Reopen(j) PROVE TypeOK'
  BY <1>7 DEF TypeOK, Reopen, generation
<1>8. CASE Retire
  BY <1>8 DEF TypeOK, Retire, generation, history
<1>9. CASE OpenCursor
  BY <1>9 DEF TypeOK, OpenCursor, rows, generation, history
<1>10. CASE PurgeBatch
  BY <1>10 DEF TypeOK, PurgeBatch, generation, history
<1>11. CASE PurgeStops
  BY <1>11 DEF TypeOK, PurgeStops, rows, generation, history
<1>12. CASE PurgeLogs
  BY <1>12 DEF TypeOK, PurgeLogs, generation, history
<1>13. CASE NextDay
  <2>1. day' \in Day
    BY <1>13, LifecycleAssumption DEF NextDay, TypeOK, Day, LifecycleAssumption
  <2> QED BY <1>13, <2>1 DEF TypeOK, NextDay, rows, generation, history
<1>14. CASE UNCHANGED vars
  BY <1>14 DEF TypeOK, vars
<1> QED BY <1>1, <1>3, <1>4, <1>5, <1>6, <1>7, <1>8, <1>9, <1>10, <1>11,
           <1>12, <1>13, <1>14 DEF Next

\* Every variable of the job rows, their log, the generations and the purge
\* keeps its type; no log row outlives its job.
THEOREM LifecycleTypeCorrect == Spec => []TypeOK
<1>1. Init => TypeOK BY InitType
<1>2. TypeOK /\ [Next]_vars => TypeOK' BY TypeStep
<1> QED BY <1>1, <1>2, PTL DEF Spec

-----------------------------------------------------------------------------
(* Snapshots *)

LEMMA SnapshotStep ==
  TypeOK /\ TypeOK' /\ SnapshotKept /\ [Next]_vars => SnapshotKept'
<1> SUFFICES ASSUME TypeOK, TypeOK', SnapshotKept, [Next]_vars,
                    NEW j \in jobs', j.api \in Repeated,
                    j.api \in Contracts => DateOf[params'[j]] >= day'
             PROVE  j \in active'
  BY DEF SnapshotKept
<1> USE DEF SnapshotKept
<1>1. ASSUME j \in jobs, params'[j] = params[j], day' = day
      PROVE  j \in active
  BY <1>1
<1>2. ASSUME NEW g \in Generators, CommitBuild(g) PROVE j \in active'
  <2>1. CASE j \in jobs
    BY <1>1, <1>2, <2>1, NewRows DEF CommitBuild
  <2>2. CASE j \notin jobs
    BY <1>2, <2>2 DEF CommitBuild
  <2> QED BY <2>1, <2>2
<1>3. ASSUME NEW k \in Id, RunPending(k) \/ RunFinished(k) PROVE j \in active'
  <2>1. k \in jobs /\ Execute(k)
    BY <1>3 DEF RunPending, RunFinished, TypeOK
  <2>2. jobs' = jobs /\ params' = params /\ day' = day
    BY <2>1, ExecuteCases DEF Fail, Succeed
  <2>3. active' = active \/ (active' = active \ {k} /\ k.api \notin Repeated)
    BY <2>1, ExecuteCases DEF Fail, Succeed, StaysActive
  <2> QED BY <1>1, <2>2, <2>3
<1>4. ASSUME NEW k \in Id, Reopen(k) PROVE j \in active'
  BY <1>1, <1>4 DEF Reopen
<1>5. CASE Retire
  <2>1. j \in active /\ params' = params /\ day' = day
    BY <1>1, <1>5 DEF Retire
  <2>2. ~Expired(j)
    <3>1. params[j] \in Params /\ day \in Int
      BY <2>1 DEF TypeOK, Day
    <3>2. DateOf[params[j]] \in Int
      BY <3>1, LifecycleAssumption DEF LifecycleAssumption
    <3> QED BY <2>1, <3>1, <3>2 DEF Expired
  <2>3. ~LetGo(j)
    BY LifecycleAssumption DEF LifecycleAssumption, LetGo
  <2> QED BY <1>5, <2>1, <2>2, <2>3 DEF Retire, Retired
<1>6. CASE PurgeBatch
  <2>1. PICK B \in SUBSET old :
          /\ jobs' = jobs \ B
          /\ active' = active \ B
          /\ params' = [k \in jobs' |-> params[k]]
          /\ day' = day
    BY <1>6 DEF PurgeBatch
  <2>2. j \in jobs /\ j \notin B /\ params'[j] = params[j]
    BY <2>1
  <2> QED BY <1>1, <2>1, <2>2
<1>7. CASE NextDay
  <2>1. jobs' = jobs /\ active' = active /\ params' = params /\ day' = day + 1
    BY <1>7 DEF NextDay, rows
  <2>2. DateOf[params[j]] \in Int /\ day \in Int
    BY <2>1, LifecycleAssumption DEF TypeOK, Day, LifecycleAssumption
  <2> QED BY <2>1, <2>2
<1>8. ASSUME UNCHANGED <<day, jobs, active, params>> PROVE j \in active'
  BY <1>1, <1>8
<1>9. ASSUME NEW g \in Generators,
             \/ \E B \in Batches : Generate(g, B)
             \/ \E b \in Builders : Build(g, b)
             \/ DuplicateKey(g)
      PROVE  j \in active'
  BY <1>8, <1>9 DEF Generate, Build, DuplicateKey, rows
<1>10. CASE OpenCursor \/ PurgeStops \/ PurgeLogs
  BY <1>8, <1>10 DEF OpenCursor, PurgeStops, PurgeLogs, rows
<1>11. CASE UNCHANGED vars
  BY <1>8, <1>11 DEF vars
<1> QED BY <1>2, <1>3, <1>4, <1>5, <1>6, <1>7, <1>9, <1>10, <1>11 DEF Next

\* A repeated job stays pending whatever is executed, retired or purged, a
\* contract's until it has matured.
THEOREM SnapshotsKept == Spec => []SnapshotKept
<1>1. Init => SnapshotKept
  BY DEF Init, SnapshotKept
<1> QED BY <1>1, LifecycleTypeCorrect, SnapshotStep, PTL DEF Spec

-----------------------------------------------------------------------------
(* Living sources *)

\* What the cursor holds is finished, and was last executed before its cutoff.
CursorHolds ==
  /\ old \subseteq jobs \ active
  /\ \A e \in log : e.job \in old => e.day < day - JobDays

\* The successes of the window are all on record.
WinsLogged ==
  \A w \in wins :
    w[2] >= day - Window => \E e \in log : e.ok /\ e.job.api = w[1] /\ e.day = w[2]

LivingInv == TypeOK /\ CursorHolds /\ WinsLogged

\* No job is executed or reopened by hand while the purge runs, and a job is
\* kept no shorter than the window of the retirement rules.
Undisturbed == ~ByHand /\ JobDays >= Window

LEMMA LivingHolds == LivingInv => LivingSourceKept
<1> SUFFICES ASSUME LivingInv, NEW a \in Apis, LooksDead(a),
                    NEW w \in wins, w[1] = a
             PROVE  w[2] < day - Window
  BY DEF LivingSourceKept
<1>1. w[2] \in Int /\ day - Window \in Int
  BY LifecycleAssumption DEF LivingInv, TypeOK, Day, LifecycleAssumption
<1>2. ASSUME w[2] >= day - Window PROVE FALSE
  <2>1. PICK e \in log : e.ok /\ e.job.api = a /\ e.day = w[2]
    BY <1>2 DEF LivingInv, WinsLogged
  <2>2. e \in Recent(a)
    BY <1>2, <2>1 DEF Recent, LivingInv, TypeOK
  <2> QED BY <2>1, <2>2 DEF LooksDead
<1> QED BY <1>1, <1>2

LEMMA LivingExecute ==
  ASSUME Undisturbed, LivingInv, NEW j \in jobs, Execute(j),
         j \in active \/ old = {}
  PROVE  CursorHolds' /\ WinsLogged'
<1>1. j \notin old /\ day \in Int /\ JobDays \in Int /\ Window \in Int
  BY LifecycleAssumption
  DEF LivingInv, CursorHolds, TypeOK, Day, LifecycleAssumption
<1>2. day' = day /\ old' = old /\ jobs' = jobs /\ active' \subseteq active
  BY ExecuteCases DEF Fail, Succeed
<1>3. PICK ok \in BOOLEAN :
        /\ log' = Logged(j, ok)
        /\ wins' = IF ok THEN wins \cup {<<j.api, day>>} ELSE wins
  BY ExecuteCases DEF Fail, Succeed
<1>4. CursorHolds'
  BY <1>1, <1>2, <1>3 DEF LivingInv, CursorHolds, Logged
<1>5. ASSUME NEW w \in wins', w[2] >= day' - Window
      PROVE  \E e \in log' : e.ok /\ e.job.api = w[1] /\ e.day = w[2]
  <2>1. CASE w \in wins
    <3>1. \E e \in log : e.ok /\ e.job.api = w[1] /\ e.day = w[2]
      BY <1>2, <1>5, <2>1 DEF LivingInv, WinsLogged
    <3> QED BY <1>3, <3>1 DEF Logged
  <2>2. CASE w \notin wins
    <3>1. ok /\ w = <<j.api, day>>
      BY <1>3, <1>5, <2>2
    <3> DEFINE e == [job |-> j, day |-> day, ok |-> ok]
    <3>2. e \in log'
      BY <1>3 DEF Logged
    <3>3. e.ok /\ e.job.api = w[1] /\ e.day = w[2]
      BY <3>1
    <3> QED BY <3>2, <3>3
  <2> QED BY <2>1, <2>2
<1> QED BY <1>4, <1>5 DEF WinsLogged

LEMMA LivingStep ==
  ASSUME Undisturbed
  PROVE  LivingInv /\ [Next]_vars => LivingInv'
<1> SUFFICES ASSUME LivingInv, [Next]_vars PROVE CursorHolds' /\ WinsLogged'
  BY TypeStep DEF LivingInv
<1>0. /\ day \in Int /\ JobDays \in Int /\ Window \in Int /\ OkDays \in Int
      /\ \A e \in log : e.day \in Int
      /\ \A w \in wins : w[2] \in Int
  BY LifecycleAssumption
  DEF LivingInv, TypeOK, Entry, Day, LifecycleAssumption
<1>1. ASSUME UNCHANGED <<day, jobs, log, active, old, wins>>
      PROVE  CursorHolds' /\ WinsLogged'
  BY <1>1 DEF LivingInv, CursorHolds, WinsLogged
<1>2. ASSUME NEW g \in Generators,
             \/ \E B \in Batches : Generate(g, B)
             \/ \E b \in Builders : Build(g, b)
             \/ DuplicateKey(g)
      PROVE  CursorHolds' /\ WinsLogged'
  BY <1>1, <1>2 DEF Generate, Build, DuplicateKey, rows, history
<1>3. ASSUME NEW g \in Generators, CommitBuild(g)
      PROVE  CursorHolds' /\ WinsLogged'
  <2>1. /\ old' = old /\ log' = log /\ day' = day /\ wins' = wins
        /\ jobs' = jobs \cup NewJobs(g)
        /\ active' = active \cup NewJobs(g)
        /\ NewJobs(g) \cap jobs = {}
    BY <1>3 DEF CommitBuild, history
  <2>2. CursorHolds'
    BY <2>1 DEF LivingInv, CursorHolds
  <2>3. WinsLogged'
    BY <2>1 DEF LivingInv, WinsLogged
  <2> QED BY <2>2, <2>3
<1>4. ASSUME NEW j \in Id, RunPending(j) \/ RunFinished(j)
      PROVE  CursorHolds' /\ WinsLogged'
  <2>1. /\ j \in jobs /\ Execute(j)
        /\ j \in active \/ old = {}
    BY <1>4
    DEF RunPending, RunFinished, HandsFree, Undisturbed, LivingInv, TypeOK
  <2> QED BY <2>1, LivingExecute
<1>5. ASSUME NEW j \in Id, Reopen(j)
      PROVE  CursorHolds' /\ WinsLogged'
  <2>1. /\ old = {} /\ old' = old /\ jobs' = jobs
        /\ day' = day /\ log' = log /\ wins' = wins
    BY <1>5 DEF Reopen, HandsFree, Undisturbed
  <2> QED BY <2>1 DEF LivingInv, CursorHolds, WinsLogged
<1>6. CASE Retire
  <2>1. /\ active' \subseteq active
        /\ UNCHANGED <<day, jobs, log, old, wins>>
    BY <1>6 DEF Retire, history
  <2> QED BY <2>1 DEF LivingInv, CursorHolds, WinsLogged
<1>7. CASE OpenCursor
  <2>1. /\ old' \subseteq jobs \ active
        /\ \A e \in log : e.job \in old' => e.day < day - JobDays
        /\ UNCHANGED <<day, jobs, active, log, wins>>
    BY <1>7 DEF OpenCursor, rows, history
  <2>2. CursorHolds'
    BY <2>1 DEF CursorHolds
  <2>3. WinsLogged'
    BY <2>1 DEF LivingInv, WinsLogged
  <2> QED BY <2>2, <2>3
<1>8. CASE PurgeBatch
  <2>1. PICK B \in SUBSET old :
          /\ old' = old \ B
          /\ log' = {e \in log : e.job \notin B}
          /\ jobs' = jobs \ B
          /\ active' = active \ B
          /\ day' = day /\ wins' = wins
    BY <1>8 DEF PurgeBatch, history
  <2>2. CursorHolds'
    BY <2>1 DEF LivingInv, CursorHolds
  <2>3. ASSUME NEW w \in wins, w[2] >= day - Window
        PROVE  \E e \in log' : e.ok /\ e.job.api = w[1] /\ e.day = w[2]
    <3>1. PICK e \in log : e.ok /\ e.job.api = w[1] /\ e.day = w[2]
      BY <2>3 DEF LivingInv, WinsLogged
    <3>2. ~(e.day < day - JobDays)
      BY <1>0, <2>3, <3>1 DEF Undisturbed
    <3>3. e \in log'
      BY <2>1, <3>2 DEF LivingInv, CursorHolds
    <3> QED BY <3>1, <3>3
  <2> QED BY <2>1, <2>2, <2>3 DEF WinsLogged
<1>9. CASE PurgeStops
  <2>1. old' = {} /\ UNCHANGED <<day, rows, wins>>
    BY <1>9 DEF PurgeStops, history
  <2> QED BY <2>1 DEF LivingInv, CursorHolds, WinsLogged, rows
<1>10. CASE PurgeLogs
  <2>1. PICK E \in SUBSET {e \in log : Outdated(e)} :
          /\ log' = log \ E
          /\ OkDays >= Window
          /\ UNCHANGED <<day, jobs, active, old, wins>>
    BY <1>10 DEF PurgeLogs, history
  <2>2. CursorHolds'
    BY <2>1 DEF LivingInv, CursorHolds
  <2>3. ASSUME NEW w \in wins, w[2] >= day - Window
        PROVE  \E e \in log' : e.ok /\ e.job.api = w[1] /\ e.day = w[2]
    <3>1. PICK e \in log : e.ok /\ e.job.api = w[1] /\ e.day = w[2]
      BY <2>3 DEF LivingInv, WinsLogged
    <3>2. ~Outdated(e)
      BY <1>0, <2>1, <2>3, <3>1 DEF Outdated
    <3> QED BY <2>1, <3>1, <3>2
  <2> QED BY <2>1, <2>2, <2>3 DEF WinsLogged
<1>11. CASE NextDay
  <2>1. day' = day + 1 /\ UNCHANGED <<jobs, active, log, old, wins>>
    BY <1>11 DEF NextDay, rows, history
  <2>2. CursorHolds'
    BY <1>0, <2>1 DEF LivingInv, CursorHolds
  <2>3. WinsLogged'
    BY <1>0, <2>1 DEF LivingInv, WinsLogged
  <2> QED BY <2>2, <2>3
<1>12. CASE UNCHANGED vars
  BY <1>1, <1>12 DEF vars
<1> QED BY <1>2, <1>3, <1>4, <1>5, <1>6, <1>7, <1>8, <1>9, <1>10, <1>11,
           <1>12 DEF Next

\* Whatever is purged, and however long the failures are kept, a source that
\* has succeeded within the window is not taken for dead.
THEOREM LivingSourcesKept == Undisturbed => (Spec => []LivingSourceKept)
<1> SUFFICES ASSUME Undisturbed PROVE Spec => []LivingSourceKept
  OBVIOUS
<1>1. Init => LivingInv
  BY InitType DEF Init, LivingInv, CursorHolds, WinsLogged
<1>2. LivingInv /\ [Next]_vars => LivingInv'
  BY LivingStep
<1> QED BY <1>1, <1>2, LivingHolds, PTL DEF Spec

-----------------------------------------------------------------------------
(* Work done once *)

\* Some builder has asked an api for these parameters, on day t or before.
AskedBy(a, p, t) ==
  \E b \in Builders, d \in Day : ApiOf[b] = a /\ p \in Expansion[b][d] /\ d <= t

\* A job carries its own parameters, which a builder asked for before it was
\* last touched.
Traceable ==
  \A j \in jobs : /\ j = IdOf(j.api, params[j])
                  /\ touched[j] <= day
                  /\ AskedBy(j.api, params[j], touched[j])

\* What the cursor holds was asked for before its cutoff.
LongAsked ==
  \A j \in old : j \in jobs /\ AskedBy(j.api, params[j], day - JobDays - 1)

\* Work that is done has its job still, or was asked for long ago.
Remembered ==
  \A c \in collected :
    /\ c[1] \notin Repeated
    /\ \/ IdOf(c[1], c[2]) \in jobs /\ params[IdOf(c[1], c[2])] = c[2]
       \/ AskedBy(c[1], c[2], day - JobDays - 1)

\* A generation stages what its builder asks for today.
OfToday ==
  \A g \in Generators :
    building[g] # NoBuilder => staged[g] \subseteq Expansion[building[g]][day]

OnceInv ==
  TypeOK /\ Traceable /\ LongAsked /\ Remembered /\ OfToday /\ CollectedOnce

LEMMA AskedMono ==
  ASSUME NEW a, NEW p, NEW t \in Int, NEW u \in Int, t <= u, AskedBy(a, p, t)
  PROVE  AskedBy(a, p, u)
BY DEF AskedBy, Day

LEMMA OnceExecute ==
  ASSUME OnceInv, NEW j \in jobs, Execute(j)
  PROVE  Traceable' /\ LongAsked' /\ Remembered' /\ OfToday' /\ CollectedOnce'
<1>1. /\ UNCHANGED <<day, jobs, params, building, staged, old>>
      /\ \A k \in jobs : touched'[k] \in {touched[k], day}
  BY ExecuteCases DEF Fail, Succeed, generation, OnceInv, TypeOK
<1>2. \/ active' = active /\ collected' = collected
      \/ /\ j.api \notin Repeated
         /\ active' = active \ {j}
         /\ collected' = collected \cup {<<j.api, params[j]>>}
  BY ExecuteCases DEF Fail, Succeed, StaysActive
<1>3. /\ day \in Int /\ JobDays \in Int
      /\ \A k \in jobs : touched[k] \in Int
  BY LifecycleAssumption DEF OnceInv, TypeOK, Day, LifecycleAssumption
<1>4. Traceable'
  <2> SUFFICES ASSUME NEW k \in jobs
               PROVE  /\ k = IdOf(k.api, params[k])
                      /\ touched'[k] <= day
                      /\ AskedBy(k.api, params[k], touched'[k])
    BY <1>1 DEF Traceable, AskedBy
  <2>1. /\ k = IdOf(k.api, params[k])
        /\ touched[k] <= day
        /\ AskedBy(k.api, params[k], touched[k])
    BY DEF OnceInv, Traceable
  <2>2. touched'[k] = touched[k] \/ touched'[k] = day
    BY <1>1
  <2> QED BY <1>3, <2>1, <2>2, AskedMono
<1>5. LongAsked' /\ OfToday'
  BY <1>1 DEF OnceInv, LongAsked, OfToday, AskedBy
<1>6. Remembered'
  <2>1. j = IdOf(j.api, params[j])
    BY DEF OnceInv, Traceable
  <2>2. ASSUME NEW c \in collected'
        PROVE  /\ c[1] \notin Repeated
               /\ \/ IdOf(c[1], c[2]) \in jobs /\ params[IdOf(c[1], c[2])] = c[2]
                  \/ AskedBy(c[1], c[2], day - JobDays - 1)
    <3>1. CASE c \in collected
      BY <3>1 DEF OnceInv, Remembered
    <3>2. CASE c \notin collected
      <4>1. c = <<j.api, params[j]>> /\ j.api \notin Repeated
        BY <1>2, <2>2, <3>2
      <4>2. c[1] = j.api /\ c[2] = params[j]
        BY <4>1
      <4> QED BY <2>1, <4>1, <4>2
    <3> QED BY <3>1, <3>2
  <2> QED BY <1>1, <2>2 DEF Remembered, AskedBy, IdOf
<1>7. CollectedOnce'
  <2> SUFFICES ASSUME NEW k \in active' PROVE <<k.api, params[k]>> \notin collected'
    BY <1>1 DEF CollectedOnce
  <2>1. k \in active /\ <<k.api, params[k]>> \notin collected
    BY <1>2 DEF OnceInv, CollectedOnce
  <2>2. CASE collected' = collected
    BY <2>1, <2>2
  <2>3. CASE /\ active' = active \ {j}
             /\ collected' = collected \cup {<<j.api, params[j]>>}
    <3>1. k # j /\ k \in jobs
      BY <2>1, <2>3 DEF OnceInv, TypeOK
    <3>2. k = IdOf(k.api, params[k]) /\ j = IdOf(j.api, params[j])
      BY <3>1 DEF OnceInv, Traceable
    <3>3. <<k.api, params[k]>> # <<j.api, params[j]>>
      BY <3>1, <3>2
    <3> QED BY <2>1, <2>3, <3>3
  <2> QED BY <1>2, <2>2, <2>3
<1> QED BY <1>4, <1>5, <1>6, <1>7

\* The new jobs are of work not done: if it had been done, its job would be
\* there still, or no builder would ask for it any more.
LEMMA OnceCommit ==
  ASSUME OnceInv, NEW g \in Generators, CommitBuild(g)
  PROVE  Traceable' /\ LongAsked' /\ Remembered' /\ OfToday' /\ CollectedOnce'
<1> DEFINE b == building[g]
           a == ApiOf[b]
<1>1. /\ b \in Builders /\ b # NoBuilder
      /\ staged[g] \subseteq Expansion[b][day]
      /\ day \in Day /\ day \in Int /\ JobDays \in Int
  BY LifecycleAssumption
  DEF OnceInv, OfToday, TypeOK, CommitBuild, Day, LifecycleAssumption
<1>2. /\ jobs' = jobs \cup NewJobs(g)
      /\ active' = active \cup NewJobs(g)
      /\ building' = [building EXCEPT ![g] = NoBuilder]
      /\ staged' = [staged EXCEPT ![g] = {}]
      /\ UNCHANGED <<day, old, collected>>
  BY DEF CommitBuild, history
<1>3. /\ a \in Apis
      /\ NewJobs(g) \subseteq Id
      /\ \A j \in NewJobs(g) : /\ j \notin jobs
                               /\ params'[j] \in staged[g]
                               /\ j = IdOf(a, params'[j])
                               /\ touched'[j] = day
      /\ \A j \in jobs : params'[j] = params[j] /\ touched'[j] = touched[j]
  BY NewRows DEF OnceInv
<1>4. \A j \in NewJobs(g) : j.api = a
  BY <1>3 DEF IdOf
<1>5. ASSUME NEW j \in NewJobs(g)
      PROVE  AskedBy(a, params'[j], day)
  BY <1>1, <1>3 DEF AskedBy
<1>6. Traceable'
  BY <1>2, <1>3, <1>4, <1>5, <1>1 DEF OnceInv, Traceable, AskedBy, IdOf
<1>7. LongAsked'
  BY <1>2, <1>3 DEF OnceInv, LongAsked, AskedBy
<1>8. Remembered'
  BY <1>2, <1>3 DEF OnceInv, Remembered, AskedBy, IdOf
<1>9. OfToday'
  <2> SUFFICES ASSUME NEW h \in Generators, building'[h] # NoBuilder
               PROVE  staged'[h] \subseteq Expansion[building'[h]][day]
    BY <1>2 DEF OfToday
  <2>1. h # g /\ building'[h] = building[h] /\ staged'[h] = staged[h]
    BY <1>2 DEF OnceInv, TypeOK
  <2> QED BY <2>1 DEF OnceInv, OfToday
<1>10. ASSUME NEW j \in active' PROVE <<j.api, params'[j]>> \notin collected
  <2>1. CASE j \in active
    BY <1>3, <2>1 DEF OnceInv, CollectedOnce, TypeOK
  <2>2. CASE j \notin active
    <3>1. j \in NewJobs(g) /\ j.api = a
      BY <1>2, <1>4, <2>2
    <3> DEFINE p == params'[j]
    <3>2. j \notin jobs /\ p \in Expansion[b][day] /\ j = IdOf(a, p)
      BY <1>1, <1>3, <3>1
    <3>3. SUFFICES ASSUME <<a, p>> \in collected PROVE FALSE
      BY <3>1
    <3>4. a \notin Repeated /\ AskedBy(a, p, day - JobDays - 1)
      <4> DEFINE c == <<a, p>>
      <4>1. c \in collected /\ c[1] = a /\ c[2] = p
        BY <3>3
      <4>2. /\ c[1] \notin Repeated
            /\ \/ IdOf(c[1], c[2]) \in jobs
               \/ AskedBy(c[1], c[2], day - JobDays - 1)
        BY <4>1 DEF OnceInv, Remembered
      <4> QED BY <3>2, <4>1, <4>2
    <3>5. PICK q \in Builders, d \in Day :
             ApiOf[q] = a /\ p \in Expansion[q][d] /\ d <= day - JobDays - 1
      BY <3>4 DEF AskedBy
    <3>6. day - d <= JobDays
      <4>1. ApiOf[q] = ApiOf[b] /\ ApiOf[q] \notin Repeated
        BY <3>4, <3>5
      <4>2. Expansion[q][d] \cap Expansion[b][day] # {}
        BY <3>2, <3>5
      <4> QED BY <1>1, <4>1, <4>2, LookbackAssumption DEF LookbackAssumption
    <3> QED BY <1>1, <3>5, <3>6 DEF Day
  <2> QED BY <2>1, <2>2
<1>11. CollectedOnce'
  BY <1>2, <1>10 DEF CollectedOnce
<1> QED BY <1>6, <1>7, <1>8, <1>9, <1>11

LEMMA OncePurge ==
  ASSUME OnceInv, PurgeBatch
  PROVE  Traceable' /\ LongAsked' /\ Remembered' /\ OfToday' /\ CollectedOnce'
<1>1. PICK B \in SUBSET old :
        /\ old' = old \ B
        /\ jobs' = jobs \ B
        /\ active' = active \ B
        /\ params' = [j \in jobs' |-> params[j]]
        /\ touched' = [j \in jobs' |-> touched[j]]
        /\ UNCHANGED <<day, building, staged, collected>>
  BY DEF PurgeBatch, generation, history
<1>2. \A j \in jobs' : /\ j \in jobs
                       /\ params'[j] = params[j] /\ touched'[j] = touched[j]
  BY <1>1
<1>3. Traceable'
  BY <1>1, <1>2 DEF OnceInv, Traceable, AskedBy
<1>4. LongAsked' /\ OfToday'
  BY <1>1, <1>2 DEF OnceInv, LongAsked, OfToday, AskedBy
<1>5. ASSUME NEW c \in collected
      PROVE  /\ c[1] \notin Repeated
             /\ \/ IdOf(c[1], c[2]) \in jobs' /\ params'[IdOf(c[1], c[2])] = c[2]
                \/ AskedBy(c[1], c[2], day - JobDays - 1)
  <2> DEFINE j == IdOf(c[1], c[2])
  <2>1. /\ c[1] \notin Repeated
        /\ \/ j \in jobs /\ params[j] = c[2]
           \/ AskedBy(c[1], c[2], day - JobDays - 1)
    BY DEF OnceInv, Remembered
  <2>2. CASE j \in B /\ j \in jobs /\ params[j] = c[2]
    <3>1. AskedBy(j.api, params[j], day - JobDays - 1)
      BY <2>2 DEF OnceInv, LongAsked
    <3>2. j.api = c[1]
      BY DEF IdOf
    <3> QED BY <2>1, <2>2, <3>1, <3>2
  <2>3. CASE j \notin B /\ j \in jobs /\ params[j] = c[2]
    BY <1>1, <1>2, <2>1, <2>3
  <2> QED BY <2>1, <2>2, <2>3
<1>6. Remembered'
  BY <1>1, <1>5 DEF Remembered, AskedBy, IdOf
<1>7. CollectedOnce'
  BY <1>1, <1>2 DEF OnceInv, CollectedOnce, TypeOK
<1> QED BY <1>3, <1>4, <1>6, <1>7

LEMMA OnceStep == OnceInv /\ [Next]_vars => OnceInv'
<1> SUFFICES ASSUME OnceInv, [Next]_vars
             PROVE  Traceable' /\ LongAsked' /\ Remembered' /\ OfToday' /\ CollectedOnce'
  BY TypeStep DEF OnceInv
<1>0. /\ day \in Int /\ JobDays \in Int
      /\ \A j \in jobs : touched[j] \in Int
  BY LifecycleAssumption DEF OnceInv, TypeOK, Day, LifecycleAssumption
<1>1. ASSUME UNCHANGED <<day, jobs, params, touched, collected>>,
             active' \subseteq active
      PROVE  Traceable' /\ Remembered' /\ CollectedOnce'
  BY <1>1 DEF OnceInv, Traceable, Remembered, CollectedOnce, AskedBy, IdOf
<1>2. ASSUME UNCHANGED <<day, jobs, params, old>>
      PROVE  LongAsked'
  BY <1>2 DEF OnceInv, LongAsked, AskedBy
<1>3. ASSUME UNCHANGED <<day, building, staged>>
      PROVE  OfToday'
  BY <1>3 DEF OnceInv, OfToday
<1>4. ASSUME NEW g \in Generators, Abandon(g), UNCHANGED <<day, rows, old, history>>
      PROVE  Traceable' /\ LongAsked' /\ Remembered' /\ OfToday' /\ CollectedOnce'
  <2>1. \A h \in Generators : building'[h] # NoBuilder =>
          building'[h] = building[h] /\ staged'[h] = staged[h]
    BY <1>4 DEF Abandon, OnceInv, TypeOK
  <2>2. OfToday'
    BY <1>4, <2>1 DEF OnceInv, OfToday
  <2> QED BY <1>1, <1>2, <1>4, <2>2 DEF rows, history
<1>5. ASSUME NEW g \in Generators, NEW B \in Batches, Generate(g, B)
      PROVE  Traceable' /\ LongAsked' /\ Remembered' /\ OfToday' /\ CollectedOnce'
  BY <1>1, <1>2, <1>3, <1>5 DEF Generate, rows, history
<1>6. ASSUME NEW g \in Generators, NEW b \in Builders, Build(g, b)
      PROVE  Traceable' /\ LongAsked' /\ Remembered' /\ OfToday' /\ CollectedOnce'
  <2> DEFINE P == Expansion[b][day]
  <2>1. CASE P = {} \/ Ambiguous(ApiOf[b], P)
    BY <1>4, <1>6, <2>1 DEF Build
  <2>2. CASE ~(P = {} \/ Ambiguous(ApiOf[b], P))
    <3>1. /\ building' = [building EXCEPT ![g] = b]
          /\ staged' = [staged EXCEPT ![g] = {p \in P : IdOf(ApiOf[b], p) \notin jobs}]
          /\ UNCHANGED <<day, rows, old, history>>
      BY <1>6, <2>2 DEF Build
    <3>2. ASSUME NEW h \in Generators, building'[h] # NoBuilder
          PROVE  staged'[h] \subseteq Expansion[building'[h]][day]
      <4>1. CASE h = g
        <5>1. building'[h] = b /\ staged'[h] \subseteq P
          BY <3>1, <4>1 DEF OnceInv, TypeOK
        <5> QED BY <5>1
      <4>2. CASE h # g
        BY <3>1, <3>2, <4>2 DEF OnceInv, TypeOK, OfToday
      <4> QED BY <4>1, <4>2
    <3>3. OfToday'
      BY <3>1, <3>2 DEF OfToday
    <3> QED BY <1>1, <1>2, <3>1, <3>3 DEF rows, history
  <2> QED BY <2>1, <2>2
<1>7. ASSUME NEW g \in Generators, DuplicateKey(g)
      PROVE  Traceable' /\ LongAsked' /\ Remembered' /\ OfToday' /\ CollectedOnce'
  BY <1>4, <1>7 DEF DuplicateKey
<1>8. ASSUME NEW j \in Id, RunPending(j) \/ RunFinished(j)
      PROVE  Traceable' /\ LongAsked' /\ Remembered' /\ OfToday' /\ CollectedOnce'
  <2>1. j \in jobs /\ Execute(j)
    BY <1>8 DEF RunPending, RunFinished, OnceInv, TypeOK
  <2> QED BY <2>1, OnceExecute
<1>9. ASSUME NEW j \in Id, Reopen(j)
      PROVE  Traceable' /\ LongAsked' /\ Remembered' /\ OfToday' /\ CollectedOnce'
  <2>1. /\ j \in jobs
        /\ active' = active \cup {j}
        /\ touched' = [touched EXCEPT ![j] = day]
        /\ collected' = collected \ {<<j.api, params[j]>>}
        /\ UNCHANGED <<day, jobs, params, building, staged, old>>
    BY <1>9 DEF Reopen, generation
  <2>2. ASSUME NEW k \in jobs
        PROVE  /\ k = IdOf(k.api, params[k])
               /\ touched'[k] <= day
               /\ AskedBy(k.api, params[k], touched'[k])
    <3>1. /\ k = IdOf(k.api, params[k])
          /\ touched[k] <= day
          /\ AskedBy(k.api, params[k], touched[k])
      BY DEF OnceInv, Traceable
    <3>2. touched'[k] = touched[k] \/ touched'[k] = day
      BY <2>1 DEF OnceInv, TypeOK
    <3> QED BY <1>0, <3>1, <3>2, AskedMono
  <2>3. Traceable'
    BY <2>1, <2>2 DEF Traceable, AskedBy
  <2>4. Remembered' /\ CollectedOnce'
    BY <2>1 DEF OnceInv, Remembered, CollectedOnce, AskedBy, IdOf
  <2> QED BY <1>2, <1>3, <2>1, <2>3, <2>4
<1>10. CASE Retire
  BY <1>1, <1>2, <1>3, <1>10 DEF Retire, generation, history
<1>11. CASE OpenCursor
  <2>1. /\ old' \subseteq jobs
        /\ \A j \in old' : touched[j] < day - JobDays
        /\ UNCHANGED <<day, rows, generation, history>>
    BY <1>11 DEF OpenCursor
  <2>2. ASSUME NEW j \in old'
        PROVE  j \in jobs /\ AskedBy(j.api, params[j], day - JobDays - 1)
    <3>1. j \in jobs /\ AskedBy(j.api, params[j], touched[j])
      BY <2>1, <2>2 DEF OnceInv, Traceable
    <3>2. touched[j] <= day - JobDays - 1
      BY <1>0, <2>1, <2>2, <3>1
    <3> QED BY <1>0, <3>1, <3>2, AskedMono
  <2>3. LongAsked'
    BY <2>1, <2>2 DEF LongAsked, AskedBy, rows
  <2> QED BY <1>1, <1>3, <2>1, <2>3 DEF rows, generation, history
<1>12. CASE PurgeBatch
  BY <1>12, OncePurge
<1>13. CASE PurgeStops
  <2>1. old' = {} /\ UNCHANGED <<day, rows, generation, history>>
    BY <1>13 DEF PurgeStops
  <2> QED BY <1>1, <1>3, <2>1 DEF LongAsked, rows, generation, history
<1>14. CASE PurgeLogs
  BY <1>1, <1>2, <1>3, <1>14 DEF PurgeLogs, generation, history
<1>15. CASE NextDay
  <2>1. /\ day' = day + 1
        /\ \A g \in Generators : building[g] = NoBuilder
        /\ UNCHANGED <<rows, generation, old, history>>
    BY <1>15 DEF NextDay
  <2>2. Traceable' /\ OfToday' /\ CollectedOnce'
    BY <1>0, <2>1
    DEF OnceInv, Traceable, OfToday, CollectedOnce, AskedBy, rows, generation, history
  <2>3. ASSUME NEW a, NEW p, AskedBy(a, p, day - JobDays - 1)
        PROVE  AskedBy(a, p, day' - JobDays - 1)
    BY <1>0, <2>1, <2>3, AskedMono
  <2>4. LongAsked'
    BY <2>1, <2>3 DEF OnceInv, LongAsked, AskedBy, rows
  <2>5. Remembered'
    <3>1. ASSUME NEW c \in collected
          PROVE  /\ c[1] \notin Repeated
                 /\ \/ IdOf(c[1], c[2]) \in jobs /\ params[IdOf(c[1], c[2])] = c[2]
                    \/ AskedBy(c[1], c[2], day' - JobDays - 1)
      BY <2>3 DEF OnceInv, Remembered
    <3> QED BY <2>1, <3>1 DEF Remembered, AskedBy, IdOf, rows, history
  <2> QED BY <2>2, <2>4, <2>5
<1>16. CASE UNCHANGED vars
  BY <1>1, <1>2, <1>3, <1>16 DEF vars
<1> QED BY <1>5, <1>6, <1>7, <1>8, OnceCommit, <1>9, <1>10, <1>11, <1>12, <1>13,
           <1>14, <1>15, <1>16 DEF Next

\* Work done is not made pending again, on that day or after its job has been
\* purged, whether or not somebody works by hand during the purge.
THEOREM WorkDoneOnce == Spec => []CollectedOnce
<1>1. Init => OnceInv
  BY InitType
  DEF Init, OnceInv, Traceable, LongAsked, Remembered, OfToday, CollectedOnce
<1>2. OnceInv /\ [Next]_vars => OnceInv'
  BY OnceStep
<1>3. OnceInv => CollectedOnce
  BY DEF OnceInv
<1> QED BY <1>1, <1>2, <1>3, PTL DEF Spec

-----------------------------------------------------------------------------
(* No parameter set dropped *)

\* No builder asks for a contract that has matured.
ContractsListed ==
  \A b \in Builders : \A d \in Day : \A p \in Expansion[b][d] :
    ApiOf[b] \in Contracts => DateOf[p] >= d

\* The jobs a builder wants are there already or staged, under ids of their own.
Prepared ==
  \A g \in Generators : building[g] # NoBuilder =>
    LET a == ApiOf[building[g]] IN
    /\ wanted[g] \subseteq Expansion[building[g]][day]
    /\ \A p \in wanted[g] : \/ p \in staged[g]
                            \/ IdOf(a, p) \in jobs /\ params[IdOf(a, p)] = p
    /\ \A p, q \in staged[g] : IdOf(a, p) = IdOf(a, q) => p = q

PreparedInv == OnceInv /\ LivingInv /\ SnapshotKept /\ Prepared

LEMMA CommitRepresents ==
  ASSUME PreparedInv, NEW g \in Generators, CommitBuild(g), NEW p \in wanted[g]
  PROVE  \E j \in jobs' : j.api = ApiOf[building[g]] /\ params'[j] = p
<1> DEFINE a == ApiOf[building[g]]
           j == IdOf(a, p)
<1>1. /\ \/ p \in staged[g]
         \/ j \in jobs /\ params[j] = p
      /\ \A q, r \in staged[g] : IdOf(a, q) = IdOf(a, r) => q = r
  BY DEF PreparedInv, Prepared, CommitBuild
<1>2. /\ \A k \in NewJobs(g) : params'[k] \in staged[g] /\ k = IdOf(a, params'[k])
      /\ \A k \in jobs : params'[k] = params[k]
      /\ jobs' = jobs \cup NewJobs(g)
  BY NewRows DEF PreparedInv, OnceInv, CommitBuild
<1>3. j.api = a
  BY DEF IdOf
<1>4. CASE p \in staged[g]
  <2>1. j \in NewJobs(g)
    BY <1>4 DEF NewJobs
  <2>2. params'[j] = p
    BY <1>1, <1>2, <1>4, <2>1
  <2> QED BY <1>2, <1>3, <2>1, <2>2
<1>5. CASE j \in jobs /\ params[j] = p
  BY <1>2, <1>3, <1>5
<1> QED BY <1>1, <1>4, <1>5

\* The purge does not take a job that a builder at work has found.
LEMMA PurgeSpares ==
  ASSUME ContractsListed, PreparedInv,
         NEW g \in Generators, building[g] # NoBuilder,
         NEW p \in wanted[g], NEW j \in old,
         j = IdOf(ApiOf[building[g]], p), params[j] = p
  PROVE  FALSE
<1> DEFINE b == building[g]
           a == ApiOf[b]
<1>1. /\ b \in Builders /\ p \in Expansion[b][day] /\ j.api = a
      /\ j \in jobs /\ j \notin active
      /\ day \in Day /\ day \in Int /\ JobDays \in Int
  BY LifecycleAssumption
  DEF PreparedInv, Prepared, OnceInv, LivingInv, CursorHolds, TypeOK, IdOf, Day,
      LifecycleAssumption
<1>2. CASE a \in Repeated
  <2>1. j.api \in Contracts => DateOf[params[j]] >= day
    BY <1>1 DEF ContractsListed
  <2> QED BY <1>1, <1>2, <2>1 DEF PreparedInv, SnapshotKept
<1>3. CASE a \notin Repeated
  <2>1. AskedBy(a, p, day - JobDays - 1)
    BY <1>1 DEF PreparedInv, OnceInv, LongAsked
  <2>2. PICK q \in Builders, d \in Day :
           ApiOf[q] = a /\ p \in Expansion[q][d] /\ d <= day - JobDays - 1
    BY <2>1 DEF AskedBy
  <2>3. day - d <= JobDays
    <3>1. ApiOf[q] = ApiOf[b] /\ ApiOf[q] \notin Repeated
      BY <1>3, <2>2
    <3>2. Expansion[q][d] \cap Expansion[b][day] # {}
      BY <1>1, <2>2
    <3> QED BY <1>1, <3>1, <3>2, LookbackAssumption DEF LookbackAssumption
  <2> QED BY <1>1, <2>2, <2>3 DEF Day
<1> QED BY <1>2, <1>3

LEMMA PreparedStep ==
  ASSUME Undisturbed, ContractsListed
  PROVE  PreparedInv /\ [Next]_vars => PreparedInv'
<1> SUFFICES ASSUME PreparedInv, [Next]_vars PROVE Prepared'
  BY OnceStep, LivingStep, SnapshotStep, TypeStep
  DEF PreparedInv, OnceInv
<1> USE DEF Prepared
<1>0. Prepared /\ TypeOK
  BY DEF PreparedInv, OnceInv
<1>1. ASSUME UNCHANGED <<day, jobs, params, building, wanted, staged>>
      PROVE  Prepared'
  BY <1>0, <1>1 DEF IdOf
<1>2. ASSUME NEW g \in Generators, UNCHANGED <<day, rows>>,
             \A h \in Generators \ {g} :
               /\ building'[h] = building[h] /\ wanted'[h] = wanted[h]
               /\ staged'[h] = staged[h],
             building'[g] = NoBuilder
      PROVE  Prepared'
  BY <1>0, <1>2 DEF IdOf, rows
<1>3. ASSUME NEW g \in Generators, Abandon(g), UNCHANGED <<day, rows>>
      PROVE  Prepared'
  BY <1>0, <1>2, <1>3 DEF Abandon, TypeOK
<1>4. ASSUME NEW g \in Generators, NEW B \in Batches, Generate(g, B)
      PROVE  Prepared'
  BY <1>1, <1>4 DEF Generate, rows
<1>5. ASSUME NEW g \in Generators, NEW b \in Builders, Build(g, b)
      PROVE  Prepared'
  <2> DEFINE P == Expansion[b][day]
             a == ApiOf[b]
             S == {p \in P : IdOf(a, p) \notin jobs}
  <2>1. CASE P = {} \/ Ambiguous(a, P)
    BY <1>3, <1>5, <2>1 DEF Build
  <2>2. CASE ~(P = {} \/ Ambiguous(a, P))
    <3>1. /\ building' = [building EXCEPT ![g] = b]
          /\ wanted' = [wanted EXCEPT ![g] = P]
          /\ staged' = [staged EXCEPT ![g] = S]
          /\ UNCHANGED <<day, rows>>
      BY <1>5, <2>2 DEF Build
    <3>2. /\ \A p, q \in P : IdOf(a, p) = IdOf(a, q) => p = q
          /\ \A p \in P : IdOf(a, p) \in jobs => params[IdOf(a, p)] = p
      BY <2>2 DEF Ambiguous
    <3>3. ASSUME NEW h \in Generators, building'[h] # NoBuilder
          PROVE  LET c == ApiOf[building'[h]] IN
                 /\ wanted'[h] \subseteq Expansion[building'[h]][day]
                 /\ \A p \in wanted'[h] : \/ p \in staged'[h]
                                          \/ IdOf(c, p) \in jobs /\ params[IdOf(c, p)] = p
                 /\ \A p, q \in staged'[h] : IdOf(c, p) = IdOf(c, q) => p = q
      <4>1. CASE h = g
        <5>1. building'[h] = b /\ wanted'[h] = P /\ staged'[h] = S
          BY <1>0, <3>1, <4>1 DEF TypeOK
        <5> QED BY <3>2, <5>1
      <4>2. CASE h # g
        <5>1. /\ building'[h] = building[h] /\ wanted'[h] = wanted[h]
              /\ staged'[h] = staged[h]
          BY <1>0, <3>1, <4>2 DEF TypeOK
        <5> QED BY <1>0, <3>3, <5>1
      <4> QED BY <4>1, <4>2
    <3> QED BY <3>1, <3>3 DEF IdOf, rows
  <2> QED BY <2>1, <2>2
<1>6. ASSUME NEW g \in Generators, CommitBuild(g)
      PROVE  Prepared'
  <2>1. /\ \A h \in Generators \ {g} :
             /\ building'[h] = building[h] /\ wanted'[h] = wanted[h]
             /\ staged'[h] = staged[h]
        /\ building'[g] = NoBuilder
        /\ day' = day
        /\ jobs \subseteq jobs'
    BY <1>0, <1>6 DEF CommitBuild, TypeOK
  <2>2. \A j \in jobs : params'[j] = params[j]
    BY <1>0, <1>6, NewRows
  <2> QED BY <1>0, <2>1, <2>2 DEF IdOf
<1>7. ASSUME NEW g \in Generators, DuplicateKey(g)
      PROVE  Prepared'
  BY <1>3, <1>7 DEF DuplicateKey
<1>8. ASSUME NEW j \in Id, RunPending(j) \/ RunFinished(j)
      PROVE  Prepared'
  <2>1. j \in jobs /\ Execute(j)
    BY <1>0, <1>8 DEF RunPending, RunFinished, TypeOK
  <2> QED BY <1>1, <2>1, ExecuteCases DEF Fail, Succeed, generation
<1>9. CASE PurgeBatch
  <2>1. PICK B \in SUBSET old :
          /\ jobs' = jobs \ B
          /\ params' = [j \in jobs' |-> params[j]]
          /\ UNCHANGED <<day, building, wanted, staged>>
    BY <1>9 DEF PurgeBatch, generation
  <2>2. ASSUME NEW g \in Generators, building[g] # NoBuilder,
               NEW p \in wanted[g], p \notin staged[g]
        PROVE  LET j == IdOf(ApiOf[building[g]], p) IN
               j \in jobs' /\ params'[j] = p
    <3> DEFINE j == IdOf(ApiOf[building[g]], p)
    <3>1. j \in jobs /\ params[j] = p
      BY <1>0, <2>2
    <3>2. j \notin old
      BY <2>2, <3>1, PurgeSpares
    <3> QED BY <2>1, <3>1, <3>2
  <2> QED BY <1>0, <2>1, <2>2 DEF IdOf
<1>10. CASE NextDay
  <2>1. \A g \in Generators : building'[g] = NoBuilder
    BY <1>10 DEF NextDay, generation
  <2> QED BY <2>1
<1>11. ASSUME NEW j \in Id, Reopen(j) PROVE Prepared'
  BY <1>1, <1>11 DEF Reopen, generation
<1>12. CASE Retire \/ OpenCursor \/ PurgeStops \/ PurgeLogs
  BY <1>1, <1>12 DEF Retire, OpenCursor, PurgeStops, PurgeLogs, rows, generation
<1>13. CASE UNCHANGED vars
  BY <1>1, <1>13 DEF vars
<1> QED BY <1>4, <1>5, <1>6, <1>7, <1>8, <1>9, <1>10, <1>11, <1>12, <1>13
        DEF Next

\* A builder whose jobs are committed has one for each of its parameter sets,
\* even if the purge runs while it is at work.
THEOREM AllRepresented ==
  Undisturbed /\ ContractsListed => (Spec => Represented)
<1> SUFFICES ASSUME Undisturbed, ContractsListed PROVE Spec => Represented
  OBVIOUS
<1>1. Init => PreparedInv
  BY InitType
  DEF Init, PreparedInv, OnceInv, LivingInv, SnapshotKept, Prepared, Traceable,
      LongAsked, Remembered, OfToday, CollectedOnce, CursorHolds, WinsLogged
<1>2. PreparedInv /\ [Next]_vars => PreparedInv'
  BY PreparedStep
<1>3. PreparedInv =>
        \A g \in Generators :
          CommitBuild(g) =>
            \A p \in wanted[g] :
              \E j \in jobs' : j.api = ApiOf[building[g]] /\ params'[j] = p
  BY CommitRepresents
<1> QED BY <1>1, <1>2, <1>3, PTL DEF Spec, Represented
=============================================================================
