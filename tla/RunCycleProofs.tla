--------------------------- MODULE RunCycleProofs ---------------------------
(***************************************************************************)
(* Theorems about RunCycle, for every set of jobs, apis and hosts, every   *)
(* database order and every reply a source may give.                       *)
(***************************************************************************)
EXTENDS RunCycle, FiniteSetTheorems, TLAPS

USE DEF Reply, Phase, Ending

-----------------------------------------------------------------------------
(* Type correctness. *)

\* What every way of ending an execution leaves well typed.
LEMMA EndingType ==
  ASSUME TypeOK, NEW j \in Jobs, Succeed(j) \/ ComeUpEmpty(j) \/ Fail(j)
  PROVE  /\ active' \subseteq Jobs
         /\ streak' \in [Apis -> Nat]
         /\ last' \in [Jobs -> Ending]
  <1>1. ApiOf[j] \in Apis
    BY RowsAssumption DEF RowsAssumption
  <1>2. CASE Succeed(j)
    BY <1>1, <1>2 DEF Succeed, TypeOK
  <1>3. CASE ComeUpEmpty(j)
    BY <1>1, <1>3 DEF ComeUpEmpty, TypeOK
  <1>4. CASE Fail(j)
    BY <1>1, <1>4 DEF Fail, TypeOK
  <1> QED BY <1>2, <1>3, <1>4

LEMMA RefusalType ==
  ASSUME TypeOK, NEW j \in Jobs, NEW h \in Hosts, Refuse(j, h)
  PROVE  /\ active' \subseteq Jobs
         /\ streak' \in [Apis -> Nat]
         /\ last' \in [Jobs -> Ending]
         /\ refusals' \in [Hosts -> Nat]
  BY DEF Refuse, TypeOK

\* Asking a host that is set aside, or appending to its list, is well typed.
LEMMA AppendType ==
  ASSUME TypeOK, NEW j \in Jobs, NEW h \in Hosts,
         deferred' = [deferred EXCEPT ![h] = Append(@, j)]
  PROVE  deferred' \in [Hosts -> Seq(Jobs)]
  <1>1. Append(deferred[h], j) \in Seq(Jobs)
    BY DEF TypeOK
  <1> QED BY <1>1 DEF TypeOK

LEMMA PendingType ==
  ASSUME TypeOK, pending # <<>>
  PROVE  Head(pending) \in Jobs /\ Tail(pending) \in Seq(Jobs)
  BY DEF TypeOK

LEMMA ElemsType ==
  ASSUME TypeOK
  PROVE  Elems(pending) \subseteq Jobs
  BY DEF TypeOK, Elems

LEMMA TypeStep == TypeOK /\ [Next]_vars => TypeOK'
  <1> SUFFICES ASSUME TypeOK, [Next]_vars PROVE TypeOK'
    OBVIOUS
  <1> USE RowsAssumption DEF RowsAssumption
  <1>1. CASE Scan
    BY <1>1 DEF TypeOK, Scan, dbVars
  <1>2. ASSUME NEW j \in Jobs, SkipJob(j) PROVE TypeOK'
    BY <1>2 DEF TypeOK, SkipJob, dbVars, passVars
  <1>3. ASSUME NEW j \in Jobs, PutOff(j) PROVE TypeOK'
    <2>1. SeenHost(ApiOf[j]) \in Hosts
      BY <1>3 DEF TypeOK, PutOff
    <2>2. deferred' \in [Hosts -> Seq(Jobs)]
      BY <1>3, <2>1, AppendType DEF PutOff, SetAside
    <2> QED BY <1>3, <2>1, <2>2 DEF TypeOK, PutOff, SetAside, dbVars, passVars
  <1>4. ASSUME NEW j \in Jobs, RunJob(j) PROVE TypeOK'
    <2>1. tried' \in [Jobs -> Nat] /\ todo' \subseteq Jobs /\ known' \subseteq Apis
      BY <1>4 DEF TypeOK, RunJob, Send
    <2>2. CASE /\ Succeed(j) \/ ComeUpEmpty(j) \/ Fail(j)
               /\ UNCHANGED <<setAside, deferred, refusals>>
      BY <1>4, <2>1, <2>2, EndingType DEF TypeOK, RunJob, passVars
    <2>3. ASSUME NEW h \in Hosts, Refuse(j, h),
                 setAside' = setAside \cup {h},
                 deferred' = [deferred EXCEPT ![h] = Append(@, j)]
          PROVE  TypeOK'
      <3>1. deferred' \in [Hosts -> Seq(Jobs)]
        BY <2>3, AppendType
      <3> QED BY <1>4, <2>1, <2>3, <3>1, RefusalType DEF TypeOK, RunJob, passVars
    <2> QED BY <1>4, <2>2, <2>3 DEF RunJob, SetAside
  <1>5. ASSUME NEW j \in Jobs, OrphanAborts(j) PROVE TypeOK'
    BY <1>5 DEF TypeOK, OrphanAborts, dbVars, passVars
  <1>6. CASE EndMainLoop
    BY <1>6 DEF TypeOK, EndMainLoop, dbVars, passVars
  <1>7. ASSUME NEW h \in Hosts, WakeUp(h) PROVE TypeOK'
    BY <1>7 DEF TypeOK, WakeUp, dbVars, historyVars
  <1>8. CASE LoggedIn
    BY <1>8 DEF TypeOK, LoggedIn, dbVars, passVars
  <1>9. CASE LoginFails
    <2>1. ASSUME NEW h \in Hosts,
                 refusals' = [refusals EXCEPT ![h] = @ + 1]
          PROVE  refusals' \in [Hosts -> Nat]
      BY <2>1 DEF TypeOK
    <2>2. UNCHANGED refusals => refusals' \in [Hosts -> Nat]
      BY DEF TypeOK
    <2>3. refusals' \in [Hosts -> Nat]
      BY <1>9, <2>1, <2>2 DEF LoginFails
    <2> QED BY <1>9, <2>3, ElemsType DEF TypeOK, LoginFails, GiveUpHost
  <1>10. CASE SkipDeferredJob
    BY <1>10, PendingType DEF TypeOK, SkipDeferredJob, PassOn, dbVars, historyVars
  <1>11. CASE RunDeferredJob
    <2> DEFINE j == Head(pending)
    <2>1. j \in Jobs /\ Tail(pending) \in Seq(Jobs)
      BY <1>11, PendingType DEF RunDeferredJob
    <2>2. tried' \in [Jobs -> Nat]
      BY <1>11, <2>1 DEF TypeOK, RunDeferredJob, Send
    <2>3. CASE /\ Succeed(j) \/ ComeUpEmpty(j) \/ Fail(j)
               /\ pending' = Tail(pending)
               /\ UNCHANGED <<present, phase, todo, known, loginApis, skipped,
                              setAside, deferred, host, scanned, refusals,
                              left>>
      <3>1. /\ active' \subseteq Jobs
            /\ streak' \in [Apis -> Nat]
            /\ last' \in [Jobs -> Ending]
        BY <2>1, <2>3, EndingType
      <3> QED BY <2>1, <2>2, <2>3, <3>1 DEF TypeOK
    <2>4. ASSUME NEW h \in Hosts, Refuse(j, h), GiveUpHost PROVE TypeOK'
      <3>1. /\ active' \subseteq Jobs
            /\ streak' \in [Apis -> Nat]
            /\ last' \in [Jobs -> Ending]
            /\ refusals' \in [Hosts -> Nat]
        BY <2>1, <2>4, RefusalType
      <3> QED BY <2>2, <2>4, <3>1, ElemsType DEF TypeOK, GiveUpHost
    <2> QED BY <1>11, <2>3, <2>4 DEF RunDeferredJob, PassOn
  <1>12. CASE EndDeferredPass
    BY <1>12 DEF TypeOK, EndDeferredPass, dbVars, passVars
  <1>13. CASE Finish
    BY <1>13 DEF TypeOK, Finish, dbVars, passVars
  <1>14. ASSUME NEW a \in Apis, DeleteApi(a) PROVE TypeOK'
    BY <1>14 DEF TypeOK, DeleteApi, passVars
  <1>15. CASE UNCHANGED vars
    BY <1>15 DEF TypeOK, vars
  <1> QED
    BY <1>1, <1>2, <1>3, <1>4, <1>5, <1>6, <1>7, <1>8, <1>9, <1>10, <1>11,
       <1>12, <1>13, <1>14, <1>15 DEF Next, CycleStep

LEMMA TypeInit == Init => TypeOK
  BY RowsAssumption DEF RowsAssumption, Init, TypeOK

\* Every variable of the cycle keeps its type, whatever the instance.
THEOREM TypeCorrect == Spec => []TypeOK
  BY TypeInit, TypeStep, PTL DEF Spec

-----------------------------------------------------------------------------
(* The refusal budget.                                                     *)
(*                                                                         *)
(* AtMostTwoRefusals and NotHammered are not inductive: they say nothing   *)
(* of who may still ask a host.  Budget adds it.  A host that is set aside *)
(* has been asked by the main loop and will be asked once more, by its own *)
(* deferred pass; the jobs kept for it, and the login row they name, can   *)
(* be refused by nobody else, for they are all jobs of that host.          *)

\* Every job kept for a host is a job of that host.
OwnJobs ==
  /\ \A h \in Hosts : \A i \in DOMAIN deferred[h] : HostOf[ApiOf[deferred[h][i]]] = h
  /\ \A i \in DOMAIN pending : HostOf[ApiOf[pending[i]]] = host

\* There is a job to log in for.
SomeoneWaits ==
  /\ \A h \in setAside : deferred[h] # <<>>
  /\ phase = "login" => pending # <<>>

\* The refusals a host may have served by now.
Served ==
  \A h \in Hosts :
    /\ refusals[h] <= 2
    /\ h \in setAside => refusals[h] <= 1
    /\ phase = "main" /\ h \notin setAside => refusals[h] = 0
    /\ phase \in {"login", "deferred"} /\ h = host =>
         refusals[h] <= 1 /\ h \notin setAside

Budget == OwnJobs /\ SomeoneWaits /\ Served

LEMMA SeenIsOwn ==
  ASSUME NEW a \in Apis, SeenHost(a) \in Hosts
  PROVE  SeenHost(a) = HostOf[a]
  BY RowsAssumption DEF RowsAssumption, SeenHost

\* Putting a job off for its own host.
LEMMA AppendOwn ==
  ASSUME TypeOK, OwnJobs, NEW j \in Jobs, NEW h \in Hosts,
         HostOf[ApiOf[j]] = h,
         deferred' = [deferred EXCEPT ![h] = Append(@, j)]
  PROVE  /\ \A g \in Hosts : \A i \in DOMAIN deferred'[g] :
               HostOf[ApiOf[deferred'[g][i]]] = g
         /\ deferred'[h] # <<>>
         /\ \A g \in Hosts \ {h} : deferred'[g] = deferred[g]
  <1>1. deferred'[h] = Append(deferred[h], j)
    BY DEF TypeOK
  <1>2. \A g \in Hosts \ {h} : deferred'[g] = deferred[g]
    BY DEF TypeOK
  <1>3. deferred[h] \in Seq(Jobs)
    BY DEF TypeOK
  <1>4. deferred'[h] # <<>>
    BY <1>1, <1>3
  <1>5. \A i \in DOMAIN deferred'[h] : HostOf[ApiOf[deferred'[h][i]]] = h
    <2>1. ASSUME NEW i \in DOMAIN deferred'[h]
          PROVE  HostOf[ApiOf[deferred'[h][i]]] = h
      <3>1. CASE i \in DOMAIN deferred[h]
        <4>1. deferred'[h][i] = deferred[h][i]
          BY <1>1, <1>3, <3>1
        <4> QED BY <3>1, <4>1 DEF OwnJobs
      <3>2. CASE i \notin DOMAIN deferred[h]
        <4>1. deferred'[h][i] = j
          BY <1>1, <1>3, <2>1, <3>2
        <4> QED BY <4>1
      <3> QED BY <3>1, <3>2
    <2> QED BY <2>1
  <1> QED BY <1>2, <1>4, <1>5 DEF OwnJobs

LEMMA HeadOwn ==
  ASSUME TypeOK, OwnJobs, pending # <<>>
  PROVE  HostOf[ApiOf[Head(pending)]] = host
  <1>1. 1 \in DOMAIN pending /\ Head(pending) = pending[1]
    BY DEF TypeOK
  <1> QED BY <1>1 DEF OwnJobs

LEMMA TailOwn ==
  ASSUME TypeOK, OwnJobs, pending # <<>>, pending' = Tail(pending), host' = host
  PROVE  \A i \in DOMAIN pending' : HostOf[ApiOf[pending'[i]]] = host'
  <1>1. ASSUME NEW i \in DOMAIN pending'
        PROVE  HostOf[ApiOf[pending'[i]]] = host'
    <2>1. i + 1 \in DOMAIN pending /\ pending'[i] = pending[i + 1]
      BY <1>1 DEF TypeOK
    <2> QED BY <2>1 DEF OwnJobs
  <1> QED BY <1>1

\* A refusal met in the deferred pass, by a job or by its login.
LEMMA GivenUp ==
  ASSUME TypeOK, Budget, GiveUpHost, phase \in {"login", "deferred"},
         \/ UNCHANGED refusals
         \/ host \in Hosts /\ refusals' = [refusals EXCEPT ![host] = @ + 1]
  PROVE  Budget'
  <1>1. OwnJobs'
    BY DEF Budget, OwnJobs, GiveUpHost
  <1>2. SomeoneWaits'
    BY DEF Budget, SomeoneWaits, GiveUpHost
  <1>3. Served'
    <2>1. CASE UNCHANGED refusals
      BY <2>1 DEF Budget, Served, GiveUpHost
    <2>2. CASE host \in Hosts /\ refusals' = [refusals EXCEPT ![host] = @ + 1]
      <3>1. \A h \in Hosts : refusals'[h] =
              IF h = host THEN refusals[h] + 1 ELSE refusals[h]
        BY <2>2 DEF TypeOK
      <3>2. \A h \in Hosts : refusals[h] \in Nat
        BY DEF TypeOK
      <3> QED BY <2>2, <3>1, <3>2 DEF Budget, Served, GiveUpHost
    <2> QED BY <2>1, <2>2
  <1> QED BY <1>1, <1>2, <1>3 DEF Budget

\* A step that leaves the host lists alone and enters no phase of its own.
LEMMA ListsAlone ==
  ASSUME Budget, UNCHANGED <<setAside, deferred, host, pending, refusals>>,
         \/ phase' = phase
         \/ phase = "login" /\ phase' = "deferred"
         \/ phase' \in {"cool", "done", "aborted"}
  PROVE  Budget'
  BY DEF Budget, OwnJobs, SomeoneWaits, Served

LEMMA BudgetStep ==
  ASSUME OwnHostOnly, TypeOK, Budget, [Next]_vars
  PROVE  Budget'
  <1> USE RowsAssumption DEF RowsAssumption
  <1>1. CASE Scan
    BY <1>1 DEF Scan, Budget, OwnJobs, SomeoneWaits, Served
  <1>2. ASSUME NEW j \in Jobs, SkipJob(j) PROVE Budget'
    BY <1>2, ListsAlone DEF SkipJob, passVars
  <1>3. ASSUME NEW j \in Jobs, PutOff(j) PROVE Budget'
    <2> DEFINE h == SeenHost(ApiOf[j])
    <2>1. h \in Hosts /\ ApiOf[j] \in Apis
      BY <1>3 DEF PutOff, TypeOK
    <2>2. HostOf[ApiOf[j]] = h
      BY <2>1, SeenIsOwn
    <2>3. deferred' = [deferred EXCEPT ![h] = Append(@, j)]
      BY <1>3 DEF PutOff, SetAside
    <2> HIDE DEF h
    <2>4. /\ \A g \in Hosts : \A i \in DOMAIN deferred'[g] :
               HostOf[ApiOf[deferred'[g][i]]] = g
          /\ deferred'[h] # <<>>
          /\ \A g \in Hosts \ {h} : deferred'[g] = deferred[g]
      BY <2>1, <2>2, <2>3, AppendOwn DEF Budget
    <2>5. UNCHANGED <<phase, setAside, host, pending, refusals>>
      BY <1>3 DEF PutOff, SetAside, passVars, h
    <2>6. OwnJobs'
      BY <2>4, <2>5 DEF Budget, OwnJobs
    <2>7. SomeoneWaits'
      BY <2>4, <2>5 DEF Budget, SomeoneWaits, TypeOK
    <2>8. Served'
      BY <2>5 DEF Budget, Served
    <2> QED BY <2>6, <2>7, <2>8 DEF Budget
  <1>4. ASSUME NEW j \in Jobs, RunJob(j) PROVE Budget'
    <2>1. UNCHANGED <<phase, host, pending>> /\ phase = "main"
      BY <1>4 DEF RunJob, passVars
    <2>2. CASE UNCHANGED <<setAside, deferred, refusals>>
      BY <2>1, <2>2, ListsAlone
    <2>3. ASSUME NEW h \in Hosts, Refuse(j, h),
                 setAside' = setAside \cup {h},
                 deferred' = [deferred EXCEPT ![h] = Append(@, j)]
          PROVE  Budget'
      \* The refusing host is the job's own, and it was not set aside.
      <3>1. HostOf[ApiOf[j]] = h
        BY <2>3 DEF OwnHostOnly, Refuse
      <3>2. h \notin setAside
        BY <1>4, <3>1 DEF RunJob, Send, SeenHost
      <3>3. /\ \A g \in Hosts : \A i \in DOMAIN deferred'[g] :
                 HostOf[ApiOf[deferred'[g][i]]] = g
            /\ deferred'[h] # <<>>
            /\ \A g \in Hosts \ {h} : deferred'[g] = deferred[g]
        BY <2>3, <3>1, AppendOwn DEF Budget
      <3>4. \A g \in Hosts :
              refusals'[g] = IF g = h THEN refusals[g] + 1 ELSE refusals[g]
        BY <2>3 DEF Refuse, TypeOK
      <3>5. OwnJobs'
        BY <2>1, <3>3 DEF Budget, OwnJobs
      <3>6. SomeoneWaits'
        BY <2>1, <2>3, <3>3 DEF Budget, SomeoneWaits, TypeOK
      <3>7. Served'
        BY <2>1, <2>3, <3>2, <3>4 DEF Budget, Served
      <3> QED BY <3>5, <3>6, <3>7 DEF Budget
    <2> QED BY <1>4, <2>2, <2>3 DEF RunJob, SetAside
  <1>5. ASSUME NEW j \in Jobs, OrphanAborts(j) PROVE Budget'
    BY <1>5, ListsAlone DEF OrphanAborts, passVars
  <1>6. CASE EndMainLoop
    BY <1>6, ListsAlone DEF EndMainLoop, passVars
  <1>7. ASSUME NEW h \in Hosts, WakeUp(h) PROVE Budget'
    <2>1. deferred' = [deferred EXCEPT ![h] = <<>>]
      BY <1>7 DEF WakeUp
    <2>2. /\ deferred'[h] = <<>>
          /\ \A g \in Hosts \ {h} : deferred'[g] = deferred[g]
      BY <2>1 DEF TypeOK
    <2>3. OwnJobs'
      <3>1. \A g \in Hosts : \A i \in DOMAIN deferred'[g] :
              HostOf[ApiOf[deferred'[g][i]]] = g
        BY <2>2 DEF Budget, OwnJobs
      <3>2. \A i \in DOMAIN pending' : HostOf[ApiOf[pending'[i]]] = host'
        BY <1>7 DEF WakeUp, Budget, OwnJobs
      <3> QED BY <3>1, <3>2 DEF OwnJobs
    <2>4. SomeoneWaits'
      BY <1>7, <2>2 DEF WakeUp, Budget, SomeoneWaits, TypeOK
    <2>5. Served'
      BY <1>7 DEF WakeUp, Budget, Served, historyVars, TypeOK
    <2> QED BY <2>3, <2>4, <2>5 DEF Budget
  <1>8. CASE LoggedIn
    BY <1>8, ListsAlone DEF LoggedIn, passVars
  <1>9. CASE LoginFails
    <2>1. phase = "login" /\ GiveUpHost
      BY <1>9 DEF LoginFails
    <2>2. ASSUME NEW h \in Hosts, LoginRow \in present,
                 h \in Contacts[LoginRow],
                 refusals' = [refusals EXCEPT ![h] = @ + 1]
          PROVE  h = host
      \* The row logged in to is the one the first waiting job names.
      <3>1. pending # <<>>
        BY <2>1 DEF Budget, SomeoneWaits
      <3>2. Head(pending) \in Jobs /\ HostOf[ApiOf[Head(pending)]] = host
        BY <3>1, PendingType, HeadOwn DEF Budget
      <3>3. LoginRow # NoLogin
        BY <1>9 DEF LoginFails
      <3>4. LoginRow = LoginOf[ApiOf[Head(pending)]]
        BY <3>3 DEF LoginRow
      <3>5. ApiOf[Head(pending)] \in Apis
        BY <3>2
      <3> QED BY <2>2, <3>2, <3>3, <3>4, <3>5 DEF OwnHostOnly
    <2> QED BY <1>9, <2>1, <2>2, GivenUp DEF LoginFails
  <1>10. CASE SkipDeferredJob
    <2>1. UNCHANGED <<phase, setAside, deferred, host, refusals>>
      BY <1>10 DEF SkipDeferredJob, historyVars
    <2>2. OwnJobs'
      BY <1>10, <2>1, TailOwn DEF SkipDeferredJob, PassOn, Budget, OwnJobs
    <2> QED
      BY <1>10, <2>1, <2>2 DEF SkipDeferredJob, Budget, SomeoneWaits, Served
  <1>11. CASE RunDeferredJob
    <2> DEFINE j == Head(pending)
    <2>1. phase = "deferred" /\ pending # <<>>
      BY <1>11 DEF RunDeferredJob
    <2>2. j \in Jobs /\ HostOf[ApiOf[j]] = host
      BY <2>1, PendingType, HeadOwn DEF Budget
    <2>3. CASE /\ pending' = Tail(pending)
               /\ UNCHANGED <<present, phase, todo, known, loginApis, skipped,
                              setAside, deferred, host, scanned, refusals,
                              left>>
      <3>1. OwnJobs'
        BY <2>1, <2>3, TailOwn DEF Budget, OwnJobs
      <3> QED BY <2>1, <2>3, <3>1 DEF Budget, SomeoneWaits, Served
    <2>4. ASSUME NEW h \in Hosts, Refuse(j, h), GiveUpHost PROVE Budget'
      <3>1. h = host
        BY <2>2, <2>4 DEF OwnHostOnly, Refuse
      <3> QED BY <2>1, <2>4, <3>1, GivenUp DEF Refuse
    <2> QED BY <1>11, <2>3, <2>4 DEF RunDeferredJob, PassOn
  <1>12. CASE EndDeferredPass
    BY <1>12, ListsAlone DEF EndDeferredPass, passVars
  <1>13. CASE Finish
    BY <1>13, ListsAlone DEF Finish, passVars
  <1>14. ASSUME NEW a \in Apis, DeleteApi(a) PROVE Budget'
    BY <1>14, ListsAlone DEF DeleteApi, passVars
  <1>15. CASE UNCHANGED vars
    BY <1>15, ListsAlone DEF vars
  <1> QED
    BY <1>1, <1>2, <1>3, <1>4, <1>5, <1>6, <1>7, <1>8, <1>9, <1>10, <1>11,
       <1>12, <1>13, <1>14, <1>15 DEF Next, CycleStep

LEMMA BudgetInit == Init => Budget
  BY DEF Init, Budget, OwnJobs, SomeoneWaits, Served

LEMMA BudgetKept == ASSUME OwnHostOnly PROVE Spec => []Budget
  <1>1. TypeOK /\ Budget /\ [Next]_vars => Budget'
    BY BudgetStep
  <1> QED BY <1>1, BudgetInit, TypeCorrect, PTL DEF Spec

\* Where every page is served by the host of the row that asks for it, a host
\* refuses at most twice in a cycle: once in the main loop, once in the
\* deferred pass that gives it one more chance.
THEOREM TwoRefusals == ASSUME OwnHostOnly PROVE Spec => []AtMostTwoRefusals
  <1>1. Budget => AtMostTwoRefusals
    BY DEF Budget, Served, AtMostTwoRefusals
  <1> QED BY <1>1, BudgetKept, PTL

\* Under the same condition the main loop never sends a second job to a host
\* that has refused one: the rest are set aside.  Without the condition
\* run_cycle breaks this promise (a login page on a host of its own, see the
\* README).
THEOREM SetAsideNotHammered == ASSUME OwnHostOnly PROVE Spec => []NotHammered
  <1>1. TypeOK /\ Budget => NotHammered
    BY DEF TypeOK, Budget, Served, NotHammered
  <1> QED BY <1>1, BudgetKept, TypeCorrect, PTL

-----------------------------------------------------------------------------
(***************************************************************************)
(* What becomes of the jobs of one cycle: none is forgotten, none is       *)
(* handled twice, and a source that does not work costs no more than the   *)
(* breaker allows.                                                         *)
(***************************************************************************)

\* A job that waits, in whichever list, has not been executed, and has been
\* sent no further than the refusal that put it off.
Waits(j) ==
  /\ last[j] \notin Settled
  /\ j \notin skipped \cup left
  /\ tried[j] = 0 \/ (tried[j] = 1 /\ last[j] = "refused")

\* The same after a step, for a job that is named before it.
WaitsOn(j) ==
  /\ last'[j] \notin Settled
  /\ j \notin skipped' \cup left'
  /\ tried'[j] = 0 \/ (tried'[j] = 1 /\ last'[j] = "refused")

Waiting ==
  /\ \A j \in todo : Waits(j) /\ tried[j] = 0
  /\ \A h \in Hosts : \A i \in DOMAIN deferred[h] :
       Waits(deferred[h][i]) /\ deferred[h][i] \notin todo
  /\ \A i \in DOMAIN pending : Waits(pending[i]) /\ pending[i] \notin todo

\* It stands in one list, once.
InOneList ==
  /\ \A h, g \in Hosts : \A i \in DOMAIN deferred[h], k \in DOMAIN deferred[g] :
       deferred[h][i] = deferred[g][k] => h = g /\ i = k
  /\ \A i, k \in DOMAIN pending : pending[i] = pending[k] => i = k
  /\ \A h \in Hosts : \A i \in DOMAIN deferred[h], k \in DOMAIN pending :
       deferred[h][i] # pending[k]

\* A job that is through with is so for one reason.
OneEnd ==
  /\ \A j \in skipped : last[j] \notin Settled /\ j \notin left
  /\ \A j \in left : last[j] \notin Settled

InDeferred(j) == \E h \in Hosts : \E i \in DOMAIN deferred[h] : deferred[h][i] = j
InPending(j)  == \E i \in DOMAIN pending : pending[i] = j

\* No scanned job is in none of the places.
Kept ==
  \A j \in scanned :
    \/ j \in todo \/ InDeferred(j) \/ InPending(j)
    \/ last[j] \in Settled \/ j \in skipped \cup left

\* A list is emptied before the phase that does not look at it.
Drained ==
  /\ phase \in {"idle", "main", "cool", "done"} => pending = <<>>
  /\ phase \in {"cool", "login", "deferred", "done"} => todo = {}
  /\ \A h \in Hosts \ setAside : deferred[h] = <<>>
  /\ phase = "done" => setAside = {}

Places == Waiting /\ InOneList /\ OneEnd /\ Kept /\ Drained

-----------------------------------------------------------------------------
(* What a step does to the lists. *)

\* A job appended to the list of a host.
LEMMA Appended ==
  ASSUME TypeOK, NEW j \in Jobs, NEW h \in Hosts,
         deferred' = [deferred EXCEPT ![h] = Append(@, j)]
  PROVE  LET n == Len(deferred[h]) + 1 IN
         /\ n \in DOMAIN deferred'[h] /\ deferred'[h][n] = j
         /\ \A g \in Hosts : \A i \in DOMAIN deferred[g] :
              i \in DOMAIN deferred'[g] /\ deferred'[g][i] = deferred[g][i]
         /\ \A g \in Hosts : \A i \in DOMAIN deferred'[g] :
              i \in DOMAIN deferred[g] \/ (g = h /\ i = n)
         /\ \A g \in Hosts \ {h} : deferred'[g] = deferred[g]
  <1> DEFINE n == Len(deferred[h]) + 1
  <1>1. deferred'[h] = Append(deferred[h], j) /\ deferred[h] \in Seq(Jobs)
    BY DEF TypeOK
  <1>2. \A g \in Hosts \ {h} : deferred'[g] = deferred[g]
    BY DEF TypeOK
  <1>3. n \in DOMAIN deferred'[h] /\ deferred'[h][n] = j
    BY <1>1
  <1>4. \A i \in DOMAIN deferred[h] :
          i \in DOMAIN deferred'[h] /\ deferred'[h][i] = deferred[h][i]
    BY <1>1
  <1>5. \A i \in DOMAIN deferred'[h] : i \in DOMAIN deferred[h] \/ i = n
    BY <1>1
  <1> HIDE DEF n
  <1>6. \A g \in Hosts : \A i \in DOMAIN deferred[g] :
          i \in DOMAIN deferred'[g] /\ deferred'[g][i] = deferred[g][i]
    BY <1>2, <1>4
  <1>7. \A g \in Hosts : \A i \in DOMAIN deferred'[g] :
          i \in DOMAIN deferred[g] \/ (g = h /\ i = n)
    BY <1>2, <1>5
  <1> QED BY <1>2, <1>3, <1>6, <1>7 DEF n

\* The first job of the pass taken off its list.
LEMMA TakenOff ==
  ASSUME TypeOK, pending # <<>>, pending' = Tail(pending)
  PROVE  /\ 1 \in DOMAIN pending /\ pending[1] = Head(pending)
         /\ \A i \in DOMAIN pending' :
              /\ i + 1 \in DOMAIN pending /\ i + 1 # 1
              /\ pending'[i] = pending[i + 1]
         /\ \A i \in DOMAIN pending' : i \in Int
         /\ \A i \in DOMAIN pending :
              i = 1 \/ (i - 1 \in DOMAIN pending' /\ pending'[i - 1] = pending[i])
  <1>1. pending \in Seq(Jobs)
    BY DEF TypeOK
  <1> QED BY <1>1

\* A job is sent: the others' attempts stand.
LEMMA OnlyOneSent ==
  ASSUME TypeOK, NEW j \in Jobs, Send(j),
         \/ Succeed(j) \/ ComeUpEmpty(j) \/ Fail(j)
         \/ \E h \in Hosts : Refuse(j, h)
  PROVE  /\ tried'[j] = tried[j] + 1
         /\ \A k \in Jobs \ {j} : tried'[k] = tried[k] /\ last'[k] = last[k]
  BY DEF TypeOK, Send, Succeed, ComeUpEmpty, Fail, Refuse

LEMMA Settles ==
  ASSUME TypeOK, NEW j \in Jobs, Succeed(j) \/ ComeUpEmpty(j) \/ Fail(j)
  PROVE  last'[j] \in Settled
  BY DEF TypeOK, Succeed, ComeUpEmpty, Fail, Settled

LEMMA IsRefused ==
  ASSUME TypeOK, NEW j \in Jobs, NEW h \in Hosts, Refuse(j, h)
  PROVE  last'[j] = "refused"
  BY DEF TypeOK, Refuse

\* Nothing moves.
LEMMA NothingMoves ==
  ASSUME Places,
         UNCHANGED <<todo, setAside, deferred, pending, skipped, left, scanned,
                     tried, last>>,
         \/ phase' = phase
         \/ phase = "main" /\ todo = {} /\ phase' = "cool"
         \/ phase = "login" /\ phase' = "deferred"
         \/ phase = "deferred" /\ pending = <<>> /\ phase' = "cool"
         \/ phase = "cool" /\ setAside = {} /\ phase' = "done"
         \/ phase' = "aborted"
  PROVE  Places'
  <1>1. Waiting' /\ InOneList' /\ OneEnd'
    BY DEF Places, Waiting, Waits, InOneList, OneEnd
  <1>2. Kept'
    BY DEF Places, Kept, InDeferred, InPending
  <1>3. Drained'
    BY DEF Places, Drained
  <1> QED BY <1>1, <1>2, <1>3 DEF Places

\* A job of the main loop put off for a host, sent and refused or not sent.
LEMMA PutOffMoves ==
  ASSUME TypeOK, Places, NEW j \in todo, NEW h \in Hosts, SetAside(j, h),
         phase = "main", todo' = todo \ {j},
         UNCHANGED <<phase, pending, skipped, left, scanned>>,
         \A k \in Jobs \ {j} : tried'[k] = tried[k] /\ last'[k] = last[k],
         \/ tried'[j] = tried[j] /\ last'[j] = last[j]
         \/ tried'[j] = tried[j] + 1 /\ last'[j] = "refused"
  PROVE  Places'
  <1> DEFINE n == Len(deferred[h]) + 1
  <1>1. j \in Jobs /\ setAside' = setAside \cup {h}
    BY DEF TypeOK, SetAside
  <1>2. /\ n \in DOMAIN deferred'[h] /\ deferred'[h][n] = j
        /\ \A g \in Hosts : \A i \in DOMAIN deferred[g] :
             i \in DOMAIN deferred'[g] /\ deferred'[g][i] = deferred[g][i]
        /\ \A g \in Hosts : \A i \in DOMAIN deferred'[g] :
             i \in DOMAIN deferred[g] \/ (g = h /\ i = n)
        /\ \A g \in Hosts \ {h} : deferred'[g] = deferred[g]
    BY <1>1, Appended DEF SetAside
  <1> HIDE DEF n
  <1>3. pending = <<>> /\ pending' = <<>>
    BY DEF Places, Drained
  <1>4. \A g \in Hosts : \A i \in DOMAIN deferred[g] :
          deferred[g][i] \in Jobs /\ deferred[g][i] # j
    BY DEF Places, Waiting, TypeOK
  <1>5. Waits(j) /\ tried[j] = 0
    BY DEF Places, Waiting
  <1>6. WaitsOn(j)
    BY <1>5 DEF Waits, WaitsOn, Settled
  <1>7. \A k \in Jobs \ {j} : Waits(k) => WaitsOn(k)
    BY DEF Waits, WaitsOn
  <1>8. Waiting'
    <2>1. \A k \in todo' : WaitsOn(k) /\ tried'[k] = 0
      BY <1>7 DEF Places, Waiting, TypeOK
    <2>2. ASSUME NEW g \in Hosts, NEW i \in DOMAIN deferred'[g]
          PROVE  WaitsOn(deferred'[g][i]) /\ deferred'[g][i] \notin todo'
      <3>1. CASE i \in DOMAIN deferred[g]
        BY <3>1, <1>2, <1>4, <1>7 DEF Places, Waiting
      <3>2. CASE g = h /\ i = n
        BY <3>2, <1>2, <1>6
      <3> QED BY <2>2, <3>1, <3>2, <1>2
    <2> QED BY <2>1, <2>2, <1>3 DEF Waiting, Waits, WaitsOn
  <1>9. InOneList'
    <2>1. ASSUME NEW g \in Hosts, NEW f \in Hosts,
                 NEW i \in DOMAIN deferred'[g], NEW k \in DOMAIN deferred'[f],
                 deferred'[g][i] = deferred'[f][k]
          PROVE  g = f /\ i = k
      <3>1. CASE i \in DOMAIN deferred[g] /\ k \in DOMAIN deferred[f]
        BY <3>1, <2>1, <1>2 DEF Places, InOneList
      <3>2. CASE i \in DOMAIN deferred[g] /\ f = h /\ k = n
        BY <3>2, <2>1, <1>2, <1>4
      <3>3. CASE k \in DOMAIN deferred[f] /\ g = h /\ i = n
        BY <3>3, <2>1, <1>2, <1>4
      <3> QED BY <2>1, <3>1, <3>2, <3>3, <1>2
    <2> QED BY <2>1, <1>3 DEF InOneList
  <1>10. OneEnd'
    BY <1>5 DEF Places, OneEnd, Waits, TypeOK
  <1>11. Kept'
    <2>1. ASSUME NEW k \in scanned', k # j
          PROVE  \/ k \in todo' \/ InDeferred(k)' \/ InPending(k)'
                 \/ last'[k] \in Settled \/ k \in skipped' \cup left'
      <3>1. k \in Jobs /\ k \in scanned
        BY <2>1 DEF TypeOK
      <3>2. InDeferred(k) => InDeferred(k)'
        BY <1>2 DEF InDeferred
      <3> QED BY <2>1, <3>1, <3>2 DEF Places, Kept, InPending
    <2>2. InDeferred(j)'
      BY <1>2 DEF InDeferred
    <2> QED BY <2>1, <2>2 DEF Kept
  <1>12. Drained'
    BY <1>1, <1>2, <1>3 DEF Places, Drained
  <1> QED BY <1>8, <1>9, <1>10, <1>11, <1>12 DEF Places

\* A job of the main loop that is through with: executed or skipped.
LEMMA TodoMoves ==
  ASSUME TypeOK, Places, NEW j \in todo, todo' = todo \ {j}, phase = "main",
         UNCHANGED <<phase, setAside, deferred, pending, left, scanned>>,
         \A k \in Jobs \ {j} : tried'[k] = tried[k] /\ last'[k] = last[k],
         \/ last'[j] \in Settled /\ skipped' = skipped
         \/ last'[j] = last[j] /\ skipped' = skipped \cup {j}
  PROVE  Places'
  <1>1. j \in Jobs /\ Waits(j)
    BY DEF TypeOK, Places, Waiting
  <1>2. \A k \in Jobs \ {j} : Waits(k) => WaitsOn(k)
    BY DEF Waits, WaitsOn
  <1>3. /\ \A g \in Hosts : \A i \in DOMAIN deferred[g] :
             deferred[g][i] \in Jobs /\ deferred[g][i] # j
        /\ \A i \in DOMAIN pending : pending[i] \in Jobs /\ pending[i] # j
    BY DEF Places, Waiting, TypeOK
  <1>4. Waiting'
    <2>1. \A k \in todo' : WaitsOn(k) /\ tried'[k] = 0
      BY <1>2 DEF Places, Waiting, TypeOK
    <2>2. \A g \in Hosts : \A i \in DOMAIN deferred'[g] :
            WaitsOn(deferred'[g][i]) /\ deferred'[g][i] \notin todo'
      BY <1>2, <1>3 DEF Places, Waiting
    <2>3. \A i \in DOMAIN pending' :
            WaitsOn(pending'[i]) /\ pending'[i] \notin todo'
      BY <1>2, <1>3 DEF Places, Waiting
    <2> QED BY <2>1, <2>2, <2>3 DEF Waiting, Waits, WaitsOn
  <1>5. InOneList'
    BY DEF Places, InOneList
  <1>6. OneEnd'
    BY <1>1 DEF Places, OneEnd, Waits, TypeOK
  <1>7. Kept'
    <2>1. ASSUME NEW k \in scanned'
          PROVE  \/ k \in todo' \/ InDeferred(k)' \/ InPending(k)'
                 \/ last'[k] \in Settled \/ k \in skipped' \cup left'
      <3>1. k \in Jobs /\ k \in scanned
        BY <2>1 DEF TypeOK
      <3>2. /\ InDeferred(k) => InDeferred(k)'
            /\ InPending(k) => InPending(k)'
        BY DEF InDeferred, InPending
      <3>3. CASE k = j
        BY <3>3
      <3>4. CASE k # j
        BY <3>1, <3>2, <3>4 DEF Places, Kept
      <3> QED BY <3>3, <3>4
    <2> QED BY <2>1 DEF Kept
  <1>8. Drained'
    BY DEF Places, Drained
  <1> QED BY <1>4, <1>5, <1>6, <1>7, <1>8 DEF Places

\* The first job of the deferred pass is through with.
LEMMA PendingMoves ==
  ASSUME TypeOK, Places, pending # <<>>, pending' = Tail(pending),
         phase = "deferred",
         UNCHANGED <<phase, todo, setAside, deferred, left, scanned>>,
         \A k \in Jobs \ {Head(pending)} :
           tried'[k] = tried[k] /\ last'[k] = last[k],
         \/ last'[Head(pending)] \in Settled /\ skipped' = skipped
         \/ /\ last'[Head(pending)] = last[Head(pending)]
            /\ skipped' = skipped \cup {Head(pending)}
  PROVE  Places'
  <1> DEFINE j == Head(pending)
  <1>1. /\ 1 \in DOMAIN pending /\ pending[1] = j
        /\ \A i \in DOMAIN pending' :
             /\ i + 1 \in DOMAIN pending /\ i + 1 # 1
             /\ pending'[i] = pending[i + 1]
        /\ \A i \in DOMAIN pending' : i \in Int
        /\ \A i \in DOMAIN pending :
             i = 1 \/ (i - 1 \in DOMAIN pending' /\ pending'[i - 1] = pending[i])
    BY TakenOff
  <1>2. j \in Jobs /\ Waits(j)
    BY <1>1, PendingType DEF Places, Waiting
  <1>3. \A i \in DOMAIN pending : pending[i] \in Jobs
    BY DEF TypeOK
  <1>4. /\ \A k \in Jobs \ {j} : tried'[k] = tried[k] /\ last'[k] = last[k]
        /\ \/ last'[j] \in Settled /\ skipped' = skipped
           \/ last'[j] = last[j] /\ skipped' = skipped \cup {j}
    OBVIOUS
  <1> HIDE DEF j
  <1>5. \A k \in Jobs \ {j} : Waits(k) => WaitsOn(k)
    BY <1>4 DEF Waits, WaitsOn
  <1>6. /\ \A g \in Hosts : \A i \in DOMAIN deferred[g] :
             deferred[g][i] \in Jobs /\ deferred[g][i] # j
        /\ \A i \in DOMAIN pending : pending[i] = j => i = 1
        /\ todo = {}
    BY <1>1 DEF Places, InOneList, Drained, TypeOK
  <1>7. \A i \in DOMAIN pending' : pending'[i] \in Jobs /\ pending'[i] # j
    BY <1>1, <1>3, <1>6
  <1>8. Waiting'
    <2>1. \A g \in Hosts : \A i \in DOMAIN deferred'[g] :
            WaitsOn(deferred'[g][i]) /\ deferred'[g][i] \notin todo'
      BY <1>5, <1>6 DEF Places, Waiting
    <2>2. \A i \in DOMAIN pending' :
            WaitsOn(pending'[i]) /\ pending'[i] \notin todo'
      BY <1>1, <1>5, <1>6, <1>7 DEF Places, Waiting
    <2> QED BY <1>6, <2>1, <2>2 DEF Waiting, Waits, WaitsOn
  <1>9. InOneList'
    <2>1. ASSUME NEW i \in DOMAIN pending', NEW k \in DOMAIN pending',
                 pending'[i] = pending'[k]
          PROVE  i = k
      <3>1. i + 1 = k + 1
        BY <1>1, <2>1 DEF Places, InOneList
      <3> QED BY <3>1, <1>1
    <2>2. \A g \in Hosts : \A i \in DOMAIN deferred'[g], k \in DOMAIN pending' :
            deferred'[g][i] # pending'[k]
      BY <1>1 DEF Places, InOneList
    <2> QED BY <2>1, <2>2 DEF Places, InOneList
  <1>10. OneEnd'
    BY <1>2, <1>4 DEF Places, OneEnd, Waits, TypeOK
  <1>11. Kept'
    <2>1. ASSUME NEW k \in scanned', k # j
          PROVE  \/ k \in todo' \/ InDeferred(k)' \/ InPending(k)'
                 \/ last'[k] \in Settled \/ k \in skipped' \cup left'
      <3>1. k \in Jobs /\ k \in scanned
        BY <2>1 DEF TypeOK
      <3>2. InPending(k) => InPending(k)'
        <4>1. ASSUME NEW i \in DOMAIN pending, pending[i] = k
              PROVE  InPending(k)'
          BY <4>1, <1>1, <2>1 DEF InPending
        <4> QED BY <4>1 DEF InPending
      <3>3. InDeferred(k) => InDeferred(k)'
        BY DEF InDeferred
      <3> QED BY <1>4, <2>1, <3>1, <3>2, <3>3 DEF Places, Kept
    <2>2. last'[j] \in Settled \/ j \in skipped'
      BY <1>4
    <2> QED BY <2>1, <2>2 DEF Kept
  <1>12. Drained'
    BY <1>6 DEF Places, Drained
  <1> QED BY <1>8, <1>9, <1>10, <1>11, <1>12 DEF Places

\* The rest of a host's jobs given up, after a login that failed or with the
\* first of them sent and refused.
LEMMA GivenUpMoves ==
  ASSUME TypeOK, Places, phase \in {"login", "deferred"}, GiveUpHost,
         \A k \in Jobs :
           \/ tried'[k] = tried[k] /\ last'[k] = last[k]
           \/ InPending(k) /\ last'[k] = "refused"
  PROVE  Places'
  <1>1. /\ pending' = <<>> /\ left' = left \cup Elems(pending)
        /\ UNCHANGED <<skipped, setAside, deferred, scanned, todo>>
        /\ phase' = "cool"
    BY DEF GiveUpHost
  <1>2. \A k : InPending(k) <=> k \in Elems(pending)
    BY DEF InPending, Elems
  <1>3. todo' = {}
    BY <1>1 DEF Places, Drained
  <1>4. \A h \in Hosts : \A i \in DOMAIN deferred[h] :
          deferred[h][i] \in Jobs /\ ~InPending(deferred[h][i])
    BY DEF Places, InOneList, InPending, TypeOK
  <1>5. \A k \in Jobs : Waits(k) /\ ~InPending(k) => WaitsOn(k)
    BY <1>1, <1>2 DEF Waits, WaitsOn
  <1>6. \A k : InPending(k) => Waits(k) /\ k \in Jobs
    BY DEF Places, Waiting, InPending, TypeOK
  <1>7. Waiting'
    BY <1>1, <1>3, <1>4, <1>5 DEF Places, Waiting, Waits, WaitsOn
  <1>8. InOneList'
    BY <1>1 DEF Places, InOneList
  <1>9. OneEnd'
    <2>1. \A k \in Jobs : last[k] \notin Settled => last'[k] \notin Settled
      BY DEF Settled
    <2>2. \A k \in left' : last'[k] \notin Settled
      BY <1>1, <1>2, <1>6, <2>1 DEF Places, OneEnd, Waits, TypeOK
    <2>3. \A k \in skipped' : last'[k] \notin Settled /\ k \notin left'
      BY <1>1, <1>2, <1>6, <2>1 DEF Places, OneEnd, Waits, TypeOK
    <2> QED BY <2>2, <2>3 DEF OneEnd
  <1>10. Kept'
    <2>1. ASSUME NEW k \in scanned'
          PROVE  \/ k \in todo' \/ InDeferred(k)' \/ InPending(k)'
                 \/ last'[k] \in Settled \/ k \in skipped' \cup left'
      <3>1. k \in Jobs /\ k \in scanned /\ k \notin todo
        BY <1>1, <1>3, <2>1 DEF TypeOK
      <3>2. InDeferred(k) => InDeferred(k)'
        BY <1>1 DEF InDeferred
      <3>3. CASE InPending(k)
        BY <1>1, <1>2, <3>3
      <3>4. CASE ~InPending(k)
        BY <1>1, <3>1, <3>2, <3>4 DEF Places, Kept
      <3> QED BY <3>3, <3>4
    <2> QED BY <2>1 DEF Kept
  <1>11. Drained'
    BY <1>1, <1>3 DEF Places, Drained
  <1> QED BY <1>7, <1>8, <1>9, <1>10, <1>11 DEF Places

\* The list of a host becomes the list of the pass.
LEMMA WakeUpMoves ==
  ASSUME TypeOK, Places, NEW h \in Hosts, WakeUp(h)
  PROVE  Places'
  <1>1. /\ phase = "cool" /\ phase' = "login"
        /\ pending' = deferred[h]
        /\ setAside' = setAside \ {h}
        /\ UNCHANGED <<todo, skipped, left, scanned, tried, last>>
    BY DEF WakeUp, historyVars
  <1>2. /\ deferred'[h] = <<>>
        /\ \A g \in Hosts \ {h} : deferred'[g] = deferred[g]
    BY DEF WakeUp, TypeOK
  <1>3. pending = <<>> /\ todo = {}
    BY <1>1 DEF Places, Drained
  <1>4. \A k : Waits(k) => WaitsOn(k)
    BY <1>1 DEF Waits, WaitsOn
  <1>5. Waiting'
    BY <1>1, <1>2, <1>3, <1>4 DEF Places, Waiting, Waits, WaitsOn
  <1>6. InOneList'
    <2>1. \A f, g \in Hosts :
            \A i \in DOMAIN deferred'[f], k \in DOMAIN deferred'[g] :
              deferred'[f][i] = deferred'[g][k] => f = g /\ i = k
      BY <1>2 DEF Places, InOneList
    <2>2. \A i, k \in DOMAIN pending' : pending'[i] = pending'[k] => i = k
      BY <1>1 DEF Places, InOneList
    <2>3. \A g \in Hosts : \A i \in DOMAIN deferred'[g], k \in DOMAIN pending' :
            deferred'[g][i] # pending'[k]
      BY <1>1, <1>2 DEF Places, InOneList
    <2> QED BY <2>1, <2>2, <2>3 DEF InOneList
  <1>7. OneEnd'
    BY <1>1 DEF Places, OneEnd
  <1>8. Kept'
    <2>1. \A k : InDeferred(k) => InDeferred(k)' \/ InPending(k)'
      BY <1>1, <1>2 DEF InDeferred, InPending
    <2>2. \A k : ~InPending(k)
      BY <1>3 DEF InPending
    <2> QED BY <1>1, <2>1, <2>2 DEF Places, Kept
  <1>9. Drained'
    BY <1>1, <1>2, <1>3 DEF Places, Drained
  <1> QED BY <1>5, <1>6, <1>7, <1>8, <1>9 DEF Places

LEMMA PlacesStep == TypeOK /\ Places /\ [Next]_vars => Places'
  <1> SUFFICES ASSUME TypeOK, Places, [Next]_vars PROVE Places'
    OBVIOUS
  <1>1. CASE Scan
    <2>1. /\ phase' = "main" /\ todo' = active /\ scanned' = active
          /\ skipped' = {} /\ left' = {} /\ pending' = <<>> /\ setAside' = {}
          /\ \A h \in Hosts : deferred'[h] = <<>>
          /\ \A j \in Jobs : tried'[j] = 0 /\ last'[j] = "none"
          /\ active \subseteq Jobs
      BY <1>1 DEF Scan, TypeOK
    <2>2. Waiting'
      <3>1. \A j \in todo' : WaitsOn(j) /\ tried'[j] = 0
        <4>1. ASSUME NEW j \in todo' PROVE WaitsOn(j) /\ tried'[j] = 0
          <5>1. j \in Jobs
            BY <2>1, <4>1
          <5>2. tried'[j] = 0 /\ last'[j] = "none"
            BY <2>1, <5>1
          <5>3. j \notin skipped' \cup left'
            BY <2>1
          <5> QED BY <5>2, <5>3 DEF WaitsOn, Settled
        <4> QED BY <4>1
      <3>2. /\ \A h \in Hosts : DOMAIN deferred'[h] = {}
            /\ DOMAIN pending' = {}
        BY <2>1
      <3> QED BY <3>1, <3>2 DEF Waiting, Waits, WaitsOn
    <2>4. InOneList' /\ OneEnd'
      BY <2>1 DEF InOneList, OneEnd
    <2>3. Kept' /\ Drained'
      BY <2>1 DEF Kept, Drained
    <2> QED BY <2>2, <2>3, <2>4 DEF Places
  <1>2. ASSUME NEW j \in Jobs, SkipJob(j) PROVE Places'
    <2>1. j \in todo /\ phase = "main"
      BY <1>2 DEF SkipJob, NextInOrder
    <2> QED BY <1>2, <2>1, TodoMoves DEF SkipJob, passVars
  <1>3. ASSUME NEW j \in Jobs, PutOff(j) PROVE Places'
    <2>1. j \in todo /\ phase = "main" /\ SeenHost(ApiOf[j]) \in Hosts
      BY <1>3 DEF PutOff, NextInOrder, TypeOK
    <2> QED BY <1>3, <2>1, PutOffMoves DEF PutOff, passVars
  <1>4. ASSUME NEW j \in Jobs, RunJob(j) PROVE Places'
    <2>1. /\ j \in todo /\ phase = "main" /\ todo' = todo \ {j}
          /\ UNCHANGED <<phase, skipped, pending, left, scanned>>
      BY <1>4 DEF RunJob, NextInOrder, passVars
    <2>2. /\ tried'[j] = tried[j] + 1
          /\ \A k \in Jobs \ {j} : tried'[k] = tried[k] /\ last'[k] = last[k]
      BY <1>4, OnlyOneSent DEF RunJob
    <2>3. CASE /\ Succeed(j) \/ ComeUpEmpty(j) \/ Fail(j)
               /\ UNCHANGED <<setAside, deferred, refusals>>
      <3>1. last'[j] \in Settled
        BY <2>3, Settles
      <3> QED BY <2>1, <2>2, <2>3, <3>1, TodoMoves
    <2>4. ASSUME NEW h \in Hosts, Refuse(j, h), SetAside(j, h)
          PROVE  Places'
      <3>1. last'[j] = "refused"
        BY <2>4, IsRefused
      <3> QED BY <2>1, <2>2, <2>4, <3>1, PutOffMoves
    <2> QED BY <1>4, <2>3, <2>4 DEF RunJob
  <1>5. ASSUME NEW j \in Jobs, OrphanAborts(j) PROVE Places'
    BY <1>5, NothingMoves DEF OrphanAborts, passVars
  <1>6. CASE EndMainLoop
    BY <1>6, NothingMoves DEF EndMainLoop, passVars
  <1>7. ASSUME NEW h \in Hosts, WakeUp(h) PROVE Places'
    BY <1>7, WakeUpMoves
  <1>8. CASE LoggedIn
    BY <1>8, NothingMoves DEF LoggedIn, passVars
  <1>9. CASE LoginFails
    BY <1>9, GivenUpMoves DEF LoginFails
  <1>10. CASE SkipDeferredJob
    BY <1>10, PendingMoves DEF SkipDeferredJob, PassOn, historyVars
  <1>11. CASE RunDeferredJob
    <2> DEFINE j == Head(pending)
    <2>1. phase = "deferred" /\ pending # <<>> /\ Send(j)
      BY <1>11 DEF RunDeferredJob
    <2>2. j \in Jobs /\ InPending(j)
      BY <2>1, PendingType DEF TypeOK, InPending
    <2>3. /\ tried'[j] = tried[j] + 1
          /\ \A k \in Jobs \ {j} : tried'[k] = tried[k] /\ last'[k] = last[k]
      BY <1>11, <2>1, <2>2, OnlyOneSent DEF RunDeferredJob
    <2>4. CASE /\ Succeed(j) \/ ComeUpEmpty(j) \/ Fail(j)
               /\ pending' = Tail(pending)
               /\ UNCHANGED <<present, phase, todo, known, loginApis, skipped,
                              setAside, deferred, host, scanned, refusals,
                              left>>
      <3>1. last'[j] \in Settled
        BY <2>2, <2>4, Settles
      <3> QED BY <2>1, <2>3, <2>4, <3>1, PendingMoves
    <2>5. ASSUME NEW h \in Hosts, Refuse(j, h), GiveUpHost PROVE Places'
      <3>1. last'[j] = "refused"
        BY <2>2, <2>5, IsRefused
      <3> QED BY <2>1, <2>2, <2>3, <2>5, <3>1, GivenUpMoves
    <2> QED BY <1>11, <2>4, <2>5 DEF RunDeferredJob, PassOn
  <1>12. CASE EndDeferredPass
    BY <1>12, NothingMoves DEF EndDeferredPass, passVars
  <1>13. CASE Finish
    BY <1>13, NothingMoves DEF Finish, passVars
  <1>14. ASSUME NEW a \in Apis, DeleteApi(a) PROVE Places'
    BY <1>14, NothingMoves DEF DeleteApi, passVars
  <1>15. CASE UNCHANGED vars
    BY <1>15, NothingMoves DEF vars
  <1> QED
    BY <1>1, <1>2, <1>3, <1>4, <1>5, <1>6, <1>7, <1>8, <1>9, <1>10, <1>11,
       <1>12, <1>13, <1>14, <1>15 DEF Next, CycleStep

LEMMA PlacesInit == Init => Places
  BY DEF Init, Places, Waiting, InOneList, OneEnd, Kept, Drained

LEMMA PlacesKept == Spec => []Places
  <1>1. TypeOK /\ Places /\ [Next]_vars => Places'
    BY PlacesStep
  <1> QED BY <1>1, PlacesInit, TypeCorrect, PTL DEF Spec

-----------------------------------------------------------------------------
(* One place for every job. *)

\* No list is longer than there are jobs.
LEMMA ShortLists ==
  ASSUME TypeOK, Places, NEW h \in Hosts
  PROVE  DOMAIN deferred[h] \subseteq 1..Cardinality(Jobs)
  <1> DEFINE s == deferred[h]
             n == Len(s)
  <1>1. n \in Nat /\ DOMAIN s = 1..n /\ s \in [1..n -> Jobs]
    BY DEF TypeOK
  <1>2. \A i, k \in 1..n : s[i] = s[k] => i = k
    BY <1>1 DEF Places, InOneList
  <1> HIDE DEF s, n
  <1>3. s \in Injection(1..n, Jobs)
    BY <1>1, <1>2 DEF Injection, IsInjective
  <1>4. Cardinality(1..n) <= Cardinality(Jobs)
    BY <1>3, FS_Injection, FiniteAssumption DEF FiniteAssumption
  <1>5. Cardinality(1..n) = n
    BY <1>1, FS_Interval
  <1>6. Cardinality(Jobs) \in Nat
    BY FS_CardinalityType, FiniteAssumption DEF FiniteAssumption
  <1>7. 1..n \subseteq 1..Cardinality(Jobs)
    BY <1>1, <1>4, <1>5, <1>6
  <1> QED BY <1>1, <1>7 DEF s

LEMMA ExactlyOnePlace ==
  ASSUME TypeOK, Places, NEW j \in scanned
  PROVE  Cardinality(Whereabouts(j)) = 1
  <1> DEFINE T == {<<"todo">> : x \in {j} \cap todo}
             D == {<<"deferred", o[1], o[2]>> :
                     o \in {p \in Hosts \X (1..Cardinality(Jobs)) :
                              /\ p[2] \in DOMAIN deferred[p[1]]
                              /\ deferred[p[1]][p[2]] = j}}
             P == {<<"pending", i>> : i \in {n \in DOMAIN pending : pending[n] = j}}
             E == {<<"settled">> : x \in {k \in {j} : last[k] \in Settled}}
             S == {<<"skipped">> : x \in {j} \cap skipped}
             L == {<<"left">> : x \in {j} \cap left}
  <1>1. Whereabouts(j) = T \cup D \cup P \cup E \cup S \cup L
    BY DEF Whereabouts
  <1>2. IF j \in todo THEN T = {<<"todo">>} ELSE T = {}
    OBVIOUS
  <1>3. ~InDeferred(j) => D = {}
    BY DEF InDeferred
  <1>4. ~InPending(j) => P = {}
    BY DEF InPending
  <1>5. IF last[j] \in Settled THEN E = {<<"settled">>} ELSE E = {}
    OBVIOUS
  <1>6. IF j \in skipped THEN S = {<<"skipped">>} ELSE S = {}
    OBVIOUS
  <1>7. IF j \in left THEN L = {<<"left">>} ELSE L = {}
    OBVIOUS
  <1>8. ASSUME NEW h \in Hosts, NEW i \in DOMAIN deferred[h], deferred[h][i] = j
        PROVE  D = {<<"deferred", h, i>>}
    <2>1. i \in 1..Cardinality(Jobs)
      BY ShortLists
    <2>2. {p \in Hosts \X (1..Cardinality(Jobs)) :
             /\ p[2] \in DOMAIN deferred[p[1]]
             /\ deferred[p[1]][p[2]] = j} = {<<h, i>>}
      <3>1. ASSUME NEW g \in Hosts, NEW k \in DOMAIN deferred[g],
                   deferred[g][k] = j
            PROVE  g = h /\ k = i
        BY <1>8, <3>1 DEF Places, InOneList
      <3>2. <<h, i>> \in Hosts \X (1..Cardinality(Jobs))
        BY <2>1
      <3>3. <<h, i>>[1] = h /\ <<h, i>>[2] = i
        OBVIOUS
      <3>4. ASSUME NEW p \in Hosts \X (1..Cardinality(Jobs))
            PROVE  (p[2] \in DOMAIN deferred[p[1]] /\ deferred[p[1]][p[2]] = j)
                     <=> p = <<h, i>>
        BY <1>8, <3>1, <3>3, <3>4
      <3> QED BY <3>2, <3>4, Zenon
    <2>3. D = {<<"deferred", o[1], o[2]>> : o \in {<<h, i>>}}
      BY <2>2
    <2>4. {<<"deferred", o[1], o[2]>> : o \in {<<h, i>>}}
            = {<<"deferred", <<h, i>>[1], <<h, i>>[2]>>}
      OBVIOUS
    <2> QED BY <2>3, <2>4
  <1>9. ASSUME NEW i \in DOMAIN pending, pending[i] = j
        PROVE  P = {<<"pending", i>>}
    <2>1. {n \in DOMAIN pending : pending[n] = j} = {i}
      BY <1>9 DEF Places, InOneList
    <2> QED BY <2>1
  <1> HIDE DEF T, D, P, E, S, L
  <1>10. \E w : Whereabouts(j) = {w}
    <2>1. /\ j \in todo => Waits(j) /\ ~InDeferred(j) /\ ~InPending(j)
          /\ InDeferred(j) => Waits(j) /\ ~InPending(j)
          /\ InPending(j) => Waits(j)
      BY DEF Places, Waiting, InOneList, InDeferred, InPending
    <2>2. Waits(j) => last[j] \notin Settled /\ j \notin skipped \cup left
      BY DEF Waits
    <2>3. /\ j \in skipped => last[j] \notin Settled /\ j \notin left
          /\ j \in left => last[j] \notin Settled
      BY DEF Places, OneEnd
    <2>4. CASE j \in todo
      BY <1>1, <1>2, <1>3, <1>4, <1>5, <1>6, <1>7, <2>1, <2>2, <2>4
    <2>5. CASE InDeferred(j)
      <3>1. PICK h \in Hosts : \E i \in DOMAIN deferred[h] : deferred[h][i] = j
        BY <2>5 DEF InDeferred
      <3>2. \E w : D = {w}
        BY <1>8, <3>1
      <3> QED
        BY <1>1, <1>2, <1>4, <1>5, <1>6, <1>7, <2>1, <2>2, <2>5, <3>2
    <2>6. CASE InPending(j)
      <3>1. \E w : P = {w}
        BY <1>9, <2>6 DEF InPending
      <3> QED
        BY <1>1, <1>2, <1>3, <1>5, <1>6, <1>7, <2>1, <2>2, <2>6, <3>1
    <2>7. CASE last[j] \in Settled
      BY <1>1, <1>2, <1>3, <1>4, <1>5, <1>6, <1>7, <2>1, <2>2, <2>3, <2>7
    <2>8. CASE j \in skipped
      BY <1>1, <1>2, <1>3, <1>4, <1>5, <1>6, <1>7, <2>1, <2>2, <2>3, <2>8
    <2>9. CASE j \in left
      BY <1>1, <1>2, <1>3, <1>4, <1>5, <1>6, <1>7, <2>1, <2>2, <2>3, <2>9
    <2> QED BY <2>4, <2>5, <2>6, <2>7, <2>8, <2>9 DEF Places, Kept
  <1> QED BY <1>10, FS_Singleton

LEMMA DoneIsDone ==
  ASSUME Places, phase = "done", NEW j \in scanned
  PROVE  last[j] \in Settled \/ j \in skipped \cup left
  <1>1. todo = {} /\ pending = <<>> /\ \A h \in Hosts : deferred[h] = <<>>
    BY DEF Places, Drained
  <1>2. ~InDeferred(j) /\ ~InPending(j)
    BY <1>1 DEF InDeferred, InPending
  <1> QED BY <1>1, <1>2 DEF Places, Kept

\* At every moment of a cycle each scanned job is in exactly one place, and a
\* cycle that is done has executed it, skipped it, or given it up with its
\* host: run_cycle and _run_deferred lose no job and run none twice.
THEOREM NoJobForgotten == Spec => []EveryJobAccountedFor
  <1>1. TypeOK /\ Places => EveryJobAccountedFor
    BY ExactlyOnePlace, DoneIsDone DEF EveryJobAccountedFor
  <1> QED BY <1>1, TypeCorrect, PlacesKept, PTL

-----------------------------------------------------------------------------
(* How often a job is sent. *)

LEMMA ChanceStep ==
  ASSUME TypeOK, Places, [Next]_vars, NEW j \in Jobs,
         phase # "done", tried'[j] > tried[j]
  PROVE  tried[j] = 0 \/ (tried[j] = 1 /\ last[j] = "refused" /\ phase = "deferred")
  <1>0. tried[j] \in Nat
    BY DEF TypeOK
  <1>1. tried' # tried
    BY <1>0
  <1>2. CASE Scan
    BY <1>0, <1>2 DEF Scan
  <1>3. ASSUME NEW k \in Jobs, RunJob(k)
        PROVE  tried[j] = 0
    <2>1. k \in todo /\ Send(k)
      BY <1>3 DEF RunJob, NextInOrder
    <2>2. j = k
      BY <1>0, <2>1 DEF Send, TypeOK
    <2> QED BY <2>1, <2>2 DEF Places, Waiting
  <1>4. CASE RunDeferredJob
    <2>1. pending # <<>> /\ phase = "deferred" /\ Send(Head(pending))
      BY <1>4 DEF RunDeferredJob
    <2>2. j = Head(pending)
      BY <1>0, <2>1 DEF Send, TypeOK
    <2>3. 1 \in DOMAIN pending /\ pending[1] = Head(pending)
      BY <2>1 DEF TypeOK
    <2> QED BY <2>1, <2>2, <2>3 DEF Places, Waiting, Waits
  <1>5. Scan \/ RunDeferredJob \/ \E k \in Jobs : RunJob(k)
    BY <1>1 DEF Next, CycleStep, SkipJob, PutOff, OrphanAborts, EndMainLoop, WakeUp,
           historyVars, LoggedIn, LoginFails, SkipDeferredJob, EndDeferredPass,
           Finish, DeleteApi, vars
  <1> QED BY <1>2, <1>3, <1>4, <1>5

\* No job is sent twice in a cycle, but for the one more chance a refused job
\* gets in the deferred pass of its host.
THEOREM SentOnce == Spec => OneMoreChance
  <1> DEFINE A == \A j \in Jobs :
                    (phase # "done" /\ tried'[j] > tried[j])
                      => \/ tried[j] = 0
                         \/ tried[j] = 1 /\ last[j] = "refused" /\ phase = "deferred"
  <1>1. TypeOK /\ Places /\ [Next]_vars => A
    BY ChanceStep
  <1> HIDE DEF A
  <1>2. Spec => [][A]_vars
    BY <1>1, TypeCorrect, PlacesKept, PTL DEF Spec
  <1> QED BY <1>2 DEF OneMoreChance, A

-----------------------------------------------------------------------------
(* What a dead source costs. *)

\* A source without a success has a streak as long as its failures.
Costs ==
  Limit > 0 =>
    \A a \in Apis : Executed(a, {"done", "empty"}) = {}
      => /\ Cardinality(Executed(a, {"failed"})) <= streak[a]
         /\ Cardinality(Executed(a, {"failed"})) <= Limit

LEMMA ExecutedIsFinite ==
  \A a, endings : /\ IsFiniteSet(Executed(a, endings))
                  /\ Cardinality(Executed(a, endings)) \in Nat
  <1>1. \A a, endings : Executed(a, endings) \in SUBSET Jobs
    BY DEF Executed
  <1>2. \A a, endings : IsFiniteSet(Executed(a, endings))
    BY <1>1, FS_Subset, FiniteAssumption DEF FiniteAssumption
  <1> QED BY <1>2, FS_CardinalityType

\* One job is sent, and it had not been executed.
LEMMA SendCosts ==
  ASSUME TypeOK, Costs, NEW j \in Jobs, last[j] \notin Settled, Send(j),
         ~Tripped(ApiOf[j]),
         \/ Succeed(j) \/ ComeUpEmpty(j) \/ Fail(j)
         \/ \E h \in Hosts : Refuse(j, h)
  PROVE  Costs'
  <1> DEFINE b == ApiOf[j]
  <1>1. b \in Apis
    BY RowsAssumption DEF RowsAssumption
  <1>2. \A k \in Jobs \ {j} : last'[k] = last[k]
    BY OnlyOneSent
  <1>3. \A a \in Apis \ {b} : streak'[a] = streak[a]
    BY <1>1 DEF Succeed, ComeUpEmpty, Fail, Refuse, TypeOK
  <1>4. ASSUME NEW a \in Apis \ {b}, NEW endings
        PROVE  Executed(a, endings)' = Executed(a, endings)
    BY <1>2, <1>4 DEF Executed
  <1>5. CASE Succeed(j) \/ ComeUpEmpty(j)
    <2>1. last'[j] \in {"done", "empty"}
      BY <1>5 DEF Succeed, ComeUpEmpty, TypeOK
    <2>2. j \in Executed(b, {"done", "empty"})'
      BY <2>1 DEF Executed
    <2> QED BY <1>3, <1>4, <2>2 DEF Costs
  <1>6. CASE \E h \in Hosts : Refuse(j, h)
    <2>1. last'[j] = "refused" /\ streak' = streak
      BY <1>6 DEF Refuse, TypeOK
    <2>2. /\ Executed(b, {"done", "empty"})' = Executed(b, {"done", "empty"})
          /\ Executed(b, {"failed"})' = Executed(b, {"failed"})
      BY <1>2, <2>1 DEF Executed, Settled
    <2> QED BY <1>1, <1>3, <1>4, <2>1, <2>2 DEF Costs
  <1>7. CASE Fail(j)
    <2>1. last'[j] = "failed" /\ streak'[b] = streak[b] + 1 /\ streak[b] \in Nat
      BY <1>1, <1>7 DEF Fail, TypeOK
    <2>2. Executed(b, {"done", "empty"})' = Executed(b, {"done", "empty"})
      BY <1>2, <2>1 DEF Executed, Settled
    <2>3. /\ Executed(b, {"failed"})' = Executed(b, {"failed"}) \cup {j}
          /\ j \notin Executed(b, {"failed"})
      BY <1>2, <2>1 DEF Executed, Settled
    <2>4. Cardinality(Executed(b, {"failed"})')
            = Cardinality(Executed(b, {"failed"})) + 1
      BY <2>3, ExecutedIsFinite, FS_AddElement
    <2>5. Limit > 0 => streak[b] < Limit
      BY <2>1, LimitAssumption DEF Tripped, LimitAssumption
    <2>6. Cardinality(Executed(b, {"failed"})) \in Nat
      BY ExecutedIsFinite
    <2>7. Limit > 0 /\ Executed(b, {"done", "empty"})' = {}
            => /\ Cardinality(Executed(b, {"failed"})') <= streak'[b]
               /\ Cardinality(Executed(b, {"failed"})') <= Limit
      BY <1>1, <2>1, <2>2, <2>4, <2>5, <2>6, LimitAssumption
      DEF Costs, LimitAssumption
    <2> QED BY <1>3, <1>4, <2>7 DEF Costs
  <1> QED BY <1>5, <1>6, <1>7

LEMMA CostsStep == TypeOK /\ Places /\ Costs /\ [Next]_vars => Costs'
  <1> SUFFICES ASSUME TypeOK, Places, Costs, [Next]_vars PROVE Costs'
    OBVIOUS
  <1>1. CASE Scan
    <2>1. \A j \in Jobs : last'[j] = "none"
      BY <1>1 DEF Scan
    <2>2. \A a \in Apis : Executed(a, {"failed"})' = {} /\ streak'[a] = 0
      BY <1>1, <2>1 DEF Executed, Scan
    <2> QED BY <2>2, FS_EmptySet, LimitAssumption DEF Costs, LimitAssumption
  <1>2. ASSUME NEW j \in Jobs, RunJob(j) PROVE Costs'
    <2>1. last[j] \notin Settled
      BY <1>2 DEF RunJob, NextInOrder, Places, Waiting, Waits
    <2> QED BY <1>2, <2>1, SendCosts DEF RunJob
  <1>3. CASE RunDeferredJob
    <2>1. pending # <<>> /\ Head(pending) \in Jobs
      BY <1>3, PendingType DEF RunDeferredJob
    <2>2. 1 \in DOMAIN pending /\ pending[1] = Head(pending)
      BY <2>1 DEF TypeOK
    <2>3. last[Head(pending)] \notin Settled
      BY <2>2 DEF Places, Waiting, Waits
    <2> QED BY <1>3, <2>1, <2>3, SendCosts DEF RunDeferredJob
  <1>4. CASE UNCHANGED <<last, streak>>
    BY <1>4 DEF Costs, Executed
  <1>5. \/ UNCHANGED <<last, streak>>
        \/ Scan \/ RunDeferredJob \/ \E k \in Jobs : RunJob(k)
    BY DEF Next, CycleStep, SkipJob, PutOff, OrphanAborts, EndMainLoop, WakeUp,
           historyVars, LoggedIn, LoginFails, SkipDeferredJob, EndDeferredPass,
           Finish, DeleteApi, vars
  <1> QED BY <1>1, <1>2, <1>3, <1>4, <1>5

LEMMA CostsInit == Init => Costs
  <1> SUFFICES ASSUME Init PROVE Costs
    OBVIOUS
  <1>1. \A a \in Apis : Executed(a, {"failed"}) = {} /\ streak[a] = 0
    BY DEF Init, Executed
  <1> QED BY <1>1, FS_EmptySet, LimitAssumption DEF Costs, LimitAssumption

\* A source that answers nothing costs at most _FAIL_STREAK_LIMIT failures per
\* cycle, over both loops and however many jobs it has.
THEOREM DeadSourceIsCheap == Spec => []DeadSourceCost
  <1>1. TypeOK /\ Places /\ Costs /\ [Next]_vars => Costs'
    BY CostsStep
  <1>2. Costs => DeadSourceCost
    BY DEF Costs, DeadSourceCost
  <1> QED BY <1>1, <1>2, CostsInit, TypeCorrect, PlacesKept, PTL DEF Spec
=============================================================================
