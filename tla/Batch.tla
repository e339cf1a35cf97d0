------------------------------- MODULE Batch -------------------------------
(***************************************************************************)
(* The timers' units and the commands they call: run_cycle.sh and          *)
(* run_command.sh line by line, cli.py's generate-jobs, run-cycle and the  *)
(* commands around one stored procedure, the listings that a cycle         *)
(* collects for the procedures below it, and the tokens that it leaves in  *)
(* .env for the processes after it.                                        *)
(***************************************************************************)
EXTENDS Integers, Sequences

CONSTANTS
  Units,
  Lines,      \* a unit's ExecStart lines, in order
  Steps,      \* the steps of each procedure that a line calls, in order
  Written,    \* the DBMS_OUTPUT lines each procedure writes
  BatchLines, \* _OUTPUT_BATCH_LINES
  Listings,   \* what the masters are folded from
  Collects,   \* the listings each cycle's jobs collect
  Tokens,
  Refreshes,  \* the tokens a cycle's jobs refresh (persist_env_json)
  LastDay,    \* bound: days
  MaxTokens   \* bound: refreshes of a token

Cycles == (UNION {{Lines[u][i].cycle : i \in DOMAIN Lines[u]} : u \in Units}) \ {""}
Procedures == DOMAIN Steps
AllSteps == UNION {{Steps[p][i] : i \in DOMAIN Steps[p]} : p \in Procedures}

\* What a fold depends on: the listings, and the calendar (SYSDATE).
Calendar == "calendar"
Sources == Listings \cup {Calendar}
Facts == AllSteps \X Sources
Nothing == [x \in Facts |-> 0]

\* The listings that a line collects.
Collected(l) ==
  IF l.procedure = "" /\ l.mode # "generate-only" THEN Collects[l.cycle] ELSE {}

\* A line runs a cycle or calls a procedure.
ProperLine(l) ==
  \/ l.procedure = "" /\ l.cycle # "" /\ l.mode \in {"both", "generate-only", "run-only"}
  \/ l.procedure \in Procedures \ {""} /\ l.cycle = ""

ASSUME BatchAssumption ==
  /\ \A u \in Units :
       /\ Len(Lines[u]) \in Nat \ {0} /\ DOMAIN Lines[u] = 1..Len(Lines[u])
       /\ \A i \in DOMAIN Lines[u] : ProperLine(Lines[u][i])
  /\ \A p \in Procedures : DOMAIN Steps[p] = 1..Len(Steps[p]) /\ Len(Steps[p]) \in Nat
  /\ \A c \in DOMAIN Refreshes : Refreshes[c] \subseteq Tokens
  /\ Calendar \notin Listings
  /\ DOMAIN Collects = Cycles /\ \A c \in Cycles : Collects[c] \subseteq Listings
  /\ BatchLines \in Nat \ {0} /\ \A p \in Procedures : Written[p] \in Nat
  /\ LastDay \in Nat \ {0} /\ MaxTokens \in Nat

VARIABLES
  day,
  unit,     \* what each unit is at
  fetched,  \* the day on which each listing was last collected
  folded,   \* step, source -> the day of what the step has folded of it, committed
  built,    \* the masters each cycle's jobs were last generated from
  dotenv,   \* .env: the value of each token
  environ,  \* os.environ of each unit's process
  \* ---- history ----
  newest,   \* the value written to .env last
  since,    \* what that was when each process began
  green     \* the last time each unit ended well: the day it began on, and the
            \* listings that its cycles had failed to collect

batchVars == <<day, unit, fetched, folded, built, dotenv, environ, newest, since, green>>

Off == [at |-> "off", line |-> 1, gen |-> 0, run |-> 0, step |-> 1, buffer |-> 0, logged |-> 0,
        token |-> "", copy |-> <<>>, due |-> FALSE, day |-> 0, basis |-> Nothing, missed |-> {}]

BatchInit ==
  /\ day = 1
  /\ unit = [u \in Units |-> [Off EXCEPT !.due = TRUE]]
  /\ fetched = [m \in Listings |-> 0]
  /\ folded = Nothing
  /\ built = [c \in Cycles |-> folded]
  /\ dotenv = [k \in Tokens |-> 0]
  /\ environ = [u \in Units |-> dotenv]
  /\ newest = dotenv
  /\ since = environ
  /\ green = [u \in Units |-> [day |-> 0, missed |-> {}]]

Put(u, r) == unit' = [unit EXCEPT ![u] = r]
Line(u) == Lines[u][unit[u].line]
Database == <<fetched, folded, built>>
Secrets == <<dotenv, environ, newest, since>>

-----------------------------------------------------------------------------
(* systemd. *)

\* A oneshot that is still running is not started again; a missed timer is
\* made up for (Persistent=true).
Timer(u) ==
  /\ unit[u].at = "off" /\ unit[u].due
  /\ Put(u, [Off EXCEPT !.at = "line", !.day = day])
  /\ UNCHANGED <<day, Database, Secrets, green>>

\* python3 -m app.cli: auth_config loads .env as the process starts.
StartProcess(u) ==
  LET r == unit[u]  l == Line(u) IN
  /\ r.at = "line"
  /\ environ' = [environ EXCEPT ![u] = dotenv]
  /\ since' = [since EXCEPT ![u] = newest]
  /\ Put(u, [r EXCEPT !.gen = 0, !.run = 0, !.step = 1, !.buffer = 0, !.logged = 0,
               !.at = IF l.procedure # "" THEN "call"
                      ELSE IF l.mode = "run-only" THEN "run" ELSE "generate"])
  /\ UNCHANGED <<day, Database, dotenv, newest, green>>

\* run-cycle is a process of its own, after generate-jobs.
StartRun(u) ==
  /\ unit[u].at = "start"
  /\ environ' = [environ EXCEPT ![u] = dotenv]
  /\ since' = [since EXCEPT ![u] = newest]
  /\ Put(u, [unit[u] EXCEPT !.at = "run"])
  /\ UNCHANGED <<day, Database, dotenv, newest, green>>

\* Faulty variant: the code of the last command alone.
ExitCodeOfRun(r) == r.run

\* run_cycle.sh: the generation's code unless the run has one of its own.
ExitCode(r) == IF r.run # 0 THEN r.run ELSE r.gen

\* The next ExecStart, unless this one failed.
Exit(u) ==
  LET r == unit[u] IN
  /\ r.at = "exit"
  /\ IF ExitCode(r) # 0
     THEN Put(u, [Off EXCEPT !.due = r.due]) /\ UNCHANGED green
     ELSE IF r.line < Len(Lines[u])
     THEN Put(u, [r EXCEPT !.line = @ + 1, !.at = "line"]) /\ UNCHANGED green
     ELSE Put(u, [Off EXCEPT !.due = r.due]) /\ green' = [green EXCEPT ![u] = [day |-> r.day, missed |-> r.missed]]
  /\ UNCHANGED <<day, Database, Secrets>>

-----------------------------------------------------------------------------
(* generate-jobs and run-cycle. *)

\* Every active builder of the cycle, from the masters as they are committed.
Generate(u) ==
  LET r == unit[u]  l == Line(u) IN
  /\ r.at = "generate"
  /\ built' = [built EXCEPT ![l.cycle] = folded]
  /\ Put(u, [r EXCEPT !.at = IF l.mode = "generate-only" THEN "exit" ELSE "start"])
  /\ UNCHANGED <<day, fetched, folded, Secrets, green>>

\* A builder raises.  The jobs that wait already are run all the same.
GenerateFails(u) ==
  LET r == unit[u] IN
  /\ r.at = "generate"
  /\ Put(u, [r EXCEPT !.gen = 1,
               !.at = IF Line(u).mode = "generate-only" THEN "exit" ELSE "start"])
  /\ UNCHANGED <<day, Database, Secrets, green>>

\* The listings got are those whose job has committed; the others are in the
\* database as an earlier day left them.
Bring(got) == fetched' = [m \in Listings |-> IF m \in got THEN day ELSE fetched[m]]

\* run-cycle's code says nothing of its jobs: they may all have failed.
RunCycle(u) ==
  LET r == unit[u]  listed == Collected(Line(u)) IN
  /\ r.at = "run"
  /\ \E got \in SUBSET listed :
       /\ Bring(got)
       /\ Put(u, [r EXCEPT !.at = "exit", !.missed = @ \cup (listed \ got)])
  /\ UNCHANGED <<day, folded, built, Secrets, green>>

RunAborts(u) ==
  LET r == unit[u] IN
  /\ r.at = "run"
  /\ \E got \in SUBSET Collected(Line(u)) : Bring(got)
  /\ Put(u, [r EXCEPT !.at = "exit", !.run = 1])
  /\ UNCHANGED <<day, folded, built, Secrets, green>>

\* persist_env_var: a job of the cycle has asked for a token.  It is in
\* os.environ at once; set_key reads .env ...
Refresh(u, k) ==
  /\ unit[u].at = "run" /\ Line(u).cycle \in DOMAIN Refreshes
  /\ k \in Refreshes[Line(u).cycle] /\ newest[k] < MaxTokens
  /\ environ' = [environ EXCEPT ![u][k] = newest[k] + 1]
  /\ Put(u, [unit[u] EXCEPT !.at = "persist", !.token = k, !.copy = dotenv])
  /\ UNCHANGED <<day, Database, dotenv, newest, since, green>>

\* Faulty variant: the fresh token is kept in this process.
PersistHere(u) ==
  LET r == unit[u] IN
  /\ r.at = "persist"
  /\ newest' = [newest EXCEPT ![r.token] = environ[u][r.token]]
  /\ Put(u, [r EXCEPT !.at = "run", !.token = "", !.copy = <<>>])
  /\ UNCHANGED <<day, Database, dotenv, environ, since, green>>

\* ... and writes the whole of it again, as soon as the reply is parsed:
\* whether the job is committed later or rolled back makes no difference.
Persist(u) ==
  LET r == unit[u] IN
  /\ r.at = "persist"
  /\ dotenv' = [r.copy EXCEPT ![r.token] = environ[u][r.token]]
  /\ newest' = [newest EXCEPT ![r.token] = environ[u][r.token]]
  /\ Put(u, [r EXCEPT !.at = "run", !.token = "", !.copy = <<>>])
  /\ UNCHANGED <<day, Database, environ, since, green>>

-----------------------------------------------------------------------------
(* _call_procedure. *)

\* What a statement reads.
Read == [m \in Sources |-> IF m = Calendar THEN day ELSE fetched[m]]

\* The steps of the procedure are one transaction.
CallStep(u) ==
  LET r == unit[u]  p == Line(u).procedure IN
  /\ r.at = "call" /\ r.step <= Len(Steps[p])
  /\ Put(u, [r EXCEPT !.step = @ + 1,
               !.basis = [x \in Facts |-> IF x[1] = Steps[p][r.step] THEN Read[x[2]] ELSE @[x]]])
  /\ UNCHANGED <<day, Database, Secrets, green>>

CallReturns(u) ==
  LET r == unit[u]  p == Line(u).procedure IN
  /\ r.at = "call" /\ r.step > Len(Steps[p])
  /\ Put(u, [r EXCEPT !.at = "read", !.buffer = Written[p]])
  /\ UNCHANGED <<day, Database, Secrets, green>>

\* A step raises: the session is closed without a commit, and what the steps
\* before it wrote to DBMS_OUTPUT is never read.
CallRaises(u) ==
  LET r == unit[u] IN
  /\ r.at = "call"
  /\ Put(u, [r EXCEPT !.at = "exit", !.run = 1])
  /\ UNCHANGED <<day, Database, Secrets, green>>

\* _log_procedure_output: batches, until a short one comes back.
ReadBatch(u) ==
  LET r == unit[u]  count == IF r.buffer < BatchLines THEN r.buffer ELSE BatchLines IN
  /\ r.at = "read"
  /\ Put(u, [r EXCEPT !.buffer = @ - count, !.logged = @ + count,
               !.at = IF count < BatchLines THEN "commit" ELSE "read"])
  /\ UNCHANGED <<day, Database, Secrets, green>>

\* Every step is a MERGE or an UPDATE of what is missing: a fold takes nothing
\* from the masters.
Folded(basis) == [x \in Facts |-> IF basis[x] > folded[x] THEN basis[x] ELSE folded[x]]

Commit(u) ==
  LET r == unit[u] IN
  /\ r.at = "commit"
  /\ folded' = Folded(r.basis)
  /\ Put(u, [r EXCEPT !.at = "exit", !.basis = Nothing])
  /\ UNCHANGED <<day, fetched, built, Secrets, green>>

-----------------------------------------------------------------------------
\* The machine goes down; what was under way is not resumed.
Reboot ==
  /\ unit' = [u \in Units |-> [Off EXCEPT !.due = unit[u].due]]
  /\ UNCHANGED <<day, Database, Secrets, green>>

\* The calendar moves on; a unit that is late runs into the next day.
NextDay ==
  /\ day < LastDay
  /\ day' = day + 1
  /\ unit' = [u \in Units |-> [unit[u] EXCEPT !.due = TRUE]]
  /\ UNCHANGED <<Database, Secrets, green>>

BatchStep(u) ==
  \/ Timer(u) \/ StartProcess(u) \/ StartRun(u) \/ Exit(u)
  \/ Generate(u) \/ GenerateFails(u) \/ RunCycle(u) \/ RunAborts(u)
  \/ Persist(u) \/ \E k \in Tokens : Refresh(u, k)
  \/ CallStep(u) \/ CallReturns(u) \/ CallRaises(u) \/ ReadBatch(u) \/ Commit(u)

BatchNext == (\E u \in Units : BatchStep(u)) \/ Reboot \/ NextDay

BatchSpec == BatchInit /\ [][BatchNext]_batchVars

-----------------------------------------------------------------------------
(* Properties *)

\* What line i of a unit is to find as of the day the unit began: the calendar,
\* and what the lines above it collect.
Awaited(u, i) ==
  {Calendar} \cup UNION {Collected(Lines[u][k]) : k \in {k \in DOMAIN Lines[u] : k < i}}

\* A unit "stops at the first failure": one that ended well has committed every
\* step of its procedures since it began, from the listings that the cycles above
\* had brought, and every cycle it generates below has jobs built from those
\* masters (pyscrap-daily-batch2.service:11-14, pyscrap-daily-early.service:24).
\* Of a listing whose job failed it says nothing: that is no failure to run-cycle
\* (cli.py:96-101), the fold takes it as an earlier day left it, and the unit
\* ends well all the same.
GreenMeansFresh ==
  \A u \in Units : green[u].day # 0 =>
    \A i \in DOMAIN Lines[u] : LET above == Lines[u][i] IN
      above.procedure # "" =>
        \A n \in DOMAIN Steps[above.procedure], m \in Awaited(u, i) \ green[u].missed :
          LET s == Steps[above.procedure][n] IN
          /\ folded[s, m] >= green[u].day
          /\ \A j \in DOMAIN Lines[u] :
               (j > i /\ Lines[u][j].cycle # "" /\ Lines[u][j].mode # "run-only")
                 => built[Lines[u][j].cycle][s, m] >= green[u].day

\* "Every later job's placeholder picks up the fresh value automatically": a
\* process never works with a token older than the one persisted last when it
\* began, whichever process asked for it and whatever became of the job.
TokenCurrent ==
  \A u \in Units, k \in Tokens : environ[u][k] >= since[u][k]
=============================================================================
