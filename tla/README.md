# pyscrap: a TLA+ verification project

TLA+ models of [pyscrap](../src), a config-driven scraper that keeps its rows,
its work and its history in an Oracle database and publishes Parquet files to
an object store. The modules are translated from the code under `src/`; this
file says what is modelled, what TLC checks, what TLAPS proves, and what is
left.

Contents: [the system](#the-system) · [modules](#modules) ·
[runs](#runs-what-is-checked-and-what-it-shows) ·
[fairness](#fairness-and-deadlock) · [proofs](#what-is-proved) ·
[disagreements](#where-the-code-and-its-documents-disagree) ·
[not modelled](#what-is-not-modelled) · [plan](#plan)

To check a run: `tlc -config MCJobTxn.cfg MCJobTxn.tla`. To check a proof:
`tlapm JobTxnProofs.tla`.

---------------------------------------------------------------------------

## The system

An `api_mst` row describes a source: url, parameters, headers, how the reply is
paginated and parsed, into which tables it goes. A `job_builder` row says how
to multiply it into jobs. Timers (systemd, `Type=oneshot`) start one process
per execution cycle, which generates the cycle's jobs and executes the pending
ones; SQL procedures maintain master tables and publish what was collected.

| component | code | state it keeps | operations |
|---|---|---|---|
| Cycle execution | `services/execution.py` 305-514 | the scanned list, the set-aside hosts with their jobs, the failure streaks; all in memory, gone with the process | `run_cycle`, `_run_deferred`, `_HostIndex.of`, `_FailStreak.record/tripped/skip` |
| Job transaction | `services/execution.py` 47-242, `scrapers/base.py` 294-362, `routers/jobs.py` | `api_job`, `api_job_log`, the result tables; the open transaction of each process; the CSV buffers on disk | `_execute_job`, `_clear_previous_results`, `run_and_save`, `run_job` |
| Collection session | `scrapers/base.py`, `dynamic.py`, `browser.py`, `__init__.py` | the login session, the storage-state files of the browser, `self.params`, the records read so far, the next free slot of each host | `make_scraper`, `collect`, `login`; `fetch`, `fetch_all_pages`, `parse`, `_pace_host`; `run_behavior`, `_collect_dom`, `_save_state` |
| CSV buffers and object staging | `services/export.py`, `object_storage.py` | files under the staging directory, objects in the bucket | `append_csv_rows`, `stage_file`, `finalize_pending_exports`, `purge_csv_buffers` |
| Parquet export and archive | `scripts/sql/sp_export_*.sql`, `sp_archive_exported.sql` | `<day>/`, `_bulk/` and `_arch/` objects of each target; the rows still in the table | daily export, bulk export, monthly archive (which deletes rows) |
| Job generation | `services/job_builder.py`, `sql_sources.py` | `api_job` rows, keyed by a deterministic `job_id` | axes, dates, `build_jobs_from_builder`, `generate_jobs` |
| Job retention | `sp_retire_expired_jobs.sql`, `sp_purge_*.sql` | `is_active`, `api_job_log` | retire jobs whose day is over, purge jobs and logs |
| Master synchronisation | `sp_mst_*_sync.sql`, `sp_meta_maturity_sync.sql`, `sp_stock_index_his_sync.sql`, `sp_krx_stock_base_dedup.sql`, `sp_ksd_no_detail_mark.sql` | master tables, validity periods | MERGE and UPDATE statements, once a day |
| API server | `api/` | a session per request; the configuration tables | `POST`, `PATCH`, `DELETE` and paged lists of `api_mst`, `api_job_builder`, `api_job`; `POST /jobs/run/{job_id}`, `POST /jobs/generate/...` |
| CLI and timers | `cli.py`, `auth_config.py`, `scripts/*.sh`, units | exit codes, `.env` and `os.environ`, the `DBMS_OUTPUT` buffer of a call | `generate-jobs`, `run-cycle`, `call-proc` and its like, `finalize-exports`, `purge-*` |
| Database schema | `db/models.py` | none | before-validators of the result models; columns that steer the engines |
| Analysis views, discovery, logging, migrations | the rest | none | see `PROJECT.json` |

How they interact:

- Processes share nothing but the database, the staging directory and the
  object store. A cycle scans its jobs once and works on that list for hours;
  the API server, the retention procedures and people change the same rows
  meanwhile.
- `run_cycle` calls `_execute_job`, which calls the scraper's `run_and_save`,
  which calls `collect`, `fetch`, `parse` and the CSV writer. Two exceptions
  travel the other way: `SessionExpired` from a reply to `collect`,
  `SiteBlocked` from a reply to `run_cycle`, through the rollback and the
  FAILED entry of `_execute_job`.
- CSV lines and documents are written while the transaction is open, and are
  not undone by its rollback.
- A unit's `ExecStart` lines run one after the other, as long as each exits
  with 0: masters are folded by a stored procedure, then jobs are generated
  from them. Tokens go from a reply to `os.environ` and `.env`, and from there
  to every process that starts later.
- Browser jobs of all processes share one storage-state file per site, which a
  login deletes and writes again.
- The archive reads the bucket through the same external table as everybody
  else, and deletes rows on the strength of what it counts there.

What is hard about it, in the order of the models:

1. a host that refuses, and what becomes of the jobs already queued behind it;
   a source that fails again and again; a list that grows stale while it is
   worked on (`RunCycle`);
2. an execution is one transaction, but deletes, inserts, CSV lines and the
   FAILED entry are separate statements, and several processes may run the same
   job (`JobTxn`);
3. three procedures write overlapping sets of objects, one of them deletes rows
   afterwards, and any of them may be interrupted (`BucketArchive`);
4. one result is put together from many requests, against a source that changes
   and a session that may end between any two of them (`Collect`);
5. documents are written by one process, uploaded and deleted by another, and
   described by records committed in between (`Staging`);
6. over days and weeks, jobs are generated, closed, retired and purged by
   procedures that read each other's leavings: the generation recognises work
   done by the job row, which the purge deletes; the retirement judges a source
   by its log, which two purges shorten (`JobLifecycle`);
7. a browser sees a screen, not a reply: what it reads may be the page before,
   the login screen, or a page that is still coming; and its session is a file
   that other processes delete and write (`Browser`);
8. a keyword like `last_bday`, a grid of slots, a product of axes, a table sent
   in one of a dozen wrappings: pure functions, each with edges (months, years,
   weeks, spellings, duplicate keys) that a test meets one at a time
   (`Calendar`, `Records`, `Generation`);
9. lists that are paged while rows move to their front, and requests that write
   the same row from copies (`AdminApi`);
10. shell scripts that combine exit codes, stored procedures that commit only
   after their output has been read, tokens that live in two places (`Batch`),
   and threads that share a host's pace (`Pacing`).

What makes each component correct:

| component | properties |
|---|---|
| Cycle execution | a refused host is not hammered; no scanned job is lost or handled twice; a dead source costs at most the limit; cycles end. That every working job is executed in the end is not true (disagreement 3) |
| Job transaction | a run's rows are in the tables whole or not at all; a failed run leaves an overwrite job's rows as they were; a job leaves the pending set only by success or retirement; nobody waits forever |
| Archive | a row leaves the database only if the bucket reads it, once; no day is read twice |
| Collection | a result that is returned is complete, in either engine, or there is a name for why not; no login loop; never the session one was turned away with; requests of a process to a host keep their distance; it comes back |
| Staging | what a committed record describes is kept, whole, and arrives in the bucket |
| Job generation | every parameter set has a job of its own; work that is done is not made pending again; keywords mean the right day; executions of a slot are stamped alike; the source's rows reach the table as they are |
| API server | turning the pages misses nothing that stays; a field keeps what was last sent |
| CLI and timers | a unit that ends green has masters folded from all that its cycles brought, and jobs made from them (of listings its cycles failed to collect nothing is promised, disagreement 7); no process works with a token older than what it began with |
| Retention | a living source is not retired, whatever is purged; a snapshot is retired only by maturity |

The hazards of the code, each at its line with the properties that cover it,
are listed in `PROJECT.json`.

---------------------------------------------------------------------------

## Modules

```
  RunCycle ------------- MCRunCycle          JobLedger
     |                                          |  refined by (INSTANCE WITH)
  RunCycleProofs                             JobTxn ------------- MCJobTxn
                                                |
  BucketArchive -------- MCBucketArchive     JobTxnProofs
     |
  BucketArchiveProofs                        JobLifecycle ------- MCJobLifecycle
                                                |
  Staging -------------- MCStaging           JobLifecycleProofs
     |
  StagingProofs                              Calendar \
                                                       Generation --- MCGeneration
  Collect  \                                 Records  /    |
            Scraper ---- MCScraper                   GenerationProofs
  Browser  /   |
         ScraperProofs                       AdminApi ----------- MCAdminApi
                                                |
  Batch    \                                    |
            Operations - MCOperations           |
  Pacing   /   |                                |
         OperationsProofs ----------------------+
```

`Scraper` and `Operations` compose: the first instantiates both engines and
states once, for whichever a row asks for, what `collect` promises; the second
puts the units of the machine beside the pacing threads of the API server, which
share no state with them: a behaviour is one of either. `Generation` extends
the two modules of pure operators it computes with. The proofs about `AdminApi`
stand in `OperationsProofs`, next to those about the units and threads.

Each component module declares its CONSTANTS with a named ASSUME, its
variables, one action per operation, `Next`, `Spec`, the fair specification
where liveness is checked, and its properties at the end. The MC modules give
the constants values. Definitions introduced by a comment "Faulty variant" are
plausible mistakes in the code: they are used by no action, and exist so that
each property can be shown to reject one.

### RunCycle: one process executing one cycle, again and again

`Scan` is the start of a process (the timer), `RunJob`, `PutOff`, `SkipJob`
one turn of the loop at `execution.py:494-509`; `EndMainLoop`, `WakeUp`,
`LoggedIn`, `LoginFails`, `RunDeferredJob`, `SkipDeferredJob`,
`EndDeferredPass`, `Finish` are `_run_deferred` for each host set aside;
`OrphanAborts` is the ValueError of `execution.py:135`, which nobody catches.
`DeleteApi` is the CRUD router. A call of `_execute_job` is one step, with the
reply chosen from what the job's source may answer: data, nothing, an error, a
refusal. `Contacts` says which hosts' refusal a request of an api may carry.

- The order in which the database returns the jobs is left open, except for
  `_login_rows_first`, which reads the session rows once: an api row deleted
  later in the cycle keeps its place in front (`loginApis`), one deleted before
  has none.
- `_HostIndex` caches the host of an api; only what is seen through it (the row
  as it was when first asked) matters, so `known` is a set of apis.
- Log wording, cool-down seconds and the summary counters are left out.

### JobLedger and JobTxn: one execution

`JobLedger` is the promise: an execution is one step that changes the result
rows, the job row and the log together, or only adds a FAILED entry.

`JobTxn` is the code: `Start`, one `ClearTable` per table of an overwrite job
(in no particular order: the code iterates over a set), `Fetch`, one
`StageTable` per selector, then `Commit`, or `Rollback` and `LogFailed`.
`Blockers` and `Deadlock` are Oracle's row locks: a deleted row stays locked
until its transaction ends, and of two transactions waiting for each other one
gets ORA-00060 (outside the `try`, so the process ends: `Die`). `JobVanished`
is a job row deleted during the run, `Crash` a killed process. `RetireJob` and
`DeleteJob` are other processes. A row is identified by job, table and run:
what was parsed is not modelled, only where it came from.

- `Generic` is `api_rst`: its rows have no columns to write, so they never reach
  a CSV buffer, and `empty_is_pending` does not count them.
- A job deleted while it runs: SQLAlchemy writes the `api_job` row only where it
  changes, and `api_job_log` has no foreign key. A repeated job with the same
  description as before is not written at all, nor is one that was inactive
  when it was read; its rows and a SUCCESS entry are committed although the job
  is gone (`MayBeUnwritten`). For any other job the UPDATE finds no row; the
  rollback expires the instance, and the handler's own look at it raises
  (`JobVanished`).
- `seen` is what a session holds of the jobs it has read. A commit keeps it in
  `run-cycle` (`expire_on_commit=False`), a rollback does not: the next look at a
  job whose row is gone by then ends the process (`ScanOutdated`).

### BucketArchive: what leaves the database

`dayFile`, `archFile` and `bulk` are what the external table can read of
`<day>/`, `_arch/` and `_bulk/`. Each procedure is a program counter `at` that
goes through the statements that change something: `DropDay`, `WriteDay`;
`DropBulk`, `FoldIntoBulk`, `WriteBulk`; `DropArch`, `WriteArch`,
`CheckReadable`, `FoldIntoArch`, `CheckSame`, `DeleteBatch`, `EndArchive`.
`Interrupt` ends a call at any step of `CrashAt`, leaving things as they are:
a kill, or any exception of `DBMS_CLOUD` or of the database.

- One procedure call at a time: the timers are hours apart, and the bulk
  export is run by hand. Two at once are a listed hazard.
- The archived month is quiet while `sp_archive_exported` runs
  (`sp_archive_exported.sql:195-196`: 04:00 on the 1st).
- The code counts again after folding only if something was folded; when
  nothing was, the second count equals the first, so `CheckSame` always counts.
- `Unreadable` are months whose `_arch` object, though written, may not be read
  back. The runs export in bulk only months outside that set: if a bulk file
  covers a month whose `_arch` file is unreadable, its copies satisfy both
  counts, the rows are deleted, and the next bulk export removes the only copy.

### Scraper: the engine a row asks for

`make_scraper` picks one of two engines; "both hand back the same", so the
promises are stated here, over `Http == INSTANCE Collect` and `Brw == INSTANCE
Browser`. The other engine's variables are idle. `FairSpec` gives each engine's
own steps weak fairness; the sites are free.

### Collect: one row, request by request

`Answered` is one turn of `fetch_all_pages` (with `merge_records` as `Merge`
and `_advance` as `Advance`), `RequestFails` an attempt of the three of
`fetch`, `LoggedOut`, `LogIn`, `LoginRejected` the second attempt of
`collect`, `Refused` a `SiteBlocked`, `Unusable` a reply that cannot be read.
`Expire` and `Publish` are the site. `at` is the parameter in `self.params`
that carries the page, the anchor or the token; it survives a second attempt in
every mode but "page", with the consequence described under
[disagreements](#where-the-code-and-its-documents-disagree).

- Records are numbers, the newest highest. In cursor mode the last record of a
  full reply is incomplete (a bar cut at the cap), and the next reply, which
  starts at it, brings it whole.
- Rows are taken to carry the markers `response_parse_json` provides for.
- `LoginOnce` counts logins, not requests: the up to three attempts that `fetch`
  makes of the login row's own request (`dynamic.py:425-435`) are one login.
- `MaxGrow < PageSize`: with a whole page of newcomers between two requests,
  page mode sees the same page twice and stops, which no property denies.
- Cursor and token rows have no login in the runs: with one, and a site that
  still honours the old cursor after the login, `Complete` fails.

### Browser: one row, acted out in a page

A row has a behaviour, a sequence of steps named for what they need of the
screen ("find" needs the data screen, "form" the login screen, "idle" a document
that has been idle), and a kind of result (`dom`, `xhr`, `binary`,
`session`). `LookForState`, `NewContext` are `_open_page`; `Goto`, `Act`,
`Submit`, `Rejected`, `StepTimesOut` are `run_behavior`; `Render` and
`ReplyArrives` are the site answering whenever it likes, a page or a captured
JSON reply; `BehaviourDone` is `_collect_page` after the behaviour; `Read`,
`Advance`, `Settle`, `NothingFollows` are `_collect_dom`. `LogIn`, `Again`,
`Expire`, `TimeOut` are `collect` and `login` around them (`LoginRun`: the login
row is acted out by a scraper of its own, which takes over the job's parameters
and so the page number, and nothing else), `SaveState` and the
deletion in `LogIn` the file that all processes share. `SessionDies` is the
site.

- What is on the screen is a page number and whether it is the login screen;
  records are identified with the page they are on.
- `wait_load` is `wait_for_load_state('networkidle')`, and so is the wait after
  a click or a scroll without `wait_for` (`browser.py:329`, `468`). Playwright
  keeps the state of a document: once nothing has been under way for half a
  second the document has been idle (`Quiet`), and every later wait returns at
  once, whatever has been asked for since. Only a new document starts over
  (`Goto`, `Submit`). So the wait is one for a row that asks in its first step,
  an eval, right after the load: the answer is asked for before the half second
  is over (`Early`; it is the one assumption about time in this model). Any
  other row may go on with the old screen, or with the replies it has.
- `pick` (`.all`) decides which captured replies are handed over: all of them,
  or the last one that came (`Bodies`), which need not be the reply to the last
  request.
- A control that is clicked loads the next page into the same document. Its
  click may time out, which fails or expires the job; only the wait after it is
  caught (`StepTimesOut`, `NothingFollows`).
- `excuse` (history) names why a successful result may be short: `cut` by
  `max_pages`, the session `expired` under it, a page or a reply that came `late`
  to a row that had stopped waiting, or a reply `overtaken` by one to a later
  request. `Prompt` rows are those that ask at once and then wait; to them
  "late" never happens, and `Gapless` is about them.
- `from` (history) is the page an attempt began at. It differs from 1 after a
  login, since `setdefault` at `browser.py:191` leaves the number alone.

### Pacing: the least gap between two requests

`Reserve` is `_pace_host` under its lock (one step), `Send` the request after
the sleep, at any later time; `Restart` a process that ends and starts with an
empty table. A host is the sequence of its labels from the right, so that a
rule's suffix is a prefix here; the first rule that fits decides
(`_interval_for`).

### Records: from a reply to the rows that are saved

Pure operators: `ParseTable` (delimited, zipped, HTML, spreadsheet) with
`RowsToRecords`, `XmlRecords` with `FindAll`, `GroupChildren` and `ScalarValue`,
`JsonRecords` and `MergeFields`, the validators `FixStdDt`, `FoldVendor`,
`FoldMdc` in any order, and `Row`, where the record overrides the job's stamp.
A key is a column and its spelling (capitals or not), a value a code, a day in
one of four spellings, a blank, a dash or nothing. An XML document is the list
of its elements in document order, each with the place of its parent, and
`GroupChildren` is `_group_children` for every element at once.

- What the readers refuse is left out or is an empty table here: neither
  `fields` nor a header (a ValueError, `base.py:91-92`), an empty archive, an
  empty book or a part that is not there (an IndexError), and a scalar at the
  end of a JSON path. Each fails the job, and no property would notice.
- A path into an XML document is "." or dotted; explicit paths with "/"
  (`dynamic.py:243-244`) are handed to ElementTree as they are.

### Calendar and Generation: from keywords to dated rows

`Calendar` has the date arithmetic: `AddMonths`, `LastEom`, `LastBday`,
`ResolveDate`, and `Floor`, the slot of a moment in a cycle's grid.
`Generation` walks through the days (and some of them minute by minute) and
keeps, as history, the same facts by counting: yesterday is the date the walk
was at, the last business day the last one it passed. `Build` is
`build_jobs_from_builder` over axes whose queries answer anything in `Answers`,
`Execute` a job that stamps the rows of a reply. An api without key parameters
gets a new id for every job (`JobId`, a uuid), and a key parameter that no axis
provides fails the builder (`KeyMissing`). A source's table (`table` of a
reply) is given with every wrapping it may be sent in, so that what is saved
can be compared with it.

- The walk starts on a Monday on which the slots of all cycles begin
  (`FirstDayAssumption`).
- `BuildersAssumption` says what kind of thing a builder's axes, a query's
  answers and an api's key parameters are; a value a job may stamp is neither a
  dash nor a day in another spelling than `YYYYMMDD`, which is what
  `_resolve_date` writes.
- `RepliesAssumption` says what makes a table and a wrapping a pair: the reader
  returns a record for each row (`Holds`), and the cells are such that the
  model's validators deal with them (`Suits`: a dash only where `MdcRecordBase`
  is, a day in dots or dashes only in `std_dt` and where `EtfPdfDateMixin` is).
  TLC evaluates it, reading all 235 replies of the run.
- `Execute` fails when a required column has no value; the whole reply fails
  with it, as the insert would.

### AdminApi: one configuration table

`Load` is `session.get` of a request, `Create`, `Update`, `Delete` its commit:
SQLAlchemy writes the columns whose value differs from the copy loaded, and the
database refuses a second row with the key. `OpenList`, `Count`, `Page`,
`CloseList` are a caller who reads a filtered list to its end; the count and
the rows are two statements, and the database may return any arrangement that
the `ORDER BY` allows (`Arranged`). `list_children` and the result browser use
the same `page`.

### Batch and Operations: units, commands and tokens

`Lines` are a unit's `ExecStart` lines. `StartProcess` is the first process of
a line and `StartRun` the second one of mode "both"; each loads `.env`.
`Generate`, `GenerateFails`, `RunCycle`, `RunAborts` and `ExitCode` are
`run_cycle.sh`; `CallStep`, `CallReturns`, `CallRaises`, `ReadBatch`, `Commit`
are `_call_procedure` with `_log_procedure_output`: the steps of a procedure
become visible only after its output has been read to the end. `Refresh` and
`Persist` are `persist_env_var`, first in `os.environ`, then by rewriting the
whole of `.env`. `Timer` is `Persistent=true`, `Reboot` takes all units down.

- `fetched` is the day of each listing's rows. `RunCycle` brings any part of
  what its jobs collect and exits with 0 (`cli.py:96-101` prints the results and
  returns); `missed` (history) is the part it did not bring.
- What a step folds is, for each source, the day of what it read (`Read`): the
  listings as they are, or the calendar. `folded` has it once it is committed,
  `built` has the masters each generation read. No fold takes anything away.
- MCOperations has the lines of `pyscrap-daily-early.service` and
  `pyscrap-daily-start.service`, one listing (`krx_deriv_info`) of the several
  that daily_early collects, and of `sp_run_daily_early` three steps of five:
  the two about stocks are left out.

### Staging: documents and buffers of one group

`OpenFile` and `WriteFile` are `write_bytes` (truncate, then write), `Commit`
the record committed with the job, `GiveUp` its rollback or death. `StartPass`,
`Read`, `Put`, `PutFails`, `Unlink`, `EndPass` are
`finalize_pending_exports` followed by `purge_csv_buffers`; `KillPass` kills
it anywhere. The buffers' dates are abstracted to the run that wrote last, and
the purge to a bound below which they go.

- The object name of a document contains its job, so two workers never write
  the same one (`DocsOf` are disjoint). Within a job, members of two archives
  that share a name would (`base.py:251-272`); that is left out.
- `Overlap = FALSE`: the pass runs at 03:00, when no cycle does. With TRUE the
  pass can delete a version written between its read and its unlink, and
  `DescribedIntact` fails.

### JobLifecycle: the job rows over the days

`Generate` starts one of the three `generate_*` functions with its builders,
`Build` is `build_jobs_from_builder` up to its commit, `CommitBuild` that
commit, `DuplicateKey` an insert that meets the primary key because another
generation was faster. A query without rows, an ambiguous key and a duplicate
key all raise, and end the generation (`Abandon`). `RunPending` is a cycle's
execution of a pending job, `RunFinished` the execution of one that is closed (by
`POST /jobs/run`, or by a cycle that scanned it before), `Reopen` a PATCH that
sets `is_active`; other PATCHes of a job, and its deletion by hand, are left out. `Retire` is
`sp_retire_expired_jobs` with its four rules (`Expired`, `LetGo` for the two
about old dates, `LooksDead`), `OpenCursor`, `PurgeBatch` and `PurgeStops` are
`sp_purge_jobs`, `PurgeLogs` is a batch of `sp_purge_job_logs`. `collected` and
`wins` are history: what has been done, and who has succeeded when.

- Times are days, and a generation ends on the day it begins.
- What the axes of a builder yield is a constant function of the day
  (`Expansion`); `KeyOf` says what `key_params_list` sees of it, so two
  parameter sets may have one `job_id`. Apis without a `key_params_list` are
  left out: each of their jobs is new.
- `LookbackAssumption`: a builder does not ask again for what it asked for more
  than `JobDays` ago. Most builders ask for a day that moves on; the bond
  builders ask for whatever their tables lack, and for them it is
  `ksd_bond_no_detail` that makes the assumption true
  (`sp_ksd_no_detail_mark.sql`), a table kept for exactly this reason.
- `ByHand = FALSE`: nobody reopens or reruns a closed job while `sp_purge_jobs`
  is between its cursor and its last batch (03:00, when no cycle runs). With
  TRUE, a job that has just succeeded is deleted with its log entry, and
  `LivingSourceKept` fails.

---------------------------------------------------------------------------

## Runs: what is checked, and what it shows

| run | instance | checks | result |
|---|---|---|---|
| MCRunCycle | two hosts, four apis, six jobs, every reply, limit 2, two apis deletable | `AtMostTwoRefusals`, `NotHammered`, `EveryJobAccountedFor`, `DeadSourceCost`, `OneMoreChance`, `CycleEnds` | holds |
| MCRunCycleStarved | three jobs of one api, two of which never work, and one of another; limit 2 | `WorkingJobsFinish` | violated |
| MCJobTxn | a repeated overwrite job of a typed table and `api_rst`, and an append job, in two cycles; three executions, one crash, retirement and deletion | `TypeOK`, `WholeOrNothing`, `HistoryComplete`, `ReplacedOrUntouched`, `DoneMeansCollected`, `TrailCovers`, `LedgerSpec` | holds |
| MCJobTxnShared | a cycle and an API caller on one overwrite job, which may be deleted | `NothingHalfSaved`, `ExecutionsEnd` | holds |
| MCBucketArchive | two months, three days, four rows, two delete batches; bulk exports of the first month, an unreadable file in the second; interruptions anywhere but in the batched delete | `ArchivedReadOnce`, `DayOrBulk` | holds |
| MCBucketArchiveCrash | the same, all files readable, interrupted anywhere | `NothingLost` | violated |
| MCScraper | requests: every pagination mode, with and without login, five records and one newcomer, pages of two; browser: a cycle that meets nine kinds of row and an API caller that runs the login row, three pages, three sessions | `Complete`, `LoginOnce`, `Gapless`, `WholeOrNamed`, `FreshSession`, `Ends` | holds |
| MCStaging | two workers with a document each and a buffer, three runs, one killed pass | `DescribedIntact`, `DocumentsArrive` | holds |
| MCJobLifecycle | a daily api and a contract that matures, two builders generated together by two callers, three days, three executions, window of one day | `TypeOK`, `LivingSourceKept`, `CollectedOnce`, `SnapshotKept`, `Represented` | holds |
| MCGeneration | six builders, one of an api without keys and one without its api's key, 436 days from 25 December 2023, two of them by the minute; tables of up to two rows in twelve wrappings | `MeansTheDay`, `OnTheGrid`, `EachCombinationHasItsJob`, `RowsAsMeant` | holds |
| MCAdminApi | four keys, two fields, lists of two to a page, two requests at a time | `PagesCoverTheList`, `FieldsSurvive` | holds |
| MCOperations | the units daily-early (four lines) and daily-start over two days, one listing, three steps of its procedure, one token; two threads and two hosts with different intervals | `GreenMeansFresh`, `TokenCurrent`, `Spaced` | holds |

Why the bounds are enough:

- *RunCycle*: the interesting cases need a host with more than one api (so that
  a refusal of one sets the other's jobs aside), one api with more jobs than
  the limit (so that the breaker trips with a job left to skip), a login row
  that is itself a job, and a second host that must not be affected. Six jobs
  are the least with all of these. Cycles are not bounded: `Scan` may follow
  the end of a cycle forever. Deletable are the login row, so that it may vanish
  before or after the jobs are put in order, and one row behind it.
- *JobTxn*: two workers suffice for every pairwise conflict of locks; three
  executions give a job a success, a failure in between and another success.
  One crash: a crash leaves nothing behind but committed state, so a second
  one meets nothing new.
- *BucketArchive*: a month of two days and three rows, with batches of two, has
  a partial delete; the third day is in another month. Calls are not bounded.
- *Scraper*: five records in pages of two have a full, a middle and a short
  page; `MaxPages = 6` is above what is needed, so that `cutOff` is reached
  only when the source makes it so. Three pages have a first, a middle and a
  last one; three sessions are one that an earlier login left, and one each for
  two processes that log in at once. The rows are one of each pager, with and
  without marker and `wait_for`, two captured screens (the last reply, and all of
  them), a download in a named frame. Some ask at once and then wait, others
  after the document has been idle.
- *Generation*: the walk passes a leap February and a common one, every length
  of a month, a turn of the year and all weekdays; the minutes of two days pass
  two full hours. Generations happen on a weekend and around it, so that one
  date is asked for on three days; queries answer with no rows, with a row too
  short, and with two rows of one code. Two rows are the least a header, a
  blank row or a wrong order can damage.
- *AdminApi*: two pages and a row to come; two requests are what one copy can
  be stale against. Two instants let rows be tied and be moved.
- *Operations*: a unit with a cycle before and two generations after its
  procedure, the early one of the service files, beside one that refreshes the
  token. The second day lets a unit run late, and leaves a listing of the first
  day to be folded on it. Two requests of each of two threads; one restart.
- *Staging*: three runs let one worker rewrite a document already uploaded.
- *JobLifecycle*: three days give the purge a day to come after a job's cutoff,
  and a source two days to fail on; three executions give one job a success and
  another two failures, the least that `LooksDead` could mistake. The second
  day asks again for the first day's date (a weekend), the third for a
  parameter set with an old one's key. The two callers do the same things, so
  they are symmetric; no property names either.

What MCJobTxnShared does *not* claim: with two executions of the same overwrite
job side by side, `WholeOrNothing` itself fails, since each may delete what the
other has committed between two of its own deletes; and when there are no
earlier rows to lock, both runs' rows stay (`execution.py:75-77` promises
replacement for re-runs, which these are not). What remains true is that every
row comes from an execution on record as a success.

## Fairness and deadlock

| specification | fairness | justified by |
|---|---|---|
| `RunCycle!FairSpec` | weak, on the cycle's steps together | the loop always goes on: every request has a timeout, every sleep ends, and the timer fires again after a run has ended |
| `JobTxn!FairSpec` | weak, on the steps of each execution | a process that is executing a job goes on; the database wakes a waiting DELETE and breaks a deadlock. Nothing obliges anybody to start one |
| `Scraper!FairSpec` | weak, on the request engine's steps together and on each runner's browser steps | every request and every wait is answered or times out (`_TIMEOUT_MS`); the sites' `Expire`, `Publish`, `SessionDies` are not obliged to happen or to stop |
| `Staging!FairSpec` | weak on each job and on the pass, strong on `Put` | a job ends, the timer starts a pass every night, and the object store takes a document sooner or later: without the last, a document that can never be uploaded blocks all behind it, which is listed as a hazard |

`WorkingJobsFinish` is refuted under `FairSpec`: the counterexample is a process
that goes on forever, cycle after cycle, in which the database returns the jobs
in the same order each time.

RunCycle, JobLifecycle and AdminApi are checked for deadlock. The other cfgs say
`CHECK_DEADLOCK FALSE`, because their systems stop: JobTxn and Staging when the
bounded executions are used up, BucketArchive when all rows are collected and
archived (nothing is left to export), Scraper when `collect` has returned,
Generation and Operations when the last day is over.

## What is proved

The theorems hold for every value of the constants that satisfies the
assumptions: any number of jobs, apis, hosts, workers, tables, executions,
builders, days, documents, units, threads, rows of the configuration, pages,
records, browser runners, cycles, key parameters and tables. All of it is
safety: every safety property that holds in a run is stated by a theorem. An
assumption that goes beyond the ASSUMEs of the modules has a name and stands in
the statement of the theorem; each is there because the property is false
without it, as the subsections say.

### RunCycleProofs

| theorem | states |
|---|---|
| `TypeCorrect` | `Spec => []TypeOK` |
| `TwoRefusals` | `OwnHostOnly => (Spec => []AtMostTwoRefusals)` |
| `SetAsideNotHammered` | `OwnHostOnly => (Spec => []NotHammered)` |
| `NoJobForgotten` | `Spec => []EveryJobAccountedFor` |
| `SentOnce` | `Spec => OneMoreChance` |
| `DeadSourceIsCheap` | `Spec => []DeadSourceCost` |

From `RowsAssumption` (the types of the constants) and, for the two about hosts,
`OwnHostOnly`: the requests of an api and of its login row are refused by the
host of the api's own url. That condition is not cosmetic: with a login page on
a host of its own both are false, since the refusal is filed under that host.

That a host serves at most two refusals is not inductive: nothing in it says
why a host that has refused is not asked again. The inductive invariant says
it, as a budget:

- `OwnJobs`: every job kept for a host, in its list or in the pass under way,
  is a job of an api of that host, so nobody else can refuse it;
- `SomeoneWaits`: a host set aside has a job in its list, and there is a job to
  log in for;
- `Served`: two refusals at most; one at most as long as the host is set aside,
  or while its own pass is under way; none, during the main loop, for a host
  that is not set aside.

The last three are from `RowsAssumption`, `LimitAssumption` and
`FiniteAssumption`; api rows may be deleted at any moment, and the breaker may
be off. `EveryJobAccountedFor` counts the places of a job and is not inductive:
that a list gives up a job only once needs to know that it holds it once. The
invariant `Places` is

- `Waiting`: what is in a list has not been executed, skipped or given up, and
  was sent no further than the refusal that put it off;
- `InOneList`: no job is in two lists, or twice in one;
- `OneEnd`: executed, skipped and given up exclude each other;
- `Kept`: a scanned job is in a list or at one of these ends;
- `Drained`: a list is empty before the phases that do not look at it.

`SentOnce` follows from `Waiting`. For `DeadSourceIsCheap`, `Costs` adds that an
api without a success has a streak at least as long as its failures: only a
success resets it, and a job that has been executed is not sent again
(`Places`), so its success is not forgotten. That the list of a host is no
longer than there are jobs, which `Whereabouts` presupposes, is the pigeonhole
principle (`ShortLists`).

### JobTxnProofs

| theorem | states |
|---|---|
| `TxnTypeCorrect` | `Spec => []TypeOK` |
| `NothingHalf` | `Spec => []NothingHalfSaved` |
| `HistoryKept` | `Spec => []HistoryComplete` |
| `DoneOnlyBySuccess` | `Spec => []DoneMeansCollected` |
| `BuffersCover` | `Spec => []TrailCovers` |
| `ImplementsLedger` | `SoleRunner => (Spec => LedgerSpec)` |
| `AllOrNothing` | `SoleRunner => (Spec => []WholeOrNothing)` |
| `LastSuccessStands` | `SoleRunner => (Spec => []ReplacedOrUntouched)` |

The first five are from `JobTxnAssumption` alone: the workers are any set, and
any number of them may execute the same job. The inductive invariant `IInv` is the conjunction of
`TypeOK` and

- `Busy`: a worker that executes has a job and an identity handed out by
  `Start`; one that has failed or is idle has nothing open;
- `Tagged`: what a worker has staged carries its own job and run, and, in a
  typed table, is in the buffers already;
- `ClearsOwn`: only overwrite jobs delete, and only rows of overwrite jobs;
- `Identified`: no two executions, running or on record, share an identity;
- `Accounted`: the tables staged and those still to be staged make up the
  reply.

None of the properties is inductive alone. `HistoryComplete`, for instance, is
kept by another worker's commit because that commit deletes no rows of append
jobs (`ClearsOwn`) and adds none under a run on record (`Tagged`,
`Identified`), and by the worker's own commit because everything it staged
makes up its reply (`Accounted`) and nobody has used its run before
(`Identified`). The proof of `HistoryKept` also uses `NothingHalfSaved`: no
row of the run was there before its commit.

`TrailCovers` is about JobTxn, which has no purge: it says that a commit makes
no row of a typed table visible that the buffers had not received.

`SoleRunner` is `Callers = {}`: a job is run by the process of its own cycle and
by nobody else. With a caller of `POST /jobs/run` two executions may delete and
insert the rows of one overwrite job side by side, neither sees the other's, and
all three fail (MCJobTxnShared checks what is left then). The invariant `SInv`
adds to `IInv`

- `Alone`: a process scans and runs jobs of its own cycle only;
- `InOrder`: what is on record for a job was started before the execution under
  way, so the run with the highest number is the last;
- `InPlace`: rows are in output tables of their job only, so clearing these
  clears all;
- `Swept`: what the DELETEs of an execution have met is all its job has in the
  tables they have visited, since nobody else has committed there meanwhile.

Under the mapping a commit, a logged failure, a retirement and a deletion are
steps of the ledger, and everything else is a stutter. The ledger has the
success of a job that has been deleted, because the code commits it. `Swept` is what makes the
commit a single step: the rows it takes away are all the job had.

### JobLifecycleProofs

| theorem | states |
|---|---|
| `LifecycleTypeCorrect` | `Spec => []TypeOK` |
| `SnapshotsKept` | `Spec => []SnapshotKept` |
| `LivingSourcesKept` | `Undisturbed => (Spec => []LivingSourceKept)` |
| `WorkDoneOnce` | `Spec => []CollectedOnce` |
| `AllRepresented` | `Undisturbed /\ ContractsListed => (Spec => Represented)` |

From `LifecycleAssumption`, and for the last two `LookbackAssumption`.
`Undisturbed` is `~ByHand /\ JobDays >= Window`: it is what the timers and the
default of 90 days provide, and neither half can be dropped (`purge-jobs --days`
accepts 1). `ContractsListed`: no builder asks for a contract that has matured.

- `LivingSourcesKept` rests on `WinsLogged`, that each success of the window is
  on record, and on `CursorHolds`, that what the purge is about to take is
  finished and has no log entry newer than its cutoff. The two purges differ in
  why they keep `WinsLogged`: one refuses `OkDays < Window`, the other is saved
  by `JobDays >= Window`.
- `WorkDoneOnce` rests on `Remembered`: work that is done has its job still, or
  was asked for before the cutoff. The purge turns the first into the second
  (`LongAsked`, itself from `Traceable`: a job was asked for before it was last
  touched), and `LookbackAssumption` rules out the second when a builder stages
  a job.
- `AllRepresented` rests on `Prepared`, that what a builder at work wants is
  staged or there; that the purge does not take what is there needs the other
  three invariants.

### OperationsProofs

| theorem | states |
|---|---|
| `OperationsTypeCorrect` | `Spec => [](PaceTypeOK /\ BatchTypeOK)` |
| `RequestsSpaced` | `Spec => []Spaced` |
| `GreenIsFresh` | `Spec => []GreenMeansFresh` |
| `TokensStayCurrent` | `OneRefresher => (Spec => []TokenCurrent)` |
| `AdminTypeCorrect` | `AdminSpec => []AdminTypeOK` |
| `NoUpdateLost` | `AdminSpec => []FieldsSurvive` |
| `PagesCover` | `AdminSpec => []PagesCoverTheList` |

The first four are from `PacingAssumption` and `BatchAssumption`, for any threads, processes, hosts
and rules, and any units, lines, procedures, cycles and days.

- `RequestsSpaced`: that two slots are apart is not inductive, since nothing in
  it says where the next one goes. `Booked` does: every slot a living process
  has given out at a host ends, with its interval, before the host's next free
  slot. A restart makes it true of the empty table, since older slots belong to
  an earlier life.
- `GreenIsFresh`: the exit code is known only at the end, so `BatchInv` says of
  a unit at work how far it has come. `Fresh`, up to a line, is that the lines
  so far have folded their masters since the unit began, from the calendar and
  from what the lines above have collected, and have given each cycle below them
  jobs made from these; `Brought` is that what they have collected is of the day
  the unit began or later, or `missed`. `Based` says the same of the steps of a
  procedure that has not committed yet. `Progress` is that all lines above the
  present one are so, and the present one too once its own step has succeeded.
  Other units may collect, fold and generate in between: `InTime` (nothing is
  done ahead of the calendar) makes what they do a gain.
- `TokensStayCurrent`: `TokenInv` says that `.env` is what was persisted last,
  and that whoever is between reading it and writing it back holds a copy equal
  to it. `OneRefresher` (one unit at most has cycles that refresh tokens; here
  it is daily-start, see `pyscrap-daily-start.timer` and `docs/TECHNICAL.md:702`)
  is what keeps the copy equal: with two, the later of two writers puts the
  other's token back, disagreement 5 below.

The last three are from `AdminAssumption`, for any table, filter, page size and number of clients.
`NoUpdateLost` is inductive with the types. `PagesCoverTheList` speaks of a
finished reading only; the invariant speaks of one under way, by the `Rank` of a
row, the number of rows before it in the list:

- `StillInv`: a row nobody has touched since the reading began and whose rank
  is below the offset has been on a page. A write puts its own row at the head
  of the list, or leaves it where it is, so the others only move back, into
  pages still to come; when a row leaves the list (`left`) the property promises
  nothing;
- `HeadInv`: as long as nothing has changed, the pages so far are the head of
  the list, in order, so at the end they are the list, and both counts are its
  length.

### StagingProofs

| theorem | states |
|---|---|
| `StagingTypeCorrect` | `Spec => []TypeOK` |
| `DocumentsIntact` | `Orderly => (Spec => []DescribedIntact)` |

`Orderly`: jobs and passes take turns (`~Overlap`), nobody is killed inside
`write_bytes`, and no document has the name of a buffer. Failing jobs, failing
uploads, kills at every other point, and any number of jobs side by side, each
with documents of its own, are covered. Besides the types, the invariant `DInv` says that jobs and
passes take turns (`Turns`); that an execution writes its own documents, each
once, and finds them as it left them (`OwnFiles`); that a record is never newer
than the execution that may replace it (`Earlier`); that a document on disk is
whole unless it is being written (`WholeOnDisk`); and that a pass holds what is
on disk, and unlinks it only with the same bytes in the bucket (`Uploading`).

### BucketArchiveProofs

| theorem | states |
|---|---|
| `NeverTwice` | `Spec => []DayOrBulk` |
| `ReadOnce` | `Undisturbed => (Spec => []ArchivedReadOnce)` |

`NeverTwice` needs nothing beyond `ArchiveAssumption`; its invariant `Calls` says
that an export under way has only days left that the bulk file does not cover.
`Undisturbed` rules out what breaks the other: a call ended inside the batched
delete (MCBucketArchiveCrash), a row that arrives for an archived month, and a
bulk file over days of a month whose `_arch` objects the external table cannot
read, which then makes the counts agree by itself. The core is `SameMeansOnce`:
the check of the procedure compares two numbers, and they are equal only if
every row of the month is read from the archive and from nowhere else. The rest
of `AInv` says that objects hold rows of their own days (`Placed`), that what the
procedure has counted still stands (`Counted`), that rows leave the table by
whole months (`Emptied`), and that what has left, or is about to, is in the
archive alone (`Archived`).

### ScraperProofs

| theorem | states |
|---|---|
| `LoggedInOnce` | `Spec => []LoginOnce` |
| `ResultComplete` | `LoginRestarts => (Spec => []Complete)` |
| `SessionsStayFresh` | `LoginsUnlock => (Spec => []FreshSession)` |
| `PagesUnbroken` | `Asks => (Spec => []Gapless)` |
| `ResultWholeOrNamed` | `Asks => (Spec => []WholeOrNamed)` |

From `ScraperAssumption` and the assumptions of the engines; for any rows, any
number of records, pages and runners, any page size and any `max_pages`. A row
is configuration, so what it must be like to be read correctly is a hypothesis:

- `LoginRestarts`: a request row behind a login is read whole or by page
  number. A cursor or token survives the login while the records do not
  (disagreement 4), and `Complete` is false.
- `LoginsUnlock`: the login row submits its form and then needs something only
  the data screen has, or has a marker; and a row shares its session file with
  the login row it names. The login rows documented in `docs/TECHNICAL.md` 2.11
  are like that (click `#loginBtn`, wait for `#logoutBtn`). A login row that
  never looks whether it was let in saves the session it was turned away with.
- `Asks`: a row that is paged by number has an eval that asks for the page, and
  has one after each login of its own (`docs/TECHNICAL.md` 2.12). Without it the
  page shown is not the page counted. Whether a row waits is no hypothesis: the
  properties say which rows they make promises to (`Prompt`), and what becomes
  of the others (`late`, `overtaken`).

`LoginInv` follows `collect` through its two attempts: a login takes place only
between them. `ReadInv` is why a reply lost nothing, mode by mode. For cursor
and token rows: everything newer than the anchor is collected whole
(`WholeAfter`), and the anchor lies below what the previous reply reached
(`Descends`), so that a repeated reply means the end. For page rows: pages
shift by newcomers while they are read, so `PageInv` bounds where the present
page can begin, and keeps the `Window` the previous one showed. As newcomers
are fewer than a page, equal replies mean the end here too.

`FreshSession` is about what other runners do: they save sessions under the same
key at any moment. `SessionInv` says that what is saved under a runner's key is
not a session it has been turned away with (`SessionOf`), and that a login run
that has got past its form has a session nobody else holds or has saved
(`Private`), so that nobody can have been turned away with it before. `UnlockInv`
is the login behaviour up to where it knows this.

For the pages, `BrowserInv` has, for each runner, what is collected, what is on
the screen and what is on its way: by number (`NumberedInv`), by click or scroll
(`ClickedInv`), or as captured replies (`CapturedInv`). While a behaviour is
acted out it has which of its steps are still `Pending`. A screen that has not
changed and a screen that is about to change look alike to the code. What tells
them apart is that a document which has not been idle is still waited for
(`Waiting`): a row that asks in its first step has asked before it can have been
idle, so when its wait is over the page has come, or the session is gone
(`LateInv`). For any other row the invariants hold as long as nothing is held
against its run (`Sure`).

### GenerationProofs

| theorem | states |
|---|---|
| `KeywordsMeanTheDay` | `Spec => []MeansTheDay` |
| `StampedOnTheGrid` | `Spec => []OnTheGrid` |
| `NoCombinationLost` | `Spec => []EachCombinationHasItsJob` |
| `RowsSavedAsMeant` | `Spec => []RowsAsMeant` |
| `GridsAreRead` | `Shows(rows, spec, table)` implies that `RowsToRecords(rows, spec)` holds the rows of `table` |

From the four assumptions of Generation, for any first day, any cycles, any
builders and answers, and any replies. The walk may be endless, and by the
minute on every day.

- `KeywordsMeanTheDay`: the code computes with ordinals and divisions, the walk
  counts. `DateInv` says that the history is what the code would say of the
  day: `past` is `Yesterday`, `LastBday` and `LastEom` of it. The lemmas it
  needs are one step of the proleptic calendar each: the ordinal of tomorrow is
  one more, in months of every length and both kinds of year
  (`OrdinalOfTomorrow`), so the weekday is the next one, and a month's last day
  becomes `LastEom` on the first.
- `StampedOnTheGrid`: `ClockInv` ties the days walked to the ordinal. `SlotInv`
  says that what has been counted since a slot began is the remainder of a
  division (`Elapsed`), and the slot its floor. The step is that a remainder
  grows by one until it is zero (`ModuloOfNext`); minutes begin again with the
  hour and hours with the day, whether or not the number of units divides them.
- `NoCombinationLost`: with `JobRecords`, the property is inductive. The core is
  that a combination which is not ambiguous finds the job with its id, new or
  old, to have its own values, and that of several entries with a key the last
  one has it (`MergedHasTheLast`).
- `RowsSavedAsMeant`: `ParamsInv` says that jobs hold parameters of an api with
  key parameters, so that a stamp has lower keys, each once (`StampFacts`).
  From there it is a matter of one column: `Says(m, c, v)` is that the last
  entry of `m` that names the column, in either spelling, has the value `v`. A
  record put over a stamp says what the record says (`StampedSays`): a key that
  the record spells in capitals comes behind the stamp's. Each validator keeps
  what is said, or changes the value in its way, and after `FoldVendor` there is
  one key left (`ValidatorSays`). A value that one validator turns into what it
  means and no other spoils ends so in any order (`ValidatedSays`, `CellEnds`).
- `GridsAreRead` discharges for grids what `RepliesAssumption` asks of a
  reader: `Shows` says that the grid has the table's cells below what is
  skipped and the header, with a distinct title to each; rows may be short.

Dicts and orders of validators are folded over sequences, and the library's
induction takes an operator the provers cannot instantiate. `SetInduction`
states it for sets instead, from the well-foundedness of the naturals, and
`IterExists` and `IterRuns` derive from it that a fold is what its steps make it.

### Only model-checked

- Liveness (`CycleEnds`, `ExecutionsEnd`, `Ends`, `DocumentsArrive`), since the prover does not handle fairness.
- That the readers of delimited text and pages drop the empty lines and no
  others (`Worth`), that the path into an XML document finds its elements, that
  one into a JSON document finds its list, and that `merge_fields_json` adds its
  values. The first two filter with `SelectSeq`, whose definition the prover
  cannot unfold. TLC evaluates them all in `RepliesAssumption`; what
  `rows_to_records` makes of the lines that are left is `GridsAreRead`.
- `NothingLost` and `WorkingJobsFinish`, the properties of the two violated runs,
  are false.

---------------------------------------------------------------------------

## Where the code and its documents disagree

The two violated runs are 1 and 3; the counterexamples are what TLC prints, the
quotations are in `PROJECT.json` under `findings`. The others are reached with
another choice of constants or a stronger property, which is given.

1. **An interrupted archive loses rows** (MCBucketArchiveCrash,
   `sp_archive_exported.sql:175`). The comment says that the next call
   continues: it rewrites `_arch`, then deletes what is left. But it rewrites
   `_arch` from the table, which no longer holds the rows the interrupted call
   had deleted.
2. **A refusal by an SSO host** (`execution.py:505`; in MCRunCycle, `Contacts`
   with a host of its own for `plogin`) is filed under the host that answered,
   while the loop looks for the host of the job's own url: the portal's
   remaining jobs keep running into the refusal, and `NotHammered` fails.
3. **Hopeless jobs in front** (MCRunCycleStarved, `execution.py:368`). Of jobs
   that were not tried, refused or dropped with their api, `run_cycle` says that
   "the jobs stay active and the next cycle picks them up"
   (`execution.py:471-472`). If as many jobs of an api as the limit fail for
   good, and the database returns them first each time, they trip the breaker in
   every cycle and the others are never sent.
4. **Records missing after a re-login** (`dynamic.py:557`; in MCScraper, cursor
   or token rows with `login`): the second attempt starts with no records but
   with the cursor where the first had got to, and `Complete` fails. A browser
   row paged by number has the same habit (`browser.py:191`): its second
   attempt begins at the page the first was turned away from. `Gapless` counts
   from there.
5. **A lost update of `.env`** (`auth_config.py:44`; in MCOperations, two units
   with a token each): each process writes the whole file from its own copy, so
   that of two tokens refreshed at once one is back to its old value on disk,
   and `TokenCurrent` fails for the next process. The API server, which reads
   `.env` when it starts, keeps the token it started with.
6. **Lists of the log** (`job_logs.py:51`, `66`) are ordered by `executed_at`
   alone, although `paging.py:84-86` says that an order must end in something
   unique; with `Before` weakened so, `PagesCoverTheList` fails.
7. **Masters folded from yesterday's listings** (`cli.py:96-101`; in
   MCOperations, `GreenMeansFresh` without `\ green[u].missed`).
   `pyscrap-daily-early.service:31-32` says that the lines stop at the first
   failure because that is better than generating jobs from masters that have
   not been brought up to date. But a job that fails is no failure of `run-cycle`:
   with every listing of the morning failed it exits with 0, the procedure folds
   what an earlier day left, the jobs are generated from that, and the unit ends
   green.
8. **A wait that does not wait** (`browser.py:329`, `468`; in MCScraper,
   `WholeOrNamed` without the names `late` and `overtaken`).
   Of the row it documents (fill, eval, `wait_load`) `docs/TECHNICAL.md:436`
   says that the wait ends when the page asked for has come. It does as long as
   the document has not been idle before the eval; if the fill takes half a
   second, the wait returns at once, and the screen read may be the one before.
   A result cut short in this way is logged as a success.
9. **A deleted job that succeeds** (`execution.py:211-213`, `MayBeUnwritten`): a
   repeated job deleted while it runs leaves rows and a SUCCESS entry of a job
   that does not exist. Nothing says it should not; the ledger has the step.

Behaviour of the same kind that has no run of its own, described under
`hazards`: an archived month that gets a late row has its file rewritten with
that row alone when the archive is called for it again (`Backfill = TRUE`);
deleting an api row ends the cycle in which one of its jobs is next
(`OrphanAborts`); a job killed inside `write_bytes` leaves part of a document
in place of the whole one (`CrashAt` with "writing"); a member of an unpacked
archive that lies in a folder is staged deeper than the pass looks and never
uploaded (`Nested`); `purge-jobs --days` has no floor where `purge-job-logs` has
one (`JobDays < Window`); a source that sends its date column blank wipes the
date the job had stamped (`Meant`); what a procedure wrote to `DBMS_OUTPUT`
before it failed is never logged (`CallRaises`); a PATCH that repeats the value
it loaded writes nothing (`Update`), and one whose row was deleted meanwhile is
answered with a 500.

## What is not modelled

- *Master synchronisation* (`sp_mst_*_sync.sql`, `sp_meta_maturity_sync.sql`,
  `sp_stock_index_his_sync.sql`, `sp_krx_stock_base_dedup.sql`,
  `sp_ksd_no_detail_mark.sql`): MERGE statements over dozens of columns, each a
  transaction without interleavings of its own. When they run, in which order,
  and when their effect is committed is in Batch; what they compute would be a
  transcription of SQL.
- *Analysis views* (`v_fut_cont`, `v_k2i_atm`): queries without state.
- *Discovery*: superseded; `discover_period` raises in its first statement, and
  nothing else calls the helpers.
- *The declarations of the schema* (most of `models.py`): columns and types of
  the fifty-eight result tables. Their validators are in Records.
- *Migrations, logging, database and bucket configuration, the TLS context*:
  declarations, or calls of a library.
- *`sql_sources.py` and `check-sql`*: a developer's comparison of the queries
  kept in files with those in the table; it changes a table only by hand.
- *The health check, the result browser, the log list, child counts*: they only
  read; the paging they use is in AdminApi.
- *Requests as text* (placeholders, headers, payloads, signing), CSV format and
  log wording: no property looks at them.
- *Day exports of days without rows*: `sp_export_parquet` skips such a day and
  leaves its objects; in the model only the archive removes rows, so the case
  does not arise.
- *Results cut off by `max_pages`*: the code documents it as a backstop;
  `Complete` and `WholeOrNamed` exclude it by name.
- *Procedures side by side* (`sp_export_parquet` with a bulk export started by
  hand, a row committed while its month is archived): one at a time is assumed.

## Plan

Done: all components but the master synchronisation, at the level described
above; the refinement of JobLedger; and the proofs of every safety property that
holds. What would add most:

1. Abstract specifications beside JobLedger: what one call of the archive
   promises, or one document on its way to the bucket, with BucketArchive and
   Staging shown to implement them from the invariants already proved.
2. JobLifecycle with the breaker: an api whose first jobs fail for good is
   retired with the jobs that were never tried. And with CRUD deletions, which
   take a success out of what rule 4 reads.
3. BucketArchive with two procedures side by side.
4. The validity periods of `sp_stock_index_his_sync` and the calendar of
   `sp_meta_maturity_sync`, each against a reference definition.
