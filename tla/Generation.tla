----------------------------- MODULE Generation -----------------------------
(***************************************************************************)
(* From a builder's macro_params_json to dated rows, over the days of a    *)
(* calendar: the keywords are resolved on the day of the generation        *)
(* (Calendar), the axes multiplied out into parameter sets and these into  *)
(* jobs, a job executed on the same or a later day stamps its key          *)
(* parameters onto the rows of the reply (Records).  What becomes of the   *)
(* job rows otherwise is JobLifecycle's; here a job that the last day's    *)
(* generations did not meet is purged.                                     *)
(***************************************************************************)
EXTENDS Calendar, Records

CONSTANTS
  Builders,    \* build_id -> [api, axes]
  KeyParams,   \* api_id -> key_params_list, normalised
  Answers,     \* query -> the results it may give, sequences of tuples
  Replies,     \* [table, doc, spec, model]: a table of the source, how it is
               \* sent, response_parse_json with output_tables_json, and the
               \* model of the table it goes to
  Validators,  \* model -> the orders its validators may run in
  Fields,      \* the models' columns that a source fills, and
  Required,    \* those that must have a value
  Cycles,      \* execution_cycle values
  FirstDay,    \* the walk's first day, a Monday on which every cycle's slots
               \* begin
  Days,        \* bound: days of the walk
  BuildDays,   \* bound: days with generations
  RunDays,     \* bound: days with executions, one a day
  Generations, \* bound: generations a day
  ClockDays,   \* bound: days walked by the minute
  Minutes      \* bound: minutes of such a day

\* What a job may stamp: neither a dash nor a day in another spelling.
IsParameter(v) == v # Dash /\ ("day" \in DOMAIN v => v = Day(v.day, "plain"))

IsSeq(s) == Len(s) \in Nat /\ DOMAIN s = 1..Len(s)

ASSUME BuildersAssumption ==
  /\ \A b \in DOMAIN Builders :
       /\ Builders[b].api \in DOMAIN KeyParams /\ IsSeq(Builders[b].axes)
       /\ \A i \in DOMAIN Builders[b].axes : LET e == Builders[b].axes[i] IN
            \/ e.from = "db" /\ e.query \in DOMAIN Answers /\ IsSeq(e.keys)
            \/ e.from = "date"
            \/ e.from = "literal" /\ IsParameter(e.value)
  /\ \A q \in DOMAIN Answers : \A rows \in Answers[q] :
       /\ IsSeq(rows)
       /\ \A i \in DOMAIN rows :
            IsSeq(rows[i]) /\ \A p \in DOMAIN rows[i] : IsParameter(rows[i][p])
  /\ \A a \in DOMAIN KeyParams : IsSeq(KeyParams[a])

\* A reply's reader finds the rows of its table: a record has an entry for
\* every cell, under one of its column's spellings.
Holds(record, row) ==
  /\ IsSeq(record)
  /\ \A i \in DOMAIN record : LET c == record[i][1].name IN
       /\ record[i][1] \in {Key(c), Caps(c)} /\ c \in DOMAIN row
       /\ record[i][2] = IF row[c] = Blank /\ record[i][2] # Blank THEN Nothing ELSE row[c]
  /\ \A i, j \in DOMAIN record : record[i][1].name = record[j][1].name => i = j
  /\ \A c \in DOMAIN row : \E i \in DOMAIN record : record[i][1].name = c

\* What the cells of a model's tables need of its validators.
Suits(order, row) ==
  /\ IsSeq(order) /\ ToSet(order) \subseteq {"mixin", "vendor", "mdc"} /\ "vendor" \in ToSet(order)
  /\ \A c \in DOMAIN row :
       /\ row[c] = Dash => "mdc" \in ToSet(order)
       /\ "day" \in DOMAIN row[c] =>
            /\ row[c] = Day(row[c].day, row[c].style)
            /\ row[c].style \in {"plain", "short"} \/ (c = "std_dt" /\ "mixin" \in ToSet(order))

ASSUME RepliesAssumption ==
  \A r \in Replies : LET records == Parse(r.doc, r.spec) IN
    /\ r.model \in DOMAIN Validators /\ DOMAIN records = DOMAIN r.table
    /\ \A i \in DOMAIN r.table :
         /\ Holds(records[i], r.table[i])
         /\ \A order \in Validators[r.model] : Suits(order, r.table[i])

ASSUME CyclesAssumption ==
  \A c \in Cycles : c.unit \in {"m", "h", "d", "w"} /\ c.n \in Nat \ {0}

ASSUME FirstDayAssumption ==
  /\ IsDate(FirstDay) /\ Weekday(FirstDay) = 0
  /\ \A c \in Cycles :
       LET start == Moment(Ordinal(FirstDay), 0) IN Floor(start, c) = start

Now == "NOW"
NoColumn == "none_mapped"

VARIABLES
  date, minute,
  \* ---- tables ----
  jobs,     \* api_job: [id, params]
  met,      \* the jobs the day's generations made or came upon
  \* ---- the last operation ----
  built,    \* what a generation was to make: api and combinations of its axes
  saved,    \* what an execution saved: table, stamp, rows
  \* ---- history: the calendar by counting ----
  n,        \* days walked
  weekday,
  past,     \* the last day, business day and end of a month gone by
  count,    \* per cycle: units since its slot began
  slot,     \* per cycle: when that was
  made      \* generations of the day

calendar == <<date, minute, n, weekday, past, count, slot>>
vars == <<date, minute, jobs, met, built, saved, n, weekday, past, count, slot, made>>

NoBuild == [api |-> "-", combos |-> {}]
NoRows  == [table |-> <<>>, stamp |-> <<>>, rows |-> <<>>]

Init ==
  /\ date = FirstDay /\ minute = 0 /\ n = 0 /\ weekday = 0
  /\ past = [day |-> Yesterday(FirstDay), bday |-> LastBday(FirstDay), eom |-> LastEom(FirstDay)]
  /\ count = [c \in Cycles |-> 0]
  /\ slot = [c \in Cycles |-> Moment(Ordinal(FirstDay), 0)]
  /\ jobs = {} /\ met = {} /\ made = 0
  /\ built = NoBuild /\ saved = NoRows

-----------------------------------------------------------------------------
(* The calendar, by counting (history). *)

\* A cycle's next slot begins when its units are used up, or with the next
\* hour (minutes) or day (hours).
Counted(unit(_), turn(_), at) ==
  LET next(c) == count[c] + 1 = c.n \/ turn(c) IN
  /\ count' = [c \in Cycles |->
                IF ~unit(c) THEN count[c] ELSE IF next(c) THEN 0 ELSE count[c] + 1]
  /\ slot' = [c \in Cycles |-> IF unit(c) /\ next(c) THEN at ELSE slot[c]]

Minute ==
  /\ n \in ClockDays /\ minute < Minutes
  /\ minute' = minute + 1
  /\ LET hour == minute' % 60 = 0 IN
     Counted(LAMBDA c : c.unit = "m" \/ (c.unit = "h" /\ hour),
             LAMBDA c : c.unit = "m" /\ hour,
             Moment(Ordinal(FirstDay) + n, minute'))
  /\ built' = NoBuild /\ saved' = NoRows
  /\ UNCHANGED <<date, jobs, met, n, weekday, past, made>>

NextDay ==
  /\ n < Days
  /\ date' = Tomorrow(date)
  /\ minute' = 0 /\ n' = n + 1 /\ weekday' = (weekday + 1) % 7
  /\ past' = [day  |-> date,
              bday |-> IF weekday < 5 THEN date ELSE past.bday,
              eom  |-> IF date'.d = 1 THEN date ELSE past.eom]
  /\ Counted(LAMBDA c : c.unit # "w" \/ weekday' = 0,
             LAMBDA c : c.unit \in {"m", "h"},
             Moment(Ordinal(FirstDay) + n', 0))
  /\ jobs' = {j \in jobs : j.id \in met}
  /\ met' = {} /\ made' = 0
  /\ built' = NoBuild /\ saved' = NoRows

-----------------------------------------------------------------------------
(* build_jobs_from_builder. *)

\* _build_axes: the values one entry can take, each a dict of its keys.
Axis(entry, answers) ==
  CASE entry.from = "db" ->
         [i \in DOMAIN answers[entry.query] |->
           [k \in ToSet(entry.keys) |->
             answers[entry.query][i][CHOOSE p \in DOMAIN entry.keys : entry.keys[p] = k]]]
    [] entry.from = "date" ->
         << [k \in {entry.keys[1]} |-> Day(ResolveDate(entry.word, date), "plain")] >>
    [] entry.from = "literal" -> << [k \in {entry.keys[1]} |-> entry.value] >>

AxisRaises(entry, answers) ==
  /\ entry.from = "db"
  /\ LET rows == answers[entry.query] IN
     rows = <<>> \/ \E i \in DOMAIN rows : Len(rows[i]) < Len(entry.keys)

\* itertools.product.
Product(axes) ==
  LET longest == Max({Len(axes[i]) : i \in DOMAIN axes})
      picks == {c \in [DOMAIN axes -> 1..longest] : \A i \in DOMAIN axes : c[i] <= Len(axes[i])} IN
  {[i \in DOMAIN axes |-> axes[i][c[i]]] : c \in picks}

\* merged.update: of two entries with a key in common the later one has it.
Merged(combo) ==
  [k \in UNION {DOMAIN combo[i] : i \in DOMAIN combo} |->
    combo[Max({i \in DOMAIN combo : k \in DOMAIN combo[i]})][k]]

\* _build_job_id: of an api without key parameters a uuid, unlike that of any
\* other generation; NOW is no part of an id, and alone names the builder.
JobId(build, api, params) ==
  LET identity == SelectSeq(KeyParams[api], LAMBDA e : e.key # Now) IN
  <<api, IF KeyParams[api] = <<>> THEN <<n, made, params>>
         ELSE IF identity = <<>> THEN <<build>>
         ELSE [i \in DOMAIN identity |-> params[identity[i].key]]>>

\* Faulty variant: a second parameter set with the same job_id is a duplicate.
AmbiguousWithJobs(new) ==
  \E p \in new, j \in jobs : p.id = j.id /\ p.params # j.params

Ambiguous(new) ==
  \/ \E p, q \in new : p.id = q.id /\ p.params # q.params
  \/ \E p \in new, j \in jobs : p.id = j.id /\ p.params # j.params

\* A key parameter that no axis brings.
KeyMissing(api, params) ==
  \E i \in DOMAIN KeyParams[api] :
    LET key == KeyParams[api][i].key IN key # Now /\ key \notin DOMAIN params

\* An axis without rows, a row too short, a missing key and an ambiguous one
\* raise, and nothing of the builder is kept.
Build(build) ==
  LET b == Builders[build]
      queries == {b.axes[i].query : i \in {k \in DOMAIN b.axes : b.axes[k].from = "db"}} IN
  /\ n \in BuildDays /\ minute = 0 /\ made < Generations
  /\ \E answers \in [queries -> UNION {Answers[q] : q \in queries}] :
       LET axes   == [i \in DOMAIN b.axes |-> Axis(b.axes[i], answers)]
           combos == Product(axes)
           new    == {[id |-> JobId(build, b.api, Merged(c)), params |-> Merged(c)] : c \in combos}
           old    == {j.id : j \in jobs}
           kept   == {CHOOSE p \in new : p.id = i : i \in {p.id : p \in new} \ old} IN
       /\ \A q \in queries : answers[q] \in Answers[q]
       /\ IF \/ \E i \in DOMAIN b.axes : AxisRaises(b.axes[i], answers)
             \/ \E c \in combos : KeyMissing(b.api, Merged(c))
             \/ Ambiguous(new)
          THEN built' = NoBuild /\ UNCHANGED <<jobs, met>>
          ELSE /\ jobs' = jobs \cup kept
               /\ met' = met \cup {p.id : p \in new}
               /\ built' = [api |-> b.api, combos |-> combos]
  /\ made' = made + 1
  /\ saved' = NoRows
  /\ UNCHANGED calendar

-----------------------------------------------------------------------------
(* _execute_job's key_params, and run_and_save. *)

\* What the job stamps on its rows: its key parameters under their columns.
Stamp(job) ==
  FoldLeft(LAMBDA stamp, e :
             IF e.column # NoColumn /\ e.key # Now /\ e.key \in DOMAIN job.params
             THEN Put(stamp, <<Key(e.column), job.params[e.key]>>) ELSE stamp,
           <<>>, KeyParams[job.id[1]])

\* A row without a required value fails the job, and the whole reply with it.
Execute(job) ==
  /\ n \in RunDays /\ minute = 0 /\ saved = NoRows
  /\ \E r \in Replies, order \in UNION {Validators[m] : m \in DOMAIN Validators} :
       LET records == Parse(r.doc, r.spec)
           rows == [i \in DOMAIN records |->
                     Columns(Row(records[i], Stamp(job), order), Fields)]
           fails == \E i \in DOMAIN rows : \E c \in Required : rows[i][c] = Nothing IN
       /\ order \in Validators[r.model]
       /\ saved' = IF fails THEN NoRows
                   ELSE [table |-> r.table, stamp |-> Stamp(job), rows |-> rows]
  /\ built' = NoBuild
  /\ UNCHANGED <<calendar, jobs, met, made>>

Next ==
  \/ Minute
  \/ NextDay
  \/ \E b \in DOMAIN Builders : Build(b)
  \/ \E j \in jobs : Execute(j)

Spec == Init /\ [][Next]_vars

-----------------------------------------------------------------------------
(* What the generation promises. *)

\* Every keyword means the day that was walked through, over the ends of
\* months and years, February in both kinds of year, and weekends: yesterday
\* was the day before, last_bday the last weekday gone by, last_eom the last
\* end of a month, last_month and last_yymm the month that ended with it
\* (job_builder.py:117-218).
MeansTheDay ==
  LET clipped == [past.eom EXCEPT !.d = IF @ < date.d THEN @ ELSE date.d] IN
  /\ ResolveDate("today", date) = date
  /\ ResolveDate("yesterday", date) = past.day
  /\ ResolveDate("last_bday", date) = past.bday
  /\ ResolveDate("last_eom", date) = past.eom
  /\ ResolveDate("last_month", date) = clipped
  /\ ResolveDate("last_yymm", date) = [clipped EXCEPT !.d = 0]

\* An execution at any time in a slot is stamped with the slot's beginning, the
\* same for every shard of a cycle, whatever the number of units and wherever
\* hours, days and weeks turn (job_builder.py:156-196).
OnTheGrid ==
  \A c \in Cycles : Floor(Moment(Ordinal(date), minute), c) = slot[c]

\* After a generation that did not raise, every combination of the axes' values
\* has a job of its own, with its own values, and no two jobs share an id: a
\* combination is never taken for the duplicate of another
\* (job_builder.py:264-297, 394-462).
EachCombinationHasItsJob ==
  /\ \A c \in built.combos :
       \E j \in jobs :
         /\ j.id[1] = built.api
         /\ \A i \in DOMAIN c : \A k \in DOMAIN c[i] :
              (\A m \in DOMAIN c : m > i => k \notin DOMAIN c[m]) => j.params[k] = c[i][k]
  /\ \A j, k \in jobs : j.id = k.id => j = k

\* What a column of the result table should hold for a row of the source's.
Meant(row, c, stamp) ==
  LET v == IF c \in DOMAIN row THEN row[c] ELSE Get(stamp, Key(c)) IN
  IF v \in {Blank, Dash} THEN Nothing
  ELSE IF "day" \in DOMAIN v /\ v.style # "short" THEN [v EXCEPT !.style = "plain"] ELSE v

\* Whatever a table is wrapped in, whichever way its columns are spelled and in
\* whichever order the validators run, the rows saved are the source's rows in
\* the source's order: its own dates, put into one form, before the job's, the
\* job's where it sends none (base.py:62-98, 325-344, dynamic.py:234-344,
\* 590-804, models.py:721-764, 2564-2594).
RowsAsMeant ==
  saved # NoRows =>
    saved.rows = [i \in DOMAIN saved.table |->
                   [c \in Fields |-> Meant(saved.table[i], c, saved.stamp)]]
=============================================================================
