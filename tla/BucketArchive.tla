---------------------------- MODULE BucketArchive ----------------------------
(***************************************************************************)
(* How one result table's rows move to the bucket, and leave the database: *)
(* sp_export_parquet (a day at a time, every evening), sp_export_bulk (a   *)
(* range in one file, by hand) and sp_archive_exported (a month, on the    *)
(* 1st), with an interruption possible between any two of their steps.     *)
(*                                                                         *)
(* The bucket is read through the external table xt_<target>, which sees   *)
(* every object one folder down: <day>/, _bulk/ and _arch/ alike.          *)
(***************************************************************************)
EXTENDS Integers, FiniteSets

CONSTANTS
  Rows,      \* the rows the collectors will have inserted in the end
  Days,      \* trading days, as consecutive integers
  Months,
  DayOf,     \* the row's day column (fn_export_day_col)
  MonthOf,   \* day -> its month
  Batch,     \* c_batch
  CrashAt,   \* steps a procedure may be interrupted at: killed, or an error
             \* of the object store or the database ends the call
  Backfill,  \* whether rows of a month already archived may still arrive
  BulkRanges, \* the ranges somebody may export in bulk
  Unreadable \* months whose _arch objects the external table may fail to read

ExportStep  == {"count", "writeDay"}
BulkStep    == {"dropBulk", "foldBulk"}
ArchiveStep == {"dropArch", "writeArch", "readable", "foldArch", "delete"}
Step        == ExportStep \cup BulkStep \cup ArchiveStep
NoMonth     == 0

ASSUME ArchiveAssumption ==
  /\ IsFiniteSet(Rows) /\ IsFiniteSet(Days) /\ IsFiniteSet(Months)
  /\ Days \subseteq Int
  /\ DayOf \in [Rows -> Days]
  /\ MonthOf \in [Days -> Months]
  /\ Batch \in Nat \ {0}
  /\ CrashAt \subseteq Step
  /\ NoMonth \notin Months
  /\ Backfill \in BOOLEAN
  /\ BulkRanges \subseteq Days \X Days
  /\ Unreadable \subseteq Months

VARIABLES
  db,        \* committed rows of the table
  dayFile,   \* day -> the rows of the objects under <target>/<day>/
  archFile,  \* month -> the rows of the objects _arch/<month>_part...
  bulk,      \* the objects under _bulk/: the range in their name, their rows
  \* ---- the procedure call in progress ----
  at,        \* the step it is about to take
  span,      \* the days it has still to visit, or its range
  month,     \* v_month
  src,       \* v_src
  seen,      \* v_days, the days the source had rows for
  xt,        \* v_xt
  \* ---- history ----
  collected, \* every row ever inserted
  cleared    \* months the archive has begun to delete

bucket == <<dayFile, archFile, bulk>>
local  == <<span, month, src, seen, xt>>
vars   == <<db, dayFile, archFile, bulk, at, span, month, src, seen, xt,
            collected, cleared>>

NoBulk == [span |-> {}, rows |-> {}]

Init ==
  /\ db = {}
  /\ dayFile = [d \in Days |-> {}]
  /\ archFile = [m \in Months |-> {}]
  /\ bulk = NoBulk
  /\ at = "idle"
  /\ span = {}
  /\ month = NoMonth
  /\ src = 0
  /\ seen = {}
  /\ xt = 0
  /\ collected = {}
  /\ cleared = {}

InDays(D)   == {x \in db : DayOf[x] \in D}
DaysOf(m)   == {d \in Days : MonthOf[d] = m}
Between(f, t) == {d \in Days : f <= d /\ d <= t}

\* What the external table reads, one element for each copy of a row.
Read ==
  {c \in {"day"} \X Days \X Rows : c[3] \in dayFile[c[2]]}
    \cup {c \in {"arch"} \X Months \X Rows : c[3] \in archFile[c[2]]}
    \cup {"bulk"} \X {0} \X bulk.rows

Copies(x)  == Cardinality({c \in Read : c[3] = x})
XtCount(D) == Cardinality({c \in Read : DayOf[c[3]] \in D})

\* The call is over, and its variables with it.
Return ==
  /\ at' = "idle"
  /\ span' = {}
  /\ month' = NoMonth
  /\ src' = 0
  /\ seen' = {}
  /\ xt' = 0

-----------------------------------------------------------------------------
\* A collector commits a row.  Nothing collects last month's rows at 04:00 on
\* the 1st, while the archive is at work on them.
Collect(x) ==
  /\ x \notin collected
  /\ MonthOf[DayOf[x]] # month
  /\ MonthOf[DayOf[x]] \in cleared => Backfill
  /\ db' = db \cup {x}
  /\ collected' = collected \cup {x}
  /\ UNCHANGED <<bucket, at, local, cleared>>

-----------------------------------------------------------------------------
(* sp_export_parquet(p_from, p_to) *)

\* Faulty variant: the ends of the range do not count.
OverlapsInside(f, t) == \E d \in bulk.span : f < d /\ d < t

Overlaps(f, t) == bulk.span \cap Between(f, t) # {}

StartExport(f, t) ==
  /\ at = "idle"
  /\ f <= t
  /\ ~Overlaps(f, t)
  /\ at' = "count"
  /\ span' = Between(f, t)
  /\ UNCHANGED <<db, bucket, month, src, seen, xt, collected, cleared>>

Today == CHOOSE d \in span : \A e \in span : d <= e

NextDay ==
  \/ /\ span = {Today}
     /\ Return
  \/ /\ span # {Today}
     /\ span' = span \ {Today}
     /\ at' = "count"
     /\ UNCHANGED <<month, src, seen, xt>>

\* A day without rows is left alone, the objects it may have included.
SkipDay ==
  /\ at = "count"
  /\ InDays({Today}) = {}
  /\ NextDay
  /\ UNCHANGED <<db, bucket, collected, cleared>>

DropDay ==
  /\ at = "count"
  /\ InDays({Today}) # {}
  /\ dayFile' = [dayFile EXCEPT ![Today] = {}]
  /\ at' = "writeDay"
  /\ UNCHANGED <<db, archFile, bulk, local, collected, cleared>>

WriteDay ==
  /\ at = "writeDay"
  /\ dayFile' = [dayFile EXCEPT ![Today] = InDays({Today})]
  /\ NextDay
  /\ UNCHANGED <<db, archFile, bulk, collected, cleared>>

-----------------------------------------------------------------------------
(* sp_export_bulk(p_from, p_to) *)

StartBulk(f, t) ==
  /\ at = "idle"
  /\ <<f, t>> \in BulkRanges
  /\ f <= t
  /\ InDays(Between(f, t)) # {}
  /\ at' = "dropBulk"
  /\ span' = Between(f, t)
  /\ UNCHANGED <<db, bucket, month, src, seen, xt, collected, cleared>>

DropBulk ==
  /\ at = "dropBulk"
  /\ bulk' = NoBulk
  /\ at' = "foldBulk"
  /\ UNCHANGED <<db, dayFile, archFile, local, collected, cleared>>

\* The day folders of D go one object after the other.
FoldDay(D) ==
  \E d \in D : dayFile[d] # {} /\ dayFile' = [dayFile EXCEPT ![d] = {}]

Folded(D) == \A d \in D : dayFile[d] = {}

FoldIntoBulk ==
  /\ at = "foldBulk"
  /\ FoldDay(span)
  /\ UNCHANGED <<db, archFile, bulk, at, local, collected, cleared>>

WriteBulk ==
  /\ at = "foldBulk"
  /\ Folded(span)
  /\ bulk' = [span |-> span, rows |-> InDays(span)]
  /\ Return
  /\ UNCHANGED <<db, dayFile, archFile, collected, cleared>>

-----------------------------------------------------------------------------
(* sp_archive_exported(p_month) *)

\* A month without rows in the table is skipped, its _arch untouched.
StartArchive(m) ==
  /\ at = "idle"
  /\ InDays(DaysOf(m)) # {}
  /\ at' = "dropArch"
  /\ month' = m
  /\ src' = Cardinality(InDays(DaysOf(m)))
  /\ seen' = {DayOf[x] : x \in InDays(DaysOf(m))}
  /\ UNCHANGED <<db, bucket, span, xt, collected, cleared>>

DropArch ==
  /\ at = "dropArch"
  /\ archFile' = [archFile EXCEPT ![month] = {}]
  /\ at' = "writeArch"
  /\ UNCHANGED <<db, dayFile, bulk, local, collected, cleared>>

\* archFile is what can be read back: an object written is not yet one read.
WriteArch ==
  /\ at = "writeArch"
  /\ \/ archFile' = [archFile EXCEPT ![month] = InDays(DaysOf(month))]
     \/ month \in Unreadable /\ UNCHANGED archFile
  /\ at' = "readable"
  /\ UNCHANGED <<db, dayFile, bulk, local, collected, cleared>>

\* -20010 ends the call if the external table reads fewer rows.
CheckReadable ==
  /\ at = "readable"
  /\ \/ /\ XtCount(seen) < src
        /\ Return
     \/ /\ XtCount(seen) >= src
        /\ xt' = XtCount(seen)
        /\ at' = "foldArch"
        /\ UNCHANGED <<span, month, src, seen>>
  /\ UNCHANGED <<db, bucket, collected, cleared>>

FoldIntoArch ==
  /\ at = "foldArch"
  /\ FoldDay(DaysOf(month))
  /\ UNCHANGED <<db, archFile, bulk, at, local, collected, cleared>>

\* Faulty variant: the count from before the folding.
CheckStale ==
  /\ at = "foldArch"
  /\ Folded(DaysOf(month))
  /\ \/ xt # src /\ Return
     \/ xt = src /\ at' = "delete" /\ UNCHANGED local
  /\ UNCHANGED <<db, bucket, collected, cleared>>

\* Counted again after the folding; -20011 ends the call unless the numbers are the same.
CheckSame ==
  /\ at = "foldArch"
  /\ Folded(DaysOf(month))
  /\ \/ /\ XtCount(seen) # src
        /\ Return
     \/ /\ XtCount(seen) = src
        /\ xt' = src
        /\ at' = "delete"
        /\ UNCHANGED <<span, month, src, seen>>
  /\ UNCHANGED <<db, bucket, collected, cleared>>

\* One DELETE of at most Batch rows, and its COMMIT.
DeleteBatch ==
  /\ at = "delete"
  /\ \E X \in SUBSET InDays(DaysOf(month)) :
       /\ X # {}
       /\ \/ Cardinality(X) = Batch
          \/ Cardinality(X) < Batch /\ X = InDays(DaysOf(month))
       /\ db' = db \ X
  /\ cleared' = cleared \cup {month}
  /\ UNCHANGED <<bucket, at, local, collected>>

EndArchive ==
  /\ at = "delete"
  /\ InDays(DaysOf(month)) = {}
  /\ Return
  /\ UNCHANGED <<db, bucket, collected, cleared>>

-----------------------------------------------------------------------------
\* The call ends here; what it has written or deleted stays as it is.
Interrupt ==
  /\ at \in CrashAt
  /\ Return
  /\ UNCHANGED <<db, bucket, collected, cleared>>

Next ==
  \/ \E x \in Rows : Collect(x)
  \/ \E f, t \in Days : StartExport(f, t) \/ StartBulk(f, t)
  \/ SkipDay \/ DropDay \/ WriteDay
  \/ DropBulk \/ FoldIntoBulk \/ WriteBulk
  \/ \E m \in Months : StartArchive(m)
  \/ DropArch \/ WriteArch \/ CheckReadable \/ FoldIntoArch \/ CheckSame
  \/ DeleteBatch \/ EndArchive
  \/ Interrupt

Spec == Init /\ [][Next]_vars

-----------------------------------------------------------------------------
(* Properties *)

\* A collected row is in the table or in the bucket,
\* whatever was interrupted and called again.
NothingLost == \A x \in collected \ db : Copies(x) > 0

\* A row the table no longer holds is read from the bucket exactly once: the
\* archive deletes only what it has seen to be readable and not doubled, and
\* no later export takes that copy away or adds another.
ArchivedReadOnce == \A x \in collected \ db : Copies(x) = 1

\* No day is in the bulk file and in a day folder, where a reader would count
\* it twice: the exports refuse to overlap or fold, at every moment.
DayOrBulk ==
  \A d \in bulk.span : dayFile[d] = {}
=============================================================================
