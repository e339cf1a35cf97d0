------------------------- MODULE BucketArchiveProofs -------------------------
(***************************************************************************)
(* Theorems about BucketArchive, for any rows, days, months and ranges.    *)
(***************************************************************************)
EXTENDS BucketArchive, FiniteSetTheorems, TLAPS

TypeOK ==
  /\ db \subseteq collected
  /\ collected \subseteq Rows
  /\ dayFile \in [Days -> SUBSET Rows]
  /\ archFile \in [Months -> SUBSET Rows]
  /\ bulk \in [span : SUBSET Days, rows : SUBSET Rows]
  /\ at \in Step \cup {"idle"}
  /\ span \subseteq Days
  /\ month \in Months \cup {NoMonth}
  /\ at \in ArchiveStep => month \in Months
  /\ cleared \subseteq Months

\* What a call has still to do: an export has a day left and none that the bulk
\* file covers, a bulk export one of the ranges, whose old file is gone when it
\* folds.
Calls ==
  /\ at \in ExportStep => span # {} /\ span \cap bulk.span = {}
  /\ at \in BulkStep => \E r \in BulkRanges : span = Between(r[1], r[2])
  /\ at = "foldBulk" => bulk = NoBulk

-----------------------------------------------------------------------------
(* Sets of days and of rows. *)

\* The day an export is at is one of those it has left.
LEMMA TodayIsLeft ==
  ASSUME span \subseteq Days, span # {}
  PROVE  Today \in span
  <1> DEFINE Upto(d) == {e \in span : e <= d}
             T == {Upto(d) : d \in span}
             L == StrictSubsetOrdering(span)
  <1>1. span \subseteq Int /\ IsFiniteSet(span)
    BY ArchiveAssumption, FS_Subset DEF ArchiveAssumption
  <1>2. T \subseteq FiniteSubsetsOf(span) /\ T # {}
    <2>1. FiniteSubsetsOf(span) = SUBSET span
      BY <1>1, FS_FiniteSubsetsOfFinite
    <2>2. T \subseteq SUBSET span
      OBVIOUS
    <2>3. T # {}
      OBVIOUS
    <2> HIDE DEF T
    <2> QED BY <2>1, <2>2, <2>3
  <1>3. IsWellFoundedOn(L, FiniteSubsetsOf(span))
    BY FS_StrictSubsetOrderingWellFounded
  <1>4. PICK U \in T : \A V \in T : <<V, U>> \notin L
    <2> HIDE DEF T, L
    <2> QED BY <1>2, <1>3, WFMin
  <1>5. PICK d \in span : U = Upto(d)
    OBVIOUS
  <1>6. ASSUME NEW e \in span, e < d PROVE FALSE
    <2>1. d \in Int /\ e \in Int
      BY <1>1
    <2>2. d \in Upto(d) /\ d \notin Upto(e)
      BY <1>6, <2>1
    <2>3. \A x \in span : x <= e => x <= d
      BY <1>1, <1>6, <2>1
    <2>4. Upto(e) \subseteq Upto(d) /\ Upto(e) # Upto(d)
      BY <2>2, <2>3
    <2>5. <<Upto(e), Upto(d)>> \in L
      BY <2>4 DEF StrictSubsetOrdering
    <2> QED BY <1>4, <1>5, <2>5
  <1>7. \A e \in span : d <= e
    BY <1>1, <1>6
  <1> QED BY <1>7 DEF Today

LEMMA RowDays == \A x \in Rows : DayOf[x] \in Days /\ MonthOf[DayOf[x]] \in Months
  BY ArchiveAssumption DEF ArchiveAssumption

LEMMA MonthDays ==
  ASSUME NEW x \in Rows, NEW m \in Months
  PROVE  DayOf[x] \in DaysOf(m) <=> MonthOf[DayOf[x]] = m
  BY RowDays DEF DaysOf

-----------------------------------------------------------------------------
(* Types, and the calls. *)

LEMMA ReturnType ==
  ASSUME Return
  PROVE  at' = "idle" /\ span' = {} /\ month' = NoMonth
  BY DEF Return

LEMMA NextDayType ==
  ASSUME NextDay, span # {}
  PROVE  /\ at' \in {"idle", "count"} /\ span' \subseteq span
         /\ month' \in {month, NoMonth}
         /\ at' = "count" => span' # {}
  BY DEF NextDay, Return

LEMMA TypeStep == TypeOK /\ Calls /\ [Next]_vars => TypeOK'
  <1> SUFFICES ASSUME TypeOK, Calls, [Next]_vars PROVE TypeOK'
    OBVIOUS
  <1> USE DEF Step, ExportStep, BulkStep, ArchiveStep
  <1>1. ASSUME NEW x \in Rows, Collect(x) PROVE TypeOK'
    BY <1>1 DEF Collect, TypeOK, bucket, local
  <1>2. ASSUME NEW f \in Days, NEW t \in Days, StartExport(f, t) \/ StartBulk(f, t) PROVE TypeOK'
    BY <1>2 DEF StartExport, StartBulk, Between, TypeOK, bucket
  <1>3. CASE SkipDay
    BY <1>3, NextDayType DEF SkipDay, Calls, TypeOK, bucket
  <1>4. CASE DropDay
    BY <1>4 DEF DropDay, TypeOK, local
  <1>5. CASE WriteDay
    <2>1. dayFile' \in [Days -> SUBSET Rows]
      BY <1>5 DEF WriteDay, InDays, TypeOK
    <2> QED BY <1>5, <2>1, NextDayType DEF WriteDay, Calls, TypeOK
  <1>6. CASE DropBulk
    BY <1>6 DEF DropBulk, NoBulk, TypeOK, local
  <1>7. ASSUME NEW D, FoldDay(D) PROVE dayFile' \in [Days -> SUBSET Rows]
    BY <1>7 DEF FoldDay, TypeOK
  <1>8. CASE FoldIntoBulk
    BY <1>7, <1>8 DEF FoldIntoBulk, TypeOK, local
  <1>9. CASE WriteBulk
    BY <1>9, ReturnType DEF WriteBulk, InDays, TypeOK
  <1>10. ASSUME NEW m \in Months, StartArchive(m) PROVE TypeOK'
    BY <1>10 DEF StartArchive, TypeOK, bucket
  <1>11. CASE DropArch
    BY <1>11 DEF DropArch, TypeOK, local
  <1>12. CASE WriteArch
    <2>1. archFile' \in [Months -> SUBSET Rows]
      BY <1>12 DEF WriteArch, InDays, TypeOK
    <2> QED BY <1>12, <2>1 DEF WriteArch, TypeOK, local
  <1>13. CASE CheckReadable
    BY <1>13, ReturnType DEF CheckReadable, TypeOK, bucket
  <1>14. CASE FoldIntoArch
    BY <1>7, <1>14 DEF FoldIntoArch, TypeOK, local
  <1>15. CASE CheckSame
    BY <1>15, ReturnType DEF CheckSame, TypeOK, bucket
  <1>16. CASE DeleteBatch
    BY <1>16 DEF DeleteBatch, TypeOK, bucket, local
  <1>17. CASE EndArchive
    BY <1>17, ReturnType DEF EndArchive, TypeOK, bucket
  <1>18. CASE Interrupt
    BY <1>18, ReturnType DEF Interrupt, TypeOK, bucket
  <1>19. CASE UNCHANGED vars
    BY <1>19 DEF vars, TypeOK
  <1> QED
    BY <1>1, <1>2, <1>3, <1>4, <1>5, <1>6, <1>8, <1>9, <1>10, <1>11, <1>12, <1>13,
       <1>14, <1>15, <1>16, <1>17, <1>18, <1>19 DEF Next

LEMMA CallsStep == TypeOK /\ Calls /\ [Next]_vars => Calls'
  <1> SUFFICES ASSUME TypeOK, Calls, [Next]_vars PROVE Calls'
    OBVIOUS
  <1> USE DEF ExportStep, BulkStep
  <1>1. ASSUME NEW f \in Days, NEW t \in Days, StartExport(f, t) PROVE Calls'
    <2>1. f \in Between(f, t)
      BY <1>1, ArchiveAssumption DEF ArchiveAssumption, StartExport, Between
    <2> QED BY <1>1, <2>1 DEF StartExport, Overlaps, Calls, bucket
  <1>2. ASSUME NEW f \in Days, NEW t \in Days, StartBulk(f, t) PROVE Calls'
    <2>1. span' = Between(<<f, t>>[1], <<f, t>>[2]) /\ <<f, t>> \in BulkRanges
      BY <1>2 DEF StartBulk
    <2> QED BY <1>2, <2>1 DEF StartBulk, Calls
  <1>3. CASE SkipDay \/ WriteDay
    <2>1. at' \in {"idle", "count"} /\ span' \subseteq span /\ (at' = "count" => span' # {})
      BY <1>3, NextDayType DEF SkipDay, WriteDay, Calls, TypeOK
    <2>2. bulk' = bulk /\ span \cap bulk.span = {}
      BY <1>3 DEF SkipDay, WriteDay, Calls, bucket
    <2> QED BY <2>1, <2>2 DEF Calls
  <1>4. CASE DropDay
    BY <1>4 DEF DropDay, Calls, local
  <1>5. CASE DropBulk
    BY <1>5 DEF DropBulk, Calls, local
  <1>6. ASSUME at' \in {"idle"} \cup ArchiveStep PROVE Calls'
    BY <1>6 DEF Calls, ArchiveStep
  <1>7. CASE \/ WriteBulk \/ DropArch \/ WriteArch \/ CheckReadable \/ CheckSame
             \/ EndArchive \/ Interrupt \/ \E m \in Months : StartArchive(m)
    BY <1>6, <1>7, ReturnType
    DEF WriteBulk, DropArch, WriteArch, CheckReadable, CheckSame, EndArchive, Interrupt,
        StartArchive, ArchiveStep
  <1>8. ASSUME UNCHANGED <<at, span, bulk>> PROVE Calls'
    BY <1>8 DEF Calls
  <1>9. CASE \/ FoldIntoBulk \/ FoldIntoArch \/ DeleteBatch \/ UNCHANGED vars
             \/ \E x \in Rows : Collect(x)
    BY <1>8, <1>9 DEF FoldIntoBulk, FoldIntoArch, DeleteBatch, vars, Collect, local, bucket
  <1> QED BY <1>1, <1>2, <1>3, <1>4, <1>5, <1>7, <1>9 DEF Next
LEMMA CallsInit == Init => TypeOK /\ Calls
  BY ArchiveAssumption
  DEF ArchiveAssumption, Init, TypeOK, Calls, NoBulk, Step, ExportStep, BulkStep, ArchiveStep

LEMMA DayOrBulkStep == TypeOK /\ Calls /\ DayOrBulk /\ [Next]_vars => DayOrBulk'
  <1> SUFFICES ASSUME TypeOK, Calls, DayOrBulk, [Next]_vars PROVE DayOrBulk'
    OBVIOUS
  <1>1. bulk.span \subseteq Days
    BY DEF TypeOK
  <1>2. ASSUME bulk' = bulk, \A d \in bulk.span : dayFile'[d] \in {dayFile[d], {}}
        PROVE  DayOrBulk'
    BY <1>2 DEF DayOrBulk
  <1>3. CASE DropDay
    BY <1>1, <1>2, <1>3 DEF DropDay, TypeOK
  <1>4. CASE WriteDay
    <2>1. Today \notin bulk.span
      BY <1>4, TodayIsLeft DEF WriteDay, ExportStep, Calls, TypeOK
    <2> QED BY <1>1, <1>2, <1>4, <2>1 DEF WriteDay, TypeOK
  <1>5. CASE FoldIntoBulk \/ FoldIntoArch
    BY <1>1, <1>2, <1>5 DEF FoldIntoBulk, FoldIntoArch, FoldDay, TypeOK
  <1>6. CASE DropBulk
    BY <1>6 DEF DropBulk, NoBulk, DayOrBulk
  <1>7. CASE WriteBulk
    BY <1>7 DEF WriteBulk, Folded, DayOrBulk
  <1>8. ASSUME UNCHANGED <<dayFile, bulk>> PROVE DayOrBulk'
    BY <1>8 DEF DayOrBulk
  <1> QED
    BY <1>3, <1>4, <1>5, <1>6, <1>7, <1>8
    DEF Next, vars, bucket, Collect, StartExport, StartBulk, SkipDay, StartArchive, DropArch,
        WriteArch, CheckReadable, CheckSame, DeleteBatch, EndArchive, Interrupt

\* No day is in the bulk file and in a day folder at any moment, whatever is
\* interrupted where: sp_export_parquet refuses to overlap the bulk file, and
\* sp_export_bulk folds the folders of its range before it writes.
THEOREM NeverTwice == Spec => []DayOrBulk
  <1>1. Init => DayOrBulk
    BY DEF Init, NoBulk, DayOrBulk
  <1> QED BY <1>1, CallsInit, TypeStep, CallsStep, DayOrBulkStep, PTL DEF Spec

-----------------------------------------------------------------------------
(* What has left the table. *)

\* No call is ended inside the batched delete, nothing arrives for a month that
\* is archived, and no bulk file covers days of a month whose _arch objects the
\* external table cannot read.
Undisturbed ==
  /\ "delete" \notin CrashAt
  /\ ~Backfill
  /\ \A r \in BulkRanges : \A d \in Between(r[1], r[2]) : MonthOf[d] \notin Unreadable

\* Every object holds rows of its own days.
Placed ==
  /\ \A d \in Days : \A x \in dayFile[d] : DayOf[x] = d
  /\ \A m \in Months : \A x \in archFile[m] : MonthOf[DayOf[x]] = m
  /\ \A x \in bulk.rows : DayOf[x] \in bulk.span
  /\ bulk.span # {} => \E r \in BulkRanges : bulk.span = Between(r[1], r[2])

\* What the archive has counted is still so, and its file is what it has read.
Counted ==
  /\ at \in {"dropArch", "writeArch", "readable", "foldArch"} =>
       LET S == InDays(DaysOf(month)) IN
       S # {} /\ src = Cardinality(S) /\ seen = {DayOf[x] : x \in S}
  /\ at = "writeArch" => archFile[month] = {}
  /\ at \in {"readable", "foldArch"} =>
       \/ archFile[month] = InDays(DaysOf(month))
       \/ month \in Unreadable /\ archFile[month] = {}

\* A row that has left the table belongs to a month whose delete has begun, and
\* one that has begun is under way or has left nothing.
Emptied ==
  /\ \A x \in collected \ db : MonthOf[DayOf[x]] \in cleared
  /\ \A m \in cleared : InDays(DaysOf(m)) = {} \/ (at = "delete" /\ month = m)

\* It is in the archive alone; so is already what the delete has still to take.
Leaving  == IF at = "delete" THEN InDays(DaysOf(month)) ELSE {}
Archived ==
  \A x \in (collected \ db) \cup Leaving :
    x \in archFile[MonthOf[DayOf[x]]] /\ x \notin bulk.rows /\ x \notin dayFile[DayOf[x]]

AInv == TypeOK /\ Calls /\ Placed /\ Counted /\ Emptied /\ Archived

LEMMA ReadIsFinite == ASSUME TypeOK PROVE IsFiniteSet(Read)
  <1> DEFINE A == {"day", "arch", "bulk"}
             B == Days \cup Months \cup {0}
             P == (A \X B) \X Rows
             Q == A \X B \X Rows
             f == [p \in P |-> <<p[1][1], p[1][2], p[2]>>]
  <1>1. IsFiniteSet(A)
    <2>1. A = ({"day"} \cup {"arch"}) \cup {"bulk"}
      OBVIOUS
    <2>2. IsFiniteSet({"day"} \cup {"arch"})
      BY FS_Singleton, FS_Union
    <2>3. IsFiniteSet(({"day"} \cup {"arch"}) \cup {"bulk"})
      BY <2>2, FS_Singleton, FS_Union
    <2> QED BY <2>1, <2>3
  <1>2. IsFiniteSet(B)
    <2>1. IsFiniteSet(Days \cup Months) /\ IsFiniteSet({0})
      BY ArchiveAssumption, FS_Union, FS_Singleton DEF ArchiveAssumption
    <2> QED BY <2>1, FS_Union
  <1>3. IsFiniteSet(P)
    <2> HIDE DEF A, B
    <2>1. IsFiniteSet(A \X B)
      BY <1>1, <1>2, FS_Product
    <2> QED BY <2>1, ArchiveAssumption, FS_Product DEF ArchiveAssumption
  <1>4. f \in Surjection(P, Q)
    <2> HIDE DEF A, B
    <2>1. f \in [P -> Q]
      OBVIOUS
    <2>2. ASSUME NEW q \in Q PROVE \E p \in P : f[p] = q
      <3>1. q[1] \in A /\ q[2] \in B /\ q[3] \in Rows /\ q = <<q[1], q[2], q[3]>>
        BY <2>2
      <3> DEFINE p == <<<<q[1], q[2]>>, q[3]>>
      <3>2. p \in P /\ f[p] = q
        BY <3>1
      <3> QED BY <3>2
    <2> QED BY <2>1, <2>2 DEF Surjection
  <1>5. IsFiniteSet(Q)
    <2> HIDE DEF P, Q, f
    <2> QED BY <1>3, <1>4, FS_Surjection
  <1>6. Read \subseteq Q
    <2>1. bulk.rows \subseteq Rows
      BY DEF TypeOK
    <2> QED BY <2>1 DEF Read
  <1> HIDE DEF Q
  <1> QED BY <1>5, <1>6, FS_Subset

\* The count of CheckSame is the number of rows only if each is read from the
\* archive, and nowhere else.
LEMMA SameMeansOnce ==
  ASSUME Undisturbed, TypeOK, Placed, Counted, at = "foldArch", Folded(DaysOf(month)),
         XtCount(seen) = src
  PROVE  \A x \in InDays(DaysOf(month)) : x \in archFile[month] /\ x \notin bulk.rows
  <1> DEFINE S == InDays(DaysOf(month))
             Q == {c \in Read : DayOf[c[3]] \in seen}
             f == [x \in S |-> <<"arch", month, x>>]
             G == {<<"arch", month, x>> : x \in S}
  <1>1. /\ S # {} /\ S \subseteq Rows /\ month \in Months
        /\ src = Cardinality(S) /\ seen = {DayOf[x] : x \in S} /\ Cardinality(Q) = src
    BY DEF Counted, XtCount, TypeOK, ArchiveStep, InDays
  <1>2. IsFiniteSet(S) /\ IsFiniteSet(Q)
    BY <1>1, ReadIsFinite, FS_Subset, ArchiveAssumption DEF ArchiveAssumption
  <1>3. seen \subseteq DaysOf(month)
    BY <1>1 DEF InDays
  <1>4. CASE archFile[month] = S
    <2>1. f \in Bijection(S, G)
      <3>1. f \in [S -> G] /\ \A x \in S : f[x] = <<"arch", month, x>>
        OBVIOUS
      <3>2. \A g \in G : \E x \in S : f[x] = g
        BY <3>1
      <3>3. \A x, y \in S : f[x] = f[y] => x = y
        BY <3>1
      <3> HIDE DEF S, f, G
      <3> QED BY <3>1, <3>2, <3>3 DEF Bijection, Injection, IsInjective, Surjection
    <2>2. Cardinality(G) = Cardinality(S) /\ IsFiniteSet(G)
      <3> HIDE DEF S, f, G
      <3> QED BY <1>2, <2>1, FS_Bijection DEF ExistsBijection
    <2>3. G \subseteq Q
      BY <1>1, <1>4 DEF Read
    <2>4. Q = G
      <3> HIDE DEF Q, G, S
      <3> QED BY <1>1, <1>2, <2>2, <2>3, FS_Subset
    <2>5. ASSUME NEW x \in S, x \in bulk.rows PROVE FALSE
      <3>1. <<"bulk", 0, x>> \in Read
        BY <2>5 DEF Read
      <3>2. <<"bulk", 0, x>> \in Q
        BY <1>1, <3>1
      <3>3. <<"bulk", 0, x>> \notin G
        OBVIOUS
      <3> HIDE DEF Q, G
      <3> QED BY <2>4, <3>2, <3>3
    <2> QED BY <1>4, <2>5
  <1>5. CASE month \in Unreadable /\ archFile[month] = {}
    <2>1. ASSUME NEW c \in Q PROVE FALSE
      <3>1. c \in Read /\ DayOf[c[3]] \in DaysOf(month)
        BY <1>3
      <3>2. CASE c \in {"day"} \X Days \X Rows /\ c[3] \in dayFile[c[2]]
        BY <3>1, <3>2 DEF Placed, Folded
      <3>3. CASE c \in {"arch"} \X Months \X Rows /\ c[3] \in archFile[c[2]]
        BY <1>5, <3>1, <3>3 DEF Placed, DaysOf
      <3>4. CASE c \in {"bulk"} \X {0} \X bulk.rows
        <4>1. DayOf[c[3]] \in bulk.span
          BY <3>4 DEF Placed
        <4>2. MonthOf[DayOf[c[3]]] \notin Unreadable
          BY <4>1 DEF Placed, Undisturbed
        <4> QED BY <1>5, <3>1, <4>2 DEF DaysOf
      <3> QED BY <3>1, <3>2, <3>3, <3>4 DEF Read
    <2>2. Q = {}
      BY <2>1
    <2>3. Cardinality(S) = 0
      BY <1>1, <2>2, FS_EmptySet
    <2> HIDE DEF S
    <2> QED BY <1>1, <1>2, <2>3, FS_EmptySet
  <1> QED BY <1>4, <1>5 DEF Counted
LEMMA PlacedStep == AInv /\ [Next]_vars => Placed'
  <1> SUFFICES ASSUME TypeOK, Calls, Placed, [Next]_vars PROVE Placed'
    BY DEF AInv
  <1>1. /\ \/ dayFile' = dayFile
           \/ WriteDay
           \/ \A d \in Days : dayFile'[d] \in {dayFile[d], {}}
        /\ \/ archFile' = archFile
           \/ archFile' = [archFile EXCEPT ![month] = {}]
           \/ archFile' = [archFile EXCEPT ![month] = InDays(DaysOf(month))]
        /\ bulk' = bulk \/ bulk' = NoBulk \/ WriteBulk
    <2>1. ASSUME FoldIntoBulk \/ FoldIntoArch \/ DropDay
          PROVE  \A d \in Days : dayFile'[d] \in {dayFile[d], {}}
      BY <2>1 DEF FoldIntoBulk, FoldIntoArch, FoldDay, DropDay, TypeOK
    <2> QED
      BY <2>1
      DEF Next, vars, bucket, Collect, StartExport, StartBulk, SkipDay, DropDay, WriteDay,
          DropBulk, FoldIntoBulk, WriteBulk, StartArchive, DropArch, WriteArch, CheckReadable,
          FoldIntoArch, CheckSame, DeleteBatch, EndArchive, Interrupt
  <1>2. \A d \in Days : \A x \in dayFile'[d] : DayOf[x] = d
    <2>1. CASE WriteDay
      BY <2>1 DEF WriteDay, InDays, TypeOK, Placed
    <2> QED BY <1>1, <2>1 DEF Placed
  <1>3. \A m \in Months : \A x \in archFile'[m] : MonthOf[DayOf[x]] = m
    BY <1>1 DEF TypeOK, Placed, InDays, DaysOf
  <1>4. /\ \A x \in bulk'.rows : DayOf[x] \in bulk'.span
        /\ bulk'.span # {} => \E r \in BulkRanges : bulk'.span = Between(r[1], r[2])
    <2>1. CASE WriteBulk
      BY <2>1 DEF WriteBulk, InDays, BulkStep, Calls
    <2> QED BY <1>1, <2>1 DEF Placed, NoBulk
  <1> QED BY <1>2, <1>3, <1>4 DEF Placed

LEMMA CountedStep == AInv /\ [Next]_vars => Counted'
  <1> SUFFICES ASSUME AInv, [Next]_vars PROVE Counted'
    OBVIOUS
  <1>1. ASSUME at' \notin {"dropArch", "writeArch", "readable", "foldArch"} PROVE Counted'
    BY <1>1 DEF Counted
  <1>2. ASSUME NEW m \in Months, StartArchive(m) PROVE Counted'
    <2>1. /\ at' = "dropArch" /\ month' = m /\ db' = db
          /\ InDays(DaysOf(m)) # {} /\ src' = Cardinality(InDays(DaysOf(m)))
          /\ seen' = {DayOf[x] : x \in InDays(DaysOf(m))}
      BY <1>2 DEF StartArchive
    <2> QED BY <2>1 DEF Counted, InDays
  <1>3. CASE DropArch
    <2>1. /\ at = "dropArch" /\ at' = "writeArch" /\ UNCHANGED <<db, month, src, seen>>
          /\ archFile'[month] = {}
      BY <1>3 DEF DropArch, local, AInv, TypeOK, ArchiveStep
    <2> QED BY <2>1 DEF AInv, Counted, InDays
  <1>4. CASE WriteArch
    <2>1. /\ at = "writeArch" /\ at' = "readable" /\ UNCHANGED <<db, month, src, seen>>
      BY <1>4 DEF WriteArch, local
    <2>2. \/ archFile'[month] = InDays(DaysOf(month))
          \/ month \in Unreadable /\ archFile'[month] = {}
      BY <1>4, <2>1 DEF WriteArch, AInv, TypeOK, ArchiveStep, Counted
    <2> QED BY <2>1, <2>2 DEF AInv, Counted, InDays
  <1>5. CASE CheckReadable
    <2>1. CASE at' = "foldArch" /\ UNCHANGED <<month, src, seen>>
      BY <1>5, <2>1 DEF CheckReadable, bucket, AInv, Counted, InDays
    <2> QED BY <1>1, <1>5, <2>1, ReturnType DEF CheckReadable
  <1>6. CASE FoldIntoArch
    BY <1>6 DEF FoldIntoArch, local, AInv, Counted, InDays
  \* A row collected meanwhile is of another month.
  <1>7. ASSUME NEW x \in Rows, Collect(x) PROVE Counted'
    <2>1. CASE month \in Months
      <3>1. InDays(DaysOf(month))' = InDays(DaysOf(month))
        BY <1>7, <2>1, MonthDays DEF Collect, local, InDays, DaysOf
      <3> QED BY <1>7, <3>1 DEF Collect, bucket, local, AInv, Counted
    <2>2. CASE month \notin Months
      BY <1>1, <1>7, <2>2 DEF Collect, AInv, TypeOK, ArchiveStep
    <2> QED BY <2>1, <2>2
  <1>8. ASSUME UNCHANGED <<db, at, month, src, seen, archFile>> PROVE Counted'
    BY <1>8 DEF AInv, Counted, InDays
  <1>9. CASE SkipDay \/ WriteDay
    <2>1. at' \in {"idle", "count"}
      BY <1>9 DEF SkipDay, WriteDay, NextDay, Return
    <2> QED BY <1>1, <2>1
  <1>10. CASE \/ \E f, t \in Days : StartExport(f, t) \/ StartBulk(f, t)
             \/ DropDay \/ DropBulk \/ FoldIntoBulk \/ WriteBulk
    BY <1>1, <1>10, ReturnType
    DEF StartExport, StartBulk, DropDay, DropBulk, FoldIntoBulk, WriteBulk
  <1>11. CASE CheckSame \/ DeleteBatch \/ EndArchive \/ Interrupt
    BY <1>1, <1>11, ReturnType DEF CheckSame, DeleteBatch, EndArchive, Interrupt
  <1> QED
    BY <1>2, <1>3, <1>4, <1>5, <1>6, <1>7, <1>8, <1>9, <1>10, <1>11 DEF Next, vars

LEMMA EmptiedStep == ASSUME Undisturbed PROVE AInv /\ [Next]_vars => Emptied'
  <1> SUFFICES ASSUME AInv, [Next]_vars PROVE Emptied'
    OBVIOUS
  <1>1. ASSUME NEW x \in Rows, Collect(x) PROVE Emptied'
    <2>1. /\ x \notin collected /\ collected' = collected \cup {x} /\ db' = db \cup {x}
          /\ MonthOf[DayOf[x]] \notin cleared /\ UNCHANGED <<at, month, cleared>>
      BY <1>1 DEF Collect, local, Undisturbed
    <2>2. \A m \in cleared : InDays(DaysOf(m))' = InDays(DaysOf(m))
      BY <2>1, MonthDays DEF InDays, AInv, TypeOK
    <2> QED BY <2>1, <2>2 DEF AInv, Emptied
  <1>2. CASE DeleteBatch
    <2>1. PICK X \in SUBSET InDays(DaysOf(month)) : db' = db \ X
      BY <1>2 DEF DeleteBatch
    <2>2. /\ collected' = collected /\ cleared' = cleared \cup {month} /\ month' = month
          /\ at = "delete" /\ at' = at
      BY <1>2 DEF DeleteBatch, local
    <2>3. \A x \in X : MonthOf[DayOf[x]] = month
      BY DEF InDays, DaysOf
    <2>4. \A m \in cleared : InDays(DaysOf(m)) = {} => InDays(DaysOf(m))' = {}
      BY <2>1 DEF InDays
    <2> QED BY <2>1, <2>2, <2>3, <2>4 DEF AInv, Emptied
  <1>3. CASE EndArchive
    <2>1. InDays(DaysOf(month)) = {} /\ UNCHANGED <<db, collected, cleared>>
      BY <1>3 DEF EndArchive
    <2> QED BY <2>1 DEF AInv, Emptied, InDays
  <1>4. ASSUME at # "delete", UNCHANGED <<db, collected, cleared>> PROVE Emptied'
    BY <1>4 DEF AInv, Emptied, InDays
  <1>5. CASE UNCHANGED vars
    BY <1>5 DEF vars, AInv, Emptied, InDays
  <1>6. CASE Interrupt
    BY <1>4, <1>6 DEF Interrupt, Undisturbed
  <1> QED
    BY <1>1, <1>2, <1>3, <1>4, <1>5, <1>6
    DEF Next, StartExport, StartBulk, SkipDay, DropDay, WriteDay, DropBulk, FoldIntoBulk,
        WriteBulk, StartArchive, DropArch, WriteArch, CheckReadable, FoldIntoArch, CheckSame

LEMMA ArchivedStep == ASSUME Undisturbed PROVE AInv /\ [Next]_vars => Archived'
  <1> SUFFICES ASSUME AInv, [Next]_vars PROVE Archived'
    OBVIOUS
  <1> DEFINE Alone(x) == /\ x \in archFile[MonthOf[DayOf[x]]]
                         /\ x \notin bulk.rows /\ x \notin dayFile[DayOf[x]]
  <1>1. \A x \in (collected \ db) \cup Leaving :
          /\ Alone(x) /\ x \in Rows /\ DayOf[x] \in Days /\ MonthOf[DayOf[x]] \in Months
    BY RowDays DEF AInv, TypeOK, Archived, Leaving, InDays
  \* Nothing but the delete and the checks before it adds to these rows.
  <1>2. ASSUME (collected' \ db') \cup Leaving' \subseteq (collected \ db) \cup Leaving,
               \A x \in (collected \ db) \cup Leaving : Alone(x)'
        PROVE  Archived'
    BY <1>2 DEF Archived
  <1>3. ASSUME at' # "delete" PROVE Leaving' = {}
    BY <1>3 DEF Leaving
  <1>4. ASSUME at # "delete", at' # "delete", UNCHANGED <<db, collected>>,
               \A x \in collected \ db : Alone(x)'
        PROVE  Archived'
    BY <1>3, <1>4 DEF Archived
  <1>5. ASSUME NEW x \in Rows, Collect(x) PROVE Archived'
    <2>1. Leaving' = Leaving
      <3>1. CASE at = "delete"
        BY <1>5, <3>1, MonthDays DEF Collect, local, Leaving, InDays, DaysOf, AInv, TypeOK, ArchiveStep
      <3>2. CASE at # "delete"
        BY <1>5, <3>2 DEF Collect, Leaving
      <3> QED BY <3>1, <3>2
    <2>2. collected' \ db' \subseteq collected \ db /\ UNCHANGED <<archFile, bulk, dayFile>>
      BY <1>5 DEF Collect, bucket
    <2> QED BY <1>1, <1>2, <2>1, <2>2
  <1>6. ASSUME \A d \in Days : dayFile'[d] \subseteq dayFile[d], UNCHANGED <<archFile, bulk>>
        PROVE  \A x \in (collected \ db) \cup Leaving : Alone(x)'
    BY <1>1, <1>6
  <1>7. CASE \E f, t \in Days : StartExport(f, t) \/ StartBulk(f, t)
    BY <1>4, <1>6, <1>7 DEF StartExport, StartBulk, bucket
  <1>8. CASE SkipDay
    BY <1>4, <1>6, <1>8 DEF SkipDay, NextDay, Return, bucket
  <1>9. CASE DropDay
    <2>1. \A d \in Days : dayFile'[d] \subseteq dayFile[d]
      BY <1>9 DEF DropDay, AInv, TypeOK
    <2> QED BY <1>4, <1>6, <1>9, <2>1 DEF DropDay
  <1>10. CASE WriteDay
    <2>1. at = "writeDay" /\ at' # "delete" /\ UNCHANGED <<db, collected, archFile, bulk>>
      BY <1>10 DEF WriteDay, NextDay, Return
    <2>2. ASSUME NEW x \in collected \ db PROVE x \notin dayFile'[DayOf[x]]
      BY <1>1, <1>10, <2>2 DEF WriteDay, InDays, AInv, TypeOK
    <2> QED BY <1>1, <1>4, <2>1, <2>2
  <1>11. CASE DropBulk
    <2>1. \A x \in collected \ db : Alone(x)'
      BY <1>1, <1>11 DEF DropBulk, NoBulk
    <2> QED BY <1>4, <1>11, <2>1 DEF DropBulk
  <1>12. ASSUME NEW D, FoldDay(D) PROVE \A d \in Days : dayFile'[d] \subseteq dayFile[d]
    BY <1>12 DEF FoldDay, AInv, TypeOK
  <1>13. CASE FoldIntoBulk \/ FoldIntoArch
    BY <1>4, <1>6, <1>12, <1>13 DEF FoldIntoBulk, FoldIntoArch
  <1>14. CASE WriteBulk
    <2>1. \A x \in collected \ db : Alone(x)'
      BY <1>1, <1>14 DEF WriteBulk, InDays
    <2> QED BY <1>4, <1>14, <2>1, ReturnType DEF WriteBulk
  <1>15. CASE \E m \in Months : StartArchive(m)
    BY <1>4, <1>6, <1>15 DEF StartArchive, bucket
  \* The file that is dropped and written again is of a month that has lost no row.
  <1>16. CASE DropArch \/ WriteArch
    <2>1. /\ at # "delete" /\ at' # "delete" /\ UNCHANGED <<db, collected, dayFile, bulk>>
          /\ InDays(DaysOf(month)) # {}
          /\ \A m \in Months : m # month => archFile'[m] = archFile[m]
      BY <1>16 DEF DropArch, WriteArch, AInv, TypeOK, Counted
    <2>2. \A x \in collected \ db : MonthOf[DayOf[x]] # month
      BY <2>1 DEF AInv, Emptied
    <2>3. \A x \in collected \ db : Alone(x)'
      BY <1>1, <2>1, <2>2
    <2> QED BY <1>4, <2>1, <2>3
  <1>17. CASE CheckReadable
    BY <1>4, <1>6, <1>17, ReturnType DEF CheckReadable, bucket
  <1>18. CASE CheckSame
    <2>1. at = "foldArch" /\ Folded(DaysOf(month)) /\ UNCHANGED <<db, collected, archFile, bulk, dayFile>>
      BY <1>18 DEF CheckSame, bucket
    <2>2. CASE Return
      BY <1>4, <1>6, <2>1, <2>2, ReturnType
    <2>3. CASE XtCount(seen) = src /\ at' = "delete" /\ month' = month
      <3>1. \A x \in InDays(DaysOf(month)) : x \in archFile[month] /\ x \notin bulk.rows
        BY <2>1, <2>3, SameMeansOnce DEF AInv
      <3>2. ASSUME NEW x \in InDays(DaysOf(month)) PROVE Alone(x)
        <4>1. DayOf[x] \in DaysOf(month) /\ MonthOf[DayOf[x]] = month
          BY DEF InDays, DaysOf
        <4> QED BY <2>1, <3>1, <4>1 DEF Folded
      <3>3. Leaving' = InDays(DaysOf(month))
        BY <2>1, <2>3 DEF Leaving, InDays
      <3> QED BY <1>1, <2>1, <3>2, <3>3 DEF Archived
    <2> QED BY <1>18, <2>2, <2>3 DEF CheckSame
  <1>19. CASE DeleteBatch
    <2>1. PICK X \in SUBSET InDays(DaysOf(month)) : db' = db \ X
      BY <1>19 DEF DeleteBatch
    <2>2. /\ at = "delete" /\ at' = at /\ month' = month /\ collected' = collected
          /\ UNCHANGED <<archFile, bulk, dayFile>>
      BY <1>19 DEF DeleteBatch, bucket, local
    <2>3. Leaving = InDays(DaysOf(month)) /\ Leaving' \subseteq Leaving
      BY <2>1, <2>2 DEF Leaving, InDays
    <2> QED BY <1>1, <1>2, <2>1, <2>2, <2>3
  <1>20. CASE EndArchive
    <2>1. Leaving' = {} /\ UNCHANGED <<db, collected, archFile, bulk, dayFile>>
      BY <1>3, <1>20, ReturnType DEF EndArchive, bucket
    <2> QED BY <1>1, <1>2, <2>1
  <1>21. CASE Interrupt
    BY <1>4, <1>6, <1>21, ReturnType DEF Interrupt, Undisturbed, bucket
  <1>22. CASE UNCHANGED vars
    <2>1. Leaving' = Leaving
      BY <1>22 DEF vars, Leaving, InDays
    <2> QED BY <1>1, <1>2, <1>22, <2>1 DEF vars
  <1> QED
    BY <1>5, <1>7, <1>8, <1>9, <1>10, <1>11, <1>13, <1>14, <1>15, <1>16, <1>17, <1>18,
       <1>19, <1>20, <1>21, <1>22 DEF Next

\* A row the table no longer holds is read from the bucket exactly once, if no
\* call ends inside the batched delete of sp_archive_exported: its two counts
\* vouch for the file before the first row goes.
THEOREM ReadOnce == ASSUME Undisturbed PROVE Spec => []ArchivedReadOnce
  <1>1. Init => AInv
    BY CallsInit
    DEF Init, AInv, Placed, NoBulk, Counted, Emptied, Archived, Leaving
  <1>2. AInv /\ [Next]_vars => AInv'
    BY TypeStep, CallsStep, PlacedStep, CountedStep, EmptiedStep, ArchivedStep DEF AInv
  <1>3. AInv => ArchivedReadOnce
    <2> SUFFICES ASSUME AInv, NEW x \in collected \ db PROVE Copies(x) = 1
      BY DEF ArchivedReadOnce
    <2> DEFINE m == MonthOf[DayOf[x]]
    <2>1. /\ x \in Rows /\ m \in Months /\ DayOf[x] \in Days
          /\ x \in archFile[m] /\ x \notin bulk.rows /\ x \notin dayFile[DayOf[x]]
      BY RowDays DEF AInv, TypeOK, Archived
    <2>2. ASSUME NEW c \in Read, c[3] = x PROVE c = <<"arch", m, x>>
      <3>1. CASE c \in {"day"} \X Days \X Rows /\ c[3] \in dayFile[c[2]]
        BY <2>1, <2>2, <3>1 DEF AInv, Placed
      <3>2. CASE c \in {"arch"} \X Months \X Rows /\ c[3] \in archFile[c[2]]
        BY <2>2, <3>2 DEF AInv, Placed
      <3>3. CASE c \in {"bulk"} \X {0} \X bulk.rows
        BY <2>1, <2>2, <3>3
      <3> QED BY <3>1, <3>2, <3>3 DEF Read
    <2>3. <<"arch", m, x>> \in Read
      BY <2>1 DEF Read
    <2>4. {c \in Read : c[3] = x} = {<<"arch", m, x>>}
      BY <2>2, <2>3
    <2> QED BY <2>4, FS_Singleton DEF Copies
  <1> QED BY <1>1, <1>2, <1>3, PTL DEF Spec
=============================================================================
