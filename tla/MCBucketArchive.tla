--------------------------- MODULE MCBucketArchive ---------------------------
(***************************************************************************)
(* Instances of BucketArchive for TLC: a month of two days with three rows *)
(* (two DELETE batches) and the first day of the next month.               *)
(***************************************************************************)
EXTENDS BucketArchive

MCDays    == 1..3
MCMonthOf == [d \in MCDays |-> IF d <= 2 THEN 8 ELSE 9]
MCRows    == {"a", "b", "c", "d"}
MCDayOf   == [x \in MCRows |-> CASE x \in {"a", "b"} -> 1
                                 [] x = "c" -> 2
                                 [] x = "d" -> 3]
MCMonths  == {8, 9}
\* The backlog of the first month goes out in bulk.
MCRanges  == (1..2) \X (1..2)
\* Every step but the batched delete.
SafeSteps == {"count", "writeDay", "dropBulk", "foldBulk", "dropArch",
              "writeArch", "readable", "foldArch"}
=============================================================================
