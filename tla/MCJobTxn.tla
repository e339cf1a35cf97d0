------------------------------ MODULE MCJobTxn ------------------------------
(***************************************************************************)
(* Instances of JobTxn for TLC.  "listing" is a repeated overwrite job     *)
(* (one job_id re-run every morning), "bars" a one-shot append job whose   *)
(* empty reply means "not yet" and whose raw reply is kept in api_rst.     *)
(***************************************************************************)
EXTENDS JobTxn

MCJobs    == {"listing", "bars"}
MCTables  == {"t1", "t2", "api_rst"}
MCOutputs == [j \in MCJobs |-> IF j = "listing" THEN {"t1", "t2"} ELSE {"t1", "api_rst"}]
\* Each job belongs to a cycle of its own, so the two run side by side.
MCCycleOf == [j \in MCJobs |-> IF j = "listing" THEN "daily_early" ELSE "daily_batch2"]

\* One overwrite job that a cycle and an API caller may both be running, and the
\* login row of its site, which has no output table and may run before it.
SharedJobs    == {"listing", "login"}
SharedOutputs == [j \in SharedJobs |-> IF j = "listing" THEN {"t1", "t2"} ELSE {}]
SharedCycleOf == [j \in SharedJobs |-> "daily_early"]
=============================================================================
