------------------------------ MODULE MCStaging ------------------------------
(***************************************************************************)
(* Instances of Staging for TLC: two documents and a CSV buffer.           *)
(***************************************************************************)
EXTENDS Staging

MCNames == {"a.pdf", "b.xml", "rows.csv"}
MCDocs  == {"a.pdf", "b.xml"}
MCDocsOf == [w \in {"daily_batch1", "daily_batch2"} |->
               IF w = "daily_batch1" THEN {"a.pdf"} ELSE {"b.xml"}]
MCCsv   == {"rows.csv"}
=============================================================================
