------------------------------ MODULE Staging ------------------------------
(***************************************************************************)
(* The staging area of one group: documents written whole by _stage_binary *)
(* and taken to the object store by finalize_pending_exports, CSV buffers  *)
(* that lie beside them until purge_csv_buffers drops the old ones.        *)
(*                                                                         *)
(* stage_file opens the file, which truncates it, and then writes it; the  *)
(* record that describes a document is committed later, with the job's     *)
(* transaction (JobTxn).                                                   *)
(***************************************************************************)
EXTENDS Integers

CONSTANTS
  Names,     \* file names of the group
  Docs,      \* those that documents are staged under; the others are buffers
  Csv,       \* names that end in .csv
  Nested,    \* names with a folder in them, as a member of an archive may have
  Workers,   \* processes that execute jobs
  DocsOf,    \* the documents each one's jobs bring (named after the job); that
             \* members of two archives may share a name is left out
  Overlap,   \* a pass may run while a job does
  CrashAt,   \* where a job may be killed, or find the disk full
  MaxRuns,   \* bound: executions started
  MaxKills   \* bound: passes killed

Point  == {"writing", "staged"}
NoName == "-"

ASSUME StagingAssumption ==
  /\ Docs \subseteq Names /\ Csv \subseteq Names /\ Nested \subseteq Docs
  /\ Names \ Docs \subseteq Csv /\ NoName \notin Names
  /\ DocsOf \in [Workers -> SUBSET Docs]
  /\ \A v, w \in Workers : v # w => DocsOf[v] \cap DocsOf[w] = {}
  /\ Overlap \in BOOLEAN
  /\ CrashAt \subseteq Point
  /\ MaxRuns \in Nat /\ MaxKills \in Nat

VARIABLES
  disk, bucket,   \* content by name
  record,         \* the execution that described a document last, if committed
  \* ---- jobs ----
  pc, run,
  writing,        \* the document being written
  staged,         \* documents this execution has written
  started,
  \* ---- finalize-exports ----
  fpc,
  todo,           \* what it listed and has not dealt with
  document, body, \* the upload under way
  kills

jobVars  == <<pc, run, writing, staged, started>>
passVars == <<fpc, todo, document, body, kills>>
vars == <<disk, bucket, record, pc, run, writing, staged, started, fpc, todo,
          document, body, kills>>

Content == [run : 0..MaxRuns, whole : BOOLEAN]
Absent  == [run |-> 0, whole |-> FALSE]

\* iterdir() does not descend, and a .csv is taken for a buffer.
Listed(n) == n \notin Csv \cup Nested

Init ==
  /\ disk = [n \in Names |-> Absent]
  /\ bucket = [n \in Names |-> Absent]
  /\ record = [d \in Docs |-> 0]
  /\ pc = [w \in Workers |-> "idle"]
  /\ run = [w \in Workers |-> 0]
  /\ writing = [w \in Workers |-> NoName]
  /\ staged = [w \in Workers |-> {}]
  /\ started = 0
  /\ fpc = "idle"
  /\ todo = {}
  /\ document = NoName
  /\ body = Absent
  /\ kills = 0

-----------------------------------------------------------------------------
(* A job that brings documents. *)

StartRun(w) ==
  /\ pc[w] = "idle"
  /\ started < MaxRuns
  /\ Overlap \/ fpc = "idle"
  /\ started' = started + 1
  /\ run' = [run EXCEPT ![w] = started + 1]
  /\ pc' = [pc EXCEPT ![w] = "staged"]
  /\ UNCHANGED <<disk, bucket, record, writing, staged, passVars>>

OpenFile(w, d) ==
  /\ pc[w] = "staged"
  /\ d \in DocsOf[w] \ staged[w]
  /\ disk' = [disk EXCEPT ![d] = [run |-> run[w], whole |-> FALSE]]
  /\ writing' = [writing EXCEPT ![w] = d]
  /\ pc' = [pc EXCEPT ![w] = "writing"]
  /\ UNCHANGED <<bucket, record, run, staged, started, passVars>>

\* The bytes go to the file that was opened, even if its name is gone by now.
WriteFile(w) ==
  LET d == writing[w] IN
  /\ pc[w] = "writing"
  /\ disk' = IF disk[d].run = run[w] THEN [disk EXCEPT ![d].whole = TRUE] ELSE disk
  /\ staged' = [staged EXCEPT ![w] = @ \cup {d}]
  /\ writing' = [writing EXCEPT ![w] = NoName]
  /\ pc' = [pc EXCEPT ![w] = "staged"]
  /\ UNCHANGED <<bucket, record, run, started, passVars>>

\* append_csv_rows
AppendRows(w, n) ==
  /\ pc[w] = "staged"
  /\ n \in Names \ Docs
  /\ disk' = [disk EXCEPT ![n] = [run |-> run[w], whole |-> TRUE]]
  /\ UNCHANGED <<bucket, record, jobVars, passVars>>

Leave(w) ==
  /\ pc' = [pc EXCEPT ![w] = "idle"]
  /\ run' = [run EXCEPT ![w] = 0]
  /\ writing' = [writing EXCEPT ![w] = NoName]
  /\ staged' = [staged EXCEPT ![w] = {}]

\* Faulty variant: the record is committed before the bytes are there.
CommitEarly(w) ==
  /\ pc[w] \in {"writing", "staged"}
  /\ record' = [d \in Docs |-> IF d \in staged[w] \cup {writing[w]} THEN run[w] ELSE record[d]]
  /\ Leave(w)
  /\ UNCHANGED <<disk, bucket, started, passVars>>

\* The records of what was staged are committed with the job.
Commit(w) ==
  /\ pc[w] = "staged"
  /\ record' = [d \in Docs |-> IF d \in staged[w] THEN run[w] ELSE record[d]]
  /\ Leave(w)
  /\ UNCHANGED <<disk, bucket, started, passVars>>

\* Rolled back, or killed: the files stay as they are.
GiveUp(w) ==
  /\ pc[w] = "staged" \/ pc[w] \in CrashAt
  /\ pc[w] # "idle"
  /\ Leave(w)
  /\ UNCHANGED <<disk, bucket, record, started, passVars>>

-----------------------------------------------------------------------------
(* finalize_pending_exports, and the purge that follows it. *)

StartPass ==
  /\ fpc = "idle"
  /\ Overlap \/ \A w \in Workers : pc[w] = "idle"
  /\ todo' = {n \in Names : disk[n] # Absent /\ Listed(n)}
  /\ fpc' = "next"
  /\ UNCHANGED <<disk, bucket, record, jobVars, document, body, kills>>

Read(d) ==
  /\ fpc = "next"
  /\ d \in todo
  /\ todo' = todo \ {d}
  /\ document' = d
  /\ body' = disk[d]
  /\ fpc' = "put"
  /\ UNCHANGED <<disk, bucket, record, jobVars, kills>>

Put ==
  /\ fpc = "put"
  /\ bucket' = [bucket EXCEPT ![document] = body]
  /\ fpc' = "unlink"
  /\ UNCHANGED <<disk, record, jobVars, todo, document, body, kills>>

Close ==
  /\ fpc' = "idle"
  /\ todo' = {}
  /\ document' = NoName
  /\ body' = Absent

\* Faulty variant: the local copy goes even though the upload failed.
PutFailsAndUnlinks ==
  /\ fpc = "put"
  /\ disk' = [disk EXCEPT ![document] = Absent]
  /\ Close
  /\ UNCHANGED <<bucket, record, jobVars, kills>>

\* put_object raises: the pass is over, and nothing is purged.
PutFails ==
  /\ fpc = "put"
  /\ Close
  /\ UNCHANGED <<disk, bucket, record, jobVars, kills>>

Unlink ==
  /\ fpc = "unlink"
  /\ disk' = [disk EXCEPT ![document] = Absent]
  /\ fpc' = "next"
  /\ document' = NoName
  /\ body' = Absent
  /\ UNCHANGED <<bucket, record, jobVars, todo, kills>>

\* purge_csv_buffers: whatever ends in .csv and is from before keep_from.
EndPass ==
  /\ fpc = "next"
  /\ todo = {}
  /\ \E keepFrom \in 0..MaxRuns :
       disk' = [n \in Names |-> IF n \in Csv \ Nested /\ disk[n].run < keepFrom
                                THEN Absent ELSE disk[n]]
  /\ Close
  /\ UNCHANGED <<bucket, record, jobVars, kills>>

KillPass ==
  /\ fpc # "idle"
  /\ kills < MaxKills
  /\ kills' = kills + 1
  /\ Close
  /\ UNCHANGED <<disk, bucket, record, jobVars>>

-----------------------------------------------------------------------------
Job(w) ==
  \/ \E d \in Docs : OpenFile(w, d)
  \/ WriteFile(w) \/ Commit(w) \/ GiveUp(w)

Pass == StartPass \/ (\E d \in Docs : Read(d)) \/ Unlink \/ EndPass

Next ==
  \/ \E w \in Workers : StartRun(w) \/ Job(w) \/ \E n \in Names : AppendRows(w, n)
  \/ Pass \/ Put \/ PutFails \/ KillPass

Spec == Init /\ [][Next]_vars

\* A job comes to its end, the timer starts a pass again and again, and the
\* object store takes a document sooner or later.
FairSpec ==
  /\ Spec
  /\ \A w \in Workers : WF_vars(Job(w))
  /\ WF_vars(Pass)
  /\ SF_vars(Put)

-----------------------------------------------------------------------------
(* Properties *)

BeingWritten(d) == \E w \in Workers : writing[w] = d
Current(d) == IF disk[d] # Absent THEN disk[d] ELSE bucket[d]

\* "A document has no partial state": what a committed record describes is in
\* the staging area or in the bucket, whole and no older than the record.
DescribedIntact ==
  \A d \in Docs :
    (record[d] > 0 /\ ~BeingWritten(d)) =>
      Current(d).whole /\ Current(d).run >= record[d]

\* "Upload every staged document": the object a committed record names holds
\* that document in the end.
DocumentsArrive ==
  \A d \in Docs : \A r \in 1..MaxRuns :
    record[d] = r ~> (bucket[d].whole /\ bucket[d].run >= r)
=============================================================================
