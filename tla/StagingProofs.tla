---------------------------- MODULE StagingProofs ----------------------------
(***************************************************************************)
(* Theorems about Staging: a described document survives jobs that fail,   *)
(* passes that fail or are killed, and the purge, as long as the timers    *)
(* keep jobs and passes apart and nobody is killed inside write_bytes.     *)
(***************************************************************************)
EXTENDS Staging, TLAPS

\* What DescribedIntact needs: finalize-exports runs when no job does, a file
\* is written once it is opened, and no document is named like a buffer.
Orderly ==
  /\ ~Overlap
  /\ "writing" \notin CrashAt
  /\ Docs \cap Csv \subseteq Nested

TypeOK ==
  /\ disk \in [Names -> Content]
  /\ bucket \in [Names -> Content]
  /\ record \in [Docs -> 0..MaxRuns]
  /\ pc \in [Workers -> {"idle"} \cup Point]
  /\ run \in [Workers -> 0..MaxRuns]
  /\ writing \in [Workers -> Docs \cup {NoName}]
  /\ staged \in [Workers -> SUBSET Docs]
  /\ started \in 0..MaxRuns
  /\ fpc \in {"idle", "next", "put", "unlink"}
  /\ todo \subseteq Names
  /\ document \in Docs \cup {NoName}
  /\ fpc \in {"put", "unlink"} => document \in Docs
  /\ body \in Content
  /\ kills \in 0..MaxKills
  /\ \A w \in Workers : pc[w] = "writing" => writing[w] \in Docs

LEMMA TypeStep == TypeOK /\ [Next]_vars => TypeOK'
  <1> SUFFICES ASSUME TypeOK, [Next]_vars PROVE TypeOK'
    OBVIOUS
  <1> USE StagingAssumption DEF StagingAssumption, TypeOK
  <1>1. ASSUME NEW w \in Workers, StartRun(w) PROVE TypeOK'
    <2>1. started + 1 \in 0..MaxRuns
      BY <1>1 DEF StartRun
    <2> QED BY <1>1, <2>1 DEF StartRun, passVars, Point
  <1>2. ASSUME NEW w \in Workers, NEW d \in Docs, OpenFile(w, d) PROVE TypeOK'
    <2>1. disk' \in [Names -> Content]
      BY <1>2 DEF OpenFile, Content
    <2>2. writing' \in [Workers -> Docs \cup {NoName}]
      BY <1>2 DEF OpenFile
    <2> QED BY <1>2, <2>1, <2>2 DEF OpenFile, passVars, Point
  <1>3. ASSUME NEW w \in Workers, WriteFile(w) PROVE TypeOK'
    <2>1. disk' \in [Names -> Content]
      BY <1>3 DEF WriteFile, Content
    <2>2. staged' \in [Workers -> SUBSET Docs]
      BY <1>3 DEF WriteFile
    <2> QED BY <1>3, <2>1, <2>2 DEF WriteFile, passVars, Point
  <1>4. ASSUME NEW w \in Workers, NEW n \in Names, AppendRows(w, n) PROVE TypeOK'
    <2>1. disk' \in [Names -> Content]
      BY <1>4 DEF AppendRows, Content
    <2> QED BY <1>4, <2>1 DEF AppendRows, jobVars, passVars
  <1>5. ASSUME NEW w \in Workers, Commit(w) PROVE TypeOK'
    <2>1. record' \in [Docs -> 0..MaxRuns]
      BY <1>5 DEF Commit
    <2> QED BY <1>5, <2>1 DEF Commit, Leave, passVars
  <1>6. ASSUME NEW w \in Workers, GiveUp(w) PROVE TypeOK'
    BY <1>6 DEF GiveUp, Leave, passVars
  <1>7. ASSUME Close PROVE /\ fpc' = "idle" /\ todo' \subseteq Names /\ body' \in Content
                           /\ document' = NoName
    BY <1>7 DEF Close, Absent, Content
  <1>8. CASE StartPass
    BY <1>8 DEF StartPass, jobVars
  <1>9. ASSUME NEW d \in Docs, Read(d) PROVE TypeOK'
    BY <1>9 DEF Read, jobVars
  <1>10. CASE Put
    BY <1>10 DEF Put, jobVars
  <1>11. CASE Unlink
    <2>1. disk' \in [Names -> Content] /\ body' \in Content
      BY <1>11 DEF Unlink, Absent, Content
    <2> QED BY <1>11, <2>1 DEF Unlink, jobVars
  <1>12. CASE EndPass
    <2>1. disk' \in [Names -> Content]
      BY <1>12 DEF EndPass, Absent, Content
    <2> QED BY <1>7, <1>12, <2>1 DEF EndPass, jobVars
  <1>13. CASE PutFails
    BY <1>7, <1>13 DEF PutFails, jobVars
  <1>14. CASE KillPass
    <2>1. kills' \in 0..MaxKills
      BY <1>14 DEF KillPass
    <2> QED BY <1>7, <1>14, <2>1 DEF KillPass, jobVars
  <1>15. CASE UNCHANGED vars
    BY <1>15 DEF vars
  <1> QED
    BY <1>1, <1>2, <1>3, <1>4, <1>5, <1>6, <1>8, <1>9, <1>10, <1>11, <1>12, <1>13,
       <1>14, <1>15 DEF Next, Job, Pass

\* The variables of jobs, files, records, passes and the bucket keep their
\* types, whatever overlaps or dies.
THEOREM StagingTypeCorrect == Spec => []TypeOK
  <1>1. Init => TypeOK
    BY StagingAssumption DEF StagingAssumption, Init, TypeOK, Content, Absent
  <1> QED BY <1>1, TypeStep, PTL DEF Spec
-----------------------------------------------------------------------------
(* Documents. *)

\* Jobs and passes take turns.
Turns == fpc # "idle" => \A w \in Workers : pc[w] = "idle"

\* An execution has an identity handed out by StartRun.
Identified == \A w \in Workers : pc[w] # "idle" => run[w] \in 1..started

\* It writes its own documents, each once ...
Writes ==
  \A w \in Workers :
    IF pc[w] = "writing"
      THEN writing[w] \in DocsOf[w] \ staged[w] /\ disk[writing[w]].run = run[w]
      ELSE writing[w] = NoName

\* ... and they are on disk as it left them.
Leaves ==
  \A w \in Workers :
    /\ pc[w] = "idle" => staged[w] = {}
    /\ staged[w] \subseteq DocsOf[w]
    /\ \A d \in staged[w] : disk[d] = [run |-> run[w], whole |-> TRUE]

OwnFiles == Identified /\ Writes /\ Leaves

\* Every record is of an earlier execution than the one that may replace it.
Earlier ==
  /\ \A d \in Docs : record[d] <= started
  /\ \A w \in Workers : pc[w] # "idle" => \A d \in DocsOf[w] : record[d] <= run[w]

\* A document on disk is whole, unless somebody is writing it.
WholeOnDisk ==
  \A d \in Docs : disk[d] # Absent => disk[d].whole \/ BeingWritten(d)

\* A pass uploads what is on disk, and unlinks it only when it is in the bucket.
Uploading ==
  /\ fpc \in {"put", "unlink"} => /\ body = disk[document] /\ body # Absent
                                 /\ document \notin todo
  /\ fpc = "unlink" => bucket[document] = body
  /\ \A d \in todo \cap Docs : disk[d] # Absent

DInv ==
  /\ TypeOK /\ Turns /\ OwnFiles /\ Earlier /\ WholeOnDisk /\ Uploading /\ DescribedIntact

LEMMA DocsAreNames == Docs \subseteq Names /\ \A w \in Workers : DocsOf[w] \subseteq Docs
  BY StagingAssumption DEF StagingAssumption

LEMMA NoNameIsNoDoc == NoName \notin Docs
  BY StagingAssumption DEF StagingAssumption

LEMMA OthersDocs ==
  ASSUME NEW v \in Workers, NEW w \in Workers, v # w, NEW d \in DocsOf[w]
  PROVE  d \notin DocsOf[v]
  BY StagingAssumption DEF StagingAssumption

LEMMA NothingWritten ==
  ASSUME DInv, NEW d \in Docs, \A w \in Workers : pc[w] = "idle" PROVE ~BeingWritten(d)
  <1>1. \A w \in Workers : writing[w] = NoName
    BY DEF DInv, OwnFiles, Writes
  <1> QED BY <1>1, NoNameIsNoDoc DEF BeingWritten

LEMMA JobStep ==
  ASSUME Orderly, DInv, NEW w \in Workers,
         \/ StartRun(w) \/ Job(w) \/ \E n \in Names : AppendRows(w, n)
  PROVE  Turns' /\ OwnFiles' /\ Earlier' /\ WholeOnDisk' /\ Uploading' /\ DescribedIntact'
  <1>0. /\ UNCHANGED <<bucket, fpc, todo, document, body>>
        /\ started \in Nat
    BY StagingAssumption
    DEF StagingAssumption, DInv, TypeOK, StartRun, Job, OpenFile, WriteFile, Commit, GiveUp,
        AppendRows, passVars
  <1>1. CASE StartRun(w)
    <2>1. /\ pc[w] = "idle" /\ fpc = "idle" /\ started' = started + 1
          /\ pc' = [pc EXCEPT ![w] = "staged"] /\ run' = [run EXCEPT ![w] = started + 1]
          /\ UNCHANGED <<disk, record, writing, staged>>
      BY <1>1 DEF StartRun, Orderly
    <2>2. Turns' /\ Uploading' /\ WholeOnDisk' /\ DescribedIntact'
      BY <1>0, <2>1
      DEF DInv, Turns, Uploading, WholeOnDisk, DescribedIntact, Current, BeingWritten
    <2>3. Identified'
      BY <1>0, <2>1 DEF DInv, TypeOK, OwnFiles, Identified
    <2>4. Writes'
      BY <2>1 DEF DInv, TypeOK, OwnFiles, Writes
    <2>5. Leaves'
      BY <2>1 DEF DInv, TypeOK, OwnFiles, Leaves
    <2>6. Earlier'
      <3>1. \A d \in Docs : record[d] \in Nat /\ record[d] <= started
        BY DEF DInv, TypeOK, Earlier
      <3>2. \A v \in Workers : v # w => pc'[v] = pc[v] /\ run'[v] = run[v]
        BY <2>1 DEF DInv, TypeOK
      <3>3. run'[w] = started + 1
        BY <2>1 DEF DInv, TypeOK
      <3> QED BY <1>0, <2>1, <3>1, <3>2, <3>3, DocsAreNames DEF DInv, Earlier
    <2> QED BY <2>2, <2>3, <2>4, <2>5, <2>6 DEF OwnFiles
  <1>2. ASSUME NEW d \in Docs, OpenFile(w, d)
        PROVE  Turns' /\ OwnFiles' /\ Earlier' /\ WholeOnDisk' /\ Uploading' /\ DescribedIntact'
    <2>1. /\ pc[w] = "staged" /\ d \in DocsOf[w] \ staged[w]
          /\ disk' = [disk EXCEPT ![d] = [run |-> run[w], whole |-> FALSE]]
          /\ writing' = [writing EXCEPT ![w] = d] /\ pc' = [pc EXCEPT ![w] = "writing"]
          /\ UNCHANGED <<record, run, staged, started>>
      BY <1>2 DEF OpenFile
    <2>2. fpc = "idle" /\ writing[w] = NoName /\ d # NoName
      <3>1. fpc = "idle"
        BY <2>1 DEF DInv, Turns
      <3>2. writing[w] = NoName
        BY <2>1 DEF DInv, OwnFiles, Writes
      <3> QED BY <3>1, <3>2, NoNameIsNoDoc
    <2>3. disk'[d] = [run |-> run[w], whole |-> FALSE] /\ \A e \in Docs : e # d => disk'[e] = disk[e]
      BY <2>1, StagingAssumption DEF StagingAssumption, DInv, TypeOK
    <2>4. \A e \in Docs : e # d => (BeingWritten(e)' <=> BeingWritten(e))
      BY <2>1, <2>2, NoNameIsNoDoc DEF DInv, TypeOK, BeingWritten
    <2>5. BeingWritten(d)'
      BY <2>1 DEF DInv, TypeOK, BeingWritten
    <2>6. WholeOnDisk' /\ DescribedIntact'
      BY <1>0, <2>1, <2>3, <2>4, <2>5 DEF DInv, WholeOnDisk, DescribedIntact, Current
    <2>7. Turns' /\ Uploading'
      <3>1. run[w] # 0
        BY <1>0, <2>1 DEF DInv, OwnFiles, Identified
      <3>2. \A e \in Docs : disk[e] # Absent => disk'[e] # Absent
        BY <2>3, <3>1 DEF Absent
      <3> QED BY <1>0, <2>2, <3>2 DEF DInv, Turns, Uploading
    <2>8. Identified'
      BY <2>1 DEF DInv, TypeOK, OwnFiles, Identified
    <2>9. Writes'
      <3> SUFFICES ASSUME NEW v \in Workers
                   PROVE  IF pc'[v] = "writing"
                            THEN /\ writing'[v] \in DocsOf[v] \ staged'[v]
                                 /\ disk'[writing'[v]].run = run'[v]
                            ELSE writing'[v] = NoName
        BY DEF Writes
      <3>1. CASE v = w
        BY <2>1, <2>3, <3>1 DEF DInv, TypeOK
      <3>2. CASE v # w
        <4>1. d \notin DocsOf[v]
          BY <2>1, <3>2, OthersDocs
        <4>2. pc'[v] = pc[v] /\ writing'[v] = writing[v] /\ run' = run /\ staged' = staged
          BY <2>1, <3>2 DEF DInv, TypeOK
        <4>3. pc[v] = "writing" => writing[v] \in Docs
          BY DEF DInv, TypeOK
        <4> QED BY <2>3, <4>1, <4>2, <4>3 DEF DInv, OwnFiles, Writes
      <3> QED BY <3>1, <3>2
    <2>10. Leaves'
      <3>1. \A v \in Workers : pc[v] = "idle" <=> pc'[v] = "idle"
        BY <2>1 DEF DInv, TypeOK
      <3>2. \A v \in Workers : d \notin staged[v]
        BY <2>1, OthersDocs DEF DInv, OwnFiles, Leaves
      <3>3. \A v \in Workers : staged[v] \subseteq Docs
        BY DEF DInv, TypeOK
      <3> QED BY <2>1, <2>3, <3>1, <3>2, <3>3 DEF DInv, OwnFiles, Leaves
    <2>11. Earlier'
      BY <2>1 DEF DInv, TypeOK, Earlier
    <2> QED BY <2>6, <2>7, <2>8, <2>9, <2>10, <2>11 DEF OwnFiles
  <1>3. CASE WriteFile(w)
    <2> DEFINE d == writing[w]
    <2>1. /\ pc[w] = "writing" /\ d \in DocsOf[w] \ staged[w] /\ d \in Docs
          /\ disk[d].run = run[w]
      BY <1>3 DEF WriteFile, DInv, TypeOK, OwnFiles, Writes
    <2>2. /\ disk' = [disk EXCEPT ![d].whole = TRUE]
          /\ staged' = [staged EXCEPT ![w] = @ \cup {d}]
          /\ writing' = [writing EXCEPT ![w] = NoName] /\ pc' = [pc EXCEPT ![w] = "staged"]
          /\ UNCHANGED <<record, run, started>>
      BY <1>3, <2>1 DEF WriteFile
    <2>3. disk'[d] = [run |-> run[w], whole |-> TRUE] /\ \A e \in Docs : e # d => disk'[e] = disk[e]
      BY <2>1, <2>2, StagingAssumption DEF StagingAssumption, DInv, TypeOK, Content
    <2>4. fpc = "idle" /\ d # NoName /\ run[w] \in 1..started
      <3>1. fpc = "idle"
        BY <2>1 DEF DInv, Turns
      <3>2. run[w] \in 1..started
        BY <2>1 DEF DInv, OwnFiles, Identified
      <3> QED BY <2>1, <3>1, <3>2, NoNameIsNoDoc
    <2>5. \A e \in Docs : e # d => (BeingWritten(e)' <=> BeingWritten(e))
      BY <2>1, <2>2, NoNameIsNoDoc DEF DInv, TypeOK, BeingWritten
    <2>6. disk'[d] # Absent /\ record[d] <= run[w]
      BY <1>0, <2>1, <2>3, <2>4 DEF Absent, DInv, Earlier
    <2>7. Turns' /\ Uploading'
      BY <1>0, <2>3, <2>4, <2>6 DEF DInv, Turns, Uploading
    <2>8. WholeOnDisk'
      BY <2>3, <2>5 DEF DInv, WholeOnDisk
    <2>9. DescribedIntact'
      BY <1>0, <2>2, <2>3, <2>5, <2>6 DEF DInv, DescribedIntact, Current
    <2>10. Identified'
      BY <2>1, <2>2 DEF DInv, TypeOK, OwnFiles, Identified
    <2>11. Writes'
      <3> SUFFICES ASSUME NEW v \in Workers
                   PROVE  IF pc'[v] = "writing"
                            THEN /\ writing'[v] \in DocsOf[v] \ staged'[v]
                                 /\ disk'[writing'[v]].run = run'[v]
                            ELSE writing'[v] = NoName
        BY DEF Writes
      <3>1. CASE v = w
        BY <2>2, <3>1 DEF DInv, TypeOK
      <3>2. CASE v # w
        <4>1. d \notin DocsOf[v]
          BY <2>1, <3>2, OthersDocs
        <4>2. pc'[v] = pc[v] /\ writing'[v] = writing[v] /\ run' = run /\ staged'[v] = staged[v]
          BY <2>2, <3>2 DEF DInv, TypeOK
        <4>3. pc[v] = "writing" => writing[v] \in Docs
          BY DEF DInv, TypeOK
        <4> QED BY <2>3, <4>1, <4>2, <4>3 DEF DInv, OwnFiles, Writes
      <3> QED BY <3>1, <3>2
    <2>12. Leaves'
      <3> SUFFICES ASSUME NEW v \in Workers
                   PROVE  /\ pc'[v] = "idle" => staged'[v] = {}
                          /\ staged'[v] \subseteq DocsOf[v]
                          /\ \A e \in staged'[v] : disk'[e] = [run |-> run'[v], whole |-> TRUE]
        BY DEF Leaves
      <3>1. staged[v] \subseteq Docs /\ d \notin staged[v]
        BY <2>1, OthersDocs DEF DInv, TypeOK, OwnFiles, Leaves
      <3>2. CASE v = w
        BY <2>1, <2>2, <2>3, <3>1, <3>2 DEF DInv, TypeOK, OwnFiles, Leaves
      <3>3. CASE v # w
        <4>1. pc'[v] = pc[v] /\ staged'[v] = staged[v] /\ run' = run
          BY <2>2, <3>3 DEF DInv, TypeOK
        <4> QED BY <2>3, <3>1, <4>1 DEF DInv, OwnFiles, Leaves
      <3> QED BY <3>2, <3>3
    <2>13. Earlier'
      BY <2>1, <2>2 DEF DInv, TypeOK, Earlier
    <2> QED BY <2>7, <2>8, <2>9, <2>10, <2>11, <2>12, <2>13 DEF OwnFiles
  <1>4. ASSUME NEW n \in Names, AppendRows(w, n)
        PROVE  Turns' /\ OwnFiles' /\ Earlier' /\ WholeOnDisk' /\ Uploading' /\ DescribedIntact'
    <2>1. /\ pc[w] = "staged" /\ \A d \in Docs : disk'[d] = disk[d]
          /\ UNCHANGED <<record, pc, run, writing, staged, started>>
      BY <1>4 DEF AppendRows, jobVars, DInv, TypeOK
    <2>2. fpc = "idle" /\ Turns' /\ Uploading'
      BY <1>0, <2>1 DEF DInv, Turns, Uploading
    <2>3. \A v \in Workers : staged[v] \subseteq Docs /\ (pc[v] = "writing" => writing[v] \in Docs)
      BY DEF DInv, TypeOK
    <2>4. OwnFiles'
      BY <2>1, <2>3 DEF DInv, OwnFiles, Identified, Writes, Leaves
    <2> QED
      BY <1>0, <2>1, <2>2, <2>4
      DEF DInv, Earlier, WholeOnDisk, DescribedIntact, Current, BeingWritten
  <1>5. ASSUME Leave(w), pc[w] = "staged", disk' = disk, started' = started
        PROVE  /\ Turns' /\ OwnFiles' /\ WholeOnDisk' /\ Uploading' /\ writing' = writing
               /\ \A v \in Workers : pc'[v] # "idle" => v # w /\ pc[v] # "idle" /\ run'[v] = run[v]
    <2>1. writing' = writing
      BY <1>5 DEF Leave, DInv, TypeOK, OwnFiles, Writes
    <2>2. fpc = "idle"
      BY <1>5 DEF DInv, Turns
    <2>3. \A v \in Workers :
            /\ v = w => pc'[v] = "idle" /\ staged'[v] = {}
            /\ v # w => pc'[v] = pc[v] /\ staged'[v] = staged[v] /\ run'[v] = run[v]
      BY <1>5 DEF Leave, DInv, TypeOK
    <2>4. Identified'
      BY <1>5, <2>3 DEF DInv, OwnFiles, Identified
    <2>5. Writes'
      BY <1>5, <2>1, <2>3 DEF DInv, OwnFiles, Writes
    <2>6. Leaves'
      BY <1>5, <2>3 DEF DInv, OwnFiles, Leaves
    <2>7. Turns' /\ Uploading' /\ WholeOnDisk'
      BY <1>0, <1>5, <2>1, <2>2 DEF DInv, Turns, WholeOnDisk, Uploading, BeingWritten
    <2> QED BY <2>1, <2>3, <2>4, <2>5, <2>6, <2>7 DEF OwnFiles
  <1>6. CASE Commit(w)
    <2>1. /\ pc[w] = "staged" /\ Leave(w) /\ UNCHANGED <<disk, started>>
          /\ record' = [d \in Docs |-> IF d \in staged[w] THEN run[w] ELSE record[d]]
      BY <1>6 DEF Commit
    <2>2. \A d \in staged[w] : disk[d] = [run |-> run[w], whole |-> TRUE]
      BY DEF DInv, OwnFiles, Leaves
    <2>3. run[w] \in 1..started
      BY <2>1 DEF DInv, OwnFiles, Identified
    <2>4. DescribedIntact'
      <3> SUFFICES ASSUME NEW d \in Docs, record'[d] > 0, ~BeingWritten(d)'
                   PROVE  Current(d)'.whole /\ Current(d)'.run >= record'[d]
        BY DEF DescribedIntact
      <3>1. ~BeingWritten(d)
        BY <1>5, <2>1 DEF BeingWritten
      <3>2. CASE d \in staged[w]
        BY <1>0, <2>1, <2>2, <2>3, <3>2 DEF Current, Absent
      <3>3. CASE d \notin staged[w]
        BY <1>0, <2>1, <3>1, <3>3 DEF Current, DInv, DescribedIntact
      <3> QED BY <3>2, <3>3
    <2>5. Earlier'
      <3>1. \A d \in Docs : record'[d] <= started
        BY <1>0, <2>1, <2>3 DEF DInv, Earlier
      <3>2. ASSUME NEW v \in Workers, pc'[v] # "idle", NEW d \in DocsOf[v]
            PROVE  record'[d] <= run'[v]
        <4>1. v # w /\ pc[v] # "idle" /\ run'[v] = run[v]
          BY <1>5, <2>1, <3>2
        <4>2. d \notin staged[w] /\ d \in Docs
          BY <4>1, OthersDocs, StagingAssumption
          DEF StagingAssumption, DInv, OwnFiles, Leaves
        <4> QED BY <2>1, <4>1, <4>2 DEF DInv, Earlier
      <3> QED BY <2>1, <3>1, <3>2 DEF Earlier
    <2> QED BY <1>5, <2>1, <2>4, <2>5
  <1>7. CASE GiveUp(w)
    <2>1. pc[w] = "staged" /\ Leave(w) /\ UNCHANGED <<disk, record, started>>
      BY <1>7 DEF GiveUp, Orderly, DInv, TypeOK, Point
    <2>2. DescribedIntact' /\ Earlier'
      BY <1>0, <1>5, <2>1 DEF DInv, DescribedIntact, Current, BeingWritten, Earlier
    <2> QED BY <1>5, <2>1, <2>2
  <1> QED BY <1>1, <1>2, <1>3, <1>4, <1>6, <1>7 DEF Job

LEMMA PassStep ==
  ASSUME Orderly, DInv, Pass \/ Put \/ PutFails \/ KillPass
  PROVE  Turns' /\ OwnFiles' /\ Earlier' /\ WholeOnDisk' /\ Uploading' /\ DescribedIntact'
  <1>0. UNCHANGED <<record, pc, run, writing, staged, started>>
    BY DEF Pass, StartPass, Read, Unlink, EndPass, Put, PutFails, KillPass, jobVars
  <1>1. \A w \in Workers : pc[w] = "idle"
    BY DEF Pass, StartPass, Read, Unlink, EndPass, Put, PutFails, KillPass, Orderly, DInv, Turns
  <1>2. Turns' /\ OwnFiles' /\ Earlier'
    BY <1>0, <1>1 DEF DInv, Turns, OwnFiles, Identified, Writes, Leaves, Earlier
  <1>3. \A d \in Docs : ~BeingWritten(d)
    BY <1>1, NothingWritten
  \* The bucket and the documents on disk stay as they are.
  <1>4. ASSUME bucket' = bucket, \A d \in Docs : disk'[d] = disk[d]
        PROVE  WholeOnDisk' /\ DescribedIntact'
    BY <1>0, <1>4 DEF DInv, WholeOnDisk, DescribedIntact, Current, BeingWritten
  <1>5. ASSUME Close PROVE Uploading'
    BY <1>5 DEF Close, Uploading
  <1>6. CASE StartPass
    BY <1>2, <1>4, <1>6 DEF StartPass, Uploading
  <1>7. ASSUME NEW d \in Docs, Read(d) PROVE WholeOnDisk' /\ Uploading' /\ DescribedIntact'
    <2>1. Uploading'
      BY <1>7 DEF Read, DInv, Uploading
    <2> QED BY <1>4, <1>7, <2>1 DEF Read
  <1>8. CASE Put
    <2>1. /\ document \in Docs /\ disk[document] # Absent /\ disk' = disk
          /\ bucket' = [bucket EXCEPT ![document] = body]
      BY <1>8 DEF Put, DInv, TypeOK, Uploading
    <2>2. Uploading'
      BY <1>8, <2>1, DocsAreNames DEF Put, DInv, TypeOK, Uploading
    <2>3. \A d \in Docs : Current(d)' = Current(d)
      BY <2>1 DEF Current, DInv, TypeOK
    <2>4. WholeOnDisk' /\ DescribedIntact'
      BY <1>0, <2>1, <2>3 DEF DInv, WholeOnDisk, DescribedIntact, BeingWritten
    <2> QED BY <1>2, <2>2, <2>4
  <1>9. CASE Unlink
    <2>1. /\ document \in Docs /\ bucket[document] = disk[document] /\ disk[document] # Absent
          /\ document \notin todo /\ disk' = [disk EXCEPT ![document] = Absent]
          /\ UNCHANGED <<bucket, todo>> /\ fpc' = "next"
      BY <1>9 DEF Unlink, DInv, TypeOK, Uploading
    <2>2. \A d \in Docs : Current(d)' = Current(d)
      BY <2>1 DEF Current, DInv, TypeOK
    <2>3. Uploading'
      BY <2>1 DEF DInv, TypeOK, Uploading
    <2>4. WholeOnDisk'
      BY <1>0, <2>1 DEF DInv, TypeOK, WholeOnDisk, BeingWritten
    <2>5. DescribedIntact'
      BY <1>0, <2>2 DEF DInv, DescribedIntact, BeingWritten
    <2> QED BY <1>2, <2>3, <2>4, <2>5
  <1>10. CASE EndPass
    <2>1. PICK keepFrom \in 0..MaxRuns :
            disk' = [n \in Names |-> IF n \in Csv \ Nested /\ disk[n].run < keepFrom
                                     THEN Absent ELSE disk[n]]
      BY <1>10 DEF EndPass
    <2>2. \A d \in Docs : disk'[d] = disk[d]
      BY <2>1, DocsAreNames DEF Orderly, DInv, TypeOK
    <2> QED BY <1>2, <1>4, <1>5, <1>10, <2>2 DEF EndPass
  <1>11. CASE PutFails \/ KillPass
    BY <1>2, <1>4, <1>5, <1>11 DEF PutFails, KillPass
  <1> QED BY <1>2, <1>6, <1>7, <1>8, <1>9, <1>10, <1>11 DEF Pass

\* A document that a committed record describes is whole and current in the
\* staging area or in the bucket, whatever job fails and whatever pass is killed:
\* finalize_pending_exports unlinks only what it has put, and a job's rollback
\* leaves only whole files behind.
THEOREM DocumentsIntact == ASSUME Orderly PROVE Spec => []DescribedIntact
  <1>1. Init => DInv
    BY StagingAssumption
    DEF StagingAssumption, Init, DInv, TypeOK, Content, Absent, Turns, OwnFiles, Identified,
        Writes, Leaves, Earlier, WholeOnDisk, Uploading, DescribedIntact
  <1>2. DInv /\ [Next]_vars => DInv'
    <2>1. CASE UNCHANGED vars
      BY <2>1, TypeStep
      DEF DInv, vars, Turns, OwnFiles, Identified, Writes, Leaves, Earlier, WholeOnDisk, Uploading, DescribedIntact, Current,
          BeingWritten
    <2> QED BY <2>1, TypeStep, JobStep, PassStep DEF DInv, Next
  <1>3. DInv => DescribedIntact
    BY DEF DInv
  <1> QED BY <1>1, <1>2, <1>3, PTL DEF Spec
=============================================================================
