--------------------------- MODULE IngestionProofs ---------------------------
(***************************************************************************)
(* Theorems about Ingestion for every number of documents, workers, jobs,  *)
(* attempts, crashes and deletes.                                          *)
(*                                                                         *)
(* RowsInv holds whatever the workers' speed: it ties the rows of the      *)
(* three tables together and gives TypeOK and DeleteIsComplete.  ClaimInv  *)
(* needs a worker that lives to finish within LOCK_TIMEOUT (~Overrun): it  *)
(* adds that a claim belongs to one live worker, and gives                 *)
(* OneWorkerPerJob and TerminalIsFinal.                                    *)
(***************************************************************************)
EXTENDS Ingestion, TLAPS

\* A worker is busy with a job whose row has been created, or has no job.
TaskInv ==
    \A w \in Workers :
        IF pc[w] \in Busy
          THEN task[w] \in Generations /\ job[task[w][1]].status # "none"
          ELSE task[w] = None

\* Every row that has been created belongs to a document.
JobInv ==
    /\ \A j \in Jobs : job[j].status # "none" =>
         job[j].doc \in Docs /\ doc[job[j].doc] # "absent"
    /\ \A j \in Jobs : j > nj => job[j].status = "none"

\* A job row goes only with its document.
GoneInv == \A j \in Jobs : job[j].status = "gone" => doc[job[j].doc] = "deleted"

\* The row lock keeps the document of an open transaction in place.
LockInv == \A w \in Workers : pc[w] \in InTxn => doc[DocOf(w)] \in DocLive

RowsInv == TypeOK /\ TaskInv /\ JobInv /\ GoneInv /\ LockInv /\ DeleteIsComplete

USE JobsAssumption, AttemptsAssumption, BoundsAssumption, SwitchesAssumption

\* What the parts of the state space have to do with each other.
LEMMA Vocabulary ==
    /\ Busy \cap (Down \cup {"idle"}) = {}
    /\ InTxn \subseteq Busy
    /\ JobActive \subseteq JobStatus
    /\ "none" \notin JobStatus
    /\ "gone" \notin JobStatus
    /\ "absent" \notin DocLive
    /\ "deleted" \notin DocLive
    /\ None \notin Generations
    /\ \A g \in Generations : g[1] \in Jobs /\ g[2] \in Nat
  BY DEF Busy, Down, InTxn, Recording, JobActive, JobTerminal, JobStatus, DocLive,
         None, Generations, Jobs

LEMMA RowsInvInit == Init => RowsInv
  BY DEF Init, RowsInv, TypeOK, TaskInv, JobInv, GoneInv, LockInv,
         DeleteIsComplete, NoRow, Unseen, Busy, Down, InTxn, Recording, JobRow,
         JobStatus, JobActive, JobTerminal, DocLive, DocOf, None, Jobs

\* The job of a busy worker is a row that was created for a document.
LEMMA BusyTask ==
  ASSUME RowsInv, NEW w \in Workers, pc[w] \in Busy
  PROVE  /\ task[w] \in Generations /\ task[w][1] \in Jobs
         /\ job[task[w][1]].status # "none"
         /\ DocOf(w) \in Docs
  BY Vocabulary DEF RowsInv, TaskInv, JobInv, DocOf

\* Upload and the outcomes of a reindex request keep the rows consistent.
LEMMA RowsInvRequests ==
  ASSUME RowsInv, NEW d \in Docs,
         \/ Upload(d)
         \/ ReindexLoad(d)
         \/ ReindexCommit(d)
         \/ ReindexRefused(d)
  PROVE  RowsInv'
<1> USE DEF RowsInv
<1>1. CASE Upload(d)
  <2>1. TypeOK'
    BY <1>1 DEF Upload, InsertJob, JobStatus, JobActive, DocLive, Jobs, TypeOK, workerVars, apiVars
  <2>2. TaskInv'
    BY <1>1, Vocabulary DEF Upload, InsertJob, JobStatus, JobActive, DocLive, Jobs, TaskInv, TypeOK, workerVars, Busy, Down, InTxn, Recording
  <2>3. JobInv'
    BY <1>1 DEF Upload, InsertJob, JobStatus, JobActive, DocLive, Jobs, JobInv, TypeOK
  <2>4. GoneInv'
    BY <1>1 DEF Upload, InsertJob, JobStatus, JobActive, DocLive, Jobs, GoneInv, TypeOK, JobInv
  <2>5. LockInv'
    BY <1>1, Vocabulary DEF Upload, InsertJob, JobStatus, JobActive, DocLive, Jobs, LockInv, TypeOK, TaskInv, JobInv, workerVars, DocOf, InTxn
  <2>6. DeleteIsComplete'
    BY <1>1, Vocabulary DEF Upload, InsertJob, JobStatus, JobActive, DocLive, Jobs, DeleteIsComplete, TypeOK, JobInv, LockInv, JobRow, DocOf
  <2> QED BY <2>1, <2>2, <2>3, <2>4, <2>5, <2>6
<1>2. CASE ReindexLoad(d)
  <2>1. TypeOK'
    BY <1>2 DEF ReindexLoad, DocLive, TypeOK, workerVars, apiVars
  <2>2. TaskInv'
    BY <1>2, Vocabulary DEF ReindexLoad, DocLive, TaskInv, TypeOK, workerVars, Busy, Down, InTxn, Recording
  <2>3. JobInv'
    BY <1>2 DEF ReindexLoad, DocLive, JobInv, TypeOK, Jobs
  <2>4. GoneInv'
    BY <1>2 DEF ReindexLoad, DocLive, GoneInv, TypeOK, JobInv
  <2>5. LockInv'
    BY <1>2, Vocabulary DEF ReindexLoad, DocLive, LockInv, TypeOK, TaskInv, JobInv, workerVars, DocOf, InTxn
  <2>6. DeleteIsComplete'
    BY <1>2, Vocabulary DEF ReindexLoad, DocLive, DeleteIsComplete, TypeOK, JobInv, LockInv, JobRow, DocOf
  <2> QED BY <2>1, <2>2, <2>3, <2>4, <2>5, <2>6
<1>3. CASE ReindexCommit(d)
  <2>1. TypeOK'
    BY <1>3 DEF ReindexCommit, InsertJob, OrmWrite, JobStatus, JobActive, DocLive, Jobs, TypeOK, workerVars, apiVars
  <2>2. TaskInv'
    BY <1>3, Vocabulary DEF ReindexCommit, InsertJob, OrmWrite, JobStatus, JobActive, DocLive, Jobs, TaskInv, TypeOK, workerVars, Busy, Down, InTxn, Recording
  <2>3. JobInv'
    BY <1>3 DEF ReindexCommit, InsertJob, OrmWrite, JobStatus, JobActive, DocLive, Jobs, JobInv, TypeOK
  <2>4. GoneInv'
    BY <1>3 DEF ReindexCommit, InsertJob, OrmWrite, JobStatus, JobActive, DocLive, Jobs, GoneInv, TypeOK, JobInv
  <2>5. LockInv'
    BY <1>3, Vocabulary DEF ReindexCommit, InsertJob, OrmWrite, JobStatus, JobActive, DocLive, Jobs, LockInv, TypeOK, TaskInv, JobInv, workerVars, DocOf, InTxn
  <2>6. DeleteIsComplete'
    BY <1>3, Vocabulary DEF ReindexCommit, InsertJob, OrmWrite, JobStatus, JobActive, DocLive, Jobs, DeleteIsComplete, TypeOK, JobInv, LockInv, JobRow, DocOf
  <2> QED BY <2>1, <2>2, <2>3, <2>4, <2>5, <2>6
<1>4. CASE ReindexRefused(d)
  <2>1. TypeOK'
    BY <1>4 DEF ReindexRefused, TypeOK, workerVars, apiVars
  <2>2. TaskInv'
    BY <1>4, Vocabulary DEF ReindexRefused, TaskInv, TypeOK, workerVars, Busy, Down, InTxn, Recording
  <2>3. JobInv'
    BY <1>4 DEF ReindexRefused, JobInv, TypeOK, Jobs, DocLive
  <2>4. GoneInv'
    BY <1>4 DEF ReindexRefused, GoneInv, TypeOK, JobInv
  <2>5. LockInv'
    BY <1>4, Vocabulary DEF ReindexRefused, LockInv, TypeOK, TaskInv, JobInv, workerVars, DocOf, InTxn, DocLive
  <2>6. DeleteIsComplete'
    BY <1>4, Vocabulary DEF ReindexRefused, DeleteIsComplete, TypeOK, JobInv, LockInv, JobRow, DocOf, DocLive
  <2> QED BY <2>1, <2>2, <2>3, <2>4, <2>5, <2>6
<1> QED BY <1>1, <1>2, <1>3, <1>4

\* So do the steps of a delete request.
LEMMA RowsInvDelete ==
  ASSUME RowsInv, NEW d \in Docs,
         \/ DeleteVectors(d)
         \/ DeleteRows(d)
         \/ DeleteCommit(d)
         \/ DeleteAbort(d)
  PROVE  RowsInv'
<1> USE DEF RowsInv
<1>1. CASE DeleteVectors(d)
  <2>1. TypeOK'
    <3>1. points' \in [Docs -> SUBSET Generations]
      BY <1>1 DEF DeleteVectors, TypeOK
    <3>2. del' \in [Docs -> {"none", "vectors", "rows", "aborted"}]
      BY <1>1 DEF DeleteVectors, TypeOK
    <3> QED BY <1>1, <3>1, <3>2 DEF DeleteVectors, TypeOK, workerVars
  <2>2. TaskInv'
    BY <1>1, Vocabulary DEF DeleteVectors, TaskInv, TypeOK, workerVars, Busy, Down, InTxn, Recording
  <2>3. JobInv'
    BY <1>1 DEF DeleteVectors, JobInv, TypeOK, Jobs, DocLive
  <2>4. GoneInv'
    BY <1>1 DEF DeleteVectors, GoneInv, TypeOK, JobInv
  <2>5. LockInv'
    BY <1>1, Vocabulary DEF DeleteVectors, LockInv, TypeOK, TaskInv, JobInv, workerVars, DocOf, InTxn, DocLive
  <2>6. DeleteIsComplete'
    BY <1>1, Vocabulary DEF DeleteVectors, DeleteIsComplete, TypeOK, JobInv, LockInv, JobRow, DocOf, DocLive
  <2> QED BY <2>1, <2>2, <2>3, <2>4, <2>5, <2>6
<1>2. CASE DeleteRows(d)
  <2>1. TypeOK'
    BY <1>2 DEF DeleteRows, TypeOK, workerVars, apiVars
  <2>2. TaskInv'
    BY <1>2, Vocabulary DEF DeleteRows, TaskInv, TypeOK, workerVars, Busy, Down, InTxn, Recording
  <2>3. JobInv'
    BY <1>2 DEF DeleteRows, JobInv, TypeOK, Jobs, DocLive
  <2>4. GoneInv'
    BY <1>2 DEF DeleteRows, GoneInv, TypeOK, JobInv
  <2>5. LockInv'
    BY <1>2, Vocabulary DEF DeleteRows, LockInv, TypeOK, TaskInv, JobInv, workerVars, DocOf, InTxn, DocLive
  <2>6. DeleteIsComplete'
    BY <1>2, Vocabulary DEF DeleteRows, DeleteIsComplete, TypeOK, JobInv, LockInv, JobRow, DocOf, DocLive
  <2> QED BY <2>1, <2>2, <2>3, <2>4, <2>5, <2>6
<1>3. CASE DeleteCommit(d)
  <2>j. job' \in [Jobs -> [doc : Docs \cup {"none"},
                               status : JobStatus \cup {"none", "gone"},
                               attempt : Nat, lockedAt : {"null", "recent", "old"}]]
    BY <1>3 DEF DeleteCommit, Holders, TypeOK, None
  <2>1. TypeOK'
    BY <1>3, <2>j DEF DeleteCommit, Holders, TypeOK, None, workerVars, apiVars
  <2>2. TaskInv'
    BY <1>3, Vocabulary DEF DeleteCommit, Holders, TaskInv, TypeOK, workerVars, Busy, Down, InTxn, Recording
  <2>3. JobInv'
    BY <1>3, Vocabulary DEF DeleteCommit, JobInv, TypeOK, Jobs, JobRow
  <2>4. GoneInv'
    BY <1>3 DEF DeleteCommit, Holders, GoneInv, TypeOK, JobInv
  <2>5. LockInv'
    BY <1>3, Vocabulary DEF DeleteCommit, Holders, LockInv, TypeOK, TaskInv, JobInv, workerVars, DocOf, InTxn, DocLive
  <2>6. DeleteIsComplete'
    BY <1>3, Vocabulary DEF DeleteCommit, Holders, DeleteIsComplete, TypeOK, JobInv, LockInv, JobRow, DocOf, DocLive
  <2> QED BY <2>1, <2>2, <2>3, <2>4, <2>5, <2>6
<1>4. CASE DeleteAbort(d)
  <2>1. TypeOK'
    BY <1>4 DEF DeleteAbort, TypeOK, workerVars, apiVars
  <2>2. TaskInv'
    BY <1>4, Vocabulary DEF DeleteAbort, TaskInv, TypeOK, workerVars, Busy, Down, InTxn, Recording
  <2>3. JobInv'
    BY <1>4 DEF DeleteAbort, JobInv, TypeOK, Jobs, DocLive
  <2>4. GoneInv'
    BY <1>4 DEF DeleteAbort, GoneInv, TypeOK, JobInv
  <2>5. LockInv'
    BY <1>4, Vocabulary DEF DeleteAbort, LockInv, TypeOK, TaskInv, JobInv, workerVars, DocOf, InTxn, DocLive
  <2>6. DeleteIsComplete'
    BY <1>4, Vocabulary DEF DeleteAbort, DeleteIsComplete, TypeOK, JobInv, LockInv, JobRow, DocOf, DocLive
  <2> QED BY <2>1, <2>2, <2>3, <2>4, <2>5, <2>6
<1> QED BY <1>1, <1>2, <1>3, <1>4

\* So does the passing of LOCK_TIMEOUT.
LEMMA RowsInvLockExpires ==
  ASSUME RowsInv, NEW j \in Jobs,
         LockExpires(j)
  PROVE  RowsInv'
<1> USE DEF RowsInv
<1>1. CASE LockExpires(j)
  <2>j. job' \in [Jobs -> [doc : Docs \cup {"none"},
                               status : JobStatus \cup {"none", "gone"},
                               attempt : Nat, lockedAt : {"null", "recent", "old"}]]
    BY <1>1 DEF LockExpires, TypeOK
  <2>1. TypeOK'
    BY <1>1, <2>j DEF LockExpires, TypeOK, workerVars, apiVars
  <2>2. TaskInv'
    BY <1>1, Vocabulary DEF LockExpires, TaskInv, TypeOK, workerVars, Busy, Down, InTxn, Recording
  <2>3. JobInv'
    BY <1>1 DEF LockExpires, JobInv, TypeOK, Jobs, DocLive
  <2>4. GoneInv'
    BY <1>1 DEF LockExpires, GoneInv, TypeOK, JobInv
  <2>5. LockInv'
    BY <1>1, Vocabulary DEF LockExpires, LockInv, TypeOK, TaskInv, JobInv, workerVars, DocOf, InTxn, DocLive
  <2>6. DeleteIsComplete'
    BY <1>1, Vocabulary DEF LockExpires, DeleteIsComplete, TypeOK, JobInv, LockInv, JobRow, DocOf, DocLive
  <2> QED BY <2>1, <2>2, <2>3, <2>4, <2>5, <2>6
<1> QED BY <1>1

\* So do the steps of a worker up to its commit.
LEMMA RowsInvProgress ==
  ASSUME RowsInv, NEW w \in Workers,
         \/ Claim(w)
         \/ LoadDocument(w)
         \/ LockDocument(w)
         \/ RewriteChunks(w)
         \/ WipeVectors(w)
         \/ UpsertVectors(w)
         \/ UpsertUnanswered(w)
         \/ Fail(w)
         \/ ReadJob(w)
         \/ ReadDocument(w)
  PROVE  RowsInv'
<1> USE DEF RowsInv
<1>1. CASE Claim(w)
  <2>p. PICK j \in Jobs :
          /\ Claimable(j)
          /\ task' = [task EXCEPT ![w] = <<j, job[j].attempt + 1>>]
          /\ job' = [job EXCEPT ![j] =
               [doc |-> job[j].doc, status |-> "processing",
                attempt |-> job[j].attempt + 1, lockedAt |-> "recent"]]
    BY <1>1 DEF Claim, TypeOK
  <2>1. TypeOK'
    BY <1>1, <2>p DEF Claim, Step, Claimable, TypeOK, Busy, Generations, JobStatus, JobActive, workerVars, apiVars
  <2>2. TaskInv'
    BY <1>1, <2>p, <2>1 DEF TypeOK, TaskInv, Claim, Step, Busy, Generations
  <2>3. JobInv'
    BY <1>1, <2>p DEF Claim, Step, Claimable, JobInv, TypeOK, Jobs, DocLive
  <2>4. GoneInv'
    BY <1>1, <2>p DEF Claim, Step, Claimable, GoneInv, TypeOK, JobInv
  <2>5. LockInv'
    BY <1>1, <2>p, Vocabulary DEF Claim, Step, Claimable, LockInv, TypeOK, TaskInv, JobInv, workerVars, DocOf, InTxn, DocLive
  <2>6. DeleteIsComplete'
    BY <1>1, <2>p DEF TypeOK, DeleteIsComplete, Claim, Claimable, JobRow, JobStatus, JobActive
  <2> QED BY <2>1, <2>2, <2>3, <2>4, <2>5, <2>6
<1>2. CASE LoadDocument(w)
  <2>1. TypeOK'
    BY <1>2 DEF LoadDocument, Step, TypeOK, Busy, workerVars, apiVars
  <2>2. TaskInv'
    BY <1>2, Vocabulary DEF LoadDocument, Step, TaskInv, TypeOK, workerVars, Busy, Down, InTxn, Recording
  <2>3. JobInv'
    BY <1>2 DEF LoadDocument, Step, JobInv, TypeOK, Jobs, DocLive
  <2>4. GoneInv'
    BY <1>2 DEF LoadDocument, Step, GoneInv, TypeOK, JobInv
  <2>5. LockInv'
    BY <1>2, Vocabulary DEF LoadDocument, Step, LockInv, TypeOK, TaskInv, JobInv, workerVars, DocOf, InTxn, DocLive
  <2>6. DeleteIsComplete'
    BY <1>2, Vocabulary DEF LoadDocument, Step, DeleteIsComplete, TypeOK, JobInv, LockInv, JobRow, DocOf, DocLive
  <2> QED BY <2>1, <2>2, <2>3, <2>4, <2>5, <2>6
<1>3. CASE LockDocument(w)
  <2>1. TypeOK'
    BY <1>3 DEF LockDocument, Step, TypeOK, Busy, InTxn, workerVars, apiVars
  <2>2. TaskInv'
    BY <1>3, Vocabulary DEF LockDocument, Step, TaskInv, TypeOK, workerVars, Busy, Down, InTxn, Recording
  <2>3. JobInv'
    BY <1>3 DEF LockDocument, Step, JobInv, TypeOK, Jobs, DocLive
  <2>4. GoneInv'
    BY <1>3 DEF LockDocument, Step, GoneInv, TypeOK, JobInv
  <2>5. LockInv'
    BY <1>3, Vocabulary DEF LockDocument, Step, LockInv, TypeOK, TaskInv, JobInv, workerVars, DocOf, InTxn, DocLive
  <2>6. DeleteIsComplete'
    BY <1>3, Vocabulary DEF LockDocument, Step, DeleteIsComplete, TypeOK, JobInv, LockInv, JobRow, DocOf, DocLive
  <2> QED BY <2>1, <2>2, <2>3, <2>4, <2>5, <2>6
<1>4. CASE RewriteChunks(w)
  <2>1. TypeOK'
    BY <1>4 DEF RewriteChunks, Step, TypeOK, Busy, InTxn, workerVars, apiVars
  <2>2. TaskInv'
    BY <1>4, Vocabulary DEF RewriteChunks, Step, TaskInv, TypeOK, workerVars, Busy, Down, InTxn, Recording
  <2>3. JobInv'
    BY <1>4 DEF RewriteChunks, Step, JobInv, TypeOK, Jobs, DocLive
  <2>4. GoneInv'
    BY <1>4 DEF RewriteChunks, Step, GoneInv, TypeOK, JobInv
  <2>5. LockInv'
    BY <1>4, Vocabulary DEF RewriteChunks, Step, LockInv, TypeOK, TaskInv, JobInv, workerVars, DocOf, InTxn, DocLive
  <2>6. DeleteIsComplete'
    BY <1>4, Vocabulary DEF RewriteChunks, Step, DeleteIsComplete, TypeOK, JobInv, LockInv, JobRow, DocOf, DocLive
  <2> QED BY <2>1, <2>2, <2>3, <2>4, <2>5, <2>6
<1>5. CASE WipeVectors(w)
  <2>b. pc[w] \in Busy
    BY <1>5 DEF WipeVectors, Step, Busy, InTxn, Recording
  <2>1. TypeOK'
    BY <1>5, <2>b, BusyTask DEF WipeVectors, Step, TypeOK, Busy, InTxn, workerVars, apiVars
  <2>2. TaskInv'
    BY <1>5, <2>b, BusyTask, Vocabulary DEF WipeVectors, Step, TaskInv, TypeOK, workerVars, Busy, Down, InTxn, Recording
  <2>3. JobInv'
    BY <1>5, <2>b, BusyTask DEF WipeVectors, Step, JobInv, TypeOK, Jobs, DocLive
  <2>4. GoneInv'
    BY <1>5, <2>b, BusyTask DEF WipeVectors, Step, GoneInv, TypeOK, JobInv
  <2>5. LockInv'
    BY <1>5, <2>b, BusyTask, Vocabulary DEF WipeVectors, Step, LockInv, TypeOK, TaskInv, JobInv, workerVars, DocOf, InTxn, DocLive
  <2>6. DeleteIsComplete'
    BY <1>5, <2>b, BusyTask, Vocabulary DEF WipeVectors, Step, DeleteIsComplete, TypeOK, JobInv, LockInv, JobRow, DocOf, DocLive
  <2> QED BY <2>1, <2>2, <2>3, <2>4, <2>5, <2>6
<1>6. CASE UpsertVectors(w)
  <2>b. pc[w] \in Busy
    BY <1>6 DEF UpsertVectors, Step, Busy, InTxn, Recording
  <2>1. TypeOK'
    BY <1>6, <2>b, BusyTask DEF UpsertVectors, Step, AddPoints, TypeOK, Busy, InTxn, workerVars, apiVars
  <2>2. TaskInv'
    BY <1>6, <2>b, BusyTask, Vocabulary DEF UpsertVectors, Step, AddPoints, TaskInv, TypeOK, workerVars, Busy, Down, InTxn, Recording
  <2>3. JobInv'
    BY <1>6, <2>b, BusyTask DEF UpsertVectors, Step, AddPoints, JobInv, TypeOK, Jobs, DocLive
  <2>4. GoneInv'
    BY <1>6, <2>b, BusyTask DEF UpsertVectors, Step, AddPoints, GoneInv, TypeOK, JobInv
  <2>5. LockInv'
    BY <1>6, <2>b, BusyTask, Vocabulary DEF UpsertVectors, Step, AddPoints, LockInv, TypeOK, TaskInv, JobInv, workerVars, DocOf, InTxn, DocLive
  <2>6. DeleteIsComplete'
    BY <1>6, <2>b, BusyTask, Vocabulary DEF UpsertVectors, Step, AddPoints, DeleteIsComplete, TypeOK, JobInv, LockInv, JobRow, DocOf, DocLive
  <2> QED BY <2>1, <2>2, <2>3, <2>4, <2>5, <2>6
<1>7. CASE UpsertUnanswered(w)
  <2>b. pc[w] \in Busy
    BY <1>7 DEF UpsertUnanswered, Step, Busy, InTxn, Recording
  <2>1. TypeOK'
    BY <1>7, <2>b, BusyTask DEF UpsertUnanswered, Step, AddPoints, TypeOK, Busy, InTxn, Recording, workerVars, apiVars
  <2>2. TaskInv'
    BY <1>7, <2>b, BusyTask, Vocabulary DEF UpsertUnanswered, Step, AddPoints, TaskInv, TypeOK, workerVars, Busy, Down, InTxn, Recording
  <2>3. JobInv'
    BY <1>7, <2>b, BusyTask DEF UpsertUnanswered, Step, AddPoints, JobInv, TypeOK, Jobs, DocLive
  <2>4. GoneInv'
    BY <1>7, <2>b, BusyTask DEF UpsertUnanswered, Step, AddPoints, GoneInv, TypeOK, JobInv
  <2>5. LockInv'
    BY <1>7, <2>b, BusyTask, Vocabulary DEF UpsertUnanswered, Step, AddPoints, LockInv, TypeOK, TaskInv, JobInv, workerVars, DocOf, InTxn, DocLive
  <2>6. DeleteIsComplete'
    BY <1>7, <2>b, BusyTask, Vocabulary DEF UpsertUnanswered, Step, AddPoints, DeleteIsComplete, TypeOK, JobInv, LockInv, JobRow, DocOf, DocLive
  <2> QED BY <2>1, <2>2, <2>3, <2>4, <2>5, <2>6
<1>8. CASE Fail(w)
  <2>1. TypeOK'
    BY <1>8 DEF Fail, TypeOK, Busy, InTxn, Recording, workerVars, apiVars
  <2>2. TaskInv'
    BY <1>8, Vocabulary DEF Fail, TaskInv, TypeOK, workerVars, Busy, Down, InTxn, Recording
  <2>3. JobInv'
    BY <1>8 DEF Fail, JobInv, TypeOK, Jobs, DocLive
  <2>4. GoneInv'
    BY <1>8 DEF Fail, GoneInv, TypeOK, JobInv
  <2>5. LockInv'
    BY <1>8, Vocabulary DEF Fail, LockInv, TypeOK, TaskInv, JobInv, workerVars, DocOf, InTxn, DocLive
  <2>6. DeleteIsComplete'
    BY <1>8, Vocabulary DEF Fail, DeleteIsComplete, TypeOK, JobInv, LockInv, JobRow, DocOf, DocLive
  <2> QED BY <2>1, <2>2, <2>3, <2>4, <2>5, <2>6
<1>9. CASE ReadJob(w)
  <2>b. pc[w] \in Busy
    BY <1>9 DEF ReadJob, Step, Busy, InTxn, Recording
  <2>1. TypeOK'
    <3>1. pc' \in [Workers -> Busy \cup Down \cup {"idle"}]
      BY <1>9 DEF ReadJob, Finish, TypeOK, Busy, Recording
    <3>2. seen' \in [Workers -> [status : JobStatus \cup {"none"}, attempt : Nat,
                                doc : {"absent", "deleted"} \cup DocLive]]
      BY <1>9, <2>b, BusyTask DEF ReadJob, Finish, TypeOK, Unseen, JobRow
    <3>3. task' \in [Workers -> Generations \cup {None}] /\ losses' \in Nat
      BY <1>9 DEF ReadJob, Finish, TypeOK
    <3>4. UNCHANGED <<doc, chunks, points, job, nj, reindex, del, held, deletes>>
      BY <1>9 DEF ReadJob, apiVars
    <3> QED BY <3>1, <3>2, <3>3, <3>4 DEF TypeOK
  <2>2. TaskInv'
    <3>1. CASE task' = task
      <4>1. pc' = [pc EXCEPT ![w] = "jobread"] /\ job' = job
        BY <1>9, <2>b, <3>1, BusyTask DEF ReadJob, Finish, TypeOK, Generations, Jobs, None
      <4> QED BY <2>b, <3>1, <4>1 DEF TaskInv, TypeOK, Busy, Recording
    <3>2. CASE task' # task
      <4>1. pc' = [pc EXCEPT ![w] = "idle"] /\ task' = [task EXCEPT ![w] = None] /\ job' = job
        BY <1>9, <3>2 DEF ReadJob, Finish
      <4> QED BY <4>1, Vocabulary DEF TaskInv, TypeOK
    <3> QED BY <3>1, <3>2
  <2>3. JobInv'
    BY <1>9, <2>b, BusyTask DEF ReadJob, Finish, Unseen, JobInv, TypeOK, Jobs, DocLive
  <2>4. GoneInv'
    BY <1>9, <2>b, BusyTask DEF ReadJob, Finish, Unseen, GoneInv, TypeOK, JobInv
  <2>5. LockInv'
    BY <1>9, <2>b, BusyTask, Vocabulary DEF TypeOK, LockInv, TaskInv, ReadJob, Finish, DocOf, InTxn
  <2>6. DeleteIsComplete'
    BY <1>9, <2>b, BusyTask, Vocabulary DEF ReadJob, Finish, Unseen, DeleteIsComplete, TypeOK, JobInv, LockInv, JobRow, DocOf, DocLive
  <2> QED BY <2>1, <2>2, <2>3, <2>4, <2>5, <2>6
<1>10. CASE ReadDocument(w)
  <2>b. pc[w] \in Busy
    BY <1>10 DEF ReadDocument, Step, Busy, InTxn, Recording
  <2>1. TypeOK'
    BY <1>10, <2>b, BusyTask DEF ReadDocument, Step, TypeOK, Busy, Recording, workerVars, apiVars
  <2>2. TaskInv'
    BY <1>10, <2>b, BusyTask, Vocabulary DEF ReadDocument, Step, TaskInv, TypeOK, workerVars, Busy, Down, InTxn, Recording
  <2>3. JobInv'
    BY <1>10, <2>b, BusyTask DEF ReadDocument, Step, JobInv, TypeOK, Jobs, DocLive
  <2>4. GoneInv'
    BY <1>10, <2>b, BusyTask DEF ReadDocument, Step, GoneInv, TypeOK, JobInv
  <2>5. LockInv'
    BY <1>10, <2>b, BusyTask, Vocabulary DEF ReadDocument, Step, LockInv, TypeOK, TaskInv, JobInv, workerVars, DocOf, InTxn, DocLive
  <2>6. DeleteIsComplete'
    BY <1>10, <2>b, BusyTask, Vocabulary DEF ReadDocument, Step, DeleteIsComplete, TypeOK, JobInv, LockInv, JobRow, DocOf, DocLive
  <2> QED BY <2>1, <2>2, <2>3, <2>4, <2>5, <2>6
<1> QED BY <1>1, <1>2, <1>3, <1>4, <1>5, <1>6, <1>7, <1>8, <1>9, <1>10

\* So do the ways an attempt ends.
LEMMA RowsInvEnd ==
  ASSUME RowsInv, NEW w \in Workers,
         \/ DocumentMissing(w)
         \/ CommitIndexed(w)
         \/ Record(w)
         \/ RecordRaises(w)
  PROVE  RowsInv'
<1> USE DEF RowsInv
<1>1. CASE DocumentMissing(w)
  <2>b. pc[w] \in Busy
    BY <1>1 DEF DocumentMissing, Step, Busy, InTxn, Recording
  <2>p. Raise(w) /\ UNCHANGED job
    BY <1>1, <2>b, BusyTask DEF DocumentMissing, JobInv, DeleteIsComplete, TypeOK, DocOf, JobRow
  <2>1. TypeOK'
    BY <1>1, <2>b, BusyTask, <2>p DEF DocumentMissing, Raise, Unseen, TypeOK, Down, workerVars, apiVars
  <2>2. TaskInv'
    BY <1>1, <2>b, BusyTask, <2>p, Vocabulary DEF DocumentMissing, Raise, Unseen, TaskInv, TypeOK, workerVars, Busy, Down, InTxn, Recording
  <2>3. JobInv'
    BY <1>1, <2>b, BusyTask, <2>p DEF DocumentMissing, Raise, Unseen, JobInv, TypeOK, Jobs, DocLive
  <2>4. GoneInv'
    BY <1>1, <2>b, BusyTask, <2>p DEF DocumentMissing, Raise, Unseen, GoneInv, TypeOK, JobInv
  <2>5. LockInv'
    BY <1>1, <2>b, BusyTask, <2>p, Vocabulary DEF DocumentMissing, Raise, Unseen, LockInv, TypeOK, TaskInv, JobInv, workerVars, DocOf, InTxn, DocLive
  <2>6. DeleteIsComplete'
    BY <1>1, <2>b, BusyTask, <2>p, Vocabulary DEF DocumentMissing, Raise, Unseen, DeleteIsComplete, TypeOK, JobInv, LockInv, JobRow, DocOf, DocLive
  <2> QED BY <2>1, <2>2, <2>3, <2>4, <2>5, <2>6
<1>2. CASE CommitIndexed(w)
  <2>b. pc[w] \in Busy
    BY <1>2 DEF CommitIndexed, Step, Busy, InTxn, Recording
  <2>j. job' \in [Jobs -> [doc : Docs \cup {"none"},
                               status : JobStatus \cup {"none", "gone"},
                               attempt : Nat, lockedAt : {"null", "recent", "old"}]]
    <3>1. job' = [job EXCEPT ![task[w][1]].status = "succeeded"]
      BY <1>2 DEF CommitIndexed
    <3>2. job \in [Jobs -> [doc : Docs \cup {"none"}, status : JobStatus \cup {"none", "gone"},
                           attempt : Nat, lockedAt : {"null", "recent", "old"}]]
      BY DEF TypeOK
    <3> QED BY <3>1, <3>2 DEF JobStatus, JobTerminal
  <2>1. TypeOK'
    <3>1. /\ doc' \in [Docs -> {"absent", "deleted"} \cup DocLive]
          /\ chunks' \in [Docs -> Generations \cup {None}]
      BY <1>2, <2>b, BusyTask DEF CommitIndexed, TypeOK, DocLive
    <3>2. /\ pc' \in [Workers -> Busy \cup Down \cup {"idle"}]
          /\ task' \in [Workers -> Generations \cup {None}]
          /\ seen' \in [Workers -> [status : JobStatus \cup {"none"}, attempt : Nat,
                                   doc : {"absent", "deleted"} \cup DocLive]]
      BY <1>2 DEF CommitIndexed, Finish, Unseen, TypeOK
    <3>3. UNCHANGED <<points, nj, reindex, del, held, losses, deletes>>
      BY <1>2 DEF CommitIndexed, Finish, apiVars
    <3> QED BY <2>j, <3>1, <3>2, <3>3 DEF TypeOK
  <2>2. TaskInv'
    BY <1>2, <2>b, BusyTask, Vocabulary DEF CommitIndexed, Finish, Unseen, TaskInv, TypeOK, workerVars, Busy, Down, InTxn, Recording
  <2>3. JobInv'
    BY <1>2, <2>b, BusyTask DEF CommitIndexed, JobInv, TypeOK, Jobs, DocOf
  <2>4. GoneInv'
    BY <1>2, <2>b, BusyTask, Vocabulary DEF CommitIndexed, GoneInv, LockInv, TypeOK, DocOf, InTxn
  <2>5. LockInv'
    BY <1>2, <2>b, BusyTask, Vocabulary DEF CommitIndexed, Finish, Unseen, LockInv, TypeOK, TaskInv, JobInv, workerVars, DocOf, InTxn, DocLive
  <2>6. DeleteIsComplete'
    BY <1>2, <2>b, BusyTask, Vocabulary DEF CommitIndexed, Finish, Unseen, DeleteIsComplete, TypeOK, JobInv, LockInv, JobRow, DocOf, DocLive
  <2> QED BY <2>1, <2>2, <2>3, <2>4, <2>5, <2>6
<1>3. CASE Record(w)
  <2>b. pc[w] \in Busy
    BY <1>3 DEF Record, Step, Busy, InTxn, Recording
  <2>p. /\ JobRow(task[w][1])
         /\ job' = [job EXCEPT ![task[w][1]] =
              [doc |-> job[task[w][1]].doc, status |-> NewStatus(w),
               attempt |-> job[task[w][1]].attempt,
               lockedAt |-> IF NewStatus(w) = "processing"
                            THEN job[task[w][1]].lockedAt ELSE "null"]]
         /\ doc' = [doc EXCEPT ![DocOf(w)] =
                          IF WritesDoc(w) THEN Outcome(w) ELSE doc[DocOf(w)]]
         /\ Finish(w)
         /\ UNCHANGED chunks
         /\ UNCHANGED nj
    BY <1>3 DEF Record, Unrecordable
  <2>d. NewStatus(w) \in JobStatus /\ Outcome(w) \in DocLive
    BY <2>b, <2>p, BusyTask DEF NewStatus, OrmWrite, Outcome, JobRow, JobStatus,
         JobActive, JobTerminal, DocLive
  <2>j. job' \in [Jobs -> [doc : Docs \cup {"none"},
                               status : JobStatus \cup {"none", "gone"},
                               attempt : Nat, lockedAt : {"null", "recent", "old"}]]
    BY <1>3, <2>b, BusyTask, <2>p DEF Record, Finish, Unseen, Unrecordable, NewStatus, OrmWrite, WritesDoc, Outcome, TypeOK, JobStatus, JobActive, JobTerminal, DocLive
  <2>1. TypeOK'
    BY <1>3, <2>b, BusyTask, <2>p, <2>j DEF Record, Finish, Unseen, Unrecordable, NewStatus, OrmWrite, WritesDoc, Outcome, TypeOK, JobStatus, JobActive, JobTerminal, DocLive, workerVars, apiVars
  <2>2. TaskInv'
    BY <1>3, <2>b, BusyTask, <2>p, Vocabulary DEF Record, Finish, Unseen, Unrecordable, NewStatus, OrmWrite, WritesDoc, Outcome, TaskInv, TypeOK, workerVars, Busy, Down, InTxn, Recording
  <2>3. JobInv'
    BY <2>b, <2>p, <2>d, BusyTask, Vocabulary DEF JobInv, TypeOK, DocOf, JobRow, Jobs, DocLive
  <2>4. GoneInv'
    BY <2>b, <2>p, <2>d, BusyTask, Vocabulary DEF GoneInv, DeleteIsComplete, TypeOK, DocOf
  <2>5. LockInv'
    BY <2>b, <2>p, <2>d, BusyTask, Vocabulary DEF LockInv, TaskInv, TypeOK, DocOf, InTxn, Finish
  <2>6. DeleteIsComplete'
    BY <2>b, <2>p, <2>d, BusyTask, Vocabulary DEF DeleteIsComplete, TypeOK, DocOf, JobRow
  <2> QED BY <2>1, <2>2, <2>3, <2>4, <2>5, <2>6
<1>4. CASE RecordRaises(w)
  <2>1. TypeOK'
    BY <1>4 DEF RecordRaises, Raise, Unseen, TypeOK, Down, workerVars, apiVars
  <2>2. TaskInv'
    BY <1>4, Vocabulary DEF RecordRaises, Raise, Unseen, TaskInv, TypeOK, workerVars, Busy, Down, InTxn, Recording
  <2>3. JobInv'
    BY <1>4 DEF RecordRaises, Raise, Unseen, JobInv, TypeOK, Jobs, DocLive
  <2>4. GoneInv'
    BY <1>4 DEF RecordRaises, Raise, Unseen, GoneInv, TypeOK, JobInv
  <2>5. LockInv'
    BY <1>4, Vocabulary DEF RecordRaises, Raise, Unseen, LockInv, TypeOK, TaskInv, JobInv, workerVars, DocOf, InTxn, DocLive
  <2>6. DeleteIsComplete'
    BY <1>4, Vocabulary DEF RecordRaises, Raise, Unseen, DeleteIsComplete, TypeOK, JobInv, LockInv, JobRow, DocOf, DocLive
  <2> QED BY <2>1, <2>2, <2>3, <2>4, <2>5, <2>6
<1> QED BY <1>1, <1>2, <1>3, <1>4

\* So do deadlocks, crashes and restarts.
LEMMA RowsInvLoss ==
  ASSUME RowsInv, NEW w \in Workers,
         \/ DeadlockAbortsDelete(w)
         \/ DeadlockAbortsWorker(w)
         \/ Crash(w)
         \/ Restart(w)
  PROVE  RowsInv'
<1> USE DEF RowsInv
<1>1. CASE DeadlockAbortsDelete(w)
  <2>b. pc[w] \in Busy
    BY <1>1 DEF DeadlockAbortsDelete, Step, Busy, InTxn, Recording
  <2>1. TypeOK'
    BY <1>1, <2>b, BusyTask DEF DeadlockAbortsDelete, TypeOK, workerVars, apiVars
  <2>2. TaskInv'
    BY <1>1, <2>b, BusyTask, Vocabulary DEF DeadlockAbortsDelete, TaskInv, TypeOK, workerVars, Busy, Down, InTxn, Recording
  <2>3. JobInv'
    BY <1>1, <2>b, BusyTask DEF DeadlockAbortsDelete, JobInv, TypeOK, Jobs, DocLive
  <2>4. GoneInv'
    BY <1>1, <2>b, BusyTask DEF DeadlockAbortsDelete, GoneInv, TypeOK, JobInv
  <2>5. LockInv'
    BY <1>1, <2>b, BusyTask, Vocabulary DEF DeadlockAbortsDelete, LockInv, TypeOK, TaskInv, JobInv, workerVars, DocOf, InTxn, DocLive
  <2>6. DeleteIsComplete'
    BY <1>1, <2>b, BusyTask, Vocabulary DEF DeadlockAbortsDelete, DeleteIsComplete, TypeOK, JobInv, LockInv, JobRow, DocOf, DocLive
  <2> QED BY <2>1, <2>2, <2>3, <2>4, <2>5, <2>6
<1>2. CASE DeadlockAbortsWorker(w)
  <2>1. TypeOK'
    <3>1. pc' \in [Workers -> Busy \cup Down \cup {"idle"}]
      BY <1>2 DEF DeadlockAbortsWorker, Raise, TypeOK, Busy, Recording, Down
    <3>2. task' \in [Workers -> Generations \cup {None}] /\ losses' \in Nat
      BY <1>2 DEF DeadlockAbortsWorker, Raise, TypeOK
    <3>3. seen' \in [Workers -> [status : JobStatus \cup {"none"}, attempt : Nat,
                                doc : {"absent", "deleted"} \cup DocLive]]
      BY <1>2 DEF DeadlockAbortsWorker, Raise, TypeOK, Unseen
    <3> QED BY <1>2, <3>1, <3>2, <3>3 DEF DeadlockAbortsWorker, TypeOK, apiVars
  <2>2. TaskInv'
    BY <1>2, Vocabulary DEF DeadlockAbortsWorker, Raise, Unseen, TaskInv, TypeOK, workerVars, Busy, Down, InTxn, Recording
  <2>3. JobInv'
    BY <1>2 DEF DeadlockAbortsWorker, Raise, Unseen, JobInv, TypeOK, Jobs, DocLive
  <2>4. GoneInv'
    BY <1>2 DEF DeadlockAbortsWorker, Raise, Unseen, GoneInv, TypeOK, JobInv
  <2>5. LockInv'
    BY <1>2, Vocabulary DEF DeadlockAbortsWorker, Raise, Unseen, LockInv, TypeOK, TaskInv, JobInv, workerVars, DocOf, InTxn, DocLive
  <2>6. DeleteIsComplete'
    BY <1>2, Vocabulary DEF DeadlockAbortsWorker, Raise, Unseen, DeleteIsComplete, TypeOK, JobInv, LockInv, JobRow, DocOf, DocLive
  <2> QED BY <2>1, <2>2, <2>3, <2>4, <2>5, <2>6
<1>3. CASE Crash(w)
  <2>1. TypeOK'
    BY <1>3 DEF Crash, Unseen, TypeOK, Down, workerVars, apiVars
  <2>2. TaskInv'
    BY <1>3, Vocabulary DEF Crash, Unseen, TaskInv, TypeOK, workerVars, Busy, Down, InTxn, Recording
  <2>3. JobInv'
    BY <1>3 DEF Crash, Unseen, JobInv, TypeOK, Jobs, DocLive
  <2>4. GoneInv'
    BY <1>3 DEF Crash, Unseen, GoneInv, TypeOK, JobInv
  <2>5. LockInv'
    BY <1>3, Vocabulary DEF Crash, Unseen, LockInv, TypeOK, TaskInv, JobInv, workerVars, DocOf, InTxn, DocLive
  <2>6. DeleteIsComplete'
    BY <1>3, Vocabulary DEF Crash, Unseen, DeleteIsComplete, TypeOK, JobInv, LockInv, JobRow, DocOf, DocLive
  <2> QED BY <2>1, <2>2, <2>3, <2>4, <2>5, <2>6
<1>4. CASE Restart(w)
  <2>1. TypeOK'
    BY <1>4 DEF Restart, TypeOK, workerVars, apiVars
  <2>2. TaskInv'
    BY <1>4, Vocabulary DEF Restart, TaskInv, TypeOK, workerVars, Busy, Down, InTxn, Recording
  <2>3. JobInv'
    BY <1>4 DEF Restart, JobInv, TypeOK, Jobs, DocLive
  <2>4. GoneInv'
    BY <1>4 DEF Restart, GoneInv, TypeOK, JobInv
  <2>5. LockInv'
    BY <1>4, Vocabulary DEF Restart, LockInv, TypeOK, TaskInv, JobInv, workerVars, DocOf, InTxn, DocLive
  <2>6. DeleteIsComplete'
    BY <1>4, Vocabulary DEF Restart, DeleteIsComplete, TypeOK, JobInv, LockInv, JobRow, DocOf, DocLive
  <2> QED BY <2>1, <2>2, <2>3, <2>4, <2>5, <2>6
<1> QED BY <1>1, <1>2, <1>3, <1>4

\* One step of the pipeline, whichever it is.
LEMMA RowsInvNext == RowsInv /\ [Next]_vars => RowsInv'
<1> SUFFICES ASSUME RowsInv, [Next]_vars PROVE RowsInv'
  OBVIOUS
<1>1. CASE UNCHANGED vars
  BY <1>1 DEF vars, RowsInv, TypeOK, TaskInv, JobInv, GoneInv, LockInv,
              DeleteIsComplete, JobRow, DocOf
<1>2. ASSUME NEW d \in Docs, ApiStep(d) PROVE RowsInv'
  BY <1>2, RowsInvRequests, RowsInvDelete DEF ApiStep
<1>3. ASSUME NEW j \in Jobs, LockExpires(j) PROVE RowsInv'
  BY <1>3, RowsInvLockExpires
<1>4. ASSUME NEW w \in Workers, WorkerStep(w) PROVE RowsInv'
  BY <1>4, RowsInvProgress, RowsInvEnd, RowsInvLoss DEF WorkerStep
<1>5. ASSUME NEW w \in Workers,
             DeadlockAbortsDelete(w) \/ DeadlockAbortsWorker(w) \/ Crash(w)
      PROVE  RowsInv'
  BY <1>5, RowsInvLoss
<1> QED BY <1>1, <1>2, <1>3, <1>4, <1>5 DEF Next, Poll

\* The variables keep their types, for any number of documents and workers,
\* with slow workers and an unreliable Qdrant as well.
THEOREM IngestionTypes == Spec => []TypeOK
<1>1. Spec => []RowsInv
  BY RowsInvInit, RowsInvNext, PTL DEF Spec
<1>2. RowsInv => TypeOK
  BY DEF RowsInv
<1> QED BY <1>1, <1>2, PTL

\* No chunk and no job outlives its document, however the delete request and
\* the ingestions of any number of workers interleave (delete_document against
\* process_job), slow workers included.
THEOREM DeletesAreComplete == Spec => []DeleteIsComplete
<1>1. Spec => []RowsInv
  BY RowsInvInit, RowsInvNext, PTL DEF Spec
<1>2. RowsInv => DeleteIsComplete
  BY DEF RowsInv
<1> QED BY <1>1, <1>2, PTL

=============================================================================
