--------------------------- MODULE IngestionClaims ---------------------------
(***************************************************************************)
(* The claim protocol of the worker, for every number of workers and jobs: *)
(* as long as no live worker outlasts LOCK_TIMEOUT (Overrun = FALSE), the  *)
(* row a worker claimed stays its own until it commits or dies.            *)
(***************************************************************************)
EXTENDS IngestionProofs

\* ClaimIsFenced, and the claim is not old enough to be taken over.
FenceInv ==
    \A w \in Workers : pc[w] \in Busy /\ JobRow(task[w][1]) =>
        /\ job[task[w][1]].status = "processing"
        /\ job[task[w][1]].attempt = task[w][2]
        /\ job[task[w][1]].lockedAt = "recent"

ClaimInv == RowsInv /\ FenceInv /\ OneWorkerPerJob

LEMMA ClaimInvInit == Init => ClaimInv
  BY RowsInvInit DEF Init, ClaimInv, FenceInv, OneWorkerPerJob, Busy, InTxn,
                     Recording

\* Requests of the API insert rows nobody has claimed, or remove rows.
LEMMA ClaimInvApi ==
  ASSUME ClaimInv, NEW d \in Docs, ApiStep(d)
  PROVE  FenceInv' /\ OneWorkerPerJob'
<1> USE DEF ClaimInv
<1>1. UNCHANGED workerVars
  BY DEF ApiStep, Upload, ReindexLoad, ReindexCommit, ReindexRefused,
         DeleteVectors, DeleteRows, DeleteCommit, DeleteAbort
<1>2. OneWorkerPerJob'
  BY <1>1 DEF OneWorkerPerJob, workerVars
<1>3. \A w \in Workers : pc[w] \in Busy =>
        job'[task[w][1]] = job[task[w][1]] \/ job'[task[w][1]].status = "gone"
  <2> SUFFICES ASSUME NEW w \in Workers, pc[w] \in Busy
               PROVE  \/ job'[task[w][1]] = job[task[w][1]]
                      \/ job'[task[w][1]].status = "gone"
    OBVIOUS
  <2>1. task[w][1] \in Jobs /\ job[task[w][1]].status # "none"
    BY BusyTask
  <2>2. CASE Upload(d) \/ ReindexCommit(d)
    <3>0. nj < MaxJobs /\ nj \in Nat
      BY <2>2 DEF Upload, ReindexCommit, InsertJob, RowsInv, TypeOK
    <3>1. nj + 1 \in Jobs /\ job[nj + 1].status = "none"
      BY <3>0, JobsAssumption DEF RowsInv, JobInv, Jobs
    <3>2. \A j \in Jobs : j # nj + 1 => job'[j] = job[j]
      BY <2>2 DEF Upload, ReindexCommit, InsertJob, RowsInv, TypeOK
    <3> QED BY <2>1, <3>1, <3>2
  <2>3. CASE DeleteCommit(d)
    BY <2>1, <2>3 DEF DeleteCommit, RowsInv, TypeOK
  <2>4. CASE UNCHANGED job
    BY <2>4
  <2> QED BY <2>2, <2>3, <2>4 DEF ApiStep, ReindexLoad, ReindexRefused,
             DeleteVectors, DeleteRows, DeleteAbort
<1>4. FenceInv'
  BY <1>1, <1>3, Vocabulary DEF FenceInv, JobRow, workerVars
<1> QED BY <1>2, <1>4

\* Only a claim that nobody holds grows old.
LEMMA ClaimInvLockExpires ==
  ASSUME ClaimInv, Overrun = FALSE, NEW j \in Jobs, LockExpires(j)
  PROVE  FenceInv' /\ OneWorkerPerJob'
<1>1. FenceInv'
  BY BusyTask DEF ClaimInv, LockExpires, FenceInv, JobRow, RowsInv, TypeOK, workerVars
<1>2. OneWorkerPerJob'
  BY DEF ClaimInv, LockExpires, OneWorkerPerJob, workerVars
<1> QED BY <1>1, <1>2

\* claim_job takes a row that is queued or old, so nobody else's.
LEMMA ClaimInvClaim ==
  ASSUME ClaimInv, NEW w \in Workers, Claim(w)
  PROVE  FenceInv' /\ OneWorkerPerJob'
<1> USE DEF ClaimInv
<1>1. PICK j \in Jobs :
        /\ Claimable(j)
        /\ task' = [task EXCEPT ![w] = <<j, job[j].attempt + 1>>]
        /\ job' = [job EXCEPT ![j] =
             [doc |-> job[j].doc, status |-> "processing",
              attempt |-> job[j].attempt + 1, lockedAt |-> "recent"]]
  BY DEF Claim, RowsInv, TypeOK
<1>2. \A v \in Workers : pc[v] \in Busy => task[v][1] # j
  BY <1>1, BusyTask DEF FenceInv, Claimable, JobRow, JobStatus, JobActive
<1>3. pc' = [pc EXCEPT ![w] = "claimed"] /\ pc[w] = "idle"
  BY DEF Claim, Step
<1>4. FenceInv'
  BY <1>1, <1>2, <1>3, BusyTask DEF FenceInv, JobRow, RowsInv, TypeOK
<1>5. OneWorkerPerJob'
  BY <1>1, <1>2, <1>3 DEF OneWorkerPerJob, RowsInv, TypeOK
<1> QED BY <1>4, <1>5

\* Steps of a worker that leave every row and every claim alone.
LEMMA ClaimInvQuiet ==
  ASSUME ClaimInv, NEW w \in Workers, UNCHANGED <<job, task>>,
         NEW p \in Busy, pc[w] \in Busy, pc' = [pc EXCEPT ![w] = p]
  PROVE  FenceInv' /\ OneWorkerPerJob'
  BY DEF ClaimInv, FenceInv, OneWorkerPerJob, JobRow, RowsInv, TypeOK

\* Steps that end an attempt give the claim up; the row they write is the
\* worker's own.
LEMMA ClaimInvRelease ==
  ASSUME ClaimInv, NEW w \in Workers, pc[w] \in Busy,
         NEW p \in Down \cup {"idle"}, pc' = [pc EXCEPT ![w] = p],
         task' = [task EXCEPT ![w] = None],
         \A j \in Jobs : j # task[w][1] => job'[j] = job[j]
  PROVE  FenceInv' /\ OneWorkerPerJob'
<1> USE DEF ClaimInv
<1>1. \A v \in Workers : pc'[v] \in Busy =>
        v # w /\ pc[v] \in Busy /\ task'[v] = task[v] /\ job'[task[v][1]] = job[task[v][1]]
  BY Vocabulary, BusyTask DEF OneWorkerPerJob, RowsInv, TypeOK
<1>2. FenceInv'
  BY <1>1 DEF FenceInv, JobRow
<1>3. OneWorkerPerJob'
  BY <1>1 DEF OneWorkerPerJob
<1> QED BY <1>2, <1>3

\* The steps of a worker, each of one of the two kinds above or a claim.
LEMMA ClaimInvWorker ==
  ASSUME ClaimInv, NEW w \in Workers, WorkerStep(w)
  PROVE  FenceInv' /\ OneWorkerPerJob'
<1> USE DEF ClaimInv
<1>1. CASE Claim(w)
  BY <1>1, ClaimInvClaim
<1>2. CASE LoadDocument(w) \/ LockDocument(w) \/ RewriteChunks(w) \/ WipeVectors(w)
           \/ UpsertVectors(w) \/ UpsertUnanswered(w) \/ Fail(w) \/ ReadDocument(w)
  <2>1. UNCHANGED <<job, task>>
    BY <1>2 DEF LoadDocument, LockDocument, RewriteChunks, WipeVectors, UpsertVectors,
                UpsertUnanswered, Fail, ReadDocument
  <2>2. pc[w] \in Busy /\ \E p \in Busy : pc' = [pc EXCEPT ![w] = p]
    BY <1>2 DEF LoadDocument, LockDocument, RewriteChunks, WipeVectors, UpsertVectors,
                UpsertUnanswered, Fail, ReadDocument, Step, Busy, InTxn, Recording
  <2> QED BY <2>1, <2>2, ClaimInvQuiet
<1>3. CASE ReadJob(w)
  <2>1. pc[w] \in Busy /\ "jobread" \in Busy
    BY <1>3 DEF ReadJob, Busy, Recording
  <2>2. CASE JobRow(task[w][1])
    <3>1. pc' = [pc EXCEPT ![w] = "jobread"] /\ UNCHANGED <<job, task>>
      BY <1>3, <2>2 DEF ReadJob
    <3> QED BY <2>1, <3>1, ClaimInvQuiet
  <2>3. CASE ~JobRow(task[w][1])
    <3>1. Finish(w) /\ UNCHANGED job
      BY <1>3, <2>3 DEF ReadJob
    <3> QED BY <2>1, <3>1, ClaimInvRelease DEF Finish
  <2> QED BY <2>2, <2>3
<1>4. CASE DocumentMissing(w) \/ CommitIndexed(w) \/ Record(w) \/ RecordRaises(w)
  <2>1. pc[w] \in Busy
    BY <1>4 DEF DocumentMissing, CommitIndexed, Record, RecordRaises, Busy, InTxn,
                Recording
  <2>2. Finish(w) \/ Raise(w)
    BY <1>4 DEF DocumentMissing, CommitIndexed, Record, RecordRaises
  <2>3. \A j \in Jobs : j # task[w][1] => job'[j] = job[j]
    BY <1>4 DEF DocumentMissing, CommitIndexed, Record, RecordRaises, RowsInv, TypeOK
  <2> QED BY <2>1, <2>2, <2>3, ClaimInvRelease DEF Finish, Raise, Down
<1>5. CASE Restart(w)
  BY <1>5 DEF Restart, FenceInv, OneWorkerPerJob, JobRow, RowsInv, TypeOK, Busy, InTxn,
              Recording
<1> QED BY <1>1, <1>2, <1>3, <1>4, <1>5 DEF WorkerStep

\* Deadlock victims and killed workers give their claim up or keep it.
LEMMA ClaimInvLoss ==
  ASSUME ClaimInv, NEW w \in Workers,
         DeadlockAbortsDelete(w) \/ DeadlockAbortsWorker(w) \/ Crash(w)
  PROVE  FenceInv' /\ OneWorkerPerJob'
<1>1. CASE DeadlockAbortsDelete(w)
  BY <1>1 DEF DeadlockAbortsDelete, workerVars, ClaimInv, FenceInv, OneWorkerPerJob, JobRow
<1>2. CASE DeadlockAbortsWorker(w) /\ pc[w] # "recording"
  BY <1>2, ClaimInvQuiet DEF DeadlockAbortsWorker, Busy, Recording
<1>3. CASE Crash(w) \/ (DeadlockAbortsWorker(w) /\ pc[w] = "recording")
  BY <1>3, ClaimInvRelease DEF Crash, DeadlockAbortsWorker, Raise, Down
<1> QED BY <1>1, <1>2, <1>3

\* ClaimInv is inductive when no live worker outlasts the lock timeout.
LEMMA ClaimInvNext ==
  ASSUME ClaimInv, Overrun = FALSE, [Next]_vars
  PROVE  ClaimInv'
<1>1. RowsInv'
  BY RowsInvNext DEF ClaimInv
<1>2. FenceInv' /\ OneWorkerPerJob'
  <2>1. CASE UNCHANGED vars
    BY <2>1 DEF vars, ClaimInv, FenceInv, OneWorkerPerJob, JobRow
  <2>2. CASE Next
    BY <2>1, <2>2, ClaimInvApi, ClaimInvLockExpires, ClaimInvWorker, ClaimInvLoss
       DEF Next, Poll
  <2> QED BY <2>1, <2>2
<1> QED BY <1>1, <1>2 DEF ClaimInv

\* A step never touches a job that has ended, but for its document's cascade.
LEMMA TerminalStep ==
  ASSUME ClaimInv, [Next]_vars, NEW j \in Jobs, job[j].status \in JobTerminal
  PROVE  job'[j].status \in {job[j].status, "gone"}
<1> USE DEF ClaimInv
<1>1. \A w \in Workers : pc[w] \in Busy => task[w][1] # j
  BY DEF FenceInv, JobRow, JobStatus, JobActive, JobTerminal
<1>2. CASE UNCHANGED job
  BY <1>2
<1>3. ASSUME NEW d \in Docs, ApiStep(d), ~UNCHANGED job
      PROVE  job'[j].status \in {job[j].status, "gone"}
  <2>1. CASE Upload(d) \/ ReindexCommit(d)
    <3>1. nj + 1 # j
      BY <2>1 DEF RowsInv, TypeOK, JobInv, Jobs, JobTerminal
    <3> QED BY <2>1, <3>1 DEF Upload, ReindexCommit, InsertJob, RowsInv, TypeOK
  <2>2. CASE DeleteCommit(d)
    BY <2>2 DEF DeleteCommit, RowsInv, TypeOK
  <2> QED BY <1>3, <2>1, <2>2 DEF ApiStep, ReindexLoad, ReindexRefused,
             DeleteVectors, DeleteRows, DeleteAbort
<1>4. ASSUME NEW i \in Jobs, LockExpires(i)
      PROVE  job'[j].status \in {job[j].status, "gone"}
  BY <1>4 DEF LockExpires, RowsInv, TypeOK
<1>5. ASSUME NEW w \in Workers, WorkerStep(w), ~UNCHANGED job
      PROVE  job'[j].status \in {job[j].status, "gone"}
  <2>1. CASE Claim(w)
    BY <2>1 DEF Claim, Claimable, JobTerminal, RowsInv, TypeOK
  <2>2. CASE DocumentMissing(w) \/ CommitIndexed(w) \/ Record(w)
    <3>1. task[w][1] # j
      BY <1>1, <2>2 DEF DocumentMissing, CommitIndexed, Record, Busy, InTxn, Recording
    <3> QED BY <2>2, <3>1 DEF DocumentMissing, CommitIndexed, Record, RowsInv, TypeOK
  <2> QED BY <1>5, <2>1, <2>2 DEF WorkerStep, LoadDocument, LockDocument, RewriteChunks,
             WipeVectors, UpsertVectors, UpsertUnanswered, Fail, ReadJob, ReadDocument,
             RecordRaises, Restart
<1>6. ASSUME NEW w \in Workers,
             DeadlockAbortsDelete(w) \/ DeadlockAbortsWorker(w) \/ Crash(w)
      PROVE  UNCHANGED job
  BY <1>6 DEF DeadlockAbortsDelete, DeadlockAbortsWorker, Crash
<1> QED BY <1>2, <1>3, <1>4, <1>5, <1>6 DEF Next, Poll, vars

\* "Multiple workers never grab the same job" (worker.py:4), for any number of
\* them, reclaims, retries, crashes and deletes included.
THEOREM ClaimsAreExclusive ==
  ASSUME Overrun = FALSE
  PROVE  Spec => []OneWorkerPerJob
<1>1. ClaimInv /\ [Next]_vars => ClaimInv'
  BY ClaimInvNext
<1>2. ClaimInv => OneWorkerPerJob
  BY DEF ClaimInv
<1> QED BY <1>1, <1>2, ClaimInvInit, PTL DEF Spec

\* The row of a live worker's job keeps its status and the worker's attempt
\* number: what _fail_or_retry and the final commit overwrite is their own.
THEOREM ClaimsAreFenced ==
  ASSUME Overrun = FALSE
  PROVE  Spec => []ClaimIsFenced
<1>1. ClaimInv /\ [Next]_vars => ClaimInv'
  BY ClaimInvNext
<1>2. ClaimInv => ClaimIsFenced
  BY DEF ClaimInv, FenceInv, ClaimIsFenced
<1> QED BY <1>1, <1>2, ClaimInvInit, PTL DEF Spec

\* A job that ended is never reopened or rewritten.
THEOREM TerminalJobsAreFinal ==
  ASSUME Overrun = FALSE
  PROVE  Spec => TerminalIsFinal
<1>1. ClaimInv /\ [Next]_vars => ClaimInv'
  BY ClaimInvNext
<1>2. ClaimInv /\ [Next]_vars =>
        [\A j \in Jobs : job[j].status \in JobTerminal =>
           job'[j].status \in {job[j].status, "gone"}]_vars
  BY TerminalStep
<1> QED BY <1>1, <1>2, ClaimInvInit, PTL DEF Spec, TerminalIsFinal
=============================================================================
