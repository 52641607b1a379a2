--------------------------- MODULE IngestionStores ---------------------------
(***************************************************************************)
(* What jobs, documents, chunks and vectors have to do with each other,    *)
(* for every number of documents, workers and jobs, as long as no live     *)
(* worker outlasts LOCK_TIMEOUT: a queued document has a job, attempts are *)
(* charged, an indexed document is searchable, and the pipeline implements *)
(* DocumentLifecycle.                                                      *)
(***************************************************************************)
EXTENDS IngestionClaims

\* uq_ingestion_jobs_active_document: at most one active job per document.
OneActive ==
    \A i, j \in Jobs : Active(i) /\ Active(j) /\ job[i].doc = job[j].doc => i = j

\* What _fail_or_retry has read is what it will overwrite, as long as the job
\* row is there.
SeenInv ==
    \A w \in Workers : pc[w] \in {"jobread", "recording"} /\ JobRow(task[w][1]) =>
        /\ seen[w].status = "processing"
        /\ seen[w].attempt = task[w][2]
        /\ pc[w] = "recording" => seen[w].doc = doc[DocOf(w)]

\* Published chunks come from a job of the document that has succeeded.
PublishedInv ==
    \A d \in Docs : chunks[d] # None =>
        /\ job[chunks[d][1]].status = "succeeded"
        /\ job[chunks[d][1]].doc = d

Held(j) == \E w \in Workers : pc[w] \in Busy /\ task[w][1] = j

\* A job waits only while attempts are left, and one that nobody holds any more
\* has a loss to its account.
ChargeInv ==
    \A j \in Jobs :
        /\ job[j].status = "queued" => job[j].attempt < MaxAttempts
        /\ job[j].attempt <= MaxAttempts + losses
        /\ job[j].status = "processing" /\ ~Held(j) => job[j].attempt < MaxAttempts + losses

\* Between the upsert and the commit the new vectors are there, and with a
\* Qdrant that answers no others.
UpsertInv ==
    \A w \in Workers :
        /\ pc[w] = "wiped" /\ ~FlakyQdrant => points[DocOf(w)] = {}
        /\ pc[w] = "upserted" =>
             /\ del[DocOf(w)] = "none" => task[w] \in points[DocOf(w)]
             /\ ~FlakyQdrant => points[DocOf(w)] \subseteq {task[w]}

SettledInv ==
    \A d \in Docs : Settled(d) =>
        /\ chunks[d] # None
        /\ chunks[d] \in points[d]
        /\ ~FlakyQdrant => points[d] \subseteq {chunks[d]}

\* A delete request is of a document that is there.
DeleteInv == \A d \in Docs : del[d] # "none" => doc[d] \in DocLive

StoreInv ==
    /\ ClaimInv /\ DeleteInv /\ OneActive /\ SeenInv /\ PublishedInv /\ QueuedHasJob
    /\ ChargeInv /\ UpsertInv /\ SettledInv

-----------------------------------------------------------------------------
LEMMA StoreInvInit == Init => StoreInv
<1> SUFFICES ASSUME Init PROVE StoreInv
  OBVIOUS
<1>1. ClaimInv
  BY ClaimInvInit
<1>2. /\ OneActive /\ SeenInv /\ PublishedInv /\ QueuedHasJob /\ UpsertInv /\ SettledInv
      /\ DeleteInv
  BY DEF Init, DeleteInv, OneActive, SeenInv, PublishedInv, QueuedHasJob, UpsertInv, SettledInv,
         Active, JobActive, NoRow, Settled
<1>3. ChargeInv
  BY AttemptsAssumption DEF Init, ChargeInv, NoRow
<1> QED BY <1>1, <1>2, <1>3 DEF StoreInv

\* The job of an open transaction is its own, and its document is there.
LEMMA OpenTransaction ==
  ASSUME ClaimInv, NEW w \in Workers, pc[w] \in InTxn
  PROVE  /\ pc[w] \in Busy
         /\ task[w] \in Generations /\ task[w][1] \in Jobs
         /\ DocOf(w) \in Docs /\ doc[DocOf(w)] \in DocLive
         /\ JobRow(task[w][1]) /\ Active(task[w][1])
         /\ job[task[w][1]].status = "processing"
<1>1. pc[w] \in Busy
  BY Vocabulary
<1>2. /\ task[w] \in Generations /\ task[w][1] \in Jobs /\ DocOf(w) \in Docs
      /\ job[task[w][1]].status # "none"
  BY <1>1, BusyTask DEF ClaimInv
<1>3. doc[DocOf(w)] \in DocLive
  BY DEF ClaimInv, RowsInv, LockInv
<1>4. JobRow(task[w][1])
  BY <1>2, <1>3, Vocabulary DEF ClaimInv, RowsInv, GoneInv, TypeOK, DocOf, JobRow
<1>5. job[task[w][1]].status = "processing"
  BY <1>1, <1>4 DEF ClaimInv, FenceInv
<1> QED BY <1>1, <1>2, <1>3, <1>4, <1>5 DEF Active, JobActive

\* No two workers have jobs of one document in their hands.
LEMMA OneHolder ==
  ASSUME ClaimInv, OneActive, NEW v \in Workers, NEW w \in Workers,
         pc[v] \in Busy, pc[w] \in Busy,
         JobRow(task[v][1]), JobRow(task[w][1]), DocOf(v) = DocOf(w)
  PROVE  v = w
<1>1. task[v][1] \in Jobs /\ task[w][1] \in Jobs
  BY BusyTask DEF ClaimInv
<1>2. Active(task[v][1]) /\ Active(task[w][1])
  BY DEF ClaimInv, FenceInv, Active, JobActive
<1>3. task[v][1] = task[w][1]
  BY <1>1, <1>2 DEF OneActive, DocOf
<1> QED BY <1>3 DEF ClaimInv, OneWorkerPerJob

\* Rows keep their document; whether they are active decides OneActive.
LEMMA OneActiveStays ==
  ASSUME OneActive,
         \A j \in Jobs : Active(j)' => Active(j) /\ job'[j].doc = job[j].doc
  PROVE  OneActive'
  BY DEF OneActive, Active

LEMMA PublishedStays ==
  ASSUME PublishedInv, chunks' = chunks, TypeOK,
         \A j \in Jobs : job[j].status = "succeeded" => job'[j] = job[j]
  PROVE  PublishedInv'
  BY Vocabulary DEF PublishedInv, TypeOK

-----------------------------------------------------------------------------
(* Requests *)

\* A new job, of a document that had no active one and is queued by it, or
\* keeps the status it has.
LEMMA StoreInvInsert ==
  ASSUME StoreInv, NEW d \in Docs, InsertJob(d),
         \A j \in Jobs : job[j].doc = d => ~Active(j),
         NEW s \in {"queued", doc[d]}, doc' = [doc EXCEPT ![d] = s],
         UNCHANGED <<chunks, points, workerVars, del>>
  PROVE  OneActive' /\ SeenInv' /\ PublishedInv' /\ QueuedHasJob' /\ ChargeInv'
         /\ UpsertInv' /\ SettledInv'
<1> USE DEF StoreInv
<1>1. PICK n \in Jobs : n = nj + 1 /\ job[n].status = "none"
  <2>1. nj < MaxJobs /\ nj \in 0 .. MaxJobs
    BY DEF InsertJob, ClaimInv, RowsInv, TypeOK
  <2>2. nj + 1 \in Jobs /\ nj + 1 > nj
    BY <2>1, JobsAssumption DEF Jobs
  <2> QED BY <2>2 DEF ClaimInv, RowsInv, JobInv
<1>2. /\ \A j \in Jobs : j # n => job'[j] = job[j]
      /\ job'[n] = [doc |-> d, status |-> "queued", attempt |-> 0, lockedAt |-> "null"]
  BY <1>1 DEF InsertJob, ClaimInv, RowsInv, TypeOK
<1>3. /\ \A j \in Jobs : j # n => (Active(j)' <=> Active(j))
      /\ Active(n)' /\ ~Active(n)
  BY <1>1, <1>2 DEF Active, JobActive
<1>4. \A w \in Workers : pc[w] \in Busy =>
        /\ task[w][1] \in Jobs /\ task[w][1] # n
        /\ DocOf(w)' = DocOf(w) /\ DocOf(w) \in Docs
        /\ (JobRow(task[w][1])' <=> JobRow(task[w][1]))
  BY <1>1, <1>2, BusyTask DEF ClaimInv, DocOf, JobRow, workerVars
<1>5. OneActive'
  BY <1>1, <1>2, <1>3 DEF OneActive
<1>6. PublishedInv'
  BY <1>1, <1>2, PublishedStays DEF ClaimInv, RowsInv
<1>7. SeenInv'
  <2> SUFFICES ASSUME NEW w \in Workers, pc[w] \in {"jobread", "recording"},
                      JobRow(task[w][1])
               PROVE  /\ seen[w].status = "processing"
                      /\ seen[w].attempt = task[w][2]
                      /\ pc[w] = "recording" => seen[w].doc = doc'[DocOf(w)]
    BY <1>4 DEF SeenInv, workerVars, Busy, Recording
  <2>1. pc[w] \in Busy
    BY DEF Busy, Recording
  <2>2. DocOf(w) # d
    BY <1>4, <2>1 DEF ClaimInv, FenceInv, Active, JobActive, DocOf
  <2> QED BY <1>4, <2>1, <2>2 DEF SeenInv, ClaimInv, RowsInv, TypeOK
<1>8. QueuedHasJob'
  <2> SUFFICES ASSUME NEW x \in Docs, doc'[x] = "queued"
               PROVE  \E j \in Jobs : job'[j].doc = x /\ Active(j)'
    BY DEF QueuedHasJob
  <2>1. CASE x = d
    BY <2>1, <1>1, <1>2, <1>3
  <2>2. CASE x # d
    <3>1. doc[x] = "queued"
      BY <2>2 DEF ClaimInv, RowsInv, TypeOK
    <3>2. PICK j \in Jobs : job[j].doc = x /\ Active(j)
      BY <3>1 DEF QueuedHasJob
    <3> QED BY <1>2, <1>3, <3>2
  <2> QED BY <2>1, <2>2
<1>9. ChargeInv'
  <2>1. losses \in Nat /\ \A j \in Jobs : (Held(j)' <=> Held(j))
    BY DEF Held, workerVars, ClaimInv, RowsInv, TypeOK
  <2>2. losses' = losses
    BY DEF workerVars
  <2>3. ASSUME NEW j \in Jobs, j # n
        PROVE  /\ job'[j].status = "queued" => job'[j].attempt < MaxAttempts
               /\ job'[j].attempt <= MaxAttempts + losses
               /\ job'[j].status = "processing" /\ ~Held(j)' =>
                    job'[j].attempt < MaxAttempts + losses
    BY <1>2, <2>1, <2>3 DEF ChargeInv
  <2>4. /\ job'[n].status = "queued" /\ job'[n].attempt < MaxAttempts
        /\ job'[n].attempt <= MaxAttempts + losses
    BY <1>2, <2>1, AttemptsAssumption
  <2> QED BY <1>1, <2>2, <2>3, <2>4 DEF ChargeInv
<1>10. UpsertInv'
  BY <1>4, Vocabulary DEF UpsertInv, workerVars, InTxn
<1>11. SettledInv'
  <2>1. \A x \in Docs : Settled(x)' => Settled(x)
    BY <1>1, <1>2, <1>3 DEF Settled, ClaimInv, RowsInv, TypeOK
  <2> QED BY <2>1 DEF SettledInv
<1> QED BY <1>5, <1>6, <1>7, <1>8, <1>9, <1>10, <1>11

\* Nothing but a request's own progress changes, or vectors go for a delete
\* request that is recorded.
LEMMA StoreInvAside ==
  ASSUME StoreInv, UNCHANGED <<doc, chunks, job, workerVars>>,
         \A d \in Docs : del'[d] = "none" => del[d] = "none" /\ points'[d] = points[d],
         \A d \in Docs : points'[d] \subseteq points[d]
  PROVE  OneActive' /\ SeenInv' /\ PublishedInv' /\ QueuedHasJob' /\ ChargeInv'
         /\ UpsertInv' /\ SettledInv'
<1> USE DEF StoreInv, workerVars
<1>1. OneActive' /\ SeenInv' /\ PublishedInv' /\ QueuedHasJob' /\ ChargeInv'
  BY DEF OneActive, SeenInv, PublishedInv, QueuedHasJob, ChargeInv, Active, JobRow, DocOf,
         Held
<1>2. \A w \in Workers : pc[w] \in InTxn => DocOf(w) \in Docs /\ DocOf(w)' = DocOf(w)
  BY OpenTransaction DEF DocOf
<1>3. UpsertInv'
  <2> SUFFICES ASSUME NEW w \in Workers, pc[w] \in {"wiped", "upserted"}
               PROVE  /\ pc[w] = "wiped" /\ ~FlakyQdrant => points'[DocOf(w)] = {}
                      /\ pc[w] = "upserted" =>
                         /\ del'[DocOf(w)] = "none" => task[w] \in points'[DocOf(w)]
                         /\ ~FlakyQdrant => points'[DocOf(w)] \subseteq {task[w]}
    BY <1>2 DEF UpsertInv, InTxn
  <2>1. DocOf(w) \in Docs
    BY <1>2 DEF InTxn
  <2> QED BY <2>1 DEF UpsertInv
<1>4. SettledInv'
  <2>1. \A d \in Docs : Settled(d)' => Settled(d) /\ points'[d] = points[d]
    BY DEF Settled, Active
  <2> QED BY <2>1 DEF SettledInv
<1> QED BY <1>1, <1>3, <1>4

\* The document goes, with its chunks and its jobs; nobody holds its lock.
LEMMA StoreInvDeleteCommit ==
  ASSUME StoreInv, NEW d \in Docs, DeleteCommit(d)
  PROVE  OneActive' /\ SeenInv' /\ PublishedInv' /\ QueuedHasJob' /\ ChargeInv'
         /\ UpsertInv' /\ SettledInv'
<1> USE DEF StoreInv
<1>1. /\ doc' = [doc EXCEPT ![d] = "deleted"]
      /\ chunks' = [chunks EXCEPT ![d] = None]
      /\ \A j \in Jobs : job'[j] = IF job[j].doc = d /\ JobRow(j)
                                   THEN [job[j] EXCEPT !.status = "gone"] ELSE job[j]
      /\ del' = [del EXCEPT ![d] = "none"]
      /\ UNCHANGED <<points, pc, task, seen, losses>>
      /\ Holders(d) = {}
  BY DEF DeleteCommit, workerVars
<1>2. /\ doc \in [Docs -> {"absent", "deleted"} \cup DocLive]
      /\ chunks \in [Docs -> Generations \cup {None}]
      /\ del \in [Docs -> {"none", "vectors", "rows", "aborted"}]
      /\ job \in [Jobs -> [doc : Docs \cup {"none"},
                           status : JobStatus \cup {"none", "gone"},
                           attempt : Nat, lockedAt : {"null", "recent", "old"}]]
  BY DEF ClaimInv, RowsInv, TypeOK
<1>3. \A j \in Jobs :
        /\ job'[j].doc = job[j].doc /\ job'[j].attempt = job[j].attempt
        /\ job[j].doc # d => job'[j] = job[j]
        /\ job[j].doc = d => ~JobRow(j)'
        /\ job'[j].status = job[j].status \/ job'[j].status = "gone"
  <2> SUFFICES ASSUME NEW j \in Jobs
               PROVE  /\ job'[j].doc = job[j].doc /\ job'[j].attempt = job[j].attempt
                      /\ job[j].doc # d => job'[j] = job[j]
                      /\ job[j].doc = d => ~JobRow(j)'
                      /\ job'[j].status = job[j].status \/ job'[j].status = "gone"
    OBVIOUS
  <2>1. CASE job[j].doc = d /\ JobRow(j)
    BY <1>1, <1>2, <2>1, Vocabulary DEF JobRow
  <2>2. CASE ~(job[j].doc = d /\ JobRow(j))
    BY <1>1, <2>2 DEF JobRow
  <2> QED BY <2>1, <2>2
<1>4. \A j \in Jobs : Active(j)' => Active(j) /\ job[j].doc # d
  BY <1>3, Vocabulary DEF Active, JobRow, JobActive
<1>5. OneActive'
  BY <1>3, <1>4, OneActiveStays
<1>6. \A w \in Workers : pc[w] \in Busy =>
        /\ task[w][1] \in Jobs /\ DocOf(w) \in Docs /\ DocOf(w)' = DocOf(w)
        /\ JobRow(task[w][1])' => JobRow(task[w][1]) /\ DocOf(w) # d
  BY <1>1, <1>3, BusyTask, Vocabulary DEF ClaimInv, DocOf, JobRow
<1>7. SeenInv'
  BY <1>1, <1>2, <1>6 DEF SeenInv, Busy, Recording
<1>8. PublishedInv'
  <2> SUFFICES ASSUME NEW x \in Docs, chunks'[x] # None
               PROVE  /\ job'[chunks'[x][1]].status = "succeeded"
                      /\ job'[chunks'[x][1]].doc = x
    BY DEF PublishedInv
  <2>1. x # d /\ chunks'[x] = chunks[x] /\ chunks[x][1] \in Jobs
    BY <1>1, <1>2, Vocabulary
  <2> QED BY <1>3, <2>1 DEF PublishedInv
<1>9. QueuedHasJob'
  <2> SUFFICES ASSUME NEW x \in Docs, doc'[x] = "queued"
               PROVE  \E j \in Jobs : job'[j].doc = x /\ Active(j)'
    BY DEF QueuedHasJob
  <2>1. x # d /\ doc[x] = "queued"
    BY <1>1, <1>2
  <2>2. PICK j \in Jobs : job[j].doc = x /\ Active(j)
    BY <2>1 DEF QueuedHasJob
  <2> QED BY <1>3, <2>1, <2>2 DEF Active
<1>10. ChargeInv'
  BY <1>1, <1>3 DEF ChargeInv, Held
<1>11. UpsertInv'
  <2> SUFFICES ASSUME NEW w \in Workers, pc[w] \in {"wiped", "upserted"}
               PROVE  DocOf(w)' = DocOf(w) /\ del'[DocOf(w)] = del[DocOf(w)]
    BY <1>1 DEF UpsertInv
  <2>1. pc[w] \in Busy /\ DocOf(w) # d
    BY <1>1 DEF Busy, InTxn, Holders
  <2> QED BY <1>1, <1>2, <1>6, <2>1
<1>12. SettledInv'
  <2>1. \A x \in Docs : Settled(x)' => x # d /\ Settled(x) /\ chunks'[x] = chunks[x]
    BY <1>1, <1>2, <1>3 DEF Settled, Active
  <2> QED BY <1>1, <2>1 DEF SettledInv
<1> QED BY <1>5, <1>7, <1>8, <1>9, <1>10, <1>11, <1>12

\* So every request keeps the stores consistent.
LEMMA StoreInvApi ==
  ASSUME StoreInv, NEW d \in Docs, ApiStep(d)
  PROVE  OneActive' /\ SeenInv' /\ PublishedInv' /\ QueuedHasJob' /\ ChargeInv'
         /\ UpsertInv' /\ SettledInv'
<1> USE DEF StoreInv
<1>1. CASE Upload(d)
  <2>1. \A j \in Jobs : job[j].doc = d => ~Active(j)
    BY <1>1 DEF Upload, ClaimInv, RowsInv, JobInv, Active, JobActive
  <2> QED BY <1>1, <2>1, StoreInvInsert DEF Upload, apiVars
<1>2. CASE ReindexCommit(d)
  <2>1. \E s \in {"queued", doc[d]} : doc' = [doc EXCEPT ![d] = s]
    BY <1>2 DEF ReindexCommit, OrmWrite, ClaimInv, RowsInv, TypeOK
  <2> QED BY <1>2, <2>1, StoreInvInsert DEF ReindexCommit
<1>3. CASE ReindexLoad(d) \/ ReindexRefused(d) \/ DeleteVectors(d) \/ DeleteRows(d)
           \/ DeleteAbort(d)
  <2>1. UNCHANGED <<doc, chunks, job, workerVars>>
    BY <1>3 DEF ReindexLoad, ReindexRefused, DeleteVectors, DeleteRows, DeleteAbort
  <2>2. /\ \A x \in Docs : del'[x] = "none" => del[x] = "none" /\ points'[x] = points[x]
        /\ \A x \in Docs : points'[x] \subseteq points[x]
    BY <1>3 DEF ReindexLoad, ReindexRefused, DeleteVectors, DeleteRows, DeleteAbort,
                ClaimInv, RowsInv, TypeOK
  <2> QED BY <2>1, <2>2, StoreInvAside
<1>4. CASE DeleteCommit(d)
  BY <1>4, StoreInvDeleteCommit
<1> QED BY <1>1, <1>2, <1>3, <1>4 DEF ApiStep

-----------------------------------------------------------------------------
(* Workers *)

LEMMA StoreInvLockExpires ==
  ASSUME StoreInv, NEW j \in Jobs, LockExpires(j)
  PROVE  OneActive' /\ SeenInv' /\ PublishedInv' /\ QueuedHasJob' /\ ChargeInv'
         /\ UpsertInv' /\ SettledInv'
<1> USE DEF StoreInv
<1>1. /\ \A i \in Jobs : /\ job'[i].doc = job[i].doc /\ job'[i].status = job[i].status
                         /\ job'[i].attempt = job[i].attempt
      /\ UNCHANGED <<doc, chunks, points, pc, task, seen, losses, del>>
  BY DEF LockExpires, ClaimInv, RowsInv, TypeOK, workerVars, apiVars
<1>2. \A w \in Workers : pc[w] \in Busy =>
        /\ task[w][1] \in Jobs /\ DocOf(w)' = DocOf(w)
        /\ (JobRow(task[w][1])' <=> JobRow(task[w][1]))
  BY <1>1, BusyTask DEF ClaimInv, DocOf, JobRow
<1>3. OneActive' /\ QueuedHasJob' /\ ChargeInv'
  BY <1>1 DEF OneActive, QueuedHasJob, ChargeInv, Active, Held
<1>4. SeenInv'
  BY <1>1, <1>2 DEF SeenInv, Busy, Recording
<1>5. PublishedInv'
  <2>1. \A d \in Docs : chunks[d] # None => chunks[d][1] \in Jobs
    BY Vocabulary DEF ClaimInv, RowsInv, TypeOK
  <2> QED BY <1>1, <2>1 DEF PublishedInv
<1>6. UpsertInv'
  BY <1>1, <1>2 DEF UpsertInv, Busy, InTxn
<1>7. SettledInv'
  BY <1>1 DEF SettledInv, Settled, Active
<1> QED BY <1>3, <1>4, <1>5, <1>6, <1>7

\* A claim takes a job nobody holds: one attempt of those that are left, or one
\* that a loss pays for.
LEMMA StoreInvClaim ==
  ASSUME StoreInv, NEW w \in Workers, Claim(w)
  PROVE  OneActive' /\ SeenInv' /\ PublishedInv' /\ QueuedHasJob' /\ ChargeInv'
         /\ UpsertInv' /\ SettledInv'
<1> USE DEF StoreInv
<1>1. PICK j \in Jobs :
        /\ Claimable(j)
        /\ task' = [task EXCEPT ![w] = <<j, job[j].attempt + 1>>]
        /\ job' = [job EXCEPT ![j] =
             [doc |-> job[j].doc, status |-> "processing",
              attempt |-> job[j].attempt + 1, lockedAt |-> "recent"]]
  BY DEF Claim, ClaimInv, RowsInv, TypeOK
<1>2. /\ pc' = [pc EXCEPT ![w] = "claimed"] /\ pc[w] = "idle"
      /\ UNCHANGED <<doc, chunks, points, seen, losses, del>>
  BY DEF Claim, Step, apiVars
<1>3. /\ \A i \in Jobs : job'[i].doc = job[i].doc /\ (i # j => job'[i] = job[i])
      /\ job'[j].status = "processing" /\ job'[j].attempt = job[j].attempt + 1
      /\ Active(j) /\ job[j].status # "succeeded"
  BY <1>1 DEF Claimable, Active, JobActive, ClaimInv, RowsInv, TypeOK
<1>4. \A v \in Workers : pc[v] \in Busy => task[v][1] # j
  BY <1>1, BusyTask DEF ClaimInv, FenceInv, Claimable, JobRow, JobStatus, JobActive
<1>5. \A v \in Workers : pc'[v] \in Busy /\ v # w => pc[v] \in Busy
  BY <1>2 DEF ClaimInv, RowsInv, TypeOK
<1>6. \A v \in Workers : v # w => pc'[v] = pc[v] /\ task'[v] = task[v]
  BY <1>1, <1>2 DEF ClaimInv, RowsInv, TypeOK
<1>7. pc'[w] = "claimed" /\ task'[w] = <<j, job[j].attempt + 1>>
  BY <1>1, <1>2 DEF ClaimInv, RowsInv, TypeOK
<1>8. OneActive' /\ QueuedHasJob'
  BY <1>2, <1>3 DEF OneActive, QueuedHasJob, Active, JobActive
<1>9. PublishedInv'
  BY <1>2, <1>3, PublishedStays DEF ClaimInv, RowsInv
<1>10. SeenInv'
  BY <1>2, <1>3, <1>4, <1>6, <1>7, BusyTask DEF ClaimInv, SeenInv, DocOf, JobRow, Busy, Recording
<1>11. ChargeInv'
  <2>1. \A i \in Jobs : i # j => (Held(i)' <=> Held(i))
    BY <1>2, <1>6, <1>7, Vocabulary DEF Held
  <2>2. Held(j)' /\ ~Held(j)
    BY <1>4, <1>7 DEF Held, Busy
  <2>3. losses \in Nat /\ job[j].attempt \in Nat
    BY DEF ClaimInv, RowsInv, TypeOK
  <2>4. job[j].attempt < MaxAttempts + losses
    BY <1>1, <2>2, <2>3, AttemptsAssumption DEF ChargeInv, Claimable
  <2>5. job'[j].attempt <= MaxAttempts + losses
    BY <1>3, <2>3, <2>4, AttemptsAssumption
  <2> QED BY <1>2, <1>3, <2>1, <2>2, <2>5 DEF ChargeInv
<1>12. UpsertInv'
  <2>1. \A v \in Workers : pc'[v] \in {"wiped", "upserted"} =>
          v # w /\ pc'[v] = pc[v] /\ task'[v] = task[v] /\ pc[v] \in Busy
    BY <1>6, <1>7 DEF Busy, InTxn
  <2>2. \A v \in Workers : pc[v] \in Busy => task[v][1] \in Jobs
    BY BusyTask DEF ClaimInv
  <2>3. \A v \in Workers : pc'[v] \in {"wiped", "upserted"} => DocOf(v)' = DocOf(v)
    BY <1>3, <2>1, <2>2 DEF DocOf
  <2>4. UpsertInv
    OBVIOUS
  <2> HIDE DEF StoreInv
  <2> QED BY <1>2, <2>1, <2>3, <2>4 DEF UpsertInv
<1>13. SettledInv'
  BY <1>2, <1>3 DEF SettledInv, Settled, Active, JobActive
<1> QED BY <1>8, <1>9, <1>10, <1>11, <1>12, <1>13

\* A worker goes on with its job: what it reads is what there is, and only the
\* vectors of a document it has locked change.
LEMMA StoreInvProgress ==
  ASSUME StoreInv, NEW w \in Workers, pc[w] \in Busy,
         NEW p \in Busy, pc' = [pc EXCEPT ![w] = p],
         UNCHANGED <<doc, chunks, job, task, losses, del>>,
         \A v \in Workers : v # w => seen'[v] = seen[v],
         p \in {"jobread", "recording"} /\ JobRow(task[w][1]) =>
            /\ seen'[w].status = "processing" /\ seen'[w].attempt = task[w][2]
            /\ p = "recording" => seen'[w].doc = doc[DocOf(w)],
         \A d \in Docs : points'[d] = points[d] \/ (pc[w] \in InTxn /\ d = DocOf(w)),
         p = "wiped" /\ ~FlakyQdrant => points'[DocOf(w)] = {},
         p = "upserted" =>
            /\ task[w] \in points'[DocOf(w)]
            /\ ~FlakyQdrant => points'[DocOf(w)] \subseteq {task[w]}
  PROVE  OneActive' /\ SeenInv' /\ PublishedInv' /\ QueuedHasJob' /\ ChargeInv'
         /\ UpsertInv' /\ SettledInv'
<1> USE DEF StoreInv
<1>1. OneActive' /\ PublishedInv' /\ QueuedHasJob'
  BY DEF OneActive, PublishedInv, QueuedHasJob, Active
<1>2. \A v \in Workers : (pc'[v] \in Busy <=> pc[v] \in Busy) /\ (v # w => pc'[v] = pc[v])
  BY DEF ClaimInv, RowsInv, TypeOK
<1>3. pc'[w] = p
  BY DEF ClaimInv, RowsInv, TypeOK
<1>4. ChargeInv'
  BY <1>2 DEF ChargeInv, Held
<1>5. SeenInv'
  BY <1>2, <1>3 DEF SeenInv, DocOf, JobRow
<1>6. UpsertInv'
  <2> SUFFICES ASSUME NEW v \in Workers, pc'[v] \in {"wiped", "upserted"}
               PROVE  /\ pc'[v] = "wiped" /\ ~FlakyQdrant => points'[DocOf(v)] = {}
                      /\ pc'[v] = "upserted" =>
                         /\ del[DocOf(v)] = "none" => task[v] \in points'[DocOf(v)]
                         /\ ~FlakyQdrant => points'[DocOf(v)] \subseteq {task[v]}
    BY DEF UpsertInv, DocOf
  <2>1. CASE v = w
    BY <2>1, <1>3
  <2>2. CASE v # w
    <3>1. pc[v] = pc'[v] /\ pc[v] \in InTxn
      BY <2>2, <1>2 DEF InTxn
    <3>2. DocOf(v) \in Docs
      BY <3>1, OpenTransaction
    <3>3. points'[DocOf(v)] = points[DocOf(v)]
      BY <2>2, <3>1, <3>2, OpenTransaction, OneHolder
    <3> QED BY <3>1, <3>3 DEF UpsertInv
  <2> QED BY <2>1, <2>2
<1>7. SettledInv'
  <2>1. \A d \in Docs : Settled(d)' => Settled(d)
    BY DEF Settled, Active
  <2>2. \A d \in Docs : Settled(d) => points'[d] = points[d]
    BY OpenTransaction DEF Settled, DocOf
  <2> QED BY <2>1, <2>2 DEF SettledInv
<1> QED BY <1>1, <1>4, <1>5, <1>6, <1>7

\* A worker that gives its job up without writing the row pays with a loss,
\* unless the row has gone.
LEMMA StoreInvRelease ==
  ASSUME StoreInv, NEW w \in Workers, pc[w] \in Busy,
         NEW p \in Down \cup {"idle"}, pc' = [pc EXCEPT ![w] = p],
         UNCHANGED <<doc, chunks, points, job, del>>,
         task' = [task EXCEPT ![w] = None],
         seen' = [seen EXCEPT ![w] = Unseen],
         losses' \in {losses, losses + 1},
         JobRow(task[w][1]) => losses' = losses + 1
  PROVE  OneActive' /\ SeenInv' /\ PublishedInv' /\ QueuedHasJob' /\ ChargeInv'
         /\ UpsertInv' /\ SettledInv'
<1> USE DEF StoreInv
<1>1. OneActive' /\ PublishedInv' /\ QueuedHasJob' /\ SettledInv'
  BY DEF OneActive, PublishedInv, QueuedHasJob, SettledInv, Settled, Active
<1>2. \A v \in Workers : pc'[v] \in Busy =>
        v # w /\ pc'[v] = pc[v] /\ task'[v] = task[v] /\ seen'[v] = seen[v]
  BY Vocabulary DEF ClaimInv, RowsInv, TypeOK
<1>3. SeenInv'
  BY <1>2 DEF SeenInv, DocOf, JobRow, Busy, Recording
<1>4. UpsertInv'
  BY <1>2 DEF UpsertInv, DocOf, Busy, InTxn
<1>5. ChargeInv'
  <2>1. losses \in Nat /\ \A j \in Jobs : job[j].attempt \in Nat
    BY DEF ClaimInv, RowsInv, TypeOK
  <2>2. \A j \in Jobs : Held(j) /\ ~Held(j)' => j = task[w][1]
    BY <1>2 DEF Held, ClaimInv, RowsInv, TypeOK
  <2> SUFFICES ASSUME NEW j \in Jobs
               PROVE  /\ job[j].status = "queued" => job[j].attempt < MaxAttempts
                      /\ job[j].attempt <= MaxAttempts + losses'
                      /\ job[j].status = "processing" /\ ~Held(j)' =>
                           job[j].attempt < MaxAttempts + losses'
    BY DEF ChargeInv
  <2>3. job[j].status = "processing" => JobRow(j)
    BY DEF JobRow, JobStatus, JobActive
  <2> QED BY <2>1, <2>2, <2>3, AttemptsAssumption DEF ChargeInv
<1> QED BY <1>1, <1>3, <1>4, <1>5

\* What the two commits that end an attempt have in common: the worker's job is
\* the document's only active one, and the document's status is written.
LEMMA StoreInvWritten ==
  ASSUME StoreInv, NEW w \in Workers, pc[w] \in Busy, JobRow(task[w][1]),
         pc' = [pc EXCEPT ![w] = "idle"],
         task' = [task EXCEPT ![w] = None],
         seen' = [seen EXCEPT ![w] = Unseen],
         UNCHANGED <<losses, points, del>>,
         \A i \in Jobs : i # task[w][1] => job'[i] = job[i],
         job'[task[w][1]].doc = DocOf(w),
         job'[task[w][1]].attempt = job[task[w][1]].attempt,
         job'[task[w][1]].status \in {"queued", "succeeded", "failed"},
         job'[task[w][1]].status = "queued" => job[task[w][1]].attempt < MaxAttempts,
         \A x \in Docs : x # DocOf(w) => doc'[x] = doc[x]
  PROVE  Active(task[w][1]) /\ OneActive' /\ SeenInv' /\ ChargeInv' /\ UpsertInv'
<1> USE DEF StoreInv
<1>d. PICK d \in Docs : d = DocOf(w)
  BY BusyTask DEF ClaimInv
<1>j. PICK j \in Jobs : j = task[w][1]
  BY BusyTask DEF ClaimInv
<1>1. Active(j) /\ job[j].doc = d /\ job[j].status = "processing"
  BY <1>d, <1>j DEF ClaimInv, FenceInv, Active, JobActive, DocOf
<1>2. \A i \in Jobs : job[i].doc = d /\ Active(i) => i = j
  BY <1>1 DEF OneActive
<1>3. \A v \in Workers : pc'[v] \in Busy =>
        v # w /\ pc'[v] = pc[v] /\ task'[v] = task[v] /\ seen'[v] = seen[v]
  BY Vocabulary DEF ClaimInv, RowsInv, TypeOK
<1>4. \A v \in Workers : pc'[v] \in Busy =>
        task[v][1] \in Jobs /\ task[v][1] # j
  BY <1>3, <1>j, BusyTask DEF ClaimInv, OneWorkerPerJob
<1>5. OneActive'
  BY <1>1, <1>d, <1>j, OneActiveStays DEF Active
<1>6. SeenInv'
  <2> SUFFICES ASSUME NEW v \in Workers, pc'[v] \in {"jobread", "recording"},
                      job'[task'[v][1]].status \in JobStatus
               PROVE  /\ seen'[v].status = "processing"
                      /\ seen'[v].attempt = task'[v][2]
                      /\ pc'[v] = "recording" => seen'[v].doc = doc'[DocOf(v)']
    BY DEF SeenInv, DocOf, JobRow
  <2>1. pc'[v] \in Busy
    BY DEF Busy, Recording
  <2>2. /\ v # w /\ pc[v] = pc'[v] /\ task'[v] = task[v] /\ seen'[v] = seen[v]
        /\ task[v][1] \in Jobs /\ task[v][1] # j
    BY <2>1, <1>3, <1>4
  <2>3. JobRow(task[v][1]) /\ DocOf(v)' = DocOf(v) /\ DocOf(v) \in Docs
    BY <2>1, <2>2, <1>j, BusyTask DEF ClaimInv, DocOf, JobRow
  <2>4. DocOf(v) # d
    BY <2>1, <2>2, <2>3, <1>d, OneHolder
  <2> QED BY <2>2, <2>3, <2>4, <1>d DEF SeenInv
<1>7. ChargeInv'
  <2>1. \A i \in Jobs : i # j => (Held(i)' <=> Held(i))
    BY <1>3, <1>j DEF Held, ClaimInv, RowsInv, TypeOK
  <2> QED BY <2>1, <1>j DEF ChargeInv
<1>8. UpsertInv'
  <2>1. \A v \in Workers : pc'[v] \in {"wiped", "upserted"} =>
          pc[v] = pc'[v] /\ task'[v] = task[v] /\ DocOf(v)' = DocOf(v)
    BY <1>3, <1>4, <1>j DEF DocOf, Busy, InTxn
  <2> QED BY <2>1 DEF UpsertInv
<1> QED BY <1>j, <1>1, <1>5, <1>6, <1>7, <1>8

\* The final commit publishes chunks whose vectors are there.
LEMMA StoreInvCommitIndexed ==
  ASSUME StoreInv, NEW w \in Workers, CommitIndexed(w)
  PROVE  OneActive' /\ SeenInv' /\ PublishedInv' /\ QueuedHasJob' /\ ChargeInv'
         /\ UpsertInv' /\ SettledInv'
<1> USE DEF StoreInv
<1>1. PICK j \in Jobs : j = task[w][1]
  BY OpenTransaction DEF CommitIndexed, InTxn
<1>2. PICK d \in Docs : d = DocOf(w)
  BY OpenTransaction DEF CommitIndexed, InTxn
<1>3. /\ pc[w] \in Busy /\ JobRow(task[w][1]) /\ task[w] \in Generations
      /\ job[j].status = "processing" /\ doc[d] \in DocLive
  BY <1>1, <1>2, OpenTransaction DEF CommitIndexed, InTxn
<1>4. /\ doc' = [doc EXCEPT ![d] = "indexed"]
      /\ chunks' = [chunks EXCEPT ![d] = task[w]]
      /\ job' = [job EXCEPT ![j].status = "succeeded"]
      /\ pc' = [pc EXCEPT ![w] = "idle"]
      /\ task' = [task EXCEPT ![w] = None]
      /\ seen' = [seen EXCEPT ![w] = Unseen]
      /\ UNCHANGED <<losses, points, del>>
  BY <1>1, <1>2 DEF CommitIndexed, Finish, apiVars
<1>5. /\ \A i \in Jobs : i # j => job'[i] = job[i]
      /\ job'[j].doc = job[j].doc /\ job'[j].attempt = job[j].attempt
      /\ job'[j].status = "succeeded"
      /\ doc'[d] = "indexed" /\ chunks'[d] = task[w]
      /\ \A x \in Docs : x # d => doc'[x] = doc[x] /\ chunks'[x] = chunks[x]
  BY <1>4 DEF ClaimInv, RowsInv, TypeOK
<1>6. /\ Active(j) /\ job[j].doc = d
      /\ OneActive' /\ SeenInv' /\ ChargeInv' /\ UpsertInv'
  BY <1>1, <1>2, <1>3, <1>4, <1>5, StoreInvWritten DEF DocOf
<1>7. PublishedInv'
  <2>1. \A x \in Docs : chunks[x] # None => chunks[x][1] \in Jobs /\ chunks[x][1] # j
    BY <1>3, Vocabulary DEF PublishedInv, ClaimInv, RowsInv, TypeOK
  <2> QED BY <1>1, <1>5, <1>6, <2>1 DEF PublishedInv
<1>8. QueuedHasJob'
  BY <1>5, <1>6 DEF QueuedHasJob, Active
<1>9. SettledInv'
  <2>1. Settled(d)' => /\ task[w] # None
                       /\ task[w] \in points[d]
                       /\ ~FlakyQdrant => points[d] \subseteq {task[w]}
    BY <1>2, <1>3, <1>4, Vocabulary DEF Settled, UpsertInv, CommitIndexed
  <2>2. \A x \in Docs : x # d /\ Settled(x)' => Settled(x)
    BY <1>4, <1>5, <1>6 DEF Settled, Active
  <2> QED BY <1>4, <1>5, <2>1, <2>2 DEF SettledInv
<1> QED BY <1>6, <1>7, <1>8, <1>9

\* What _fail_or_retry writes: the job's outcome, and the same on the document.
LEMMA Recorded ==
  ASSUME StoreInv, NEW w \in Workers, Record(w)
  PROVE  /\ pc[w] \in Busy /\ JobRow(task[w][1])
         /\ task[w][1] \in Jobs /\ DocOf(w) \in Docs
         /\ Outcome(w) \in {"queued", "failed"}
         /\ Outcome(w) = "queued" => job[task[w][1]].attempt < MaxAttempts
         /\ \A i \in Jobs : i # task[w][1] => job'[i] = job[i]
         /\ job'[task[w][1]].status = Outcome(w)
         /\ job'[task[w][1]].attempt = job[task[w][1]].attempt
         /\ job'[task[w][1]].doc = DocOf(w)
         /\ doc' = [doc EXCEPT ![DocOf(w)] = Outcome(w)]
<1> USE DEF StoreInv
<1>1. pc[w] \in Busy /\ pc[w] = "recording" /\ JobRow(task[w][1])
  BY DEF Record, Unrecordable, Busy, Recording
<1>2. task[w][1] \in Jobs /\ DocOf(w) \in Docs /\ task[w] \in Generations
  BY <1>1, BusyTask DEF ClaimInv
<1>3. /\ seen[w].status = "processing" /\ seen[w].attempt = task[w][2]
      /\ seen[w].doc = doc[DocOf(w)]
  BY <1>1 DEF SeenInv
<1>4. job[task[w][1]].attempt = task[w][2] /\ task[w][2] \in Nat
  BY <1>1, <1>2, Vocabulary DEF ClaimInv, FenceInv
<1>5. /\ Outcome(w) \in {"queued", "failed"}
      /\ Outcome(w) = "queued" => job[task[w][1]].attempt < MaxAttempts
  BY <1>3, <1>4, AttemptsAssumption DEF Outcome
<1>6. NewStatus(w) = Outcome(w)
  BY <1>3, <1>5 DEF NewStatus, OrmWrite
<1>7. doc[DocOf(w)] \in DocLive
  <2>1. doc[DocOf(w)] # "absent"
    BY <1>1, <1>2, BusyTask DEF ClaimInv, RowsInv, JobInv, DocOf
  <2>2. doc[DocOf(w)] # "deleted"
    BY <1>1, <1>2 DEF ClaimInv, RowsInv, DeleteIsComplete, DocOf
  <2> QED BY <1>2, <2>1, <2>2 DEF ClaimInv, RowsInv, TypeOK
<1>8. doc' = [doc EXCEPT ![DocOf(w)] = Outcome(w)]
  <2>1. (IF WritesDoc(w) THEN Outcome(w) ELSE doc[DocOf(w)]) = Outcome(w)
    BY <1>3, <1>7 DEF WritesDoc
  <2> QED BY <2>1 DEF Record
<1>9. job' = [job EXCEPT ![task[w][1]] =
         [doc |-> job[task[w][1]].doc, status |-> Outcome(w),
          attempt |-> job[task[w][1]].attempt, lockedAt |-> "null"]]
  BY <1>5, <1>6 DEF Record
<1>10. /\ \A i \in Jobs : i # task[w][1] => job'[i] = job[i]
       /\ job'[task[w][1]].status = Outcome(w)
       /\ job'[task[w][1]].attempt = job[task[w][1]].attempt
       /\ job'[task[w][1]].doc = DocOf(w)
  BY <1>2, <1>9 DEF ClaimInv, RowsInv, TypeOK, DocOf
<1> QED BY <1>1, <1>2, <1>5, <1>8, <1>10

LEMMA StoreInvRecord ==
  ASSUME StoreInv, NEW w \in Workers, Record(w)
  PROVE  OneActive' /\ SeenInv' /\ PublishedInv' /\ QueuedHasJob' /\ ChargeInv'
         /\ UpsertInv' /\ SettledInv'
<1> USE DEF StoreInv
<1>1. PICK j \in Jobs : j = task[w][1]
  BY Recorded
<1>2. PICK d \in Docs : d = DocOf(w)
  BY Recorded
<1>3. /\ pc' = [pc EXCEPT ![w] = "idle"]
      /\ task' = [task EXCEPT ![w] = None]
      /\ seen' = [seen EXCEPT ![w] = Unseen]
      /\ UNCHANGED <<losses, points, del, chunks>>
  BY DEF Record, Finish, apiVars
<1>4. /\ \A x \in Docs : x # d => doc'[x] = doc[x]
      /\ doc'[d] = Outcome(w) /\ job'[j].status = Outcome(w)
  BY <1>1, <1>2, Recorded DEF ClaimInv, RowsInv, TypeOK
<1>5. /\ Active(j) /\ job[j].doc = d
      /\ OneActive' /\ SeenInv' /\ ChargeInv' /\ UpsertInv'
  <2>1. /\ job'[task[w][1]].status \in {"queued", "succeeded", "failed"}
        /\ job'[task[w][1]].status = "queued" => job[task[w][1]].attempt < MaxAttempts
    BY Recorded
  <2>2. \A x \in Docs : x # DocOf(w) => doc'[x] = doc[x]
    BY <1>2, <1>4
  <2> QED BY <1>1, <1>2, <1>3, <2>1, <2>2, Recorded, StoreInvWritten DEF DocOf
<1>6. PublishedInv'
  <2>1. job[j].status # "succeeded"
    BY <1>5 DEF Active, JobActive
  <2> QED BY <1>1, <1>3, <2>1, Recorded, PublishedStays DEF ClaimInv, RowsInv
<1>7. QueuedHasJob'
  <2> SUFFICES ASSUME NEW x \in Docs, doc'[x] = "queued"
               PROVE  \E i \in Jobs : job'[i].doc = x /\ Active(i)'
    BY DEF QueuedHasJob
  <2>1. CASE x = d
    BY <2>1, <1>1, <1>2, <1>4, Recorded DEF Active, JobActive
  <2>2. CASE x # d
    BY <2>2, <1>1, <1>4, <1>5, Recorded DEF QueuedHasJob, Active
  <2> QED BY <2>1, <2>2
<1>8. SettledInv'
  <2>1. ~Settled(d)'
    BY <1>4, Recorded DEF Settled
  <2>2. \A x \in Docs : x # d /\ Settled(x)' => Settled(x)
    BY <1>1, <1>3, <1>4, <1>5, Recorded DEF Settled, Active
  <2> QED BY <1>3, <2>1, <2>2 DEF SettledInv
<1> QED BY <1>5, <1>6, <1>7, <1>8

\* A missing document has taken the job row along.
LEMMA MissingRaises ==
  ASSUME StoreInv, NEW w \in Workers, DocumentMissing(w)
  PROVE  Raise(w) /\ UNCHANGED job
<1>1. pc[w] \in Busy
  BY DEF DocumentMissing, Busy
<1>2. ~JobRow(task[w][1])
  BY <1>1, BusyTask DEF DocumentMissing, StoreInv, ClaimInv, RowsInv, JobInv,
     DeleteIsComplete, TypeOK, DocOf
<1> QED BY <1>2 DEF DocumentMissing

\* Every step of a worker, and everything that stops one.
LEMMA StoreInvWorker ==
  ASSUME StoreInv, NEW w \in Workers, WorkerStep(w)
  PROVE  OneActive' /\ SeenInv' /\ PublishedInv' /\ QueuedHasJob' /\ ChargeInv'
         /\ UpsertInv' /\ SettledInv'
<1> USE DEF StoreInv
<1>1. CASE Claim(w)
  BY <1>1, StoreInvClaim
<1>2. CASE LoadDocument(w) \/ LockDocument(w) \/ RewriteChunks(w) \/ Fail(w)
  <2>1. PICK p \in Busy \ {"wiped", "upserted", "jobread", "recording"} :
          pc' = [pc EXCEPT ![w] = p]
    BY <1>2 DEF LoadDocument, LockDocument, RewriteChunks, Fail, Step, Busy, InTxn,
                Recording
  <2>2. pc[w] \in Busy
    BY <1>2 DEF LoadDocument, LockDocument, RewriteChunks, Fail, Step, Busy, InTxn
  <2>3. UNCHANGED <<doc, chunks, points, job, task, seen, losses, del>>
    BY <1>2 DEF LoadDocument, LockDocument, RewriteChunks, Fail, apiVars
  <2> QED BY <2>1, <2>2, <2>3, StoreInvProgress
<1>3. CASE WipeVectors(w)
  <2>1. /\ pc[w] \in InTxn /\ pc[w] \in Busy /\ "wiped" \in Busy
        /\ pc' = [pc EXCEPT ![w] = "wiped"]
        /\ UNCHANGED <<doc, chunks, job, task, seen, losses, del>>
    BY <1>3 DEF WipeVectors, Step, Busy, InTxn, apiVars
  <2>2. DocOf(w) \in Docs
    BY <2>1, OpenTransaction
  <2>3. /\ \A d \in Docs : points'[d] = points[d] \/ d = DocOf(w)
        /\ ~FlakyQdrant => points'[DocOf(w)] = {}
    BY <1>3, <2>2 DEF WipeVectors, ClaimInv, RowsInv, TypeOK
  <2> QED BY <2>1, <2>3, StoreInvProgress
<1>4. CASE UpsertVectors(w) \/ UpsertUnanswered(w)
  <2>1. /\ pc[w] = "wiped" /\ pc[w] \in InTxn /\ pc[w] \in Busy
        /\ UNCHANGED <<doc, chunks, job, task, seen, losses, del>>
        /\ AddPoints(w)
    BY <1>4 DEF UpsertVectors, UpsertUnanswered, Step, Busy, InTxn, apiVars
  <2>2. PICK p \in {"upserted", "rolledback"} : pc' = [pc EXCEPT ![w] = p]
    BY <1>4 DEF UpsertVectors, UpsertUnanswered, Step
  <2>3. p \in Busy
    BY DEF Busy, InTxn, Recording
  <2>4. DocOf(w) \in Docs
    BY <2>1, OpenTransaction
  <2>5. /\ \A d \in Docs : points'[d] = points[d] \/ d = DocOf(w)
        /\ points'[DocOf(w)] = points[DocOf(w)] \cup {task[w]}
        /\ ~FlakyQdrant => points[DocOf(w)] = {}
    BY <2>1, <2>4 DEF AddPoints, UpsertInv, ClaimInv, RowsInv, TypeOK
  <2> QED BY <2>1, <2>2, <2>3, <2>5, StoreInvProgress
<1>5. CASE CommitIndexed(w)
  BY <1>5, StoreInvCommitIndexed
<1>6. CASE Record(w)
  BY <1>6, StoreInvRecord
<1>7. CASE ReadJob(w)
  <2>1. pc[w] \in Busy /\ "jobread" \in Busy
    BY <1>7 DEF ReadJob, Busy, Recording
  <2>2. UNCHANGED <<doc, chunks, points, job, del>>
    BY <1>7 DEF ReadJob, apiVars
  <2>3. CASE JobRow(task[w][1])
    <3>1. /\ seen' = [seen EXCEPT ![w] = [status |-> job[task[w][1]].status,
                                   attempt |-> job[task[w][1]].attempt, doc |-> "absent"]]
          /\ pc' = [pc EXCEPT ![w] = "jobread"] /\ UNCHANGED <<task, losses>>
      BY <1>7, <2>3 DEF ReadJob
    <3>2. /\ \A v \in Workers : v # w => seen'[v] = seen[v]
          /\ seen'[w].status = "processing" /\ seen'[w].attempt = task[w][2]
      BY <2>1, <2>3, <3>1 DEF ClaimInv, FenceInv, RowsInv, TypeOK
    <3> QED BY <2>1, <2>2, <3>1, <3>2, StoreInvProgress
  <2>4. CASE ~JobRow(task[w][1])
    BY <1>7, <2>1, <2>2, <2>4, StoreInvRelease DEF ReadJob, Finish
  <2> QED BY <2>3, <2>4
<1>8. CASE ReadDocument(w)
  <2>1. /\ pc[w] = "jobread" /\ pc[w] \in Busy /\ "recording" \in Busy
        /\ pc' = [pc EXCEPT ![w] = "recording"]
        /\ UNCHANGED <<doc, chunks, points, job, task, losses, del>>
    BY <1>8 DEF ReadDocument, Step, Busy, Recording, apiVars
  <2>2. /\ \A v \in Workers : v # w => seen'[v] = seen[v]
        /\ seen'[w].status = seen[w].status /\ seen'[w].attempt = seen[w].attempt
        /\ seen'[w].doc = doc[DocOf(w)]
    BY <1>8 DEF ReadDocument, ClaimInv, RowsInv, TypeOK
  <2> QED BY <2>1, <2>2, StoreInvProgress DEF SeenInv
<1>9. CASE DocumentMissing(w) \/ RecordRaises(w)
  <2>1. /\ pc[w] \in Busy /\ Raise(w)
        /\ UNCHANGED <<doc, chunks, points, job, del>>
    BY <1>9, MissingRaises DEF DocumentMissing, RecordRaises, Busy, Recording, apiVars
  <2> QED BY <2>1, StoreInvRelease DEF Raise, Down
<1>10. CASE Restart(w)
  <2>1. /\ \A v \in Workers : (pc'[v] \in Busy <=> pc[v] \in Busy)
                              /\ (pc[v] \in Busy => pc'[v] = pc[v])
                              /\ (pc'[v] \in Busy => pc'[v] = pc[v])
        /\ UNCHANGED <<doc, chunks, points, job, task, seen, losses, del>>
    BY <1>10, Vocabulary DEF Restart, ClaimInv, RowsInv, TypeOK, apiVars
  <2>2. OneActive' /\ PublishedInv' /\ QueuedHasJob' /\ SettledInv' /\ ChargeInv'
    BY <2>1 DEF OneActive, PublishedInv, QueuedHasJob, SettledInv, Settled, Active,
                ChargeInv, Held
  <2>3. SeenInv' /\ UpsertInv'
    BY <2>1 DEF SeenInv, UpsertInv, DocOf, JobRow, Busy, InTxn, Recording
  <2> QED BY <2>2, <2>3
<1> QED BY <1>1, <1>2, <1>3, <1>4, <1>5, <1>6, <1>7, <1>8, <1>9, <1>10 DEF WorkerStep

LEMMA StoreInvLoss ==
  ASSUME StoreInv, NEW w \in Workers,
         DeadlockAbortsDelete(w) \/ DeadlockAbortsWorker(w) \/ Crash(w)
  PROVE  OneActive' /\ SeenInv' /\ PublishedInv' /\ QueuedHasJob' /\ ChargeInv'
         /\ UpsertInv' /\ SettledInv'
<1> USE DEF StoreInv
<1>1. CASE DeadlockAbortsDelete(w)
  <2>1. /\ UNCHANGED <<doc, chunks, points, job, workerVars>>
        /\ del' = [del EXCEPT ![DocOf(w)] = "aborted"]
    BY <1>1 DEF DeadlockAbortsDelete
  <2>2. \A d \in Docs : del'[d] = "none" => del[d] = "none"
    BY <2>1 DEF ClaimInv, RowsInv, TypeOK
  <2> QED BY <2>1, <2>2, StoreInvAside
<1>2. CASE DeadlockAbortsWorker(w) /\ pc[w] # "recording"
  <2>1. /\ pc[w] \in Busy /\ "rolledback" \in Busy
        /\ pc' = [pc EXCEPT ![w] = "rolledback"]
        /\ UNCHANGED <<doc, chunks, points, job, task, seen, losses, del>>
    BY <1>2 DEF DeadlockAbortsWorker, apiVars, Busy, Recording
  <2> QED BY <2>1, StoreInvProgress
<1>3. CASE Crash(w) \/ (DeadlockAbortsWorker(w) /\ pc[w] = "recording")
  BY <1>3, StoreInvRelease DEF Crash, DeadlockAbortsWorker, Raise, Down, apiVars
<1> QED BY <1>1, <1>2, <1>3

\* Only the commit of a delete request ends a document, and it ends the request.
LEMMA DeleteInvNext ==
  ASSUME StoreInv, Next
  PROVE  DeleteInv'
<1> USE DEF StoreInv
<1>0. /\ doc \in [Docs -> {"absent", "deleted"} \cup DocLive]
      /\ del \in [Docs -> {"none", "vectors", "rows", "aborted"}]
  BY DEF ClaimInv, RowsInv, TypeOK
<1>1. ASSUME NEW d \in Docs, ApiStep(d)
      PROVE  DeleteInv'
  BY <1>0, <1>1 DEF ApiStep, Upload, ReindexLoad, ReindexCommit, ReindexRefused, DeleteVectors,
     DeleteRows, DeleteCommit, DeleteAbort, OrmWrite, DeleteInv, DocLive, apiVars
<1>2. ASSUME NEW w \in Workers, CommitIndexed(w)
      PROVE  DeleteInv'
  BY <1>0, <1>2 DEF CommitIndexed, DeleteInv, DocLive, apiVars
<1>3. ASSUME NEW w \in Workers, Record(w)
      PROVE  DeleteInv'
  <2>1. doc' = [doc EXCEPT ![DocOf(w)] = Outcome(w)] /\ Outcome(w) \in DocLive
    BY <1>3, Recorded DEF DocLive
  <2>2. UNCHANGED del
    BY <1>3 DEF Record, apiVars
  <2> QED BY <1>0, <2>1, <2>2 DEF DeleteInv
<1>4. ASSUME NEW w \in Workers, DeadlockAbortsDelete(w)
      PROVE  DeleteInv'
  BY <1>0, <1>4 DEF DeadlockAbortsDelete, Waits, JobHeld, ChunksHeld, DocOf, DeleteInv
<1>5. CASE UNCHANGED <<doc, del>>
  BY <1>5 DEF DeleteInv
<1>6. ASSUME NEW w \in Workers, WorkerStep(w), ~CommitIndexed(w), ~Record(w)
      PROVE  UNCHANGED <<doc, del>>
  BY <1>6 DEF WorkerStep, Claim, LoadDocument, DocumentMissing, LockDocument, RewriteChunks,
     WipeVectors, UpsertVectors, UpsertUnanswered, Fail, ReadJob, ReadDocument, RecordRaises,
     Restart, apiVars
<1>7. ASSUME NEW w \in Workers, DeadlockAbortsWorker(w) \/ Crash(w)
      PROVE  UNCHANGED <<doc, del>>
  BY <1>7 DEF DeadlockAbortsWorker, Crash, apiVars
<1>8. ASSUME NEW j \in Jobs, LockExpires(j)
      PROVE  UNCHANGED <<doc, del>>
  BY <1>8 DEF LockExpires, apiVars
<1> QED BY <1>1, <1>2, <1>3, <1>4, <1>5, <1>6, <1>7, <1>8 DEF Next, Poll, vars

\* StoreInv is inductive when no live worker outlasts the lock timeout.
LEMMA StoreInvNext ==
  ASSUME StoreInv, Overrun = FALSE, [Next]_vars
  PROVE  StoreInv'
<1>1. ClaimInv'
  BY ClaimInvNext DEF StoreInv
<1>2. OneActive' /\ SeenInv' /\ PublishedInv' /\ QueuedHasJob' /\ ChargeInv'
      /\ UpsertInv' /\ SettledInv'
  <2>1. CASE UNCHANGED vars
    BY <2>1 DEF vars, StoreInv, OneActive, SeenInv, PublishedInv, QueuedHasJob, ChargeInv,
       UpsertInv, SettledInv, Settled, Held, Active, DocOf, JobRow
  <2>2. CASE Next
    BY <2>1, <2>2, StoreInvApi, StoreInvLockExpires, StoreInvWorker, StoreInvLoss
       DEF Next, Poll
  <2> QED BY <2>1, <2>2
<1>3. DeleteInv'
  <2>1. CASE UNCHANGED vars
    BY <2>1 DEF vars, StoreInv, DeleteInv
  <2> QED BY <2>1, DeleteInvNext
<1> QED BY <1>1, <1>2, <1>3 DEF StoreInv

LEMMA StoresHoldTogether ==
  ASSUME Overrun = FALSE
  PROVE  Spec => []StoreInv
<1>1. StoreInv /\ [Next]_vars => StoreInv'
  BY StoreInvNext
<1> QED BY <1>1, StoreInvInit, PTL DEF Spec

-----------------------------------------------------------------------------
(* Theorems *)

\* No document stays queued without a job that some worker will pick up.
THEOREM QueuedDocumentsHaveJobs ==
  ASSUME Overrun = FALSE
  PROVE  Spec => []QueuedHasJob
<1>1. StoreInv => QueuedHasJob
  BY DEF StoreInv
<1> QED BY <1>1, StoresHoldTogether, PTL

\* What PostgreSQL shows as indexed can be found in Qdrant, whatever failed,
\* crashed or raced before, and however unreliable Qdrant is.
THEOREM IndexedDocumentsAreSearchable ==
  ASSUME Overrun = FALSE
  PROVE  Spec => []IndexedIsSearchable
<1>1. StoreInv => IndexedIsSearchable
  BY DEF StoreInv, SettledInv, IndexedIsSearchable
<1> QED BY <1>1, StoresHoldTogether, PTL

\* ... and no vectors of an older generation with it, if Qdrant answers.
THEOREM OldVectorsAreGone ==
  ASSUME Overrun = FALSE, FlakyQdrant = FALSE
  PROVE  Spec => []NoStaleVectors
<1>1. StoreInv => NoStaleVectors
  BY DEF StoreInv, SettledInv, NoStaleVectors
<1> QED BY <1>1, StoresHoldTogether, PTL

\* A job is attempted max_attempts times, and once more for each worker lost.
THEOREM EveryAttemptIsCharged ==
  ASSUME Overrun = FALSE
  PROVE  Spec => []AttemptsAreCharged
<1>1. StoreInv => AttemptsAreCharged
  BY DEF StoreInv, ChargeInv, AttemptsAreCharged
<1> QED BY <1>1, StoresHoldTogether, PTL

-----------------------------------------------------------------------------
(* DocumentLifecycle: a step of the pipeline is a step of a document, or none *)

\* Documents with an ingestion due or under way: what DocumentLifecycle sees of
\* the jobs and the workers.
Pending == [d \in Docs |-> \E j \in Jobs : job[j].doc = d /\ Active(j)]

LEMMA LifecycleStarts == Init => Lifecycle!LInit
  BY DEF Init, Lifecycle!LInit, Active, JobActive, NoRow

\* Jobs of other documents make no difference to a document.
LEMMA PendingElsewhere ==
  ASSUME NEW d \in Docs, NEW b \in BOOLEAN,
         b <=> \E j \in Jobs : job'[j].doc = d /\ job'[j].status \in JobActive,
         \A j \in Jobs : job[j].doc # d \/ job'[j].doc # d =>
             job'[j].doc = job[j].doc /\ (job'[j].status \in JobActive <=> Active(j))
  PROVE  Pending' = [Pending EXCEPT ![d] = b]
  BY DEF Pending, Active

LEMMA NothingPublished ==
  ASSUME UNCHANGED <<doc, chunks>>,
         \A j \in Jobs : job'[j].doc = job[j].doc /\ (job'[j].status \in JobActive <=> Active(j))
  PROVE  UNCHANGED Lifecycle!lifecycleVars
<1>1. Pending' = Pending
  BY DEF Pending, Active
<1> QED BY <1>1 DEF Pending, Lifecycle!lifecycleVars

LEMMA InsertedIsPending ==
  ASSUME StoreInv, NEW d \in Docs, InsertJob(d)
  PROVE  Pending' = [Pending EXCEPT ![d] = TRUE]
<1> USE DEF StoreInv
<1>1. PICK n \in Jobs : n = nj + 1 /\ job[n].status = "none"
  <2>1. nj < MaxJobs /\ nj \in 0 .. MaxJobs
    BY DEF InsertJob, ClaimInv, RowsInv, TypeOK
  <2>2. nj + 1 \in Jobs /\ nj + 1 > nj
    BY <2>1, JobsAssumption DEF Jobs
  <2> QED BY <2>2 DEF ClaimInv, RowsInv, JobInv
<1>2. /\ \A j \in Jobs : j # n => job'[j] = job[j]
      /\ job'[n].doc = d /\ job'[n].status = "queued"
  BY <1>1 DEF InsertJob, ClaimInv, RowsInv, TypeOK
<1>3. ASSUME NEW x \in Docs
      PROVE  (\E j \in Jobs : job'[j].doc = x /\ job'[j].status \in JobActive)
                <=> (x = d \/ \E j \in Jobs : job[j].doc = x /\ Active(j))
  BY <1>1, <1>2 DEF Active, JobActive
<1> QED BY <1>3 DEF Pending, Active

\* Upload, a reindex and the deletion of the rows.
LEMMA RequestsRefine ==
  ASSUME StoreInv, NEW d \in Docs, ApiStep(d)
  PROVE  [Lifecycle!LNext]_Lifecycle!lifecycleVars
<1> USE DEF StoreInv
<1>1. CASE Upload(d)
  <2>1. Pending' = [Pending EXCEPT ![d] = TRUE]
    BY <1>1, InsertedIsPending DEF Upload
  <2>2. Lifecycle!Submit(d)
    BY <1>1, <2>1 DEF Pending, Lifecycle!Submit, Upload
  <2> QED BY <2>2 DEF Lifecycle!LNext
<1>2. CASE ReindexCommit(d)
  <2>1. Pending' = [Pending EXCEPT ![d] = TRUE]
    BY <1>2, InsertedIsPending DEF ReindexCommit
  <2>2. doc' = [doc EXCEPT ![d] = "queued"] \/ doc' = doc
    BY <1>2 DEF ReindexCommit, OrmWrite, ClaimInv, RowsInv, TypeOK
  <2>3. doc[d] \in Lifecycle!Live
    BY <1>2 DEF ReindexCommit, DocLive, Lifecycle!Live
  <2>4. ~Pending[d]
    BY <1>2 DEF ReindexCommit, Pending
  <2>5. Lifecycle!Requeue(d)
    BY <1>2, <2>1, <2>2, <2>3, <2>4 DEF Pending, Lifecycle!Requeue, ReindexCommit
  <2> QED BY <2>5 DEF Lifecycle!LNext
<1>3. CASE DeleteCommit(d)
  <2>1. \A j \in Jobs :
          /\ job'[j].doc = job[j].doc
          /\ job[j].doc # d => job'[j] = job[j]
          /\ job[j].doc = d => job'[j].status \notin JobActive
    BY <1>3, Vocabulary DEF DeleteCommit, JobRow, JobActive, ClaimInv, RowsInv, TypeOK
  <2>2. Pending' = [Pending EXCEPT ![d] = FALSE]
    BY <2>1, PendingElsewhere DEF Active
  <2>3. doc[d] \in Lifecycle!Live
    BY <1>3 DEF DeleteCommit, DeleteInv, DocLive, Lifecycle!Live
  <2>4. Lifecycle!Remove(d)
    BY <1>3, <2>2, <2>3 DEF Pending, Lifecycle!Remove, DeleteCommit
  <2> QED BY <2>4 DEF Lifecycle!LNext
<1>4. CASE ReindexLoad(d) \/ ReindexRefused(d) \/ DeleteVectors(d) \/ DeleteRows(d)
           \/ DeleteAbort(d)
  <2>1. UNCHANGED <<doc, chunks, job>>
    BY <1>4 DEF ReindexLoad, ReindexRefused, DeleteVectors, DeleteRows, DeleteAbort
  <2> QED BY <2>1, NothingPublished DEF Active
<1> QED BY <1>1, <1>2, <1>3, <1>4 DEF ApiStep

\* The commits that end an attempt.
LEMMA EndsRefine ==
  ASSUME StoreInv, NEW w \in Workers, CommitIndexed(w) \/ Record(w)
  PROVE  Lifecycle!LNext
<1> USE DEF StoreInv
<1>1. /\ DocOf(w) \in Docs /\ task[w][1] \in Jobs /\ task[w] \in Generations
      /\ job[task[w][1]].status = "processing"
      /\ \A j \in Jobs : Active(j) /\ job[j].doc = DocOf(w) => j = task[w][1]
  <2>1. pc[w] \in Busy /\ JobRow(task[w][1])
    BY OpenTransaction, Recorded DEF CommitIndexed, InTxn
  <2>2. DocOf(w) \in Docs /\ task[w][1] \in Jobs /\ task[w] \in Generations
    BY <2>1, BusyTask DEF ClaimInv
  <2>3. job[task[w][1]].status = "processing"
    BY <2>1 DEF ClaimInv, FenceInv
  <2> QED BY <2>2, <2>3 DEF OneActive, Active, JobActive, DocOf
<1>2. PICK d \in Docs : d = DocOf(w)
  BY <1>1
<1>3. PICK j \in Jobs : j = task[w][1]
  BY <1>1
<1>4. Active(j) /\ job[j].doc = d /\ Pending[d]
  BY <1>1, <1>2, <1>3 DEF Active, JobActive, DocOf, Pending
<1>5. ASSUME NEW b \in BOOLEAN, \A i \in Jobs : i # j => job'[i] = job[i],
             job'[j].doc = d, b <=> job'[j].status \in JobActive
      PROVE  Pending' = [Pending EXCEPT ![d] = b]
  <2>1. b <=> \E i \in Jobs : job'[i].doc = d /\ job'[i].status \in JobActive
    BY <1>1, <1>2, <1>3, <1>5 DEF Active
  <2>2. \A i \in Jobs : job[i].doc # d \/ job'[i].doc # d =>
          job'[i].doc = job[i].doc /\ (job'[i].status \in JobActive <=> Active(i))
    BY <1>4, <1>5 DEF Active
  <2> QED BY <2>1, <2>2, PendingElsewhere
<1>6. CASE CommitIndexed(w)
  <2>1. /\ \A i \in Jobs : i # j => job'[i] = job[i]
        /\ job'[j].doc = job[j].doc /\ job'[j].status \notin JobActive
    BY <1>3, <1>6 DEF CommitIndexed, JobActive, ClaimInv, RowsInv, TypeOK
  <2>2. Pending' = [Pending EXCEPT ![d] = FALSE]
    BY <1>4, <1>5, <2>1
  <2>3. chunks' = [chunks EXCEPT ![d] = task[w]] /\ doc' = [doc EXCEPT ![d] = "indexed"]
    BY <1>2, <1>6 DEF CommitIndexed
  <2>4. chunks'[d] = task[w] /\ task[w] \in Generations \ {chunks[d]}
    BY <1>1, <2>3, Vocabulary DEF PublishedInv, ClaimInv, RowsInv, TypeOK
  <2>5. Lifecycle!Publish(d)
    BY <1>4, <2>2, <2>3, <2>4 DEF Lifecycle!Publish, Pending
  <2> QED BY <2>5 DEF Lifecycle!LNext
<1>7. CASE Record(w)
  <2>1. /\ \A i \in Jobs : i # j => job'[i] = job[i]
        /\ job'[j].doc = d /\ job'[j].status = Outcome(w)
        /\ doc' = [doc EXCEPT ![d] = Outcome(w)]
        /\ Outcome(w) \in {"queued", "failed"}
    BY <1>2, <1>3, <1>7, Recorded
  <2>2. UNCHANGED chunks
    BY <1>7 DEF Record
  <2>3. CASE Outcome(w) = "queued"
    <3>1. Pending' = [Pending EXCEPT ![d] = TRUE]
      BY <1>5, <2>1, <2>3 DEF JobActive
    <3>2. Pending' = Pending
      BY <1>4, <3>1 DEF Pending
    <3>3. Lifecycle!TryAgain(d)
      BY <1>4, <2>1, <2>2, <2>3, <3>2 DEF Lifecycle!TryAgain, Pending
    <3> QED BY <3>3 DEF Lifecycle!LNext
  <2>4. CASE Outcome(w) = "failed"
    <3>1. Pending' = [Pending EXCEPT ![d] = FALSE]
      BY <1>5, <2>1, <2>4 DEF JobActive
    <3>2. Lifecycle!GiveUp(d)
      BY <1>4, <2>1, <2>2, <2>4, <3>1 DEF Lifecycle!GiveUp, Pending
    <3> QED BY <3>2 DEF Lifecycle!LNext
  <2> QED BY <2>1, <2>3, <2>4
<1> QED BY <1>6, <1>7

\* Everything else a worker does, and everything that stops it, is no step of a
\* document: claims and expiries leave a job active.
LEMMA WorkRefines ==
  ASSUME StoreInv, NEW w \in Workers, WorkerStep(w), ~CommitIndexed(w), ~Record(w)
  PROVE  UNCHANGED Lifecycle!lifecycleVars
<1>1. UNCHANGED <<doc, chunks>>
  BY DEF WorkerStep, Claim, LoadDocument, DocumentMissing, LockDocument, RewriteChunks,
     WipeVectors, UpsertVectors, UpsertUnanswered, Fail, ReadJob, ReadDocument, RecordRaises,
     Restart
<1>2. CASE Claim(w)
  <2>1. \A j \in Jobs : job'[j].doc = job[j].doc
                        /\ (job'[j].status \in JobActive <=> Active(j))
    BY <1>2 DEF Claim, Claimable, Active, JobActive, StoreInv, ClaimInv, RowsInv, TypeOK
  <2> QED BY <1>1, <2>1, NothingPublished
<1>3. CASE ~Claim(w)
  <2>1. UNCHANGED job
    BY <1>3, MissingRaises DEF WorkerStep, LoadDocument, LockDocument, RewriteChunks,
       WipeVectors, UpsertVectors, UpsertUnanswered, Fail, ReadJob, ReadDocument,
       RecordRaises, Restart
  <2> QED BY <1>1, <2>1, NothingPublished DEF Active
<1> QED BY <1>2, <1>3

LEMMA StepsRefine ==
  ASSUME StoreInv, [Next]_vars
  PROVE  [Lifecycle!LNext]_Lifecycle!lifecycleVars
<1>1. CASE UNCHANGED vars \/ Poll
  BY <1>1, NothingPublished DEF Poll, vars, Active
<1>2. ASSUME NEW d \in Docs, ApiStep(d)
      PROVE  [Lifecycle!LNext]_Lifecycle!lifecycleVars
  BY <1>2, RequestsRefine
<1>3. ASSUME NEW j \in Jobs, LockExpires(j)
      PROVE  [Lifecycle!LNext]_Lifecycle!lifecycleVars
  <2>1. /\ UNCHANGED <<doc, chunks>>
        /\ \A i \in Jobs : job'[i].doc = job[i].doc /\ job'[i].status = job[i].status
    BY <1>3 DEF LockExpires, StoreInv, ClaimInv, RowsInv, TypeOK
  <2> QED BY <2>1, NothingPublished DEF Active
<1>4. ASSUME NEW w \in Workers, WorkerStep(w)
      PROVE  [Lifecycle!LNext]_Lifecycle!lifecycleVars
  BY <1>4, EndsRefine, WorkRefines
<1>5. ASSUME NEW w \in Workers,
             DeadlockAbortsDelete(w) \/ DeadlockAbortsWorker(w) \/ Crash(w)
      PROVE  [Lifecycle!LNext]_Lifecycle!lifecycleVars
  <2>1. UNCHANGED <<doc, chunks, job>>
    BY <1>5 DEF DeadlockAbortsDelete, DeadlockAbortsWorker, Crash
  <2> QED BY <2>1, NothingPublished DEF Active
<1> QED BY <1>1, <1>2, <1>3, <1>4, <1>5 DEF Next

\* However many workers, retries, crashes and deletes it takes, a document lives
\* the life of DocumentLifecycle: an ingestion publishes a whole new version or
\* leaves the old one.
THEOREM PipelineImplementsLifecycle ==
  ASSUME Overrun = FALSE
  PROVE  Spec => ImplementsLifecycle
<1>1. Init => Lifecycle!LInit
  BY LifecycleStarts
<1>2. StoreInv /\ [Next]_vars => [Lifecycle!LNext]_Lifecycle!lifecycleVars
  BY StepsRefine
<1> QED BY <1>1, <1>2, StoresHoldTogether, PTL DEF Spec, ImplementsLifecycle, Lifecycle!LSpec

=============================================================================
