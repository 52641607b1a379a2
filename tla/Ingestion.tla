------------------------------ MODULE Ingestion ------------------------------
(***************************************************************************)
(* The ingestion pipeline: the API's upload, reindex and delete requests,  *)
(* the worker processes that claim jobs and index documents, PostgreSQL    *)
(* (documents, ingestion_jobs, chunks and their row locks) and Qdrant (the *)
(* derived vectors).  PostgreSQL statements of one transaction that cannot *)
(* be told apart from outside are one step; every wait for a row lock,     *)
(* every commit and every call to Qdrant is a step of its own.             *)
(*                                                                         *)
(* A worker's transaction holds the row lock of its document from the      *)
(* flush of "processing" (worker.py:90) to its commit or rollback, so that *)
(* status is never committed and does not occur in `doc'.  The chunks a    *)
(* worker inserts carry fresh UUIDs: they are named by the generation      *)
(* <<job, attempt>> that made them.                                        *)
(*                                                                         *)
(* A definition marked "Variant" is no part of Next: it is the one below   *)
(* it with a plausible mistake, to show which property would notice.       *)
(***************************************************************************)
EXTENDS Naturals, FiniteSets

CONSTANTS
    Docs,           \* identities of documents (one upload each)
    Workers,        \* worker processes
    MaxJobs,        \* bound: rows of ingestion_jobs ever created
    MaxAttempts,    \* ingestion_jobs.max_attempts (3 in the schema)
    MaxCrashes,     \* bound: workers killed in mid-job
    MaxDeletes,     \* bound: DELETE requests, retries included
    Overrun,        \* a live worker may hold a job longer than LOCK_TIMEOUT
    FlakyQdrant     \* a call to Qdrant may fail or lose its answer

ASSUME JobsAssumption == MaxJobs \in Nat
ASSUME AttemptsAssumption == MaxAttempts \in Nat \ {0}
ASSUME BoundsAssumption == MaxCrashes \in Nat /\ MaxDeletes \in Nat
ASSUME SwitchesAssumption == Overrun \in BOOLEAN /\ FlakyQdrant \in BOOLEAN

VARIABLES
    doc,        \* documents.status as committed; "absent"/"deleted": no row
    chunks,     \* generation of the committed chunk rows of a document
    points,     \* generations of a document's points in Qdrant
    job,        \* ingestion_jobs rows, in order of created_at; locked_at is
                \* null, or younger or older than LOCK_TIMEOUT
    nj,         \* number of rows created so far
    pc,         \* where each worker is in run_once
    task,       \* the <<job, attempt>> each worker has claimed
    seen,       \* what _fail_or_retry read before it writes
    reindex,    \* documents.status as a pending reindex request has read it
    del,        \* progress of a delete request of a document
    held,       \* the jobs it has deleted, uncommitted: those up to this one
    losses,     \* workers killed, or stopped by an escaping exception
    deletes     \* delete requests started

vars == <<doc, chunks, points, job, nj, pc, task, seen, reindex, del, held,
          losses, deletes>>
apiVars    == <<reindex, del, held, deletes>>
workerVars == <<pc, task, seen, losses>>

Jobs        == 1 .. MaxJobs
None        == <<0, 0>>                  \* no generation, and no claimed job
Generations == Jobs \X Nat
JobActive   == {"queued", "processing"}
JobTerminal == {"succeeded", "failed"}
JobStatus   == JobActive \cup JobTerminal
DocLive     == {"queued", "indexed", "failed"}
InTxn       == {"locked", "rewritten", "wiped", "upserted"}
Recording   == {"rolledback", "jobread", "recording"}
Busy        == {"claimed", "loaded"} \cup InTxn \cup Recording
Down        == {"crashed", "raised"}

NoRow  == [doc |-> "none", status |-> "none", attempt |-> 0, lockedAt |-> "null"]
Unseen == [status |-> "none", attempt |-> 0, doc |-> "absent"]

DocOf(w) == job[task[w][1]].doc
JobRow(j) == job[j].status \in JobStatus
Active(j) == job[j].status \in JobActive

\* Workers whose open transaction holds the row lock of document d.
Holders(d) == {w \in Workers : pc[w] \in InTxn /\ DocOf(w) = d}

\* The unit of work writes a column only when its value differs from the one
\* the session loaded; otherwise the row keeps what is there by then.
OrmWrite(current, loaded, new) == IF loaded = new THEN current ELSE new

-----------------------------------------------------------------------------
Init ==
    /\ doc = [d \in Docs |-> "absent"]
    /\ chunks = [d \in Docs |-> None]
    /\ points = [d \in Docs |-> {}]
    /\ job = [j \in Jobs |-> NoRow]
    /\ nj = 0
    /\ pc = [w \in Workers |-> "idle"]
    /\ task = [w \in Workers |-> None]
    /\ seen = [w \in Workers |-> Unseen]
    /\ reindex = [d \in Docs |-> "none"]
    /\ del = [d \in Docs |-> "none"]
    /\ held = [d \in Docs |-> 0]
    /\ losses = 0
    /\ deletes = 0

-----------------------------------------------------------------------------
(* The API *)

InsertJob(d) ==
    /\ nj < MaxJobs
    /\ nj' = nj + 1
    /\ job' = [job EXCEPT ![nj + 1] = [doc |-> d, status |-> "queued",
                                       attempt |-> 0, lockedAt |-> "null"]]

\* create_document: the document, its source and its first job in one commit.
Upload(d) ==
    /\ doc[d] = "absent"
    /\ InsertJob(d)
    /\ doc' = [doc EXCEPT ![d] = "queued"]
    /\ UNCHANGED <<chunks, points, workerVars, apiVars>>

\* Variant: the route does not look whether the document exists.
ReindexLoadUnchecked(d) ==
    /\ reindex[d] = "none"
    /\ reindex' = [reindex EXCEPT ![d] = doc[d]]
    /\ UNCHANGED <<doc, chunks, points, job, nj, workerVars, del, held, deletes>>

\* The reindex route loads the document into its session.
ReindexLoad(d) ==
    /\ reindex[d] = "none"
    /\ doc[d] \in DocLive
    /\ reindex' = [reindex EXCEPT ![d] = doc[d]]
    /\ UNCHANGED <<doc, chunks, points, job, nj, workerVars, del, held, deletes>>

\* Variant: no foreign key, the new job may be one of a deleted document.
ReindexCommitUnchecked(d) ==
    /\ reindex[d] # "none"
    /\ \A j \in Jobs : job[j].doc = d => ~Active(j)
    /\ InsertJob(d)
    /\ doc' = [doc EXCEPT ![d] = OrmWrite(@, reindex[d], "queued")]
    /\ reindex' = [reindex EXCEPT ![d] = "none"]
    /\ UNCHANGED <<chunks, points, workerVars, del, held, deletes>>

\* create_reindex_job, no active job: the document is queued again, unless the
\* session had already loaded it as queued, and a new job is inserted.
ReindexCommit(d) ==
    /\ reindex[d] # "none"
    /\ doc[d] \in DocLive
    /\ \A j \in Jobs : job[j].doc = d => ~Active(j)
    /\ reindex[d] # "queued" => Holders(d) = {}
    /\ InsertJob(d)
    /\ doc' = [doc EXCEPT ![d] = OrmWrite(@, reindex[d], "queued")]
    /\ reindex' = [reindex EXCEPT ![d] = "none"]
    /\ UNCHANGED <<chunks, points, workerVars, del, held, deletes>>

\* 409 on an active job (or the unique index), 500 on a vanished document.
ReindexRefused(d) ==
    /\ reindex[d] # "none"
    /\ \/ doc[d] \notin DocLive
       \/ \E j \in Jobs : job[j].doc = d /\ Active(j)
       \/ nj = MaxJobs
    /\ reindex' = [reindex EXCEPT ![d] = "none"]
    /\ UNCHANGED <<doc, chunks, points, job, nj, workerVars, del, held, deletes>>

\* delete_document, first call: Qdrant, whose errors are swallowed.
DeleteVectors(d) ==
    /\ doc[d] \in DocLive
    /\ del[d] \in {"none", "aborted"}
    /\ deletes < MaxDeletes
    /\ \/ points' = [points EXCEPT ![d] = {}]
       \/ FlakyQdrant /\ UNCHANGED points
    /\ del' = [del EXCEPT ![d] = "vectors"]
    /\ deletes' = deletes + 1
    /\ UNCHANGED <<doc, chunks, job, nj, workerVars, reindex, held>>

\* Then the chunk rows and the job rows it finds are deleted, uncommitted; it
\* waits for a worker that has deleted the same chunk rows in its transaction.
DeleteRows(d) ==
    /\ del[d] = "vectors"
    /\ chunks[d] # None =>
         \A w \in Holders(d) : pc[w] = "locked"
    /\ del' = [del EXCEPT ![d] = "rows"]
    /\ held' = [held EXCEPT ![d] = nj]
    /\ UNCHANGED <<doc, chunks, points, job, nj, workerVars, reindex, deletes>>

\* What a delete transaction has locked: the jobs there were, and the chunk rows
\* of one of them.  A reindex may have inserted a job since.
JobHeld(j) == del[job[j].doc] = "rows" /\ j <= held[job[j].doc]
ChunksHeld(d) == del[d] = "rows" /\ chunks[d] # None /\ chunks[d][1] <= held[d]

\* Then the document row, whose lock a worker may hold, and the commit; the
\* foreign keys take every remaining job, chunk and source row along.
DeleteCommit(d) ==
    /\ del[d] = "rows"
    /\ Holders(d) = {}
    /\ doc' = [doc EXCEPT ![d] = "deleted"]
    /\ chunks' = [chunks EXCEPT ![d] = None]
    /\ job' = [j \in Jobs |-> IF job[j].doc = d /\ JobRow(j)
                              THEN [job[j] EXCEPT !.status = "gone"]
                              ELSE job[j]]
    /\ del' = [del EXCEPT ![d] = "none"]
    /\ held' = [held EXCEPT ![d] = 0]
    /\ UNCHANGED <<points, nj, workerVars, reindex, deletes>>

\* The API process or its connection is lost: the transaction rolls back, the
\* vectors stay deleted.
DeleteAbort(d) ==
    /\ del[d] \in {"vectors", "rows"}
    /\ del' = [del EXCEPT ![d] = "aborted"]
    /\ held' = [held EXCEPT ![d] = 0]
    /\ UNCHANGED <<doc, chunks, points, job, nj, workerVars, reindex, deletes>>

-----------------------------------------------------------------------------
(* The worker *)

Step(w, from, to) == pc[w] = from /\ pc' = [pc EXCEPT ![w] = to]

\* Variant: LOCK_TIMEOUT is shorter than an ingestion takes.
LockExpiresEarly(j) ==
    /\ job[j].status = "processing"
    /\ job[j].lockedAt = "recent"
    /\ job' = [job EXCEPT ![j].lockedAt = "old"]
    /\ UNCHANGED <<doc, chunks, points, nj, workerVars, apiVars>>

\* locked_at is older than LOCK_TIMEOUT.
LockExpires(j) ==
    /\ job[j].status = "processing"
    /\ job[j].lockedAt = "recent"
    /\ Overrun \/ \A w \in Workers : task[w][1] # j
    /\ job' = [job EXCEPT ![j].lockedAt = "old"]
    /\ UNCHANGED <<doc, chunks, points, nj, workerVars, apiVars>>

\* Variants: a processing job is claimable whatever its age; never; a failed
\* job is.
ClaimableAnyAge(j) == Active(j) /\ ~JobHeld(j)
ClaimableQueuedOnly(j) == job[j].status = "queued" /\ ~JobHeld(j)
ClaimableFailed(j) ==
    /\ \/ job[j].status \in {"queued", "failed"}
       \/ job[j].status = "processing" /\ job[j].lockedAt = "old"
    /\ ~JobHeld(j)

\* Rows a delete transaction has locked are skipped (SKIP LOCKED).
Claimable(j) ==
    /\ \/ job[j].status = "queued"
       \/ job[j].status = "processing" /\ job[j].lockedAt = "old"
    /\ ~JobHeld(j)

\* claim_job: the oldest claimable job, in a transaction of its own.
Claim(w) ==
    /\ Step(w, "idle", "claimed")
    /\ \E j \in Jobs :
         /\ Claimable(j)
         /\ \A i \in Jobs : i < j => ~Claimable(i)
         /\ task' = [task EXCEPT ![w] = <<j, job[j].attempt + 1>>]
         /\ job' = [job EXCEPT ![j] =
              [doc |-> @.doc, status |-> "processing", attempt |-> @.attempt + 1,
               lockedAt |-> "recent"]]
    /\ UNCHANGED <<doc, chunks, points, nj, seen, losses, apiVars>>

\* An exception leaves run(): the process ends, its claim is forgotten.
Raise(w) ==
    /\ pc' = [pc EXCEPT ![w] = "raised"]
    /\ task' = [task EXCEPT ![w] = None]
    /\ seen' = [seen EXCEPT ![w] = Unseen]
    /\ losses' = losses + 1

Finish(w) ==
    /\ pc' = [pc EXCEPT ![w] = "idle"]
    /\ task' = [task EXCEPT ![w] = None]
    /\ seen' = [seen EXCEPT ![w] = Unseen]
    /\ UNCHANGED losses

\* process_job loads the document.
LoadDocument(w) ==
    /\ Step(w, "claimed", "loaded")
    /\ doc[DocOf(w)] \in DocLive
    /\ UNCHANGED <<doc, chunks, points, job, nj, task, seen, losses, apiVars>>

\* No document: the handler writes the job off.  A job row that went with its
\* document makes that UPDATE match nothing (StaleDataError), outside the try.
DocumentMissing(w) ==
    /\ pc[w] = "claimed"
    /\ doc[DocOf(w)] \notin DocLive
    /\ IF JobRow(task[w][1])
         THEN /\ job' = [job EXCEPT ![task[w][1]].status = "failed"]
              /\ Finish(w)
         ELSE Raise(w) /\ UNCHANGED job
    /\ UNCHANGED <<doc, chunks, points, nj, apiVars>>

\* The flush of status = processing takes the document's row lock.
LockDocument(w) ==
    /\ Step(w, "loaded", "locked")
    /\ doc[DocOf(w)] \in DocLive
    /\ Holders(DocOf(w)) = {}
    /\ UNCHANGED <<doc, chunks, points, job, nj, task, seen, losses, apiVars>>

\* Variant: the new chunk rows are committed before their vectors exist.
RewriteChunksEarly(w) ==
    /\ Step(w, "locked", "rewritten")
    /\ ~ChunksHeld(DocOf(w))
    /\ chunks' = [chunks EXCEPT ![DocOf(w)] = task[w]]
    /\ UNCHANGED <<doc, points, job, nj, task, seen, losses, apiVars>>

\* Old chunk rows out, new ones in, uncommitted; waits for a delete
\* transaction that has locked the old ones.
RewriteChunks(w) ==
    /\ Step(w, "locked", "rewritten")
    /\ ~ChunksHeld(DocOf(w))
    /\ UNCHANGED <<doc, chunks, points, job, nj, task, seen, losses, apiVars>>

\* Variant: the old vectors are not deleted.
WipeVectorsNever(w) ==
    /\ Step(w, "rewritten", "wiped")
    /\ UNCHANGED <<doc, chunks, points, job, nj, task, seen, losses, apiVars>>

\* vector_store.delete_by_document, whose errors are swallowed.
WipeVectors(w) ==
    /\ Step(w, "rewritten", "wiped")
    /\ \/ points' = [points EXCEPT ![DocOf(w)] = {}]
       \/ FlakyQdrant /\ UNCHANGED points
    /\ UNCHANGED <<doc, chunks, job, nj, task, seen, losses, apiVars>>

\* Variant: the upsert is skipped for a document that has vectors already.
AddPointsIfNone(w) ==
    points' = [points EXCEPT ![DocOf(w)] = IF @ = {} THEN {task[w]} ELSE @]

AddPoints(w) == points' = [points EXCEPT ![DocOf(w)] = @ \cup {task[w]}]

UpsertVectors(w) ==
    /\ Step(w, "wiped", "upserted")
    /\ AddPoints(w)
    /\ UNCHANGED <<doc, chunks, job, nj, task, seen, losses, apiVars>>

\* The upsert is applied but its answer is lost: an exception here.
UpsertUnanswered(w) ==
    /\ FlakyQdrant
    /\ Step(w, "wiped", "rolledback")
    /\ AddPoints(w)
    /\ UNCHANGED <<doc, chunks, job, nj, task, seen, losses, apiVars>>

\* The final commit; the UPDATE of the job waits for a delete transaction.
CommitIndexed(w) ==
    /\ pc[w] = "upserted"
    /\ ~JobHeld(task[w][1])
    /\ doc' = [doc EXCEPT ![DocOf(w)] = "indexed"]
    /\ chunks' = [chunks EXCEPT ![DocOf(w)] = task[w]]
    /\ job' = [job EXCEPT ![task[w][1]].status = "succeeded"]
    /\ Finish(w)
    /\ UNCHANGED <<points, nj, apiVars>>

\* Any exception in the try block (PDF, OpenAI, Qdrant, database): rollback.
\* A document deleted since it was loaded can only end here.
Fail(w) ==
    /\ pc[w] \in InTxn \cup {"loaded"}
    /\ pc' = [pc EXCEPT ![w] = "rolledback"]
    /\ UNCHANGED <<doc, chunks, points, job, nj, task, seen, losses, apiVars>>

\* _fail_or_retry reads the job again, and gives up when it has gone.
ReadJob(w) ==
    /\ pc[w] = "rolledback"
    /\ LET j == job[task[w][1]] IN
       IF JobRow(task[w][1])
         THEN /\ seen' = [seen EXCEPT ![w] = [status |-> j.status,
                             attempt |-> j.attempt, doc |-> "absent"]]
              /\ pc' = [pc EXCEPT ![w] = "jobread"]
              /\ UNCHANGED <<task, losses>>
         ELSE Finish(w)
    /\ UNCHANGED <<doc, chunks, points, job, nj, apiVars>>

ReadDocument(w) ==
    /\ Step(w, "jobread", "recording")
    /\ seen' = [seen EXCEPT ![w].doc = doc[DocOf(w)]]
    /\ UNCHANGED <<doc, chunks, points, job, nj, task, losses, apiVars>>

\* Variant: off by one.
OutcomeLate(w) == IF seen[w].attempt > MaxAttempts THEN "failed" ELSE "queued"

Outcome(w) == IF seen[w].attempt >= MaxAttempts THEN "failed" ELSE "queued"

\* Variant: the document's status is left alone.
WritesDocNever(w) == FALSE /\ w \in Workers

WritesDoc(w) == seen[w].doc \in DocLive /\ seen[w].doc # Outcome(w)

NewStatus(w) == OrmWrite(job[task[w][1]].status, seen[w].status, Outcome(w))

\* Rows to update have gone, or the document has another active job by now
\* (uq_ingestion_jobs_active_document).
Unrecordable(w) ==
    \/ ~JobRow(task[w][1])
    \/ /\ NewStatus(w) \in JobActive
       /\ \E j \in Jobs : j # task[w][1] /\ job[j].doc = DocOf(w) /\ Active(j)

\* The UPDATEs and the commit of _fail_or_retry.
Record(w) ==
    /\ pc[w] = "recording"
    /\ ~JobHeld(task[w][1])
    /\ WritesDoc(w) => Holders(DocOf(w)) = {}
    /\ ~Unrecordable(w)
    /\ job' = [job EXCEPT ![task[w][1]] =
         [doc |-> @.doc, status |-> NewStatus(w), attempt |-> @.attempt,
          lockedAt |-> IF NewStatus(w) = "processing" THEN @.lockedAt ELSE "null"]]
    /\ doc' = [doc EXCEPT ![DocOf(w)] = IF WritesDoc(w) THEN Outcome(w) ELSE @]
    /\ Finish(w)
    /\ UNCHANGED <<chunks, points, nj, apiVars>>

\* Nothing catches an error of that commit.
RecordRaises(w) ==
    /\ pc[w] = "recording"
    /\ ~JobHeld(task[w][1])
    /\ Unrecordable(w)
    /\ Raise(w)
    /\ UNCHANGED <<doc, chunks, points, job, nj, apiVars>>

-----------------------------------------------------------------------------
(* Lock cycles, crashes, restarts *)

\* A worker with the document's lock waits for job or chunk rows that a delete
\* transaction has locked, which in turn waits for the document.
Waits(w) ==
    \/ pc[w] = "upserted" /\ JobHeld(task[w][1])
    \/ pc[w] = "locked" /\ ChunksHeld(DocOf(w))
    \/ /\ pc[w] = "recording" /\ JobHeld(task[w][1])
       /\ WritesDoc(w) /\ Holders(DocOf(w)) = {}

\* Variant: the route tries the aborted transaction again.
DeadlockRetriesDelete(w) ==
    /\ pc[w] \in Busy
    /\ Waits(w)
    /\ del' = [del EXCEPT ![DocOf(w)] = "vectors"]
    /\ held' = [held EXCEPT ![DocOf(w)] = 0]
    /\ UNCHANGED <<doc, chunks, points, job, nj, workerVars, reindex, deletes>>

\* PostgreSQL breaks the cycle by aborting the delete request ...
DeadlockAbortsDelete(w) ==
    /\ pc[w] \in Busy
    /\ Waits(w)
    /\ del' = [del EXCEPT ![DocOf(w)] = "aborted"]
    /\ held' = [held EXCEPT ![DocOf(w)] = 0]
    /\ UNCHANGED <<doc, chunks, points, job, nj, workerVars, reindex, deletes>>

\* ... or the worker, which rolls back; in _fail_or_retry nothing catches it.
DeadlockAbortsWorker(w) ==
    /\ pc[w] \in Busy
    /\ Waits(w)
    /\ IF pc[w] = "recording"
         THEN Raise(w)
         ELSE /\ pc' = [pc EXCEPT ![w] = "rolledback"]
              /\ UNCHANGED <<task, seen, losses>>
    /\ UNCHANGED <<doc, chunks, points, job, nj, apiVars>>

\* The process is killed: its transaction rolls back, its claim stays.
Crash(w) ==
    /\ pc[w] \in Busy
    /\ losses < MaxCrashes
    /\ pc' = [pc EXCEPT ![w] = "crashed"]
    /\ task' = [task EXCEPT ![w] = None]
    /\ seen' = [seen EXCEPT ![w] = Unseen]
    /\ losses' = losses + 1
    /\ UNCHANGED <<doc, chunks, points, job, nj, apiVars>>

\* "restart: unless-stopped" in compose.yaml.
Restart(w) ==
    /\ pc[w] \in Down
    /\ pc' = [pc EXCEPT ![w] = "idle"]
    /\ UNCHANGED <<doc, chunks, points, job, nj, task, seen, losses, apiVars>>

\* Nothing to claim anywhere: the workers sleep and poll again.
Poll ==
    /\ \A w \in Workers : pc[w] = "idle"
    /\ \A j \in Jobs : ~Active(j)
    /\ \A d \in Docs : del[d] \in {"none", "aborted"} /\ reindex[d] = "none"
    /\ UNCHANGED vars

WorkerStep(w) ==
    \/ Claim(w) \/ LoadDocument(w) \/ DocumentMissing(w) \/ LockDocument(w)
    \/ RewriteChunks(w) \/ WipeVectors(w) \/ UpsertVectors(w)
    \/ UpsertUnanswered(w) \/ CommitIndexed(w) \/ Fail(w)
    \/ ReadJob(w) \/ ReadDocument(w) \/ Record(w) \/ RecordRaises(w)
    \/ Restart(w)

ApiStep(d) ==
    \/ Upload(d) \/ ReindexLoad(d) \/ ReindexCommit(d) \/ ReindexRefused(d)
    \/ DeleteVectors(d) \/ DeleteRows(d) \/ DeleteCommit(d) \/ DeleteAbort(d)

Next ==
    \/ \E d \in Docs : ApiStep(d)
    \/ \E j \in Jobs : LockExpires(j)
    \/ \E w \in Workers : \/ WorkerStep(w)
                          \/ DeadlockAbortsDelete(w) \/ DeadlockAbortsWorker(w)
                          \/ Crash(w)
    \/ Poll

Spec == Init /\ [][Next]_vars

\* Every worker keeps running and is restarted (compose.yaml, restart:
\* unless-stopped), time passes, an API request that has begun to delete goes
\* on, and PostgreSQL resolves its deadlocks.  No user request is owed.
Fairness ==
    /\ \A w \in Workers :
         /\ WF_vars(WorkerStep(w))
         /\ WF_vars(DeadlockAbortsDelete(w) \/ DeadlockAbortsWorker(w))
    /\ \A j \in Jobs : WF_vars(LockExpires(j))
    /\ \A d \in Docs : WF_vars(DeleteRows(d) \/ DeleteCommit(d))

FairSpec == Spec /\ Fairness

-----------------------------------------------------------------------------
(* Properties *)

\* The values of every variable; the one type invariant of this module.
TypeOK ==
    /\ doc \in [Docs -> {"absent", "deleted"} \cup DocLive]
    /\ chunks \in [Docs -> Generations \cup {None}]
    /\ points \in [Docs -> SUBSET Generations]
    /\ job \in [Jobs -> [doc : Docs \cup {"none"},
                         status : JobStatus \cup {"none", "gone"},
                         attempt : Nat, lockedAt : {"null", "recent", "old"}]]
    /\ nj \in 0 .. MaxJobs
    /\ pc \in [Workers -> Busy \cup Down \cup {"idle"}]
    /\ task \in [Workers -> Generations \cup {None}]
    /\ seen \in [Workers -> [status : JobStatus \cup {"none"}, attempt : Nat,
                             doc : {"absent", "deleted"} \cup DocLive]]
    /\ reindex \in [Docs -> DocLive \cup {"none"}]
    /\ del \in [Docs -> {"none", "vectors", "rows", "aborted"}]
    /\ held \in [Docs -> 0 .. MaxJobs]
    /\ losses \in Nat
    /\ deletes \in 0 .. MaxDeletes

\* "Multiple workers never grab the same job" (worker.py:4): no job is in the
\* hands of two live workers at once, reclaims and retries included.
OneWorkerPerJob ==
    \A v, w \in Workers : pc[v] \in Busy /\ pc[w] \in Busy /\ v # w
                           => task[v][1] # task[w][1]

\* A live worker still owns the row it claimed: it is processing, under the
\* attempt the worker was given, whatever became of other jobs and workers.
ClaimIsFenced ==
    \A w \in Workers : pc[w] \in Busy /\ JobRow(task[w][1]) =>
        /\ job[task[w][1]].status = "processing"
        /\ job[task[w][1]].attempt = task[w][2]

\* A document shown as queued has a job some worker will pick up, or is
\* processing: otherwise it would stay queued for ever.
QueuedHasJob ==
    \A d \in Docs : doc[d] = "queued" => \E j \in Jobs : job[j].doc = d /\ Active(j)

Settled(d) == /\ doc[d] = "indexed"
              /\ \A j \in Jobs : job[j].doc = d => ~Active(j)
              /\ del[d] = "none"

\* The two stores agree once an ingestion has settled: the vectors of the
\* chunks PostgreSQL holds for an indexed document are in Qdrant, unless a
\* delete request has come (and failed) in between.
IndexedIsSearchable ==
    \A d \in Docs : Settled(d) => chunks[d] # None /\ chunks[d] \in points[d]

\* ... and with a Qdrant that answers, no vector of an older generation is.
NoStaleVectors ==
    \A d \in Docs : Settled(d) => points[d] = {chunks[d]}

\* A deleted document leaves no chunk and no job behind, whatever a worker was
\* doing with it when the rows went.
DeleteIsComplete ==
    \A d \in Docs : doc[d] = "deleted" =>
        chunks[d] = None /\ \A j \in Jobs : job[j].doc = d => ~JobRow(j)

\* Beyond max_attempts a job is tried again only for a worker lost in mid-job:
\* claim_job counts a reclaimed attempt but never compares it.
AttemptsAreCharged ==
    \A j \in Jobs : job[j].attempt <= MaxAttempts + losses

\* A job that has succeeded or failed is never touched again, but for the
\* cascade of its document.
TerminalIsFinal ==
    [][\A j \in Jobs : job[j].status \in JobTerminal =>
         job'[j].status \in {job[j].status, "gone"}]_vars

\* Deleting a document removes its vectors (DocumentsPage.tsx:52).  Refuted: an
\* ingestion under way upserts between the deletion in Qdrant and that of the
\* rows, and nothing removes those points again.
DeletedHasNoVectors == \A d \in Docs : doc[d] = "deleted" => points[d] = {}

\* Failures are recorded on the job, never raised (worker.py:155).  Refuted: a
\* document deleted after the claim takes its job row along, and the handlers'
\* UPDATE of that row raises outside the try, which stops the worker.
FailuresAreRecorded == \A w \in Workers : pc[w] # "raised"

\* A queued document does not stay queued: some worker ends its ingestion, or
\* it is deleted, in spite of failures, crashes, restarts and deadlocks.
QueuedSettles == \A d \in Docs : (doc[d] = "queued") ~> (doc[d] # "queued")

\* A delete request ends, also when an ingestion holds its document.
DeleteEnds == \A d \in Docs :
    (del[d] \in {"vectors", "rows"}) ~> (del[d] \in {"none", "aborted"})

\* What all this promises: DocumentLifecycle, where an ingestion is one step.
Lifecycle == INSTANCE DocumentLifecycle WITH
    Versions <- Generations,
    NoVersion <- None,
    status <- doc,
    content <- chunks,
    pending <- [d \in Docs |-> \E j \in Jobs : job[j].doc = d /\ Active(j)]

\* The pipeline implements the life cycle of a document.
ImplementsLifecycle == Lifecycle!LSpec

=============================================================================
