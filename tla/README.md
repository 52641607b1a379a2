# CircuitSage: specifications, model checks and proofs

CircuitSage answers questions about electronics documents: administrators upload PDFs, a
background worker chunks and embeds them, users chat over the indexed corpus, and a graded
benchmark measures the retrieval.  PostgreSQL is the system of record, Qdrant holds derived
vectors.  Everything hard about it happens between processes: several workers, several API
requests and command line processes work on the same rows with short transactions and calls to
services that fail.  This directory models that concurrency in TLA+, checks it with TLC and
proves with TLAPS every property of the passing runs that is not about liveness.

Source paths are relative to the repository; `app/` is `backend/app/`.

## 1. Inventory

| Part | State it keeps | Operations | What makes it correct |
|---|---|---|---|
| Ingestion worker (`app/worker.py`) | `ingestion_jobs` rows, its open transaction | `claim_job`, `process_job`, `_fail_or_retry`, polling, restart | no two workers on one job; no queued document without a job; both stores agree; retries bounded; failures recorded |
| Documents API (`app/services/documents.py`, `app/api/routes/documents.py`) | `documents`, `chunks`, `ingestion_jobs` | upload, reindex, delete, list | one active job per document; a deleted document leaves nothing |
| Vector store (`app/services/vector_store.py`) | points in Qdrant | upsert, delete by document (errors swallowed), search | the vectors of the committed chunks are there, and no others |
| Evaluation runs (`app/evals/runner.py`, `app/api/routes/evals.py`) | `eval_runs`, `eval_results` | create, claim, execute, cancel, compare | rows and metrics of one execution; comparable runs saw one corpus, unless it changed under one of them; finished runs are not taken up again |
| Benchmark authoring (`app/services/benchmark.py`) | versions, cases, judgments | create, add, update, import, delete, publish | what is published met the gate; a published version is closed to new requests |
| Metrics (`app/evals/metrics.py`) | none | hit, recall, reciprocal rank, nDCG | values in 0..1, agree with their definitions |
| Feedback (`app/services/feedback.py`) | feedback, corrections, promoted cases | submit, review, promote | one feedback per author and message; review states; promotion only into drafts |
| Chat (`app/services/rag.py`, `app/api/routes/chat.py`) | conversations, messages, `retrieval_results` | ask, list, trace | daily limit; the trace of an answer is whole; every question ends |
| Answers (`app/services/answers.py`) | none | parse and validate citations | every citation names a source that was given |
| Retrieval (`app/retrieval/`) | none | lexical, dense, fusion, reranking, hydration | only visible, indexed chunks; fusion respects what the rankings agree on |
| Chunking, embeddings (`app/services/chunking.py`, `embeddings.py`) | none | windows over paragraphs; batches with retries | no text lost; bounded windows; one vector per chunk |
| Sessions (`app/services/auth.py`, `app/api/routes/auth.py`, `frontend/src/features/auth/AuthContext.tsx`, `frontend/src/api/client.ts`) | `refresh_tokens`, the browser's cookie, per tab the sign-in state and the refresh in flight | login, refresh, logout; restoring a session, a call answered 401 | rotation keeps one usable token; a session ends for a cause only; logout and reuse end it; no call is left waiting |
| Rate limiter (`app/core/ratelimit.py`) | counters per key | `allow` | at most so many attempts per window |
| Shell (`app/main.py`, `core/`, `schemas/`, migrations, scripts, CI) | none | wiring, validation, health | not modelled |

How they interact:

- The API and the workers share PostgreSQL only.  A job row is the message from the API to a
  worker; `SELECT ... FOR UPDATE SKIP LOCKED` is how it is received.
- A worker's transaction and the calls to Qdrant inside it are not atomic: a rollback leaves
  Qdrant changed, and a delete request talks to Qdrant before it touches a row.
- Ingestion replaces chunk rows by new ones with new ids.  The foreign keys of
  `relevance_judgments`, evidence and corrections cascade, so ingestion reaches into the
  benchmark, the chat history and feedback.
- The same worker loop executes evaluation runs when there is nothing to ingest; the CLI executes
  runs too, and a run reads the corpus that ingestion is changing.
- A chat turn is one transaction that spans retrieval and generation; its evidence rows lock the
  keys of the chunks that ingestion deletes.
- Feedback can be promoted to a case of a draft benchmark version, through `add_case`.
- An evaluation run calls `run_retrieval` as chat does, and the worker embeds what `chunk_pages`
  returns.
- The tabs of a browser share the refresh token's cookie and nothing else: each shares one refresh
  in flight among its own calls, and requests of two tabs meet at the row of one token.

Hard behaviours, each listed with its line in `PROJECT.json` under `hazards`: reclaims of jobs
whose worker is only slow, workers killed anywhere, rollbacks with the vector store already
changed, lost answers of Qdrant, lock cycles between delete and ingestion, rows decided on after
they were read without a lock (reindex, cancel, publish, review, `_fail_or_retry`, `rotate_refresh`),
check-then-insert without an index, a quota counted before and charged after seconds of work, two
commits in one request, answers lost after their transaction was committed, and cascades into data
other components promise to keep.

## 2. Modules

| Module | What it is |
|---|---|
| `Ingestion` | documents API + workers + PostgreSQL + Qdrant, with locks, crashes and deadlocks |
| `DocumentLifecycle` | what `Ingestion` promises: an ingestion publishes a whole version or nothing |
| `MCIngestion` | finite instances of `Ingestion` |
| `IngestionProofs` | type invariant and complete deletion, proved for every instance |
| `IngestionClaims` | exclusive claims, proved for every instance without overruns |
| `IngestionStores` | queued documents have jobs, the two stores agree, attempts are bounded, and `Ingestion` implements `DocumentLifecycle`, proved for every instance without overruns |
| `EvalRuns`, `MCEvalRuns` | evaluation runs: API, workers and CLI over one benchmark version |
| `EvalProofs` | what holds of runs, their rows and their executors, proved for any instance: fingerprints, finished runs, metrics |
| `Benchmark`, `MCBenchmark` | versions, cases and judgments under concurrent edits and reindexing |
| `RefreshTokens` | the refresh tokens of one account, one browser's cookie and the requests between them, whoever sends them |
| `Sessions`, `MCSessions` | the tabs of that browser: `AuthContext` and `apiFetch` over `RefreshTokens` |
| `SessionsProofs` | what holds of tokens and of waiting calls, proved for any tabs and bounds |
| `Chat`, `MCChat` | the questions of one user: quota, retrieval, evidence rows, over a corpus that is replaced |
| `ChatProofs` | the daily limit and the whole trace, proved for any quota, turns and chunks |
| `Feedback`, `MCFeedback` | submission, review, corrections and promotion of one feedback; extends `Benchmark` |
| `FeedbackProofs` | review queue, trail and the evidence of promoted cases, and publication in `Benchmark`, proved for any requests, cases and chunks |
| `Numbers` | sums, and a set of positions in order, for the computations |
| `Chunking` | `chunk_pages`: repeated lines, paragraphs, the window loop, deduplication |
| `Embeddings` | batches and retries over the chunks; extends `Chunking` |
| `Retrieval` | `run_retrieval`: searches, fusion, hydration, reranking, selection |
| `Answers` | citations and sources of an answer; extends `Retrieval` |
| `Metrics` | hit, recall, reciprocal rank and nDCG of a case |
| `RateLimiter` | the login limiter and its threads |
| `MCComputations` | finite instances of the six modules that compute, one of them at a time |
| `ComputationProofs` | the windows of `chunk_pages` and the text that is indexed, the limiter, fusion, citations and all the metrics, proved for any inputs |

Every definition that models code is tied to its lines in `PROJECT.json` under `map`.  A
definition marked *Variant* is not part of any `Next`: it is a plausible mistake in the definition
that follows it, and `mutants` says which property notices it.

### Ingestion

`doc`, `job`, `chunks` are the committed rows; `points` is Qdrant; `pc`, `task` and `seen` are a
worker's program counter, the job it claimed and what `_fail_or_retry` has read; `reindex` and
`del` are requests under way.

- **Transactions.**  `claim_job` is one step (`Claim`): it selects, updates and commits under a row
  lock.  `process_job` is one transaction but not one step, since it waits for locks and calls
  Qdrant on the way: `LoadDocument`, `LockDocument` (the flush of `processing`), `RewriteChunks`,
  `WipeVectors`, `UpsertVectors`, `CommitIndexed`.  Nothing it writes in PostgreSQL is seen before
  the commit, so `RewriteChunks` changes no committed state and `documents.status = processing`
  never occurs in `doc`; `Holders(d)` is the row lock it stands for.
- **Chunk identity.**  Chunks get new UUIDs in every attempt: a generation is named by the pair
  `<<job, attempt>>` that made it, in both stores.
- **Failure.**  `Fail` may happen anywhere in the `try` block.  `_fail_or_retry` is three steps
  (`ReadJob`, `ReadDocument`, `Record`), because it reads without locks and writes at its commit,
  which may wait or raise (`RecordRaises`).  The unit of work writes a column only if its value
  differs from the one loaded (`OrmWrite`): a reindex request that loaded `queued` does not write
  `queued` over what the worker committed meanwhile.
- **Delete.**  Qdrant first (`DeleteVectors`, errors swallowed), chunk and job rows next
  (`DeleteRows`), the document and its cascades last (`DeleteCommit`).  The rows it has deleted are
  locked until it ends, those inserted since are not: `held` is the highest job it found
  (`JobHeld`, `ChunksHeld`).  Against a worker this is a
  lock cycle; PostgreSQL aborts either side (`DeadlockAbortsDelete`, `DeadlockAbortsWorker`).
- **Lost workers.**  `Crash` rolls back and forgets; `Raise` is an exception that leaves `run()`;
  `Restart` is `restart: unless-stopped` in `compose.yaml`.
- **Time** is `lockedAt`, `recent` or `old`.  `Overrun = FALSE` says no live worker holds a job for
  longer than `LOCK_TIMEOUT`; the code does not enforce it.

`DocumentLifecycle` has a status, a published version and "an ingestion is due" per document.
`Ingestion` maps onto it with `doc`, `chunks` and "has an active job".

### EvalRuns

`run` holds the rows, `rows` the executions whose `eval_results` stand, `ex` what each worker or
CLI process is doing.  `execute_run` is one transaction: its rows and metrics appear in
`CommitRun`, or not at all (`FailRun`, `CommitConflict` for the unique index, then
`RecordFailed`).  A run the executor had to set to `running` itself is locked until its commit
((`Locked`): that is the CLI's run, unless a worker claimed it between the insertion and
`db.refresh`.

Creating a run is three steps: `CreateCheck` (no active run of the configuration), `CreatePrint`
(the fingerprint) and `CreateInsert` (the commit).  `corpus` is what the chunks are at the moment;
`CorpusChanges` may come between any two steps and may bring an earlier content back.  A run records
the content it was fingerprinted with (`print`) and those its cases were run on (`saw`); `printed`
and `ran` are the number of changes there had been at either, history that no guard reads.  A
case is one step, and one whose retrieval fails is a row like the others (`runner.py:162`).
`CancelLoad` and `CancelCommit` are the two halves of a cancellation; `lost` are the runs whose
executor was killed.

### Benchmark

A request loads the version, decides on what it loaded (`Open`) and commits later.  Nothing is
locked in between, so any number of requests may have one version loaded.  `AddCase`,
`UpdateFields` and `DeleteCase` are one transaction each.  An update with judgments deletes those it
sees and inserts its own (`ReplaceBegin`, `ReplaceCommit`); an import with `replace` deletes the cases it
finds (`ImportBegin`) and inserts those of the file (`ImportCommit`), beside cases committed since;
`held` are the rows a request has loaded or deleted, as far as they are still there (`Bereft`).
`publish_version` is `PublishBegin` (the list of cases, with their categories), a `CheckCase` for each
of them (its judgments, as they are by then) and `PublishCommit`.  `ChunkRemoved` is the
cascade when ingestion replaces chunks.  `disturbed` is a history variable, read by no guard: the
versions whose cases or judgments were written after publication had listed them.

### RefreshTokens and Sessions

`row` holds `refresh_tokens` (a row is named by the order of commits, a family by its first row),
`cookie` the token the browser would send, `req` the request under way on each line, where a line
is a place for one request of the browser.  `SendWith` copies the cookie into the request.
`rotate_refresh` is two steps, since it selects the row without a lock and the route commits later:
`ReadToken` decides on what it reads, `Rotate` or `RevokeFamily` commits.  Both write the row
whatever it says by then, as the code does: the rotation's UPDATE is by primary key, and
`_revoke_family` updates every row of the family that is committed and not revoked.  `Receive`
applies the answer's cookie; a refused refresh leaves it, because `APIError` is answered by a new
response without the cleared cookie.  `Lose` is a request that fails at any point or whose answer
does not arrive, which is also what a tab that is closed or reloaded amounts to for a request.
`disturbed` is a history variable: the families of which two requests carried one token at once or
whose answer was lost after it was committed.  It is what the properties make exception for and is
read by no guard.

`Sessions` gives each tab two lines, one for its refresh and one for its form (sign-in or sign-out),
and follows the callers of a tab: the effect on mount, the form, a call of the API.  `Refresh`
shares the request in flight; `ReceiveRefresh` and `LoseRefresh` resume or end everybody who waits.
A call that carries an access token may be answered 401 at any time, since nothing ties the token's
expiry to the rest; `Mistype` is a sign-in with a wrong password, whose 401 `apiFetch` treats the
same way.  `replaced_by_id` is not modelled (nothing reads it), nor are registration, a
deactivated account and the limiter, whose refusal of a login is a `RefuseLogin`.

### Chat

`turn` is one record per turn: its request while it is served, its rows once it is kept.
`create_message` is one transaction from the load of the user on, and `created_at` is `func.now()`,
so `Begin` dates the turn.  `CheckLimit` counts what is committed at that moment and dated today,
`Commit` charges the quota seconds later, and `Midnight` may come between: a turn dated yesterday
may have been checked against today.  `Retrieve` is both searches and the hydration; any chunks may
be found, those of an indexed document stay.  The flush of the evidence rows is one step per row
(`StoreRow`), since each waits for the key of its chunk and ingestion deletes the same rows one by
one (`LockChunk`); either side may be aborted (`DeadlockAbortsTurn`, `Abort`).  `Replace` commits the
ingestion, with the cascade into `retrieval_results`.  Every request has a conversation of its own,
the order of candidates and the answer's status are not kept.

### Feedback

`Feedback` extends `Benchmark` and composes with it: editors work on the drafts, chunks go, while
requests of the author and of reviewers work on one feedback.  A submission has found a row or not
(`SubmitLoad`) and inserts or updates (`SubmitCommit`; the second insert violates the unique
constraint).  A review replaces the corrections in a transaction that may end before its commit:
`removed` is what its DELETE saw, `View` what its transaction makes of the rows.  The rows it has
flushed hold the keys of their chunks until it ends (`ChunkGoes`).  A promotion reads the list of
corrections (`PromoteLoad`) and files that list (`FileCase`): a chunk that has gone since is refused,
a correction another review has changed since is filed as it was read.  It is
two transactions, `FileCase` (`add_case` commits) and `PromoteCommit`; `ReviewFails` in between
leaves a case that is in no trail (`lost`).  The status is written only if it differs from the one
loaded, as in `Ingestion`.

### The computations

`Chunking` follows the loop of `chunk_pages` with its three indices; a page is its lines, a chunk
its paragraphs.  `Embeddings` takes the chunks in batches, a transient error is retried, any other
raises.  `Retrieval` is one step per stage, with the searches' and the reranker's rankings as
inputs and fractions for the scores; `rows`, what the user may see when the chunks are hydrated, is
any set, since the corpus and the user's documents change between the stages.  `Answers` lets the
model cite any labels, known or not.  `Metrics` computes on fractions, with the discounts of nDCG
in ten-thousandths.  `RateLimiter` reads the clock before it takes the lock, as `allow` does.

Some facts about this code that the models made visible, none of them against its documentation:
a document of three or more pages loses its empty lines with the repeated ones, so each page becomes
one segment and a heading is found only on a page of one line; a document all of whose lines repeat
gets no chunk; a window can lie within the one before it; of two equal chunks the later one's pages
are dropped.  `get_conversation` orders by `created_at`, which the two messages of a turn share, so
their order is that of random ids.  A reindex takes the rows of `get_retrieval_trace` along.
A promotion whose draft is published meanwhile still commits its case.

## 3. Runs

All runs finish within three minutes on two cores.

| Run | Instance | Properties |
|---|---|---|
| `IngestionSafe` | 2 documents, 2 workers, 2 jobs, 2 attempts, 1 crash, 1 delete, unreliable Qdrant, no overrun | `TypeOK`, `OneWorkerPerJob`, `ClaimIsFenced`, `QueuedHasJob`, `IndexedIsSearchable`, `DeleteIsComplete`, `AttemptsAreCharged`, `TerminalIsFinal`, `ImplementsLifecycle` |
| `IngestionLive` | 1 document, 2 workers, 2 jobs, 2 attempts, 1 crash, 2 deletes, reliable Qdrant, fairness | `NoStaleVectors`, `QueuedSettles`, `DeleteEnds` |
| `EvalShared` | 1 administrator, 2 workers, 1 CLI, 2 runs of one configuration, cancellation, 1 lost executor, fairness | `TypeOK`, `MetricsMatchRows`, `WorkersDoNotShare`, `RunsEnd` |
| `EvalCorpus` | 1 administrator, 1 worker, 1 CLI, 2 runs of 2 cases, 2 changes of the corpus between 2 contents at any moment, cancellation, 1 lost executor | `SteadyRunsCompare`, `NobodyReopens` |
| `BenchShared` | 2 editors, 1 version, 2 cases, 2 chunks that come and go, gate of 2 cases | `GateUnlessDisturbed`, `PublishedIsClosed` |
| `Sessions` | 2 tabs, 4 operations of the user, 5 tokens, 1 expiry, 1 loss, fairness | `OneTokenPerFamily`, `SessionEndsForCause`, `LogoutEndsSession`, `WaitersHaveRefresh`, `DeadStaysDead`, `CallsEnd` |
| `Chat` | 3 turns, 2 at once, limit 1, 2 days, 2 chunks, fairness | `TypeOK`, `DailyLimitHolds`, `TraceIsWhole`, `TurnsEnd` |
| `Feedback` | 2 submissions and 2 reviews at once, 1 editor, 1 version, 1 case, 1 chunk, reindexing | `FeedbackTypeOK`, `PromotionIsLogged`, `QueueMatchesTrail`, `PromotedHasEvidence` |
| `Computations` | documents of up to 4 pages out of 6 texts, target 4, overlap 2, batches of 2; rankings of up to 3 chunks; 3 threads, 2 attempts a window | `TextIsIndexed`, `FusionAgrees`, `CitationsAreGrounded`, `CountsAgree`, `GainsAgree`, `LimitPerWindow` |
| `IngestionOrphans` | 1 document, 2 workers | `DeletedHasNoVectors` is violated |
| `IngestionRaises` | 1 document, 2 workers | `FailuresAreRecorded` is violated |
| `BenchCascade` | 1 editor, reindexing | `PublishedIsImmutable` is violated |

**Bounds and why they are enough.**  Two workers are the least that can collide, and a third adds
no new pair: a row has one lock and a job one claimant.  Two jobs of one document are an upload
and a reindex, the only way to have two; two documents show that claims are by age and skip locked
rows.  Two attempts have a last one and one before it.  One crash is charged on top of the
failures, which are free; two deletes are one aborted and its repetition.  Two cases of a
run are the least between which the corpus can change, and two changes the least that bring it back to
what was fingerprinted.  Two cases of a version are the least that `publish_version` checks one after
the other with an edit in between, two editors the least that edit beside a publication or publish
beside each other; a third editor could only repeat what the second does to the first, and
`BenchShared` leaves out the grade 0, which the gate treats as no judgment.  Two tabs are the least that share a cookie, and the two lines of each let
two refreshes, or a refresh and a sign-out, carry one token.  Four operations are a tab opened, a
sign-in, and two more that race: the other tab opened, a call, a reload, a sign-out.  Five tokens
are all the rows they can make (one for the sign-in, two for each later one that refreshes, on
opening and on a 401), so `MaxTokens` blocks no step of the run.  Two questions at once with a limit of one and a third
beside them are the least that overdraw a day and go on into the next; two chunks are the least on
which a turn and an ingestion wait for each other.  In `Feedback` the status `ignored` behaves as
`resolved` and is left out of the instance; one chunk and one grade suffice, since a
row's grade decides nothing.  The page texts of `Computations` hold a heading, a line repeated on
three pages, a paragraph longer than the window, one that occurs twice and an empty page; four pages
have the 60 % rule say both yes and no.  The constants of fusion and of the metrics keep their
order (`FusionKeep` cuts, `HitK` < `RankK` < the chunks there are), and `RrfK` is the code's 60.
`MaxJobs`, `MaxRuns`, `MaxVersions`, `MaxCorpus`, `MaxEdits`, `MaxCrashes`, `MaxDeletes`,
`MaxLosses`, `MaxTokens`, `MaxExpiries`, `MaxOps`, `MaxDays`, `MaxTime` and `MaxCalls` are the only bounds on counters; `ReindexRefused` and `CreateDropped` let a request
end that the bound cuts off.  Attempts are bounded by `MaxAttempts` and the bounds on losses.
Symmetry is used only in runs without liveness properties.  `Computations` may
end, so deadlock is not checked there.

**Fairness.**  A worker that can step does (a process runs on, and `compose.yaml` restarts it); a
job's age passes `LOCK_TIMEOUT`; a delete request goes on once begun; PostgreSQL resolves its
deadlocks.  No request of a user is assumed: upload, reindex, delete, cancel and create carry no
fairness.  In `Sessions` the API answers what it was sent and the browser runs the continuation of
an answer; nothing is assumed of the user, of losses or of time.  In `Chat` the threads and the worker go on;
a row lock wakes who waits for it in the order of the queue, so `StoreRow` is strongly fair: without
it one ingestion after the other could take the row first.  Failures are not assumed to stop either: `QueuedSettles` holds because attempts run out.

**What the violation runs show.**
`IngestionOrphans`: a worker upserts after the delete request has emptied Qdrant and before it
gets the document's lock; the worker's commit then succeeds, the delete takes the rows, and the
points stay for good.
`IngestionRaises`: a document deleted between `claim_job` and `process_job` takes its job row
along; the `document_missing` branch then updates no row, which raises outside the `try`.
`BenchCascade`: a reindex removes judgments of a published version.

**What the code does not keep, and what the passing runs say of it.**  Four expectations fail in the
models as in the code; each property names the step that excuses, and nothing is taken out of
the models: cancellation, the CLI, lost executors, concurrent editors and reindexing are all there.
- A change of the corpus after a run's fingerprint (`runner.py:78`) and before its last case goes
  unnoticed: `compare_runs` then calls two runs equivalent that saw different corpora, against
  `docs/architecture.md:44`.  `SteadyRunsCompare` holds of all other runs, also where the corpus
  came back to an earlier content or a second execution replaced the results of the first
  (without `Steady` it is violated in the same run).
- The final commit of an execution (`runner.py:218`) turns a run that was cancelled meanwhile into a
  succeeded one.  `NobodyReopens` says who may do so: an executor or a cancellation that had the run
  in hand before it finished, never a new one.
- An edit that loaded a draft commits after its publication (`benchmark.py:41`), and may leave the
  published version below the gate.  `GateUnlessDisturbed` says that a publication, which reads its
  cases in several statements, is right about the version as a whole unless it was written
  meanwhile; `PublishedIsClosed` that such requests are the last to write to it, and that after them
  it loses judgments with their chunks and nothing else.
- Of two reviews that overlap, the second commits the corrections of both (`feedback.py:217`).
  `PromotedHasEvidence` says what a promotion makes of them: whatever other reviews and ingestion did
  since the list was read, the case has evidence that exists, the reviewer's own included.

**Assumptions of the passing runs that the code does not enforce.**
- `Overrun = FALSE`.  With `TRUE`, `OneWorkerPerJob`, `ClaimIsFenced`, `QueuedHasJob`,
  `IndexedIsSearchable`, `AttemptsAreCharged` and `TerminalIsFinal` all fail: `locked_at` is never
  renewed, and `_fail_or_retry` does not check that the job is still its own.
  `DeleteIsComplete` does not depend on it, which is proved.
- `RunsEnd` excepts a run an executor was lost with: nothing claims a `running` run again
  (`runner.py:92-105`).  Two administrators may create two active runs of one configuration: a check,
  an insert, and no index (`runner.py:56`); no property says otherwise.
- `PublishedIsClosed` is checked and proved of `Benchmark`.  A promotion of feedback is one more
  request that loads a draft and may commit its case after the publication.
- `OneTokenPerFamily`, `SessionEndsForCause` and `LogoutEndsSession` except `disturbed` families.
  Without the exception they fail: two tabs opened at once are both accepted, a lost answer to a
  refresh signs the user out at the next one, and logout revokes one token of two.
- `DeadStaysDead` counts a family as dead when no rotation is open.  A rotation that read the current
  token before a reuse revoked the family (`auth.py:111`) commits a usable token after it.
- `DailyLimitHolds` allows for the requests that overlap, and `PromotionIsLogged` for reviews that
  end between their two commits: the code has no lock and no single transaction there.
- A reclaimed attempt is counted but not compared with `max_attempts`, so `AttemptsAreCharged`
  allows one more attempt per lost worker.

## 4. Proofs

`IngestionProofs` proves `Spec => []TypeOK` and `Spec => []DeleteIsComplete` for any sets of
documents and workers and any bounds.  `DeleteIsComplete` is not inductive: a worker could still
commit chunks for a document that is gone, a reindex could still insert a job.  The invariant
`RowsInv` adds what excludes it: the task of a busy worker is a generation whose job row was created
(`TaskInv`); every row created names a document that is not absent, and rows beyond `nj` do not
exist (`JobInv`); a job row is gone only if its document is deleted (`GoneInv`); and the document
of a worker's open transaction exists (`LockInv`): the row lock is what makes deletion wait.
Nothing is assumed about `Overrun`.

`IngestionClaims` proves, assuming `Overrun = FALSE`, that claims are exclusive
(`OneWorkerPerJob`), fenced (`ClaimIsFenced`) and that finished jobs stay as they are
(`TerminalIsFinal`).  Its invariant `ClaimInv` is `RowsInv`, `FenceInv` (the row of a job in a
worker's hands is processing, under that worker's attempt, and locked recently) and
`OneWorkerPerJob`: with `LockExpires` disabled for such a job it cannot be claimed, and with a
fenced claim `_fail_or_retry` reads its own attempt.

`IngestionStores` goes on from there, under the same hypothesis, to what the two stores hold.  Its
invariant `StoreInv` adds to `ClaimInv`:

- `OneActive`, a document has one active job at most: without it a second job could replace what an
  ingestion has just settled;
- `SeenInv`, `_fail_or_retry` still finds what it has read when it writes, for a job row that is
  there: a held job is left alone by everyone but a delete;
- `PublishedInv`, the chunks of a document are those of a succeeded job of its own, so that a new
  generation never meets an old one of its name;
- `DeleteInv`, a document that is being deleted is not deleted yet;
- `ChargeInv`, a queued job has an attempt left, and a job no live worker has was charged to a
  lost one, which is what `AttemptsAreCharged` needs to survive the next claim;
- `UpsertInv`, after the upsert the new generation is in Qdrant unless a delete has begun, and with a
  reliable Qdrant nothing else is; `SettledInv` is what the commit makes of it.

From `StoreInv` follow `QueuedHasJob`, `IndexedIsSearchable`, `AttemptsAreCharged` and, with
`FlakyQdrant = FALSE` as in `IngestionLive`, `NoStaleVectors`.  `PipelineImplementsLifecycle` is the
refinement: each action maps to one of `DocumentLifecycle` or to a stutter.  The steps that need the
invariant are those of a worker that commits or records: that its document is still due for
ingestion comes from the fence, and that it is due no longer afterwards from `OneActive`.

`EvalProofs` proves the types of `EvalRuns`, `MetricsMatchRows` and `WorkersDoNotShare` for any
workers and CLI processes.  Metrics and rows are written by one commit that first replaces the rows,
so they agree whoever commits last; the types say that an execution's number was given out before
(`Placed`), and the unique index refuses the commit that would add to another's rows.  Workers do
not share because the run of a worker is no longer queued (`TakenInv`).  No theorem of the module has
a hypothesis on cancellations, the CLI, losses or the corpus.  `FinishedIsNotTakenUp`
(`NobodyReopens`) follows an executor to its run (`HoldersMove`) and a cancellation to its load
(`CancelsMove`): both take up active runs only, the CLI the one it has just inserted.
`FingerprintsCompare` (`SteadyRunsCompare`) has two invariants over the history of changes.
`PrintsInv`: whatever was fingerprinted at the present number of changes has the fingerprint of the
corpus as it is.  `SeenInv`: cases are run after the fingerprint, and an execution (or the results it
left) whose last case saw no more changes than the fingerprint has seen that content only.

`SessionsProofs` proves the properties of `RefreshTokens` for any set of lines and any bounds.  None
is inductive: that a family has one usable token depends on where that token may still be replaced.
`ShapeInv` ties requests and cookie to rows that exist.  `CalmInv` says of each family that is not
disturbed that the request which carries a token of it is the only one and carries the one usable
token, that after its rotation the usable token is the one in the answer, that the answer to a
sign-in is all there is of a new family, and that with no request about the cookie holds the usable
token.  `SessionsUseTokens` shows that every step of the tabs is a step of `RefreshTokens` or leaves
the tokens alone, so `TabsKeepSessions` follows for any number of tabs.  `LogoutIsEnough` and
`SessionsTyped` state `LogoutEndsSession` and the types on their own (the types are proved, no run
repeats them).  `WaitersAreServed` proves `WaitersHaveRefresh` and the types of `Sessions`; it needs
`TabInv`, which adds that a form is sent exactly while its request is under way, so that no answer to
a form ends the wait of another.

`ChatProofs` proves the type invariant, `TraceIsWhole` and `DailyLimitHolds` for any turns, chunks,
quota and concurrency.  The trace needs that the rows of a request under way are of chunks that are
there, which the key share locks give, and that a chunk id is never given out again.  For the
quota, `QuotaInv` counts, for the day that lasts, the kept turns and the admitted ones together
(`Charged`): a request is admitted only while fewer than the limit are kept, and at most
`MaxConcurrent - 1` others are under way beside it.  At midnight those not yet checked join the count
of the day that ends (`Held`), which then only falls.

`FeedbackProofs` proves the types of `Feedback` and, through it, of `Benchmark`, and
`QueueMatchesTrail`, `PromotionIsLogged` and `PromotedHasEvidence`, for any submissions, reviews, editors,
cases and chunks.  Two facts carry it.  A review decides from the status it loaded, which may be
stale by the time it commits: `QueueInv` says that if it will not write the status it found, that
status was already decided, and logged when it was a promotion, and no step undoes that.  And
corrections, committed or flushed, are graded and of live chunks (`CorrectionsInv`), so the list a
promotion has read (`ListsInv`) is not empty and has all its review gave; those of other reviews may
be stale, and it is `add_case` that refuses them.
`TrailInv` follows a case from the first commit of a promotion to the second, or to its loss.
It assumes that the benchmark's bounds are numbers and that a decision is one of those the API takes
(`BenchmarkBoundsAssumption`, `DecisionsAssumption`).

The same module proves what `BenchShared` checks, for any number of requests, and with no hypothesis
but the bounds.  `PublicationIsChecked` (`GateUnlessDisturbed`) rests on `PublicationInv`: a request that
is publishing a version nobody has written since it listed the cases knows (`Knows`) that they are
enough, has every one in its list with the category it still has, and every one it has checked is
still sound.  Any other request that writes makes the version disturbed, so the invariant asks nothing
more of it.  `PublishedIsLeftAlone` (`PublishedIsClosed`) goes through the steps of the requests: only
`Open` takes a version up, and what a request writes is to the version it has loaded.

`ComputationProofs` proves that the windows of `chunk_pages` leave no segment out, for any documents,
target and overlap, with an invariant that places the window under construction against the one
drafted last (`Position`).  `IndexHoldsTheText` goes on to what the worker stores: every line that
stays after the cleaning is in a paragraph of some chunk, a chunk holds no line that its pages do not
hold, only the last segment of a window goes beyond the target, and each vector is that of the chunk
at its place, whatever was retried.  `WindowInv` says that the segments are those of the document and
that every window, and the one under construction, is below the target without its last segment
(`Filled`); `EmbedInv` that the vectors are those of the first texts, in order.  Its lemmas say what the cleaning, the paragraphs and the concatenation of their lists
return (`CleanedPages`, `ParagraphsOfAPage`, `FlattenedLists`); that deduplication loses no text is
`TextIsKept`, since the first window with a content is the one that is kept.  The
assumptions are that a document is a sequence of pages of known lines, whose tokens are counted by
numbers, that the target and the batch are not zero (`ChunkingAssumption`, `EmbeddingsAssumption`);
the code's are 700 and 96.  The module also proves `LimitPerWindow`: what a window has granted never
exceeds its count.

Of a question it proves two things, for any rankings and replies.  `AnswersAreGrounded`: from the
hydration on, what is ranked, selected and shown is of `rows` (`GroundInv`), and an answer counts as
answered only with labels of that evidence.  `FusionRespectsTheLists`: the order of fused scores is
what the two lists agree on.  Its arithmetic is in `SumsCompare` (sums of fractions are monotonic),
`AgreementScores` and `BothListsScore`; the last needs `PerSource <= RrfK + 1`, a relation between two
constants of the code (30 and 60) that nothing in the code states: with more candidates per list,
one of both lists could come behind one of a single list.

`CountsAlwaysAgree` proves that hit, recall and reciprocal rank agree with the judgments and with each
other for any ranking without repetition and any tops: the relevant places of the top map one to one
into the judged chunks (`RelevantCounts`), and onto them exactly when recall is complete.

`GainsAlwaysAgree` proves of nDCG that it lies in 0 .. 1, is 0 for a ranking without a relevant chunk in
its top, and is 1 exactly when no place of the top could hold a better judged chunk that comes later
or not at all.  The argument goes grade by grade.  The gain of a list is the sum, over the grades
from 1 up, of what the places weigh that reach the grade (`LevelAdds`).  Of all sets of so many places the
first ones weigh most, and any other set weighs less, because the discounts fall
(`FirstPlacesWeighMost`, `DiscountFalls`).  The places of a ranking that reach a grade are no more
than the judgments that do (`RankedFits`), and in the ideal order those places are the first
(`BestIsAhead`); so the ideal gain is no less, and equal only if the two lists agree at every grade
(`LevelsCompare`), which is what the property's last part says (`GreedyIsSame`).  It assumes
`RankK <= 10` (`MetricsAssumption`): the code calls it with 10, and `Discount` has ten entries.

Where these proofs need induction over a number (a sum, a list of any length), they argue by the least counterexample (`LeastNumber`, from the well-foundedness of `<`), and that a
function defined by recursion exists is the lemma `Recursion`, proved the same way.

The proof that a step preserves an invariant has one lemma or one step per action, and the theorems
combine them with one step of temporal reasoning.  Every invariant used above was first checked by
TLC on the instances of the runs.

**Model-checked only.**
- Liveness: `QueuedSettles`, `DeleteEnds`, `RunsEnd`, `TurnsEnd`, `CallsEnd`.  Proofs from fairness
  need ENABLED, which the provers do not handle.
- Deadlock: that no run stops where it must not is an observation of TLC on the instances.

## 5. Not modelled

In the modelled parts: uploads of equal PDFs racing for the unique index on the owner and the
checksum (the second fails at a flush outside the `try` that answers 409), PDF extraction and
validation, the codes of errors per case, averages and deltas of runs, registration and
deactivated accounts, creating conversations, read-only routes, visibility filters and pagination.
Scores that are only shown, the prompt, tokenisation, full text ranking, Qdrant's ranking, the
reranker and the language model are external or inputs.

Left out for good, since they keep no state of their own: wiring, settings, logging, health,
schemas, the migrations (their constraints are modelled where a module uses them), scripts, CI, and
rendering in the frontend.  Of the pages, `AskPage` appends an answer to the conversation shown when
it arrives, which may be another one by then; the server's state is not concerned.

## 6. Plan

1. Proofs: the token rules of `RefreshTokens` as a refinement of a session with a single token; the
   publication of versions with promotions of feedback among the requests.
2. Remaining operations: racing uploads, `ensure_collection`, deactivated accounts,
   the page state of `AskPage`.
