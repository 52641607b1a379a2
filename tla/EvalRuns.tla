------------------------------ MODULE EvalRuns ------------------------------
(***************************************************************************)
(* Evaluation runs over one published benchmark version: administrators    *)
(* create and cancel them through the API, the CLI creates one and         *)
(* executes it in the same process, the workers claim queued runs.  The    *)
(* corpus changes underneath (Ingestion commits new chunks).               *)
(*                                                                         *)
(* An execution's rows and metrics become visible in its one final commit. *)
(* Executions are numbered, and a run's rows are named by the execution    *)
(* that wrote them; the unique index on (eval_run_id, benchmark_case_id)   *)
(* lets only one execution's rows stand.                                   *)
(*                                                                         *)
(* A definition marked "Variant" is no part of Next: it is the one below   *)
(* it with a plausible mistake, to show which property would notice.       *)
(***************************************************************************)
EXTENDS Naturals, FiniteSets

CONSTANTS
    Admins,         \* concurrent requests to POST /evals/runs
    Workers,        \* worker processes
    Clis,           \* cli eval-run processes
    Configs,        \* retrieval modes
    MaxRuns,        \* bound: rows of eval_runs
    MaxCorpus,      \* bound: contents of the corpus other than the first
    MaxEdits,       \* bound: changes of the corpus
    MaxLosses,      \* bound: runs whose executor is lost
    Cases           \* cases of the benchmark version

ASSUME EvalBoundsAssumption ==
    /\ MaxRuns \in Nat /\ MaxCorpus \in Nat /\ MaxEdits \in Nat
    /\ MaxLosses \in Nat /\ Cases \in Nat
ASSUME EvalRolesAssumption == Workers \cap Clis = {}

Runs      == 1 .. MaxRuns
Contents  == 0 .. MaxCorpus     \* what the chunks of the corpus can be
Executors == Workers \cup Clis
Creators  == Admins \cup Clis
EvalActive   == {"queued", "running"}
EvalTerminal == {"succeeded", "failed", "cancelled"}

VARIABLES
    run,        \* eval_runs rows, in order of created_at
    nr,         \* number of rows created
    rows,       \* executions whose eval_results stand for a run
    corpus,     \* content of the corpus
    edits,      \* changes of the corpus so far (history, read by no guard but its bound)
    want,       \* the row a creator is about to insert
    cancel,     \* a cancel request has loaded the run as active
    ex,         \* what each executor is doing
    execs,      \* executions begun so far
    lost        \* runs an executor was lost with, nothing recorded (history)

vars == <<run, nr, rows, corpus, edits, want, cancel, ex, execs, lost>>

\* print is the content that was fingerprinted, saw what the cases of the
\* standing results were run on; printed and ran are the edits there had been
\* at the fingerprint and at the last case (history, read by no guard).
NoRun  == [config |-> "none", status |-> "none", print |-> 0, printed |-> 0,
           metrics |-> 0, saw |-> {}, ran |-> 0]
NoWant == [config |-> "none", ready |-> FALSE, print |-> 0, printed |-> 0]
Idle   == [pc |-> "idle", run |-> 0, loaded |-> "none", id |-> 0, left |-> 0,
           saw |-> {}, ran |-> 0, removed |-> {}, lock |-> FALSE]

ActiveRun(r) == run[r].status \in EvalActive

\* An execution that had to set "running" itself has the row locked by its
\* uncommitted UPDATE.
Locked(r) == \E e \in Executors : ex[e].run = r /\ ex[e].lock

Init ==
    /\ run = [r \in Runs |-> NoRun]
    /\ nr = 0
    /\ rows = [r \in Runs |-> {}]
    /\ corpus = 0
    /\ edits = 0
    /\ want = [a \in Creators |-> NoWant]
    /\ cancel = [r \in Runs |-> FALSE]
    /\ ex = [e \in Executors |-> Idle]
    /\ execs = 0
    /\ lost = {}

-----------------------------------------------------------------------------
(* Requests *)

\* Chunks of some document are replaced, added or deleted: nothing waits for
\* the runs, and the corpus may come back to what it was.
CorpusChanges ==
    /\ edits < MaxEdits
    /\ corpus' \in Contents \ {corpus}
    /\ edits' = edits + 1
    /\ UNCHANGED <<run, nr, rows, want, cancel, ex, execs, lost>>

\* create_run looks for an active run of the same configuration ...
CreateCheck(a) ==
    /\ want[a] = NoWant
    /\ nr < MaxRuns
    /\ a \in Clis => ex[a] = Idle
    /\ \E c \in Configs :
         /\ \A r \in Runs : run[r].config = c => ~ActiveRun(r)
         /\ want' = [want EXCEPT ![a].config = c]
    /\ UNCHANGED <<run, nr, rows, corpus, edits, cancel, ex, execs, lost>>

\* ... takes the fingerprint of the corpus ...
CreatePrint(a) ==
    /\ want[a].config # "none" /\ ~want[a].ready
    /\ want' = [want EXCEPT ![a] = [@ EXCEPT !.ready = TRUE, !.print = corpus,
                                             !.printed = edits]]
    /\ UNCHANGED <<run, nr, rows, corpus, edits, cancel, ex, execs, lost>>

\* ... and commits the row; the corpus may have changed since.
InsertRun(a, print) ==
    /\ want[a].ready
    /\ nr < MaxRuns
    /\ nr' = nr + 1
    /\ run' = [run EXCEPT ![nr + 1] = [config |-> want[a].config, status |-> "queued",
                                       print |-> print, printed |-> want[a].printed,
                                       metrics |-> 0, saw |-> {}, ran |-> 0]]
    /\ want' = [want EXCEPT ![a] = NoWant]
    /\ ex' = IF a \in Clis
               THEN [ex EXCEPT ![a].pc = "created", ![a].run = nr + 1]
               ELSE ex
    /\ UNCHANGED <<rows, corpus, edits, cancel, execs, lost>>

\* Variant: the fingerprint does not depend on the chunks.
CreateInsertBlind(a) == InsertRun(a, 0)

CreateInsert(a) == InsertRun(a, want[a].print)

\* The bound on rows is reached: not an event of the program.
CreateDropped(a) ==
    /\ want[a] # NoWant
    /\ nr = MaxRuns
    /\ want' = [want EXCEPT ![a] = NoWant]
    /\ UNCHANGED <<run, nr, rows, corpus, edits, cancel, ex, execs, lost>>

\* cancel_run loads the run and finds it active ...
CancelLoad(r) ==
    /\ ActiveRun(r)
    /\ ~cancel[r]
    /\ cancel' = [cancel EXCEPT ![r] = TRUE]
    /\ UNCHANGED <<run, nr, rows, corpus, edits, want, ex, execs, lost>>

\* ... and writes, whatever the row has become; it waits for the row's lock.
CancelCommit(r) ==
    /\ cancel[r]
    /\ ~Locked(r)
    /\ run' = [run EXCEPT ![r].status = "cancelled"]
    /\ cancel' = [cancel EXCEPT ![r] = FALSE]
    /\ UNCHANGED <<nr, rows, corpus, edits, want, ex, execs, lost>>

-----------------------------------------------------------------------------
(* Executors *)

\* Variants: runs in other states than queued are claimed as well.
ClaimIn(w, claimed) ==
    /\ ex[w] = Idle
    /\ \E r \in Runs :
         /\ run[r].status \in claimed /\ ~Locked(r)
         /\ run' = [run EXCEPT ![r].status = "running"]
         /\ ex' = [ex EXCEPT ![w] = [Idle EXCEPT !.pc = "claimed", !.run = r,
                                                 !.loaded = "running"]]
    /\ UNCHANGED <<nr, rows, corpus, edits, want, cancel, execs, lost>>
ClaimRunning(w) == ClaimIn(w, {"queued", "running"})
ClaimFailed(w) == ClaimIn(w, {"queued", "failed"})

\* claim_queued_run; rows locked by an execution of the CLI are skipped.
ClaimQueued(w) ==
    /\ ex[w] = Idle
    /\ \E r \in Runs :
         /\ run[r].status = "queued" /\ ~Locked(r)
         /\ \A q \in Runs : q < r => ~(run[q].status = "queued" /\ ~Locked(q))
         /\ run' = [run EXCEPT ![r].status = "running"]
         /\ ex' = [ex EXCEPT ![w] = [Idle EXCEPT !.pc = "claimed", !.run = r,
                                                 !.loaded = "running"]]
    /\ UNCHANGED <<nr, rows, corpus, edits, want, cancel, execs, lost>>

\* db.refresh after the insert: a worker may have claimed the run by then.
CliRefresh(c) ==
    /\ ex[c].pc = "created"
    /\ ex' = [ex EXCEPT ![c].pc = "claimed", ![c].loaded = run[ex[c].run].status]
    /\ UNCHANGED <<run, nr, rows, corpus, edits, want, cancel, execs, lost>>

\* execute_run: a run not loaded as running is set so, which locks the row.
\* Earlier results are deleted, uncommitted.
Begin(e) ==
    /\ ex[e].pc = "claimed"
    /\ ex[e].loaded # "running" => ~Locked(ex[e].run)
    /\ execs' = execs + 1
    /\ ex' = [ex EXCEPT ![e].pc = "executing", ![e].id = execs + 1,
                        ![e].left = Cases, ![e].saw = {},
                        ![e].removed = rows[ex[e].run],
                        ![e].lock = ex[e].loaded # "running"]
    /\ UNCHANGED <<run, nr, rows, corpus, edits, want, cancel, lost>>

\* One case: retrieval over the corpus as it is now; its error, should it fail,
\* is a row like any other.
RunOneOf(e, more) ==
    /\ ex[e].pc = "executing"
    /\ more
    /\ ex' = [ex EXCEPT ![e].left = @ - 1, ![e].saw = @ \cup {corpus}, ![e].ran = edits]
    /\ UNCHANGED <<run, nr, rows, corpus, edits, want, cancel, execs, lost>>

\* Variant: off by one.
RunCaseMore(e) == RunOneOf(e, ex[e].left >= 0)

RunCase(e) == RunOneOf(e, ex[e].left > 0)

\* A worker goes back to polling; the CLI process has done its work.
After(e) == IF e \in Workers THEN Idle ELSE [Idle EXCEPT !.pc = "exited"]

AllCasesRun(e) == ex[e].pc = "executing" /\ ex[e].left = 0

\* Variant: no unique index on (eval_run_id, benchmark_case_id).
CommitRunTwice(e) ==
    LET r == ex[e].run IN
    /\ AllCasesRun(e)
    /\ ex[e].lock \/ ~Locked(r)
    /\ rows' = [rows EXCEPT ![r] = (@ \ ex[e].removed) \cup {ex[e].id}]
    /\ run' = [run EXCEPT ![r] = [@ EXCEPT !.status = "succeeded",
                                           !.metrics = ex[e].id,
                                           !.saw = ex[e].saw, !.ran = ex[e].ran]]
    /\ ex' = [ex EXCEPT ![e] = After(e)]
    /\ UNCHANGED <<nr, corpus, edits, want, cancel, execs, lost>>

\* The final commit: results, metrics and status, whatever the status was.
CommitRun(e) ==
    LET r == ex[e].run IN
    /\ AllCasesRun(e)
    /\ ex[e].lock \/ ~Locked(r)
    /\ rows[r] \subseteq ex[e].removed
    /\ rows' = [rows EXCEPT ![r] = {ex[e].id}]
    /\ run' = [run EXCEPT ![r] = [@ EXCEPT !.status = "succeeded",
                                           !.metrics = ex[e].id,
                                           !.saw = ex[e].saw, !.ran = ex[e].ran]]
    /\ ex' = [ex EXCEPT ![e] = After(e)]
    /\ UNCHANGED <<nr, corpus, edits, want, cancel, execs, lost>>

\* The rows of another execution stand already: unique violation, rollback.
CommitConflict(e) ==
    /\ AllCasesRun(e)
    /\ ex[e].lock \/ ~Locked(ex[e].run)
    /\ ~(rows[ex[e].run] \subseteq ex[e].removed)
    /\ ex' = [ex EXCEPT ![e].pc = "failing", ![e].lock = FALSE]
    /\ UNCHANGED <<run, nr, rows, corpus, edits, want, cancel, execs, lost>>

\* Any other exception in the try block.
FailRun(e) ==
    /\ ex[e].pc = "executing"
    /\ ex' = [ex EXCEPT ![e].pc = "failing", ![e].lock = FALSE]
    /\ UNCHANGED <<run, nr, rows, corpus, edits, want, cancel, execs, lost>>

\* Variant: the failure is not recorded.
RecordNothing(e) ==
    /\ ex[e].pc = "failing"
    /\ ex' = [ex EXCEPT ![e] = [Idle EXCEPT !.pc = IF e \in Workers THEN "down"
                                                                   ELSE "exited"]]
    /\ UNCHANGED <<run, nr, rows, corpus, edits, want, cancel, execs, lost>>

\* The failure is recorded over whatever status there is; the exception goes
\* on and ends the process.
RecordFailed(e) ==
    /\ ex[e].pc = "failing"
    /\ ~Locked(ex[e].run)
    /\ run' = [run EXCEPT ![ex[e].run].status = "failed"]
    /\ ex' = [ex EXCEPT ![e] = [Idle EXCEPT !.pc = IF e \in Workers THEN "down"
                                                                   ELSE "exited"]]
    /\ UNCHANGED <<nr, rows, corpus, edits, want, cancel, execs, lost>>

\* The process is killed, or fails before the try block: nothing is recorded.
Lose(e) ==
    /\ ex[e].pc \in {"created", "claimed", "executing", "failing"}
    /\ lost' = lost \cup {ex[e].run}
    /\ Cardinality(lost') <= MaxLosses
    /\ ex' = [ex EXCEPT ![e] = [Idle EXCEPT !.pc = IF e \in Workers THEN "down"
                                                                   ELSE "exited"]]
    /\ UNCHANGED <<run, nr, rows, corpus, edits, want, cancel, execs>>

RestartWorker(w) ==
    /\ ex[w].pc = "down"
    /\ ex' = [ex EXCEPT ![w] = Idle]
    /\ UNCHANGED <<run, nr, rows, corpus, edits, want, cancel, execs, lost>>

\* The workers poll and find nothing.
Poll ==
    /\ \A w \in Workers : ex[w] = Idle
    /\ \A c \in Clis : ex[c].pc \in {"idle", "exited"}
    /\ \A r \in Runs : run[r].status # "queued" /\ ~cancel[r]
    /\ UNCHANGED vars

Execute(e) == \/ Begin(e) \/ RunCase(e) \/ CommitRun(e) \/ CommitConflict(e)
              \/ FailRun(e) \/ RecordFailed(e)

Next ==
    \/ CorpusChanges
    \/ \E a \in Creators : CreateCheck(a) \/ CreatePrint(a) \/ CreateInsert(a)
                          \/ CreateDropped(a)
    \/ \E r \in Runs : CancelLoad(r) \/ CancelCommit(r)
    \/ \E w \in Workers : ClaimQueued(w) \/ RestartWorker(w)
    \/ \E c \in Clis : CliRefresh(c)
    \/ \E e \in Executors : Execute(e) \/ Lose(e)
    \/ Poll

Spec == Init /\ [][Next]_vars

\* Processes keep running and workers are restarted; nobody owes a request.
FairSpec ==
    /\ Spec
    /\ \A w \in Workers : WF_vars(ClaimQueued(w) \/ RestartWorker(w) \/ Execute(w))
    /\ \A c \in Clis : WF_vars(CliRefresh(c) \/ Execute(c))
    /\ \A r \in Runs : WF_vars(CancelCommit(r))

-----------------------------------------------------------------------------
(* Properties *)

\* The values of every variable; the one type invariant of this module.
TypeOK ==
    /\ run \in [Runs -> [config : Configs \cup {"none"},
                         status : EvalActive \cup EvalTerminal \cup {"none"},
                         print : Contents, printed : 0 .. MaxEdits,
                         metrics : 0 .. execs, saw : SUBSET Contents,
                         ran : 0 .. MaxEdits]]
    /\ nr \in 0 .. MaxRuns
    /\ rows \in [Runs -> SUBSET (1 .. execs)]
    /\ corpus \in Contents
    /\ edits \in 0 .. MaxEdits
    /\ want \in [Creators -> [config : Configs \cup {"none"}, ready : BOOLEAN,
                              print : Contents, printed : 0 .. MaxEdits]]
    /\ cancel \in [Runs -> BOOLEAN]
    /\ \A e \in Executors :
         /\ ex[e].pc \in {"idle", "created", "claimed", "executing", "failing",
                          "down", "exited"}
         /\ ex[e].run \in 0 .. MaxRuns
         /\ ex[e].left \in 0 .. Cases

\* The numbers a run reports and the per-case rows it exports come from one and
\* the same execution, however many processes executed, cancelled or failed it;
\* a run that shows success has been executed to its end.
MetricsMatchRows ==
    \A r \in Runs :
        /\ rows[r] = IF run[r].metrics = 0 THEN {} ELSE {run[r].metrics}
        /\ run[r].status = "succeeded" => rows[r] # {}

\* No run is executed by two workers: claims are taken from queued rows only,
\* and neither failures, cancellations nor losses queue a run again.
WorkersDoNotShare ==
    \A v, w \in Workers : v # w /\ ex[v].run # 0 => ex[v].run # ex[w].run

\* The executors and the cancellation that have a run in hand.
Holders(r) == {e \in Executors : ex[e].run = r}

\* Nobody takes up a run that has finished: whoever still writes to it had it
\* before it finished (runner.py:218 overwrites a cancellation), and when the last of them is done its status, metrics
\* and results stay as they are.
NobodyReopens ==
    [][\A r \in Runs : run[r].status \in EvalTerminal =>
         /\ Holders(r)' \subseteq Holders(r)
         /\ cancel'[r] => cancel[r]
         /\ Holders(r) = {} /\ ~cancel[r] =>
              run'[r] = run[r] /\ rows'[r] = rows[r]]_vars

\* What compare_runs calls equivalent: two runs of the one benchmark version
\* whose fingerprints are equal.
Comparable(q, r) ==
    /\ run[q].status = "succeeded" /\ run[r].status = "succeeded"
    /\ run[q].print = run[r].print

SawTheSame(q, r) == \A x \in run[q].saw, y \in run[r].saw : x = y

\* No change of the corpus fell between a run's fingerprint and its last case.
Steady(r) == run[r].printed = run[r].ran

\* docs/architecture.md:44 has two runs compared only when they saw the same
\* corpus.  The code holds it of steady runs, every case of them, whatever
\* executed, repeated, failed or cancelled them between; of others it does not,
\* since nothing looks at the fingerprint (runner.py:78) again.
SteadyRunsCompare ==
    \A q, r \in Runs : Comparable(q, r) /\ Steady(q) /\ Steady(r) => SawTheSame(q, r)

\* Every run gets to an end, failures, cancellations, restarts and executors
\* lost with other runs included, unless an executor was lost with this one.
RunsEnd == \A r \in Runs : ActiveRun(r) ~> (~ActiveRun(r) \/ r \in lost)
=============================================================================
