------------------------------- MODULE Chat -------------------------------
(***************************************************************************)
(* The questions of one user over a corpus that is reindexed meanwhile.    *)
(* create_message is one transaction at READ COMMITTED from the load of    *)
(* the user to the commit of the turn: each statement reads what is        *)
(* committed then, and func.now() dates both messages of the turn with the *)
(* start of the transaction, however long the answer takes.                *)
(*                                                                         *)
(* A turn is one record: its request while it is served, its rows in       *)
(* messages and retrieval_results once it is kept.  The chunks are those   *)
(* of one document; ingestion locks their rows one by one to delete them,  *)
(* and an evidence row holds a key share lock on its chunk's.              *)
(*                                                                         *)
(* A definition marked "Variant" is no part of Next: it is the one below   *)
(* it with a plausible mistake, to show which property would notice.       *)
(***************************************************************************)
EXTENDS Integers, FiniteSets

CONSTANTS
    Turns,          \* turns that can be kept; ids of assistant messages
    Chunks,         \* chunk rows that ever exist; their ids are never reused
    DailyLimit,     \* users.daily_query_limit
    MaxConcurrent,  \* requests of the user that are served at once
    MaxDays         \* bound: days that begin

ASSUME TurnsAssumption == IsFiniteSet(Turns)
ASSUME QuotaAssumption == DailyLimit \in Nat /\ MaxConcurrent \in Nat \ {0}
ASSUME DaysAssumption == MaxDays \in Nat \ {0}

VARIABLES
    turn,       \* the turns
    today,      \* the date, of the database and of the API alike
    indexed,    \* documents.status = indexed
    live,       \* chunk rows that are committed
    born,       \* chunk ids that have been given out
    locked      \* chunk rows the ingestion under way has deleted, uncommitted

vars == <<turn, today, indexed, live, born, locked>>
corpus == <<indexed, live, born, locked>>

\* The states of a request, in the order of create_message.
Unchecked == {"asked"}
Admitted  == {"admitted", "searching", "storing"}
Serving   == Unchecked \cup Admitted

Days == 1 .. MaxDays
Unasked == [pc |-> "none", day |-> 0, evidence |-> {}, rows |-> {}]

Served == {m \in Turns : turn[m].pc \in Serving}
Kept   == {m \in Turns : turn[m].pc = "kept"}
\* Messages of the user dated on day d or later.
KeptSince(d) == {m \in Kept : turn[m].day >= d}

\* Chunk rows on which requests under way hold a key share lock.
Shared == UNION {turn[m].rows : m \in Served}
Deleting == ~indexed /\ locked # {}

Init ==
    /\ turn = [m \in Turns |-> Unasked]
    /\ today = 1
    /\ live \in SUBSET Chunks
    /\ born = live
    /\ indexed = TRUE
    /\ locked = {}

-----------------------------------------------------------------------------
(* A request *)

Set(m, t) == turn' = [turn EXCEPT ![m] = t]
Drop(m) == Set(m, Unasked)

\* Ids are random: which of the unused ones comes next makes no difference.
FreshId == CHOOSE m \in Turns : turn[m] = Unasked

\* The user is loaded: the transaction begins, and with it the turn's date.
Begin(m) ==
    /\ turn[m] = Unasked /\ m = FreshId
    /\ Cardinality(Served) < MaxConcurrent
    /\ Set(m, [Unasked EXCEPT !.pc = "asked", !.day = today])
    /\ UNCHANGED <<today, corpus>>

\* Variant: the comparison with the start of the day is off by one.
CheckLimitOfTomorrow(m) ==
    /\ turn[m].pc = "asked"
    /\ IF Cardinality(KeptSince(today + 1)) >= DailyLimit
         THEN Drop(m)
         ELSE Set(m, [turn[m] EXCEPT !.pc = "admitted"])
    /\ UNCHANGED <<today, corpus>>

\* assert_within_daily_limit counts what is committed and dated today.
CheckLimit(m) ==
    /\ turn[m].pc = "asked"
    /\ IF Cardinality(KeptSince(today)) >= DailyLimit
         THEN Drop(m)
         ELSE Set(m, [turn[m] EXCEPT !.pc = "admitted"])
    /\ UNCHANGED <<today, corpus>>

\* _corpus_ready, or 409.
CheckCorpus(m) ==
    /\ turn[m].pc = "admitted"
    /\ IF indexed /\ live # {} THEN Set(m, [turn[m] EXCEPT !.pc = "searching"]) ELSE Drop(m)
    /\ UNCHANGED <<today, corpus>>

\* Both searches, by lexeme and by vector (an error answers 503), and _hydrate,
\* which keeps what there is of the chunks they found, of an indexed document.
\* Qdrant may have points of chunks that are gone: any chunks may be found.
\* Then generate_answer takes seconds and raises nothing, the messages are
\* flushed, and the flush of the evidence rows begins.
Retrieve(m) ==
    /\ turn[m].pc = "searching"
    /\ \E found \in SUBSET Chunks :
         Set(m, [turn[m] EXCEPT !.pc = "storing",
                   !.evidence = IF indexed THEN found \cap live ELSE {}])
    /\ UNCHANGED <<today, corpus>>

\* Variant: chunk_id of retrieval_results is no foreign key.
StoreRowUnchecked(m) ==
    /\ turn[m].pc = "storing"
    /\ \E k \in turn[m].evidence \ turn[m].rows :
         Set(m, [turn[m] EXCEPT !.rows = @ \cup {k}])
    /\ UNCHANGED <<today, corpus>>

\* One evidence row.  Its foreign key waits for the ingestion that has
\* deleted the chunk, and fails the turn when the chunk is gone.
StoreRow(m) ==
    /\ turn[m].pc = "storing"
    /\ \E k \in (turn[m].evidence \ turn[m].rows) \ locked :
         IF k \in live THEN Set(m, [turn[m] EXCEPT !.rows = @ \cup {k}]) ELSE Drop(m)
    /\ UNCHANGED <<today, corpus>>

Commit(m) ==
    /\ turn[m].pc = "storing"
    /\ turn[m].rows = turn[m].evidence
    /\ Set(m, [turn[m] EXCEPT !.pc = "kept"])
    /\ UNCHANGED <<today, corpus>>

\* An error or the end of the process: the transaction is rolled back.
Fail(m) ==
    /\ turn[m].pc \in Serving
    /\ Drop(m)
    /\ UNCHANGED <<today, corpus>>

-----------------------------------------------------------------------------
(* The corpus and the clock *)

Reindex ==
    /\ indexed
    /\ indexed' = FALSE
    /\ UNCHANGED <<turn, today, live, born, locked>>

\* DELETE of the chunks reaches one row, when nobody shares its key.
LockChunk(k) ==
    /\ ~indexed
    /\ k \in (live \ locked) \ Shared
    /\ locked' = locked \cup {k}
    /\ UNCHANGED <<turn, today, indexed, live, born>>

\* New chunks in the place of the old, and the cascade of retrieval_results.
NewChunks ==
    /\ \E new \in SUBSET (Chunks \ born) :
         /\ live' = new
         /\ born' = born \cup new
    /\ turn' = [m \in Turns |-> IF m \in Kept THEN [turn[m] EXCEPT !.rows = @ \ locked]
                                ELSE turn[m]]
    /\ indexed' = TRUE
    /\ UNCHANGED today

\* Variants: a retry takes the rows of the attempt before for its own; the
\* chunks are replaced under a table lock that questions exclude.
ReplaceKeepingLocks == ~indexed /\ locked = live /\ NewChunks /\ UNCHANGED locked
ReplaceWhenQuiet == ~indexed /\ locked = live /\ Served = {} /\ NewChunks /\ locked' = {}

\* The ingestion commits.
Replace ==
    /\ ~indexed
    /\ locked = live
    /\ NewChunks
    /\ locked' = {}

\* It is rolled back, and will be tried again.
Abort ==
    /\ Deleting
    /\ locked' = {}
    /\ UNCHANGED <<turn, today, indexed, live, born>>

\* A turn waits for the ingestion, which waits for the turn.
Deadlocked(m) ==
    /\ turn[m].pc = "storing"
    /\ turn[m].evidence \cap locked # {}
    /\ turn[m].rows # {}

\* PostgreSQL aborts one of the two; here the turn (Abort is the other).
DeadlockAbortsTurn(m) ==
    /\ Deadlocked(m)
    /\ Drop(m)
    /\ UNCHANGED <<today, corpus>>

Midnight ==
    /\ today < MaxDays
    /\ today' = today + 1
    /\ UNCHANGED <<turn, corpus>>

-----------------------------------------------------------------------------
Serve(m) == \/ CheckLimit(m) \/ CheckCorpus(m) \/ Retrieve(m)
            \/ StoreRow(m) \/ Commit(m) \/ DeadlockAbortsTurn(m)
Ingest == Replace \/ \E k \in Chunks : LockChunk(k)

Next ==
    \/ \E m \in Turns : Begin(m) \/ Serve(m) \/ Fail(m)
    \/ Reindex \/ Ingest \/ Abort \/ Midnight

Spec == Init /\ [][Next]_vars
\* The server's threads run, its clients' calls time out and the worker goes
\* on; whoever waits for a row lock is woken in the order of the queue, so a
\* turn cannot be passed over by one ingestion after the other (SF).
Fairness == /\ \A m \in Turns : WF_vars(Serve(m)) /\ SF_vars(StoreRow(m))
            /\ WF_vars(Ingest)
LiveSpec == Spec /\ Fairness

-----------------------------------------------------------------------------
(* Properties *)

\* The values of every variable; the one type invariant of this module.
TypeOK ==
    /\ turn \in [Turns -> [pc : Serving \cup {"none", "kept"}, day : 0 .. MaxDays,
                           evidence : SUBSET Chunks, rows : SUBSET Chunks]]
    /\ today \in 0 .. MaxDays
    /\ indexed \in BOOLEAN
    /\ born \subseteq Chunks /\ live \subseteq born /\ locked \subseteq live

Dated(d) == {m \in Kept : turn[m].day = d}

\* The daily quota (rag.py:41) is counted before an answer is generated and
\* charged when the turn is committed, with the date of its start.  A day is
\* overdrawn by no more than the requests that overlap, and by as many again
\* that began on that day and were checked against the next.
DailyLimitHolds ==
    \A d \in Days :
        Cardinality(Dated(d)) <= DailyLimit + (MaxConcurrent - 1)
                                 + (IF d < today THEN MaxConcurrent ELSE 0)

\* retrieval_results explains a kept answer by every candidate it was given
\* whose chunk still exists, and by no chunk that is gone: neither a reindexing
\* in the seconds of generation nor one beside the inserts leaves it in part.
TraceIsWhole ==
    \A m \in Kept : turn[m].rows = turn[m].evidence \cap live

\* Every question is answered or refused, and the deletion of the old chunks
\* ends, in spite of the locks they wait for and of the deadlocks.
TurnsEnd ==
    /\ \A m \in Turns : turn[m].pc \in Serving ~> turn[m].pc \notin Serving
    /\ Deleting ~> ~Deleting
=============================================================================
