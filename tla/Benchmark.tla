----------------------------- MODULE Benchmark -----------------------------
(***************************************************************************)
(* Benchmark authoring: versions of one benchmark name, their cases and    *)
(* the graded judgments of cases on chunks, edited by concurrent           *)
(* administrator requests while ingestion replaces chunks.  Each request   *)
(* loads the version (and the case) first and decides on what it loaded;   *)
(* nothing is locked until its commit.                                     *)
(*                                                                         *)
(* A definition marked "Variant" is no part of Next: it is the one below   *)
(* it with a plausible mistake, to show which property would notice.       *)
(***************************************************************************)
EXTENDS Naturals, FiniteSets

CONSTANTS
    Editors,        \* concurrent administrator requests
    CaseIds,        \* external_id of cases
    Chunks,         \* chunk rows that ever exist; their ids are never reused
    MaxVersions,    \* bound: versions of the name
    MinCases,       \* MIN_CASES_FOR_PUBLISH (100)
    Grades          \* bound: the grades of relevance that requests use

ASSUME BenchmarkBoundsAssumption == MaxVersions \in Nat /\ MinCases \in Nat
ASSUME GradesAssumption == Grades \subseteq {"zero", "one", "two"}

VARIABLES
    status,     \* benchmark_versions.status of each number
    content,    \* the cases of each version, with their judgments
    live,       \* chunk rows that exist
    born,       \* chunk ids that have been given out
    ed,         \* what each request has loaded
    disturbed   \* versions written while or after they were published (history,
                \* read by no guard)

vars == <<status, content, live, born, ed, disturbed>>

Versions == 1 .. MaxVersions
\* A judgment's relevance: none, 0, 1, or at least 2.
Relevance  == {"none"} \cup Grades
Relevant   == {"one", "two"}
Categories == {"answerable", "unanswerable"}

Unjudged == [k \in Chunks |-> "none"]
NoCase   == [category |-> "none", judged |-> Unjudged]
\* held are the rows of cases a request has loaded or deleted, uncommitted, as
\* far as they are still there; categories and left are publication's list.
Idle     == [pc |-> "idle", version |-> 0, case |-> "none", removed |-> Unjudged,
             held |-> {}, categories |-> [c \in CaseIds |-> "none"], left |-> {}]

Exists(v) == status[v] # "none"
\* The highest version number in use, 0 if none.
Highest == CHOOSE v \in 0 .. MaxVersions :
             /\ v = 0 \/ Exists(v)
             /\ \A u \in Versions : Exists(u) => u <= v

CasesOf(v) == {c \in CaseIds : content[v][c] # NoCase}

Published(v)  == status[v] = "published"
Publishing(v) == \E e \in Editors : ed[e].pc = "publishing" /\ ed[e].version = v

\* The cases or judgments of the versions vs change.
Disturb(vs) == disturbed' = disturbed \cup {v \in vs : Published(v) \/ Publishing(v)}

\* Variant: judgments of no such relevance.
JudgmentsUngraded == {j \in [Chunks -> Relevance \cup {"three"}] :
                        \A k \in Chunks : j[k] # "none" => k \in live}

\* What a request may say of a case: only chunks that exist can be judged.
Judgments == {j \in [Chunks -> Relevance] : \A k \in Chunks : j[k] # "none" => k \in live}

Init ==
    /\ status = [v \in Versions |-> "none"]
    /\ content = [v \in Versions |-> [c \in CaseIds |-> NoCase]]
    /\ live \in SUBSET Chunks
    /\ born = live
    /\ ed = [e \in Editors |-> Idle]
    /\ disturbed = {}

-----------------------------------------------------------------------------
(* Versions *)

\* create_version reads the highest number of the name ...
ReadHighest(e) ==
    /\ ed[e] = Idle
    /\ ed' = [ed EXCEPT ![e] = [Idle EXCEPT !.pc = "numbering", !.version = Highest]]
    /\ UNCHANGED <<status, content, live, born, disturbed>>

\* ... and inserts the next; a number taken meanwhile is a unique violation.
InsertVersion(e) ==
    LET v == ed[e].version + 1 IN
    /\ ed[e].pc = "numbering"
    /\ status' = IF v \in Versions /\ ~Exists(v)
                   THEN [status EXCEPT ![v] = "draft"] ELSE status
    /\ ed' = [ed EXCEPT ![e] = Idle]
    /\ UNCHANGED <<content, live, born, disturbed>>

\* Variant: _ensure_draft is forgotten.
OpenAny(e) ==
    /\ ed[e] = Idle
    /\ \E v \in Versions :
         /\ Exists(v)
         /\ ed' = [ed EXCEPT ![e] = [Idle EXCEPT !.pc = "draft", !.version = v]]
    /\ UNCHANGED <<status, content, live, born, disturbed>>

\* get_version and _ensure_draft, on the status as loaded.
Open(e) ==
    /\ ed[e] = Idle
    /\ \E v \in Versions :
         /\ status[v] = "draft"
         /\ ed' = [ed EXCEPT ![e] = [Idle EXCEPT !.pc = "draft", !.version = v]]
    /\ UNCHANGED <<status, content, live, born, disturbed>>

\* Any refusal or error: nothing is written.
Refuse(e) ==
    /\ ed[e].pc \in {"draft", "replacing", "importing", "publishing"}
    /\ ed' = [ed EXCEPT ![e] = Idle]
    /\ UNCHANGED <<status, content, live, born, disturbed>>

-----------------------------------------------------------------------------
(* Cases of a version loaded as a draft *)

\* Rows of v that go are gone for whoever had them.
Bereft(x, v, gone) == IF x.version = v THEN [x EXCEPT !.held = @ \ gone] ELSE x

Commit(e, v, cases, gone) ==
    /\ content' = [content EXCEPT ![v] = cases]
    /\ ed' = [f \in Editors |-> IF f = e THEN Idle ELSE Bereft(ed[f], v, gone)]
    /\ Disturb({v})
    /\ UNCHANGED <<status, live, born>>

\* What a request may make of a case.
Case == [category : Categories, judged : Judgments]

\* add_case (the promotion of feedback is FileCase of Feedback).
AddCase(e) ==
    LET v == ed[e].version IN
    /\ ed[e].pc = "draft"
    /\ \E c \in CaseIds \ CasesOf(v), new \in Case :
         Commit(e, v, [content[v] EXCEPT ![c] = new], {})

\* import_cases: with replace, the cases it finds are deleted, uncommitted ...
ImportBegin(e) ==
    /\ ed[e].pc = "draft"
    /\ \E found \in {{}, CasesOf(ed[e].version)} :
         ed' = [ed EXCEPT ![e].pc = "importing", ![e].held = found]
    /\ UNCHANGED <<status, content, live, born, disturbed>>

\* ... and those of the file are inserted.  A case another request has
\* committed since stays, and is a unique violation if the file has it too.
ImportCommit(e) ==
    LET v == ed[e].version
        kept == CasesOf(v) \ ed[e].held
    IN  /\ ed[e].pc = "importing"
        /\ \E file \in SUBSET (CaseIds \ kept) : \E new \in [file -> Case] :
             Commit(e, v, [c \in CaseIds |-> IF c \in file THEN new[c]
                                             ELSE IF c \in kept THEN content[v][c]
                                             ELSE NoCase], ed[e].held)

\* update_case without judgments.
UpdateFields(e) ==
    LET v == ed[e].version IN
    /\ ed[e].pc = "draft"
    /\ \E c \in CasesOf(v), cat \in Categories :
         Commit(e, v, [content[v] EXCEPT ![c].category = cat], {})

\* update_case with judgments deletes those it finds, uncommitted ...
ReplaceBegin(e) ==
    /\ ed[e].pc = "draft"
    /\ \E c \in CasesOf(ed[e].version) :
         ed' = [ed EXCEPT ![e].pc = "replacing", ![e].case = c, ![e].held = {c},
                          ![e].removed = content[ed[e].version][c].judged]
    /\ UNCHANGED <<status, content, live, born, disturbed>>

\* ... and inserts its own.  Judgments another request has committed since
\* are not deleted; one on the same chunk is a primary key violation.
ReplaceCommit(e) ==
    LET v == ed[e].version
        c == ed[e].case
        kept == [k \in Chunks |-> IF ed[e].removed[k] # "none" THEN "none"
                                  ELSE content[v][c].judged[k]]
    IN  /\ ed[e].pc = "replacing"
        /\ c \in ed[e].held
        /\ \E cat \in Categories, j \in Judgments :
             /\ \A k \in Chunks : j[k] = "none" \/ kept[k] = "none"
             /\ Commit(e, v, [content[v] EXCEPT ![c] =
                  [category |-> cat,
                   judged |-> [k \in Chunks |-> IF j[k] # "none" THEN j[k] ELSE kept[k]]]], {})

\* delete_case, with its judgments.
DeleteCase(e) ==
    LET v == ed[e].version IN
    /\ ed[e].pc = "draft"
    /\ \E c \in CasesOf(v) : Commit(e, v, [content[v] EXCEPT ![c] = NoCase], {c})

-----------------------------------------------------------------------------
(* Publication *)

CaseIsSound(case) ==
    IF case.category = "unanswerable"
      THEN \A k \in Chunks : case.judged[k] \notin Relevant
      ELSE \E k \in Chunks : case.judged[k] = "two"

Gate(v) == /\ Cardinality(CasesOf(v)) >= MinCases
           /\ \A c \in CasesOf(v) : CaseIsSound(content[v][c])

\* publish_version reads the list of cases, with their categories ...
PublishBegin(e) ==
    LET v == ed[e].version IN
    /\ ed[e].pc = "draft"
    /\ Cardinality(CasesOf(v)) >= MinCases
    /\ ed' = [ed EXCEPT ![e].pc = "publishing", ![e].held = CasesOf(v),
                        ![e].left = CasesOf(v),
                        ![e].categories = [c \in CaseIds |-> content[v][c].category]]
    /\ disturbed' = IF Published(v) \/ Publishing(v) THEN disturbed ELSE disturbed \ {v}
    /\ UNCHANGED <<status, content, live, born>>

\* What it finds of a case then: the category of the list, and the judgments
\* there are now, none if the case is gone.
Found(e, c) ==
    [category |-> ed[e].categories[c],
     judged   |-> IF c \in ed[e].held THEN content[ed[e].version][c].judged ELSE Unjudged]

CheckOf(e, c, passes) ==
    /\ ed[e].pc = "publishing" /\ c \in ed[e].left /\ passes
    /\ ed' = [ed EXCEPT ![e].left = @ \ {c}]
    /\ UNCHANGED <<status, content, live, born, disturbed>>

\* Variant: any judgment will do for an answerable case.
CheckCaseJudged(e, c) ==
    CheckOf(e, c, \/ CaseIsSound(Found(e, c))
                  \/ ed[e].categories[c] = "answerable" /\ Found(e, c).judged # Unjudged)

\* ... then the judgments of one case after the other ...
CheckCase(e, c) == CheckOf(e, c, CaseIsSound(Found(e, c)))

\* ... and commits the new status.
PublishCommit(e) ==
    /\ ed[e].pc = "publishing" /\ ed[e].left = {}
    /\ status' = [status EXCEPT ![ed[e].version] = "published"]
    /\ ed' = [ed EXCEPT ![e] = Idle]
    /\ UNCHANGED <<content, live, born, disturbed>>

-----------------------------------------------------------------------------
(* The corpus: the foreign key of relevance_judgments cascades *)

ChunkAdded(k) ==
    /\ k \notin born
    /\ live' = live \cup {k}
    /\ born' = born \cup {k}
    /\ UNCHANGED <<status, content, ed, disturbed>>

ChunkRemoved(k) ==
    /\ k \in live
    /\ live' = live \ {k}
    /\ content' = [v \in Versions |-> [c \in CaseIds |->
                     [content[v][c] EXCEPT !.judged[k] = "none"]]]
    /\ Disturb({v \in Versions : \E c \in CaseIds : content[v][c].judged[k] # "none"})
    /\ UNCHANGED <<status, born, ed>>

Edit(e) == \/ AddCase(e) \/ ImportBegin(e) \/ ImportCommit(e) \/ UpdateFields(e)
           \/ ReplaceBegin(e) \/ ReplaceCommit(e) \/ DeleteCase(e)

Next ==
    \/ \E e \in Editors : \/ ReadHighest(e) \/ InsertVersion(e)
                          \/ Open(e) \/ Refuse(e) \/ Edit(e)
                          \/ PublishBegin(e) \/ PublishCommit(e)
                          \/ \E c \in CaseIds : CheckCase(e, c)
    \/ \E k \in Chunks : ChunkAdded(k) \/ ChunkRemoved(k)

Spec == Init /\ [][Next]_vars

-----------------------------------------------------------------------------
(* Properties *)

\* The values of every variable; the one type invariant of this module.
TypeOK ==
    /\ status \in [Versions -> {"none", "draft", "published"}]
    /\ \A v \in Versions, c \in CaseIds :
         content[v][c].category \in Categories \cup {"none"}
         /\ content[v][c].judged \in [Chunks -> Relevance]
    /\ live \subseteq born /\ born \subseteq Chunks
    /\ disturbed \subseteq Versions
    /\ \A e \in Editors :
         /\ ed[e].pc \in {"idle", "numbering", "draft", "replacing", "importing", "publishing"}
         /\ ed[e].held \subseteq CaseIds /\ ed[e].left \subseteq CaseIds

\* The requests that have loaded a version and are not done with it.
Holding(v) ==
    {e \in Editors : /\ ed[e].version = v
                     /\ ed[e].pc \in {"draft", "replacing", "importing", "publishing"}}

\* No request takes up a version once it is published.  Those that had loaded it
\* before may still write to it (services/benchmark.py:41 is checked on what was
\* loaded); when the last is done, its cases stay as they are for good and lose
\* judgments only with the chunks they are on.
PublishedIsClosed ==
    [][\A v \in Versions : Published(v) =>
         /\ status'[v] = "published"
         /\ Holding(v)' \subseteq Holding(v)
         /\ Holding(v) = {} => \A c \in CaseIds :
              /\ content'[v][c].category = content[v][c].category
              /\ content'[v][c].judged =
                   [k \in Chunks |-> IF k \in live' THEN content[v][c].judged[k] ELSE "none"]]_vars

\* publish_version reads the list of cases and then the judgments of each, with
\* other publications, requests of any kind and ingestion going on: the version
\* meets the gate as a whole unless it was written from the list on (an edit that
\* loaded the draft may commit even after the publication).
GateUnlessDisturbed == \A v \in Versions : Published(v) /\ v \notin disturbed => Gate(v)

\* "Published versions are immutable" (services/benchmark.py:3): no case of one
\* and no judgment ever changes.  The code does not hold it.
PublishedIsImmutable ==
    [][\A v \in Versions : Published(v) =>
         status'[v] = "published" /\ content'[v] = content[v]]_vars
=============================================================================
