----------------------------- MODULE Feedback -----------------------------
(***************************************************************************)
(* The feedback of one author on one answer: its submissions, its reviews  *)
(* by administrators, the chunks they give as corrections, and the cases   *)
(* they file from it in the benchmark, which editors change meanwhile.     *)
(*                                                                         *)
(* A request reads, decides on what it read, and writes when it commits.   *)
(* review_feedback commits twice when it promotes: add_case commits the    *)
(* case, the status follows.  The trail of events is kept as what its      *)
(* properties tell apart: that a review is in it, and which promotions.    *)
(*                                                                         *)
(* A definition marked "Variant" is no part of Next: it is the one below   *)
(* it with a plausible mistake, to show which property would notice.       *)
(***************************************************************************)
EXTENDS Benchmark

CONSTANTS
    Submitters,     \* concurrent PUTs of the author
    Reviewers,      \* concurrent reviews
    Decisions       \* bound: the review statuses that requests use

ASSUME DecisionsAssumption == Decisions \subseteq {"resolved", "ignored", "promoted"}

VARIABLES
    feedback,       \* feedback.status, "none" without a row
    corrections,    \* feedback_corrections: the relevance of each chunk
    reviewed,       \* the trail has the event of a review
    logged,         \* the cases whose promotion is in the trail
    filed,          \* the cases filed from the feedback
    lost,           \* those of reviews that ended before their second commit
    sub,            \* what each PUT has found: no row, or one
    rev             \* what each review has loaded and done

bench == <<status, content, live, born, ed, disturbed>>
row == <<feedback, corrections, reviewed, logged, filed, lost>>
fvars == <<bench, row, sub, rev>>

NoReview == [pc |-> "idle", decision |-> "none", changes |-> FALSE,
             removed |-> Unjudged, given |-> Unjudged, list |-> Unjudged,
             version |-> 0, case |-> "none"]

\* Corrections are graded 1 to 3: not "zero".
Corrected == {j \in Judgments : \A k \in Chunks : j[k] # "zero"}

FInit ==
    /\ Init
    /\ feedback = "none"
    /\ corrections = Unjudged
    /\ reviewed = FALSE
    /\ logged = {} /\ filed = {} /\ lost = {}
    /\ sub = [s \in Submitters |-> "idle"]
    /\ rev = [r \in Reviewers |-> NoReview]

-----------------------------------------------------------------------------
(* Submission *)

SubmitLoad(s) ==
    /\ sub[s] = "idle"
    /\ sub' = [sub EXCEPT ![s] = IF feedback = "none" THEN "insert" ELSE "update"]
    /\ UNCHANGED <<bench, row, rev>>

\* Variant: a changed rating puts the feedback back into the queue.
SubmitCommitReopening(s) ==
    /\ sub[s] # "idle"
    /\ feedback' = "unresolved"
    /\ sub' = [sub EXCEPT ![s] = "idle"]
    /\ UNCHANGED <<bench, corrections, reviewed, logged, filed, lost, rev>>

\* The second insert is a unique violation; an update leaves the status.
SubmitCommit(s) ==
    /\ sub[s] # "idle"
    /\ feedback' = IF sub[s] = "insert" /\ feedback = "none" THEN "unresolved" ELSE feedback
    /\ sub' = [sub EXCEPT ![s] = "idle"]
    /\ UNCHANGED <<bench, corrections, reviewed, logged, filed, lost, rev>>

-----------------------------------------------------------------------------
(* Review *)

Step(r, new) == rev' = [rev EXCEPT ![r] = new]

ReviewLoad(r) ==
    /\ rev[r].pc = "idle"
    /\ feedback # "none"
    /\ \E d \in Decisions :
         Step(r, [NoReview EXCEPT !.pc = "loaded", !.decision = d, !.changes = d # feedback])
    /\ UNCHANGED <<bench, row, sub>>

\* _replace_corrections deletes the rows it finds and inserts its own, on
\* chunks that are there; nothing is committed yet.
ReplaceCorrections(r) ==
    /\ rev[r].pc = "loaded"
    /\ \E j \in Corrected :
         Step(r, [rev[r] EXCEPT !.pc = "replaced", !.removed = corrections, !.given = j])
    /\ UNCHANGED <<bench, row, sub>>

\* What the review's transaction makes of the rows: those committed since its
\* DELETE are not deleted.
Remaining(r) == [k \in Chunks |-> IF rev[r].removed[k] # "none" THEN "none" ELSE corrections[k]]
View(r) == [k \in Chunks |-> IF rev[r].given[k] # "none" THEN rev[r].given[k] ELSE Remaining(r)[k]]

\* One of them on the same chunk is a primary key violation.  (The chunks of the
\* rows it has flushed cannot go: see ChunkGoes.)
CanCommit(r) == \A k \in Chunks : rev[r].given[k] # "none" => Remaining(r)[k] = "none"

\* The status is written if it differs from the one loaded (unit of work).
WriteStatus(r) ==
    /\ feedback' = IF rev[r].changes THEN rev[r].decision ELSE feedback
    /\ reviewed' = TRUE

\* Variant: without a draft target, a promotion only changes the status.
ReviewCommitOfAny(r) ==
    /\ rev[r].pc \in {"loaded", "replaced"}
    /\ CanCommit(r)
    /\ WriteStatus(r)
    /\ corrections' = View(r)
    /\ Step(r, NoReview)
    /\ UNCHANGED <<bench, logged, filed, lost, sub>>

\* A review that does not promote is one commit.
ReviewCommit(r) ==
    /\ rev[r].pc \in {"loaded", "replaced"}
    /\ rev[r].decision # "promoted"
    /\ CanCommit(r)
    /\ WriteStatus(r)
    /\ corrections' = View(r)
    /\ Step(r, NoReview)
    /\ UNCHANGED <<bench, logged, filed, lost, sub>>

\* _promote_to_draft reads the list of corrections, not empty, and the version,
\* a draft.
PromoteLoad(r) ==
    /\ rev[r].pc \in {"loaded", "replaced"}
    /\ rev[r].decision = "promoted"
    /\ CanCommit(r)
    /\ View(r) # Unjudged
    /\ \E v \in Versions :
         /\ status[v] = "draft"
         /\ Step(r, [rev[r] EXCEPT !.pc = "filing", !.version = v, !.list = View(r)])
    /\ UNCHANGED <<bench, row, sub>>

Filed(r, c) == Step(r, [rev[r] EXCEPT !.pc = "filed", !.case = c, !.removed = Unjudged,
                                      !.given = Unjudged, !.list = Unjudged])

\* A case with these judgments is inserted and committed, and the corrections
\* with it.
FileWith(r, judgments) ==
    LET v == rev[r].version IN
    /\ rev[r].pc = "filing"
    /\ CanCommit(r)
    /\ \E c \in CaseIds \ CasesOf(v), cat \in Categories :
         /\ content' = [content EXCEPT ![v][c] = [category |-> cat, judged |-> judgments]]
         /\ filed' = filed \cup {<<v, c>>}
         /\ Filed(r, c)
    /\ Disturb({v})
    /\ corrections' = View(r)
    /\ UNCHANGED <<status, live, born, ed, feedback, reviewed, logged, lost, sub>>

\* Variant: a chunk that is gone is passed over.
FileCaseSkipping(r) ==
    FileWith(r, [k \in Chunks |-> IF k \in live THEN rev[r].list[k] ELSE "none"])

\* add_case takes the judgments of the list, and refuses a chunk that has gone
\* since it was read.
FileCase(r) ==
    /\ \A k \in Chunks : rev[r].list[k] # "none" => k \in live
    /\ FileWith(r, rev[r].list)

\* The status of a promotion, and its event.
PromoteCommit(r) ==
    /\ rev[r].pc = "filed"
    /\ WriteStatus(r)
    /\ logged' = logged \cup {<<rev[r].version, rev[r].case>>}
    /\ Step(r, NoReview)
    /\ UNCHANGED <<bench, corrections, filed, lost, sub>>

\* A refusal or an error: what is not committed is rolled back.
ReviewFails(r) ==
    /\ rev[r].pc # "idle"
    /\ lost' = IF rev[r].pc = "filed" THEN lost \cup {<<rev[r].version, rev[r].case>>} ELSE lost
    /\ Step(r, NoReview)
    /\ UNCHANGED <<bench, feedback, corrections, reviewed, logged, filed, sub>>

-----------------------------------------------------------------------------
(* Around it *)

\* The editors of the benchmark, and new chunks.
Elsewhere ==
    /\ \/ \E e \in Editors : \/ ReadHighest(e) \/ InsertVersion(e)
                             \/ Open(e) \/ Refuse(e) \/ Edit(e)
                             \/ PublishBegin(e) \/ PublishCommit(e)
                             \/ \E c \in CaseIds : CheckCase(e, c)
       \/ \E k \in Chunks : ChunkAdded(k)
    /\ UNCHANGED <<row, sub, rev>>

\* A chunk goes: the foreign key of feedback_corrections cascades too.  Rows a
\* review has flushed, uncommitted, hold the chunk until it ends.
ChunkGoes(k) ==
    /\ \A r \in Reviewers : rev[r].given[k] = "none"
    /\ ChunkRemoved(k)
    /\ corrections' = [corrections EXCEPT ![k] = "none"]
    /\ UNCHANGED <<feedback, reviewed, logged, filed, lost, sub, rev>>

FNext ==
    \/ \E s \in Submitters : SubmitLoad(s) \/ SubmitCommit(s)
    \/ \E r \in Reviewers : \/ ReviewLoad(r) \/ ReplaceCorrections(r) \/ ReviewCommit(r)
                            \/ PromoteLoad(r) \/ FileCase(r) \/ PromoteCommit(r)
                            \/ ReviewFails(r)
    \/ Elsewhere
    \/ \E k \in Chunks : ChunkGoes(k)

FSpec == FInit /\ [][FNext]_fvars

-----------------------------------------------------------------------------
(* Properties *)

\* The values of every variable; the one type invariant of this module.
FeedbackTypeOK ==
    /\ TypeOK
    /\ feedback \in {"none", "unresolved"} \cup Decisions
    /\ corrections \in [Chunks -> Relevance]
    /\ reviewed \in BOOLEAN
    /\ logged \cup lost \subseteq filed /\ filed \subseteq Versions \X CaseIds
    /\ sub \in [Submitters -> {"idle", "insert", "update"}]
    /\ \A r \in Reviewers :
         rev[r].pc \in {"idle", "loaded", "replaced", "filing", "filed"}

Between(r) == rev[r].pc = "filed"

\* The promotion is two commits (feedback.py:288): a feedback shown as promoted
\* has a case filed from it, and a filed case is in the trail of events unless
\* its review is between the two, or has ended there.
PromotionIsLogged ==
    /\ feedback = "promoted" => logged # {}
    /\ \A f \in filed :
         f \in logged \cup lost \cup {<<rev[r].version, rev[r].case>> : r \in {x \in Reviewers : Between(x)}}

\* The queue shows as unresolved just the feedback that no committed review has
\* decided, in whatever order submissions and overlapping reviews commit.
QueueMatchesTrail ==
    feedback # "none" => (feedback = "unresolved" <=> ~reviewed)

\* A promotion reads the corrections, and add_case files them after other
\* requests and ingestion have gone on: the case it commits has evidence, none
\* of it irrelevant or on a chunk that is gone, and the corrections the review
\* itself gave ("included", feedback.py:287) are in the case and in the feedback.
PromotedHasEvidence ==
    [][\A r \in Reviewers : rev[r].pc = "filing" /\ rev'[r].pc = "filed" =>
         LET judged == content'[rev'[r].version][rev'[r].case].judged IN
         /\ judged # Unjudged
         /\ \A k \in Chunks : judged[k] # "none" => k \in live' /\ judged[k] # "zero"
         /\ \A k \in Chunks : rev[r].given[k] # "none" =>
              judged[k] = rev[r].given[k] /\ corrections'[k] = rev[r].given[k]]_fvars
=============================================================================
