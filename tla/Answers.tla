------------------------------- MODULE Answers -------------------------------
(***************************************************************************)
(* The answer to a question from the evidence retrieved, and the sources   *)
(* shown with it (answers.py and the end of answer_question).  The model's *)
(* text is abstracted to the labels it cites and to its marker.            *)
(***************************************************************************)
EXTENDS Retrieval

VARIABLES
    reply,      \* what the model wrote: the labels, and is the marker in it?
    status,     \* answer_status
    cited,      \* cited_labels
    sources     \* the chunk shown as the source of each label

avars == <<reply, status, cited, sources>>

NoReply == [labels |-> {}, marker |-> FALSE]

AInit == reply = NoReply /\ status = "none" /\ cited = {} /\ sources = <<>>

\* Variant: unknown labels are ignored.
EvaluateLeniently(r, labels) ==
    IF r.marker THEN "insufficient_evidence"
    ELSE IF r.labels \cap labels = {} THEN "insufficient_evidence"
    ELSE "answered"

\* evaluate_answer: without a citation, or with an unknown one, no answer.
Evaluate(r, labels) ==
    IF r.marker \/ r.labels = {} \/ ~(r.labels \subseteq labels)
      THEN "insufficient_evidence" ELSE "answered"

\* The source of each label C1 .. Cn that is shown.
SourcesOf(labels) == [label \in labels |-> selected[label]]

Settle(s, labels, shown) ==
    /\ status' = s
    /\ cited' = labels
    /\ sources' = SourcesOf(shown)
    /\ stage' = "answered"
    /\ UNCHANGED <<mode, topK, reranks, lexical, dense, ordered, rows, selected>>

\* Nothing was found: the model is not asked.
AnswerNothing ==
    /\ stage = "answer" /\ selected = <<>>
    /\ Settle("insufficient_evidence", {}, {})
    /\ UNCHANGED reply

GenerationFails ==
    /\ stage = "answer" /\ selected # <<>>
    /\ Settle("generation_failed", {}, DOMAIN selected)
    /\ UNCHANGED reply

\* The model cites any labels, known (1 .. n) or not.
Generate ==
    /\ stage = "answer" /\ selected # <<>>
    /\ reply' \in [labels : SUBSET (0 .. Len(selected) + 1), marker : BOOLEAN]
    /\ LET s == Evaluate(reply', DOMAIN selected)
           valid == reply'.labels \cap DOMAIN selected
       IN  IF s = "answered" THEN Settle(s, valid, valid) ELSE Settle(s, {}, DOMAIN selected)

ANext == (QNext /\ UNCHANGED avars) \/ AnswerNothing \/ GenerationFails \/ Generate

QuestionSpec == QInit /\ AInit /\ [][ANext]_<<qvars, avars>>

-----------------------------------------------------------------------------
(* Properties *)

\* An answer is shown as answered only if it cites something and each citation
\* in its text names a source that is shown, one the user could see when the
\* evidence was read; what is not answered cites nothing.
CitationsAreGrounded ==
    stage = "answered" =>
        /\ \A label \in DOMAIN sources : sources[label] \in rows
        /\ IF status = "answered"
             THEN reply.labels # {} /\ cited = reply.labels /\ DOMAIN sources = reply.labels
             ELSE cited = {} /\ DOMAIN sources = DOMAIN selected
=============================================================================
