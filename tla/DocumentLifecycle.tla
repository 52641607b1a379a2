-------------------------- MODULE DocumentLifecycle --------------------------
(***************************************************************************)
(* What the ingestion pipeline promises about a document, with no workers, *)
(* jobs, locks or vectors: a submitted document waits for an ingestion,    *)
(* which either publishes a new version of its chunks as a whole, or gives *)
(* up and leaves the published version as it was.                          *)
(***************************************************************************)
CONSTANTS
    Docs,       \* documents
    Versions,   \* versions an ingestion can publish
    NoVersion   \* nothing published

VARIABLES
    status,     \* absent, queued, indexed, failed or deleted
    content,    \* the published version
    pending     \* an ingestion is due or under way

lifecycleVars == <<status, content, pending>>

Live == {"queued", "indexed", "failed"}

LInit ==
    /\ status = [d \in Docs |-> "absent"]
    /\ content = [d \in Docs |-> NoVersion]
    /\ pending = [d \in Docs |-> FALSE]

Submit(d) ==
    /\ status[d] = "absent"
    /\ status' = [status EXCEPT ![d] = "queued"]
    /\ pending' = [pending EXCEPT ![d] = TRUE]
    /\ UNCHANGED content

\* A reindex that saw the document as still queued leaves its status alone.
Requeue(d) ==
    /\ status[d] \in Live
    /\ ~pending[d]
    /\ \/ status' = [status EXCEPT ![d] = "queued"]
       \/ UNCHANGED status
    /\ pending' = [pending EXCEPT ![d] = TRUE]
    /\ UNCHANGED content

Publish(d) ==
    /\ pending[d]
    /\ status' = [status EXCEPT ![d] = "indexed"]
    /\ content'[d] \in Versions \ {content[d]}
    /\ content' = [content EXCEPT ![d] = content'[d]]
    /\ pending' = [pending EXCEPT ![d] = FALSE]

TryAgain(d) ==
    /\ pending[d]
    /\ status' = [status EXCEPT ![d] = "queued"]
    /\ UNCHANGED <<content, pending>>

GiveUp(d) ==
    /\ pending[d]
    /\ status' = [status EXCEPT ![d] = "failed"]
    /\ pending' = [pending EXCEPT ![d] = FALSE]
    /\ UNCHANGED content

Remove(d) ==
    /\ status[d] \in Live
    /\ status' = [status EXCEPT ![d] = "deleted"]
    /\ content' = [content EXCEPT ![d] = NoVersion]
    /\ pending' = [pending EXCEPT ![d] = FALSE]

LNext == \E d \in Docs : \/ Submit(d) \/ Requeue(d) \/ Publish(d)
                         \/ TryAgain(d) \/ GiveUp(d) \/ Remove(d)

LSpec == LInit /\ [][LNext]_lifecycleVars
=============================================================================
