----------------------------- MODULE Embeddings -----------------------------
(***************************************************************************)
(* The embedding of a document's chunks (worker.py): the texts go to the   *)
(* provider in batches, a batch that fails for a transient reason is tried *)
(* again, and any other failure ends the attempt.  A vector is modelled by *)
(* the text it was made of.                                                *)
(***************************************************************************)
EXTENDS Chunking

CONSTANTS
    BatchSize,      \* EMBED_BATCH_SIZE (96)
    MaxRetries      \* _MAX_RETRIES (4)

ASSUME EmbeddingsAssumption == BatchSize \in Nat \ {0}

VARIABLES
    embedding,      \* "none", "trying", and "done" or "raised" at the end
    vectors,        \* the vectors so far
    attempt         \* failures of the batch under way

evars == <<embedding, vectors, attempt>>

Texts == [c \in DOMAIN Chunks |-> Chunks[c].content]
Batch == SubSeq(Texts, Len(vectors) + 1,
                IF Len(vectors) + BatchSize < Len(Texts)
                  THEN Len(vectors) + BatchSize ELSE Len(Texts))

EInit == embedding = "none" /\ vectors = <<>> /\ attempt = 0

EmbedBegin ==
    /\ at = "drafted" /\ embedding = "none"
    /\ embedding' = IF Texts = <<>> THEN "done" ELSE "trying"
    /\ UNCHANGED <<cvars, vectors, attempt>>

EmbedBatch ==
    /\ embedding = "trying"
    /\ vectors' = vectors \o Batch
    /\ attempt' = 0
    /\ embedding' = IF Len(vectors') = Len(Texts) THEN "done" ELSE "trying"
    /\ UNCHANGED cvars

TransientError ==
    /\ embedding = "trying"
    /\ attempt' = attempt + 1
    /\ embedding' = IF attempt' > MaxRetries THEN "raised" ELSE "trying"
    /\ UNCHANGED <<cvars, vectors>>

OtherError ==
    /\ embedding = "trying"
    /\ embedding' = "raised"
    /\ UNCHANGED <<cvars, vectors, attempt>>

ENext == EmbedBegin \/ EmbedBatch \/ TransientError \/ OtherError

Document == (CNext /\ UNCHANGED evars) \/ ENext
DocumentSpec == CInit /\ EInit /\ [][Document]_<<cvars, evars>>

-----------------------------------------------------------------------------
(* Properties *)

LinesOf(content) == UNION {Range(content[s]) : s \in DOMAIN content}

\* What is indexed is the document: every line that is no repeated header is
\* in a chunk, a chunk says nothing its pages do not say, only the last of its
\* segments goes beyond the target, and each chunk has the vector of its own
\* text, whatever was retried.
TextIsIndexed ==
    /\ WindowsCover
    /\ embedding = "done" =>
        /\ \A p \in DOMAIN pages : \A line \in Range(Cleaned(pages)[p]) \ {Blank} :
             \E c \in DOMAIN Chunks : line \in LinesOf(Chunks[c].content)
        /\ \A c \in DOMAIN Chunks :
             LinesOf(Chunks[c].content) \subseteq
                UNION {Range(pages[p]) : p \in Chunks[c].page_start .. Chunks[c].page_end}
        /\ \A w \in DOMAIN windows :
             Total([s \in 1 .. windows[w].last - windows[w].first |-> Tokens(windows[w].first + s - 1)])
               < TargetTokens
        /\ vectors = Texts
=============================================================================
