--------------------------- MODULE MCComputations ---------------------------
(* Finite instances, for TLC, of the parts that compute: a behaviour takes up *)
(* one of them, the others keep their initial state.                         *)
EXTENDS Embeddings, RateLimiter, Answers, Metrics, TLC

VARIABLE topic

vars == <<cvars, evars, rvars, qvars, avars, mvars, topic>>

PageTexts == {<<>>, <<"SPI">>, <<"header", Blank, "a">>, <<"header", "b">>,
              <<"SPI", Blank, "a", "b", Blank, "long">>, <<"a", Blank, "a">>}
MCDocuments == SeqOf(PageTexts, 4)
MCWeight == [line \in {"SPI", "header", "a", "b", "long"} |->
               CASE line = "long" -> 5 [] line = "b" -> 2 [] OTHER -> 1]

Init ==
    /\ topic \in {"document", "logins", "question", "case"}
    /\ CInit /\ (topic # "document" => pages = <<>>)
    /\ QInit /\ (topic # "question" => mode = "lexical" /\ topK = 1 /\ ~reranks)
    /\ MInit /\ (topic # "case" => ranking = <<>> /\ judgments = <<>>)
    /\ EInit /\ RInit /\ AInit

Logins == RNext
Question == ANext
Case == ScoreCase

Next ==
    \/ topic = "document" /\ Document /\ UNCHANGED <<rvars, qvars, avars, mvars, topic>>
    \/ topic = "logins" /\ Logins /\ UNCHANGED <<cvars, evars, qvars, avars, mvars, topic>>
    \/ topic = "question" /\ Question /\ UNCHANGED <<cvars, evars, rvars, mvars, topic>>
    \/ topic = "case" /\ Case /\ UNCHANGED <<cvars, evars, rvars, qvars, avars, topic>>

Spec == Init /\ [][Next]_vars
=============================================================================
