----------------------------- MODULE ChatProofs -----------------------------
(***************************************************************************)
(* Proofs about Chat, for any sets of turns and chunks and any quota: the  *)
(* type invariant, the evidence rows of kept answers, and the daily limit. *)
(***************************************************************************)
EXTENDS Chat, FiniteSetTheorems, TLAPS

LEMMA TypesPreserved ==
    ASSUME TypeOK, [Next]_vars
    PROVE  TypeOK'
<1> USE QuotaAssumption, DaysAssumption
<1> DEFINE Record == [pc : Serving \cup {"none", "kept"}, day : 0 .. MaxDays,
                      evidence : SUBSET Chunks, rows : SUBSET Chunks]
<1>1. ASSUME NEW m \in Turns, NEW t \in Record, Set(m, t), UNCHANGED <<today, corpus>>
      PROVE  TypeOK'
  BY <1>1 DEF TypeOK, Set, corpus
<1>2. Unasked \in Record
  BY DEF Unasked
<1>3. \A m \in Turns : turn[m] \in Record
  BY DEF TypeOK
<1>4. CASE \E m \in Turns : Begin(m)
  <2>1. PICK m \in Turns : Begin(m)
    BY <1>4
  <2>2. [Unasked EXCEPT !.pc = "asked", !.day = today] \in Record
    BY <1>2 DEF TypeOK, Unasked, Serving, Unchecked
  <2> QED BY <2>1, <2>2, <1>1 DEF Begin
<1>5. CASE \E m \in Turns : CheckLimit(m) \/ CheckCorpus(m) \/ Fail(m) \/ DeadlockAbortsTurn(m)
  <2>1. PICK m \in Turns : CheckLimit(m) \/ CheckCorpus(m) \/ Fail(m) \/ DeadlockAbortsTurn(m)
    BY <1>5
  <2>2. /\ [turn[m] EXCEPT !.pc = "admitted"] \in Record
        /\ [turn[m] EXCEPT !.pc = "searching"] \in Record
    BY <1>3 DEF Serving, Admitted
  <2> QED BY <2>1, <2>2, <1>1, <1>2
          DEF CheckLimit, CheckCorpus, Fail, DeadlockAbortsTurn, Drop
<1>6. CASE \E m \in Turns : Retrieve(m)
  <2>1. PICK m \in Turns, found \in SUBSET Chunks :
          /\ Set(m, [turn[m] EXCEPT !.pc = "storing",
                       !.evidence = IF indexed THEN found \cap live ELSE {}])
          /\ UNCHANGED <<today, corpus>>
    BY <1>6 DEF Retrieve
  <2>2. [turn[m] EXCEPT !.pc = "storing",
           !.evidence = IF indexed THEN found \cap live ELSE {}] \in Record
    BY <1>3 DEF Serving, Admitted
  <2> QED BY <2>1, <2>2, <1>1
<1>7. CASE \E m \in Turns : StoreRow(m)
  <2>1. PICK m \in Turns, k \in Chunks :
          /\ IF k \in live THEN Set(m, [turn[m] EXCEPT !.rows = turn[m].rows \cup {k}])
                           ELSE Drop(m)
          /\ UNCHANGED <<today, corpus>>
    BY <1>7, <1>3 DEF StoreRow
  <2>2. [turn[m] EXCEPT !.rows = turn[m].rows \cup {k}] \in Record
    BY <1>3
  <2> QED BY <2>1, <2>2, <1>1, <1>2 DEF Drop
<1>8. CASE \E m \in Turns : Commit(m)
  <2>1. PICK m \in Turns : Commit(m)
    BY <1>8
  <2>2. [turn[m] EXCEPT !.pc = "kept"] \in Record
    BY <1>3
  <2> QED BY <2>1, <2>2, <1>1 DEF Commit
<1>9. CASE Replace
  <2>1. \A m \in Turns : [turn[m] EXCEPT !.rows = turn[m].rows \ locked] \in Record
    BY <1>3
  <2>2. turn' \in [Turns -> Record]
    BY <1>9, <1>3, <2>1 DEF Replace, NewChunks
  <2> QED BY <1>9, <2>2 DEF Replace, NewChunks, TypeOK
<1>10. CASE Reindex \/ Abort \/ UNCHANGED vars
  BY <1>10 DEF Reindex, Abort, vars, TypeOK
<1>11. CASE Midnight
  BY <1>11 DEF Midnight, corpus, TypeOK
<1>12. CASE \E k \in Chunks : LockChunk(k)
  BY <1>12 DEF LockChunk, TypeOK
<1> QED BY <1>4, <1>5, <1>6, <1>7, <1>8, <1>9, <1>10, <1>11, <1>12 DEF Next, Serve, Ingest

\* Type correctness of Chat.
THEOREM ChatTypes == Spec => []TypeOK
<1>1. Init => TypeOK
  BY DaysAssumption DEF Init, TypeOK, Unasked
<1> QED BY <1>1, TypesPreserved, PTL DEF Spec

-----------------------------------------------------------------------------
(* Evidence rows *)

\* What a request holds before its commit: rows of evidence it has retrieved,
\* on chunks the ingestion has not deleted and, for the lock, cannot delete.
EvidenceInv ==
    \A m \in Turns :
        /\ turn[m].evidence \subseteq born
        /\ turn[m].pc # "kept" =>
              turn[m].rows \subseteq turn[m].evidence \cap (live \ locked)
        /\ turn[m].pc = "kept" => turn[m].rows = turn[m].evidence \cap live
        /\ turn[m].pc \notin {"storing", "kept"} => turn[m].evidence = {}

LEMMA EvidencePreserved ==
    ASSUME TypeOK, EvidenceInv, [Next]_vars
    PROVE  EvidenceInv'
<1> DEFINE Good(t) == /\ t.evidence \subseteq born
                      /\ t.pc # "kept" => t.rows \subseteq t.evidence \cap (live \ locked)
                      /\ t.pc = "kept" => t.rows = t.evidence \cap live
                      /\ t.pc \notin {"storing", "kept"} => t.evidence = {}
<1>1. \A m \in Turns : Good(turn[m])
  BY DEF EvidenceInv
<1>2. ASSUME NEW m \in Turns, NEW t, Good(t), Set(m, t), UNCHANGED <<today, corpus>>
      PROVE  EvidenceInv'
  <2>1. \A x \in Turns : turn'[x] = IF x = m THEN t ELSE turn[x]
    BY <1>2 DEF Set, TypeOK
  <2> QED BY <2>1, <1>1, <1>2 DEF EvidenceInv, corpus
<1>3. Good(Unasked)
  BY DEF Unasked
<1>4. ASSUME NEW m \in Turns, Begin(m)
      PROVE  EvidenceInv'
  <2>1. Good([Unasked EXCEPT !.pc = "asked", !.day = today])
    BY DEF Unasked
  <2> QED BY <2>1, <1>2, <1>4 DEF Begin
<1>5. ASSUME NEW m \in Turns,
             CheckLimit(m) \/ CheckCorpus(m) \/ Fail(m) \/ DeadlockAbortsTurn(m)
      PROVE  EvidenceInv'
  <2>1. /\ turn[m].pc = "asked" => Good([turn[m] EXCEPT !.pc = "admitted"])
        /\ turn[m].pc = "admitted" => Good([turn[m] EXCEPT !.pc = "searching"])
    BY <1>1 DEF TypeOK
  <2> QED BY <2>1, <1>2, <1>3, <1>5 DEF CheckLimit, CheckCorpus, Fail, DeadlockAbortsTurn, Drop
<1>6. ASSUME NEW m \in Turns, Retrieve(m)
      PROVE  EvidenceInv'
  <2>1. PICK found \in SUBSET Chunks :
          Set(m, [turn[m] EXCEPT !.pc = "storing",
                    !.evidence = IF indexed THEN found \cap live ELSE {}])
    BY <1>6 DEF Retrieve
  <2>2. turn[m].evidence = {} /\ turn[m].rows = {}
    BY <1>1, <1>6 DEF Retrieve
  <2>3. Good([turn[m] EXCEPT !.pc = "storing",
                !.evidence = IF indexed THEN found \cap live ELSE {}])
    BY <2>2 DEF TypeOK
  <2> QED BY <2>1, <2>3, <1>2, <1>6 DEF Retrieve
<1>7. ASSUME NEW m \in Turns, StoreRow(m)
      PROVE  EvidenceInv'
  <2>1. PICK k \in (turn[m].evidence \ turn[m].rows) \ locked :
          IF k \in live THEN Set(m, [turn[m] EXCEPT !.rows = turn[m].rows \cup {k}])
                        ELSE Drop(m)
    BY <1>7 DEF StoreRow
  <2>2. k \in live => Good([turn[m] EXCEPT !.rows = turn[m].rows \cup {k}])
    BY <1>1, <1>7 DEF TypeOK, StoreRow
  <2> QED BY <2>1, <2>2, <1>2, <1>3, <1>7 DEF StoreRow, Drop
<1>8. ASSUME NEW m \in Turns, Commit(m)
      PROVE  EvidenceInv'
  <2>1. Good([turn[m] EXCEPT !.pc = "kept"])
    BY <1>1, <1>8 DEF TypeOK, Commit
  <2> QED BY <2>1, <1>2, <1>8 DEF Commit
<1>9. CASE Replace
  <2>1. PICK new \in SUBSET (Chunks \ born) : live' = new /\ born' = born \cup new
    BY <1>9 DEF Replace, NewChunks
  <2>2. ASSUME NEW m \in Turns
        PROVE  /\ turn'[m].evidence = turn[m].evidence /\ turn'[m].pc = turn[m].pc
               /\ turn'[m].rows = IF turn[m].pc = "kept" THEN turn[m].rows \ locked
                                                         ELSE turn[m].rows
    BY <1>9 DEF Replace, NewChunks, Kept, TypeOK
  <2>3. locked = live /\ locked' = {}
    BY <1>9 DEF Replace
  <2>4. ASSUME NEW m \in Turns
        PROVE  turn[m].evidence \cap new = {} /\ turn'[m].rows = {}
    BY <1>1, <2>2, <2>3 DEF TypeOK
  <2> QED BY <1>1, <2>1, <2>2, <2>3, <2>4 DEF EvidenceInv
<1>10. ASSUME NEW k \in Chunks, LockChunk(k)
       PROVE  EvidenceInv'
  <2>1. \A m \in Turns : turn[m].pc \in {"none", "kept"} \/ k \notin turn[m].rows
    BY <1>10 DEF LockChunk, Shared, Served, TypeOK
  <2>2. \A m \in Turns : turn[m].pc = "none" => turn[m].rows = {}
    BY <1>1
  <2> QED BY <1>1, <1>10, <2>1, <2>2 DEF LockChunk, EvidenceInv, TypeOK
<1>11. CASE Reindex \/ Abort \/ Midnight \/ UNCHANGED vars
  BY <1>1, <1>11 DEF Reindex, Abort, Midnight, vars, corpus, EvidenceInv
<1> QED BY <1>4, <1>5, <1>6, <1>7, <1>8, <1>9, <1>10, <1>11 DEF Next, Serve, Ingest

\* A kept answer is explained by exactly the candidates whose chunks exist.
THEOREM TracesAreWhole == Spec => []TraceIsWhole
<1>1. Init => EvidenceInv
  BY DEF Init, EvidenceInv, Unasked
<1>2. EvidenceInv => TraceIsWhole
  BY DEF EvidenceInv, TraceIsWhole, Kept
<1> QED BY <1>1, <1>2, ChatTypes, EvidencePreserved, PTL DEF Spec

-----------------------------------------------------------------------------
(* The daily limit *)

\* Turns dated d that have passed the check of the limit; all turns dated d.
Charged(d) == {m \in Turns : turn[m].day = d /\ turn[m].pc \in Admitted \cup {"kept"}}
Held(d) == {m \in Turns : turn[m].day = d /\ turn[m].pc \in Serving \cup {"kept"}}

\* A day that lasts is charged what was counted below the limit and what was
\* under way beside it; at its end those that have not been checked join them.
QuotaInv ==
    /\ \A m \in Turns : turn[m].day <= today
    /\ Cardinality(Served) <= MaxConcurrent
    /\ Cardinality(Charged(today)) <= DailyLimit + MaxConcurrent - 1
    /\ \A d \in Days : d < today =>
           Cardinality(Held(d)) <= DailyLimit + MaxConcurrent - 1 + MaxConcurrent

\* Sets of turns are finite, and no larger than the sets that include them.
LEMMA TurnSets ==
    ASSUME NEW S \in SUBSET Turns, NEW T \in SUBSET S
    PROVE  /\ IsFiniteSet(S) /\ IsFiniteSet(T)
           /\ Cardinality(S) \in Nat /\ Cardinality(T) \in Nat
           /\ Cardinality(T) <= Cardinality(S)
<1>1. IsFiniteSet(S)
  BY TurnsAssumption, FS_Subset
<1>2. IsFiniteSet(T) /\ Cardinality(T) <= Cardinality(S)
  BY <1>1, FS_Subset
<1> QED BY <1>1, <1>2, FS_CardinalityType

\* A union is no larger than its two parts together.
LEMMA TurnUnion ==
    ASSUME NEW S \in SUBSET Turns, NEW T \in SUBSET Turns, NEW U \in SUBSET (S \cup T)
    PROVE  Cardinality(U) <= Cardinality(S) + Cardinality(T)
<1>1. IsFiniteSet(S) /\ IsFiniteSet(T)
  BY TurnSets
<1>2. /\ IsFiniteSet(S \cup T)
      /\ Cardinality(S \cup T) = Cardinality(S) + Cardinality(T) - Cardinality(S \cap T)
  BY <1>1, FS_Union
<1>3. Cardinality(S) \in Nat /\ Cardinality(T) \in Nat /\ Cardinality(S \cap T) \in Nat
  BY TurnSets
<1>4. Cardinality(U) <= Cardinality(S \cup T)
  BY TurnSets
<1>5. Cardinality(U) \in Nat /\ Cardinality(S \cup T) \in Nat
  BY TurnSets
<1> QED BY <1>2, <1>3, <1>4, <1>5

\* A step that lets no turn into a later state than it was in keeps the bounds.
LEMMA QuotaShrinks ==
    ASSUME TypeOK, QuotaInv, today' = today,
           \A m \in Turns :
             /\ turn'[m].day <= today
             /\ turn'[m].pc \in Serving => turn[m].pc \in Serving
             /\ turn'[m].pc \in Serving \cup {"kept"} =>
                  turn'[m].day = turn[m].day /\ turn[m].pc \in Serving \cup {"kept"}
             /\ turn'[m].pc \in Admitted \cup {"kept"} =>
                  turn[m].pc \in Admitted \cup {"kept"}
    PROVE  QuotaInv'
<1>1. Served' \subseteq Served /\ Served \subseteq Turns
  BY DEF Served, Serving, Unchecked, Admitted
<1>2. \A d \in Days \cup {today} :
        /\ Charged(d)' \subseteq Charged(d) /\ Charged(d) \subseteq Turns
        /\ Held(d)' \subseteq Held(d) /\ Held(d) \subseteq Turns
  BY DEF Charged, Held, Serving, Unchecked, Admitted
<1>4. Cardinality(Served') <= MaxConcurrent
  BY <1>1, TurnSets, QuotaAssumption DEF QuotaInv
<1>5. Cardinality(Charged(today)') <= DailyLimit + MaxConcurrent - 1
  BY <1>2, TurnSets, QuotaAssumption DEF QuotaInv
<1>6. ASSUME NEW d \in Days, d < today
      PROVE  Cardinality(Held(d)') <= DailyLimit + MaxConcurrent - 1 + MaxConcurrent
  BY <1>2, <1>6, TurnSets, QuotaAssumption DEF QuotaInv
<1>7. \A m \in Turns : turn'[m].day <= today'
  OBVIOUS
<1> QED BY <1>4, <1>5, <1>6, <1>7 DEF QuotaInv

LEMMA QuotaPreserved ==
    ASSUME TypeOK, QuotaInv, [Next]_vars
    PROVE  QuotaInv'
<1> USE QuotaAssumption, DaysAssumption
<1>1. ASSUME NEW m \in Turns, NEW t, Set(m, t)
      PROVE  \A x \in Turns : turn'[x] = IF x = m THEN t ELSE turn[x]
  BY <1>1 DEF Set, TypeOK
<1>2. ASSUME NEW m \in Turns, Drop(m), today' = today
      PROVE  QuotaInv'
  <2>1. \A x \in Turns : turn'[x] = IF x = m THEN Unasked ELSE turn[x]
    BY <1>2, <1>1 DEF Drop
  <2> QED BY <2>1, <1>2, QuotaShrinks
          DEF Unasked, QuotaInv, Serving, Unchecked, Admitted, TypeOK
<1>3. ASSUME NEW m \in Turns, Begin(m)
      PROVE  QuotaInv'
  <2>1. \A x \in Turns : turn'[x] = IF x = m THEN [Unasked EXCEPT !.pc = "asked", !.day = today]
                                           ELSE turn[x]
    BY <1>3, <1>1 DEF Begin
  <2>2. /\ today' = today
        /\ turn[m].pc = "none"
        /\ Cardinality(Served) < MaxConcurrent
    BY <1>3 DEF Begin, corpus, Unasked
  <2>3. /\ turn'[m].pc = "asked" /\ turn'[m].day = today
        /\ \A x \in Turns \ {m} : turn'[x] = turn[x]
    BY <2>1 DEF Unasked
  <2>4. Served' \subseteq Served \cup {m}
    BY <2>3 DEF Served
  <2>5. Cardinality(Served') <= MaxConcurrent
    <3>1. Served \subseteq Turns /\ {m} \subseteq Turns
      BY DEF Served
    <3>2. Cardinality({m}) = 1
      BY FS_Singleton
    <3>3. Cardinality(Served') <= Cardinality(Served) + 1
      BY <2>4, <3>1, <3>2, TurnUnion
    <3>4. Cardinality(Served) \in Nat /\ Cardinality(Served') \in Nat
      BY <2>4, <3>1, TurnSets
    <3> QED BY <2>2, <3>3, <3>4
  <2>6. Cardinality(Charged(today)') <= DailyLimit + MaxConcurrent - 1
    <3>1. Charged(today)' \subseteq Charged(today) /\ Charged(today) \subseteq Turns
      BY <2>2, <2>3 DEF Charged, Admitted
    <3> QED BY <3>1, TurnSets DEF QuotaInv
  <2>7. ASSUME NEW d \in Days, d < today
        PROVE  Cardinality(Held(d)') <= DailyLimit + MaxConcurrent - 1 + MaxConcurrent
    <3>1. Held(d)' \subseteq Held(d) /\ Held(d) \subseteq Turns
      BY <2>2, <2>3, <2>7 DEF Held, TypeOK
    <3> QED BY <3>1, <2>7, TurnSets DEF QuotaInv
  <2> QED BY <2>2, <2>3, <2>5, <2>6, <2>7 DEF QuotaInv, TypeOK
<1>4. ASSUME NEW m \in Turns, CheckLimit(m)
      PROVE  QuotaInv'
  <2>1. CASE Drop(m)
    BY <2>1, <1>2, <1>4 DEF CheckLimit
  <2>2. CASE /\ ~(Cardinality(KeptSince(today)) >= DailyLimit)
             /\ Set(m, [turn[m] EXCEPT !.pc = "admitted"])
    <3>1. \A x \in Turns : turn'[x] = IF x = m THEN [turn[m] EXCEPT !.pc = "admitted"] ELSE turn[x]
      BY <2>2, <1>1
    <3>2. /\ turn'[m].pc = "admitted" /\ turn'[m].day = turn[m].day
          /\ \A x \in Turns \ {m} : turn'[x] = turn[x]
      BY <3>1 DEF TypeOK
    <3>3. turn[m].pc = "asked" /\ today' = today
      BY <1>4 DEF CheckLimit
    <3>4. Served' \subseteq Served /\ Served \subseteq Turns
      BY <3>2, <3>3 DEF Served, Serving, Unchecked
    <3>5. Cardinality(Served') <= MaxConcurrent
      BY <3>4, TurnSets DEF QuotaInv
    <3>6. Cardinality(Charged(today)') <= DailyLimit + MaxConcurrent - 1
      <4>1. Charged(today)' \subseteq KeptSince(today) \cup Served
        BY <3>2, <3>3 DEF Charged, KeptSince, Kept, Served, Serving, Unchecked, TypeOK
      <4>2. KeptSince(today) \subseteq Turns
        BY DEF KeptSince, Kept
      <4>3. Cardinality(Charged(today)') <= Cardinality(KeptSince(today)) + Cardinality(Served)
        BY <4>1, <4>2, <3>4, TurnUnion
      <4>4. /\ Cardinality(KeptSince(today)) \in Nat /\ Cardinality(Served) \in Nat
            /\ Cardinality(Charged(today)') \in Nat
        <5>1. Charged(today)' \subseteq Turns
          BY <4>1, <4>2, <3>4
        <5> QED BY <5>1, <4>2, <3>4, TurnSets
      <4> QED BY <4>3, <4>4, <2>2 DEF QuotaInv
    <3>7. ASSUME NEW d \in Days, d < today
          PROVE  Cardinality(Held(d)') <= DailyLimit + MaxConcurrent - 1 + MaxConcurrent
      <4>1. Held(d)' \subseteq Held(d) /\ Held(d) \subseteq Turns
        BY <3>2, <3>3 DEF Held, Serving, Unchecked
      <4> QED BY <4>1, <3>7, TurnSets DEF QuotaInv
    <3> QED BY <3>2, <3>3, <3>5, <3>6, <3>7 DEF QuotaInv
  <2> QED BY <2>1, <2>2, <1>4 DEF CheckLimit
<1>5. ASSUME NEW m \in Turns, NEW t, Set(m, t), today' = today,
             t.day = turn[m].day, t.pc \in {"searching", "storing", "kept"},
             turn[m].pc \in Admitted
      PROVE  QuotaInv'
  <2>1. \A x \in Turns : turn'[x] = IF x = m THEN t ELSE turn[x]
    BY <1>5, <1>1
  <2> QED BY <2>1, <1>5, QuotaShrinks DEF QuotaInv, Serving, Admitted
<1>6. ASSUME NEW m \in Turns, CheckCorpus(m) \/ Retrieve(m) \/ StoreRow(m) \/ Commit(m)
      PROVE  QuotaInv'
  <2>1. PICK t : /\ Set(m, t) \/ Drop(m)
                 /\ t.day = turn[m].day /\ t.pc \in {"searching", "storing", "kept"}
                 /\ today' = today /\ turn[m].pc \in Admitted
    <3>1. CASE CheckCorpus(m)
      <4> DEFINE u == [turn[m] EXCEPT !.pc = "searching"]
      <4>1. u.day = turn[m].day /\ u.pc = "searching"
        BY DEF TypeOK
      <4> QED BY <4>1, <3>1 DEF CheckCorpus, Admitted
    <3>2. CASE Retrieve(m)
      <4>1. PICK found \in SUBSET Chunks :
              Set(m, [turn[m] EXCEPT !.pc = "storing",
                        !.evidence = IF indexed THEN found \cap live ELSE {}])
        BY <3>2 DEF Retrieve
      <4> DEFINE u == [turn[m] EXCEPT !.pc = "storing",
                         !.evidence = IF indexed THEN found \cap live ELSE {}]
      <4>2. u.day = turn[m].day /\ u.pc = "storing"
        BY DEF TypeOK
      <4> QED BY <4>1, <4>2, <3>2 DEF Retrieve, Admitted
    <3>3. CASE StoreRow(m)
      <4>1. PICK k \in turn[m].evidence :
              \/ Set(m, [turn[m] EXCEPT !.rows = turn[m].rows \cup {k}]) \/ Drop(m)
        BY <3>3 DEF StoreRow
      <4> DEFINE u == [turn[m] EXCEPT !.rows = turn[m].rows \cup {k}]
      <4>2. u.day = turn[m].day /\ u.pc = "storing"
        BY <3>3 DEF TypeOK, StoreRow
      <4> QED BY <4>1, <4>2, <3>3 DEF StoreRow, Admitted
    <3>4. CASE Commit(m)
      <4> DEFINE u == [turn[m] EXCEPT !.pc = "kept"]
      <4>1. u.day = turn[m].day /\ u.pc = "kept"
        BY DEF TypeOK
      <4> QED BY <4>1, <3>4 DEF Commit, Admitted
    <3> QED BY <3>1, <3>2, <3>3, <3>4, <1>6
  <2> QED BY <2>1, <1>2, <1>5
<1>7. ASSUME NEW m \in Turns, Fail(m) \/ DeadlockAbortsTurn(m)
      PROVE  QuotaInv'
  BY <1>2, <1>7 DEF Fail, DeadlockAbortsTurn
<1>8. CASE Replace
  <2>1. ASSUME NEW x \in Turns
        PROVE  turn'[x].day = turn[x].day /\ turn'[x].pc = turn[x].pc
    BY <1>8 DEF Replace, NewChunks, TypeOK
  <2> QED BY <2>1, <1>8, QuotaShrinks DEF Replace, NewChunks, QuotaInv
<1>9. CASE Reindex \/ Abort \/ UNCHANGED vars \/ \E k \in Chunks : LockChunk(k)
  <2>1. turn' = turn /\ today' = today
    BY <1>9 DEF Reindex, Abort, LockChunk, vars
  <2> QED BY <2>1, QuotaShrinks DEF QuotaInv
<1>10. CASE Midnight
  <2>1. turn' = turn /\ today' = today + 1
    BY <1>10 DEF Midnight
  <2>2. Served' = Served /\ Served \subseteq Turns
    BY <2>1 DEF Served
  <2>3. Charged(today') = {} /\ Charged(today)' = {}
    BY <2>1 DEF Charged, QuotaInv, TypeOK
  <2>4. Cardinality({}) = 0
    BY FS_EmptySet
  <2>5. ASSUME NEW d \in Days, d < today'
        PROVE  Cardinality(Held(d)') <= DailyLimit + MaxConcurrent - 1 + MaxConcurrent
    <3>1. Held(d)' = Held(d)
      BY <2>1 DEF Held
    <3>2. CASE d < today
      BY <3>1, <3>2 DEF QuotaInv
    <3>3. CASE d = today
      <4>1. Held(d) \subseteq Charged(d) \cup Served /\ Charged(d) \subseteq Turns
        BY DEF Held, Charged, Served, Serving
      <4>2. Cardinality(Held(d)) <= Cardinality(Charged(d)) + Cardinality(Served)
        BY <4>1, <2>2, TurnUnion
      <4>3. Cardinality(Charged(d)) \in Nat /\ Cardinality(Served) \in Nat
        BY <4>1, <2>2, TurnSets
      <4>4. Cardinality(Held(d)) \in Nat
        BY TurnSets DEF Held
      <4> QED BY <3>1, <3>3, <4>2, <4>3, <4>4 DEF QuotaInv
    <3> QED BY <2>1, <2>5, <3>2, <3>3 DEF TypeOK, Days
  <2>6. \A m \in Turns : turn'[m].day <= today'
    BY <2>1 DEF QuotaInv, TypeOK
  <2> QED BY <2>2, <2>3, <2>4, <2>5, <2>6 DEF QuotaInv
<1> QED BY <1>3, <1>4, <1>6, <1>7, <1>8, <1>9, <1>10 DEF Next, Serve, Ingest

LEMMA QuotaInitially == Init => QuotaInv
<1> SUFFICES ASSUME Init PROVE QuotaInv
  OBVIOUS
<1> USE QuotaAssumption
<1>1. \A m \in Turns : turn[m].pc = "none" /\ turn[m].day = 0
  BY DEF Init, Unasked
<1>2. Served = {} /\ Charged(today) = {}
  BY <1>1 DEF Served, Charged, Serving, Unchecked, Admitted
<1>3. today = 1
  BY DEF Init
<1>4. Cardinality({}) = 0
  BY FS_EmptySet
<1> QED BY <1>1, <1>2, <1>3, <1>4 DEF QuotaInv, Days

\* No day is charged more than the limit and what overlaps, for any limit, any
\* number of concurrent requests and any number of days.
THEOREM QuotaHolds == Spec => []DailyLimitHolds
<1>1. ASSUME TypeOK, QuotaInv PROVE DailyLimitHolds
  <2> SUFFICES ASSUME NEW d \in Days
               PROVE  Cardinality(Dated(d)) <= DailyLimit + (MaxConcurrent - 1)
                                  + (IF d < today THEN MaxConcurrent ELSE 0)
    BY DEF DailyLimitHolds
  <2> USE QuotaAssumption
  <2>1. /\ Dated(d) \subseteq Held(d) /\ Held(d) \subseteq Turns
        /\ Dated(d) \subseteq Charged(d) /\ Charged(d) \subseteq Turns
    BY DEF Dated, Held, Charged, Kept
  <2>2. /\ Cardinality(Dated(d)) <= Cardinality(Held(d))
        /\ Cardinality(Dated(d)) <= Cardinality(Charged(d))
        /\ Cardinality(Dated(d)) \in Nat /\ Cardinality(Held(d)) \in Nat
        /\ Cardinality(Charged(d)) \in Nat
    BY <2>1, TurnSets
  <2>3. CASE d < today
    BY <1>1, <2>2, <2>3 DEF QuotaInv
  <2>4. CASE d = today
    BY <1>1, <2>2, <2>4 DEF QuotaInv, TypeOK
  <2>5. CASE d > today
    <3>1. Dated(d) = {}
      BY <2>5, <1>1 DEF Dated, Kept, QuotaInv, TypeOK, Days
    <3>2. Cardinality({}) = 0
      BY FS_EmptySet
    <3> QED BY <3>1, <3>2, <2>5, DaysAssumption DEF TypeOK, Days
  <2> QED BY <2>3, <2>4, <2>5, <1>1, DaysAssumption DEF TypeOK, Days
<1> QED BY <1>1, QuotaInitially, ChatTypes, QuotaPreserved, PTL DEF Spec
=============================================================================
