--------------------------- MODULE FeedbackProofs ---------------------------
(***************************************************************************)
(* Proofs about Feedback over Benchmark, for any sets of requests, cases   *)
(* and chunks: types, the publication of versions, the review queue, the   *)
(* trail of promotions and the evidence of the cases they file.            *)
(***************************************************************************)
EXTENDS Feedback, TLAPS

CaseRecord == [category : Categories \cup {"none"}, judged : [Chunks -> Relevance]]
ReviewRecord == [pc : {"idle", "loaded", "replaced", "filing", "filed"},
                 decision : Decisions \cup {"none"}, changes : BOOLEAN,
                 removed : [Chunks -> Relevance], given : [Chunks -> Relevance],
                 list : [Chunks -> Relevance],
                 version : 0 .. MaxVersions, case : CaseIds \cup {"none"}]

\* No judgment on a chunk that is gone.
OnLive(judged) == \A k \in Chunks \ live : judged[k] = "none"

ContentInv ==
    /\ content \in [Versions -> [CaseIds -> CaseRecord]]
    /\ \A v \in Versions, c \in CaseIds : OnLive(content[v][c].judged)

\* The record of a request, its cases typed (the other values are its own).
RequestRecord(x) ==
    [pc : {"idle", "numbering", "draft", "replacing", "importing", "publishing"},
     version : {x.version}, case : {x.case}, removed : {x.removed},
     held : SUBSET CaseIds, categories : {x.categories}, left : SUBSET CaseIds]

\* The request has loaded a version and is not done with it.
Opened == {"draft", "replacing", "importing", "publishing"}

RequestOK(x) ==
    /\ x \in RequestRecord(x)
    /\ x.pc \in Opened => x.version \in Versions

EditorsInv ==
    /\ ed = [e \in Editors |-> ed[e]]
    /\ \A e \in Editors : RequestOK(ed[e])

BenchInv ==
    /\ status \in [Versions -> {"none", "draft", "published"}]
    /\ ContentInv
    /\ live \subseteq born /\ born \subseteq Chunks
    /\ disturbed \subseteq Versions
    /\ EditorsInv

-----------------------------------------------------------------------------
(* The benchmark *)

LEMMA NothingJudged ==
    /\ Unjudged \in [Chunks -> Relevance]
    /\ OnLive(Unjudged)
    /\ NoCase \in CaseRecord
    /\ OnLive(NoCase.judged)
BY DEF Unjudged, NoCase, OnLive, CaseRecord, Relevance

LEMMA JudgmentsOnLive ==
    ASSUME NEW j \in Judgments
    PROVE  j \in [Chunks -> Relevance] /\ OnLive(j)
BY DEF Judgments, OnLive

LEMMA ContentChanges ==
    ASSUME ContentInv, NEW v, NEW cases,
           content' = [content EXCEPT ![v] = cases], live' = live,
           v \in Versions =>
             /\ cases \in [CaseIds -> CaseRecord]
             /\ \A c \in CaseIds : OnLive(cases[c].judged)
    PROVE  ContentInv'
<1>1. content' \in [Versions -> [CaseIds -> CaseRecord]]
  BY DEF ContentInv
<1>2. ASSUME NEW u \in Versions, NEW c \in CaseIds
      PROVE  OnLive(content'[u][c].judged)
  <2>1. CASE u = v
    BY <2>1, <1>1 DEF ContentInv
  <2>2. CASE u # v
    BY <2>2 DEF ContentInv
  <2> QED BY <2>1, <2>2
<1>3. \A judged : OnLive(judged) => \A k \in Chunks \ live' : judged[k] = "none"
  BY DEF OnLive
<1> QED BY <1>1, <1>2, <1>3 DEF ContentInv, OnLive

\* One case of a version is put in.
LEMMA CasePut ==
    ASSUME ContentInv, NEW v, NEW c \in CaseIds, NEW new \in CaseRecord, OnLive(new.judged),
           content' = [content EXCEPT ![v] = [content[v] EXCEPT ![c] = new]], live' = live
    PROVE  ContentInv'
<1> DEFINE cases == [content[v] EXCEPT ![c] = new]
<1>1. ASSUME v \in Versions
      PROVE  /\ cases \in [CaseIds -> CaseRecord]
             /\ \A x \in CaseIds : OnLive(cases[x].judged)
  <2>1. content[v] \in [CaseIds -> CaseRecord]
    BY <1>1 DEF ContentInv
  <2>2. \A x \in CaseIds : cases[x] = IF x = c THEN new ELSE content[v][x]
    BY <2>1
  <2>3. \A x \in CaseIds : OnLive(content[v][x].judged)
    BY <1>1 DEF ContentInv
  <2> QED BY <2>1, <2>2, <2>3
<1> HIDE DEF cases
<1>2. content' = [content EXCEPT ![v] = cases]
  BY DEF cases
<1> QED BY <1>1, <1>2, ContentChanges

LEMMA IdleTyped ==
    /\ RequestOK(Idle) /\ Idle.pc = "idle"
    /\ Idle.held = {} /\ Idle.left = {}
BY DEF Idle, RequestOK, RequestRecord, Opened

LEMMA EditorChanges ==
    ASSUME EditorsInv, NEW e \in Editors, NEW x, RequestOK(x),
           ed' = [ed EXCEPT ![e] = x]
    PROVE  EditorsInv' /\ \A f \in Editors : ed'[f] = IF f = e THEN x ELSE ed[f]
<1>1. \A f \in Editors : ed'[f] = IF f = e THEN x ELSE ed[f]
  BY DEF EditorsInv
<1>2. ed' = [f \in Editors |-> ed'[f]]
  BY DEF EditorsInv
<1>3. \A f \in Editors : RequestOK(ed'[f])
  BY <1>1 DEF EditorsInv
<1> QED BY <1>1, <1>2, <1>3 DEF EditorsInv, RequestOK, RequestRecord

\* What a commit does to the requests: its own ends, the others lose cases.
LEMMA CommitEnds ==
    ASSUME EditorsInv, NEW e \in Editors, NEW v, NEW cases, NEW gone,
           Commit(e, v, cases, gone)
    PROVE  /\ EditorsInv'
           /\ ed'[e] = Idle
           /\ \A f \in Editors \ {e} :
                /\ ed'[f].pc = ed[f].pc /\ ed'[f].version = ed[f].version
                /\ ed'[f].categories = ed[f].categories /\ ed'[f].left = ed[f].left
                /\ ed[f].version # v => ed'[f] = ed[f]
<1>1. ed' = [f \in Editors |-> IF f = e THEN Idle ELSE Bereft(ed[f], v, gone)]
  BY DEF Commit
<1>2. ASSUME NEW f \in Editors
      PROVE  /\ RequestOK(Bereft(ed[f], v, gone))
             /\ Bereft(ed[f], v, gone).pc = ed[f].pc
             /\ Bereft(ed[f], v, gone).version = ed[f].version
             /\ Bereft(ed[f], v, gone).categories = ed[f].categories
             /\ Bereft(ed[f], v, gone).left = ed[f].left
             /\ ed[f].version # v => Bereft(ed[f], v, gone) = ed[f]
  <2>1. RequestOK(ed[f])
    BY DEF EditorsInv
  <2> QED BY <2>1 DEF Bereft, RequestOK, RequestRecord
<1>3. ASSUME NEW f \in Editors
      PROVE  RequestOK(ed'[f])
  <2>1. CASE f = e
    BY <1>1, <2>1, IdleTyped
  <2>2. CASE f # e
    BY <1>1, <1>2, <2>2
  <2> QED BY <2>1, <2>2
<1>4. EditorsInv'
  BY <1>1, <1>3 DEF EditorsInv, RequestOK, RequestRecord
<1> QED BY <1>1, <1>2, <1>4

\* An edit writes the version its request has loaded, marking it if that is
\* published or being published, or only changes what the request remembers.
LEMMA EditsWrite ==
    ASSUME EditorsInv, NEW e \in Editors, Edit(e)
    PROVE  /\ ed[e].pc \in {"draft", "replacing", "importing"}
           /\ UNCHANGED <<status, live, born>>
           /\ \/ /\ UNCHANGED <<content, disturbed>>
                 /\ \E x : /\ RequestOK(x) /\ ed' = [ed EXCEPT ![e] = x]
                           /\ x.pc \in {"replacing", "importing"} /\ x.version = ed[e].version
              \/ \E cases, gone : Commit(e, ed[e].version, cases, gone)
<1> DEFINE v == ed[e].version
<1>1. RequestOK(ed[e])
  BY DEF EditorsInv
<1>2. CASE ReplaceBegin(e)
  <2>1. PICK c \in CasesOf(v) :
          ed' = [ed EXCEPT ![e].pc = "replacing", ![e].case = c, ![e].held = {c},
                           ![e].removed = content[v][c].judged]
    BY <1>2 DEF ReplaceBegin
  <2>2. PICK j : j = content[v][c].judged
    OBVIOUS
  <2> DEFINE x == [ed[e] EXCEPT !.pc = "replacing", !.case = c, !.held = {c}, !.removed = j]
  <2>3. ed' = [ed EXCEPT ![e] = x]
    BY <2>1, <2>2 DEF EditorsInv
  <2>4. RequestOK(x) /\ x.pc = "replacing" /\ x.version = v
    BY <1>1, <1>2 DEF ReplaceBegin, RequestOK, RequestRecord, Opened, CasesOf
  <2> QED BY <1>2, <2>3, <2>4 DEF ReplaceBegin
<1>3. CASE ImportBegin(e)
  <2>1. PICK found \in {{}, CasesOf(v)} :
          ed' = [ed EXCEPT ![e].pc = "importing", ![e].held = found]
    BY <1>3 DEF ImportBegin
  <2> DEFINE x == [ed[e] EXCEPT !.pc = "importing", !.held = found]
  <2>2. ed' = [ed EXCEPT ![e] = x]
    BY <2>1 DEF EditorsInv
  <2>3. found \in SUBSET CaseIds
    BY DEF CasesOf
  <2>4. RequestOK(x) /\ x.pc = "importing" /\ x.version = v
    BY <1>1, <1>3, <2>3 DEF ImportBegin, RequestOK, RequestRecord, Opened
  <2> QED BY <1>3, <2>2, <2>4 DEF ImportBegin
<1>4. ASSUME \E cases, gone : Commit(e, v, cases, gone)
      PROVE  UNCHANGED <<status, live, born>>
  BY <1>4 DEF Commit
<1>5. CASE AddCase(e)
  BY <1>4, <1>5 DEF AddCase
<1>6. CASE ImportCommit(e)
  BY <1>4, <1>6 DEF ImportCommit
<1>7. CASE UpdateFields(e)
  BY <1>4, <1>7 DEF UpdateFields
<1>8. CASE ReplaceCommit(e)
  BY <1>4, <1>8 DEF ReplaceCommit
<1>9. CASE DeleteCase(e)
  BY <1>4, <1>9 DEF DeleteCase
<1> QED BY <1>2, <1>3, <1>5, <1>6, <1>7, <1>8, <1>9 DEF Edit

\* The cases that edits commit are cases, and judge chunks that are there.
LEMMA EditsKeepContent ==
    ASSUME BenchInv, NEW e \in Editors, Edit(e)
    PROVE  ContentInv'
<1> DEFINE v == ed[e].version
<1>1. ContentInv /\ EditorsInv
  BY DEF BenchInv
<1>2. ASSUME NEW cases, NEW gone, Commit(e, v, cases, gone)
      PROVE  content' = [content EXCEPT ![v] = cases] /\ live' = live
  BY <1>2 DEF Commit
<1>3. CASE AddCase(e)
  <2>1. PICK c \in CaseIds \ CasesOf(v), new \in Case :
          Commit(e, v, [content[v] EXCEPT ![c] = new], {})
    BY <1>3 DEF AddCase
  <2>2. new \in CaseRecord /\ OnLive(new.judged)
    BY JudgmentsOnLive DEF Case, CaseRecord
  <2> QED BY <1>1, <1>2, <2>1, <2>2, CasePut
<1>4. CASE ImportCommit(e)
  <2> DEFINE kept == CasesOf(v) \ ed[e].held
  <2>0. PICK file \in SUBSET (CaseIds \ kept) : \E new \in [file -> Case] :
          Commit(e, v, [c \in CaseIds |-> IF c \in file THEN new[c]
                                          ELSE IF c \in kept THEN content[v][c]
                                          ELSE NoCase], ed[e].held)
    BY <1>4 DEF ImportCommit
  <2>1. PICK new \in [file -> Case] :
          Commit(e, v, [c \in CaseIds |-> IF c \in file THEN new[c]
                                          ELSE IF c \in kept THEN content[v][c]
                                          ELSE NoCase], ed[e].held)
    BY <2>0
  <2> DEFINE cases == [c \in CaseIds |-> IF c \in file THEN new[c]
                                         ELSE IF c \in kept THEN content[v][c]
                                         ELSE NoCase]
  <2>2. ASSUME v \in Versions
        PROVE  /\ cases \in [CaseIds -> CaseRecord]
               /\ \A x \in CaseIds : OnLive(cases[x].judged)
    <3>1. \A x \in file : new[x] \in CaseRecord /\ OnLive(new[x].judged)
      BY JudgmentsOnLive DEF Case, CaseRecord
    <3>2. \A x \in CaseIds : content[v][x] \in CaseRecord /\ OnLive(content[v][x].judged)
      BY <1>1, <2>2 DEF ContentInv
    <3>3. NoCase \in CaseRecord /\ OnLive(NoCase.judged)
      BY NothingJudged
    <3> QED BY <3>1, <3>2, <3>3
  <2> HIDE DEF cases
  <2>3. content' = [content EXCEPT ![v] = cases] /\ live' = live
    BY <1>2, <2>1 DEF cases
  <2> QED BY <1>1, <2>2, <2>3, ContentChanges
<1>5. CASE UpdateFields(e)
  <2>1. PICK c \in CasesOf(v), cat \in Categories :
          Commit(e, v, [content[v] EXCEPT ![c].category = cat], {})
    BY <1>5 DEF UpdateFields
  <2> DEFINE cases == [content[v] EXCEPT ![c].category = cat]
  <2>2. ASSUME v \in Versions
        PROVE  /\ cases \in [CaseIds -> CaseRecord]
               /\ \A x \in CaseIds : OnLive(cases[x].judged)
    <3>1. content[v] \in [CaseIds -> CaseRecord] /\ c \in CaseIds
      BY <2>2, <1>1 DEF ContentInv, CasesOf
    <3>2. cases \in [CaseIds -> CaseRecord]
      BY <3>1 DEF CaseRecord
    <3>3. \A x \in CaseIds : cases[x].judged = content[v][x].judged
      BY <3>1 DEF CaseRecord
    <3> QED BY <3>2, <3>3, <2>2, <1>1 DEF ContentInv
  <2> HIDE DEF cases
  <2>3. content' = [content EXCEPT ![v] = cases] /\ live' = live
    BY <1>2, <2>1 DEF cases
  <2> QED BY <1>1, <2>2, <2>3, ContentChanges
<1>6. CASE ReplaceBegin(e) \/ ImportBegin(e)
  <2>1. UNCHANGED <<content, live>>
    BY <1>6 DEF ReplaceBegin, ImportBegin
  <2> QED BY <1>1, <2>1 DEF ContentInv, OnLive
<1>7. CASE ReplaceCommit(e)
  <2> DEFINE c == ed[e].case
             kept == [k \in Chunks |-> IF ed[e].removed[k] # "none" THEN "none"
                                       ELSE content[v][c].judged[k]]
  <2>1. PICK cat \in Categories, j \in Judgments :
          Commit(e, v, [content[v] EXCEPT ![c] =
             [category |-> cat,
              judged |-> [k \in Chunks |-> IF j[k] # "none" THEN j[k] ELSE kept[k]]]], {})
    BY <1>7 DEF ReplaceCommit
  <2> DEFINE new == [category |-> cat,
                     judged |-> [k \in Chunks |-> IF j[k] # "none" THEN j[k] ELSE kept[k]]]
             cases == [content[v] EXCEPT ![c] = new]
  <2>2. ASSUME v \in Versions
        PROVE  /\ cases \in [CaseIds -> CaseRecord]
               /\ \A x \in CaseIds : OnLive(cases[x].judged)
    <3>1. c \in CaseIds
      BY <1>1, <1>7 DEF ReplaceCommit, EditorsInv, RequestOK, RequestRecord
    <3>2. content[v][c] \in CaseRecord /\ OnLive(content[v][c].judged)
      BY <2>2, <3>1, <1>1 DEF ContentInv
    <3>3. kept \in [Chunks -> Relevance] /\ OnLive(kept)
      BY <3>2 DEF CaseRecord, Relevance, OnLive
    <3>4. new.judged \in [Chunks -> Relevance] /\ OnLive(new.judged)
      BY <3>3, JudgmentsOnLive DEF OnLive
    <3>5. new \in CaseRecord
      BY <3>4 DEF CaseRecord
    <3> HIDE DEF new
    <3>6. content[v] \in [CaseIds -> CaseRecord]
      BY <2>2, <1>1 DEF ContentInv
    <3>7. \A x \in CaseIds : cases[x] = IF x = c THEN new ELSE content[v][x]
      BY <3>6
    <3> QED BY <3>4, <3>5, <3>6, <3>7, <2>2, <1>1 DEF ContentInv
  <2>3. content' = [content EXCEPT ![v] = cases] /\ live' = live
    BY <1>2, <2>1
  <2> HIDE DEF cases
  <2> QED BY <1>1, <2>2, <2>3, ContentChanges
<1>8. CASE DeleteCase(e)
  <2>1. PICK c \in CasesOf(v) : Commit(e, v, [content[v] EXCEPT ![c] = NoCase], {c})
    BY <1>8 DEF DeleteCase
  <2>2. c \in CaseIds /\ NoCase \in CaseRecord /\ OnLive(NoCase.judged)
    BY NothingJudged DEF CasesOf
  <2> QED BY <1>1, <1>2, <2>1, <2>2, CasePut
<1> QED BY <1>3, <1>4, <1>5, <1>6, <1>7, <1>8 DEF Edit

LEMMA EditsKeepBench ==
    ASSUME BenchInv, NEW e \in Editors, Edit(e)
    PROVE  BenchInv'
<1>1. ContentInv'
  BY EditsKeepContent
<1>2. EditorsInv' /\ UNCHANGED <<status, live, born>> /\ disturbed' \subseteq disturbed \cup {ed[e].version}
  <2>1. EditorsInv
    BY DEF BenchInv
  <2>2. CASE \E cases, gone : Commit(e, ed[e].version, cases, gone)
    <3>1. PICK cases, gone : Commit(e, ed[e].version, cases, gone)
      BY <2>2
    <3>2. EditorsInv'
      BY <2>1, <3>1, CommitEnds
    <3> QED BY <3>1, <3>2 DEF Commit, Disturb
  <2>3. CASE UNCHANGED <<content, disturbed>> /\ \E x : /\ RequestOK(x)
                                                      /\ ed' = [ed EXCEPT ![e] = x]
    BY <2>1, <2>3, EditorChanges, EditsWrite
  <2> QED BY <2>1, <2>2, <2>3, EditsWrite
<1>3. ed[e].version \in Versions
  BY EditsWrite DEF BenchInv, EditorsInv, RequestOK, Opened
<1> QED BY <1>1, <1>2, <1>3 DEF BenchInv

\* The other steps of a request: it remembers something new, or ends.
LEMMA VersionsWrite ==
    ASSUME EditorsInv, NEW e \in Editors,
           \/ ReadHighest(e) \/ InsertVersion(e) \/ Open(e) \/ Refuse(e)
           \/ PublishBegin(e) \/ PublishCommit(e)
           \/ \E c \in CaseIds : CheckCase(e, c)
    PROVE  \E x : RequestOK(x) /\ ed' = [ed EXCEPT ![e] = x]
<1>1. RequestOK(ed[e])
  BY DEF EditorsInv
<1>2. CASE ReadHighest(e)
  <2>1. PICK n : n = Highest
    OBVIOUS
  <2>2. RequestOK([Idle EXCEPT !.pc = "numbering", !.version = n])
    BY DEF Idle, RequestOK, RequestRecord, Opened
  <2> QED BY <1>2, <2>1, <2>2 DEF ReadHighest
<1>3. CASE InsertVersion(e) \/ Refuse(e) \/ PublishCommit(e)
  BY <1>3, IdleTyped DEF InsertVersion, Refuse, PublishCommit
<1>4. CASE Open(e)
  <2>1. PICK v \in Versions :
          ed' = [ed EXCEPT ![e] = [Idle EXCEPT !.pc = "draft", !.version = v]]
    BY <1>4 DEF Open
  <2>2. RequestOK([Idle EXCEPT !.pc = "draft", !.version = v])
    BY DEF Idle, RequestOK, RequestRecord
  <2> QED BY <2>1, <2>2
<1>5. CASE PublishBegin(e)
  <2>1. PICK cases, cats : /\ cases = CasesOf(ed[e].version)
                           /\ cats = [c \in CaseIds |-> content[ed[e].version][c].category]
    OBVIOUS
  <2> DEFINE x == [ed[e] EXCEPT !.pc = "publishing", !.held = cases, !.left = cases,
                                !.categories = cats]
  <2>2. ed' = [ed EXCEPT ![e] = x]
    BY <1>5, <2>1 DEF PublishBegin, EditorsInv
  <2>3. RequestOK(x)
    BY <1>1, <1>5, <2>1 DEF PublishBegin, RequestOK, RequestRecord, Opened, CasesOf
  <2> QED BY <2>2, <2>3
<1>6. CASE \E c \in CaseIds : CheckCase(e, c)
  <2>1. PICK c \in CaseIds : CheckCase(e, c)
    BY <1>6
  <2> DEFINE x == [ed[e] EXCEPT !.left = @ \ {c}]
  <2>2. ed' = [ed EXCEPT ![e] = x]
    BY <2>1 DEF CheckCase, CheckOf, EditorsInv
  <2>3. RequestOK(x)
    BY <1>1 DEF RequestOK, RequestRecord
  <2> QED BY <2>2, <2>3
<1> QED BY <1>2, <1>3, <1>4, <1>5, <1>6

LEMMA VersionsKeepBench ==
    ASSUME BenchInv, NEW e \in Editors,
           \/ ReadHighest(e) \/ InsertVersion(e) \/ Open(e) \/ Refuse(e)
           \/ PublishBegin(e) \/ PublishCommit(e)
           \/ \E c \in CaseIds : CheckCase(e, c)
    PROVE  BenchInv'
<1>1. ContentInv' /\ UNCHANGED <<live, born>>
  <2>1. UNCHANGED <<content, live, born>>
    BY DEF ReadHighest, InsertVersion, Open, Refuse, PublishBegin, CheckCase, CheckOf,
           PublishCommit
  <2> QED BY <2>1 DEF BenchInv, ContentInv, OnLive
<1>2. status' \in [Versions -> {"none", "draft", "published"}] /\ disturbed' \subseteq Versions
  BY DEF BenchInv, ReadHighest, InsertVersion, Open, Refuse, PublishBegin, CheckCase, CheckOf,
         PublishCommit
<1>3. EditorsInv'
  <2>1. PICK x : RequestOK(x) /\ ed' = [ed EXCEPT ![e] = x]
    BY VersionsWrite DEF BenchInv
  <2> QED BY <2>1, EditorChanges DEF BenchInv
<1> QED BY <1>1, <1>2, <1>3 DEF BenchInv

LEMMA ChunksKeepBench ==
    ASSUME BenchInv, NEW k \in Chunks, ChunkAdded(k) \/ ChunkRemoved(k)
    PROVE  BenchInv'
<1>1. CASE ChunkAdded(k)
  <2>1. ContentInv'
    BY <1>1 DEF BenchInv, ContentInv, OnLive, ChunkAdded
  <2> QED BY <2>1, <1>1 DEF BenchInv, EditorsInv, RequestOK, RequestRecord, ChunkAdded
<1>2. CASE ChunkRemoved(k)
  <2>1. content' = [v \in Versions |-> [c \in CaseIds |->
                      [content[v][c] EXCEPT !.judged[k] = "none"]]]
    BY <1>2 DEF ChunkRemoved
  <2>2. ASSUME NEW v \in Versions, NEW c \in CaseIds
        PROVE  /\ content'[v][c] \in CaseRecord
               /\ \A x \in Chunks \ live' : content'[v][c].judged[x] = "none"
    <3>1. content[v][c] \in CaseRecord /\ OnLive(content[v][c].judged)
      BY DEF BenchInv, ContentInv
    <3>2. content'[v][c] = [content[v][c] EXCEPT !.judged[k] = "none"]
      BY <2>1
    <3>3. live' = live \ {k}
      BY <1>2 DEF ChunkRemoved
    <3> QED BY <3>1, <3>2, <3>3 DEF CaseRecord, Relevance, OnLive
  <2>3. ContentInv'
    BY <2>1, <2>2 DEF ContentInv, OnLive
  <2>4. disturbed' \subseteq Versions
    BY <1>2 DEF BenchInv, ChunkRemoved, Disturb
  <2> QED BY <2>3, <2>4, <1>2 DEF BenchInv, EditorsInv, RequestOK, RequestRecord, ChunkRemoved
<1> QED BY <1>1, <1>2

LEMMA BenchHoldsTogether == Spec => []BenchInv
<1>1. Init => BenchInv
  <2> SUFFICES ASSUME Init
               PROVE  BenchInv
    OBVIOUS
  <2>1. ContentInv
    BY NothingJudged DEF Init, ContentInv
  <2>2. EditorsInv
    BY IdleTyped DEF Init, EditorsInv
  <2> QED BY <2>1, <2>2 DEF Init, BenchInv
<1>2. BenchInv /\ [Next]_vars => BenchInv'
  <2> SUFFICES ASSUME BenchInv, [Next]_vars
               PROVE  BenchInv'
    OBVIOUS
  <2>1. CASE UNCHANGED vars
    BY <2>1 DEF vars, BenchInv, ContentInv, EditorsInv, RequestOK, RequestRecord, OnLive
  <2> QED BY <2>1, EditsKeepBench, VersionsKeepBench, ChunksKeepBench DEF Next
<1> QED BY <1>1, <1>2, PTL DEF Spec

-----------------------------------------------------------------------------
(* Publication, with any number of requests and any reindexing *)

\* What publication e of version v has found holds as long as v is not written:
\* there are enough cases, all on its list, and those it has done with are sound.
Knows(e, v) ==
    /\ Cardinality(CasesOf(v)) >= MinCases
    /\ \A c \in CasesOf(v) :
         /\ c \in ed[e].held
         /\ ed[e].categories[c] = content[v][c].category
         /\ c \in ed[e].left \/ CaseIsSound(content[v][c])

PublicationInv ==
    /\ \A e \in Editors, v \in Versions :
         ed[e].pc = "publishing" /\ ed[e].version = v /\ v \notin disturbed => Knows(e, v)
    /\ GateUnlessDisturbed

LEMMA GateIsOfContent ==
    ASSUME NEW v, content'[v] = content[v], Gate(v)
    PROVE  Gate(v)'
BY DEF Gate, CasesOf

LEMMA KnowsStays ==
    ASSUME NEW e, NEW v, content'[v] = content[v], ed'[e] = ed[e], Knows(e, v)
    PROVE  Knows(e, v)'
BY DEF Knows, CasesOf

\* What was true of the versions that are not marked stays, if what is published
\* or being published is marked when it is written, and nothing is newly either.
LEMMA UnwrittenStays ==
    ASSUME PublicationInv, disturbed \subseteq disturbed', UNCHANGED status,
           \A v \in Versions : \/ content'[v] = content[v]
                               \/ ~Published(v) /\ ~Publishing(v)
                               \/ v \in disturbed',
           \A f \in Editors : ed'[f].pc = "publishing" =>
             /\ ed[f].pc = "publishing" /\ ed'[f].version = ed[f].version
             /\ ed[f].version \notin disturbed' => ed'[f] = ed[f]
    PROVE  PublicationInv'
<1>1. ASSUME NEW e \in Editors, NEW v \in Versions,
             ed'[e].pc = "publishing", ed'[e].version = v, v \notin disturbed'
      PROVE  Knows(e, v)'
  <2>1. ed[e].pc = "publishing" /\ ed[e].version = v /\ ed'[e] = ed[e] /\ v \notin disturbed
    BY <1>1
  <2>2. Knows(e, v)
    BY <2>1 DEF PublicationInv
  <2>3. content'[v] = content[v]
    BY <1>1, <2>1 DEF Publishing
  <2> QED BY <2>1, <2>2, <2>3, KnowsStays
<1>2. ASSUME NEW v \in Versions, Published(v)', v \notin disturbed'
      PROVE  Gate(v)'
  <2>1. Published(v) /\ v \notin disturbed
    BY <1>2 DEF Published
  <2>2. Gate(v) /\ content'[v] = content[v]
    BY <1>2, <2>1 DEF PublicationInv, GateUnlessDisturbed
  <2> QED BY <2>2, GateIsOfContent
<1> QED BY <1>1, <1>2 DEF PublicationInv, GateUnlessDisturbed

LEMMA EditsKeepPublication ==
    ASSUME BenchInv, PublicationInv, NEW e \in Editors, Edit(e)
    PROVE  PublicationInv'
<1> DEFINE u == ed[e].version
<1>1. EditorsInv /\ UNCHANGED status
  BY EditsWrite DEF BenchInv
<1>2. CASE /\ UNCHANGED <<content, disturbed>>
           /\ \E x : /\ RequestOK(x) /\ ed' = [ed EXCEPT ![e] = x]
                     /\ x.pc \in {"replacing", "importing"}
  <2>1. PICK x : RequestOK(x) /\ ed' = [ed EXCEPT ![e] = x] /\ x.pc \in {"replacing", "importing"}
    BY <1>2
  <2>2. \A f \in Editors : ed'[f] = IF f = e THEN x ELSE ed[f]
    BY <1>1, <2>1, EditorChanges
  <2> QED BY <1>1, <1>2, <2>1, <2>2, UnwrittenStays
<1>3. CASE \E cases, gone : Commit(e, u, cases, gone)
  <2>1. PICK cases, gone : Commit(e, u, cases, gone)
    BY <1>3
  <2>2. /\ ed'[e].pc = "idle"
        /\ \A f \in Editors \ {e} :
             /\ ed'[f].pc = ed[f].pc /\ ed'[f].version = ed[f].version
             /\ ed[f].version # u => ed'[f] = ed[f]
    BY <1>1, <2>1, CommitEnds, IdleTyped
  <2>3. disturbed' = disturbed \cup {w \in {u} : Published(w) \/ Publishing(w)}
    BY <2>1 DEF Commit, Disturb
  <2>4. \A v \in Versions : v # u => content'[v] = content[v]
    BY <2>1 DEF Commit, BenchInv, ContentInv
  <2>5. \A f \in Editors : ed'[f].pc = "publishing" /\ ed[f].version = u => u \in disturbed'
    <3>1. \A f \in Editors : ed[f].pc = "publishing" /\ ed[f].version = u => Publishing(u)
      BY DEF Publishing
    <3> QED BY <2>2, <2>3, <3>1
  <2> HIDE DEF u
  <2> QED BY <1>1, <2>2, <2>3, <2>4, <2>5, UnwrittenStays
<1> QED BY <1>1, <1>2, <1>3, EditsWrite

LEMMA ChunksKeepPublication ==
    ASSUME BenchInv, PublicationInv, NEW k \in Chunks, ChunkAdded(k) \/ ChunkRemoved(k)
    PROVE  PublicationInv'
<1>1. CASE ChunkAdded(k)
  BY <1>1, UnwrittenStays DEF ChunkAdded
<1>2. CASE ChunkRemoved(k)
  <2>1. UNCHANGED <<status, ed>> /\ disturbed \subseteq disturbed'
    BY <1>2 DEF ChunkRemoved, Disturb
  <2>2. ASSUME NEW v \in Versions, Published(v) \/ Publishing(v), v \notin disturbed'
        PROVE  content'[v] = content[v]
    <3>1. \A c \in CaseIds : content[v][c].judged[k] = "none"
      BY <1>2, <2>2 DEF ChunkRemoved, Disturb
    <3>2. content'[v] = [c \in CaseIds |-> [content[v][c] EXCEPT !.judged[k] = "none"]]
      BY <1>2 DEF ChunkRemoved
    <3>3. content[v] \in [CaseIds -> CaseRecord]
      BY DEF BenchInv, ContentInv
    <3>4. ASSUME NEW c \in CaseIds
          PROVE  [content[v][c] EXCEPT !.judged[k] = "none"] = content[v][c]
      BY <3>1, <3>3 DEF CaseRecord
    <3> QED BY <3>2, <3>3, <3>4
  <2> QED BY <2>1, <2>2, UnwrittenStays
<1> QED BY <1>1, <1>2

LEMMA BeginsKnowing ==
    ASSUME BenchInv, PublicationInv, NEW e \in Editors, PublishBegin(e)
    PROVE  PublicationInv'
<1> DEFINE u == ed[e].version
<1>1. /\ ed[e].pc = "draft" /\ Cardinality(CasesOf(u)) >= MinCases
      /\ UNCHANGED <<status, content>>
      /\ disturbed' = IF Published(u) \/ Publishing(u) THEN disturbed ELSE disturbed \ {u}
  BY DEF PublishBegin
<1>2. /\ ed'[e].version = u /\ ed'[e].held = CasesOf(u) /\ ed'[e].left = CasesOf(u)
      /\ ed'[e].categories = [c \in CaseIds |-> content[u][c].category]
      /\ \A f \in Editors \ {e} : ed'[f] = ed[f]
  BY DEF PublishBegin, BenchInv, EditorsInv, RequestOK, RequestRecord
<1>3. ASSUME NEW f \in Editors, NEW v \in Versions,
             ed'[f].pc = "publishing", ed'[f].version = v, v \notin disturbed'
      PROVE  Knows(f, v)'
  <2>1. CASE f = e
    <3>1. v = u
      BY <1>2, <1>3, <2>1
    <3>2. content' = content
      BY <1>1
    <3> QED BY <1>1, <1>2, <2>1, <3>1, <3>2 DEF Knows, CasesOf
  <2>2. CASE f # e
    <3>1. ed'[f] = ed[f] /\ content'[v] = content[v]
      BY <1>1, <1>2, <2>2
    <3>2. v \notin disturbed
      BY <1>1, <1>3, <3>1 DEF Publishing
    <3> QED BY <1>3, <3>1, <3>2, KnowsStays DEF PublicationInv
  <2> QED BY <2>1, <2>2
<1>4. ASSUME NEW v \in Versions, Published(v)', v \notin disturbed'
      PROVE  Gate(v)'
  <2>1. Published(v) /\ v \notin disturbed
    BY <1>1, <1>4 DEF Published
  <2> QED BY <1>1, <2>1, GateIsOfContent DEF PublicationInv, GateUnlessDisturbed
<1> QED BY <1>3, <1>4 DEF PublicationInv, GateUnlessDisturbed

LEMMA ChecksKnow ==
    ASSUME BenchInv, PublicationInv, NEW e \in Editors, NEW c \in CaseIds, CheckCase(e, c)
    PROVE  PublicationInv'
<1>1. /\ CaseIsSound(Found(e, c)) /\ ed[e].pc = "publishing"
      /\ UNCHANGED <<status, content, disturbed>>
  BY DEF CheckCase, CheckOf
<1>2. /\ ed'[e].version = ed[e].version /\ ed'[e].held = ed[e].held
      /\ ed'[e].categories = ed[e].categories /\ ed'[e].left = ed[e].left \ {c}
      /\ \A f \in Editors \ {e} : ed'[f] = ed[f]
  BY DEF CheckCase, CheckOf, BenchInv, EditorsInv, RequestOK, RequestRecord
<1>3. ASSUME NEW f \in Editors, NEW v \in Versions,
             ed'[f].pc = "publishing", ed'[f].version = v, v \notin disturbed'
      PROVE  Knows(f, v)'
  <2>1. CASE f = e
    <3>1. v = ed[e].version /\ Knows(e, v)
      BY <1>1, <1>2, <1>3, <2>1 DEF PublicationInv
    <3>2. c \in CasesOf(v) => CaseIsSound(content[v][c])
      <4>1. c \in CasesOf(v) => /\ Found(e, c).category = content[v][c].category
                                /\ Found(e, c).judged = content[v][c].judged
        BY <3>1 DEF Knows, Found
      <4> QED BY <1>1, <4>1 DEF CaseIsSound
    <3>3. content' = content
      BY <1>1
    <3> QED BY <1>2, <2>1, <3>1, <3>2, <3>3 DEF Knows, CasesOf
  <2>2. CASE f # e
    BY <1>1, <1>2, <1>3, <2>2, KnowsStays DEF PublicationInv
  <2> QED BY <2>1, <2>2
<1>4. ASSUME NEW v \in Versions, Published(v)', v \notin disturbed'
      PROVE  Gate(v)'
  BY <1>1, <1>4, GateIsOfContent DEF PublicationInv, GateUnlessDisturbed, Published
<1> QED BY <1>3, <1>4 DEF PublicationInv, GateUnlessDisturbed

LEMMA PublishesKnowing ==
    ASSUME BenchInv, PublicationInv, NEW e \in Editors, PublishCommit(e)
    PROVE  PublicationInv'
<1> DEFINE u == ed[e].version
<1>1. /\ ed[e].pc = "publishing" /\ ed[e].left = {}
      /\ status' = [status EXCEPT ![u] = "published"]
      /\ UNCHANGED <<content, disturbed>>
  BY DEF PublishCommit
<1>2. ed'[e].pc = "idle" /\ \A f \in Editors \ {e} : ed'[f] = ed[f]
  BY IdleTyped DEF PublishCommit, BenchInv, EditorsInv
<1>3. ASSUME NEW f \in Editors, NEW v \in Versions,
             ed'[f].pc = "publishing", ed'[f].version = v, v \notin disturbed'
      PROVE  Knows(f, v)'
  BY <1>1, <1>2, <1>3, KnowsStays DEF PublicationInv
<1>4. ASSUME NEW v \in Versions, Published(v)', v \notin disturbed'
      PROVE  Gate(v)'
  <2>1. CASE v = u
    <3>1. Knows(e, v)
      BY <1>1, <1>4, <2>1 DEF PublicationInv
    <3>2. Gate(v)
      BY <1>1, <3>1 DEF Knows, Gate
    <3> QED BY <1>1, <3>2, GateIsOfContent
  <2>2. CASE v # u
    <3>1. Published(v)
      BY <1>1, <1>4, <2>2 DEF Published, BenchInv
    <3> QED BY <1>1, <1>4, <3>1, GateIsOfContent DEF PublicationInv, GateUnlessDisturbed
  <2> QED BY <2>1, <2>2
<1> QED BY <1>3, <1>4 DEF PublicationInv, GateUnlessDisturbed

LEMMA RequestsKeepPublication ==
    ASSUME BenchInv, PublicationInv, NEW e \in Editors,
           ReadHighest(e) \/ InsertVersion(e) \/ Open(e) \/ Refuse(e)
    PROVE  PublicationInv'
<1>1. UNCHANGED <<content, disturbed>>
  BY DEF ReadHighest, InsertVersion, Open, Refuse
<1>2. /\ ed'[e].pc # "publishing"
      /\ \A f \in Editors \ {e} : ed'[f] = ed[f]
  <2>1. CASE ReadHighest(e)
    <3>1. PICK n : n = Highest
      OBVIOUS
    <3> QED BY <2>1, <3>1 DEF ReadHighest, BenchInv, EditorsInv, Idle
  <2>2. CASE InsertVersion(e) \/ Refuse(e)
    BY <2>2, IdleTyped DEF InsertVersion, Refuse, BenchInv, EditorsInv
  <2>3. CASE Open(e)
    BY <2>3 DEF Open, BenchInv, EditorsInv, Idle
  <2> QED BY <2>1, <2>2, <2>3
<1>3. \A v \in Versions : Published(v)' => Published(v)
  BY DEF ReadHighest, InsertVersion, Open, Refuse, Published, Exists, BenchInv
<1>4. ASSUME NEW f \in Editors, NEW v \in Versions,
             ed'[f].pc = "publishing", ed'[f].version = v, v \notin disturbed'
      PROVE  Knows(f, v)'
  BY <1>1, <1>2, <1>4, KnowsStays DEF PublicationInv
<1>5. ASSUME NEW v \in Versions, Published(v)', v \notin disturbed'
      PROVE  Gate(v)'
  BY <1>1, <1>3, <1>5, GateIsOfContent DEF PublicationInv, GateUnlessDisturbed
<1> QED BY <1>4, <1>5 DEF PublicationInv, GateUnlessDisturbed

\* However publications, edits of other requests and reindexing overlap, a
\* version that was not written from its publication's list on meets the gate as
\* a whole, though publication reads its cases one after the other.
THEOREM PublicationIsChecked == Spec => []GateUnlessDisturbed
<1>1. Init => PublicationInv
  BY DEF Init, PublicationInv, GateUnlessDisturbed, Published, Idle
<1>2. BenchInv /\ PublicationInv /\ [Next]_vars => PublicationInv'
  <2> SUFFICES ASSUME BenchInv, PublicationInv, [Next]_vars
               PROVE  PublicationInv'
    OBVIOUS
  <2>1. CASE UNCHANGED vars
    BY <2>1, UnwrittenStays DEF vars
  <2> QED BY <2>1, EditsKeepPublication, RequestsKeepPublication, BeginsKnowing, ChecksKnow,
          PublishesKnowing, ChunksKeepPublication DEF Next
<1>3. PublicationInv => GateUnlessDisturbed
  BY DEF PublicationInv
<1> QED BY <1>1, <1>2, <1>3, BenchHoldsTogether, PTL DEF Spec

\* No request takes up a published version, and when the last that had loaded it
\* before is done, its cases stay for good and lose judgments only with chunks.
THEOREM PublishedIsLeftAlone == Spec => PublishedIsClosed
<1>1. ASSUME BenchInv, [Next]_vars, NEW v \in Versions, Published(v)
      PROVE  /\ status'[v] = "published"
             /\ Holding(v)' \subseteq Holding(v)
             /\ Holding(v) = {} => \A c \in CaseIds :
                  /\ content'[v][c].category = content[v][c].category
                  /\ content'[v][c].judged =
                       [k \in Chunks |-> IF k \in live' THEN content[v][c].judged[k] ELSE "none"]
  <2>1. \A c \in CaseIds : content[v][c] \in CaseRecord /\ OnLive(content[v][c].judged)
    BY <1>1 DEF BenchInv, ContentInv
  <2>2. ASSUME live \subseteq live'
        PROVE  \A c \in CaseIds : content[v][c].judged =
                 [k \in Chunks |-> IF k \in live' THEN content[v][c].judged[k] ELSE "none"]
    BY <2>1, <2>2 DEF OnLive, CaseRecord
  <2>3. EditorsInv
    BY <1>1 DEF BenchInv
  <2>4. CASE \E e \in Editors : Edit(e)
    <3>1. PICK e \in Editors : Edit(e)
      BY <2>4
    <3>2. ed[e].pc \in {"draft", "replacing", "importing"} /\ UNCHANGED <<status, live>>
      BY <2>3, <3>1, EditsWrite
    <3>3. CASE \E cases, gone : Commit(e, ed[e].version, cases, gone)
      <4>1. PICK cases, gone : Commit(e, ed[e].version, cases, gone)
        BY <3>3
      <4>2. Holding(v)' \subseteq Holding(v)
        BY <2>3, <4>1, CommitEnds, IdleTyped DEF Holding
      <4>3. ed[e].version # v => content'[v] = content[v]
        BY <1>1, <4>1 DEF Commit, BenchInv, ContentInv
      <4>4. Holding(v) = {} => ed[e].version # v
        BY <3>2 DEF Holding
      <4> QED BY <1>1, <2>2, <3>2, <4>2, <4>3, <4>4 DEF Published
    <3>4. CASE /\ content' = content
               /\ \E x : /\ RequestOK(x) /\ ed' = [ed EXCEPT ![e] = x]
                         /\ x.version = ed[e].version
      <4>1. Holding(v)' \subseteq Holding(v)
        BY <2>3, <3>2, <3>4, EditorChanges DEF Holding
      <4> QED BY <1>1, <2>2, <3>2, <3>4, <4>1 DEF Published
    <3> QED BY <2>3, <3>1, <3>3, <3>4, EditsWrite
  <2>5. CASE \E e \in Editors :
               \/ ReadHighest(e) \/ InsertVersion(e) \/ Open(e) \/ Refuse(e)
               \/ PublishBegin(e) \/ PublishCommit(e)
               \/ \E c \in CaseIds : CheckCase(e, c)
    <3>1. PICK e \in Editors :
               \/ ReadHighest(e) \/ InsertVersion(e) \/ Open(e) \/ Refuse(e)
               \/ PublishBegin(e) \/ PublishCommit(e)
               \/ \E c \in CaseIds : CheckCase(e, c)
      BY <2>5
    <3>2. UNCHANGED <<content, live>>
      BY <3>1 DEF ReadHighest, InsertVersion, Open, Refuse, PublishBegin, CheckCase, CheckOf,
             PublishCommit
    <3>3. status'[v] = "published"
      BY <1>1, <3>1 DEF ReadHighest, InsertVersion, Open, Refuse, PublishBegin, CheckCase,
             CheckOf, PublishCommit, Published, Exists, BenchInv
    <3>4. \A f \in Editors \ {e} : ed'[f] = ed[f]
      BY <2>3, <3>1, VersionsWrite, EditorChanges
    <3>5. e \in Holding(v)' => e \in Holding(v)
      <4>1. CASE ReadHighest(e)
        <5>1. PICK n : n = Highest
          OBVIOUS
        <5> QED BY <2>3, <4>1, <5>1 DEF ReadHighest, EditorsInv, Idle, Holding
      <4>2. CASE InsertVersion(e) \/ Refuse(e) \/ PublishCommit(e)
        BY <2>3, <4>2, IdleTyped DEF InsertVersion, Refuse, PublishCommit, EditorsInv, Holding
      <4>3. CASE Open(e)
        BY <1>1, <2>3, <4>3 DEF Open, EditorsInv, Idle, Holding, Published
      <4>4. CASE PublishBegin(e) \/ \E c \in CaseIds : CheckCase(e, c)
        BY <2>3, <4>4 DEF PublishBegin, CheckCase, CheckOf, EditorsInv, RequestOK,
           RequestRecord, Holding
      <4> QED BY <3>1, <4>1, <4>2, <4>3, <4>4
    <3>6. Holding(v)' \subseteq Holding(v)
      BY <3>4, <3>5 DEF Holding
    <3> QED BY <2>2, <3>2, <3>3, <3>6
  <2>6. CASE \E k \in Chunks : ChunkAdded(k)
    BY <1>1, <2>2, <2>6 DEF ChunkAdded, Holding, Published
  <2>7. CASE \E k \in Chunks : ChunkRemoved(k)
    <3>1. PICK k \in Chunks : ChunkRemoved(k)
      BY <2>7
    <3>2. live' = live \ {k} /\ UNCHANGED <<status, ed>>
      BY <3>1 DEF ChunkRemoved
    <3>3. ASSUME NEW c \in CaseIds
          PROVE  content'[v][c] = [content[v][c] EXCEPT !.judged[k] = "none"]
      BY <1>1, <3>1 DEF ChunkRemoved
    <3>4. ASSUME NEW c \in CaseIds
          PROVE  /\ content'[v][c].category = content[v][c].category
                 /\ content'[v][c].judged =
                      [x \in Chunks |-> IF x \in live' THEN content[v][c].judged[x] ELSE "none"]
      <4>1. content[v][c] \in CaseRecord /\ OnLive(content[v][c].judged)
        BY <2>1
      <4>2. PICK judged \in [Chunks -> Relevance] : judged = content[v][c].judged
        BY <4>1 DEF CaseRecord
      <4>3. /\ content'[v][c].category = content[v][c].category
            /\ content'[v][c].judged = [judged EXCEPT ![k] = "none"]
        BY <3>3, <4>1, <4>2 DEF CaseRecord
      <4>4. \A x \in Chunks \ live : judged[x] = "none"
        BY <4>1, <4>2 DEF OnLive
      <4>5. [judged EXCEPT ![k] = "none"] =
              [x \in Chunks |-> IF x \in live' THEN judged[x] ELSE "none"]
        BY <3>2, <4>4
      <4> QED BY <4>2, <4>3, <4>5
    <3> QED BY <1>1, <3>2, <3>4 DEF Holding, Published
  <2>8. CASE UNCHANGED vars
    BY <1>1, <2>2, <2>8 DEF vars, Holding, Published
  <2> QED BY <1>1, <2>4, <2>5, <2>6, <2>7, <2>8 DEF Next
<1>2. BenchInv /\ [Next]_vars =>
        [\A v \in Versions : Published(v) =>
           /\ status'[v] = "published"
           /\ Holding(v)' \subseteq Holding(v)
           /\ Holding(v) = {} => \A c \in CaseIds :
                /\ content'[v][c].category = content[v][c].category
                /\ content'[v][c].judged =
                     [k \in Chunks |-> IF k \in live' THEN content[v][c].judged[k] ELSE "none"]]_vars
  BY <1>1
<1> QED BY <1>2, BenchHoldsTogether, PTL DEF Spec, PublishedIsClosed

-----------------------------------------------------------------------------
(* Feedback *)

SubmissionTypes ==
    /\ feedback \in {"none", "unresolved"} \cup Decisions
    /\ corrections \in [Chunks -> Relevance]
    /\ reviewed \in BOOLEAN
    /\ sub \in [Submitters -> {"idle", "insert", "update"}]

\* The rows corrections refer to are there, graded, and so are those a review
\* has flushed.
CorrectionsInv ==
    /\ OnLive(corrections)
    /\ \A k \in Chunks : corrections[k] # "zero"
    /\ \A r \in Reviewers : /\ OnLive(rev[r].given)
                            /\ \A k \in Chunks : rev[r].given[k] # "zero"

\* The list of a promotion has corrections, graded, the review's own among them.
ListsInv ==
    \A r \in Reviewers : rev[r].pc = "filing" =>
      /\ rev[r].list # Unjudged
      /\ \A k \in Chunks : /\ rev[r].list[k] # "zero"
                           /\ rev[r].given[k] # "none" => rev[r].list[k] = rev[r].given[k]

\* A review that is under way has a decision and, from the choice of a draft on,
\* a version; once its case is committed the case is among those filed.
ReviewsInv ==
    /\ rev \in [Reviewers -> ReviewRecord]
    /\ \A r \in Reviewers :
         /\ rev[r].pc # "idle" => rev[r].decision \in Decisions
         /\ rev[r].pc \in {"filing", "filed"} => rev[r].version \in Versions
         /\ rev[r].pc = "filed" => /\ rev[r].case \in CaseIds
                                   /\ <<rev[r].version, rev[r].case>> \in filed

\* What is filed is logged, lost, or in the hands of a review between commits.
TrailInv ==
    /\ filed \subseteq Versions \X CaseIds
    /\ logged \cup lost \subseteq filed
    /\ \A f \in filed :
         \/ f \in logged \cup lost
         \/ \E r \in Reviewers : Between(r) /\ f = <<rev[r].version, rev[r].case>>

\* The status a review has loaded and will not write is one that was decided.
QueueInv ==
    /\ feedback = "none" => ~reviewed
    /\ feedback # "none" => (feedback = "unresolved" <=> ~reviewed)
    /\ feedback = "promoted" => logged # {}
    /\ \A r \in Reviewers : rev[r].pc # "idle" =>
         /\ feedback # "none"
         /\ ~rev[r].changes => /\ reviewed
                               /\ rev[r].decision = "promoted" => logged # {}

FeedbackInv ==
    /\ BenchInv /\ SubmissionTypes /\ CorrectionsInv /\ ListsInv
    /\ ReviewsInv /\ TrailInv /\ QueueInv

LEMMA FeedbackStarts ==
    ASSUME FInit
    PROVE  FeedbackInv
<1> USE BenchmarkBoundsAssumption
<1>1. BenchInv
  <2>1. ContentInv
    BY NothingJudged DEF FInit, Init, ContentInv
  <2>2. EditorsInv
    BY IdleTyped DEF FInit, Init, EditorsInv
  <2> QED BY <2>1, <2>2 DEF FInit, Init, BenchInv
<1>2. SubmissionTypes /\ TrailInv /\ QueueInv
  BY NothingJudged DEF FInit, SubmissionTypes, TrailInv, QueueInv, NoReview
<1>4. CorrectionsInv /\ ListsInv
  BY NothingJudged DEF FInit, CorrectionsInv, ListsInv, NoReview, Unjudged
<1>3. ReviewsInv
  BY NothingJudged DEF FInit, ReviewsInv, ReviewRecord, NoReview
<1> QED BY <1>1, <1>2, <1>3, <1>4 DEF FeedbackInv

LEMMA BenchUnchanged ==
    ASSUME BenchInv, UNCHANGED bench
    PROVE  BenchInv'
BY DEF BenchInv, ContentInv, EditorsInv, RequestOK, RequestRecord, OnLive, bench

LEMMA SubmissionsKeep ==
    ASSUME FeedbackInv, NEW s \in Submitters, SubmitLoad(s) \/ SubmitCommit(s)
    PROVE  FeedbackInv'
<1>1. UNCHANGED <<bench, corrections, reviewed, logged, filed, lost, rev>>
  BY DEF SubmitLoad, SubmitCommit, row
<1>2. BenchInv' /\ CorrectionsInv' /\ ListsInv'
  BY <1>1, BenchUnchanged DEF FeedbackInv, OnLive, CorrectionsInv, ListsInv, bench
<1>3. ReviewsInv' /\ TrailInv'
  BY <1>1 DEF FeedbackInv, ReviewsInv, TrailInv, Between
<1>4. SubmissionTypes'
  BY <1>1 DEF FeedbackInv, SubmissionTypes, SubmitLoad, SubmitCommit, row
<1>5. feedback' = feedback \/ (feedback = "none" /\ feedback' = "unresolved")
  BY DEF SubmitLoad, SubmitCommit, row
<1>6. QueueInv'
  BY <1>1, <1>5 DEF FeedbackInv, QueueInv
<1> QED BY <1>2, <1>3, <1>4, <1>6 DEF FeedbackInv

LEMMA ElsewhereKeeps ==
    ASSUME FeedbackInv, Elsewhere \/ \E k \in Chunks : ChunkGoes(k)
    PROVE  FeedbackInv'
<1>1. BenchInv'
  BY EditsKeepBench, VersionsKeepBench, ChunksKeepBench DEF FeedbackInv, Elsewhere, ChunkGoes
<1>2. CASE Elsewhere
  <2>1. UNCHANGED <<row, sub, rev>>
    BY <1>2 DEF Elsewhere
  <2>2. live \subseteq live'
    <3>1. EditorsInv
      BY DEF FeedbackInv, BenchInv
    <3>2. CASE \E e \in Editors : Edit(e)
      BY <3>1, <3>2, EditsWrite
    <3>3. CASE ~ \E e \in Editors : Edit(e)
      BY <1>2, <3>3 DEF Elsewhere, ReadHighest, InsertVersion, Open, Refuse, PublishBegin,
         CheckCase, CheckOf, PublishCommit, ChunkAdded
    <3> QED BY <3>2, <3>3
  <2>3. SubmissionTypes' /\ ListsInv' /\ ReviewsInv' /\ TrailInv' /\ QueueInv'
    BY <2>1 DEF FeedbackInv, SubmissionTypes, ListsInv, ReviewsInv, TrailInv, QueueInv,
       Between, row
  <2>4. CorrectionsInv'
    BY <2>1, <2>2 DEF FeedbackInv, CorrectionsInv, OnLive, row
  <2> QED BY <1>1, <2>3, <2>4 DEF FeedbackInv
<1>3. ASSUME NEW k \in Chunks, ChunkGoes(k)
      PROVE  FeedbackInv'
  <2>1. /\ corrections' = [corrections EXCEPT ![k] = "none"]
        /\ UNCHANGED <<feedback, reviewed, logged, filed, lost, sub, rev>>
        /\ live' = live \ {k}
        /\ \A r \in Reviewers : rev[r].given[k] = "none"
    BY <1>3 DEF ChunkGoes, ChunkRemoved
  <2>2. SubmissionTypes' /\ CorrectionsInv'
    BY <2>1 DEF FeedbackInv, SubmissionTypes, CorrectionsInv, OnLive, Relevance
  <2>3. ReviewsInv' /\ ListsInv' /\ TrailInv' /\ QueueInv'
    BY <2>1 DEF FeedbackInv, ReviewsInv, ListsInv, TrailInv, QueueInv, Between
  <2> QED BY <1>1, <2>2, <2>3 DEF FeedbackInv
<1> QED BY <1>2, <1>3

\* The rows that a review makes of the corrections.
LEMMA ViewOnLive ==
    ASSUME FeedbackInv, NEW r \in Reviewers
    PROVE  /\ View(r) \in [Chunks -> Relevance] /\ OnLive(View(r))
           /\ \A k \in Chunks : /\ View(r)[k] # "zero"
                                /\ rev[r].given[k] # "none" => View(r)[k] = rev[r].given[k]
<1>1. /\ corrections \in [Chunks -> Relevance] /\ OnLive(corrections)
      /\ rev[r].given \in [Chunks -> Relevance] /\ OnLive(rev[r].given)
      /\ \A k \in Chunks : corrections[k] # "zero" /\ rev[r].given[k] # "zero"
  BY DEF FeedbackInv, SubmissionTypes, CorrectionsInv, ReviewsInv, ReviewRecord
<1>2. /\ Remaining(r) \in [Chunks -> Relevance] /\ OnLive(Remaining(r))
      /\ \A k \in Chunks : Remaining(r)[k] # "zero"
  BY <1>1 DEF Remaining, OnLive, Relevance
<1> QED BY <1>1, <1>2 DEF View, OnLive

LEMMA PreparationsKeep ==
    ASSUME FeedbackInv, NEW r \in Reviewers,
           ReviewLoad(r) \/ ReplaceCorrections(r) \/ PromoteLoad(r)
    PROVE  FeedbackInv'
<1> USE BenchmarkBoundsAssumption
<1>1. UNCHANGED <<bench, row, sub>>
  BY DEF ReviewLoad, ReplaceCorrections, PromoteLoad
<1>2. BenchInv' /\ SubmissionTypes'
  BY <1>1, BenchUnchanged DEF FeedbackInv, SubmissionTypes, row
<1>3. rev[r] \in ReviewRecord
  BY DEF FeedbackInv, ReviewsInv
<1>4. PICK new \in ReviewRecord :
        /\ rev' = [rev EXCEPT ![r] = new]
        /\ rev[r].pc # "filed"
        /\ new.pc \in {"loaded", "replaced", "filing"}
        /\ new.decision \in Decisions
        /\ new.pc = "filing" => new.version \in Versions
        /\ OnLive(new.given) /\ \A k \in Chunks : new.given[k] # "zero"
        /\ new.pc = "filing" =>
             /\ new.list # Unjudged
             /\ \A k \in Chunks : /\ new.list[k] # "zero"
                                  /\ new.given[k] # "none" => new.list[k] = new.given[k]
        /\ feedback # "none"
        /\ ~new.changes =>
             \/ rev[r].pc # "idle" /\ ~rev[r].changes /\ new.decision = rev[r].decision
             \/ new.decision = feedback
  <2>1. CASE ReviewLoad(r)
    <3>1. PICK d \in Decisions :
            Step(r, [NoReview EXCEPT !.pc = "loaded", !.decision = d, !.changes = d # feedback])
      BY <2>1 DEF ReviewLoad
    <3> DEFINE differs == d # feedback
    <3>3. differs \in BOOLEAN
      OBVIOUS
    <3>2. [NoReview EXCEPT !.pc = "loaded", !.decision = d, !.changes = differs]
            \in ReviewRecord
      <4> HIDE DEF differs
      <4>1. NoReview \in ReviewRecord
        BY NothingJudged DEF NoReview, ReviewRecord
      <4> QED BY <3>3, <4>1 DEF ReviewRecord
    <3>4. OnLive(Unjudged) /\ \A k \in Chunks : Unjudged[k] # "zero"
      BY DEF OnLive, Unjudged
    <3> QED BY <2>1, <3>1, <3>2, <3>4 DEF ReviewLoad, Step, NoReview
  <2>2. CASE ReplaceCorrections(r)
    <3>1. PICK j \in Corrected :
            Step(r, [rev[r] EXCEPT !.pc = "replaced", !.removed = corrections, !.given = j])
      BY <2>2 DEF ReplaceCorrections
    <3>2. j \in [Chunks -> Relevance] /\ corrections \in [Chunks -> Relevance]
      BY JudgmentsOnLive DEF Corrected, FeedbackInv, SubmissionTypes
    <3>3. [rev[r] EXCEPT !.pc = "replaced", !.removed = corrections, !.given = j]
            \in ReviewRecord
      BY <1>3, <3>2 DEF ReviewRecord
    <3>4. OnLive(j) /\ \A k \in Chunks : j[k] # "zero"
      BY JudgmentsOnLive DEF Corrected
    <3> QED BY <2>2, <1>3, <3>1, <3>3, <3>4 DEF ReplaceCorrections, Step, FeedbackInv,
            ReviewsInv, QueueInv, ReviewRecord
  <2>3. CASE PromoteLoad(r)
    <3> DEFINE list == View(r)
    <3>1. PICK v \in Versions :
            /\ list # Unjudged
            /\ Step(r, [rev[r] EXCEPT !.pc = "filing", !.version = v, !.list = list])
      BY <2>3 DEF PromoteLoad
    <3>2. /\ list \in [Chunks -> Relevance]
          /\ \A k \in Chunks : /\ list[k] # "zero"
                               /\ rev[r].given[k] # "none" => list[k] = rev[r].given[k]
      BY <3>1, ViewOnLive
    <3> HIDE DEF list
    <3> DEFINE filing == [rev[r] EXCEPT !.pc = "filing", !.version = v, !.list = list]
    <3>3. filing \in ReviewRecord
      <4>1. v \in 0 .. MaxVersions
        BY DEF Versions
      <4> QED BY <1>3, <3>2, <4>1 DEF ReviewRecord
    <3>4. OnLive(rev[r].given) /\ \A k \in Chunks : rev[r].given[k] # "zero"
      BY DEF FeedbackInv, CorrectionsInv
    <3>5. /\ filing.pc = "filing" /\ filing.version = v /\ filing.list = list
          /\ filing.given = rev[r].given /\ filing.decision = rev[r].decision
          /\ filing.changes = rev[r].changes
      BY <1>3 DEF ReviewRecord
    <3>6. /\ rev[r].pc \in {"loaded", "replaced"} /\ rev[r].decision \in Decisions
          /\ feedback # "none" /\ rev' = [rev EXCEPT ![r] = filing]
      BY <2>3, <3>1 DEF PromoteLoad, Step, FeedbackInv, ReviewsInv, QueueInv
    <3> HIDE DEF filing
    <3> QED BY <3>1, <3>2, <3>3, <3>4, <3>5, <3>6
  <2> QED BY <2>1, <2>2, <2>3
<1>5. \A x \in Reviewers : rev'[x] = IF x = r THEN new ELSE rev[x]
  BY <1>4 DEF FeedbackInv, ReviewsInv
<1>6. ReviewsInv'
  BY <1>1, <1>4, <1>5 DEF FeedbackInv, ReviewsInv, row
<1>7. TrailInv'
  BY <1>1, <1>4, <1>5 DEF FeedbackInv, TrailInv, Between, row
<1>9. CorrectionsInv' /\ ListsInv'
  <2>1. UNCHANGED <<live, corrections>>
    BY <1>1 DEF bench, row
  <2> QED BY <2>1, <1>4, <1>5 DEF FeedbackInv, CorrectionsInv, ListsInv, OnLive
<1>8. QueueInv'
  <2>1. UNCHANGED <<feedback, reviewed, logged>>
    BY <1>1 DEF row
  <2>2. ~new.changes => reviewed /\ (new.decision = "promoted" => logged # {})
    BY <1>4, DecisionsAssumption DEF FeedbackInv, QueueInv
  <2> QED BY <2>1, <2>2, <1>4, <1>5 DEF FeedbackInv, QueueInv
<1> QED BY <1>2, <1>6, <1>7, <1>8, <1>9 DEF FeedbackInv

LEMMA NoReviewTyped == NoReview \in ReviewRecord
BY NothingJudged, BenchmarkBoundsAssumption DEF NoReview, ReviewRecord

\* The status a review leaves: decided, and by a promotion only with a case logged.
LEMMA StatusWritten ==
    ASSUME FeedbackInv, NEW r \in Reviewers, rev[r].pc # "idle", WriteStatus(r),
           logged \subseteq logged',
           rev[r].decision = "promoted" => logged' # {}
    PROVE  /\ feedback' \in Decisions
           /\ reviewed' = TRUE
           /\ feedback' = "promoted" => logged' # {}
<1>1. /\ feedback # "none" /\ rev[r].decision \in Decisions /\ rev[r].changes \in BOOLEAN
      /\ feedback \in {"none", "unresolved"} \cup Decisions
      /\ feedback = "unresolved" <=> ~reviewed
      /\ ~rev[r].changes => reviewed
      /\ feedback = "promoted" => logged # {}
  BY DEF FeedbackInv, QueueInv, ReviewsInv, ReviewRecord, SubmissionTypes
<1> QED BY <1>1 DEF WriteStatus

\* A review ends: the queue and the reviews that stay.
LEMMA ReviewEnds ==
    ASSUME FeedbackInv, NEW r \in Reviewers, Step(r, NoReview), filed \subseteq filed',
           logged \subseteq logged', reviewed => reviewed',
           feedback # "none" => feedback' # "none",
           live' = live, corrections' = corrections \/ corrections' = View(r)
    PROVE  /\ ReviewsInv' /\ CorrectionsInv' /\ ListsInv'
           /\ \A x \in Reviewers : rev'[x] = IF x = r THEN NoReview ELSE rev[x]
           /\ \A x \in Reviewers : rev'[x].pc # "idle" =>
                /\ feedback' # "none"
                /\ ~rev'[x].changes => /\ reviewed'
                                       /\ rev'[x].decision = "promoted" => logged' # {}
<1>1. \A x \in Reviewers : rev'[x] = IF x = r THEN NoReview ELSE rev[x]
  BY DEF FeedbackInv, ReviewsInv, Step
<1>2. rev' \in [Reviewers -> ReviewRecord]
  BY NoReviewTyped DEF FeedbackInv, ReviewsInv, Step
<1>3. NoReview.pc = "idle"
  BY DEF NoReview
<1>4. ReviewsInv'
  BY <1>1, <1>2, <1>3 DEF FeedbackInv, ReviewsInv
<1>5. ASSUME NEW x \in Reviewers, rev'[x].pc # "idle"
      PROVE  rev'[x] = rev[x] /\ rev[x].pc # "idle"
  BY <1>1, <1>3, <1>5
<1>6. CorrectionsInv'
  <2>1. OnLive(NoReview.given) /\ \A k \in Chunks : NoReview.given[k] # "zero"
    BY DEF NoReview, Unjudged, OnLive
  <2> QED BY <1>1, <2>1, ViewOnLive DEF FeedbackInv, CorrectionsInv, OnLive
<1>7. ListsInv'
  BY <1>1, <1>3 DEF FeedbackInv, ListsInv
<1> QED BY <1>1, <1>4, <1>5, <1>6, <1>7 DEF FeedbackInv, QueueInv

LEMMA ReviewCommitKeeps ==
    ASSUME FeedbackInv, NEW r \in Reviewers, ReviewCommit(r)
    PROVE  FeedbackInv'
<1>1. /\ rev[r].pc \in {"loaded", "replaced"} /\ rev[r].decision # "promoted"
      /\ CanCommit(r) /\ WriteStatus(r) /\ corrections' = View(r) /\ Step(r, NoReview)
      /\ UNCHANGED <<bench, logged, filed, lost, sub>>
  BY DEF ReviewCommit
<1>2. feedback' \in Decisions /\ reviewed' = TRUE /\ (feedback' = "promoted" => logged' # {})
  BY <1>1, StatusWritten
<1>3. feedback' # "none" /\ feedback' # "unresolved"
  BY <1>2, DecisionsAssumption
<1>4. BenchInv'
  BY <1>1, BenchUnchanged DEF FeedbackInv
<1>5. SubmissionTypes'
  BY <1>1, <1>2, ViewOnLive DEF FeedbackInv, SubmissionTypes
<1>9. live' = live
  BY <1>1 DEF bench
<1>6. /\ ReviewsInv' /\ CorrectionsInv' /\ ListsInv'
      /\ \A x \in Reviewers : rev'[x] = IF x = r THEN NoReview ELSE rev[x]
      /\ \A x \in Reviewers : rev'[x].pc # "idle" =>
           /\ feedback' # "none"
           /\ ~rev'[x].changes => /\ reviewed'
                                  /\ rev'[x].decision = "promoted" => logged' # {}
  BY <1>1, <1>2, <1>3, <1>9, ReviewEnds
<1>7. QueueInv'
  BY <1>2, <1>3, <1>6 DEF QueueInv
<1>8. TrailInv'
  BY <1>1, <1>6 DEF FeedbackInv, TrailInv, Between
<1> QED BY <1>4, <1>5, <1>6, <1>7, <1>8 DEF FeedbackInv

LEMMA FileCaseKeeps ==
    ASSUME FeedbackInv, NEW r \in Reviewers, FileCase(r)
    PROVE  FeedbackInv'
<1> DEFINE v == rev[r].version
<1>1. PICK c \in CaseIds \ CasesOf(v), cat \in Categories :
        /\ content' = [content EXCEPT ![v][c] = [category |-> cat, judged |-> rev[r].list]]
        /\ filed' = filed \cup {<<v, c>>}
        /\ Filed(r, c)
  BY DEF FileCase, FileWith
<1>2. /\ rev[r].pc = "filing" /\ CanCommit(r) /\ corrections' = View(r)
      /\ \A k \in Chunks : rev[r].list[k] # "none" => k \in live
      /\ disturbed' \subseteq disturbed \cup {v}
      /\ UNCHANGED <<status, live, born, ed, feedback, reviewed, logged, lost, sub>>
  BY DEF FileCase, FileWith, Disturb
<1>3. v \in Versions /\ rev[r] \in ReviewRecord /\ rev[r].decision \in Decisions
  BY <1>2 DEF FeedbackInv, ReviewsInv
<1> DEFINE new == [category |-> cat, judged |-> rev[r].list]
<1>4. new \in CaseRecord /\ OnLive(new.judged)
  BY <1>2, <1>3 DEF CaseRecord, ReviewRecord, OnLive
<1>5. ContentInv'
  <2> HIDE DEF new
  <2>1. content' = [content EXCEPT ![v] = [content[v] EXCEPT ![c] = new]]
    BY <1>1, <1>3 DEF new, FeedbackInv, BenchInv, ContentInv
  <2> QED BY <2>1, <1>2, <1>4, CasePut DEF FeedbackInv, BenchInv
<1>6. BenchInv'
  BY <1>2, <1>3, <1>5 DEF FeedbackInv, BenchInv, EditorsInv, RequestOK, RequestRecord
<1>7. SubmissionTypes'
  BY <1>2, ViewOnLive DEF FeedbackInv, SubmissionTypes
<1> DEFINE done == [rev[r] EXCEPT !.pc = "filed", !.case = c, !.removed = Unjudged,
                                  !.given = Unjudged, !.list = Unjudged]
<1>8. done \in ReviewRecord /\ done.pc = "filed" /\ done.case = c /\ done.version = v
      /\ done.decision = rev[r].decision /\ done.changes = rev[r].changes
      /\ done.given = Unjudged
  BY <1>3, NothingJudged DEF ReviewRecord
<1>9. \A x \in Reviewers : rev'[x] = IF x = r THEN done ELSE rev[x]
  BY <1>1 DEF Filed, Step, FeedbackInv, ReviewsInv
<1>10. rev' \in [Reviewers -> ReviewRecord]
  BY <1>1, <1>8 DEF Filed, Step, FeedbackInv, ReviewsInv
<1> HIDE DEF done
<1>11. ReviewsInv'
  BY <1>1, <1>3, <1>8, <1>9, <1>10 DEF FeedbackInv, ReviewsInv
<1>14. CorrectionsInv' /\ ListsInv'
  <2>1. OnLive(Unjudged) /\ \A k \in Chunks : Unjudged[k] # "zero"
    BY DEF Unjudged, OnLive
  <2> QED BY <2>1, <1>2, <1>8, <1>9, ViewOnLive DEF FeedbackInv, CorrectionsInv, ListsInv, OnLive
<1>12. TrailInv'
  <2>1. filed' \subseteq Versions \X CaseIds /\ logged' \cup lost' \subseteq filed'
    BY <1>1, <1>2, <1>3 DEF FeedbackInv, TrailInv
  <2>2. Between(r)' /\ <<v, c>> = <<rev'[r].version, rev'[r].case>>
    BY <1>8, <1>9 DEF Between
  <2>3. \A x \in Reviewers : Between(x) => x # r /\ rev'[x] = rev[x]
    BY <1>2, <1>9 DEF Between
  <2>4. \A f \in filed' :
          \/ f \in logged' \cup lost'
          \/ \E x \in Reviewers : Between(x)' /\ f = <<rev'[x].version, rev'[x].case>>
    BY <1>1, <1>2, <2>2, <2>3 DEF FeedbackInv, TrailInv, Between
  <2> QED BY <2>1, <2>4 DEF TrailInv
<1>13. QueueInv'
  BY <1>2, <1>8, <1>9 DEF FeedbackInv, QueueInv
<1> QED BY <1>6, <1>7, <1>11, <1>12, <1>13, <1>14 DEF FeedbackInv

LEMMA PromoteCommitKeeps ==
    ASSUME FeedbackInv, NEW r \in Reviewers, PromoteCommit(r)
    PROVE  FeedbackInv'
<1> DEFINE new == <<rev[r].version, rev[r].case>>
<1>1. /\ rev[r].pc = "filed" /\ WriteStatus(r) /\ Step(r, NoReview)
      /\ logged' = logged \cup {new}
      /\ UNCHANGED <<bench, corrections, filed, lost, sub>>
  BY DEF PromoteCommit
<1>2. feedback' \in Decisions /\ reviewed' = TRUE /\ (feedback' = "promoted" => logged' # {})
  BY <1>1, StatusWritten
<1>3. feedback' # "none" /\ feedback' # "unresolved"
  BY <1>2, DecisionsAssumption
<1>4. BenchInv'
  BY <1>1, BenchUnchanged DEF FeedbackInv
<1>5. SubmissionTypes'
  BY <1>1, <1>2 DEF FeedbackInv, SubmissionTypes
<1>10. live' = live
  BY <1>1 DEF bench
<1>6. /\ ReviewsInv' /\ CorrectionsInv' /\ ListsInv'
      /\ \A x \in Reviewers : rev'[x] = IF x = r THEN NoReview ELSE rev[x]
      /\ \A x \in Reviewers : rev'[x].pc # "idle" =>
           /\ feedback' # "none"
           /\ ~rev'[x].changes => /\ reviewed'
                                  /\ rev'[x].decision = "promoted" => logged' # {}
  BY <1>1, <1>2, <1>3, <1>10, ReviewEnds
<1>7. QueueInv'
  BY <1>2, <1>3, <1>6 DEF QueueInv
<1>8. new \in filed
  BY <1>1 DEF FeedbackInv, ReviewsInv
<1>9. TrailInv'
  BY <1>1, <1>6, <1>8 DEF FeedbackInv, TrailInv, Between
<1> QED BY <1>4, <1>5, <1>6, <1>7, <1>9 DEF FeedbackInv

LEMMA ReviewFailsKeeps ==
    ASSUME FeedbackInv, NEW r \in Reviewers, ReviewFails(r)
    PROVE  FeedbackInv'
<1> DEFINE new == <<rev[r].version, rev[r].case>>
<1>1. /\ rev[r].pc # "idle" /\ Step(r, NoReview)
      /\ lost' = IF rev[r].pc = "filed" THEN lost \cup {new} ELSE lost
      /\ UNCHANGED <<bench, feedback, corrections, reviewed, logged, filed, sub>>
  BY DEF ReviewFails
<1>2. BenchInv' /\ SubmissionTypes' /\ live' = live
  BY <1>1, BenchUnchanged DEF FeedbackInv, SubmissionTypes, bench
<1>3. /\ ReviewsInv' /\ CorrectionsInv' /\ ListsInv'
      /\ \A x \in Reviewers : rev'[x] = IF x = r THEN NoReview ELSE rev[x]
      /\ \A x \in Reviewers : rev'[x].pc # "idle" =>
           /\ feedback' # "none"
           /\ ~rev'[x].changes => /\ reviewed'
                                  /\ rev'[x].decision = "promoted" => logged' # {}
  BY <1>1, <1>2, ReviewEnds
<1>4. QueueInv'
  BY <1>1, <1>3 DEF FeedbackInv, QueueInv
<1>5. rev[r].pc = "filed" => new \in filed
  BY DEF FeedbackInv, ReviewsInv
<1>6. TrailInv'
  BY <1>1, <1>3, <1>5 DEF FeedbackInv, TrailInv, Between
<1> QED BY <1>2, <1>3, <1>4, <1>6 DEF FeedbackInv

-----------------------------------------------------------------------------
(* Theorems *)

LEMMA FeedbackHoldsTogether == FSpec => []FeedbackInv
<1>1. FInit => FeedbackInv
  BY FeedbackStarts
<1>2. FeedbackInv /\ [FNext]_fvars => FeedbackInv'
  <2> SUFFICES ASSUME FeedbackInv, [FNext]_fvars
               PROVE  FeedbackInv'
    OBVIOUS
  <2>1. CASE UNCHANGED fvars
    <3>1. BenchInv' /\ live' = live
      BY <2>1, BenchUnchanged DEF FeedbackInv, fvars, bench
    <3> QED BY <2>1, <3>1 DEF FeedbackInv, CorrectionsInv, ListsInv, OnLive, SubmissionTypes,
            ReviewsInv, TrailInv, QueueInv, Between, fvars, row
  <2>2. CASE FNext
    BY <2>2, SubmissionsKeep, PreparationsKeep, ReviewCommitKeeps, FileCaseKeeps,
       PromoteCommitKeeps, ReviewFailsKeeps, ElsewhereKeeps DEF FNext
  <2> QED BY <2>1, <2>2
<1> QED BY <1>1, <1>2, PTL DEF FSpec

\* Every variable of Feedback and of the benchmark below it keeps its type.
THEOREM FeedbackTypes == FSpec => []FeedbackTypeOK
<1>1. FeedbackInv => FeedbackTypeOK
  BY DEF FeedbackInv, BenchInv, ContentInv, EditorsInv, RequestOK, RequestRecord,
     CaseRecord, SubmissionTypes, ReviewsInv, ReviewRecord, TrailInv, FeedbackTypeOK, TypeOK
<1> QED BY <1>1, FeedbackHoldsTogether, PTL

\* However submissions and reviews overlap, the queue shows as unresolved just
\* the feedback that no committed review has decided.
THEOREM QueueIsTrue == FSpec => []QueueMatchesTrail
<1>1. FeedbackInv => QueueMatchesTrail
  BY DEF FeedbackInv, QueueInv, QueueMatchesTrail
<1> QED BY <1>1, FeedbackHoldsTogether, PTL

\* A feedback shown as promoted has a case in the trail, and every filed case is
\* in it unless its review is between its two commits, or ended there.
THEOREM PromotionsAreLogged == FSpec => []PromotionIsLogged
<1>1. FeedbackInv => PromotionIsLogged
  BY DEF FeedbackInv, QueueInv, TrailInv, PromotionIsLogged
<1> QED BY <1>1, FeedbackHoldsTogether, PTL

\* However editors, other reviews and ingestion overlap a promotion, the case it
\* files has evidence, relevant and on chunks that are there, and the corrections
\* of its own review are in the case and in the feedback.
THEOREM PromotionsHaveEvidence == FSpec => PromotedHasEvidence
<1>1. ASSUME FeedbackInv, [FNext]_fvars, NEW r \in Reviewers,
             rev[r].pc = "filing", rev'[r].pc = "filed"
      PROVE  LET judged == content'[rev'[r].version][rev'[r].case].judged IN
             /\ judged # Unjudged
             /\ \A k \in Chunks : judged[k] # "none" => k \in live' /\ judged[k] # "zero"
             /\ \A k \in Chunks : rev[r].given[k] # "none" =>
                  judged[k] = rev[r].given[k] /\ corrections'[k] = rev[r].given[k]
  <2>1. FileCase(r)
    <3>1. rev \in [Reviewers -> ReviewRecord]
      BY <1>1 DEF FeedbackInv, ReviewsInv
    <3>2. \A x \in Reviewers : \A new : Step(x, new) => (rev'[r].pc = "filed" =>
            x = r /\ new.pc = "filed")
      BY <1>1, <3>1 DEF Step
    <3>3. ASSUME NEW x \in Reviewers, ReviewLoad(x) PROVE FALSE
      BY <1>1, <3>2, <3>3 DEF ReviewLoad, NoReview
    <3>4. ASSUME NEW x \in Reviewers, ReplaceCorrections(x) \/ PromoteLoad(x) PROVE FALSE
      BY <1>1, <3>1, <3>2, <3>4 DEF ReplaceCorrections, PromoteLoad, ReviewRecord
    <3>5. ASSUME NEW x \in Reviewers, ReviewCommit(x) \/ PromoteCommit(x) \/ ReviewFails(x)
          PROVE  FALSE
      BY <1>1, <3>2, <3>5 DEF ReviewCommit, PromoteCommit, ReviewFails, NoReview
    <3>6. ASSUME NEW x \in Reviewers, FileCase(x) PROVE x = r
      BY <1>1, <3>2, <3>6 DEF FileCase, FileWith, Filed
    <3>7. UNCHANGED rev => FALSE
      BY <1>1
    <3> QED BY <1>1, <3>3, <3>4, <3>5, <3>6, <3>7 DEF FNext, fvars, SubmitLoad, SubmitCommit,
            Elsewhere, ChunkGoes
  <2>2. PICK v, c, cat :
          /\ v = rev[r].version /\ c \in CaseIds
          /\ content' = [content EXCEPT ![v][c] = [category |-> cat, judged |-> rev[r].list]]
          /\ Filed(r, c)
    BY <2>1 DEF FileCase, FileWith
  <2>3. v \in Versions /\ rev[r] \in ReviewRecord
    BY <1>1, <2>2 DEF FeedbackInv, ReviewsInv
  <2>4. rev'[r].version = v /\ rev'[r].case = c
    BY <1>1, <2>2, <2>3 DEF Filed, Step, FeedbackInv, ReviewsInv, ReviewRecord
  <2>5. content'[v][c].judged = rev[r].list
    BY <1>1, <2>2, <2>3 DEF FeedbackInv, BenchInv, ContentInv
  <2>6. /\ rev[r].list # Unjudged
        /\ \A k \in Chunks : /\ rev[r].list[k] # "zero"
                             /\ rev[r].given[k] # "none" => rev[r].list[k] = rev[r].given[k]
    BY <1>1 DEF FeedbackInv, ListsInv
  <2>7. /\ \A k \in Chunks : rev[r].list[k] # "none" => k \in live'
        /\ corrections' = View(r)
    BY <2>1 DEF FileCase, FileWith
  <2>8. \A k \in Chunks : rev[r].given[k] # "none" => corrections'[k] = rev[r].given[k]
    BY <1>1, <2>7, ViewOnLive
  <2> QED BY <2>4, <2>5, <2>6, <2>7, <2>8
<1>2. FeedbackInv /\ [FNext]_fvars =>
        [\A r \in Reviewers : rev[r].pc = "filing" /\ rev'[r].pc = "filed" =>
           LET judged == content'[rev'[r].version][rev'[r].case].judged IN
           /\ judged # Unjudged
           /\ \A k \in Chunks : judged[k] # "none" => k \in live' /\ judged[k] # "zero"
           /\ \A k \in Chunks : rev[r].given[k] # "none" =>
                judged[k] = rev[r].given[k] /\ corrections'[k] = rev[r].given[k]]_fvars
  BY <1>1
<1> QED BY <1>2, FeedbackHoldsTogether, PTL DEF FSpec, PromotedHasEvidence
=============================================================================
