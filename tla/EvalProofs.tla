----------------------------- MODULE EvalProofs -----------------------------
(***************************************************************************)
(* Proofs about EvalRuns, for any sets of requests, workers, CLI processes *)
(* and configurations: types, the agreement of metrics and rows, that no   *)
(* run has two workers, that nobody takes up a run that has finished, and  *)
(* that equal fingerprints of steady runs mean equal corpora.              *)
(***************************************************************************)
EXTENDS EvalRuns, TLAPS

Working  == {"created", "claimed", "executing", "failing"}
Resting  == {"idle", "down", "exited"}
Statuses == EvalActive \cup EvalTerminal \cup {"none"}

Row == [config : Configs \cup {"none"}, status : Statuses, print : Contents,
        printed : 0 .. MaxEdits, metrics : Nat, saw : SUBSET Contents,
        ran : 0 .. MaxEdits]

Pending == [config : Configs \cup {"none"}, ready : BOOLEAN, print : Contents,
            printed : 0 .. MaxEdits]

Execution ==
    [pc : Working \cup Resting, run : 0 .. MaxRuns, loaded : Statuses, id : Nat,
     left : 0 .. Cases, saw : SUBSET Contents, ran : 0 .. MaxEdits,
     removed : SUBSET Nat, lock : BOOLEAN]

\* The variables whose type no other one bounds.
Scalars ==
    /\ nr \in 0 .. MaxRuns /\ corpus \in Contents /\ execs \in Nat
    /\ edits \in 0 .. MaxEdits
    /\ want \in [Creators -> Pending]
    /\ cancel \in [Runs -> BOOLEAN]

\* A row that is not created yet is empty and has no cancel request.
RunsInv ==
    /\ run \in [Runs -> Row]
    /\ \A r \in Runs : run[r].metrics <= execs
    /\ \A r \in Runs : r > nr => run[r] = NoRun /\ ~cancel[r]

RowsInv == rows \in [Runs -> SUBSET (1 .. execs)]

\* An executor is busy with one of the n rows there are, and executes under one
\* of the k numbers that have been given out.
Placed(x, n, k) ==
    /\ x \in Execution
    /\ x.run <= n
    /\ x.pc \in Working <=> x.run # 0
    /\ x.pc = "executing" => x.id \in 1 .. k

ExecutorsInv ==
    /\ ex \in [Executors -> Execution]
    /\ \A e \in Executors : Placed(ex[e], nr, execs)

EvalTypes == Scalars /\ RunsInv /\ RowsInv /\ ExecutorsInv

-----------------------------------------------------------------------------
(* Types *)

\* An executor that has no run.
Free(p) == [Idle EXCEPT !.pc = p]

LEMMA FreeIsPlaced ==
    ASSUME NEW p \in Resting, NEW n \in Nat, NEW k
    PROVE  Placed(Free(p), n, k) /\ Free(p).run = 0 /\ Free(p).pc = p /\ Free(p).lock = FALSE
<1>1. Idle \in Execution
  BY EvalBoundsAssumption DEF Idle, Execution, Resting, Statuses, Contents
<1>2. Free(p) \in Execution
  BY <1>1 DEF Execution, Free
<1>3. Free(p).run = 0 /\ Free(p).pc = p /\ Free(p).lock = FALSE
  BY DEF Idle, Free
<1>4. p # "executing" /\ p \notin Working
  BY DEF Resting, Working
<1> QED BY <1>2, <1>3, <1>4 DEF Placed

LEMMA IdleIsFree == Idle = Free("idle") /\ "idle" \in Resting
BY DEF Idle, Free, Resting

LEMMA NoRunIsRow == NoRun \in Row /\ NoRun.metrics = 0 /\ NoRun.status = "none"
BY EvalBoundsAssumption DEF NoRun, Row, Statuses, Contents

LEMMA EvalTypesInit == Init => EvalTypes
<1> SUFFICES ASSUME Init
             PROVE  EvalTypes
  OBVIOUS
<1>1. Placed(Idle, 0, 0)
  BY IdleIsFree, FreeIsPlaced
<1>2. ExecutorsInv
  BY <1>1 DEF Init, ExecutorsInv, Placed
<1>3. NoWant \in Pending
  BY EvalBoundsAssumption DEF NoWant, Pending, Contents
<1> QED BY <1>2, <1>3, NoRunIsRow, EvalBoundsAssumption
        DEF Init, EvalTypes, Scalars, RunsInv, RowsInv, Runs, Contents

\* One executor goes over to another state.
LEMMA ExecutorSet ==
    ASSUME EvalTypes, Scalars', nr <= nr', execs <= execs',
           NEW e \in Executors, NEW x, Placed(x, nr', execs'), ex' = [ex EXCEPT ![e] = x]
    PROVE  ExecutorsInv'
<1>1. ex' \in [Executors -> Execution] /\ ex'[e] = x /\ \A f \in Executors : f # e => ex'[f] = ex[f]
  BY DEF EvalTypes, ExecutorsInv, Placed
<1>2. ASSUME NEW f \in Executors, f # e
      PROVE  Placed(ex'[f], nr', execs')
  <2>1. Placed(ex[f], nr, execs) /\ ex'[f] = ex[f]
    BY <1>1, <1>2 DEF EvalTypes, ExecutorsInv
  <2>2. ex[f].run \in Nat /\ nr \in Nat /\ nr' \in Nat /\ execs \in Nat /\ execs' \in Nat
    BY <2>1, EvalBoundsAssumption DEF EvalTypes, Placed, Execution, Scalars
  <2> QED BY <2>1, <2>2 DEF Placed
<1> QED BY <1>1, <1>2 DEF ExecutorsInv

\* The row of a run gets another status, and nothing else changes of it.
LEMMA StatusSet ==
    ASSUME RunsInv, Scalars, NEW r \in Runs, r <= nr, NEW s \in Statuses,
           run' = [run EXCEPT ![r].status = s],
           nr' = nr, execs' = execs, \A q \in Runs : q > nr => ~cancel'[q]
    PROVE  RunsInv'
<1>1. [run[r] EXCEPT !.status = s] \in Row
  BY DEF RunsInv, Row
<1>2. /\ run' \in [Runs -> Row]
      /\ \A q \in Runs : run'[q].metrics = run[q].metrics /\ (q # r => run'[q] = run[q])
  BY <1>1 DEF RunsInv, Row
<1>3. \A q \in Runs : q > nr => q # r
  BY DEF Scalars, Runs
<1> QED BY <1>2, <1>3 DEF RunsInv

LEMMA RequestsTyped ==
    ASSUME EvalTypes,
           \/ CorpusChanges
           \/ \E a \in Creators : CreateCheck(a) \/ CreatePrint(a) \/ CreateInsert(a) \/ CreateDropped(a)
           \/ \E r \in Runs : CancelLoad(r) \/ CancelCommit(r)
    PROVE  EvalTypes'
<1> USE EvalBoundsAssumption DEF EvalTypes
<1>1. CASE CorpusChanges
  BY <1>1 DEF CorpusChanges, Scalars, RunsInv, RowsInv, ExecutorsInv, ActiveRun
<1>2. CASE \E a \in Creators : CreateCheck(a) \/ CreatePrint(a) \/ CreateDropped(a)
  <2>1. UNCHANGED <<run, nr, rows, corpus, edits, cancel, ex, execs>>
    BY <1>2 DEF CreateCheck, CreatePrint, CreateDropped
  <2>2. want' \in [Creators -> Pending]
    <3>1. NoWant \in Pending
      BY DEF NoWant, Pending, Contents
    <3>2. CASE \E a \in Creators : CreateCheck(a) \/ CreateDropped(a)
      BY <3>1, <3>2 DEF CreateCheck, CreateDropped, Scalars, Pending
    <3>3. CASE \E a \in Creators : CreatePrint(a)
      <4>1. PICK a \in Creators : CreatePrint(a)
        BY <3>3
      <4>2. want[a] \in Pending /\ corpus \in Contents /\ edits \in 0 .. MaxEdits
        BY DEF Scalars
      <4>3. [want[a] EXCEPT !.ready = TRUE, !.print = corpus, !.printed = edits] \in Pending
        BY <4>2 DEF Pending
      <4> QED BY <4>1, <4>3 DEF CreatePrint, Scalars
    <3> QED BY <1>2, <3>2, <3>3
  <2> QED BY <2>1, <2>2 DEF Scalars, RunsInv, RowsInv, ExecutorsInv
<1>3. CASE \E a \in Creators : CreateInsert(a)
  <2>1. PICK a \in Creators : CreateInsert(a)
    BY <1>3
  <2> DEFINE new == [config |-> want[a].config, status |-> "queued", print |-> want[a].print,
                     printed |-> want[a].printed, metrics |-> 0, saw |-> {}, ran |-> 0]
  <2>2. /\ nr < MaxRuns /\ nr' = nr + 1 /\ run' = [run EXCEPT ![nr + 1] = new]
        /\ want' = [want EXCEPT ![a] = NoWant]
        /\ UNCHANGED <<rows, corpus, edits, cancel, execs>>
    BY <2>1 DEF CreateInsert, InsertRun
  <2>3. Scalars'
    <3>1. NoWant \in Pending
      BY DEF NoWant, Pending, Contents
    <3> QED BY <2>2, <3>1 DEF Scalars
  <2>4. new \in Row
    BY DEF Scalars, Row, Statuses, EvalActive, Pending
  <2>5. RunsInv'
    <3>1. nr + 1 \in Runs
      BY <2>2 DEF Scalars, Runs
    <3> HIDE DEF new
    <3>2. /\ run' \in [Runs -> Row]
          /\ \A r \in Runs : run'[r] = IF r = nr + 1 THEN new ELSE run[r]
      BY <2>2, <2>4, <3>1 DEF RunsInv
    <3>3. new.metrics <= execs
      BY DEF new, Scalars
    <3> QED BY <2>2, <3>1, <3>2, <3>3 DEF RunsInv, Scalars, Runs
  <2>6. RowsInv'
    BY <2>2 DEF RowsInv
  <2>7. ExecutorsInv'
    <3>1. CASE a \in Clis
      <4>1. PICK y : y = [ex[a] EXCEPT !.pc = "created"]
        OBVIOUS
      <4>2. PICK x : x = [y EXCEPT !.run = nr + 1]
        OBVIOUS
      <4>3. a \in Executors /\ ex' = [ex EXCEPT ![a] = x]
        BY <2>1, <3>1, <4>1, <4>2 DEF CreateInsert, InsertRun, Executors
      <4>4. y \in Execution /\ y.pc = "created"
        BY <4>1, <4>3 DEF ExecutorsInv, Execution, Working
      <4>5. x \in Execution /\ x.pc = "created" /\ x.run = nr + 1
        BY <4>2, <4>4, <2>2 DEF Execution, Scalars
      <4>6. Placed(x, nr', execs')
        BY <4>5, <2>2 DEF Placed, Working, Scalars
      <4>7. nr <= nr' /\ execs <= execs'
        BY <2>2 DEF Scalars
      <4> QED BY <4>3, <4>6, <4>7, <2>3, ExecutorSet
    <3>2. CASE a \notin Clis
      <4>1. ex' = ex
        BY <2>1, <3>2 DEF CreateInsert, InsertRun
      <4>2. \A e \in Executors : Placed(ex[e], nr', execs')
        BY <2>2, EvalBoundsAssumption DEF ExecutorsInv, Placed, Scalars, Execution
      <4> QED BY <4>1, <4>2 DEF ExecutorsInv
    <3> QED BY <3>1, <3>2
  <2> QED BY <2>3, <2>5, <2>6, <2>7
<1>4. CASE \E r \in Runs : CancelLoad(r)
  <2>1. PICK r \in Runs : CancelLoad(r)
    BY <1>4
  <2>2. r <= nr
    BY <2>1 DEF CancelLoad, ActiveRun, RunsInv, NoRun, Scalars, Runs, EvalActive
  <2>3. Scalars' /\ RunsInv'
    BY <2>1, <2>2 DEF CancelLoad, RunsInv, Scalars, Runs
  <2> QED BY <2>1, <2>3 DEF CancelLoad, RowsInv, ExecutorsInv
<1>5. CASE \E r \in Runs : CancelCommit(r)
  <2>1. PICK r \in Runs : CancelCommit(r)
    BY <1>5
  <2>2. r <= nr
    BY <2>1 DEF CancelCommit, RunsInv, Scalars, Runs
  <2>3. /\ run' = [run EXCEPT ![r].status = "cancelled"]
        /\ cancel' = [cancel EXCEPT ![r] = FALSE]
        /\ UNCHANGED <<nr, rows, corpus, edits, want, ex, execs>>
    BY <2>1 DEF CancelCommit
  <2>4. \A q \in Runs : q > nr => ~cancel'[q]
    BY <2>3 DEF RunsInv, Scalars
  <2>5. RunsInv'
    BY <2>2, <2>3, <2>4, StatusSet DEF Statuses, EvalTerminal
  <2> QED BY <2>3, <2>5 DEF Scalars, RowsInv, ExecutorsInv
<1> QED BY <1>1, <1>2, <1>3, <1>4, <1>5

LEMMA ExecutorsTyped ==
    ASSUME EvalTypes,
           \/ \E w \in Workers : ClaimQueued(w) \/ RestartWorker(w)
           \/ \E c \in Clis : CliRefresh(c)
           \/ \E e \in Executors : Execute(e) \/ Lose(e)
    PROVE  EvalTypes'
<1>1. UNCHANGED <<nr, corpus, edits, want, cancel>>
  BY DEF ClaimQueued, RestartWorker, CliRefresh, Execute, Begin, RunCase, RunOneOf, CommitRun,
         CommitConflict, FailRun, RecordFailed, Lose
<1>2. Scalars /\ RunsInv /\ RowsInv /\ ExecutorsInv /\ nr \in Nat /\ execs \in Nat
  BY EvalBoundsAssumption DEF EvalTypes, Scalars
<1>3. ASSUME execs' = execs
      PROVE  Scalars' /\ nr <= nr' /\ execs <= execs'
  BY <1>1, <1>2, <1>3 DEF Scalars
<1>4. \A e \in Executors : ex[e] \in Execution /\ Placed(ex[e], nr, execs)
  BY <1>2 DEF ExecutorsInv
<1>5. \A e \in Executors : ex[e].pc \in Working =>
        ex[e].run \in Runs /\ ex[e].run <= nr
  BY <1>4, EvalBoundsAssumption DEF Placed, Execution, Runs
<1>6. Workers \subseteq Executors /\ Clis \subseteq Executors
  BY DEF Executors
<1>7. ASSUME NEW e \in Executors, NEW p \in Resting, UNCHANGED <<run, rows, execs>>,
             ex' = [ex EXCEPT ![e] = Free(p)]
      PROVE  EvalTypes'
  <2>1. ExecutorsInv'
    BY <1>1, <1>2, <1>3, <1>7, FreeIsPlaced, ExecutorSet
  <2> QED BY <2>1, <1>1, <1>2, <1>3, <1>7 DEF EvalTypes, RowsInv, RunsInv
<1>8. CASE \E w \in Workers : ClaimQueued(w)
  <2>1. PICK w \in Workers, r \in Runs :
          /\ run[r].status = "queued"
          /\ run' = [run EXCEPT ![r].status = "running"]
          /\ ex' = [ex EXCEPT ![w] = [Idle EXCEPT !.pc = "claimed", !.run = r,
                                                  !.loaded = "running"]]
          /\ UNCHANGED <<rows, execs>>
    BY <1>8 DEF ClaimQueued
  <2>2. r <= nr /\ r # 0
    BY <2>1, <1>2 DEF RunsInv, NoRun, Runs
  <2>3. RunsInv'
    <3>1. \A q \in Runs : q > nr => ~cancel'[q]
      BY <1>1, <1>2 DEF RunsInv
    <3> QED BY <3>1, <2>1, <2>2, <1>1, <1>2, StatusSet DEF Statuses, EvalActive
  <2>4. PICK x : x = [Idle EXCEPT !.pc = "claimed"]
    OBVIOUS
  <2>5. PICK y : y = [x EXCEPT !.run = r]
    OBVIOUS
  <2>6. PICK z : z = [y EXCEPT !.loaded = "running"]
    OBVIOUS
  <2>7. Idle \in Execution
    BY <1>2, IdleIsFree, FreeIsPlaced DEF Placed
  <2>8. x \in Execution /\ x.pc = "claimed"
    BY <2>4, <2>7 DEF Execution, Working
  <2>9. y \in Execution /\ y.pc = "claimed" /\ y.run = r
    BY <2>5, <2>8 DEF Execution, Runs
  <2>10. z \in Execution /\ z.pc = "claimed" /\ z.run = r
    BY <2>6, <2>9 DEF Execution, Statuses, EvalActive
  <2>11. Placed(z, nr', execs')
    BY <2>2, <2>10, <1>1 DEF Placed, Working
  <2>12. ex' = [ex EXCEPT ![w] = z]
    BY <2>1, <2>4, <2>5, <2>6
  <2>13. ExecutorsInv'
    BY <2>1, <2>11, <2>12, <1>3, <1>6, ExecutorSet
  <2> QED BY <2>1, <2>3, <2>13, <1>2, <1>3 DEF RowsInv, EvalTypes
<1>9. CASE \E w \in Workers : RestartWorker(w)
  BY <1>6, <1>7, <1>9, IdleIsFree DEF RestartWorker
<1>10. CASE \E c \in Clis : CliRefresh(c)
  <2>1. PICK c \in Clis : CliRefresh(c)
    BY <1>10
  <2>2. /\ ex[c].pc = "created" /\ c \in Executors
        /\ ex' = [ex EXCEPT ![c] = [ex[c] EXCEPT !.pc = "claimed",
                                                 !.loaded = run[ex[c].run].status]]
        /\ UNCHANGED <<run, rows, execs>>
    BY <2>1, <1>6 DEF CliRefresh
  <2>3. ex[c].run \in Runs /\ ex[c].run <= nr /\ run[ex[c].run].status \in Statuses
    BY <2>2, <1>2, <1>5 DEF Working, RunsInv, Row
  <2>4. PICK x : x = [ex[c] EXCEPT !.pc = "claimed"]
    OBVIOUS
  <2>5. PICK y : y = [x EXCEPT !.loaded = run[ex[c].run].status]
    OBVIOUS
  <2>6. x \in Execution /\ x.pc = "claimed" /\ x.run = ex[c].run
    BY <2>2, <2>4, <1>4 DEF Execution, Working
  <2>7. y \in Execution /\ y.pc = "claimed" /\ y.run = ex[c].run
    BY <2>3, <2>5, <2>6 DEF Execution
  <2>8. Placed(y, nr', execs')
    BY <2>3, <2>7, <1>1 DEF Placed, Working, Runs
  <2>9. ex' = [ex EXCEPT ![c] = y]
    BY <2>2, <2>4, <2>5
  <2>10. ExecutorsInv'
    BY <2>2, <2>8, <2>9, <1>3, ExecutorSet
  <2> QED BY <2>2, <2>10, <1>1, <1>2, <1>3 DEF RowsInv, RunsInv, EvalTypes
<1>11. CASE \E e \in Executors : Begin(e)
  <2>1. PICK e \in Executors : Begin(e)
    BY <1>11
  <2>2. /\ ex[e].pc = "claimed" /\ execs' = execs + 1
        /\ ex' = [ex EXCEPT ![e] =
             [ex[e] EXCEPT !.pc = "executing", !.id = execs + 1, !.left = Cases,
                           !.saw = {}, !.removed = rows[ex[e].run], !.lock = ex[e].loaded # "running"]]
        /\ UNCHANGED <<run, rows>>
    BY <2>1 DEF Begin
  <2>3. ex[e].run \in Runs /\ ex[e].run <= nr /\ rows[ex[e].run] \subseteq Nat
    BY <2>2, <1>2, <1>5 DEF Working, RowsInv
  <2>4. PICK a : a = [ex[e] EXCEPT !.pc = "executing"]
    OBVIOUS
  <2>5. PICK b : b = [a EXCEPT !.id = execs + 1]
    OBVIOUS
  <2>6. PICK c : c = [b EXCEPT !.left = Cases]
    OBVIOUS
  <2>20. PICK s : s = [c EXCEPT !.saw = {}]
    OBVIOUS
  <2>7. PICK d : d = [s EXCEPT !.removed = rows[ex[e].run]]
    OBVIOUS
  <2>8. PICK x : x = [d EXCEPT !.lock = (ex[e].loaded # "running")]
    OBVIOUS
  <2>9. a \in Execution /\ a.pc = "executing" /\ a.run = ex[e].run
    BY <2>4, <1>4 DEF Execution, Working
  <2>10. b \in Execution /\ b.pc = "executing" /\ b.run = ex[e].run /\ b.id = execs + 1
    BY <2>5, <2>9, <1>2 DEF Execution
  <2>11. c \in Execution /\ c.pc = "executing" /\ c.run = ex[e].run /\ c.id = execs + 1
    BY <2>6, <2>10, EvalBoundsAssumption DEF Execution
  <2>21. s \in Execution /\ s.pc = "executing" /\ s.run = ex[e].run /\ s.id = execs + 1
    BY <2>20, <2>11 DEF Execution
  <2>12. d \in Execution /\ d.pc = "executing" /\ d.run = ex[e].run /\ d.id = execs + 1
    BY <2>7, <2>21, <2>3 DEF Execution
  <2>13. x \in Execution /\ x.pc = "executing" /\ x.run = ex[e].run /\ x.id = execs + 1
    BY <2>8, <2>12 DEF Execution
  <2>14. Placed(x, nr', execs')
    BY <2>2, <2>3, <2>13, <1>1, <1>2 DEF Placed, Working, Runs
  <2>15. ex' = [ex EXCEPT ![e] = x]
    BY <2>2, <2>4, <2>5, <2>6, <2>7, <2>8, <2>20
  <2>16. Scalars' /\ nr <= nr' /\ execs <= execs'
    BY <2>2, <1>1, <1>2 DEF Scalars
  <2>17. ExecutorsInv'
    BY <2>14, <2>15, <2>16, ExecutorSet
  <2>18. RowsInv'
    BY <2>2, <1>2 DEF RowsInv
  <2>19. RunsInv'
    BY <2>2, <1>1, <1>2 DEF RunsInv, Row
  <2> QED BY <2>16, <2>17, <2>18, <2>19 DEF EvalTypes
<1>12. CASE \E e \in Executors : RunCase(e)
  <2>1. PICK e \in Executors : RunCase(e)
    BY <1>12
  <2>2. /\ ex[e].pc = "executing" /\ ex[e].left > 0
        /\ ex' = [ex EXCEPT ![e] = [ex[e] EXCEPT !.left = ex[e].left - 1,
                                                 !.saw = ex[e].saw \cup {corpus},
                                                 !.ran = edits]]
        /\ UNCHANGED <<run, rows, execs>>
    BY <2>1 DEF RunCase, RunOneOf
  <2>3. PICK x : x = [ex[e] EXCEPT !.left = ex[e].left - 1]
    OBVIOUS
  <2>4. PICK y : y = [x EXCEPT !.saw = ex[e].saw \cup {corpus}]
    OBVIOUS
  <2>5. ex[e].left - 1 \in 0 .. Cases /\ ex[e].saw \cup {corpus} \in SUBSET Contents
    BY <2>2, <1>2, <1>4, EvalBoundsAssumption DEF Execution, Scalars
  <2>6. PICK z : z = [y EXCEPT !.ran = edits]
    OBVIOUS
  <2>7. /\ z \in Execution
        /\ z.pc = ex[e].pc /\ z.run = ex[e].run /\ z.id = ex[e].id
    <3>1. x \in Execution /\ x.pc = ex[e].pc /\ x.run = ex[e].run /\ x.id = ex[e].id
      BY <2>3, <2>5, <1>4 DEF Execution
    <3>2. y \in Execution /\ y.pc = ex[e].pc /\ y.run = ex[e].run /\ y.id = ex[e].id
      BY <2>4, <2>5, <3>1 DEF Execution
    <3> QED BY <2>6, <3>2, <1>2 DEF Execution, Scalars
  <2>8. Placed(z, nr', execs')
    BY <2>2, <2>7, <1>1, <1>4 DEF Placed
  <2>9. ex' = [ex EXCEPT ![e] = z]
    BY <2>2, <2>3, <2>4, <2>6
  <2>10. ExecutorsInv'
    BY <2>2, <2>8, <2>9, <1>3, ExecutorSet
  <2> QED BY <2>2, <2>10, <1>1, <1>2, <1>3 DEF RowsInv, RunsInv, EvalTypes
<1>13. CASE \E e \in Executors : CommitConflict(e) \/ FailRun(e)
  <2>1. PICK e \in Executors : CommitConflict(e) \/ FailRun(e)
    BY <1>13
  <2>2. /\ ex[e].pc = "executing"
        /\ ex' = [ex EXCEPT ![e] = [ex[e] EXCEPT !.pc = "failing", !.lock = FALSE]]
        /\ UNCHANGED <<run, rows, execs>>
    BY <2>1 DEF CommitConflict, FailRun, AllCasesRun
  <2>3. PICK x : x = [ex[e] EXCEPT !.pc = "failing"]
    OBVIOUS
  <2>4. PICK y : y = [x EXCEPT !.lock = FALSE]
    OBVIOUS
  <2>5. x \in Execution /\ x.pc = "failing" /\ x.run = ex[e].run
    BY <2>3, <1>4 DEF Execution, Working
  <2>6. y \in Execution /\ y.pc = "failing" /\ y.run = ex[e].run
    BY <2>4, <2>5 DEF Execution
  <2>7. Placed(y, nr', execs')
    BY <2>2, <2>6, <1>1, <1>4 DEF Placed, Working
  <2>8. ex' = [ex EXCEPT ![e] = y]
    BY <2>2, <2>3, <2>4
  <2>9. ExecutorsInv'
    BY <2>2, <2>7, <2>8, <1>3, ExecutorSet
  <2> QED BY <2>2, <2>9, <1>1, <1>2, <1>3 DEF RowsInv, RunsInv, EvalTypes
<1>14. CASE \E e \in Executors : CommitRun(e)
  <2>0. PICK e \in Executors : CommitRun(e)
    BY <1>14
  <2>1. PICK r : r = ex[e].run /\ CommitRun(e)
    BY <2>0
  <2>2. /\ ex[e].pc = "executing" /\ execs' = execs
        /\ rows' = [rows EXCEPT ![r] = {ex[e].id}]
        /\ run' = [run EXCEPT ![r] = [run[r] EXCEPT !.status = "succeeded",
                                        !.metrics = ex[e].id, !.saw = ex[e].saw,
                                        !.ran = ex[e].ran]]
        /\ ex' = [ex EXCEPT ![e] = After(e)]
    BY <2>1 DEF CommitRun, AllCasesRun
  <2>3. /\ r \in Runs /\ r <= nr /\ ex[e].id \in 1 .. execs
        /\ ex[e].saw \in SUBSET Contents /\ ex[e].ran \in 0 .. MaxEdits
    BY <2>1, <2>2, <1>4, <1>5 DEF Placed, Working, Execution
  <2>4. RowsInv'
    BY <2>2, <2>3, <1>2 DEF RowsInv
  <2>5. PICK p \in Resting : After(e) = Free(p)
    BY IdleIsFree DEF After, Free, Resting
  <2>6. ExecutorsInv'
    BY <2>2, <2>5, <1>1, <1>2, <1>3, FreeIsPlaced, ExecutorSet
  <2>7. RunsInv'
    <3>1. PICK x : x = [run[r] EXCEPT !.status = "succeeded"]
      OBVIOUS
    <3>2. PICK y : y = [x EXCEPT !.metrics = ex[e].id]
      OBVIOUS
    <3>3. PICK z : z = [y EXCEPT !.saw = ex[e].saw]
      OBVIOUS
    <3>9. PICK u : u = [z EXCEPT !.ran = ex[e].ran]
      OBVIOUS
    <3>4. x \in Row
      BY <2>3, <3>1, <1>2 DEF RunsInv, Row, Statuses, EvalTerminal
    <3>5. y \in Row /\ y.metrics = ex[e].id
      BY <2>3, <3>2, <3>4 DEF Row
    <3>6. z \in Row /\ z.metrics = ex[e].id
      BY <2>3, <3>3, <3>5 DEF Row
    <3>10. u \in Row /\ u.metrics = ex[e].id
      BY <2>3, <3>6, <3>9 DEF Row
    <3>7. run' = [run EXCEPT ![r] = u]
      BY <2>2, <3>1, <3>2, <3>3, <3>9
    <3>8. \A q \in Runs : q > nr => q # r
      BY <2>3, <1>2 DEF Runs
    <3> QED BY <3>7, <3>8, <3>10, <2>2, <2>3, <1>1, <1>2 DEF RunsInv
  <2> QED BY <2>2, <2>4, <2>6, <2>7, <1>3 DEF EvalTypes
<1>15. CASE \E e \in Executors : RecordFailed(e)
  <2>1. PICK e \in Executors : RecordFailed(e)
    BY <1>15
  <2>2. PICK r : r = ex[e].run
    OBVIOUS
  <2>3. PICK p : p = IF e \in Workers THEN "down" ELSE "exited"
    OBVIOUS
  <2>4. /\ ex[e].pc = "failing" /\ UNCHANGED <<rows, execs>>
        /\ run' = [run EXCEPT ![r].status = "failed"]
        /\ ex' = [ex EXCEPT ![e] = Free(p)]
    BY <2>1, <2>2, <2>3 DEF RecordFailed, Free
  <2>5. r \in Runs /\ r <= nr
    BY <2>2, <2>4, <1>5 DEF Working
  <2>6. RunsInv'
    BY <2>4, <2>5, <1>1, <1>2, StatusSet DEF Statuses, EvalTerminal, RunsInv
  <2>7. p \in Resting
    BY <2>3 DEF Resting
  <2>8. ExecutorsInv'
    BY <2>4, <2>7, <1>1, <1>2, <1>3, FreeIsPlaced, ExecutorSet
  <2> QED BY <2>4, <2>6, <2>8, <1>2, <1>3 DEF RowsInv, EvalTypes
<1>16. CASE \E e \in Executors : Lose(e)
  BY <1>7, <1>16 DEF Lose, Free, Resting
<1> QED BY <1>8, <1>9, <1>10, <1>11, <1>12, <1>13, <1>14, <1>15, <1>16 DEF Execute

LEMMA EvalTypesPreserved == EvalTypes /\ [Next]_vars => EvalTypes'
<1> SUFFICES ASSUME EvalTypes, [Next]_vars
             PROVE  EvalTypes'
  OBVIOUS
<1>1. CASE UNCHANGED vars
  BY <1>1 DEF vars, EvalTypes, Scalars, RunsInv, RowsInv, ExecutorsInv
<1>2. CASE Poll
  BY <1>1, <1>2 DEF Poll
<1> QED BY <1>1, <1>2, RequestsTyped, ExecutorsTyped DEF Next

\* The variables of EvalRuns have their types, whatever the number of
\* executors: a run's metrics and rows name executions that have begun.
THEOREM EvalRunsTyped == Spec => []TypeOK
<1>1. EvalTypes => TypeOK
  <2>1. ASSUME EvalTypes
        PROVE  run \in [Runs -> [config : Configs \cup {"none"},
                          status : EvalActive \cup EvalTerminal \cup {"none"},
                          print : Contents, printed : 0 .. MaxEdits,
                          metrics : 0 .. execs, saw : SUBSET Contents,
                          ran : 0 .. MaxEdits]]
    BY <2>1 DEF EvalTypes, RunsInv, Row, Statuses, Scalars
  <2>2. ASSUME EvalTypes
        PROVE  \A e \in Executors :
                 /\ ex[e].pc \in {"idle", "created", "claimed", "executing", "failing",
                                  "down", "exited"}
                 /\ ex[e].run \in 0 .. MaxRuns
                 /\ ex[e].left \in 0 .. Cases
    BY <2>2 DEF EvalTypes, ExecutorsInv, Execution, Working, Resting
  <2> QED BY <2>1, <2>2 DEF EvalTypes, TypeOK, Scalars, RowsInv, Pending
<1> QED BY <1>1, EvalTypesInit, EvalTypesPreserved, PTL DEF Spec

-----------------------------------------------------------------------------
(* Metrics and rows *)

\* What each step does to a row of eval_runs: it is created, gets another
\* status, or takes an execution's result; otherwise nothing of it changes.
RunStays == UNCHANGED <<run, rows>>

RunCreated ==
    /\ rows' = rows
    /\ \A r \in Runs : IF r = nr + 1
         THEN run'[r].status = "queued" /\ run'[r].metrics = 0
         ELSE run'[r] = run[r]

StatusMoves(r, s) ==
    /\ rows' = rows
    /\ run'[r].status = s /\ run'[r].metrics = run[r].metrics
    /\ run'[r].print = run[r].print /\ run'[r].printed = run[r].printed
    /\ run'[r].saw = run[r].saw /\ run'[r].ran = run[r].ran
    /\ \A q \in Runs : q # r => run'[q] = run[q]

ResultStands(e, r) ==
    /\ rows'[r] = {ex[e].id}
    /\ run'[r].status = "succeeded" /\ run'[r].metrics = ex[e].id
    /\ run'[r].print = run[r].print /\ run'[r].printed = run[r].printed
    /\ run'[r].saw = ex[e].saw /\ run'[r].ran = ex[e].ran
    /\ \A q \in Runs : q # r => run'[q] = run[q] /\ rows'[q] = rows[q]

LEMMA CreationIs ==
    ASSUME EvalTypes, NEW a \in Creators, CreateInsert(a)
    PROVE  RunCreated
<1> DEFINE new == [config |-> want[a].config, status |-> "queued", print |-> want[a].print,
                   printed |-> want[a].printed, metrics |-> 0, saw |-> {}, ran |-> 0]
<1>1. run' = [run EXCEPT ![nr + 1] = new] /\ rows' = rows
  BY DEF CreateInsert, InsertRun
<1>2. new.status = "queued" /\ new.metrics = 0
  OBVIOUS
<1> HIDE DEF new
<1> QED BY <1>1, <1>2 DEF RunCreated, EvalTypes, RunsInv

LEMMA StatusIs ==
    ASSUME EvalTypes, NEW r \in Runs, NEW s, rows' = rows,
           run' = [run EXCEPT ![r].status = s]
    PROVE  StatusMoves(r, s)
BY DEF StatusMoves, EvalTypes, RunsInv, Row

LEMMA ClaimIs ==
    ASSUME EvalTypes, NEW w \in Workers, ClaimQueued(w)
    PROVE  \E r \in Runs : /\ StatusMoves(r, "running") /\ run[r].status = "queued"
                           /\ ex' = [ex EXCEPT ![w] = [Idle EXCEPT !.pc = "claimed", !.run = r,
                                                         !.loaded = "running"]]
BY StatusIs DEF ClaimQueued

LEMMA CommitIs ==
    ASSUME EvalTypes, NEW e \in Executors, CommitRun(e)
    PROVE  /\ ex[e].run \in Runs /\ ex[e].id \in 1 .. execs
           /\ ResultStands(e, ex[e].run)
<1>1. PICK r : r = ex[e].run
  OBVIOUS
<1>2. /\ ex[e].pc = "executing"
      /\ rows' = [rows EXCEPT ![r] = {ex[e].id}]
      /\ run' = [run EXCEPT ![r] = [run[r] EXCEPT !.status = "succeeded",
                                      !.metrics = ex[e].id, !.saw = ex[e].saw,
                                      !.ran = ex[e].ran]]
  BY <1>1 DEF CommitRun, AllCasesRun
<1>3. Placed(ex[e], nr, execs) /\ run \in [Runs -> Row] /\ rows \in [Runs -> SUBSET (1 .. execs)]
  BY DEF EvalTypes, ExecutorsInv, RunsInv, RowsInv
<1>4. r \in Runs /\ ex[e].id \in 1 .. execs
  BY <1>1, <1>2, <1>3, EvalBoundsAssumption DEF Placed, Execution, Working, Runs
<1>5. PICK x : x = [run[r] EXCEPT !.status = "succeeded"]
  OBVIOUS
<1>6. PICK y : y = [x EXCEPT !.metrics = ex[e].id]
  OBVIOUS
<1>7. PICK z : z = [y EXCEPT !.saw = ex[e].saw]
  OBVIOUS
<1>13. PICK u : u = [z EXCEPT !.ran = ex[e].ran]
  OBVIOUS
<1>14. ex[e].saw \in SUBSET Contents
  BY <1>3 DEF Placed, Execution
<1>8. /\ x \in Row /\ x.status = "succeeded"
      /\ x.print = run[r].print /\ x.printed = run[r].printed
  BY <1>3, <1>4, <1>5 DEF Row, Statuses, EvalTerminal
<1>9. /\ y \in Row /\ y.status = "succeeded" /\ y.metrics = ex[e].id
      /\ y.print = run[r].print /\ y.printed = run[r].printed
  BY <1>4, <1>6, <1>8 DEF Row
<1>15. /\ z \in Row /\ z.status = "succeeded" /\ z.metrics = ex[e].id
       /\ z.print = run[r].print /\ z.printed = run[r].printed /\ z.saw = ex[e].saw
  BY <1>7, <1>9, <1>14 DEF Row
<1>10. /\ u.status = "succeeded" /\ u.print = run[r].print /\ u.metrics = ex[e].id
       /\ u.printed = run[r].printed /\ u.saw = ex[e].saw /\ u.ran = ex[e].ran
  BY <1>13, <1>15 DEF Row
<1>11. run' = [run EXCEPT ![r] = u]
  BY <1>2, <1>5, <1>6, <1>7, <1>13
<1>12. ResultStands(e, r)
  BY <1>2, <1>3, <1>4, <1>10, <1>11 DEF ResultStands
<1> QED BY <1>1, <1>4, <1>12

\* Why the status moves: a request that found the run active, a claim from the
\* queue, or the executor that ends with the run.
Cause(r, s) ==
    \/ s = "cancelled" /\ cancel[r]
    \/ s = "running" /\ run[r].status = "queued"
    \/ s = "failed" /\ \E e \in Executors : ex[e].run = r /\ ex'[e].run = 0

LEMMA RunSteps ==
    ASSUME EvalTypes, [Next]_vars
    PROVE  \/ RunStays
           \/ RunCreated
           \/ \E r \in Runs, s \in {"cancelled", "running", "failed"} :
                StatusMoves(r, s) /\ Cause(r, s)
           \/ \E e \in Executors :
                /\ AllCasesRun(e) /\ ex[e].run \in Runs /\ ex[e].id \in 1 .. execs
                /\ ex'[e].run = 0 /\ ResultStands(e, ex[e].run)
<1>1. \A e \in Executors, p \in Resting : ex' = [ex EXCEPT ![e] = Free(p)] => ex'[e].run = 0
  BY FreeIsPlaced DEF EvalTypes, ExecutorsInv
<1>2. CASE \E a \in Creators : CreateInsert(a)
  BY <1>2, CreationIs
<1>3. CASE \E w \in Workers : ClaimQueued(w)
  BY <1>3, ClaimIs DEF Cause
<1>4. CASE \E r \in Runs : CancelCommit(r)
  BY <1>4, StatusIs DEF CancelCommit, Cause
<1>5. CASE \E e \in Executors : RecordFailed(e)
  <2>1. PICK e \in Executors : RecordFailed(e)
    BY <1>5
  <2>2. PICK r : r = ex[e].run
    OBVIOUS
  <2>3. Placed(ex[e], nr, execs) /\ ex[e].pc = "failing"
    BY <2>1 DEF RecordFailed, EvalTypes, ExecutorsInv
  <2>4. r \in Runs
    BY <2>2, <2>3, EvalBoundsAssumption DEF Placed, Execution, Working, Runs
  <2>5. StatusMoves(r, "failed")
    BY <2>1, <2>2, <2>4, StatusIs DEF RecordFailed
  <2>6. ex'[e].run = 0
    BY <2>1, <1>1 DEF RecordFailed, Free, Resting
  <2> QED BY <2>2, <2>4, <2>5, <2>6 DEF Cause
<1>6. CASE \E e \in Executors : CommitRun(e)
  <2>1. PICK e \in Executors : CommitRun(e)
    BY <1>6
  <2>2. ex'[e].run = 0
    BY <2>1, <1>1, IdleIsFree DEF CommitRun, After, Free, Resting
  <2> QED BY <2>1, <2>2, CommitIs DEF CommitRun
<1>7. CASE \/ CorpusChanges \/ Poll \/ UNCHANGED vars
           \/ \E a \in Creators : CreateCheck(a) \/ CreatePrint(a) \/ CreateDropped(a)
           \/ \E r \in Runs : CancelLoad(r)
           \/ \E w \in Workers : RestartWorker(w)
           \/ \E c \in Clis : CliRefresh(c)
           \/ \E e \in Executors : \/ Begin(e) \/ RunCase(e) \/ CommitConflict(e)
                                   \/ FailRun(e) \/ Lose(e)
  BY <1>7 DEF RunStays, CorpusChanges, Poll, CreateCheck, CreatePrint, CreateDropped, CancelLoad,
              RestartWorker, CliRefresh, Begin, RunCase, RunOneOf, CommitConflict, FailRun,
              Lose, vars
<1> QED BY <1>2, <1>3, <1>4, <1>5, <1>6, <1>7 DEF Next, Execute

\* A run's metrics and its rows are of one execution, and a run that shows
\* success has rows, however many processes execute, cancel or fail it.
THEOREM MetricsAreOfTheRows == Spec => []MetricsMatchRows
<1>1. Init => MetricsMatchRows
  BY DEF Init, MetricsMatchRows, NoRun
<1>2. EvalTypes /\ MetricsMatchRows /\ [Next]_vars => MetricsMatchRows'
  <2> SUFFICES ASSUME EvalTypes, MetricsMatchRows, [Next]_vars
               PROVE  MetricsMatchRows'
    OBVIOUS
  <2>1. CASE RunStays
    BY <2>1 DEF RunStays, MetricsMatchRows
  <2>2. CASE RunCreated
    <3>1. \A r \in Runs : r = nr + 1 => rows[r] = {}
      <4>1. \A r \in Runs : r = nr + 1 => run[r] = NoRun
        BY EvalBoundsAssumption DEF EvalTypes, RunsInv, Scalars, Runs
      <4> QED BY <4>1, NoRunIsRow DEF MetricsMatchRows
    <3> QED BY <2>2, <3>1 DEF RunCreated, MetricsMatchRows
  <2>3. ASSUME NEW r \in Runs, NEW s \in {"cancelled", "running", "failed"}, StatusMoves(r, s)
        PROVE  MetricsMatchRows'
    BY <2>3 DEF StatusMoves, MetricsMatchRows
  <2>4. ASSUME NEW e \in Executors, ex[e].run \in Runs, ex[e].id \in 1 .. execs,
               ResultStands(e, ex[e].run)
        PROVE  MetricsMatchRows'
    <3>1. ex[e].id # 0
      BY <2>4 DEF EvalTypes, Scalars
    <3>2. PICK r : r = ex[e].run
      OBVIOUS
    <3>3. PICK n : n = ex[e].id
      OBVIOUS
    <3>4. /\ r \in Runs /\ n # 0 /\ rows'[r] = {n} /\ run'[r].metrics = n
          /\ \A q \in Runs : q # r => run'[q] = run[q] /\ rows'[q] = rows[q]
      BY <2>4, <3>1, <3>2, <3>3 DEF ResultStands
    <3> QED BY <3>4 DEF MetricsMatchRows
  <2> QED BY <2>1, <2>2, <2>3, <2>4, RunSteps
<1> QED BY <1>1, <1>2, EvalTypesInit, EvalTypesPreserved, PTL DEF Spec

-----------------------------------------------------------------------------
(* One worker for a run *)

\* A run that a worker has is no longer queued, so nobody claims it again.
TakenInv == \A w \in Workers : ex[w].run # 0 => run[ex[w].run].status # "queued"

\* What each step does to the run of a worker: it keeps it, lets go of it, or
\* has claimed it from the queue.
LEMMA WorkersMove ==
    ASSUME EvalTypes, [Next]_vars, NEW w \in Workers
    PROVE  \/ ex'[w].run = ex[w].run
           \/ ex'[w].run = 0
           \/ /\ ex'[w].run \in Runs /\ run[ex'[w].run].status = "queued"
              /\ run'[ex'[w].run].status = "running"
              /\ \A v \in Workers : v # w => ex'[v].run = ex[v].run
<1>1. ex \in [Executors -> Execution] /\ w \in Executors
  BY DEF EvalTypes, ExecutorsInv, Executors
<1>2. \A e \in Executors : \A x : ex' = [ex EXCEPT ![e] = x] =>
        ex'[e] = x /\ \A f \in Executors : f # e => ex'[f] = ex[f]
  BY <1>1
<1>3. CASE \E v \in Workers : ClaimQueued(v)
  <2>1. PICK v \in Workers, r \in Runs :
          /\ StatusMoves(r, "running") /\ run[r].status = "queued"
          /\ ex' = [ex EXCEPT ![v] = [Idle EXCEPT !.pc = "claimed", !.run = r,
                                        !.loaded = "running"]]
    BY <1>3, ClaimIs
  <2>2. [Idle EXCEPT !.pc = "claimed", !.run = r, !.loaded = "running"].run = r
    BY DEF Idle
  <2>3. ex'[v].run = r /\ \A f \in Workers : f # v => ex'[f] = ex[f]
    BY <1>1, <2>1, <2>2 DEF Executors
  <2> QED BY <2>1, <2>3 DEF StatusMoves
<1>4. CASE \E v \in Workers : RestartWorker(v)
  BY <1>1, <1>4 DEF RestartWorker, Executors, Idle
<1>5. CASE \E a \in Creators : CreateInsert(a)
  <2>1. ex'[w] = ex[w]
    BY <1>1, <1>5, EvalRolesAssumption DEF CreateInsert, InsertRun
  <2> QED BY <2>1
<1>6. CASE \E c \in Clis : CliRefresh(c)
  <2>1. ex'[w] = ex[w]
    BY <1>1, <1>6, EvalRolesAssumption DEF CliRefresh
  <2> QED BY <2>1
<1>7. CASE \E e \in Executors : Begin(e) \/ RunCase(e) \/ CommitConflict(e) \/ FailRun(e)
  <2>1. PICK e \in Executors : Begin(e) \/ RunCase(e) \/ CommitConflict(e) \/ FailRun(e)
    BY <1>7
  <2>2. CASE e # w
    BY <1>1, <2>1, <2>2 DEF Begin, RunCase, RunOneOf, CommitConflict, FailRun
  <2>3. CASE e = w
    <3>1. ex[w] \in Execution
      BY <1>1
    <3>2. CASE Begin(w)
      BY <1>1, <3>1, <3>2 DEF Begin, Execution
    <3>3. CASE RunCase(w)
      BY <1>1, <3>1, <3>3 DEF RunCase, RunOneOf, Execution
    <3>4. CASE CommitConflict(w) \/ FailRun(w)
      BY <1>1, <3>1, <3>4 DEF CommitConflict, FailRun, Execution
    <3> QED BY <2>1, <2>3, <3>2, <3>3, <3>4
  <2> QED BY <2>2, <2>3
<1>8. CASE \E e \in Executors : CommitRun(e) \/ RecordFailed(e) \/ Lose(e)
  <2>1. PICK e \in Executors : CommitRun(e) \/ RecordFailed(e) \/ Lose(e)
    BY <1>8
  <2>2. PICK p \in Resting : ex' = [ex EXCEPT ![e] = Free(p)]
    BY <2>1, IdleIsFree DEF CommitRun, RecordFailed, Lose, After, Free, Resting
  <2>3. Free(p).run = 0
    BY FreeIsPlaced
  <2> QED BY <1>1, <2>2, <2>3
<1>9. CASE \/ CorpusChanges \/ Poll \/ UNCHANGED vars
           \/ \E a \in Creators : CreateCheck(a) \/ CreatePrint(a) \/ CreateDropped(a)
           \/ \E r \in Runs : CancelLoad(r) \/ CancelCommit(r)
  BY <1>9 DEF CorpusChanges, Poll, CreateCheck, CreatePrint, CreateDropped, CancelLoad, CancelCommit, vars
<1> QED BY <1>3, <1>4, <1>5, <1>6, <1>7, <1>8, <1>9 DEF Next, Execute

LEMMA TakenPreserved == EvalTypes /\ TakenInv /\ [Next]_vars => TakenInv'
<1> SUFFICES ASSUME EvalTypes, TakenInv, [Next]_vars, NEW w \in Workers, ex'[w].run # 0
             PROVE  run'[ex'[w].run].status # "queued"
  BY DEF TakenInv
<1>1. Placed(ex[w], nr, execs) /\ nr \in Nat
  BY EvalBoundsAssumption DEF EvalTypes, ExecutorsInv, Executors, Scalars
<1>2. CASE ex'[w].run = ex[w].run
  <2>1. PICK r : r = ex[w].run
    OBVIOUS
  <2>2. /\ r \in Runs /\ r <= nr /\ r # nr + 1 /\ run[r].status # "queued"
        /\ ex'[w].run = r
    BY <1>1, <1>2, <2>1, EvalBoundsAssumption DEF TakenInv, Placed, Execution, Runs
  <2>3. run'[r].status # "queued"
    BY <2>2, RunSteps DEF RunStays, RunCreated, StatusMoves, ResultStands
  <2> QED BY <2>2, <2>3
<1> QED BY <1>2, WorkersMove

\* No run is executed by two workers: claims are taken from queued rows only,
\* and nothing queues a run again.
THEOREM NoRunHasTwoWorkers == Spec => []WorkersDoNotShare
<1>1. Init => TakenInv /\ WorkersDoNotShare
  BY DEF Init, TakenInv, WorkersDoNotShare, Executors, Idle
<1>2. EvalTypes /\ TakenInv /\ WorkersDoNotShare /\ [Next]_vars => WorkersDoNotShare'
  <2> SUFFICES ASSUME EvalTypes, TakenInv, WorkersDoNotShare, [Next]_vars,
                      NEW v \in Workers, NEW w \in Workers, v # w, ex'[v].run # 0
               PROVE  ex'[v].run # ex'[w].run
    BY DEF WorkersDoNotShare
  <2>1. CASE ex'[v].run = ex[v].run /\ ex'[w].run = ex[w].run
    BY <2>1 DEF WorkersDoNotShare
  <2>2. CASE run[ex'[v].run].status = "queued" /\ ex'[w].run = ex[w].run
    BY <2>2 DEF TakenInv
  <2>3. CASE run[ex'[w].run].status = "queued" /\ ex'[v].run = ex[v].run
    BY <2>3 DEF TakenInv
  <2> QED BY <2>1, <2>2, <2>3, WorkersMove
<1> QED BY <1>1, <1>2, EvalTypesInit, EvalTypesPreserved, TakenPreserved, PTL DEF Spec

-----------------------------------------------------------------------------
(* Runs that have finished *)

LEMMA CreatedIsNew ==
    ASSUME EvalTypes, NEW r \in Runs, run[r].status # "none" \/ r <= nr
    PROVE  r # nr + 1
BY NoRunIsRow, EvalBoundsAssumption DEF EvalTypes, RunsInv, Scalars, Runs

\* An executor keeps its run, lets go of it, claims a queued one or, a CLI
\* process, has the one it has just created.
LEMMA HoldersMove ==
    ASSUME EvalTypes, [Next]_vars, NEW e \in Executors
    PROVE  \/ ex'[e].run = ex[e].run
           \/ ex'[e].run = 0
           \/ ex'[e].run \in Runs /\ run[ex'[e].run].status = "queued"
           \/ ex'[e].run = nr + 1
<1>1. ex \in [Executors -> Execution]
  BY DEF EvalTypes, ExecutorsInv
<1>2. CASE e \in Workers
  BY <1>2, WorkersMove
<1>3. CASE UNCHANGED ex
  BY <1>3
<1>4. CASE e \notin Workers /\ \E w \in Workers : ClaimQueued(w) \/ RestartWorker(w)
  BY <1>1, <1>4 DEF ClaimQueued, RestartWorker, Executors
<1>5. CASE \E a \in Creators : CreateInsert(a)
  <2>1. PICK a \in Creators : CreateInsert(a)
    BY <1>5
  <2>2. CASE a = e
    BY <1>1, <2>1, <2>2 DEF CreateInsert, InsertRun, Execution
  <2>3. CASE a # e
    BY <1>1, <2>1, <2>3 DEF CreateInsert, InsertRun
  <2> QED BY <2>2, <2>3
<1>6. CASE \E c \in Clis : CliRefresh(c)
  <2>1. PICK c \in Clis : CliRefresh(c)
    BY <1>6
  <2>2. c \in Executors /\ ex[c] \in Execution
    BY <1>1 DEF Executors
  <2>3. ex'[c].run = ex[c].run
    BY <1>1, <2>1, <2>2 DEF CliRefresh, Execution
  <2>4. c # e => ex'[e] = ex[e]
    BY <1>1, <2>1, <2>2 DEF CliRefresh
  <2> QED BY <2>3, <2>4
<1>7. CASE \E f \in Executors : Execute(f) \/ Lose(f)
  <2>1. PICK f \in Executors : Execute(f) \/ Lose(f)
    BY <1>7
  <2>2. CASE f # e
    BY <1>1, <2>1, <2>2 DEF Execute, Begin, RunCase, RunOneOf, CommitRun, CommitConflict,
                            FailRun, RecordFailed, Lose
  <2>3. CASE f = e
    <3>1. ex[e] \in Execution
      BY <1>1
    <3>2. CASE Begin(e)
      BY <1>1, <3>1, <3>2 DEF Begin, Execution
    <3>3. CASE RunCase(e)
      BY <1>1, <3>1, <3>3 DEF RunCase, RunOneOf, Execution
    <3>4. CASE CommitConflict(e) \/ FailRun(e)
      BY <1>1, <3>1, <3>4 DEF CommitConflict, FailRun, Execution
    <3>5. CASE CommitRun(e) \/ RecordFailed(e) \/ Lose(e)
      <4>1. PICK p \in Resting : ex' = [ex EXCEPT ![e] = Free(p)]
        BY <3>5, IdleIsFree DEF CommitRun, RecordFailed, Lose, After, Free, Resting
      <4> QED BY <1>1, <4>1, FreeIsPlaced
    <3> QED BY <2>1, <2>3, <3>2, <3>3, <3>4, <3>5 DEF Execute
  <2> QED BY <2>2, <2>3
<1> QED BY <1>2, <1>3, <1>4, <1>5, <1>6, <1>7
        DEF Next, CorpusChanges, Poll, CreateCheck, CreatePrint, CreateDropped, CancelLoad,
            CancelCommit, vars

LEMMA CancelsMove ==
    ASSUME EvalTypes, [Next]_vars, NEW r \in Runs, cancel'[r]
    PROVE  cancel[r] \/ ActiveRun(r)
<1>1. cancel \in [Runs -> BOOLEAN]
  BY DEF EvalTypes, Scalars
<1>2. CASE \E q \in Runs : CancelLoad(q)
  <2>1. PICK q \in Runs : CancelLoad(q)
    BY <1>2
  <2>2. CASE q = r
    BY <2>1, <2>2 DEF CancelLoad
  <2>3. CASE q # r
    BY <1>1, <2>1, <2>3 DEF CancelLoad
  <2> QED BY <2>2, <2>3
<1>3. CASE \E q \in Runs : CancelCommit(q)
  BY <1>1, <1>3 DEF CancelCommit
<1>4. CASE UNCHANGED cancel
  BY <1>4
<1> QED BY <1>2, <1>3, <1>4
        DEF Next, Execute, CorpusChanges, Poll, CreateCheck, CreatePrint, CreateInsert, InsertRun,
            CreateDropped, ClaimQueued, RestartWorker, CliRefresh, Begin, RunCase, RunOneOf,
            CommitRun, CommitConflict, FailRun, RecordFailed, Lose, vars

\* A run that has finished is written again only by an executor or a
\* cancellation that had it before, and gets no new ones: when the last is done
\* its row and its results stay, with the CLI beside the workers and whatever
\* is cancelled, fails or is lost.
THEOREM FinishedIsNotTakenUp == Spec => NobodyReopens
<1>1. ASSUME EvalTypes, [Next]_vars, NEW r \in Runs, run[r].status \in EvalTerminal
      PROVE  /\ Holders(r)' \subseteq Holders(r)
             /\ cancel'[r] => cancel[r]
             /\ Holders(r) = {} /\ ~cancel[r] => run'[r] = run[r] /\ rows'[r] = rows[r]
  <2>1. r # nr + 1 /\ r # 0 /\ run[r].status # "queued" /\ ~ActiveRun(r)
    BY <1>1, CreatedIsNew DEF EvalTerminal, EvalActive, ActiveRun, Runs
  <2>2. Holders(r)' \subseteq Holders(r)
    BY <1>1, <2>1, HoldersMove DEF Holders
  <2>3. cancel'[r] => cancel[r]
    BY <1>1, <2>1, CancelsMove
  <2>4. ASSUME Holders(r) = {}, ~cancel[r]
        PROVE  run'[r] = run[r] /\ rows'[r] = rows[r]
    <3>1. \A e \in Executors : ex[e].run # r
      BY <2>4 DEF Holders
    <3>2. CASE RunStays \/ RunCreated
      BY <2>1, <3>2 DEF RunStays, RunCreated
    <3>3. CASE \E q \in Runs, s \in {"cancelled", "running", "failed"} :
                 StatusMoves(q, s) /\ Cause(q, s)
      BY <2>1, <2>4, <3>1, <3>3 DEF StatusMoves, Cause
    <3>4. CASE \E e \in Executors : ResultStands(e, ex[e].run)
      BY <3>1, <3>4 DEF ResultStands
    <3> QED BY <1>1, <3>2, <3>3, <3>4, RunSteps
  <2> QED BY <2>2, <2>3, <2>4
<1>2. EvalTypes /\ [Next]_vars =>
        [\A r \in Runs : run[r].status \in EvalTerminal =>
           /\ Holders(r)' \subseteq Holders(r)
           /\ cancel'[r] => cancel[r]
           /\ Holders(r) = {} /\ ~cancel[r] => run'[r] = run[r] /\ rows'[r] = rows[r]]_vars
  BY <1>1
<1> QED BY <1>2, EvalTypesInit, EvalTypesPreserved, PTL DEF Spec, NobodyReopens

-----------------------------------------------------------------------------
(* Fingerprints *)

\* A fingerprint is of the corpus as it is unless that has changed since.
Vouches(x) == x.printed <= edits /\ (x.printed = edits => x.print = corpus)

PrintsInv ==
    /\ \A a \in Creators : want[a].ready => Vouches(want[a])
    /\ \A r \in Runs : r <= nr => Vouches(run[r])

\* What has been seen under the row y was seen after its fingerprint, and if no
\* change fell between it is what the fingerprint is of.
Seen(x, y) ==
    x.saw # {} =>
      /\ y.printed <= x.ran /\ x.ran <= edits
      /\ x.ran = y.printed => x.saw \subseteq {y.print}

SeenInv ==
    /\ \A r \in Runs : r <= nr => Seen(run[r], run[r])
    /\ \A e \in Executors : ex[e].pc = "executing" => Seen(ex[e], run[ex[e].run])

LEMMA PrintsStay ==
    ASSUME EvalTypes, [Next]_vars, NEW r \in Runs, r <= nr
    PROVE  run'[r].print = run[r].print /\ run'[r].printed = run[r].printed
<1>1. r # nr + 1
  BY CreatedIsNew
<1> QED BY <1>1, RunSteps DEF RunStays, RunCreated, StatusMoves, ResultStands

LEMMA EditsMove ==
    ASSUME EvalTypes, [Next]_vars
    PROVE  \/ UNCHANGED <<corpus, edits>>
           \/ /\ edits' = edits + 1 /\ edits \in Nat
              /\ UNCHANGED <<run, nr, want, ex>>
<1>1. CASE CorpusChanges
  BY <1>1, EvalBoundsAssumption DEF CorpusChanges, EvalTypes, Scalars
<1>2. CASE UNCHANGED <<corpus, edits>>
  BY <1>2
<1> QED BY <1>1, <1>2
        DEF Next, Execute, Poll, CreateCheck, CreatePrint, CreateInsert, InsertRun, CreateDropped,
            CancelLoad, CancelCommit, ClaimQueued, RestartWorker, CliRefresh, Begin, RunCase,
            RunOneOf, CommitRun, CommitConflict, FailRun, RecordFailed, Lose, vars

LEMMA PrintsPreserved == EvalTypes /\ PrintsInv /\ [Next]_vars => PrintsInv'
<1> SUFFICES ASSUME EvalTypes, PrintsInv, [Next]_vars
             PROVE  PrintsInv'
  OBVIOUS
<1>1. /\ want \in [Creators -> Pending] /\ run \in [Runs -> Row]
      /\ nr \in Nat /\ edits \in Nat
  BY EvalBoundsAssumption DEF EvalTypes, Scalars, RunsInv
<1>2. CASE ~UNCHANGED <<corpus, edits>>
  <2>1. edits' = edits + 1 /\ UNCHANGED <<run, nr, want>>
    BY <1>2, EditsMove
  <2>2. \A x \in Pending \cup Row : Vouches(x) => Vouches(x)'
    BY <2>1, <1>1 DEF Vouches, Pending, Row
  <2>3. ASSUME NEW a \in Creators, want'[a].ready
        PROVE  Vouches(want[a])'
    BY <2>1, <2>2, <2>3, <1>1 DEF PrintsInv
  <2>4. ASSUME NEW r \in Runs, r <= nr'
        PROVE  Vouches(run[r])'
    <3>1. run[r] \in Row /\ Vouches(run[r])
      BY <2>1, <2>4, <1>1 DEF PrintsInv
    <3> QED BY <2>1, <3>1, <1>1 DEF Vouches, Row
  <2> QED BY <2>3, <2>4 DEF PrintsInv
<1>3. CASE UNCHANGED <<corpus, edits>>
  <2>1. ASSUME NEW r \in Runs, r <= nr
        PROVE  Vouches(run[r])'
    BY <1>3, <2>1, PrintsStay DEF PrintsInv, Vouches
  <2>2. CASE \E a \in Creators : CreateInsert(a)
    <3>1. PICK a \in Creators : CreateInsert(a)
      BY <2>2
    <3> DEFINE new == [config |-> want[a].config, status |-> "queued", print |-> want[a].print,
                       printed |-> want[a].printed, metrics |-> 0, saw |-> {}, ran |-> 0]
    <3>2. /\ run' = [run EXCEPT ![nr + 1] = new] /\ nr' = nr + 1
          /\ want' = [want EXCEPT ![a] = NoWant] /\ want[a].ready
      BY <3>1 DEF CreateInsert, InsertRun
    <3>3. new.print = want[a].print /\ new.printed = want[a].printed
      OBVIOUS
    <3> HIDE DEF new
    <3>4. ASSUME NEW m \in Runs, m = nr + 1
          PROVE  Vouches(run[m])'
      <4>1. run'[m] = new
        BY <1>1, <3>2, <3>4
      <4>2. Vouches(want[a])
        BY <3>2 DEF PrintsInv
      <4>3. run'[m].print = want[a].print /\ run'[m].printed = want[a].printed
        BY <3>3, <4>1
      <4> QED BY <1>3, <4>2, <4>3 DEF Vouches
    <3>5. \A r \in Runs : r <= nr' => r <= nr \/ r = nr + 1
      BY <1>1, <3>2 DEF Runs
    <3>6. ASSUME NEW b \in Creators, want'[b].ready
          PROVE  Vouches(want[b])'
      <4>2. NoWant.ready = FALSE
        BY DEF NoWant
      <4>1. b # a /\ want'[b] = want[b]
        BY <1>1, <3>2, <3>6, <4>2
      <4> QED BY <1>3, <3>6, <4>1 DEF PrintsInv, Vouches
    <3>7. \A r \in Runs : r <= nr' => Vouches(run[r])'
      BY <2>1, <3>4, <3>5
    <3> QED BY <3>6, <3>7 DEF PrintsInv
  <2>3. CASE nr' = nr
    <3>1. ASSUME NEW b \in Creators, want'[b].ready
          PROVE  Vouches(want[b])'
      <4>1. CASE want'[b] = want[b]
        BY <1>3, <3>1, <4>1 DEF PrintsInv, Vouches
      <4>2. CASE \E a \in Creators : CreateCheck(a) \/ CreateDropped(a)
        <5>1. PICK a \in Creators : CreateCheck(a) \/ CreateDropped(a)
          BY <4>2
        <5>2. ~want'[a].ready
          BY <1>1, <5>1 DEF CreateCheck, CreateDropped, NoWant, Pending
        <5>3. b # a /\ want'[b] = want[b]
          BY <1>1, <3>1, <5>1, <5>2 DEF CreateCheck, CreateDropped
        <5> QED BY <4>1, <5>3
      <4>3. CASE \E a \in Creators : CreatePrint(a)
        <5>1. PICK a \in Creators : CreatePrint(a)
          BY <4>3
        <5>2. CASE b = a
          <6>1. want'[a].print = corpus /\ want'[a].printed = edits
            BY <1>1, <5>1 DEF CreatePrint, Pending
          <6> QED BY <1>1, <1>3, <5>2, <6>1 DEF Vouches
        <5>3. CASE b # a
          BY <1>1, <4>1, <5>1, <5>3 DEF CreatePrint
        <5> QED BY <5>2, <5>3
      <4>4. CASE \E a \in Creators : CreateInsert(a)
        <5>1. nr' = nr + 1
          BY <4>4 DEF CreateInsert, InsertRun
        <5> QED BY <1>1, <2>3, <5>1
      <4> QED BY <4>1, <4>2, <4>3, <4>4
              DEF Next, Execute, Poll, CorpusChanges, CancelLoad, CancelCommit, ClaimQueued,
                  RestartWorker, CliRefresh, Begin, RunCase, RunOneOf, CommitRun, CommitConflict,
                  FailRun, RecordFailed, Lose, vars
    <3> QED BY <2>1, <2>3, <3>1 DEF PrintsInv
  <2> QED BY <2>2, <2>3
          DEF Next, Execute, Poll, CorpusChanges, CreateCheck, CreatePrint, CreateDropped,
              CancelLoad, CancelCommit, ClaimQueued, RestartWorker, CliRefresh, Begin, RunCase,
              RunOneOf, CommitRun, CommitConflict, FailRun, RecordFailed, Lose, vars
<1> QED BY <1>2, <1>3

\* What an execution has seen: it starts with nothing, and each case adds the
\* corpus as it is.
LEMMA SightsMove ==
    ASSUME EvalTypes, [Next]_vars, NEW e \in Executors, ex'[e].pc = "executing"
    PROVE  \/ ex'[e] = ex[e]
           \/ ex'[e].saw = {}
           \/ /\ ex[e].pc = "executing" /\ ex'[e].run = ex[e].run /\ UNCHANGED <<run, edits>>
              /\ ex'[e].saw = ex[e].saw \cup {corpus} /\ ex'[e].ran = edits
<1>1. ex \in [Executors -> Execution]
  BY DEF EvalTypes, ExecutorsInv
<1>2. \A f \in Executors : \A x :
        ex' = [ex EXCEPT ![f] = x] => ex'[f] = x /\ (f # e => ex'[e] = ex[e])
  BY <1>1
<1>3. CASE UNCHANGED ex
  BY <1>3
<1>4. CASE \E w \in Workers : ClaimQueued(w) \/ RestartWorker(w)
  <2>1. PICK w \in Workers : ClaimQueued(w) \/ RestartWorker(w)
    BY <1>4
  <2>2. w \in Executors
    BY DEF Executors
  <2>3. CASE w = e
    <3>1. PICK x : ex' = [ex EXCEPT ![e] = x] /\ x.pc \in {"claimed", "idle"}
      <4>1. CASE RestartWorker(e)
        BY <4>1 DEF RestartWorker, Idle
      <4>2. CASE ClaimQueued(e)
        <5>1. PICK r \in Runs :
                ex' = [ex EXCEPT ![e] = [Idle EXCEPT !.pc = "claimed", !.run = r,
                                                     !.loaded = "running"]]
          BY <4>2 DEF ClaimQueued
        <5>2. PICK y : y = [Idle EXCEPT !.pc = "claimed", !.run = r, !.loaded = "running"]
          OBVIOUS
        <5>3. y.pc = "claimed"
          BY <5>2 DEF Idle
        <5> QED BY <5>1, <5>2, <5>3
      <4> QED BY <2>1, <2>3, <4>1, <4>2
    <3>2. ex'[e].pc # "executing"
      BY <1>1, <3>1
    <3> QED BY <3>2
  <2>4. CASE w # e
    BY <1>1, <2>1, <2>2, <2>4 DEF ClaimQueued, RestartWorker
  <2> QED BY <2>3, <2>4
<1>5. CASE \E a \in Creators : CreateInsert(a)
  <2>1. PICK a \in Creators : CreateInsert(a)
    BY <1>5
  <2>2. CASE a = e
    BY <1>1, <2>1, <2>2 DEF CreateInsert, InsertRun, Execution
  <2>3. CASE a # e
    BY <1>1, <2>1, <2>3 DEF CreateInsert, InsertRun
  <2> QED BY <2>2, <2>3
<1>6. CASE \E c \in Clis : CliRefresh(c)
  <2>1. PICK c \in Clis : CliRefresh(c)
    BY <1>6
  <2>2. c \in Executors
    BY DEF Executors
  <2>3. CASE c = e
    BY <1>1, <2>1, <2>2, <2>3 DEF CliRefresh, Execution
  <2>4. CASE c # e
    BY <1>1, <2>1, <2>2, <2>4 DEF CliRefresh
  <2> QED BY <2>3, <2>4
<1>7. CASE \E f \in Executors : Execute(f) \/ Lose(f)
  <2>1. PICK f \in Executors : Execute(f) \/ Lose(f)
    BY <1>7
  <2>2. CASE f # e
    BY <1>1, <2>1, <2>2 DEF Execute, Begin, RunCase, RunOneOf, CommitRun, CommitConflict,
                            FailRun, RecordFailed, Lose
  <2>3. CASE f = e
    <3>1. ex[e] \in Execution
      BY <1>1
    <3>2. CASE Begin(e)
      BY <1>1, <3>1, <3>2 DEF Begin, Execution
    <3>3. CASE RunCase(e)
      BY <1>1, <3>1, <3>3 DEF RunCase, RunOneOf, Execution
    <3>4. CASE CommitConflict(e) \/ FailRun(e)
      BY <1>1, <3>1, <3>4 DEF CommitConflict, FailRun, Execution
    <3>5. CASE CommitRun(e) \/ RecordFailed(e) \/ Lose(e)
      <4>1. PICK p \in Resting : ex' = [ex EXCEPT ![e] = Free(p)]
        BY <3>5, IdleIsFree DEF CommitRun, RecordFailed, Lose, After, Free, Resting
      <4>2. ex'[e].pc = p /\ p # "executing"
        BY <1>1, <4>1, FreeIsPlaced DEF Resting
      <4> QED BY <4>2
    <3> QED BY <2>1, <2>3, <3>2, <3>3, <3>4, <3>5 DEF Execute
  <2> QED BY <2>2, <2>3
<1> QED BY <1>3, <1>4, <1>5, <1>6, <1>7
        DEF Next, CorpusChanges, Poll, CreateCheck, CreatePrint, CreateDropped, CancelLoad,
            CancelCommit, vars

LEMMA SeenPreserved == EvalTypes /\ PrintsInv /\ SeenInv /\ [Next]_vars => SeenInv'
<1> SUFFICES ASSUME EvalTypes, PrintsInv, SeenInv, [Next]_vars
             PROVE  SeenInv'
  OBVIOUS
<1>1. /\ edits \in Nat /\ edits' \in Nat /\ edits <= edits'
      /\ nr \in Nat /\ run \in [Runs -> Row]
  BY EditsMove, EvalBoundsAssumption DEF EvalTypes, Scalars, RunsInv
<1>2. \A e \in Executors : Placed(ex[e], nr, execs)
  BY DEF EvalTypes, ExecutorsInv
<1>3. \A e \in Executors : ex[e].pc = "executing" => ex[e].run \in Runs /\ ex[e].run <= nr
  BY <1>2, EvalBoundsAssumption DEF Placed, Execution, Working, Runs
<1>4. ASSUME NEW x, NEW r \in Runs, r <= nr, Seen(x, run[r]), x.ran \in Nat
      PROVE  x.saw # {} =>
               /\ run'[r].printed <= x.ran /\ x.ran <= edits'
               /\ x.ran = run'[r].printed => x.saw \subseteq {run'[r].print}
  BY <1>1, <1>4, PrintsStay DEF Seen
<1>5. ASSUME NEW r \in Runs, r <= nr'
      PROVE  Seen(run[r], run[r])'
  <2>1. CASE r <= nr /\ run'[r].saw = run[r].saw /\ run'[r].ran = run[r].ran
    <3>1. Seen(run[r], run[r]) /\ run[r].ran \in Nat
      BY <2>1, <1>1 DEF SeenInv, Row
    <3> QED BY <1>4, <2>1, <3>1 DEF Seen
  <2>2. CASE r <= nr /\ \E e \in Executors : AllCasesRun(e) /\ ex[e].run = r /\ ResultStands(e, r)
    <3>1. PICK e \in Executors : AllCasesRun(e) /\ ex[e].run = r /\ ResultStands(e, r)
      BY <2>2
    <3>2. Seen(ex[e], run[r]) /\ ex[e].ran \in Nat
      BY <1>2, <3>1 DEF SeenInv, AllCasesRun, Placed, Execution
    <3> QED BY <1>4, <2>2, <3>1, <3>2 DEF Seen, ResultStands
  <2>3. CASE \E a \in Creators : CreateInsert(a) /\ r = nr + 1
    <3>1. PICK a \in Creators : CreateInsert(a)
      BY <2>3
    <3> DEFINE new == [config |-> want[a].config, status |-> "queued", print |-> want[a].print,
                       printed |-> want[a].printed, metrics |-> 0, saw |-> {}, ran |-> 0]
    <3>2. run' = [run EXCEPT ![nr + 1] = new] /\ new.saw = {}
      BY <3>1 DEF CreateInsert, InsertRun
    <3> HIDE DEF new
    <3>3. run'[r].saw = {}
      BY <1>1, <2>3, <3>2
    <3> QED BY <3>3 DEF Seen
  <2>4. r <= nr \/ \E a \in Creators : CreateInsert(a) /\ r = nr + 1
    <3>1. CASE \E a \in Creators : CreateInsert(a)
      <4>1. PICK a \in Creators : CreateInsert(a)
        BY <3>1
      <4>2. nr' = nr + 1
        BY <4>1 DEF CreateInsert, InsertRun
      <4>3. r <= nr \/ r = nr + 1
        BY <1>1, <1>5, <4>2 DEF Runs
      <4> QED BY <4>1, <4>3
    <3>2. CASE nr' = nr
      BY <1>5, <3>2
    <3> QED BY <3>1, <3>2
            DEF Next, Execute, Poll, CorpusChanges, CreateCheck, CreatePrint, CreateDropped,
                CancelLoad, CancelCommit, ClaimQueued, RestartWorker, CliRefresh, Begin, RunCase,
                RunOneOf, CommitRun, CommitConflict, FailRun, RecordFailed, Lose, vars
  <2>5. ASSUME r <= nr
        PROVE  \/ run'[r].saw = run[r].saw /\ run'[r].ran = run[r].ran
               \/ \E e \in Executors : AllCasesRun(e) /\ ex[e].run = r /\ ResultStands(e, r)
    <3>1. r # nr + 1
      BY <2>5, CreatedIsNew
    <3> QED BY <3>1, RunSteps DEF RunStays, RunCreated, StatusMoves, ResultStands
  <2> QED BY <2>1, <2>2, <2>3, <2>4, <2>5
<1>6. ASSUME NEW e \in Executors, ex'[e].pc = "executing"
      PROVE  Seen(ex[e], run[ex[e].run])'
  <2>1. CASE ex'[e] = ex[e]
    <3>1. PICK r \in Runs : r = ex[e].run /\ r <= nr
      BY <1>3, <1>6, <2>1
    <3>2. Seen(ex[e], run[r]) /\ ex[e].ran \in Nat
      BY <1>2, <1>6, <2>1, <3>1 DEF SeenInv, Placed, Execution
    <3> QED BY <1>4, <2>1, <3>1, <3>2 DEF Seen
  <2>2. CASE ex'[e].saw = {}
    BY <2>2 DEF Seen
  <2>3. CASE /\ ex[e].pc = "executing" /\ ex'[e].run = ex[e].run /\ UNCHANGED <<run, edits>>
             /\ ex'[e].saw = ex[e].saw \cup {corpus} /\ ex'[e].ran = edits
    <3>1. PICK r \in Runs : r = ex[e].run /\ r <= nr
      BY <1>3, <2>3
    <3>2. Vouches(run[r]) /\ Seen(ex[e], run[r])
      BY <2>3, <3>1 DEF PrintsInv, SeenInv
    <3>3. run[r].printed \in Nat /\ ex[e].ran \in Nat
      BY <1>1, <1>2 DEF Row, Placed, Execution
    <3>4. edits = run[r].printed => ex[e].saw \cup {corpus} \subseteq {run[r].print}
      BY <1>1, <3>2, <3>3 DEF Vouches, Seen
    <3> QED BY <2>3, <3>1, <3>2, <3>3, <3>4, <1>1 DEF Seen, Vouches
  <2> QED BY <1>6, <2>1, <2>2, <2>3, SightsMove
<1> QED BY <1>5, <1>6 DEF SeenInv

\* Two runs that show success under one fingerprint, with no change of the
\* corpus between the fingerprint and the last case of either, were run on the
\* same corpus: with the fingerprint read before the row is committed, with the
\* CLI beside the workers, and with every cancellation, failure and loss.
THEOREM FingerprintsCompare == Spec => []SteadyRunsCompare
<1>1. Init => PrintsInv /\ SeenInv
  BY EvalBoundsAssumption
     DEF Init, PrintsInv, SeenInv, NoWant, NoRun, Vouches, Seen, Idle, Executors, Runs
<1>2. EvalTypes /\ PrintsInv /\ SeenInv /\ [Next]_vars => PrintsInv' /\ SeenInv'
  BY PrintsPreserved, SeenPreserved
<1>3. EvalTypes /\ SeenInv => SteadyRunsCompare
  <2> SUFFICES ASSUME EvalTypes, SeenInv, NEW q \in Runs, NEW r \in Runs,
                      Comparable(q, r), Steady(q), Steady(r),
                      NEW x \in run[q].saw, NEW y \in run[r].saw
               PROVE  x = y
    BY DEF SteadyRunsCompare, SawTheSame
  <2>1. \A p \in Runs : run[p].status = "succeeded" => p <= nr
    BY NoRunIsRow, EvalBoundsAssumption DEF EvalTypes, RunsInv, Scalars, Runs
  <2>2. Seen(run[q], run[q]) /\ Seen(run[r], run[r])
    BY <2>1 DEF SeenInv, Comparable
  <2>3. x = run[q].print /\ y = run[r].print
    BY <2>2 DEF Seen, Steady
  <2> QED BY <2>3 DEF Comparable
<1> QED BY <1>1, <1>2, <1>3, EvalTypesInit, EvalTypesPreserved, PTL DEF Spec
=============================================================================
