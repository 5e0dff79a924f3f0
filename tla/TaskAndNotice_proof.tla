------------------------- MODULE TaskAndNotice_proof -------------------------
(***************************************************************************)
(* Proofs about two modules whose names do not meet: TaskBoard, for every  *)
(* set of tasks and steps, and CreditorNotice, for every set of notices,   *)
(* claims, requests and dates.                                             *)
(***************************************************************************)
EXTENDS TaskBoard, CreditorNotice, WellFoundedInduction, TLAPS

-----------------------------------------------------------------------------
(* TaskBoard                                                               *)

\* What the kind of a request says of its record.
LEMMA Kinds ==
  ASSUME TypeOK, NEW r \in Call
  PROVE  /\ call[r].kind = "create" => call[r] \in CreateRequest
         /\ call[r].kind = "patch" => call[r] \in PatchRequest
         /\ call[r].kind = "step" => call[r] \in StepRequest
         /\ call[r].kind \in {"create", "patch", "step"} => call[r] # NoCall
<1>1. call[r] \in {NoCall} \cup CreateRequest \cup PatchRequest \cup StepRequest
  BY DEF TypeOK
<1>2. NoCall.kind = "none"
  BY DEF NoCall
<1>3. \A q \in CreateRequest : q.kind = "create"
  BY DEF CreateRequest
<1>4. \A q \in PatchRequest : q.kind = "patch"
  BY DEF PatchRequest
<1>5. \A q \in StepRequest : q.kind = "step"
  BY DEF StepRequest
<1>6. QED
  BY <1>1, <1>2, <1>3, <1>4, <1>5

LEMMA CallTyped ==
  ASSUME TypeOK, NEW r \in Call, NEW q,
         q \in {NoCall} \cup CreateRequest \cup PatchRequest \cup StepRequest,
         call' = [call EXCEPT ![r] = q]
  PROVE  /\ call' \in [Call -> {NoCall} \cup CreateRequest \cup PatchRequest \cup StepRequest]
         /\ call'[r] = q
         /\ \A p \in Call : p # r => call'[p] = call[p]
  BY DEF TypeOK

LEMMA ColumnsTyped ==
  ASSUME TypeOK, NEW t \in Task, NEW c \in Patches
  PROVE  ColumnsOf(t) \in Columns /\ Overlay(c, ColumnsOf(t)) \in Columns
<1>1. ColumnsOf(t) \in Columns
  BY DEF TypeOK, ColumnsOf, Columns
<1>2. QED
  BY <1>1, BoardAssumption

LEMMA OvertakesTyped ==
  ASSUME TypeOK, NEW by, Overtakes(by)
  PROVE  missed' \in [Call -> [steps : SUBSET Step, lists : BOOLEAN, reopened : BOOLEAN]]
<1>1. SUFFICES ASSUME NEW r \in Call
               PROVE  missed'[r] \in [steps : SUBSET Step, lists : BOOLEAN, reopened : BOOLEAN]
  BY DEF Overtakes
<1>2. missed[r] \in [steps : SUBSET Step, lists : BOOLEAN, reopened : BOOLEAN]
  BY DEF TypeOK
<1>3. CASE r \in by \/ call[r] = NoCall
  BY <1>3 DEF Overtakes, NothingMissed
<1>4. CASE ~(r \in by \/ call[r] = NoCall)
  <2>1. /\ missed'[r].steps \in SUBSET Step
        /\ missed'[r].lists \in BOOLEAN /\ missed'[r].reopened \in BOOLEAN
        /\ missed'[r] = [steps |-> missed'[r].steps, lists |-> missed'[r].lists,
                         reopened |-> missed'[r].reopened]
    BY <1>2, <1>4 DEF Overtakes
  <2>2. QED
    BY <2>1
<1>5. QED
  BY <1>3, <1>4

LEMMA EndsTyped ==
  ASSUME TypeOK, NEW r \in Call, Ends(r)
  PROVE  /\ call' \in [Call -> {NoCall} \cup CreateRequest \cup PatchRequest \cup StepRequest]
         /\ writes' \in 0..MaxWrites
         /\ missed' \in [Call -> [steps : SUBSET Step, lists : BOOLEAN, reopened : BOOLEAN]]
<1>1. call' \in [Call -> {NoCall} \cup CreateRequest \cup PatchRequest \cup StepRequest]
  BY DEF Ends, TypeOK
<1>2. writes' \in 0..MaxWrites
  BY BoardAssumption DEF Ends, TypeOK
<1>3. missed' \in [Call -> [steps : SUBSET Step, lists : BOOLEAN, reopened : BOOLEAN]]
  BY OvertakesTyped DEF Ends
<1>4. QED
  BY <1>1, <1>2, <1>3

\* The step of a request that only moves on.
OnlyCall == UNCHANGED <<board, writes, missed, doubtful>>

LEMMA OnlyCallTyped ==
  ASSUME TypeOK, OnlyCall, NEW r \in Call, NEW q,
         q \in {NoCall} \cup CreateRequest \cup PatchRequest \cup StepRequest,
         call' = [call EXCEPT ![r] = q]
  PROVE  TypeOK'
<1>1. call' \in [Call -> {NoCall} \cup CreateRequest \cup PatchRequest \cup StepRequest]
  BY CallTyped
<1>2. QED
  BY <1>1 DEF OnlyCall, board, TypeOK

LEMMA TypeInit == Init => TypeOK
<1>1. SUFFICES ASSUME Init PROVE TypeOK
  OBVIOUS
<1>2. blockedBy \in [Task -> SUBSET Ref] /\ blocks \in [Task -> SUBSET Ref]
  BY <1>1, BoardAssumption DEF Init, Ref, Id
<1>3. call \in [Call -> {NoCall} \cup CreateRequest \cup PatchRequest \cup StepRequest]
  BY <1>1 DEF Init
<1>4. missed \in [Call -> [steps : SUBSET Step, lists : BOOLEAN, reopened : BOOLEAN]]
  BY <1>1 DEF Init, NothingMissed
<1>5. link \in [Task -> Step \cup {NoStep}] /\ stepStatus \in [Step -> StepStatus]
  BY <1>1, BoardAssumption DEF Init, StepStatus
<1>6. QED
  BY <1>1, <1>2, <1>3, <1>4, <1>5, BoardAssumption DEF Init, TypeOK, Status

LEMMA StartsTyped ==
  ASSUME TypeOK, NEW r \in Call, NEW q, Starts(r, q),
         q \in CreateRequest \cup PatchRequest \cup StepRequest
  PROVE  TypeOK' /\ call'[r] = q /\ \A p \in Call : p # r => call'[p] = call[p]
  BY OnlyCallTyped, CallTyped DEF Starts, OnlyCall

\* The record a create, a task patch and a step patch start with.
FirstCreate(t, a) == [kind |-> "create", at |-> "references", task |-> t, asks |-> a]

FirstPatch(t, c) ==
  [kind |-> "patch",
   at |-> IF DOMAIN c \cap {"blocked_by", "blocks"} # {} THEN "references"
          ELSE AfterLists("status" \in DOMAIN c, Overlay(c, ColumnsOf(t)).status),
   task |-> t, set |-> DOMAIN c, asks |-> Overlay(c, ColumnsOf(t)), was |-> ColumnsOf(t),
   stepWas |-> "not_started", stepTo |-> "not_started"]

FirstStep(s, v) == [kind |-> "step", at |-> "write", step |-> s, asks |-> v,
                    was |-> stepStatus[s], tasks |-> {}]

LEMMA PatchRecord ==
  ASSUME NEW at \in {"references", "walk", "done rule", "write", "sync", "commit"},
         NEW t \in Task, NEW set \in SUBSET Fields, NEW a \in Columns, NEW w \in Columns
  PROVE  [kind |-> "patch", at |-> at, task |-> t, set |-> set, asks |-> a, was |-> w,
          stepWas |-> "not_started", stepTo |-> "not_started"] \in PatchRequest
  BY DEF PatchRequest, StepStatus

LEMMA Firsts ==
  ASSUME TypeOK
  PROVE  /\ \A t \in Task, a \in Posts : FirstCreate(t, a) \in CreateRequest
         /\ \A t \in Task, c \in Patches : FirstPatch(t, c) \in PatchRequest
         /\ \A s \in Step, v \in StepStatus : FirstStep(s, v) \in StepRequest
<1>1. ASSUME NEW t \in Task, NEW a \in Posts PROVE FirstCreate(t, a) \in CreateRequest
  BY BoardAssumption DEF FirstCreate, CreateRequest
<1>2. ASSUME NEW t \in Task, NEW c \in Patches PROVE FirstPatch(t, c) \in PatchRequest
  <2> DEFINE at == IF DOMAIN c \cap {"blocked_by", "blocks"} # {} THEN "references"
                   ELSE AfterLists("status" \in DOMAIN c, Overlay(c, ColumnsOf(t)).status)
             set == DOMAIN c
             a == Overlay(c, ColumnsOf(t))
             w == ColumnsOf(t)
  <2>1. at \in {"references", "walk", "done rule", "write", "sync", "commit"}
    BY DEF AfterLists
  <2>2. set \in SUBSET Fields
    BY BoardAssumption
  <2>3. w \in Columns /\ a \in Columns
    BY ColumnsTyped
  <2>4. FirstPatch(t, c) =
          [kind |-> "patch", at |-> at, task |-> t, set |-> set, asks |-> a, was |-> w,
           stepWas |-> "not_started", stepTo |-> "not_started"]
    BY DEF FirstPatch
  <2> HIDE DEF at, set, a, w
  <2>5. [kind |-> "patch", at |-> at, task |-> t, set |-> set, asks |-> a, was |-> w,
         stepWas |-> "not_started", stepTo |-> "not_started"] \in PatchRequest
    BY <2>1, <2>2, <2>3, PatchRecord
  <2>6. QED
    BY <2>4, <2>5
<1>3. ASSUME NEW s \in Step, NEW v \in StepStatus PROVE FirstStep(s, v) \in StepRequest
  BY DEF FirstStep, StepRequest, TypeOK
<1>4. QED
  BY <1>1, <1>2, <1>3

\* What starting a request does.
LEMMA Started ==
  ASSUME TypeOK, NEW r \in Call
  PROVE  /\ \A t \in Task, a \in Posts :
              StartCreate(r, t, a) => Starts(r, FirstCreate(t, a))
         /\ \A t \in Task, c \in Patches : LoadTask(r, t, c) => Starts(r, FirstPatch(t, c))
         /\ \A s \in Step, v \in StepStatus : LoadStep(r, s, v) => Starts(r, FirstStep(s, v))
  BY DEF StartCreate, LoadTask, LoadStep, FirstCreate, FirstPatch, FirstStep

LEMMA ReachesTyped ==
  ASSUME TypeOK, NEW r \in Call, call[r].kind \in {"create", "patch"},
         NEW place \in {"references", "walk", "done rule", "write"}, Reaches(r, place)
  PROVE  /\ TypeOK'
         /\ call'[r] = [call[r] EXCEPT !.at = place]
         /\ \A p \in Call : p # r => call'[p] = call[p]
<1> DEFINE q == [call[r] EXCEPT !.at = place]
<1>1. q \in CreateRequest \cup PatchRequest
  <2>1. CASE call[r].kind = "create"
    <3>1. call[r] \in CreateRequest
      BY <2>1, Kinds
    <3>2. QED
      BY <3>1 DEF CreateRequest
  <2>2. CASE call[r].kind = "patch"
    <3>1. call[r] \in PatchRequest
      BY <2>2, Kinds
    <3>2. QED
      BY <3>1 DEF PatchRequest
  <2>3. QED
    BY <2>1, <2>2
<1>2. call' = [call EXCEPT ![r] = q]
  BY DEF Reaches
<1> HIDE DEF q
<1>3. OnlyCall
  BY DEF Reaches, OnlyCall
<1>4. TypeOK' /\ call'[r] = q /\ \A p \in Call : p # r => call'[p] = call[p]
  BY <1>1, <1>2, <1>3, OnlyCallTyped, CallTyped
<1>5. QED
  BY <1>4 DEF q

LEMMA StepFromTasksTyped ==
  ASSUME NEW T, NEW st PROVE StepFromTasks(T, st) \in StepStatus
  BY DEF StepFromTasks, StepStatus

\* The two awaits of the mirror inside a task patch, and the one inside a step patch.
LEMMA FlushTyped ==
  ASSUME TypeOK, NEW r \in Call, FlushTask(r)
  PROVE  /\ TypeOK'
         /\ call'[r] = [call[r] EXCEPT !.at = "sync",
                                       !.stepWas = stepStatus[call[r].asks.process_step_id]]
         /\ \A p \in Call : p # r => call'[p] = call[p]
<1>1. call[r] \in PatchRequest /\ CallsMirror(call[r])
  BY Kinds DEF FlushTask
<1>2. call[r].asks.process_step_id \in Step
  BY <1>1 DEF PatchRequest, Columns, CallsMirror
<1> DEFINE q == [call[r] EXCEPT !.at = "sync",
                                !.stepWas = stepStatus[call[r].asks.process_step_id]]
<1>3. q \in PatchRequest
  <2>1. stepStatus[call[r].asks.process_step_id] \in StepStatus
    BY <1>2 DEF TypeOK
  <2>2. QED
    BY <1>1, <2>1 DEF PatchRequest
<1>4. call' = [call EXCEPT ![r] = q] /\ OnlyCall
  BY DEF FlushTask, OnlyCall
<1> HIDE DEF q
<1>5. TypeOK' /\ call'[r] = q /\ \A p \in Call : p # r => call'[p] = call[p]
  BY <1>3, <1>4, OnlyCallTyped, CallTyped
<1>6. QED
  BY <1>5 DEF q

\* The links and statuses as the session of a task patch q sees them.
SeenLinks(q) ==
  [link EXCEPT ![q.task] = Written(q.asks.process_step_id, q.was.process_step_id, @)]
SeenStatuses(q) == [status EXCEPT ![q.task] = q.asks.status]
Derives(q) ==
  SyncStepFromTasks(q.asks.process_step_id, q.stepWas, SeenStatuses(q), SeenLinks(q))

LEMMA SyncTyped ==
  ASSUME TypeOK, NEW r \in Call, SyncStep(r)
  PROVE  /\ TypeOK'
         /\ call'[r] = [call[r] EXCEPT !.at = "commit", !.stepTo = Derives(call[r])]
         /\ \A p \in Call : p # r => call'[p] = call[p]
<1>1. call[r] \in PatchRequest
  BY Kinds DEF SyncStep
<1> DEFINE v == Derives(call[r])
           q == [call[r] EXCEPT !.at = "commit", !.stepTo = v]
<1>2. v \in StepStatus
  BY <1>1, StepFromTasksTyped DEF Derives, SyncStepFromTasks, PatchRequest
<1>3. call' = [call EXCEPT ![r] = q] /\ OnlyCall
  BY DEF SyncStep, OnlyCall, Derives, SeenLinks, SeenStatuses
<1> HIDE DEF v
<1>4. q \in PatchRequest
  BY <1>1, <1>2 DEF PatchRequest
<1> HIDE DEF q
<1>5. TypeOK' /\ call'[r] = q /\ \A p \in Call : p # r => call'[p] = call[p]
  BY <1>3, <1>4, OnlyCallTyped, CallTyped
<1>6. QED
  BY <1>5 DEF q, v

LEMMA SyncTasksTyped ==
  ASSUME TypeOK, NEW r \in Call, SyncTasks(r)
  PROVE  /\ TypeOK'
         /\ call'[r] = [call[r] EXCEPT !.at = "commit",
                                       !.tasks = TasksToMove(call[r].step, call[r].asks)]
         /\ \A p \in Call : p # r => call'[p] = call[p]
<1>1. call[r] \in StepRequest
  BY Kinds DEF SyncTasks
<1> DEFINE T == TasksToMove(call[r].step, call[r].asks)
           q == [call[r] EXCEPT !.at = "commit", !.tasks = T]
<1>2. T \in SUBSET Task
  BY DEF TasksToMove, Linked
<1>3. call' = [call EXCEPT ![r] = q] /\ OnlyCall
  BY DEF SyncTasks, OnlyCall
<1> HIDE DEF T
<1>4. q \in StepRequest
  BY <1>1, <1>2 DEF StepRequest
<1> HIDE DEF q
<1>5. TypeOK' /\ call'[r] = q /\ \A p \in Call : p # r => call'[p] = call[p]
  BY <1>3, <1>4, OnlyCallTyped, CallTyped
<1>6. QED
  BY <1>5 DEF q, T

\* The commits.
LEMMA CreateTyped ==
  ASSUME TypeOK, NEW r \in Call, CommitCreate(r)
  PROVE  TypeOK'
<1>1. call[r] \in CreateRequest
  BY Kinds DEF CommitCreate
<1>2. PICK t \in Task, a \in Columns : t = call[r].task /\ a = call[r].asks
  BY <1>1 DEF CreateRequest
<1>3. /\ row' = [row EXCEPT ![t] = "live"]
      /\ status' = [status EXCEPT ![t] = a.status]
      /\ blockedBy' = [blockedBy EXCEPT ![t] = a.blocked_by]
      /\ blocks' = [blocks EXCEPT ![t] = a.blocks]
      /\ link' = [link EXCEPT ![t] = a.process_step_id]
      /\ stepStatus' = stepStatus /\ doubtful' = doubtful
      /\ Ends(r)
  BY <1>2 DEF CommitCreate
<1>4. /\ a.status \in Status /\ a.blocked_by \in SUBSET Ref /\ a.blocks \in SUBSET Ref
      /\ a.process_step_id \in Step \cup {NoStep}
  BY DEF Columns
<1>5. /\ row' \in [Task -> {"absent", "live", "archived"}]
      /\ status' \in [Task -> Status]
      /\ blockedBy' \in [Task -> SUBSET Ref]
      /\ blocks' \in [Task -> SUBSET Ref]
      /\ link' \in [Task -> Step \cup {NoStep}]
  BY <1>3, <1>4 DEF TypeOK
<1>6. QED
  BY <1>3, <1>5, EndsTyped DEF TypeOK

\* A patch in the terms of its record.
Committing(r, t, a, w, moves) ==
  /\ t = call[r].task /\ a = call[r].asks /\ w = call[r].was
  /\ moves = (call[r].at = "commit" /\ call[r].stepTo # call[r].stepWas)
  /\ IF CallsMirror(call[r]) THEN call[r].at = "commit" ELSE call[r].at = "write"
  /\ ~TaskHeld(t, Others(r))
  /\ row' = row
  /\ status' = [status EXCEPT ![t] = Written(a.status, w.status, @)]
  /\ blockedBy' = [blockedBy EXCEPT ![t] = Written(a.blocked_by, w.blocked_by, @)]
  /\ blocks' = [blocks EXCEPT ![t] = Written(a.blocks, w.blocks, @)]
  /\ link' = [link EXCEPT ![t] = Written(a.process_step_id, w.process_step_id, @)]
  /\ stepStatus' = IF moves THEN [stepStatus EXCEPT ![a.process_step_id] = call[r].stepTo]
                   ELSE stepStatus
  /\ doubtful' = IF a.blocked_by = w.blocked_by THEN doubtful
                 ELSE IF missed[r].lists THEN doubtful \cup {t} ELSE doubtful \ {t}
  /\ Ends(r)

LEMMA PatchIs ==
  ASSUME TypeOK, NEW r \in Call, CommitPatch(r)
  PROVE  /\ call[r] \in PatchRequest
         /\ \E t \in Task, a \in Columns, w \in Columns, moves \in BOOLEAN :
              Committing(r, t, a, w, moves)
<1>1. call[r] \in PatchRequest
  BY Kinds DEF CommitPatch
<1>2. /\ call[r].task \in Task /\ call[r].asks \in Columns /\ call[r].was \in Columns
      /\ (call[r].at = "commit" /\ call[r].stepTo # call[r].stepWas) \in BOOLEAN
  BY <1>1 DEF PatchRequest
<1>3. Committing(r, call[r].task, call[r].asks, call[r].was,
               call[r].at = "commit" /\ call[r].stepTo # call[r].stepWas)
  BY DEF CommitPatch, Committing
<1>4. QED
  BY <1>1, <1>2, <1>3

LEMMA PatchTyped ==
  ASSUME TypeOK, NEW r \in Call, CommitPatch(r)
  PROVE  TypeOK'
<1>1. PICK t \in Task, a \in Columns, w \in Columns, moves \in BOOLEAN :
        Committing(r, t, a, w, moves)
  BY PatchIs
<1>2. /\ a.status \in Status /\ a.blocked_by \in SUBSET Ref /\ a.blocks \in SUBSET Ref
      /\ a.process_step_id \in Step \cup {NoStep}
  BY DEF Columns
<1>3. /\ row' \in [Task -> {"absent", "live", "archived"}]
      /\ status' \in [Task -> Status]
      /\ blockedBy' \in [Task -> SUBSET Ref]
      /\ blocks' \in [Task -> SUBSET Ref]
      /\ link' \in [Task -> Step \cup {NoStep}]
      /\ doubtful' \subseteq Task
  BY <1>1, <1>2 DEF TypeOK, Committing, Written
<1>4. stepStatus' \in [Step -> StepStatus]
  <2>1. call[r].stepTo \in StepStatus
    BY PatchIs DEF PatchRequest
  <2>2. QED
    BY <1>1, <2>1 DEF Committing, TypeOK
<1>5. /\ call' \in [Call -> {NoCall} \cup CreateRequest \cup PatchRequest \cup StepRequest]
      /\ writes' \in 0..MaxWrites
      /\ missed' \in [Call -> [steps : SUBSET Step, lists : BOOLEAN, reopened : BOOLEAN]]
  BY <1>1, EndsTyped DEF Committing
<1>6. QED
  BY <1>3, <1>4, <1>5 DEF TypeOK

\* A step patch in the terms of its record.
LEMMA StepIs ==
  ASSUME TypeOK, NEW r \in Call, CommitStep(r)
  PROVE  /\ call[r] \in StepRequest /\ call[r].at = "commit"
         /\ \A t \in call[r].tasks : ~TaskHeld(t, Others(r))
         /\ stepStatus' = [stepStatus EXCEPT ![call[r].step] =
                             Written(call[r].asks, call[r].was, @)]
         /\ status' = [t \in Task |-> IF t \in call[r].tasks THEN TaskFromStep(call[r].asks)
                                      ELSE status[t]]
         /\ UNCHANGED <<row, blockedBy, blocks, link, doubtful>>
         /\ Ends(r)
  BY Kinds DEF CommitStep

LEMMA StepTyped ==
  ASSUME TypeOK, NEW r \in Call, CommitStep(r)
  PROVE  TypeOK'
<1>1. /\ call[r].asks \in StepStatus
      /\ TaskFromStep(call[r].asks) \in Status
  BY StepIs DEF StepRequest, TaskFromStep, StepStatus, Status
<1>2. status' \in [Task -> Status] /\ stepStatus' \in [Step -> StepStatus]
  BY <1>1, StepIs DEF TypeOK, Written
<1>3. QED
  BY <1>2, StepIs, EndsTyped DEF TypeOK

LEMMA ArchiveTyped ==
  ASSUME TypeOK, NEW t \in Task, ArchiveTask(t)
  PROVE  TypeOK'
<1>1. writes' \in 0..MaxWrites
  BY BoardAssumption DEF ArchiveTask, TypeOK
<1>2. missed' \in [Call -> [steps : SUBSET Step, lists : BOOLEAN, reopened : BOOLEAN]]
  BY OvertakesTyped DEF ArchiveTask
<1>3. QED
  BY <1>1, <1>2 DEF ArchiveTask, TypeOK

LEMMA MaterialiseTyped ==
  ASSUME TypeOK, NEW n \in 1..MaxBatch, NEW batch \in [1..n -> Task],
         NEW chained \in SUBSET (2..n), MaterialiseTasks(n, batch, chained)
  PROVE  TypeOK'
<1>1. n \in Nat
  BY BoardAssumption
<1>2. \A t \in Task : blockedBy'[t] \in SUBSET Ref /\ blocks'[t] \in SUBSET Ref
  <2>1. SUFFICES ASSUME NEW t \in Task
                 PROVE  blockedBy'[t] \in SUBSET Ref /\ blocks'[t] \in SUBSET Ref
    OBVIOUS
  <2>2. blockedBy[t] \in SUBSET Ref /\ blocks[t] \in SUBSET Ref
    BY DEF TypeOK
  <2>3. \A i \in chained : batch[i] \in Task /\ batch[i - 1] \in Task
    BY <1>1
  <2>4. \A u \in Task : Id(u) \in Ref
    BY BoardAssumption DEF Id, Ref
  <2>5. {Id(batch[i - 1]) : i \in {j \in chained : batch[j] = t}} \in SUBSET Ref
    BY <2>3, <2>4
  <2>6. {Id(batch[i]) : i \in {j \in chained : batch[j - 1] = t}} \in SUBSET Ref
    BY <2>3, <2>4
  <2>7. /\ blockedBy'[t] = IF t \notin {batch[i] : i \in 1..n} THEN blockedBy[t]
                           ELSE {Id(batch[i - 1]) : i \in {j \in chained : batch[j] = t}}
        /\ blocks'[t] = IF t \notin {batch[i] : i \in 1..n} THEN blocks[t]
                        ELSE {Id(batch[i]) : i \in {j \in chained : batch[j - 1] = t}}
    BY DEF MaterialiseTasks
  <2>8. QED
    BY <2>2, <2>5, <2>6, <2>7
<1>3. blockedBy' \in [Task -> SUBSET Ref] /\ blocks' \in [Task -> SUBSET Ref]
  <2>1. /\ blockedBy' = [t \in Task |-> blockedBy'[t]]
        /\ blocks' = [t \in Task |-> blocks'[t]]
    BY DEF MaterialiseTasks
  <2>2. QED
    BY <1>2, <2>1
<1>4. status' \in [Task -> Status] /\ row' \in [Task -> {"absent", "live", "archived"}]
  BY DEF MaterialiseTasks, TypeOK, Status, StepStatus
<1>5. writes' \in 0..MaxWrites
  BY BoardAssumption DEF MaterialiseTasks, TypeOK
<1>6. missed' \in [Call -> [steps : SUBSET Step, lists : BOOLEAN, reopened : BOOLEAN]]
  BY OvertakesTyped DEF MaterialiseTasks
<1>7. QED
  BY <1>3, <1>4, <1>5, <1>6 DEF MaterialiseTasks, TypeOK

LEMMA FailTyped ==
  ASSUME TypeOK, NEW r \in Call, Fail(r)
  PROVE  TypeOK'
<1>1. NothingMissed \in [steps : SUBSET Step, lists : BOOLEAN, reopened : BOOLEAN]
  BY DEF NothingMissed
<1>2. missed' \in [Call -> [steps : SUBSET Step, lists : BOOLEAN, reopened : BOOLEAN]]
  BY <1>1 DEF Fail, TypeOK
<1>3. call' \in [Call -> {NoCall} \cup CreateRequest \cup PatchRequest \cup StepRequest]
  BY DEF Fail, TypeOK
<1>4. QED
  BY <1>2, <1>3 DEF Fail, board, TypeOK

\* The checks.
LEMMA ChecksTyped ==
  ASSUME TypeOK, NEW r \in Call,
         CheckReferences(r) \/ CheckCycle(r) \/ CheckDoneRule(r)
  PROVE  /\ TypeOK'
         /\ call[r].kind \in {"create", "patch"}
         /\ \E place \in {"walk", "done rule", "write"} :
              call'[r] = [call[r] EXCEPT !.at = place] /\ Reaches(r, place)
         /\ \A p \in Call : p # r => call'[p] = call[p]
<1>1. call[r].kind \in {"create", "patch"}
  BY DEF CheckReferences, CheckCycle, CheckDoneRule
<1>2. PICK place \in {"walk", "done rule", "write"} : Reaches(r, place)
  BY DEF CheckReferences, CheckCycle, CheckDoneRule, AfterLists
<1>3. QED
  BY <1>1, <1>2, ReachesTyped

LEMMA TypeNext == TypeOK /\ [Next]_vars => TypeOK'
<1>1. SUFFICES ASSUME TypeOK, [Next]_vars PROVE TypeOK'
  OBVIOUS
<1>2. CASE UNCHANGED vars
  BY <1>1, <1>2 DEF vars, TypeOK
<1>3. ASSUME NEW r \in Call, NEW t \in Task, NEW a \in Posts, StartCreate(r, t, a)
      PROVE  TypeOK'
  BY <1>1, <1>3, Firsts, Started, StartsTyped
<1>4. ASSUME NEW r \in Call, NEW t \in Task, NEW c \in Patches, LoadTask(r, t, c)
      PROVE  TypeOK'
  BY <1>1, <1>4, Firsts, Started, StartsTyped
<1>5. ASSUME NEW r \in Call, NEW s \in Step, NEW v \in StepStatus, LoadStep(r, s, v)
      PROVE  TypeOK'
  BY <1>1, <1>5, Firsts, Started, StartsTyped
<1>6. ASSUME NEW r \in Call,
             \/ CheckReferences(r) \/ CheckCycle(r) \/ CheckDoneRule(r)
             \/ CommitCreate(r) \/ FlushTask(r) \/ SyncStep(r) \/ CommitPatch(r)
             \/ SyncTasks(r) \/ CommitStep(r) \/ Fail(r)
      PROVE  TypeOK'
  BY <1>1, <1>6, ChecksTyped, CreateTyped, FlushTyped, SyncTyped, PatchTyped, SyncTasksTyped,
     StepTyped, FailTyped
<1>7. QED
  BY <1>1, <1>2, <1>3, <1>4, <1>5, <1>6, ArchiveTyped, MaterialiseTyped DEF Next

\* The rows, lists, statuses and requests keep their types under every handler.
THEOREM TypeCorrect == Spec => []TypeOK
  BY TypeInit, TypeNext, PTL DEF Spec
-----------------------------------------------------------------------------
(***************************************************************************)
(* What a request in flight can rely on.  q is its record, m what it has   *)
(* missed: each fact holds as long as m does not say otherwise.            *)
(***************************************************************************)

\* Some set of references is closed under the lists of the live tasks other than t,
\* holds the tasks of B and not t: t can wait for B.
Clear(t, B) ==
  \E C \in SUBSET Ref :
    /\ Id(t) \notin C
    /\ \A y \in Named(B) : Id(y) \in C
    /\ \A x \in C : x[1] \in Existing
    /\ \A y \in Live \ {t} : Id(y) \in C => blockedBy[y] \subseteq C

Placed(q) ==
  q.kind = "patch" =>
    /\ row[q.task] # "absent"
    /\ "status" \notin q.set => q.asks.status = q.was.status
    /\ q.at \in {"sync", "commit"} => CallsMirror(q)

NamesExisting(q) ==
  q.kind \in {"create", "patch"} /\ q.at # "references"
    => Named(q.asks.blocked_by) \subseteq Existing

Walked(q, m) ==
  /\ q.kind = "patch" /\ q.at \notin {"references", "walk"}
  /\ q.asks.blocked_by # q.was.blocked_by /\ ~m.lists
  => Clear(q.task, q.asks.blocked_by)

CopyFresh(q, m) ==
  q.kind = "patch" =>
    \A s \in Step \ m.steps :
      row[q.task] = "live" =>
        /\ link[q.task] = s <=> q.was.process_step_id = s
        /\ q.was.process_step_id = s => status[q.task] = q.was.status

ListFresh(q, m) == q.kind = "patch" /\ ~m.lists => blockedBy[q.task] = q.was.blocked_by

Guarded(q, m) ==
  /\ q.kind \in {"create", "patch"} /\ q.at \in {"write", "sync", "commit"}
  /\ q.kind = "patch" => "status" \in q.set
  /\ q.asks.status = "done" /\ ~m.reopened
  => OpenBlockers(q.asks.blocked_by) = {}

MirrorFresh(q, m) ==
  /\ q.kind = "patch" /\ q.at \in {"sync", "commit"}
  /\ q.asks.process_step_id \notin m.steps
  => /\ stepStatus[q.asks.process_step_id] = q.stepWas
     /\ q.at = "commit" => q.stepTo = Derives(q)

StepFresh(q, m) ==
  q.kind = "step" =>
    /\ q.step \notin m.steps =>
         /\ stepStatus[q.step] = q.was
         /\ q.at = "commit" => q.tasks = TasksToMove(q.step, q.asks)
    /\ \A s \in Step \ (m.steps \cup {q.step}) : q.tasks \cap Linked(s, link) = {}
    /\ q.tasks \subseteq Existing

Facts(q, m) ==
  /\ Placed(q) /\ NamesExisting(q) /\ Walked(q, m) /\ CopyFresh(q, m) /\ ListFresh(q, m)
  /\ Guarded(q, m) /\ MirrorFresh(q, m) /\ StepFresh(q, m)

\* A create's id is nobody else's.
FreshId(r) ==
  call[r].kind = "create" =>
    /\ row[call[r].task] = "absent"
    /\ \A p \in Call : p # r /\ call[p].kind = "create" => call[p].task # call[r].task

RefsExist == \A t \in Task : Named(blockedBy[t]) \subseteq Existing
AbsentUntouched == \A t \in Task : row[t] = "absent" => status[t] = "todo"

Rows == TypeOK /\ RefsExist /\ AbsentUntouched
CallFacts == \A r \in Call : Facts(call[r], missed[r]) /\ FreshId(r)

\* A commit by the requests in by, as the others meet it.
Meets(by) ==
  /\ Overtakes(by)
  /\ \A p \in Call \ by : call'[p] = call[p]
  /\ \A p \in Call \cap by : call'[p] = NoCall
  /\ \A t \in Task : row[t] # "absent" =>
       /\ row'[t] # "absent"
       /\ row'[t] = "live" => row[t] = "live"
  /\ \A p \in Call \ by : call[p].kind = "create" => row'[call[p].task] = row[call[p].task]
  /\ \A p \in Call \ by :
       call[p].kind = "patch" /\ call[p].at \in {"sync", "commit"} =>
         /\ row'[call[p].task] = row[call[p].task]
         /\ status'[call[p].task] = status[call[p].task]
         /\ link'[call[p].task] = link[call[p].task]

LEMMA NoCallFacts ==
  ASSUME NEW m PROVE Facts(NoCall, m)
<1>1. NoCall.kind = "none"
  BY DEF NoCall
<1>2. QED
  BY <1>1 DEF Facts, Placed, NamesExisting, Walked, CopyFresh, ListFresh, Guarded, MirrorFresh,
        StepFresh

\* What the history says of a commit to a request it does not report it to.
LEMMA Unmissed ==
  ASSUME TypeOK, NEW by, Overtakes(by), NEW r \in Call \ by, call[r] # NoCall
  PROVE  /\ missed[r].steps \subseteq missed'[r].steps
         /\ \A s \in Step \ missed'[r].steps :
              /\ stepStatus'[s] = stepStatus[s]
              /\ Linked(s, link)' = Linked(s, link)
              /\ \A t \in Linked(s, link) : status'[t] = status[t]
         /\ ~missed'[r].lists =>
              ~missed[r].lists /\ \A t \in Existing : blockedBy'[t] = blockedBy[t]
         /\ ~missed'[r].reopened =>
              ~missed[r].reopened
                /\ \A t \in Existing : status[t] = "done" => status'[t] = "done"
<1>1. missed'[r] =
        [steps |-> missed[r].steps \cup
                    {s \in Step : \/ stepStatus'[s] # stepStatus[s]
                                  \/ Linked(s, link)' # Linked(s, link)
                                  \/ \E t \in Linked(s, link) : status'[t] # status[t]},
         lists |-> \/ missed[r].lists
                   \/ \E t \in Existing : blockedBy'[t] # blockedBy[t],
         reopened |-> \/ missed[r].reopened
                      \/ \E t \in Existing : status[t] = "done" /\ status'[t] # "done"]
  BY DEF Overtakes
<1>2. QED
  BY <1>1

LEMMA PlacedKept ==
  ASSUME Rows, NEW by, Meets(by), NEW r \in Call \ by, Placed(call[r])
  PROVE  Placed(call[r])'
<1>1. call'[r] = call[r]
  BY DEF Meets
<1>2. SUFFICES ASSUME call[r].kind = "patch" PROVE row'[call[r].task] # "absent"
  BY <1>1 DEF Placed, CallsMirror
<1>3. call[r].task \in Task
  BY <1>2, Kinds DEF Rows, PatchRequest
<1>4. QED
  BY <1>2, <1>3 DEF Placed, Meets

LEMMA NamesKept ==
  ASSUME Rows, NEW by, Meets(by), NEW r \in Call \ by, NamesExisting(call[r])
  PROVE  NamesExisting(call[r])'
<1>1. call'[r] = call[r]
  BY DEF Meets
<1>2. Existing \subseteq Existing'
  BY DEF Meets, Existing
<1>3. QED
  BY <1>1, <1>2 DEF NamesExisting, Named

LEMMA ClearKept ==
  ASSUME Rows, NEW by, Meets(by), NEW t, NEW B, Clear(t, B),
         \A u \in Existing : blockedBy'[u] = blockedBy[u]
  PROVE  Clear(t, B)'
<1>1. PICK C \in SUBSET Ref :
        /\ Id(t) \notin C
        /\ \A y \in Named(B) : Id(y) \in C
        /\ \A x \in C : x[1] \in Existing
        /\ \A y \in Live \ {t} : Id(y) \in C => blockedBy[y] \subseteq C
  BY DEF Clear
<1>2. \A x \in C : x[1] \in Existing'
  BY <1>1 DEF Meets, Existing
<1>3. ASSUME NEW y \in Live' \ {t}, Id(y) \in C PROVE blockedBy'[y] \subseteq C
  <2>1. y \in Existing
    BY <1>1, <1>3 DEF Id
  <2>2. y \in Live
    BY <2>1, <1>3 DEF Meets, Existing, Live
  <2>3. QED
    BY <1>1, <1>3, <2>1, <2>2
<1>4. QED
  BY <1>1, <1>2, <1>3 DEF Clear, Named, Id

LEMMA WalkedKept ==
  ASSUME Rows, NEW by, Meets(by), NEW r \in Call \ by, Walked(call[r], missed[r])
  PROVE  Walked(call[r], missed[r])'
<1>1. call'[r] = call[r]
  BY DEF Meets
<1>2. SUFFICES ASSUME call[r].kind = "patch", call[r].at \notin {"references", "walk"},
                      call[r].asks.blocked_by # call[r].was.blocked_by, ~missed'[r].lists
               PROVE  Clear(call[r].task, call[r].asks.blocked_by)'
  BY <1>1 DEF Walked
<1>3. ~missed[r].lists /\ \A t \in Existing : blockedBy'[t] = blockedBy[t]
  BY <1>2, Unmissed, Kinds DEF Rows, Meets
<1>4. Clear(call[r].task, call[r].asks.blocked_by)
  BY <1>2, <1>3 DEF Walked
<1> DEFINE t == call[r].task  B == call[r].asks.blocked_by
<1>5. t' = t /\ B' = B
  BY <1>1
<1>6. PICK u, A : u = t /\ A = B
  OBVIOUS
<1>7. Clear(u, A)'
  BY <1>3, <1>4, <1>6, ClearKept
<1>8. QED
  BY <1>5, <1>6, <1>7 DEF Clear

LEMMA CopyKept ==
  ASSUME Rows, NEW by, Meets(by), NEW r \in Call \ by, Placed(call[r]),
         CopyFresh(call[r], missed[r])
  PROVE  CopyFresh(call[r], missed[r])'
<1>1. call'[r] = call[r]
  BY DEF Meets
<1>2. SUFFICES ASSUME call[r].kind = "patch", NEW s \in Step \ missed'[r].steps,
                      row'[call[r].task] = "live"
               PROVE  /\ link'[call[r].task] = s <=> call[r].was.process_step_id = s
                      /\ call[r].was.process_step_id = s =>
                           status'[call[r].task] = call[r].was.status
  BY <1>1 DEF CopyFresh
<1>3. PICK t \in Task : t = call[r].task
  BY <1>2, Kinds DEF Rows, PatchRequest
<1>4. row[t] = "live"
  BY <1>2, <1>3 DEF Placed, Meets
<1>5. /\ Linked(s, link)' = Linked(s, link)
      /\ \A u \in Linked(s, link) : status'[u] = status[u]
      /\ s \in Step \ missed[r].steps
  BY <1>2, Unmissed, Kinds DEF Rows, Meets
<1>6. link'[t] = s <=> link[t] = s
  BY <1>2, <1>3, <1>4, <1>5 DEF Linked
<1>7. link[t] = s => status'[t] = status[t]
  BY <1>4, <1>5 DEF Linked
<1>8. /\ link[t] = s <=> call[r].was.process_step_id = s
      /\ call[r].was.process_step_id = s => status[t] = call[r].was.status
  BY <1>2, <1>3, <1>4, <1>5 DEF CopyFresh
<1>9. QED
  BY <1>3, <1>6, <1>7, <1>8

LEMMA ListKept ==
  ASSUME Rows, NEW by, Meets(by), NEW r \in Call \ by, Placed(call[r]),
         ListFresh(call[r], missed[r])
  PROVE  ListFresh(call[r], missed[r])'
<1>1. call'[r] = call[r]
  BY DEF Meets
<1>2. SUFFICES ASSUME call[r].kind = "patch", ~missed'[r].lists
               PROVE  blockedBy'[call[r].task] = call[r].was.blocked_by
  BY <1>1 DEF ListFresh
<1>3. call[r].task \in Existing
  BY <1>2, Kinds DEF Rows, PatchRequest, Placed, Existing
<1>4. ~missed[r].lists /\ \A t \in Existing : blockedBy'[t] = blockedBy[t]
  BY <1>2, Unmissed, Kinds DEF Rows, Meets
<1>5. QED
  BY <1>2, <1>3, <1>4 DEF ListFresh

LEMMA GuardedKept ==
  ASSUME Rows, NEW by, Meets(by), NEW r \in Call \ by, NamesExisting(call[r]),
         Guarded(call[r], missed[r])
  PROVE  Guarded(call[r], missed[r])'
<1>1. call'[r] = call[r]
  BY DEF Meets
<1>2. SUFFICES ASSUME call[r].kind \in {"create", "patch"},
                      call[r].at \in {"write", "sync", "commit"},
                      call[r].kind = "patch" => "status" \in call[r].set,
                      call[r].asks.status = "done", ~missed'[r].reopened
               PROVE  OpenBlockers(call[r].asks.blocked_by)' = {}
  BY <1>1 DEF Guarded
<1>3. /\ ~missed[r].reopened
      /\ \A t \in Existing : status[t] = "done" => status'[t] = "done"
  BY <1>2, Unmissed, Kinds DEF Rows, Meets
<1>4. OpenBlockers(call[r].asks.blocked_by) = {}
  BY <1>2, <1>3 DEF Guarded
<1>5. ASSUME NEW b \in Named(call[r].asks.blocked_by)
      PROVE  ~(row'[b] = "live" /\ status'[b] # "done")
  <2>1. b \in Existing
    BY <1>2, <1>5 DEF NamesExisting
  <2>2. row[b] # "live" \/ status[b] = "done"
    BY <1>4, <1>5 DEF OpenBlockers
  <2>3. QED
    BY <1>3, <2>1, <2>2 DEF Existing, Meets
<1>6. QED
  BY <1>1, <1>5 DEF OpenBlockers, Named

LEMMA StepFromTasksDependsOn ==
  ASSUME NEW T, NEW st, NEW su, \A t \in T : st[t] = su[t]
  PROVE  StepFromTasks(T, st) = StepFromTasks(T, su)
  BY DEF StepFromTasks

\* The view of a patch that holds its row does not change with a commit it does not miss.
LEMMA ViewKept ==
  ASSUME Rows, TypeOK', NEW by, Meets(by), NEW r \in Call \ by, Placed(call[r]),
         call[r].kind = "patch", call[r].at \in {"sync", "commit"},
         call[r].asks.process_step_id \notin missed'[r].steps
  PROVE  /\ stepStatus'[call[r].asks.process_step_id] = stepStatus[call[r].asks.process_step_id]
         /\ Derives(call[r])' = Derives(call[r])
<1>1. call'[r] = call[r]
  BY DEF Meets
<1>2. PICK q \in PatchRequest : q = call[r]
  BY Kinds DEF Rows
<1>3. PICK t \in Task, l \in Step : t = q.task /\ l = q.asks.process_step_id
  BY <1>2 DEF Placed, CallsMirror, PatchRequest, Columns
<1>4. /\ stepStatus'[l] = stepStatus[l]
      /\ Linked(l, link)' = Linked(l, link)
      /\ \A u \in Linked(l, link) : status'[u] = status[u]
  BY <1>2, <1>3, Unmissed, Kinds DEF Rows, Meets
<1>5. row'[t] = row[t] /\ status'[t] = status[t] /\ link'[t] = link[t]
  BY <1>2, <1>3 DEF Meets
<1>6. PICK m : m = Written(q.asks.process_step_id, q.was.process_step_id, link[t])
  OBVIOUS
<1>7. PICK lk, ln, st, sn, T : /\ lk = [link EXCEPT ![t] = m] /\ ln = [link' EXCEPT ![t] = m]
                               /\ st = [status EXCEPT ![t] = q.asks.status]
                               /\ sn = [status' EXCEPT ![t] = q.asks.status]
                               /\ T = Linked(l, lk)
  OBVIOUS
<1>8. \A u \in Task : /\ lk[u] = IF u = t THEN m ELSE link[u]
                      /\ ln[u] = IF u = t THEN m ELSE link'[u]
                      /\ st[u] = IF u = t THEN q.asks.status ELSE status[u]
                      /\ sn[u] = IF u = t THEN q.asks.status ELSE status'[u]
  BY <1>7 DEF Rows, TypeOK
<1>9. {u \in Task : row'[u] = "live" /\ ln[u] = l} = T
  <2>1. SUFFICES ASSUME NEW u \in Task
                 PROVE  row'[u] = "live" /\ ln[u] = l <=> row[u] = "live" /\ lk[u] = l
    BY <1>7 DEF Linked
  <2>2. CASE u = t
    BY <1>5, <1>8, <2>2
  <2>3. CASE u # t
    BY <1>4, <1>8, <2>3 DEF Linked
  <2>4. QED
    BY <2>2, <2>3
<1>10. \A u \in T : sn[u] = st[u]
  BY <1>4, <1>7, <1>8 DEF Linked
<1>11. StepFromTasks(T, sn) = StepFromTasks(T, st)
  BY <1>10, StepFromTasksDependsOn
<1>12. Derives(q) = IF T = {} THEN q.stepWas ELSE StepFromTasks(T, st)
  BY <1>3, <1>6, <1>7 DEF Derives, SyncStepFromTasks, SeenLinks, SeenStatuses
<1>13. Derives(call[r])' = IF T = {} THEN q.stepWas ELSE StepFromTasks(T, sn)
  <2>1. PICK U : U = {u \in Task : row'[u] = "live" /\ ln[u] = l}
    OBVIOUS
  <2>2. /\ [link' EXCEPT ![t] = Written(q.asks.process_step_id, q.was.process_step_id, @)] = ln
        /\ [status' EXCEPT ![t] = q.asks.status] = sn
    BY <1>5, <1>6, <1>7 DEF TypeOK
  <2>3. SeenLinks(call[r])' = ln /\ SeenStatuses(call[r])' = sn
    BY <1>1, <1>2, <1>3, <2>2 DEF SeenLinks, SeenStatuses, Written
  <2>4. Linked(call[r].asks.process_step_id, SeenLinks(call[r]))' = U
    BY <1>1, <1>2, <1>3, <2>1, <2>3 DEF Linked
  <2>5. Derives(call[r])' =
          IF Linked(call[r].asks.process_step_id, SeenLinks(call[r]))' = {}
          THEN call'[r].stepWas
          ELSE StepFromTasks(Linked(call[r].asks.process_step_id, SeenLinks(call[r]))',
                             SeenStatuses(call[r])')
    BY DEF Derives, SyncStepFromTasks, StepFromTasks, Lower
  <2>6. QED
    BY <1>1, <1>2, <1>9, <2>1, <2>3, <2>4, <2>5
<1>14. QED
  BY <1>2, <1>3, <1>4, <1>11, <1>12, <1>13

LEMMA MirrorKept ==
  ASSUME Rows, TypeOK', NEW by, Meets(by), NEW r \in Call \ by, Placed(call[r]),
         MirrorFresh(call[r], missed[r])
  PROVE  MirrorFresh(call[r], missed[r])'
<1>1. call'[r] = call[r]
  BY DEF Meets
<1>2. SUFFICES ASSUME call[r].kind = "patch", call[r].at \in {"sync", "commit"},
                      call[r].asks.process_step_id \notin missed'[r].steps
               PROVE  /\ stepStatus'[call[r].asks.process_step_id] = call[r].stepWas
                      /\ call[r].at = "commit" => call[r].stepTo = Derives(call[r])'
  BY <1>1 DEF MirrorFresh
<1>3. call[r].asks.process_step_id \notin missed[r].steps
  BY <1>2, Unmissed, Kinds DEF Rows, Meets
<1>4. QED
  BY <1>2, <1>3, ViewKept DEF MirrorFresh

LEMMA StepKept ==
  ASSUME Rows, NEW by, Meets(by), NEW r \in Call \ by, StepFresh(call[r], missed[r])
  PROVE  StepFresh(call[r], missed[r])'
<1>1. call'[r] = call[r]
  BY DEF Meets
<1>2. SUFFICES ASSUME call[r].kind = "step"
               PROVE  StepFresh(call[r], missed[r])'
  BY <1>1 DEF StepFresh
<1>3. PICK q \in StepRequest : q = call[r]
  BY <1>2, Kinds DEF Rows
<1>4. missed[r].steps \subseteq missed'[r].steps
  BY <1>2, Unmissed, Kinds DEF Rows, Meets
<1>5. \A s \in Step \ missed'[r].steps :
        /\ stepStatus'[s] = stepStatus[s]
        /\ Linked(s, link)' = Linked(s, link)
        /\ \A t \in Linked(s, link) : status'[t] = status[t]
  BY <1>2, Unmissed, Kinds DEF Rows, Meets
<1>6. q.step \in Step
  BY DEF StepRequest
<1>7. q.step \notin missed'[r].steps =>
        /\ stepStatus'[q.step] = q.was
        /\ q.at = "commit" =>
             q.tasks = {t \in Linked(q.step, link)' : Lower(status'[t]) # TaskFromStep(q.asks)}
  <2>1. SUFFICES ASSUME q.step \notin missed'[r].steps
                 PROVE  /\ stepStatus'[q.step] = q.was
                        /\ q.at = "commit" =>
                             q.tasks = {t \in Linked(q.step, link)' :
                                          Lower(status'[t]) # TaskFromStep(q.asks)}
    OBVIOUS
  <2>2. /\ stepStatus[q.step] = q.was
        /\ q.at = "commit" => q.tasks = TasksToMove(q.step, q.asks)
    BY <1>2, <1>3, <1>4, <2>1 DEF StepFresh
  <2>3. QED
    BY <1>5, <1>6, <2>1, <2>2 DEF TasksToMove
<1>8. \A s \in Step \ (missed'[r].steps \cup {q.step}) : q.tasks \cap Linked(s, link)' = {}
  BY <1>2, <1>3, <1>4, <1>5 DEF StepFresh
<1>9. q.tasks \subseteq Existing'
  BY <1>2, <1>3 DEF StepFresh, Meets, Existing
<1>10. QED
  BY <1>1, <1>3, <1>7, <1>8, <1>9 DEF StepFresh, TasksToMove, Linked, Lower, TaskFromStep

LEMMA FactsKept ==
  ASSUME Rows, TypeOK', NEW by, Meets(by), NEW r \in Call, Facts(call[r], missed[r])
  PROVE  Facts(call[r], missed[r])'
<1>1. CASE r \in by
  <2>1. call'[r] = NoCall
    BY <1>1 DEF Meets
  <2>2. NoCall.kind = "none"
    BY DEF NoCall
  <2>3. QED
    BY <2>1, <2>2 DEF Facts, Placed, NamesExisting, Walked, CopyFresh, ListFresh, Guarded,
          MirrorFresh, StepFresh
<1>2. CASE r \notin by
  <2>1. /\ Placed(call[r]) /\ NamesExisting(call[r]) /\ Walked(call[r], missed[r])
        /\ CopyFresh(call[r], missed[r]) /\ ListFresh(call[r], missed[r])
        /\ Guarded(call[r], missed[r]) /\ MirrorFresh(call[r], missed[r])
        /\ StepFresh(call[r], missed[r])
    BY DEF Facts
  <2>2. /\ Placed(call[r])' /\ NamesExisting(call[r])' /\ Walked(call[r], missed[r])'
        /\ CopyFresh(call[r], missed[r])' /\ ListFresh(call[r], missed[r])'
    BY <1>2, <2>1, PlacedKept, NamesKept, WalkedKept, CopyKept, ListKept
  <2>3. /\ Guarded(call[r], missed[r])' /\ MirrorFresh(call[r], missed[r])'
        /\ StepFresh(call[r], missed[r])'
    BY <1>2, <2>1, GuardedKept, MirrorKept, StepKept
  <2>4. QED
    BY <2>2, <2>3 DEF Facts
<1>3. QED
  BY <1>1, <1>2

LEMMA FreshKept ==
  ASSUME Rows, NEW by, Meets(by), \A r \in Call : FreshId(r)
  PROVE  \A r \in Call : FreshId(r)'
<1>1. SUFFICES ASSUME NEW r \in Call, call'[r].kind = "create" PROVE FreshId(r)'
  BY DEF FreshId
<1>2. \A p \in Call : call'[p].kind = "create" => p \notin by /\ call'[p] = call[p]
  BY DEF Meets, NoCall
<1>3. QED
  BY <1>1, <1>2 DEF FreshId, Meets
-----------------------------------------------------------------------------
(* A request that moves on changes what it knows itself, and nothing for   *)
(* the others.                                                             *)

SameBoard == UNCHANGED board

LEMMA SameFacts ==
  ASSUME SameBoard, NEW q, NEW m, Facts(q, m),
         NEW r \in Call, call'[r] = q, missed'[r] = m
  PROVE  Facts(call[r], missed[r])'
<1>1. /\ row' = row /\ status' = status /\ blockedBy' = blockedBy /\ blocks' = blocks
      /\ link' = link /\ stepStatus' = stepStatus
  BY DEF SameBoard, board
<1>2. Live' = Live /\ Existing' = Existing
  BY <1>1 DEF Live, Existing
<1>3. Placed(call[r])' /\ NamesExisting(call[r])' /\ ListFresh(call[r], missed[r])'
  BY <1>1, <1>2 DEF Facts, Placed, NamesExisting, ListFresh, CallsMirror, Named
<1>4. Walked(call[r], missed[r])'
  <2>1. Clear(q.task, q.asks.blocked_by) <=>
          \E C \in SUBSET Ref :
            /\ Id(q.task) \notin C
            /\ \A y \in Named(q.asks.blocked_by) : Id(y) \in C
            /\ \A x \in C : x[1] \in Existing
            /\ \A y \in Live \ {q.task} : Id(y) \in C => blockedBy[y] \subseteq C
    BY DEF Clear
  <2>2. Clear(call[r].task, call[r].asks.blocked_by)' <=>
          \E C \in SUBSET Ref :
            /\ Id(q.task) \notin C
            /\ \A y \in Named(q.asks.blocked_by) : Id(y) \in C
            /\ \A x \in C : x[1] \in Existing
            /\ \A y \in Live \ {q.task} : Id(y) \in C => blockedBy[y] \subseteq C
    BY <1>1, <1>2 DEF Clear, Named, Id
  <2>3. QED
    BY <2>1, <2>2 DEF Facts, Walked
<1>5. CopyFresh(call[r], missed[r])'
  BY <1>1 DEF Facts, CopyFresh
<1>6. Guarded(call[r], missed[r])'
  BY <1>1 DEF Facts, Guarded, OpenBlockers, Named
<1>7. MirrorFresh(call[r], missed[r])'
  <2>1. Derives(call[r])' = Derives(q)
    BY <1>1 DEF Derives, SyncStepFromTasks, SeenLinks, SeenStatuses, Linked, StepFromTasks, Lower,
       Written
  <2>2. QED
    BY <1>1, <2>1 DEF Facts, MirrorFresh
<1>8. StepFresh(call[r], missed[r])'
  BY <1>1, <1>2 DEF Facts, StepFresh, TasksToMove, Linked, Lower, TaskFromStep
<1>9. QED
  BY <1>3, <1>4, <1>5, <1>6, <1>7, <1>8 DEF Facts

\* The facts of a request that starts.
LEMMA FirstFacts ==
  ASSUME Rows, NEW m
  PROVE  /\ \A t \in Task, a \in Posts : Facts(FirstCreate(t, a), m)
         /\ \A t \in Task, c \in Patches : row[t] # "absent" => Facts(FirstPatch(t, c), m)
         /\ \A s \in Step, v \in StepStatus : Facts(FirstStep(s, v), m)
<1>1. ASSUME NEW t \in Task, NEW a \in Posts PROVE Facts(FirstCreate(t, a), m)
  BY DEF FirstCreate, Facts, Placed, NamesExisting, Walked, CopyFresh, ListFresh, Guarded,
         MirrorFresh, StepFresh
<1>2. ASSUME NEW t \in Task, NEW c \in Patches, row[t] # "absent"
      PROVE  Facts(FirstPatch(t, c), m)
  <2>1. PICK q \in PatchRequest : q = FirstPatch(t, c)
    BY Firsts DEF Rows
  <2>2. /\ q.kind = "patch" /\ q.task = t /\ q.set = DOMAIN c /\ q.was = ColumnsOf(t)
        /\ q.asks = Overlay(c, ColumnsOf(t))
        /\ q.at = IF DOMAIN c \cap {"blocked_by", "blocks"} # {} THEN "references"
                  ELSE AfterLists("status" \in DOMAIN c, q.asks.status)
    BY <2>1 DEF FirstPatch
  <2>3. /\ "status" \notin q.set => q.asks.status = q.was.status
        /\ "blocked_by" \notin q.set => q.asks.blocked_by = q.was.blocked_by
    BY <2>2 DEF Overlay, ColumnsOf
  <2>4. /\ q.at \in {"references", "done rule", "write"}
        /\ q.at # "references" => "blocked_by" \notin q.set
        /\ q.at = "write" => ~("status" \in q.set /\ q.asks.status = "done")
    BY <2>2 DEF AfterLists
  <2>5. /\ q.was.status = status[t] /\ q.was.blocked_by = blockedBy[t]
        /\ q.was.process_step_id = link[t]
    BY <2>2 DEF ColumnsOf
  <2>6. Placed(q) /\ Guarded(q, m) /\ MirrorFresh(q, m)
    BY <1>2, <2>2, <2>3, <2>4 DEF Placed, Guarded, MirrorFresh
  <2>7. NamesExisting(q) /\ Walked(q, m)
    BY <2>3, <2>4, <2>5 DEF NamesExisting, Walked, Rows, RefsExist
  <2>8. CopyFresh(q, m) /\ ListFresh(q, m)
    BY <2>2, <2>5 DEF CopyFresh, ListFresh
  <2>9. StepFresh(q, m)
    BY <2>2 DEF StepFresh
  <2>10. QED
    BY <2>1, <2>6, <2>7, <2>8, <2>9 DEF Facts
<1>3. ASSUME NEW s \in Step, NEW v \in StepStatus PROVE Facts(FirstStep(s, v), m)
  BY DEF FirstStep, Facts, Placed, NamesExisting, Walked, CopyFresh, ListFresh, Guarded,
         MirrorFresh, StepFresh
<1>4. QED
  BY <1>1, <1>2, <1>3

\* The walk finds a set of its own in which t can wait for B.
LEMMA WalkClears ==
  ASSUME Rows, NEW t \in Task, NEW B \in SUBSET Ref, NEW K \in SUBSET Ref,
         Named(B) \subseteq Existing, NoCycle(t, B, K)
  PROVE  Clear(t, B)
<1> DEFINE deps == WalkedGraph(t, B, K)
<1>1. PICK C \in SUBSET Ref :
        deps[Id(t)] \subseteq C /\ (\A y \in C : deps[y] \subseteq C) /\ Id(t) \notin C
  <2>1. Id(t) \in Ref
    BY BoardAssumption DEF Id, Ref
  <2>2. QED
    BY <2>1 DEF NoCycle, Reached
<1> DEFINE D == {x \in C : x[1] \in Existing}
<1>2. \A y \in Named(B) : Id(y) \in D
  <2>1. deps[Id(t)] = {Id(y) : y \in Named(B)}
    BY BoardAssumption DEF WalkedGraph, Id, Ref
  <2> HIDE DEF deps
  <2>2. QED
    BY <1>1, <2>1 DEF Id
<1>3. ASSUME NEW y \in Live \ {t}, Id(y) \in D PROVE blockedBy[y] \subseteq D
  <2>1. Id(y) # Id(t) /\ Id(y) \in Ref
    BY <1>3, BoardAssumption DEF Id, Ref, Live
  <2>2. blockedBy[y] \subseteq deps[Id(y)]
    BY <1>3, <2>1 DEF WalkedGraph
  <2>3. blockedBy[y] \subseteq C
    <3> HIDE DEF deps
    <3>1. QED
      BY <1>1, <1>3, <2>2
  <2>4. \A x \in blockedBy[y] : x[1] \in Existing
    BY <1>3 DEF Rows, RefsExist, Named, Live
  <2>5. QED
    BY <2>3, <2>4
<1>4. D \in SUBSET Ref /\ Id(t) \notin D /\ \A x \in D : x[1] \in Existing
  BY <1>1
<1> HIDE DEF D, deps
<1>5. QED
  BY <1>2, <1>3, <1>4 DEF Clear
LEMMA MovedOn ==
  ASSUME Rows, TypeOK', CallFacts, SameBoard, NEW r \in Call,
         \A p \in Call \ {r} : call'[p] = call[p] /\ missed'[p] = missed[p],
         \E q, m : q = call'[r] /\ m = missed'[r] /\ Facts(q, m),
         call'[r].kind = "create" =>
           /\ row[call'[r].task] = "absent"
           /\ \A p \in Call \ {r} : call[p].kind = "create" => call[p].task # call'[r].task
  PROVE  Rows' /\ CallFacts'
<1>1. row' = row /\ status' = status /\ blockedBy' = blockedBy
  BY DEF SameBoard, board
<1>2. Rows'
  BY <1>1 DEF Rows, RefsExist, AbsentUntouched, Existing, Named
<1>3. ASSUME NEW p \in Call PROVE Facts(call[p], missed[p])'
  <2>1. CASE p = r
    <3>1. PICK q, m : q = call'[r] /\ m = missed'[r] /\ Facts(q, m)
      OBVIOUS
    <3>2. QED
      BY <2>1, <3>1, SameFacts
  <2>2. CASE p # r
    <3>1. PICK q, m : q = call[p] /\ m = missed[p]
      OBVIOUS
    <3>2. Facts(q, m) /\ call'[p] = q /\ missed'[p] = m
      BY <2>2, <3>1 DEF CallFacts
    <3>3. QED
      BY <3>2, SameFacts
  <2>3. QED
    BY <2>1, <2>2
<1>4. ASSUME NEW p \in Call PROVE FreshId(p)'
  BY <1>1 DEF CallFacts, FreshId
<1>5. QED
  BY <1>2, <1>3, <1>4 DEF CallFacts

LEMMA ClearsStart ==
  ASSUME Rows, CallFacts, NEW r \in Call,
         \/ \E t \in Task, a \in Posts : StartCreate(r, t, a)
         \/ \E t \in Task, c \in Patches : LoadTask(r, t, c)
         \/ \E s \in Step, v \in StepStatus : LoadStep(r, s, v)
  PROVE  TypeOK' /\ Rows' /\ CallFacts'
<1>1. PICK q \in CreateRequest \cup PatchRequest \cup StepRequest :
        /\ Starts(r, q)
        /\ \A m : Facts(q, m)
        /\ q.kind = "create" =>
             /\ row[q.task] = "absent"
             /\ \A p \in Call : call[p].kind = "create" => call[p].task # q.task
  <2>1. ASSUME NEW t \in Task, NEW a \in Posts, StartCreate(r, t, a)
        PROVE  /\ FirstCreate(t, a) \in CreateRequest
               /\ Starts(r, FirstCreate(t, a))
               /\ \A m : Facts(FirstCreate(t, a), m)
               /\ row[FirstCreate(t, a).task] = "absent"
               /\ \A p \in Call : call[p].kind = "create" =>
                                     call[p].task # FirstCreate(t, a).task
    <3>1. FirstCreate(t, a).task = t
      BY DEF FirstCreate
    <3>2. QED
      BY <2>1, <3>1, FirstFacts, Firsts, Started DEF Rows, StartCreate
  <2>2. ASSUME NEW t \in Task, NEW c \in Patches, LoadTask(r, t, c)
        PROVE  /\ FirstPatch(t, c) \in PatchRequest /\ FirstPatch(t, c).kind = "patch"
               /\ Starts(r, FirstPatch(t, c))
               /\ \A m : Facts(FirstPatch(t, c), m)
    <3>1. row[t] # "absent"
      BY <2>2 DEF LoadTask
    <3>2. FirstPatch(t, c).kind = "patch"
      BY DEF FirstPatch
    <3>3. QED
      BY <2>2, <3>1, <3>2, FirstFacts, Firsts, Started DEF Rows
  <2>3. ASSUME NEW s \in Step, NEW v \in StepStatus, LoadStep(r, s, v)
        PROVE  /\ FirstStep(s, v) \in StepRequest /\ FirstStep(s, v).kind = "step"
               /\ Starts(r, FirstStep(s, v))
               /\ \A m : Facts(FirstStep(s, v), m)
    <3>1. FirstStep(s, v).kind = "step"
      BY DEF FirstStep
    <3>2. QED
      BY <2>3, <3>1, FirstFacts, Firsts, Started DEF Rows
  <2>4. QED
    BY <2>1, <2>2, <2>3
<1>2. TypeOK' /\ call'[r] = q /\ \A p \in Call : p # r => call'[p] = call[p]
  BY <1>1, StartsTyped DEF Rows
<1>3. SameBoard /\ missed' = missed
  BY <1>1 DEF Starts, SameBoard
<1>4. QED
  BY <1>1, <1>2, <1>3, MovedOn

\* The record of a request that goes on to place, and what the checks establish of it.
Onward(q, place) == [q EXCEPT !.at = place]
Checked(p, m) == NamesExisting(p) /\ Walked(p, m) /\ Guarded(p, m)

\* A check passed: the facts that do not depend on the place are kept.
PassedOn(q, m, place, p) ==
  /\ q \in CreateRequest \cup PatchRequest
  /\ Facts(q, m)
  /\ place \in {"walk", "done rule", "write"}
  /\ p = Onward(q, place)
  /\ Checked(p, m)

LEMMA CheckedFacts ==
  ASSUME NEW q, NEW m, NEW place, NEW p, PassedOn(q, m, place, p)
  PROVE  Facts(p, m) /\ p.kind = q.kind /\ p.task = q.task
<1> USE DEF PassedOn
<1>1. p.kind = q.kind /\ p.task = q.task /\ p.asks = q.asks /\ p.at = place
  BY DEF CreateRequest, PatchRequest, Onward
<1>2. q.kind = "patch" => p.set = q.set /\ p.was = q.was
  BY DEF CreateRequest, PatchRequest, Onward
<1>3. q.kind # "step"
  BY DEF CreateRequest, PatchRequest, Onward
<1>4. Placed(p) /\ CopyFresh(p, m) /\ ListFresh(p, m) /\ MirrorFresh(p, m) /\ StepFresh(p, m)
  BY <1>1, <1>2, <1>3 DEF Facts, Placed, CopyFresh, ListFresh, MirrorFresh, StepFresh
<1>5. QED
  BY <1>1, <1>4 DEF Facts, Checked

\* The facts a check establishes.
LEMMA References ==
  ASSUME Rows, NEW r \in Call, CheckReferences(r),
         NEW p, p = [call[r] EXCEPT !.at = "walk"]
  PROVE  Checked(p, missed[r])
<1>1. call[r] \in CreateRequest \cup PatchRequest
  BY Kinds DEF Rows, CheckReferences
<1>2. p.kind = call[r].kind /\ p.task = call[r].task /\ p.asks = call[r].asks /\ p.at = "walk"
  BY <1>1 DEF CreateRequest, PatchRequest
<1>3. Named(p.asks.blocked_by) \subseteq Existing
  BY <1>2 DEF CheckReferences, ValidReferences, Live, Existing
<1>4. QED
  BY <1>2, <1>3 DEF NamesExisting, Walked, Guarded, Checked

LEMMA Walks ==
  ASSUME Rows, CallFacts, NEW r \in Call, CheckCycle(r),
         NEW place \in {"done rule", "write"},
         place = AfterLists(call[r].kind = "create" \/ "status" \in call[r].set,
                            call[r].asks.status),
         NEW p, p = [call[r] EXCEPT !.at = place]
  PROVE  Checked(p, missed[r])
<1>1. call[r] \in CreateRequest \cup PatchRequest /\ call[r].at = "walk"
  BY Kinds DEF Rows, CheckCycle
<1>2. PICK q \in CreateRequest \cup PatchRequest : q = call[r]
  BY <1>1
<1>3. /\ p.kind = q.kind /\ p.task = q.task /\ p.asks = q.asks /\ p.at = place
      /\ q.kind = "patch" => p.was = q.was /\ p.set = q.set
      /\ q.kind \in {"create", "patch"}
  BY <1>2 DEF CreateRequest, PatchRequest
<1>4. Named(q.asks.blocked_by) \subseteq Existing
  BY <1>1, <1>2, <1>3 DEF CallFacts, Facts, NamesExisting
<1>5. /\ q.task \in Task /\ q.asks.blocked_by \in SUBSET Ref /\ q.asks.blocks \in SUBSET Ref
  BY DEF CreateRequest, PatchRequest, Columns
<1>6. NoCycle(q.task, q.asks.blocked_by, q.asks.blocks)
  BY <1>2 DEF CheckCycle
<1>7. Clear(q.task, q.asks.blocked_by)
  BY <1>4, <1>5, <1>6, WalkClears
<1>8. Guarded(p, missed[r])
  BY <1>2, <1>3 DEF Guarded, AfterLists
<1>9. QED
  BY <1>3, <1>4, <1>7, <1>8 DEF NamesExisting, Walked, Checked

LEMMA RuleChecked ==
  ASSUME Rows, CallFacts, NEW r \in Call, CheckDoneRule(r),
         NEW p, p = [call[r] EXCEPT !.at = "write"]
  PROVE  Checked(p, missed[r])
<1>1. call[r] \in CreateRequest \cup PatchRequest /\ call[r].at = "done rule"
  BY Kinds DEF Rows, CheckDoneRule
<1>2. PICK q \in CreateRequest \cup PatchRequest : q = call[r]
  BY <1>1
<1>3. /\ p.kind = q.kind /\ p.task = q.task /\ p.asks = q.asks /\ p.at = "write"
      /\ q.kind = "patch" => p.was = q.was /\ p.set = q.set
      /\ q.kind \in {"create", "patch"}
  BY <1>2 DEF CreateRequest, PatchRequest
<1>4. NamesExisting(q) /\ Walked(q, missed[r])
  BY <1>2 DEF CallFacts, Facts
<1>5. OpenBlockers(q.asks.blocked_by) = {}
  BY <1>2 DEF CheckDoneRule, DoneGuard
<1>6. QED
  BY <1>1, <1>2, <1>3, <1>4, <1>5 DEF NamesExisting, Walked, Guarded, Checked

\* A request r that passes a check and goes on to place, with record p.
Passes(r, place, p) ==
  /\ place \in {"walk", "done rule", "write"}
  /\ p = Onward(call[r], place)
  /\ call'[r] = p
  /\ Reaches(r, place)
  /\ Checked(p, missed[r])

LEMMA ChecksClear ==
  ASSUME Rows, CallFacts, NEW r \in Call,
         CheckReferences(r) \/ CheckCycle(r) \/ CheckDoneRule(r)
  PROVE  Rows' /\ CallFacts'
<1>1. TypeOK' /\ (\A p \in Call : p # r => call'[p] = call[p])
  BY ChecksTyped DEF Rows
<1>2. call[r] \in CreateRequest \cup PatchRequest
  BY Kinds DEF Rows, CheckReferences, CheckCycle, CheckDoneRule
<1>3. PICK place, p : Passes(r, place, p)
  <2>1. CASE CheckReferences(r)
    <3>1. Reaches(r, "walk") /\ call[r].kind \in {"create", "patch"}
      BY <2>1 DEF CheckReferences
    <3>2. PICK p : p = [call[r] EXCEPT !.at = "walk"]
      OBVIOUS
    <3>3. call'[r] = p
      BY <3>1, <3>2, ReachesTyped DEF Rows
    <3>4. Checked(p, missed[r])
      BY <2>1, <3>2, References
    <3>5. Passes(r, "walk", p)
      BY <3>1, <3>2, <3>3, <3>4 DEF Passes, Onward
    <3>6. QED
      BY <3>5
  <2>2. CASE CheckCycle(r)
    <3>1. PICK place \in {"done rule", "write"} :
            /\ place = AfterLists(call[r].kind = "create" \/ "status" \in call[r].set,
                                  call[r].asks.status)
            /\ Reaches(r, place) /\ call[r].kind \in {"create", "patch"}
      BY <2>2 DEF CheckCycle, AfterLists
    <3>2. PICK p : p = [call[r] EXCEPT !.at = place]
      OBVIOUS
    <3>3. call'[r] = p
      BY <3>1, <3>2, ReachesTyped DEF Rows
    <3>4. Checked(p, missed[r])
      BY <2>2, <3>1, <3>2, Walks
    <3>5. Passes(r, place, p)
      BY <3>1, <3>2, <3>3, <3>4 DEF Passes, Onward
    <3>6. QED
      BY <3>5
  <2>3. CASE CheckDoneRule(r)
    <3>1. Reaches(r, "write") /\ call[r].kind \in {"create", "patch"}
      BY <2>3 DEF CheckDoneRule
    <3>2. PICK p : p = [call[r] EXCEPT !.at = "write"]
      OBVIOUS
    <3>3. call'[r] = p
      BY <3>1, <3>2, ReachesTyped DEF Rows
    <3>4. Checked(p, missed[r])
      BY <2>3, <3>2, RuleChecked
    <3>5. Passes(r, "write", p)
      BY <3>1, <3>2, <3>3, <3>4 DEF Passes, Onward
    <3>6. QED
      BY <3>5
  <2>4. QED
    BY <2>1, <2>2, <2>3
<1>4. PICK q \in CreateRequest \cup PatchRequest : q = call[r]
  BY <1>2
<1>5. Facts(p, missed[r]) /\ p.kind = q.kind /\ p.task = q.task
  <2>1. Facts(q, missed[r])
    BY <1>4 DEF CallFacts
  <2>2. /\ place \in {"walk", "done rule", "write"}
        /\ p = Onward(q, place) /\ Checked(p, missed[r])
    BY <1>3, <1>4 DEF Passes
  <2>3. PICK m : m = missed[r]
    OBVIOUS
  <2>4. PassedOn(q, m, place, p)
    BY <2>1, <2>2, <2>3 DEF PassedOn
  <2>5. Facts(p, m) /\ p.kind = q.kind /\ p.task = q.task
    BY <2>4, CheckedFacts
  <2>6. QED
    BY <2>3, <2>5
<1>6. SameBoard /\ missed' = missed /\ call'[r] = p
  BY <1>3 DEF Passes, Reaches, SameBoard
<1>7. call'[r].kind = "create" =>
        /\ row[call'[r].task] = "absent"
        /\ \A x \in Call \ {r} : call[x].kind = "create" => call[x].task # call'[r].task
  BY <1>4, <1>5, <1>6 DEF CallFacts, FreshId
<1>8. \E y, m : y = call'[r] /\ m = missed'[r] /\ Facts(y, m)
  BY <1>5, <1>6
<1>9. QED
  BY <1>1, <1>6, <1>7, <1>8, MovedOn

\* The moves of the mirror: what they read is fresh.
LEMMA FlushClears ==
  ASSUME Rows, CallFacts, NEW r \in Call, FlushTask(r)
  PROVE  Rows' /\ CallFacts'
<1>1. PICK q \in PatchRequest : q = call[r] /\ q.at = "write" /\ CallsMirror(q)
  BY Kinds DEF Rows, FlushTask
<1>2. PICK v, p : /\ v \in StepStatus
                  /\ v = stepStatus[q.asks.process_step_id]
                  /\ p = [q EXCEPT !.at = "sync", !.stepWas = v]
  <2>1. q.asks.process_step_id \in Step
    BY <1>1 DEF CallsMirror, PatchRequest, Columns
  <2>2. QED
    BY <2>1 DEF Rows, TypeOK
<1>3. TypeOK' /\ call'[r] = p /\ (\A x \in Call : x # r => call'[x] = call[x])
  BY <1>1, <1>2, FlushTyped DEF Rows
<1>4. /\ p.kind = "patch" /\ p.task = q.task /\ p.set = q.set /\ p.asks = q.asks
      /\ p.was = q.was /\ p.at = "sync" /\ p.stepWas = v
  BY <1>2 DEF PatchRequest
<1>5. PICK m : m = missed[r]
  OBVIOUS
<1>6. Facts(q, m) /\ q.kind = "patch"
  BY <1>1, <1>5 DEF CallFacts, PatchRequest
<1>7. Placed(p) /\ NamesExisting(p) /\ Walked(p, m) /\ CopyFresh(p, m) /\ ListFresh(p, m)
  BY <1>1, <1>4, <1>6 DEF Facts, Placed, NamesExisting, Walked, CopyFresh, ListFresh, CallsMirror
<1>8. Guarded(p, m) /\ MirrorFresh(p, m) /\ StepFresh(p, m)
  BY <1>1, <1>2, <1>4, <1>6 DEF Facts, Guarded, MirrorFresh, StepFresh
<1>9. Facts(p, m)
  BY <1>7, <1>8 DEF Facts
<1>10. SameBoard /\ missed' = missed
  BY DEF FlushTask, SameBoard
<1>11. call'[r].kind # "create"
  BY <1>3, <1>4
<1>12. QED
  BY <1>3, <1>5, <1>9, <1>10, <1>11, MovedOn

LEMMA SyncClears ==
  ASSUME Rows, CallFacts, NEW r \in Call, SyncStep(r)
  PROVE  Rows' /\ CallFacts'
<1>1. PICK q \in PatchRequest : q = call[r] /\ q.at = "sync"
  BY Kinds DEF Rows, SyncStep
<1>2. PICK v, p : v = Derives(q) /\ p = [q EXCEPT !.at = "commit", !.stepTo = v]
  OBVIOUS
<1>3. TypeOK' /\ call'[r] = p /\ (\A x \in Call : x # r => call'[x] = call[x])
  BY <1>1, <1>2, SyncTyped DEF Rows
<1>4. /\ p.kind = "patch" /\ p.task = q.task /\ p.set = q.set /\ p.asks = q.asks
      /\ p.was = q.was /\ p.at = "commit" /\ p.stepWas = q.stepWas /\ p.stepTo = v
  BY <1>2 DEF PatchRequest
<1>5. PICK m : m = missed[r]
  OBVIOUS
<1>6. Facts(q, m) /\ q.kind = "patch"
  BY <1>1, <1>5 DEF CallFacts, PatchRequest
<1>7. Placed(p) /\ NamesExisting(p) /\ Walked(p, m) /\ CopyFresh(p, m) /\ ListFresh(p, m)
  BY <1>1, <1>4, <1>6 DEF Facts, Placed, NamesExisting, Walked, CopyFresh, ListFresh, CallsMirror
<1>8. Derives(p) = v
  BY <1>2, <1>4 DEF Derives, SeenLinks, SeenStatuses
<1>9. Guarded(p, m) /\ MirrorFresh(p, m) /\ StepFresh(p, m)
  BY <1>1, <1>4, <1>6, <1>8 DEF Facts, Guarded, MirrorFresh, StepFresh
<1>10. Facts(p, m)
  BY <1>7, <1>9 DEF Facts
<1>11. SameBoard /\ missed' = missed
  BY DEF SyncStep, SameBoard
<1>12. call'[r].kind # "create"
  BY <1>3, <1>4
<1>13. QED
  BY <1>3, <1>5, <1>10, <1>11, <1>12, MovedOn

LEMMA SyncTasksClears ==
  ASSUME Rows, CallFacts, NEW r \in Call, SyncTasks(r)
  PROVE  Rows' /\ CallFacts'
<1>1. PICK q \in StepRequest : q = call[r] /\ q.at = "write"
  BY Kinds DEF Rows, SyncTasks
<1>2. PICK T, p : T = TasksToMove(q.step, q.asks) /\ p = [q EXCEPT !.at = "commit", !.tasks = T]
  OBVIOUS
<1>3. TypeOK' /\ call'[r] = p /\ (\A x \in Call : x # r => call'[x] = call[x])
  BY <1>1, <1>2, SyncTasksTyped DEF Rows
<1>4. /\ p.kind = "step" /\ p.step = q.step /\ p.asks = q.asks /\ p.was = q.was
      /\ p.at = "commit" /\ p.tasks = T
  BY <1>2 DEF StepRequest
<1>5. PICK m : m = missed[r]
  OBVIOUS
<1>6. Facts(q, m) /\ q.kind = "step"
  BY <1>1, <1>5 DEF CallFacts, StepRequest
<1>7. /\ Placed(p) /\ NamesExisting(p) /\ Walked(p, m) /\ CopyFresh(p, m) /\ ListFresh(p, m)
      /\ Guarded(p, m) /\ MirrorFresh(p, m)
  BY <1>4 DEF Placed, NamesExisting, Walked, CopyFresh, ListFresh, Guarded, MirrorFresh
<1>8. StepFresh(p, m)
  BY <1>2, <1>4, <1>6 DEF Facts, StepFresh, TasksToMove, Linked, Live, Existing
<1>9. Facts(p, m)
  BY <1>7, <1>8 DEF Facts
<1>10. SameBoard /\ missed' = missed
  BY DEF SyncTasks, SameBoard
<1>11. call'[r].kind # "create"
  BY <1>3, <1>4
<1>12. QED
  BY <1>3, <1>5, <1>9, <1>10, <1>11, MovedOn

LEMMA FailClears ==
  ASSUME Rows, CallFacts, NEW r \in Call, Fail(r)
  PROVE  Rows' /\ CallFacts'
<1>1. TypeOK' /\ SameBoard
  BY FailTyped DEF Rows, Fail, SameBoard
<1>2. /\ call'[r] = NoCall
      /\ \A p \in Call \ {r} : call'[p] = call[p] /\ missed'[p] = missed[p]
  BY DEF Fail, Rows, TypeOK
<1>3. \E q, m : q = call'[r] /\ m = missed'[r] /\ Facts(q, m)
  BY <1>2, NoCallFacts
<1>4. NoCall.kind # "create"
  BY DEF NoCall
<1>5. QED
  BY <1>1, <1>2, <1>3, <1>4, MovedOn
-----------------------------------------------------------------------------
(* What a commit leaves.                                                   *)

LEMMA Committed ==
  ASSUME Rows, CallFacts, TypeOK', NEW by, Meets(by), RefsExist', AbsentUntouched'
  PROVE  Rows' /\ CallFacts'
<1>1. \A r \in Call : Facts(call[r], missed[r])'
  BY FactsKept DEF CallFacts
<1>2. \A r \in Call : FreshId(r)'
  BY FreshKept DEF CallFacts
<1>3. QED
  BY <1>1, <1>2 DEF Rows, CallFacts

LEMMA CreateClears ==
  ASSUME Rows, CallFacts, NEW r \in Call, CommitCreate(r)
  PROVE  Rows' /\ CallFacts'
<1>1. PICK q \in CreateRequest : q = call[r] /\ q.at = "write"
  BY Kinds DEF Rows, CommitCreate
<1>2. PICK t \in Task, a \in Columns : t = q.task /\ a = q.asks
  BY DEF CreateRequest
<1>3. /\ row' = [row EXCEPT ![t] = "live"]
      /\ status' = [status EXCEPT ![t] = a.status]
      /\ blockedBy' = [blockedBy EXCEPT ![t] = a.blocked_by]
      /\ link' = [link EXCEPT ![t] = a.process_step_id]
      /\ Ends(r)
  BY <1>1, <1>2 DEF CommitCreate
<1>4. q.kind = "create" /\ Facts(q, missed[r]) /\ FreshId(r)
  BY <1>1 DEF CallFacts, CreateRequest
<1>5. row[t] = "absent" /\ \A p \in Call \ {r} : call[p].kind = "create" => call[p].task # t
  BY <1>1, <1>2, <1>4 DEF FreshId
<1>6. Named(a.blocked_by) \subseteq Existing
  BY <1>1, <1>2, <1>4 DEF Facts, NamesExisting
<1>7. \A u \in Task : row'[u] = IF u = t THEN "live" ELSE row[u]
  BY <1>3 DEF Rows, TypeOK
<1>8. Existing \subseteq Existing'
  BY <1>7 DEF Existing
<1>9. RefsExist'
  BY <1>3, <1>6, <1>8 DEF Rows, TypeOK, RefsExist, Named
<1>10. AbsentUntouched'
  BY <1>3, <1>7 DEF Rows, TypeOK, AbsentUntouched
<1>11. \A p \in Call \ {r} :
         /\ call[p].kind = "create" => call[p].task \in Task \ {t}
         /\ call[p].kind = "patch" => call[p].task \in Task /\ row[call[p].task] # "absent"
  BY <1>5, Kinds DEF Rows, CallFacts, Facts, Placed, CreateRequest, PatchRequest
<1>12. Meets({r})
  <2>1. Overtakes({r}) /\ \A p \in Call : call'[p] = IF p = r THEN NoCall ELSE call[p]
    BY <1>3 DEF Ends, Rows, TypeOK
  <2>2. \A p \in Call \ {r} :
          /\ call[p].kind = "create" => row'[call[p].task] = row[call[p].task]
          /\ call[p].kind = "patch" => /\ row'[call[p].task] = row[call[p].task]
                                       /\ status'[call[p].task] = status[call[p].task]
                                       /\ link'[call[p].task] = link[call[p].task]
    BY <1>3, <1>5, <1>7, <1>11 DEF Rows, TypeOK
  <2>3. \A u \in Task : row[u] # "absent" => row'[u] # "absent" /\ (row'[u] = "live" => row[u] = "live")
    BY <1>5, <1>7
  <2>4. QED
    BY <2>1, <2>2, <2>3 DEF Meets
<1>13. QED
  BY <1>9, <1>10, <1>12, Committed, CreateTyped DEF Rows

LEMMA PatchClears ==
  ASSUME Rows, CallFacts, NEW r \in Call, CommitPatch(r)
  PROVE  Rows' /\ CallFacts'
<1>1. PICK t \in Task, a \in Columns, w \in Columns, moves \in BOOLEAN :
        Committing(r, t, a, w, moves)
  BY PatchIs DEF Rows
<1>2. PICK q \in PatchRequest : q = call[r]
  BY PatchIs DEF Rows
<1>3. q.kind = "patch" /\ q.at # "references" /\ Facts(q, missed[r])
  BY <1>1, <1>2 DEF CallFacts, PatchRequest, Committing
<1>4. row[t] # "absent" /\ Named(a.blocked_by) \subseteq Existing
  BY <1>1, <1>2, <1>3 DEF Facts, Placed, NamesExisting, Committing
<1>5. /\ row' = row
      /\ \A u \in Task : /\ u # t => /\ status'[u] = status[u]
                                     /\ blockedBy'[u] = blockedBy[u]
                                     /\ link'[u] = link[u]
                         /\ blockedBy'[u] \in {blockedBy[u], a.blocked_by}
  BY <1>1 DEF Committing, Rows, TypeOK, Written
<1>6. RefsExist'
  <2>1. \A u \in Task : Named(blockedBy'[u]) \subseteq Existing
    <3>1. SUFFICES ASSUME NEW u \in Task PROVE Named(blockedBy'[u]) \subseteq Existing
      OBVIOUS
    <3>2. Named(blockedBy[u]) \subseteq Existing
      BY DEF Rows, RefsExist
    <3>3. CASE u = t
      BY <1>4, <1>5, <3>2, <3>3
    <3>4. CASE u # t
      BY <1>5, <3>2, <3>4
    <3>5. QED
      BY <3>3, <3>4
  <2>2. QED
    BY <1>5, <2>1 DEF RefsExist, Existing, Named
<1>7. AbsentUntouched'
  BY <1>4, <1>5 DEF Rows, AbsentUntouched
<1>8. \A p \in Call \ {r} :
        call[p].kind = "patch" /\ call[p].at \in {"sync", "commit"} => call[p].task \in Task \ {t}
  BY <1>1, Kinds DEF Committing, TaskHeld, Others, Rows, PatchRequest
<1>9. Meets({r})
  <2>1. Overtakes({r}) /\ \A p \in Call : call'[p] = IF p = r THEN NoCall ELSE call[p]
    BY <1>1 DEF Committing, Ends, Rows, TypeOK
  <2>2. \A p \in Call \ {r} :
          call[p].kind = "patch" /\ call[p].at \in {"sync", "commit"} =>
            /\ row'[call[p].task] = row[call[p].task]
            /\ status'[call[p].task] = status[call[p].task]
            /\ link'[call[p].task] = link[call[p].task]
    BY <1>5, <1>8
  <2>3. QED
    BY <1>5, <2>1, <2>2 DEF Meets
<1>10. QED
  BY <1>6, <1>7, <1>9, Committed, PatchTyped DEF Rows

LEMMA StepClears ==
  ASSUME Rows, CallFacts, NEW r \in Call, CommitStep(r)
  PROVE  Rows' /\ CallFacts'
<1>1. PICK q \in StepRequest : q = call[r] /\ q.at = "commit"
  BY StepIs DEF Rows
<1>2. /\ \A t \in q.tasks : ~TaskHeld(t, Others(r))
      /\ \A t \in Task : status'[t] = IF t \in q.tasks THEN TaskFromStep(q.asks) ELSE status[t]
      /\ row' = row /\ blockedBy' = blockedBy /\ link' = link
      /\ Ends(r)
  BY <1>1, StepIs DEF Rows
<1>3. q.tasks \subseteq Existing
  BY <1>1 DEF CallFacts, Facts, StepFresh, StepRequest
<1>4. RefsExist' /\ AbsentUntouched'
  BY <1>2, <1>3 DEF Rows, RefsExist, AbsentUntouched, Existing, Named
<1>5. \A p \in Call \ {r} :
        call[p].kind = "patch" /\ call[p].at \in {"sync", "commit"} =>
          call[p].task \in Task /\ call[p].task \notin q.tasks
  BY <1>2, Kinds DEF TaskHeld, Others, Rows, PatchRequest
<1>6. Meets({r})
  <2>1. Overtakes({r}) /\ \A p \in Call : call'[p] = IF p = r THEN NoCall ELSE call[p]
    BY <1>2 DEF Ends, Rows, TypeOK
  <2>2. \A p \in Call \ {r} :
          call[p].kind = "patch" /\ call[p].at \in {"sync", "commit"} =>
            /\ row'[call[p].task] = row[call[p].task]
            /\ status'[call[p].task] = status[call[p].task]
            /\ link'[call[p].task] = link[call[p].task]
    BY <1>2, <1>5
  <2>3. QED
    BY <1>2, <2>1, <2>2 DEF Meets
<1>7. QED
  BY <1>4, <1>6, Committed, StepTyped DEF Rows

LEMMA ArchiveClears ==
  ASSUME Rows, CallFacts, NEW t \in Task, ArchiveTask(t)
  PROVE  Rows' /\ CallFacts'
<1>1. /\ row[t] = "live"
      /\ \A u \in Task : row'[u] = IF u = t THEN "archived" ELSE row[u]
      /\ status' = status /\ blockedBy' = blockedBy /\ link' = link /\ call' = call
  BY DEF ArchiveTask, Rows, TypeOK
<1>2. RefsExist' /\ AbsentUntouched'
  BY <1>1 DEF Rows, RefsExist, AbsentUntouched, Existing, Named
<1>3. \A p \in Call :
        /\ call[p].kind = "patch" /\ call[p].at \in {"sync", "commit"} =>
             call[p].task \in Task \ {t}
        /\ call[p].kind = "create" => call[p].task \in Task \ {t}
  BY <1>1, Kinds DEF ArchiveTask, TaskHeld, Rows, PatchRequest, CreateRequest, CallFacts, FreshId
<1>4. Meets({})
  BY <1>1, <1>3 DEF ArchiveTask, Meets
<1>5. QED
  BY <1>2, <1>4, Committed, ArchiveTyped DEF Rows

LEMMA MaterialiseClears ==
  ASSUME Rows, CallFacts, NEW n \in 1..MaxBatch, NEW batch \in [1..n -> Task],
         NEW chained \in SUBSET (2..n), MaterialiseTasks(n, batch, chained)
  PROVE  Rows' /\ CallFacts'
<1>1. PICK new : new = {batch[i] : i \in 1..n}
  OBVIOUS
<1>2. /\ new \subseteq Task
      /\ \A t \in new : row[t] = "absent"
      /\ \A p \in Call : call[p].kind = "create" => call[p].task \notin new
      /\ \A t \in Task : /\ row'[t] = IF t \in new THEN "live" ELSE row[t]
                         /\ status'[t] = IF t \in new THEN "not_started" ELSE status[t]
                         /\ blockedBy'[t] =
                              IF t \notin new THEN blockedBy[t]
                              ELSE {Id(batch[i - 1]) : i \in {j \in chained : batch[j] = t}}
      /\ link' = link /\ call' = call /\ Overtakes({})
  BY <1>1 DEF MaterialiseTasks
<1>3. \A t \in new : Named({Id(batch[i - 1]) : i \in {j \in chained : batch[j] = t}}) \subseteq new
  <2>1. n \in Nat /\ \A i \in chained : i - 1 \in 1..n
    BY BoardAssumption
  <2>2. QED
    BY <1>1, <2>1 DEF Named, Id
<1>4. Existing \subseteq Existing' /\ new \subseteq Existing'
  BY <1>2 DEF Existing
<1>5. RefsExist'
  <2>1. SUFFICES ASSUME NEW t \in Task PROVE Named(blockedBy'[t]) \subseteq Existing'
    BY DEF RefsExist, Named
  <2>2. Named(blockedBy[t]) \subseteq Existing
    BY DEF Rows, RefsExist
  <2>3. QED
    BY <1>2, <1>3, <1>4, <2>2
<1>6. AbsentUntouched'
  BY <1>2 DEF Rows, AbsentUntouched
<1>7. \A p \in Call :
        call[p].kind = "patch" => call[p].task \in Task /\ row[call[p].task] # "absent"
  BY Kinds DEF Rows, CallFacts, Facts, Placed, PatchRequest
<1>8. \A p \in Call : call[p].kind = "create" => call[p].task \in Task
  BY Kinds DEF Rows, CreateRequest
<1>9. Meets({})
  <2>1. \A p \in Call :
          /\ call[p].kind = "create" => row'[call[p].task] = row[call[p].task]
          /\ call[p].kind = "patch" => /\ row'[call[p].task] = row[call[p].task]
                                       /\ status'[call[p].task] = status[call[p].task]
                                       /\ link'[call[p].task] = link[call[p].task]
    BY <1>2, <1>7, <1>8
  <2>2. QED
    BY <1>2, <2>1 DEF Meets
<1>10. QED
  BY <1>5, <1>6, <1>9, Committed, MaterialiseTyped DEF Rows

LEMMA InvariantInit == Init => Rows /\ CallFacts
<1>1. SUFFICES ASSUME Init PROVE Rows /\ CallFacts
  OBVIOUS
<1>2. RefsExist
  <2>1. SUFFICES ASSUME NEW t \in Task, NEW e \in blockedBy[t] PROVE e[1] \in Existing
    BY DEF RefsExist, Named
  <2>2. t \in Seeded /\ e \in {Id(u) : u \in SeedDeps[t]}
    BY <1>1, <2>1 DEF Init
  <2>3. PICK u \in SeedDeps[t] : e = Id(u)
    BY <2>2
  <2>4. u \in Seeded /\ e[1] = u
    BY <2>2, <2>3, BoardAssumption DEF Id
  <2>5. QED
    BY <1>1, <2>4, BoardAssumption DEF Init, Existing
<1>3. AbsentUntouched
  BY <1>1 DEF Init, AbsentUntouched
<1>4. CallFacts
  <2>1. \A r \in Call : call[r] = NoCall
    BY <1>1 DEF Init
  <2>2. NoCall.kind # "create"
    BY DEF NoCall
  <2>3. QED
    BY <2>1, <2>2, NoCallFacts DEF CallFacts, FreshId
<1>5. QED
  BY <1>1, <1>2, <1>3, <1>4, TypeInit DEF Rows

LEMMA InvariantNext == Rows /\ CallFacts /\ [Next]_vars => Rows' /\ CallFacts'
<1>1. SUFFICES ASSUME Rows, CallFacts, [Next]_vars PROVE Rows' /\ CallFacts'
  OBVIOUS
<1>2. CASE UNCHANGED vars
  <2>1. TypeOK' /\ SameBoard /\ call' = call /\ missed' = missed
    BY <1>1, <1>2, TypeNext DEF vars, SameBoard, board, Rows
  <2>2. RefsExist' /\ AbsentUntouched'
    BY <1>1, <2>1 DEF Rows, RefsExist, AbsentUntouched, SameBoard, board, Existing, Named
  <2>3. ASSUME NEW r \in Call PROVE Facts(call[r], missed[r])'
    <3>1. PICK q, m : q = call[r] /\ m = missed[r]
      OBVIOUS
    <3>2. QED
      BY <1>1, <2>1, <3>1, SameFacts DEF CallFacts
  <2>4. \A r \in Call : FreshId(r)'
    BY <1>1, <2>1 DEF CallFacts, FreshId, SameBoard, board
  <2>5. QED
    BY <2>1, <2>2, <2>3, <2>4 DEF Rows, CallFacts
<1>3. ASSUME NEW r \in Call,
             \/ \E t \in Task, a \in Posts : StartCreate(r, t, a)
             \/ \E t \in Task, c \in Patches : LoadTask(r, t, c)
             \/ \E s \in Step, v \in StepStatus : LoadStep(r, s, v)
      PROVE  Rows' /\ CallFacts'
  BY <1>1, <1>3, ClearsStart
<1>4. ASSUME NEW r \in Call,
             \/ CheckReferences(r) \/ CheckCycle(r) \/ CheckDoneRule(r)
             \/ CommitCreate(r) \/ FlushTask(r) \/ SyncStep(r) \/ CommitPatch(r)
             \/ SyncTasks(r) \/ CommitStep(r) \/ Fail(r)
      PROVE  Rows' /\ CallFacts'
  BY <1>1, <1>4, ChecksClear, CreateClears, FlushClears, SyncClears, PatchClears,
     SyncTasksClears, StepClears, FailClears
<1>5. QED
  BY <1>1, <1>2, <1>3, <1>4, ArchiveClears, MaterialiseClears DEF Next

LEMMA BoardInvariant == Spec => [](Rows /\ CallFacts)
  BY InvariantInit, InvariantNext, PTL DEF Spec
-----------------------------------------------------------------------------
(***************************************************************************)
(* No circle.  A set of tasks every member of which waits for another is   *)
(* traced back to such a set before the commit.                            *)
(***************************************************************************)

Circle(S) == \A x \in S : \E y \in S : Id(y) \in blockedBy[x]
NoCircle == \A S \in SUBSET (Live \ doubtful) : Circle(S) => S = {}

LEMMA CircleIs == CircleOnlyByOverlapOrSpelling <=> NoCircle
<1>1. ASSUME NEW S \in SUBSET (Live \ doubtful)
      PROVE  WaitsOnItself(S, WaitsFor) <=> Circle(S)
  <2>1. S \subseteq Task
    BY DEF Live
  <2>2. \A x \in S, y \in S : y \in WaitsFor[x] <=> Id(y) \in blockedBy[x]
    BY <2>1 DEF WaitsFor
  <2>3. QED
    BY <2>2 DEF WaitsOnItself, Circle
<1>2. QED
  BY <1>1 DEF CircleOnlyByOverlapOrSpelling, Acyclic, NoCircle

\* A non-empty set of indices has a smallest one.
LEMMA SmallestIndex ==
  ASSUME NEW T \in SUBSET Nat, T # {}
  PROVE  \E m \in T : \A k \in T : ~(k < m)
<1>1. IsWellFoundedOn(OpToRel(<, Nat), Nat)
  BY NatLessThanWellFounded
<1>2. \E m \in T : \A k \in T : ~(<<k, m>> \in OpToRel(<, Nat))
  BY <1>1, WFMin
<1>3. QED
  BY <1>2 DEF OpToRel

\* Tasks nobody referred to before close no circle but their own.
LEMMA Newcomers ==
  ASSUME Rows, NoCircle, NEW new \in SUBSET Task, \A t \in new : row[t] = "absent",
         \A t \in Task \ new : blockedBy'[t] = blockedBy[t] /\ row'[t] = row[t],
         doubtful' = doubtful,
         NEW S \in SUBSET (Live' \ doubtful'), Circle(S)'
  PROVE  S \subseteq new
<1> DEFINE D == S \ new
<1>1. D \in SUBSET (Live \ doubtful)
  BY DEF Live
<1>2. Circle(D)
  <2>1. SUFFICES ASSUME NEW x \in D PROVE \E y \in D : Id(y) \in blockedBy[x]
    BY DEF Circle
  <2>2. x \in Task \ new /\ blockedBy'[x] = blockedBy[x]
    BY <1>1 DEF Live
  <2>3. PICK y \in S : Id(y) \in blockedBy[x]
    BY <2>2 DEF Circle, Id
  <2>4. y \in Existing
    BY <2>2, <2>3 DEF Rows, RefsExist, Named, Id
  <2>5. QED
    BY <2>3, <2>4 DEF Existing
<1> HIDE DEF D
<1>3. D = {}
  BY <1>1, <1>2 DEF NoCircle
<1>4. QED
  BY <1>3 DEF D

LEMMA CircleCreate ==
  ASSUME Rows, CallFacts, NoCircle, NEW r \in Call, CommitCreate(r)
  PROVE  NoCircle'
<1>1. PICK q \in CreateRequest : q = call[r] /\ q.at = "write"
  BY Kinds DEF Rows, CommitCreate
<1>2. PICK t \in Task, a \in Columns : t = q.task /\ a = q.asks
  BY DEF CreateRequest
<1>3. /\ row' = [row EXCEPT ![t] = "live"]
      /\ blockedBy' = [blockedBy EXCEPT ![t] = a.blocked_by]
      /\ doubtful' = doubtful
  BY <1>1, <1>2 DEF CommitCreate
<1>4. q.kind = "create" /\ Facts(q, missed[r]) /\ FreshId(r)
  BY <1>1 DEF CallFacts, CreateRequest
<1>5. row[t] = "absent" /\ Named(a.blocked_by) \subseteq Existing
  BY <1>1, <1>2, <1>4 DEF FreshId, Facts, NamesExisting
<1>6. /\ \A u \in Task \ {t} : blockedBy'[u] = blockedBy[u] /\ row'[u] = row[u]
      /\ blockedBy'[t] = a.blocked_by
  BY <1>3 DEF Rows, TypeOK
<1>7. SUFFICES ASSUME NEW S \in SUBSET (Live' \ doubtful'), Circle(S)' PROVE S = {}
  BY DEF NoCircle
<1>8. S \subseteq {t}
  BY <1>3, <1>5, <1>6, <1>7, Newcomers
<1>9. Id(t) \notin a.blocked_by
  BY <1>5 DEF Named, Id, Existing
<1>10. QED
  BY <1>6, <1>7, <1>8, <1>9 DEF Circle, Id

LEMMA CirclePatch ==
  ASSUME Rows, CallFacts, NoCircle, NEW r \in Call, CommitPatch(r)
  PROVE  NoCircle'
<1>1. PICK t \in Task, a \in Columns, w \in Columns, moves \in BOOLEAN :
        Committing(r, t, a, w, moves)
  BY PatchIs DEF Rows
<1>2. PICK q \in PatchRequest : q = call[r]
  BY PatchIs DEF Rows
<1>3. Live' = Live
  BY <1>1 DEF Committing, Live
<1>4. /\ \A u \in Task \ {t} : blockedBy'[u] = blockedBy[u]
      /\ blockedBy'[t] = Written(a.blocked_by, w.blocked_by, blockedBy[t])
  BY <1>1 DEF Committing, Rows, TypeOK
<1>5. SUFFICES ASSUME NEW S \in SUBSET (Live' \ doubtful'), Circle(S)' PROVE S = {}
  BY DEF NoCircle
<1>6. \A u \in S \ {t} : u \in Task /\ blockedBy'[u] = blockedBy[u]
  BY <1>4 DEF Live
<1>7. CASE a.blocked_by = w.blocked_by
  <2>1. doubtful' = doubtful /\ blockedBy'[t] = blockedBy[t]
    BY <1>1, <1>4, <1>7 DEF Committing, Written
  <2>2. Circle(S)
    BY <1>5, <1>6, <2>1 DEF Circle, Id
  <2>3. QED
    BY <1>3, <1>5, <2>1, <2>2 DEF NoCircle
<1>8. CASE t \notin S
  <2>1. doubtful \subseteq doubtful' \cup {t}
    BY <1>1 DEF Committing
  <2>2. Circle(S)
    BY <1>5, <1>6, <1>8 DEF Circle, Id
  <2>3. QED
    BY <1>3, <1>5, <1>8, <2>1, <2>2 DEF NoCircle
<1>9. CASE a.blocked_by # w.blocked_by /\ t \in S
  <2>1. ~missed[r].lists /\ doubtful' = doubtful \ {t}
    BY <1>1, <1>5, <1>9 DEF Committing
  <2>2. Clear(t, a.blocked_by)
    BY <1>1, <1>2, <1>9, <2>1 DEF CallFacts, Facts, Walked, Committing, PatchRequest
  <2>3. PICK C \in SUBSET Ref :
          /\ Id(t) \notin C
          /\ \A y \in Named(a.blocked_by) : Id(y) \in C
          /\ \A y \in Live \ {t} : Id(y) \in C => blockedBy[y] \subseteq C
    BY <2>2 DEF Clear
  <2> DEFINE D == {x \in S : Id(x) \in C}
  <2>4. D \in SUBSET (Live \ doubtful)
    BY <1>3, <1>5, <2>1, <2>3
  <2>5. Circle(D)
    <3>1. SUFFICES ASSUME NEW x \in D PROVE \E y \in D : Id(y) \in blockedBy[x]
      BY DEF Circle
    <3>2. x \in Live \ {t} /\ blockedBy'[x] = blockedBy[x]
      BY <1>6, <2>3, <2>4
    <3>3. PICK y \in S : Id(y) \in blockedBy[x]
      BY <1>5, <3>2 DEF Circle, Id
    <3>4. QED
      BY <2>3, <3>2, <3>3
  <2>6. D # {}
    <3>1. blockedBy'[t] = a.blocked_by
      BY <1>4, <1>9 DEF Written
    <3>2. PICK y \in S : Id(y) \in a.blocked_by
      BY <1>5, <1>9, <3>1 DEF Circle, Id
    <3>3. y \in Named(a.blocked_by)
      BY <3>2 DEF Named, Id
    <3>4. QED
      BY <2>3, <3>2, <3>3
  <2> HIDE DEF D
  <2>7. QED
    BY <2>4, <2>5, <2>6 DEF NoCircle
<1>10. QED
  BY <1>7, <1>8, <1>9

LEMMA CircleMaterialise ==
  ASSUME Rows, NoCircle, NEW n \in 1..MaxBatch, NEW batch \in [1..n -> Task],
         NEW chained \in SUBSET (2..n), MaterialiseTasks(n, batch, chained)
  PROVE  NoCircle'
<1>1. PICK new : new = {batch[i] : i \in 1..n}
  OBVIOUS
<1>2. /\ new \in SUBSET Task
      /\ \A t \in new : row[t] = "absent"
      /\ \A i, j \in 1..n : batch[i] = batch[j] => i = j
      /\ doubtful' = doubtful
      /\ \A t \in Task \ new : blockedBy'[t] = blockedBy[t] /\ row'[t] = row[t]
      /\ \A t \in new :
           blockedBy'[t] = {Id(batch[i - 1]) : i \in {j \in chained : batch[j] = t}}
  BY <1>1 DEF MaterialiseTasks
<1>3. n \in Nat /\ \A i \in chained : i - 1 \in 1..n /\ i \in 1..n /\ i - 1 < i
  BY BoardAssumption
<1>4. SUFFICES ASSUME NEW S \in SUBSET (Live' \ doubtful'), Circle(S)', S # {} PROVE FALSE
  BY DEF NoCircle
<1>5. S \subseteq new
  BY <1>2, <1>4, Newcomers
<1>6. PICK I \in SUBSET (1..n) : I = {i \in 1..n : batch[i] \in S}
  OBVIOUS
<1>7. I # {}
  BY <1>1, <1>4, <1>5, <1>6
<1>8. PICK i \in I : \A j \in I : ~(j < i)
  BY <1>3, <1>7, SmallestIndex
<1>9. PICK y \in S : Id(y) \in blockedBy'[batch[i]]
  BY <1>4, <1>6 DEF Circle, Id
<1>10. PICK j \in chained : batch[j] = batch[i] /\ Id(y) = Id(batch[j - 1])
  BY <1>2, <1>5, <1>6, <1>9
<1>11. j = i
  BY <1>2, <1>3, <1>6, <1>10
<1>12. y = batch[i - 1]
  BY <1>10, <1>11 DEF Id
<1>13. i - 1 \in I /\ i - 1 < i
  BY <1>3, <1>6, <1>10, <1>11, <1>12
<1>14. QED
  BY <1>8, <1>13

LEMMA CircleInit == Init => NoCircle
<1>1. SUFFICES ASSUME Init, NEW S \in SUBSET (Live \ doubtful), Circle(S) PROVE S = {}
  BY DEF NoCircle
<1>2. S \subseteq Seeded
  BY <1>1 DEF Init, Live
<1>3. WaitsOnItself(S, SeedDeps)
  <2>1. ASSUME NEW x \in S PROVE \E y \in S : y \in SeedDeps[x]
    <3>1. PICK y \in S : Id(y) \in blockedBy[x]
      BY <1>1 DEF Circle
    <3>2. blockedBy[x] = {Id(u) : u \in SeedDeps[x]}
      BY <1>1, <1>2, BoardAssumption DEF Init
    <3>3. QED
      BY <3>1, <3>2 DEF Id
  <2>2. QED
    BY <2>1 DEF WaitsOnItself
<1>4. QED
  BY <1>2, <1>3, BoardAssumption DEF Acyclic

LEMMA CircleNext == Rows /\ CallFacts /\ NoCircle /\ [Next]_vars => NoCircle'
<1>1. SUFFICES ASSUME Rows, CallFacts, NoCircle, [Next]_vars PROVE NoCircle'
  OBVIOUS
<1>2. ASSUME blockedBy' = blockedBy, doubtful' = doubtful, Live' \subseteq Live PROVE NoCircle'
  BY <1>1, <1>2 DEF NoCircle, Circle, Id
<1>3. CASE UNCHANGED vars
  BY <1>2, <1>3 DEF vars, Live
<1>4. ASSUME NEW r \in Call,
             \/ \E t \in Task, a \in Posts : StartCreate(r, t, a)
             \/ \E t \in Task, c \in Patches : LoadTask(r, t, c)
             \/ \E s \in Step, v \in StepStatus : LoadStep(r, s, v)
             \/ CheckReferences(r) \/ CheckCycle(r) \/ CheckDoneRule(r)
             \/ FlushTask(r) \/ SyncStep(r) \/ SyncTasks(r) \/ CommitStep(r) \/ Fail(r)
      PROVE  NoCircle'
  <2>1. blockedBy' = blockedBy /\ doubtful' = doubtful /\ row' = row
    BY <1>4 DEF StartCreate, LoadTask, LoadStep, Starts, CheckReferences, CheckCycle,
       CheckDoneRule, Reaches, FlushTask, SyncStep, SyncTasks, CommitStep, Fail, board
  <2>2. QED
    BY <1>2, <2>1 DEF Live
<1>5. ASSUME NEW t \in Task, ArchiveTask(t) PROVE NoCircle'
  <2>1. Live' \subseteq Live
    BY <1>1, <1>5 DEF ArchiveTask, Live, Rows, TypeOK
  <2>2. QED
    BY <1>2, <1>5, <2>1 DEF ArchiveTask
<1>6. QED
  BY <1>1, <1>3, <1>4, <1>5, CircleCreate, CirclePatch, CircleMaterialise DEF Next

\* For every set of tasks, spellings and requests: a circle of live tasks holds a respelt
\* id, or a list whose PATCH missed the rewrite of another list.
THEOREM CirclesNeedOverlapOrSpelling == Spec => []CircleOnlyByOverlapOrSpelling
<1>1. Spec => []NoCircle
  BY BoardInvariant, CircleInit, CircleNext, PTL DEF Spec
<1>2. QED
  BY <1>1, CircleIs, PTL

\* And so the done rule lets someone on, unless an open task has a respelt entry or such
\* a list.
THEOREM WedgesNeedOverlapOrSpelling == Spec => []WedgedOnlyByOverlapOrSpelling
<1>1. Rows /\ NoCircle => WedgedOnlyByOverlapOrSpelling
  <2>1. SUFFICES ASSUME Rows, NoCircle, Open \cap doubtful = {},
                        \A t \in Open : blockedBy[t] \subseteq {Id(u) : u \in Task},
                        \A t \in Open : OpenBlockers(blockedBy[t]) # {}
                 PROVE  Open = {}
    BY DEF WedgedOnlyByOverlapOrSpelling
  <2>2. ASSUME NEW x \in Open PROVE \E y \in Open : Id(y) \in blockedBy[x]
    <3>1. PICK y \in Named(blockedBy[x]) : row[y] = "live" /\ status[y] # "done"
      BY <2>1 DEF OpenBlockers
    <3>2. PICK e \in blockedBy[x] : e[1] = y
      BY <3>1 DEF Named
    <3>3. PICK u \in Task : e = Id(u)
      BY <2>1, <3>2
    <3>4. u = y
      BY <3>2, <3>3 DEF Id
    <3>5. QED
      BY <3>1, <3>2, <3>3, <3>4 DEF Open, Live
  <2>3. Open \in SUBSET (Live \ doubtful)
    BY <2>1 DEF Open
  <2>4. QED
    BY <2>1, <2>2, <2>3 DEF NoCircle, Circle
<1>2. Spec => [](Rows /\ NoCircle)
  BY BoardInvariant, CircleInit, CircleNext, PTL DEF Spec
<1>3. QED
  BY <1>1, <1>2, PTL
-----------------------------------------------------------------------------
(* The mirror.                                                             *)

\* What a commit may do to a step.
Excused(s) ==
  \/ StepAgrees(s)'
  \/ Linked(s, link)' # Linked(s, link)
  \/ \E r \in Call : call[r] # NoCall /\ call'[r] = NoCall /\ s \in missed[r].steps
  \/ /\ ~StepAgrees(s)
     /\ stepStatus'[s] = stepStatus[s]
     /\ \A t \in Linked(s, link) : status'[t] = status[t]

Untouched(s) ==
  /\ stepStatus'[s] = stepStatus[s]
  /\ \A t \in Linked(s, link) : status'[t] = status[t]

LEMMA AgreesIs ==
  ASSUME NEW s
  PROVE  StepAgrees(s)' <=>
           \/ Linked(s, link)' = {}
           \/ stepStatus'[s] = StepFromTasks(Linked(s, link)', status')
           \/ \A t \in Linked(s, link)' : Lower(status'[t]) = TaskFromStep(stepStatus'[s])
  BY DEF StepAgrees, Linked, StepFromTasks, Lower, TaskFromStep

LEMMA UntouchedExcused ==
  ASSUME NEW s \in Step, Untouched(s)
  PROVE  Excused(s)
<1>1. CASE Linked(s, link)' # Linked(s, link)
  BY <1>1 DEF Excused
<1>2. CASE Linked(s, link)' = Linked(s, link)
  <2>1. PICK T : T = Linked(s, link)
    OBVIOUS
  <2>2. StepFromTasks(T, status') = StepFromTasks(T, status)
    BY <2>1, StepFromTasksDependsOn DEF Untouched
  <2>3. (\A t \in T : Lower(status'[t]) = TaskFromStep(stepStatus[s]))
          <=> (\A t \in T : Lower(status[t]) = TaskFromStep(stepStatus[s]))
    BY <2>1 DEF Untouched
  <2>4. StepAgrees(s)' <=> StepAgrees(s)
    BY <1>2, <2>1, <2>2, <2>3, AgreesIs DEF Untouched, StepAgrees
  <2>5. QED
    BY <2>4 DEF Excused, Untouched
<1>3. QED
  BY <1>1, <1>2

LEMMA DriftPatch ==
  ASSUME Rows, CallFacts, NEW r \in Call, CommitPatch(r), NEW s \in Step
  PROVE  Excused(s)
<1>1. PICK t \in Task, a \in Columns, w \in Columns, moves \in BOOLEAN :
        Committing(r, t, a, w, moves)
  BY PatchIs DEF Rows
<1>2. PICK q \in PatchRequest : q = call[r]
  BY PatchIs DEF Rows
<1>3. /\ q.kind = "patch" /\ t = q.task /\ a = q.asks /\ w = q.was
      /\ moves = (q.at = "commit" /\ q.stepTo # q.stepWas)
      /\ IF CallsMirror(q) THEN q.at = "commit" ELSE q.at = "write"
      /\ q # NoCall /\ call'[r] = NoCall
  BY <1>1, <1>2, Kinds DEF Committing, PatchRequest, Ends, Rows, TypeOK
<1>4. /\ row' = row
      /\ status' = [status EXCEPT ![t] = Written(a.status, w.status, @)]
      /\ link' = [link EXCEPT ![t] = Written(a.process_step_id, w.process_step_id, @)]
      /\ stepStatus' = IF moves THEN [stepStatus EXCEPT ![a.process_step_id] = q.stepTo]
                       ELSE stepStatus
  BY <1>1, <1>2 DEF Committing
<1>5. SUFFICES ASSUME s \notin missed[r].steps, Linked(s, link)' = Linked(s, link)
               PROVE  Excused(s)
  BY <1>2, <1>3 DEF Excused
<1>6. PICK m : m = missed[r] /\ Facts(q, m) /\ s \notin m.steps
  BY <1>2, <1>5 DEF CallFacts
<1>7. row[t] = "live" => /\ link[t] = s <=> w.process_step_id = s
                         /\ w.process_step_id = s => status[t] = w.status
  BY <1>3, <1>6 DEF Facts, CopyFresh
<1>8. \A u \in Task : /\ u # t => status'[u] = status[u] /\ link'[u] = link[u]
                      /\ u = t => /\ status'[u] = Written(a.status, w.status, status[t])
                                  /\ link'[u] = Written(a.process_step_id, w.process_step_id,
                                                        link[t])
  BY <1>4 DEF Rows, TypeOK
<1>9. t \in Linked(s, link) =>
        /\ a.process_step_id = s /\ w.process_step_id = s /\ status[t] = w.status
  BY <1>4, <1>5, <1>7, <1>8 DEF Linked, Written
<1>10. CASE CallsMirror(q) /\ a.process_step_id = s
  <2>1. stepStatus[s] = q.stepWas /\ q.stepTo = Derives(q)
    BY <1>3, <1>6, <1>10 DEF Facts, MirrorFresh
  <2>2. stepStatus'[s] = q.stepTo
    BY <1>3, <1>4, <1>10, <2>1 DEF Rows, TypeOK
  <2>3. PICK T, st : /\ T = Linked(s, link)
                     /\ st = [status EXCEPT ![t] = a.status]
    OBVIOUS
  <2>4. SeenLinks(q) = link' /\ SeenStatuses(q) = st
    BY <1>3, <1>4, <2>3 DEF SeenLinks, SeenStatuses
  <2>5. Linked(s, link') = T
    BY <1>4, <1>5, <2>3 DEF Linked
  <2>6. Derives(q) = IF T = {} THEN q.stepWas ELSE StepFromTasks(T, st)
    BY <1>3, <1>10, <2>4, <2>5 DEF Derives, SyncStepFromTasks
  <2>7. \A u \in T : st[u] = status'[u]
    BY <1>8, <1>9, <2>3 DEF Linked, Written, Rows, TypeOK
  <2>8. StepFromTasks(T, st) = StepFromTasks(T, status')
    BY <2>7, StepFromTasksDependsOn
  <2>9. StepAgrees(s)'
    BY <1>5, <2>1, <2>2, <2>3, <2>6, <2>8, AgreesIs
  <2>10. QED
    BY <2>9 DEF Excused
<1>11. CASE ~(CallsMirror(q) /\ a.process_step_id = s)
  <2>1. stepStatus'[s] = stepStatus[s]
    BY <1>3, <1>4, <1>11 DEF Rows, TypeOK
  <2>2. t \in Linked(s, link) => status'[t] = status[t]
    <3>1. SUFFICES ASSUME t \in Linked(s, link) PROVE status'[t] = status[t]
      OBVIOUS
    <3>2. "status" \notin q.set
      BY <1>3, <1>9, <1>11, <3>1, BoardAssumption DEF CallsMirror
    <3>3. a.status = w.status
      BY <1>3, <1>6, <3>2 DEF Facts, Placed
    <3>4. QED
      BY <1>8, <3>3 DEF Written
  <2>3. Untouched(s)
    BY <1>8, <2>1, <2>2 DEF Untouched, Linked
  <2>4. QED
    BY <2>3, UntouchedExcused
<1>12. QED
  BY <1>10, <1>11

LEMMA DriftStep ==
  ASSUME Rows, CallFacts, NEW r \in Call, CommitStep(r), NEW s \in Step
  PROVE  Excused(s)
<1>1. PICK q \in StepRequest : q = call[r] /\ q.at = "commit"
  BY StepIs DEF Rows
<1>2. /\ stepStatus' = [stepStatus EXCEPT ![q.step] = Written(q.asks, q.was, @)]
      /\ \A t \in Task : status'[t] = IF t \in q.tasks THEN TaskFromStep(q.asks) ELSE status[t]
      /\ row' = row /\ link' = link
      /\ call[r] # NoCall /\ call'[r] = NoCall
  <2>1. /\ stepStatus' = [stepStatus EXCEPT ![q.step] = Written(q.asks, q.was, @)]
        /\ \A t \in Task : status'[t] = IF t \in q.tasks THEN TaskFromStep(q.asks)
                                        ELSE status[t]
        /\ row' = row /\ link' = link /\ Ends(r)
    BY <1>1, StepIs DEF Rows
  <2>2. q.kind = "step" /\ call'[r] = NoCall
    BY <2>1 DEF Ends, Rows, TypeOK, StepRequest
  <2>3. QED
    BY <1>1, <2>1, <2>2, Kinds DEF Rows
<1>3. SUFFICES ASSUME s \notin missed[r].steps PROVE Excused(s)
  BY <1>2 DEF Excused
<1>4. PICK m : m = missed[r] /\ Facts(q, m) /\ s \notin m.steps
  BY <1>1, <1>3 DEF CallFacts
<1>5. q.kind = "step" /\ q.step \in Step
  BY DEF StepRequest
<1>6. CASE s = q.step
  <2>1. stepStatus[s] = q.was /\ q.tasks = TasksToMove(s, q.asks)
    BY <1>1, <1>4, <1>5, <1>6 DEF Facts, StepFresh
  <2>2. stepStatus'[s] = q.asks
    BY <1>2, <1>6, <2>1 DEF Written, Rows, TypeOK
  <2>3. Lower(TaskFromStep(q.asks)) = TaskFromStep(q.asks)
    BY DEF StepRequest, StepStatus, TaskFromStep, Lower
  <2>4. Linked(s, link)' = Linked(s, link)
    BY <1>2 DEF Linked
  <2>5. \A t \in Linked(s, link) : Lower(status'[t]) = TaskFromStep(q.asks)
    BY <1>2, <2>1, <2>3 DEF TasksToMove, Linked
  <2>6. StepAgrees(s)'
    BY <2>2, <2>4, <2>5, AgreesIs
  <2>7. QED
    BY <2>6 DEF Excused
<1>7. CASE s # q.step
  <2>1. q.tasks \cap Linked(s, link) = {}
    BY <1>4, <1>5, <1>7 DEF Facts, StepFresh
  <2>2. Untouched(s)
    BY <1>2, <1>7, <2>1 DEF Untouched, Linked, Rows, TypeOK
  <2>3. QED
    BY <2>2, UntouchedExcused
<1>8. QED
  BY <1>6, <1>7

\* For every set of tasks, steps and requests: a step and its tasks come apart only by a
\* change of membership or over another request's commit.
THEOREM MirrorDriftsOnlyByMembershipOrOverlap == Spec => DriftOnlyByMembershipOrOverlap
<1>1. ASSUME Rows, CallFacts, [Next]_vars, NEW s \in Step PROVE Excused(s)
  <2>1. ASSUME stepStatus' = stepStatus, status' = status PROVE Excused(s)
    BY <2>1, UntouchedExcused DEF Untouched
  <2>2. CASE UNCHANGED vars
    BY <2>1, <2>2 DEF vars
  <2>3. ASSUME NEW r \in Call,
               \/ \E t \in Task, a \in Posts : StartCreate(r, t, a)
               \/ \E t \in Task, c \in Patches : LoadTask(r, t, c)
               \/ \E x \in Step, v \in StepStatus : LoadStep(r, x, v)
               \/ CheckReferences(r) \/ CheckCycle(r) \/ CheckDoneRule(r)
               \/ FlushTask(r) \/ SyncStep(r) \/ SyncTasks(r) \/ Fail(r)
        PROVE  Excused(s)
    BY <2>1, <2>3 DEF StartCreate, LoadTask, LoadStep, Starts, CheckReferences, CheckCycle,
       CheckDoneRule, Reaches, FlushTask, SyncStep, SyncTasks, Fail, board
  <2>4. ASSUME NEW t \in Task, ArchiveTask(t) PROVE Excused(s)
    BY <2>1, <2>4 DEF ArchiveTask
  <2>5. ASSUME NEW r \in Call, CommitCreate(r) PROVE Excused(s)
    <3>1. PICK t \in Task : t = call[r].task /\ row[t] = "absent"
      BY <1>1, <2>5, Kinds DEF CommitCreate, Rows, CallFacts, FreshId, CreateRequest
    <3>2. stepStatus' = stepStatus /\ \A u \in Task \ {t} : status'[u] = status[u]
      BY <1>1, <2>5, <3>1 DEF CommitCreate, Rows, TypeOK
    <3>3. Untouched(s)
      BY <3>1, <3>2 DEF Untouched, Linked
    <3>4. QED
      BY <3>3, UntouchedExcused
  <2>6. ASSUME NEW n \in 1..MaxBatch, NEW batch \in [1..n -> Task], NEW chained \in SUBSET (2..n),
               MaterialiseTasks(n, batch, chained)
        PROVE  Excused(s)
    <3>1. PICK new : new = {batch[i] : i \in 1..n}
      OBVIOUS
    <3>2. /\ \A t \in new : row[t] = "absent"
          /\ \A t \in Task : t \notin new => status'[t] = status[t]
          /\ stepStatus' = stepStatus
      BY <2>6, <3>1 DEF MaterialiseTasks
    <3>3. Untouched(s)
      BY <3>2 DEF Untouched, Linked
    <3>4. QED
      BY <3>3, UntouchedExcused
  <2>7. QED
    BY <1>1, <2>2, <2>3, <2>4, <2>5, <2>6, DriftPatch, DriftStep DEF Next
<1>2. ASSUME Rows /\ CallFacts, [Next]_vars
      PROVE  [\A s \in Step : ~StepAgrees(s)' =>
               \/ Linked(s, link)' # Linked(s, link)
               \/ \E r \in Call : call[r] # NoCall /\ call'[r] = NoCall /\ s \in missed[r].steps
               \/ /\ ~StepAgrees(s)
                  /\ stepStatus'[s] = stepStatus[s]
                  /\ \A t \in Linked(s, link) : status'[t] = status[t]]_vars
  BY <1>1, <1>2 DEF Excused
<1>3. QED
  BY <1>2, BoardInvariant, PTL DEF Spec, DriftOnlyByMembershipOrOverlap
-----------------------------------------------------------------------------
(* The done rule.                                                          *)

DoneOver(t) ==
  /\ status'[t] = "done"
  /\ ~(row[t] # "absent" /\ status[t] = "done")
  /\ OpenBlockers(blockedBy[t])' # {}

LEMMA StaysDone ==
  ASSUME Rows, NEW t \in Task, status'[t] = status[t]
  PROVE  ~DoneOver(t)
  BY DEF DoneOver, Rows, AbsentUntouched

LEMMA DoneCreate ==
  ASSUME Rows, CallFacts, NEW r \in Call, CommitCreate(r), NEW u \in Task, DoneOver(u)
  PROVE  call[r] # NoCall /\ call'[r] = NoCall /\ missed[r].reopened
<1>1. PICK q \in CreateRequest : q = call[r] /\ q.at = "write"
  BY Kinds DEF Rows, CommitCreate
<1>2. PICK t \in Task, a \in Columns : t = q.task /\ a = q.asks
  BY DEF CreateRequest
<1>3. /\ row' = [row EXCEPT ![t] = "live"]
      /\ status' = [status EXCEPT ![t] = a.status]
      /\ blockedBy' = [blockedBy EXCEPT ![t] = a.blocked_by]
      /\ call[r] # NoCall /\ call'[r] = NoCall
  BY <1>1, <1>2, Kinds DEF CommitCreate, Ends, Rows, TypeOK, CreateRequest
<1>4. q.kind = "create" /\ Facts(q, missed[r]) /\ FreshId(r)
  BY <1>1 DEF CallFacts, CreateRequest
<1>5. row[t] = "absent" /\ Named(a.blocked_by) \subseteq Existing
  BY <1>1, <1>2, <1>4 DEF FreshId, Facts, NamesExisting
<1>6. u = t
  BY <1>3, StaysDone DEF Rows, TypeOK
<1>7. a.status = "done" /\ blockedBy'[t] = a.blocked_by
  BY <1>3, <1>6 DEF DoneOver, Rows, TypeOK
<1>8. SUFFICES ASSUME ~missed[r].reopened PROVE FALSE
  BY <1>3
<1>9. OpenBlockers(a.blocked_by) = {}
  BY <1>1, <1>2, <1>4, <1>7, <1>8 DEF Facts, Guarded
<1>10. \A b \in Named(a.blocked_by) : ~(row'[b] = "live" /\ status'[b] # "done")
  <2>1. SUFFICES ASSUME NEW b \in Named(a.blocked_by) PROVE row'[b] = row[b] /\ status'[b] = status[b]
    BY <1>9 DEF OpenBlockers
  <2>2. b \in Task /\ b # t
    BY <1>5 DEF Existing
  <2>3. QED
    BY <1>3, <2>2 DEF Rows, TypeOK
<1>11. OpenBlockers(blockedBy[u])' = {}
  BY <1>6, <1>7, <1>10 DEF OpenBlockers, Named
<1>12. QED
  BY <1>11 DEF DoneOver

LEMMA DonePatch ==
  ASSUME Rows, CallFacts, NEW r \in Call, CommitPatch(r), NEW u \in Task, DoneOver(u)
  PROVE  call[r] # NoCall /\ call'[r] = NoCall /\ (missed[r].lists \/ missed[r].reopened)
<1>1. PICK t \in Task, a \in Columns, w \in Columns, moves \in BOOLEAN :
        Committing(r, t, a, w, moves)
  BY PatchIs DEF Rows
<1>2. PICK q \in PatchRequest : q = call[r]
  BY PatchIs DEF Rows
<1>3. /\ q.kind = "patch" /\ t = q.task /\ a = q.asks /\ w = q.was
      /\ q.at \in {"write", "commit"}
      /\ call[r] # NoCall /\ call'[r] = NoCall
  BY <1>1, <1>2, Kinds DEF Committing, PatchRequest, Ends, Rows, TypeOK
<1>4. /\ row' = row
      /\ \A x \in Task \ {t} : status'[x] = status[x]
      /\ status'[t] = Written(a.status, w.status, status[t])
      /\ blockedBy'[t] = Written(a.blocked_by, w.blocked_by, blockedBy[t])
  BY <1>1 DEF Committing, Rows, TypeOK
<1>5. SUFFICES ASSUME ~missed[r].lists, ~missed[r].reopened PROVE FALSE
  BY <1>3
<1>6. PICK m : m = missed[r] /\ Facts(q, m) /\ ~m.lists /\ ~m.reopened
  BY <1>2, <1>5 DEF CallFacts
<1>7. u = t
  BY <1>4, StaysDone
<1>8. row[t] # "absent"
  BY <1>3, <1>6 DEF Facts, Placed
<1>9. a.status = "done" /\ a.status # w.status
  BY <1>4, <1>7, <1>8 DEF DoneOver, Written
<1>10. "status" \in q.set
  BY <1>3, <1>6, <1>9 DEF Facts, Placed
<1>11. OpenBlockers(a.blocked_by) = {}
  BY <1>3, <1>6, <1>9, <1>10 DEF Facts, Guarded
<1>12. blockedBy'[t] = a.blocked_by
  BY <1>3, <1>4, <1>6 DEF Facts, ListFresh, Written
<1>13. status'[t] = "done"
  BY <1>7 DEF DoneOver
<1>14. \A b \in Named(a.blocked_by) : ~(row'[b] = "live" /\ status'[b] # "done")
  <2>1. SUFFICES ASSUME NEW b \in Named(a.blocked_by), row'[b] = "live", status'[b] # "done"
                 PROVE  FALSE
    OBVIOUS
  <2>2. row[b] = "live" /\ b # t
    BY <1>4, <1>13, <2>1
  <2>3. status[b] = "done"
    BY <1>11, <2>2 DEF OpenBlockers
  <2>4. b \in Task
    BY <1>2, <1>3, <1>6, <2>1 DEF Facts, NamesExisting, Existing
  <2>5. QED
    BY <1>4, <2>1, <2>2, <2>3, <2>4
<1>15. OpenBlockers(blockedBy[u])' = {}
  BY <1>7, <1>12, <1>14 DEF OpenBlockers, Named
<1>16. QED
  BY <1>15 DEF DoneOver

LEMMA DoneStep ==
  ASSUME Rows, NEW r \in Call, CommitStep(r), NEW t \in Task, DoneOver(t)
  PROVE  /\ call[r] # NoCall /\ call'[r] = NoCall
         /\ call[r].kind = "step" /\ call[r].asks = "done" /\ t \in call[r].tasks
<1>1. /\ call[r] \in StepRequest
      /\ status'[t] = IF t \in call[r].tasks THEN TaskFromStep(call[r].asks) ELSE status[t]
      /\ Ends(r)
  BY StepIs DEF Rows
<1>2. call[r].kind = "step" /\ call[r] # NoCall /\ call'[r] = NoCall
  BY <1>1, Kinds DEF StepRequest, Ends, Rows, TypeOK
<1>3. t \in call[r].tasks /\ TaskFromStep(call[r].asks) = "done"
  BY <1>1, StaysDone DEF DoneOver
<1>4. QED
  BY <1>2, <1>3 DEF TaskFromStep

\* For every set of tasks, steps and requests: a task is completed over an open blocker
\* only through its step, or by a request that missed a reopening or a rewritten list.
THEOREM DoneRuleHoldsUnlessOverlapped == Spec => DoneOverBlockerOnlyByStepOrOverlap
<1>1. ASSUME Rows, CallFacts, [Next]_vars, NEW t \in Task, DoneOver(t)
      PROVE  \E r \in Call :
               /\ call[r] # NoCall /\ call'[r] = NoCall
               /\ \/ call[r].kind = "step" /\ call[r].asks = "done" /\ t \in call[r].tasks
                  \/ missed[r].lists \/ missed[r].reopened
  <2>1. status'[t] # status[t]
    BY <1>1, StaysDone
  <2>2. ~UNCHANGED vars
    BY <2>1 DEF vars
  <2>3. ASSUME NEW r \in Call,
               \/ \E u \in Task, a \in Posts : StartCreate(r, u, a)
               \/ \E u \in Task, c \in Patches : LoadTask(r, u, c)
               \/ \E x \in Step, v \in StepStatus : LoadStep(r, x, v)
               \/ CheckReferences(r) \/ CheckCycle(r) \/ CheckDoneRule(r)
               \/ FlushTask(r) \/ SyncStep(r) \/ SyncTasks(r) \/ Fail(r)
        PROVE  FALSE
    BY <2>1, <2>3 DEF StartCreate, LoadTask, LoadStep, Starts, CheckReferences, CheckCycle,
       CheckDoneRule, Reaches, FlushTask, SyncStep, SyncTasks, Fail, board
  <2>4. ASSUME NEW u \in Task, ArchiveTask(u) PROVE FALSE
    BY <2>1, <2>4 DEF ArchiveTask
  <2>5. ASSUME NEW n \in 1..MaxBatch, NEW batch \in [1..n -> Task], NEW chained \in SUBSET (2..n),
               MaterialiseTasks(n, batch, chained)
        PROVE  FALSE
    <3>1. status'[t] \in {status[t], "not_started"}
      BY <2>5 DEF MaterialiseTasks
    <3>2. QED
      BY <1>1, <2>1, <3>1 DEF DoneOver
  <2>6. QED
    BY <1>1, <2>2, <2>3, <2>4, <2>5, DoneCreate, DonePatch, DoneStep DEF Next
<1>2. ASSUME Rows /\ CallFacts, [Next]_vars
      PROVE  [\A t \in Task :
               /\ status'[t] = "done"
               /\ ~(row[t] # "absent" /\ status[t] = "done")
               /\ OpenBlockers(blockedBy[t])' # {}
               => \E r \in Call :
                    /\ call[r] # NoCall /\ call'[r] = NoCall
                    /\ \/ call[r].kind = "step" /\ call[r].asks = "done" /\ t \in call[r].tasks
                       \/ missed[r].lists \/ missed[r].reopened]_vars
  BY <1>1, <1>2 DEF DoneOver
<1>3. QED
  BY <1>2, BoardInvariant, PTL DEF Spec, DoneOverBlockerOnlyByStepOrOverlap

-----------------------------------------------------------------------------
(* CreditorNotice                                                          *)

NoticeRow == [state : {"absent", "live", "archived"}, gazette : Date, local : Date,
              deadline : Nat \cup {Null}, safe : BOOLEAN]

Write == [phase : {"idle", "loaded", "computed"}, notice : Notice \cup {Null}, seen : NoticeRow,
          gazette : Date, local : Date, claim : Claim \cup {Null},
          seenStatus : ClaimStatus \cup {Null}, status : ClaimStatus \cup {Null},
          deadline : Nat \cup {Null}, safe : BOOLEAN, sent : BOOLEAN, day : Nat]

\* A write in flight is of a row there is, and has computed what it stores.
WriteTyped(q) ==
  /\ q.notice \in Notice /\ notice[q.notice].state # "absent"
  /\ q.claim # Null => q.status \in ClaimStatus
  /\ q.day <= today
  /\ q.phase = "computed" => q.deadline = DeriveDeadline(q.gazette, q.local)

ClaimTyped(x) ==
  \/ x = NoClaim
  \/ /\ x.notice \in Notice /\ notice[x.notice].state # "absent"
     /\ x.status \in ClaimStatus

\* Rows and requests have their columns.
RowsTyped ==
  /\ today \in Nat
  /\ notice \in [Notice -> NoticeRow]
  /\ DOMAIN claim = Claim /\ \A c \in Claim : ClaimTyped(claim[c])
  /\ req \in [Request -> Write]
  /\ \A r \in Request : req[r].phase # "idle" => WriteTyped(req[r])
  /\ DOMAIN alone = Request /\ DOMAIN muddled = Notice
  /\ checkedOn \in [Notice -> Nat] /\ \A n \in Notice : checkedOn[n] <= today

\* The claim of q is one of its notice, or one that only q adds.
ClaimOwned(q) ==
  \/ claim[req[q].claim] # NoClaim /\ claim[req[q].claim].notice = req[q].notice
  \/ /\ claim[req[q].claim] = NoClaim
     /\ \A p \in Request : req[p].phase # "idle" /\ req[p].claim = req[q].claim => p = q

\* A claim stays with its notice.
ClaimsOwned ==
  \A q \in Request : req[q].phase # "idle" /\ req[q].claim # Null => ClaimOwned(q)

\* The row of n holds what was loaded in these columns.
Holds(n, seen) ==
  /\ notice[n].gazette = seen.gazette /\ notice[n].local = seen.local
  /\ notice[n].deadline = seen.deadline /\ notice[n].safe = seen.safe

(***************************************************************************)
(* A write that nobody met has its notice to itself: the row is the one it *)
(* loaded, and what it counted is what its commit leaves.                  *)
(***************************************************************************)
Undisturbed(r) ==
  /\ \A q \in Request : req[q].phase # "idle" /\ req[q].notice = req[r].notice => q = r
  /\ Holds(req[r].notice, req[r].seen)
  /\ req[r].phase = "computed" =>
       req[r].safe = SafeOn(req[r].deadline, req[r].day,
                            OpenClaims(req[r].notice, ClaimsSeenBy(r)))

AloneIsAlone == \A r \in Request : req[r].phase # "idle" /\ alone[r] => Undisturbed(r)

\* One notice's part of DerivedColumnsExact.
Exact(n) ==
  /\ notice[n].deadline = DeriveDeadline(notice[n].gazette, notice[n].local)
  /\ notice[n].safe = SafeOn(notice[n].deadline, checkedOn[n], OpenClaims(n, claim))

-----------------------------------------------------------------------------
(* Types.                                                                  *)

LEMMA Deadlines ==
  ASSUME NEW g \in Date, NEW l \in Date
  PROVE  DeriveDeadline(g, l) \in Nat \cup {Null}
<1>1. LaterDate(g, l) \in Nat \cup {Null}
  BY CalendarAssumption DEF LaterDate, Date
<1>2. QED
  BY <1>1, CalendarAssumption DEF DeriveDeadline

LEMMA NullIs ==
  /\ Null \notin Notice /\ Null \notin Claim /\ Null \notin ClaimStatus /\ Null \notin Nat
  /\ NoClaim.notice = Null /\ NoClaim.status = Null
  /\ Idle.phase = "idle" /\ Idle.claim = Null
  BY CalendarAssumption DEF ClaimStatus, NoClaim, Idle

LEMMA Blank == NoNotice \in NoticeRow /\ Idle \in Write
<1>1. NoNotice \in NoticeRow
  BY DEF NoNotice, NoticeRow, Date
<1>2. Null \in Date /\ Null \in Notice \cup {Null} /\ 0 \in Nat
  BY DEF Date
<1>3. QED
  BY <1>1, <1>2 DEF Idle, Write

\* What Load does.
LoadedTo(r, n, g, l, c, seenStatus, s) ==
  /\ req[r].phase = "idle" /\ notice[n].state # "absent"
  /\ req'[r] \in Write /\ req'[r].phase = "loaded" /\ req'[r].notice = n
  /\ req'[r].seen = notice[n] /\ req'[r].claim = c /\ req'[r].seenStatus = seenStatus
  /\ req'[r].status = s /\ req'[r].day = 0
  /\ \A q \in Request : q # r => req'[q] = req[q]
  /\ req' = [q \in Request |-> req'[q]]
  /\ \A q \in Request : alone'[q] = (IF q = r THEN InFlight(n) = {}
                                     ELSE alone[q] /\ q \notin InFlight(n))
  /\ DOMAIN alone' = Request
  /\ UNCHANGED <<today, notice, claim, muddled, checkedOn>>

LEMMA Loads ==
  ASSUME RowsTyped, NEW r \in Request, NEW n \in Notice, NEW g \in Date, NEW l \in Date,
         NEW c \in Claim \cup {Null}, NEW seenStatus \in ClaimStatus \cup {Null},
         NEW s \in ClaimStatus \cup {Null}, Load(r, n, g, l, c, seenStatus, s)
  PROVE  LoadedTo(r, n, g, l, c, seenStatus, s)
<1> DEFINE new == [Idle EXCEPT !.phase = "loaded", !.notice = n, !.seen = notice[n],
                    !.gazette = g, !.local = l,
                    !.claim = c, !.seenStatus = seenStatus, !.status = s]
<1>1. notice[n] \in NoticeRow
  BY DEF RowsTyped
<1>2. Idle \in Write /\ Idle.day = 0
  BY Blank DEF Idle
<1>3. /\ new \in Write /\ new.phase = "loaded" /\ new.notice = n /\ new.seen = notice[n]
      /\ new.claim = c /\ new.seenStatus = seenStatus /\ new.status = s /\ new.day = 0
  BY <1>1, <1>2 DEF Write
<1>4. /\ req[r].phase = "idle" /\ notice[n].state # "absent"
      /\ req' = [req EXCEPT ![r] = new]
      /\ alone' = [q \in Request |-> IF q = r THEN InFlight(n) = {}
                                 ELSE alone[q] /\ q \notin InFlight(n)]
      /\ UNCHANGED <<today, notice, claim, muddled, checkedOn>>
  BY DEF Load
<1> HIDE DEF new
<1>5. /\ req'[r] = new /\ \A q \in Request : q # r => req'[q] = req[q]
      /\ req' = [q \in Request |-> req'[q]]
  BY <1>4 DEF RowsTyped
<1>6. QED
  BY <1>3, <1>4, <1>5 DEF LoadedTo

\* The three writes that load.
LEMMA LoadCases ==
  ASSUME RowsTyped, NEW r \in Request
  PROVE  /\ \A n \in Notice, g, l \in Date :
              UpdateNotice(r, n, g, l) => LoadedTo(r, n, g, l, Null, Null, Null)
         /\ \A n \in Notice, c \in Claim, s \in ClaimStatus :
              AddClaim(r, n, c, s) =>
                /\ claim[c] = NoClaim /\ \A q \in Request : req[q].claim # c
                /\ LoadedTo(r, n, notice[n].gazette, notice[n].local, c, Null, s)
         /\ \A c \in Claim, s \in ClaimStatus :
              UpdateClaim(r, c, s) =>
                /\ claim[c] # NoClaim /\ claim[c].notice \in Notice
                /\ LoadedTo(r, claim[c].notice, notice[claim[c].notice].gazette,
                            notice[claim[c].notice].local, c, claim[c].status, s)
<1>1. ASSUME NEW n \in Notice, NEW g \in Date, NEW l \in Date, UpdateNotice(r, n, g, l)
      PROVE  LoadedTo(r, n, g, l, Null, Null, Null)
  BY <1>1, Loads DEF UpdateNotice
<1>2. ASSUME NEW n \in Notice
      PROVE  notice[n].gazette \in Date /\ notice[n].local \in Date
  BY DEF RowsTyped, NoticeRow
<1>3. ASSUME NEW n \in Notice, NEW c \in Claim, NEW s \in ClaimStatus, AddClaim(r, n, c, s)
      PROVE  /\ claim[c] = NoClaim /\ \A q \in Request : req[q].claim # c
             /\ LoadedTo(r, n, notice[n].gazette, notice[n].local, c, Null, s)
  <2>1. /\ claim[c] = NoClaim /\ \A q \in Request : req[q].claim # c
        /\ Load(r, n, notice[n].gazette, notice[n].local, c, Null, s)
    BY <1>3 DEF AddClaim
  <2>2. QED
    BY <1>2, <2>1, Loads
<1>4. ASSUME NEW c \in Claim, NEW s \in ClaimStatus, UpdateClaim(r, c, s)
      PROVE  /\ claim[c] # NoClaim /\ claim[c].notice \in Notice
             /\ LoadedTo(r, claim[c].notice, notice[claim[c].notice].gazette,
                         notice[claim[c].notice].local, c, claim[c].status, s)
  <2> DEFINE n == claim[c].notice
  <2>1. /\ claim[c] # NoClaim
        /\ Load(r, n, notice[n].gazette, notice[n].local, c, claim[c].status, s)
    BY <1>4 DEF UpdateClaim
  <2>2. n \in Notice /\ claim[c].status \in ClaimStatus
    BY <2>1 DEF RowsTyped, ClaimTyped
  <2> HIDE DEF n
  <2>3. LoadedTo(r, n, notice[n].gazette, notice[n].local, c, claim[c].status, s)
    BY <1>2, <2>1, <2>2, Loads
  <2>4. QED
    BY <2>1, <2>2, <2>3 DEF n
<1>5. QED
  BY <1>1, <1>3, <1>4

\* What Compute does.
ComputedBy(r) ==
  /\ req[r].phase = "loaded"
  /\ req'[r] \in Write /\ req'[r].phase = "computed" /\ req'[r].notice = req[r].notice
  /\ req'[r].seen = req[r].seen /\ req'[r].claim = req[r].claim
  /\ req'[r].gazette = req[r].gazette /\ req'[r].local = req[r].local
  /\ req'[r].seenStatus = req[r].seenStatus /\ req'[r].status = req[r].status
  /\ req'[r].deadline = DeriveDeadline(req[r].gazette, req[r].local) /\ req'[r].day = today
  /\ req'[r].safe = SafeOn(req'[r].deadline, req'[r].day, CountedClaims(r))
  /\ \A q \in Request : q # r => req'[q] = req[q]
  /\ req' = [q \in Request |-> req'[q]]
  /\ UNCHANGED <<today, notice, claim, alone, muddled, checkedOn>>

LEMMA Computes ==
  ASSUME RowsTyped, NEW r \in Request, Compute(r)
  PROVE  ComputedBy(r)
<1> DEFINE q == req[r]
           deadline == DeriveDeadline(q.gazette, q.local)
           dirty == q.gazette # q.seen.gazette \/ q.local # q.seen.local
                 \/ deadline # q.seen.deadline
           safe == SafeOn(deadline, today, CountedClaims(r))
           new == [q EXCEPT !.phase = "computed", !.sent = dirty,
                     !.deadline = deadline, !.day = today, !.safe = safe]
<1>1. q \in Write /\ today \in Nat
  BY DEF RowsTyped
<1>2. deadline \in Nat \cup {Null}
  BY <1>1, Deadlines DEF Write
<1>3. safe \in BOOLEAN /\ dirty \in BOOLEAN
  BY DEF SafeOn
<1>4. q.phase = "loaded" /\ UNCHANGED <<today, notice, claim, alone, muddled, checkedOn>>
  BY DEF Compute
<1>5. req' = [req EXCEPT ![r] = new]
  BY DEF Compute
<1> HIDE DEF q, deadline, dirty, safe
<1>6. /\ new \in Write /\ new.phase = "computed" /\ new.notice = q.notice
      /\ new.seen = q.seen /\ new.claim = q.claim
      /\ new.gazette = q.gazette /\ new.local = q.local
      /\ new.seenStatus = q.seenStatus /\ new.status = q.status
      /\ new.deadline = deadline /\ new.day = today /\ new.safe = safe
  <2>1. new \in Write
    BY <1>1, <1>2, <1>3 DEF Write
  <2>2. /\ new.phase = "computed" /\ new.notice = q.notice
        /\ new.seen = q.seen /\ new.claim = q.claim
        /\ new.gazette = q.gazette /\ new.local = q.local
    BY <1>1 DEF Write
  <2>3. /\ new.seenStatus = q.seenStatus /\ new.status = q.status
        /\ new.deadline = deadline /\ new.day = today /\ new.safe = safe
    BY <1>1 DEF Write
  <2>4. QED
    BY <2>1, <2>2, <2>3
<1> HIDE DEF new
<1>7. /\ req'[r] = new /\ \A p \in Request : p # r => req'[p] = req[p]
      /\ req' = [p \in Request |-> req'[p]]
  BY <1>5 DEF RowsTyped
<1>8. /\ req'[r].deadline = DeriveDeadline(req[r].gazette, req[r].local)
      /\ req'[r].safe = SafeOn(req'[r].deadline, req'[r].day, CountedClaims(r))
  BY <1>6, <1>7 DEF q, deadline, safe
<1>9. QED
  BY <1>4, <1>6, <1>7, <1>8 DEF ComputedBy, q

\* What Commit does.
CommittedBy(r) ==
  LET q == req[r] IN
  /\ q.phase = "computed" /\ q.notice \in Notice
  /\ notice'[q.notice] \in NoticeRow /\ notice'[q.notice].state = notice[q.notice].state
  /\ notice'[q.notice].gazette = Column(q.seen.gazette, q.gazette, notice[q.notice].gazette)
  /\ notice'[q.notice].local = Column(q.seen.local, q.local, notice[q.notice].local)
  /\ notice'[q.notice].deadline = Column(q.seen.deadline, q.deadline, notice[q.notice].deadline)
  /\ notice'[q.notice].safe = Column(q.seen.safe, q.safe, notice[q.notice].safe)
  /\ \A m \in Notice : m # q.notice =>
       notice'[m] = notice[m] /\ muddled'[m] = muddled[m] /\ checkedOn'[m] = checkedOn[m]
  /\ notice' = [m \in Notice |-> notice'[m]] /\ checkedOn' = [m \in Notice |-> checkedOn'[m]]
  /\ DOMAIN muddled' = Notice
  /\ claim' = ClaimsSeenBy(r)
  /\ muddled'[q.notice] = ~alone[r] /\ checkedOn'[q.notice] = q.day
  /\ req'[r] = Idle /\ \A p \in Request : p # r => req'[p] = req[p]
  /\ req' = [p \in Request |-> req'[p]]
  /\ UNCHANGED <<today, alone>>

LEMMA NoticeColumns ==
  ASSUME NEW T, NEW a \in T, NEW b \in T, NEW c \in T
  PROVE  Column(a, b, c) \in T
  BY DEF Column

LEMMA Commits ==
  ASSUME RowsTyped, NEW r \in Request, Commit(r)
  PROVE  CommittedBy(r)
<1> DEFINE q == req[r]
           n == q.notice
           after == notice[n]
           g == Column(q.seen.gazette, q.gazette, after.gazette)
           l == Column(q.seen.local, q.local, after.local)
           d == Column(q.seen.deadline, q.deadline, after.deadline)
           s == Column(q.seen.safe, q.safe, after.safe)
           new == [after EXCEPT !.gazette = g, !.local = l, !.deadline = d, !.safe = s]
<1>1. /\ q.phase = "computed" /\ q \in Write /\ WriteTyped(q) /\ claim' = ClaimsSeenBy(r)
      /\ muddled' = [muddled EXCEPT ![n] = ~alone[r]]
      /\ checkedOn' = [checkedOn EXCEPT ![n] = q.day]
      /\ req' = [req EXCEPT ![r] = Idle] /\ UNCHANGED <<today, alone>>
  BY DEF Commit, RowsTyped
<1>2. n \in Notice /\ after \in NoticeRow /\ q.seen \in NoticeRow
  BY <1>1 DEF WriteTyped, RowsTyped, Write
<1>3. notice' = [notice EXCEPT ![n] = new]
  BY DEF Commit
<1>4. /\ q.seen.gazette \in Date /\ q.gazette \in Date /\ after.gazette \in Date
      /\ q.seen.local \in Date /\ q.local \in Date /\ after.local \in Date
      /\ q.seen.deadline \in Nat \cup {Null} /\ q.deadline \in Nat \cup {Null}
      /\ after.deadline \in Nat \cup {Null}
      /\ q.seen.safe \in BOOLEAN /\ q.safe \in BOOLEAN /\ after.safe \in BOOLEAN
  BY <1>1, <1>2 DEF Write, NoticeRow
<1>5. g \in Date /\ l \in Date
  BY <1>4, NoticeColumns
<1>6. d \in Nat \cup {Null}
  BY <1>4, NoticeColumns
<1>7. s \in BOOLEAN
  BY <1>4, NoticeColumns
<1> HIDE DEF g, l, d, s, after
<1>8. /\ new \in NoticeRow /\ new.state = after.state /\ new.gazette = g /\ new.local = l
      /\ new.deadline = d /\ new.safe = s
  BY <1>2, <1>5, <1>6, <1>7 DEF NoticeRow
<1> HIDE DEF new, n
<1>9. /\ notice'[n] = new /\ \A m \in Notice : m # n => notice'[m] = notice[m]
      /\ notice' = [m \in Notice |-> notice'[m]]
  BY <1>2, <1>3 DEF RowsTyped
<1>10. /\ muddled'[n] = ~alone[r] /\ \A m \in Notice : m # n => muddled'[m] = muddled[m]
       /\ DOMAIN muddled' = Notice
  BY <1>1, <1>2 DEF RowsTyped
<1>11. /\ checkedOn'[n] = q.day /\ \A m \in Notice : m # n => checkedOn'[m] = checkedOn[m]
       /\ checkedOn' = [m \in Notice |-> checkedOn'[m]]
  BY <1>1, <1>2 DEF RowsTyped
<1>12. /\ req'[r] = Idle /\ \A p \in Request : p # r => req'[p] = req[p]
       /\ req' = [p \in Request |-> req'[p]]
  BY <1>1 DEF RowsTyped
<1>13. QED
  BY <1>1, <1>2, <1>8, <1>9, <1>10, <1>11, <1>12 DEF CommittedBy, q, n, after, g, l, d, s

\* A claim row as the writer of r sees it.
LEMMA Sees ==
  ASSUME RowsTyped, NEW r \in Request, NEW c \in Claim
  PROVE  ClaimsSeenBy(r)[c] = IF c = req[r].claim /\ WritesClaim(r)
                              THEN [notice |-> req[r].notice, status |-> req[r].status]
                              ELSE claim[c]
  BY DEF ClaimsSeenBy

LEMMA InitRows == NoticeInit => RowsTyped /\ ClaimsOwned /\ AloneIsAlone /\ DerivedColumnsExact
<1> SUFFICES ASSUME NoticeInit
             PROVE  RowsTyped /\ ClaimsOwned /\ AloneIsAlone /\ DerivedColumnsExact
  OBVIOUS
<1>1. /\ today = 0 /\ notice \in [Notice -> NoticeRow] /\ \A n \in Notice : notice[n] = NoNotice
      /\ DOMAIN claim = Claim /\ \A c \in Claim : claim[c] = NoClaim
      /\ req \in [Request -> Write] /\ \A r \in Request : req[r] = Idle
      /\ DOMAIN alone = Request /\ DOMAIN muddled = Notice
      /\ checkedOn \in [Notice -> Nat] /\ \A n \in Notice : checkedOn[n] = 0
  BY Blank DEF NoticeInit
<1>2. RowsTyped
  BY <1>1, NullIs DEF RowsTyped, ClaimTyped
<1>3. ClaimsOwned /\ AloneIsAlone
  BY <1>1, NullIs DEF ClaimsOwned, AloneIsAlone
<1>4. DerivedColumnsExact
  <2>1. DeriveDeadline(Null, Null) = Null
    BY DEF DeriveDeadline, LaterDate
  <2>2. NoNotice.gazette = Null /\ NoNotice.local = Null /\ NoNotice.deadline = Null /\ NoNotice.safe = FALSE
    BY DEF NoNotice
  <2>3. QED
    BY <1>1, <2>1, <2>2 DEF DerivedColumnsExact, SafeOn
<1>5. QED
  BY <1>2, <1>3, <1>4

\* A load.
LEMMA LoadTyped ==
  ASSUME RowsTyped, NEW r \in Request, NEW n \in Notice, NEW g, NEW l,
         NEW c \in Claim \cup {Null}, NEW e, NEW s, c # Null => s \in ClaimStatus,
         LoadedTo(r, n, g, l, c, e, s)
  PROVE  RowsTyped'
<1>1. UNCHANGED <<today, notice, claim, muddled, checkedOn>> /\ DOMAIN alone' = Request
  BY DEF LoadedTo
<1>2. req' \in [Request -> Write]
  BY DEF LoadedTo, RowsTyped
<1>3. WriteTyped(req'[r])
  BY DEF WriteTyped, LoadedTo, RowsTyped
<1>4. ASSUME NEW q \in Request, req'[q].phase # "idle"
      PROVE  WriteTyped(req[q])' 
  <2>1. CASE q = r
    BY <1>1, <1>3, <2>1 DEF WriteTyped
  <2>2. CASE q # r
    <3>1. req'[q] = req[q] /\ WriteTyped(req[q])
      BY <1>4, <2>2 DEF LoadedTo, RowsTyped
    <3>2. QED
      BY <1>1, <3>1 DEF WriteTyped
  <2>3. QED
    BY <2>1, <2>2
<1>5. \A x \in Claim : ClaimTyped(claim[x])'
  BY <1>1 DEF RowsTyped, ClaimTyped
<1>6. QED
  BY <1>1, <1>2, <1>4, <1>5 DEF RowsTyped

LEMMA NextTypedRows ==
  ASSUME RowsTyped, [NoticeNext]_noticeVars
  PROVE  RowsTyped'
<1>1. ASSUME NextDay
      PROVE  RowsTyped'
  <2>1. today' = today + 1 /\ UNCHANGED <<notice, claim, req, alone, muddled, checkedOn>>
    BY <1>1 DEF NextDay
  <2>2. today \in Nat /\ today' \in Nat
    BY <2>1 DEF RowsTyped
  <2>3. \A r \in Request : req[r].phase # "idle" => WriteTyped(req[r])'
    <3> SUFFICES ASSUME NEW r \in Request, req[r].phase # "idle" PROVE WriteTyped(req[r])'
      OBVIOUS
    <3>1. WriteTyped(req[r]) /\ req[r].day \in Nat
      BY DEF RowsTyped, Write
    <3>2. QED
      BY <2>1, <2>2, <3>1 DEF WriteTyped
  <2>4. \A n \in Notice : checkedOn[n] \in Nat /\ checkedOn[n] <= today'
    BY <2>1, <2>2 DEF RowsTyped
  <2>5. \A c \in Claim : ClaimTyped(claim[c])'
    BY <2>1 DEF RowsTyped, ClaimTyped
  <2>6. QED
    BY <2>1, <2>2, <2>3, <2>4, <2>5 DEF RowsTyped
<1>2. ASSUME NEW after \in NoticeRow, NEW n \in Notice, after.state # "absent",
             notice' = [notice EXCEPT ![n] = after],
             checkedOn' = checkedOn \/ checkedOn' = [checkedOn EXCEPT ![n] = today],
             UNCHANGED <<today, claim, req, alone, muddled>>
      PROVE  RowsTyped'
  <2>1. /\ notice' \in [Notice -> NoticeRow] /\ notice'[n].state # "absent"
        /\ \A m \in Notice : m # n => notice'[m] = notice[m]
    BY <1>2 DEF RowsTyped
  <2>2. \A r \in Request : req[r].phase # "idle" => WriteTyped(req[r])'
    <3> SUFFICES ASSUME NEW r \in Request, req[r].phase # "idle" PROVE WriteTyped(req[r])'
      OBVIOUS
    <3>1. WriteTyped(req[r])
      BY DEF RowsTyped
    <3>2. QED
      BY <1>2, <2>1, <3>1 DEF WriteTyped
  <2>3. ASSUME NEW c \in Claim
        PROVE  ClaimTyped(claim[c])'
    <3>1. ClaimTyped(claim[c])
      BY DEF RowsTyped
    <3>2. QED
      BY <1>2, <2>1, <3>1 DEF ClaimTyped
  <2>4. checkedOn' \in [Notice -> Nat] /\ \A m \in Notice : checkedOn'[m] <= today
    BY <1>2 DEF RowsTyped
  <2>5. QED
    BY <1>2, <2>1, <2>2, <2>3, <2>4 DEF RowsTyped
<1>3. ASSUME NEW n \in Notice, NEW g \in Date, NEW l \in Date, CreateNotice(n, g, l)
      PROVE  RowsTyped'
  <2> DEFINE safe == SafeOn(DeriveDeadline(g, l), today, {})
             after == [state |-> "live", gazette |-> g, local |-> l,
                     deadline |-> DeriveDeadline(g, l), safe |-> safe]
  <2>1. safe \in BOOLEAN /\ DeriveDeadline(g, l) \in Nat \cup {Null}
    BY Deadlines DEF SafeOn
  <2>2. after \in NoticeRow /\ after.state = "live"
    BY <2>1 DEF NoticeRow
  <2>3. /\ notice' = [notice EXCEPT ![n] = after] /\ checkedOn' = [checkedOn EXCEPT ![n] = today]
        /\ UNCHANGED <<today, claim, req, alone, muddled>>
    BY <1>3 DEF CreateNotice
  <2> HIDE DEF after
  <2>4. QED
    BY <1>2, <2>2, <2>3
<1>4. ASSUME NEW n \in Notice, ArchiveNotice(n)
      PROVE  RowsTyped'
  <2> DEFINE old == notice[n]
             after == [old EXCEPT !.state = "archived"]
  <2>1. old \in NoticeRow
    BY DEF RowsTyped
  <2>2. notice' = [notice EXCEPT ![n] = after] /\ UNCHANGED <<today, claim, req, alone, muddled, checkedOn>>
    BY <1>4 DEF ArchiveNotice
  <2> HIDE DEF old
  <2>3. after \in NoticeRow /\ after.state = "archived"
    BY <2>1 DEF NoticeRow
  <2> HIDE DEF after
  <2>4. QED
    BY <1>2, <2>2, <2>3
<1>5. ASSUME NEW r \in Request, NEW n \in Notice, NEW g \in Date, NEW l \in Date,
             UpdateNotice(r, n, g, l)
      PROVE  RowsTyped'
  BY <1>5, LoadCases, LoadTyped
<1>6. ASSUME NEW r \in Request, NEW n \in Notice, NEW c \in Claim, NEW s \in ClaimStatus,
             AddClaim(r, n, c, s)
      PROVE  RowsTyped'
  BY <1>6, LoadCases, LoadTyped
<1>7. ASSUME NEW r \in Request, NEW c \in Claim, NEW s \in ClaimStatus, UpdateClaim(r, c, s)
      PROVE  RowsTyped'
  BY <1>7, LoadCases, LoadTyped
<1>8. ASSUME NEW r \in Request, Compute(r)
      PROVE  RowsTyped'
  <2>1. ComputedBy(r)
    BY <1>8, Computes
  <2>2. UNCHANGED <<today, notice, claim, alone, muddled, checkedOn>> /\ req' \in [Request -> Write]
    BY <2>1 DEF ComputedBy, RowsTyped
  <2>3. ASSUME NEW q \in Request, req'[q].phase # "idle"
        PROVE  WriteTyped(req[q])'
    <3>1. CASE q = r
      <4>1. WriteTyped(req[r]) /\ today \in Nat
        BY <2>1 DEF RowsTyped, ComputedBy
      <4>2. QED
        BY <2>1, <2>2, <3>1, <4>1 DEF WriteTyped, ComputedBy
    <3>2. CASE q # r
      <4>1. req'[q] = req[q] /\ WriteTyped(req[q])
        BY <2>1, <2>3, <3>2 DEF ComputedBy, RowsTyped
      <4>2. QED
        BY <2>2, <4>1 DEF WriteTyped
    <3>3. QED
      BY <3>1, <3>2
  <2>4. \A c \in Claim : ClaimTyped(claim[c])'
    BY <2>2 DEF RowsTyped, ClaimTyped
  <2>5. QED
    BY <2>2, <2>3, <2>4 DEF RowsTyped
<1>9. ASSUME NEW r \in Request, Commit(r)
      PROVE  RowsTyped'
  <2>1. CommittedBy(r)
    BY <1>9, Commits
  <2>2. /\ req'[r] = Idle /\ \A p \in Request : p # r => req'[p] = req[p]
        /\ req' \in [Request -> Write] /\ UNCHANGED <<today, alone>>
    BY <2>1, Blank DEF CommittedBy, RowsTyped
  <2>3. /\ notice' \in [Notice -> NoticeRow] /\ DOMAIN muddled' = Notice
        /\ \A m \in Notice : notice'[m].state = notice[m].state
    BY <2>1 DEF CommittedBy, RowsTyped
  <2>4. WriteTyped(req[r]) /\ req[r].day \in Nat /\ req[r].day <= today
    BY <2>1 DEF CommittedBy, RowsTyped, WriteTyped, Write
  <2>5. checkedOn' \in [Notice -> Nat] /\ \A m \in Notice : checkedOn'[m] <= today'
    BY <2>1, <2>2, <2>4 DEF CommittedBy, RowsTyped
  <2>6. ASSUME NEW q \in Request, req'[q].phase # "idle"
        PROVE  WriteTyped(req[q])'
    <3>1. q # r
      BY <2>2, <2>6, NullIs
    <3>2. req'[q] = req[q] /\ WriteTyped(req[q])
      BY <2>2, <2>6, <3>1 DEF RowsTyped
    <3>3. QED
      BY <2>2, <2>3, <3>2 DEF WriteTyped
  <2>7. ASSUME NEW c \in Claim
        PROVE  ClaimTyped(claim[c])'
    <3>1. claim'[c] = ClaimsSeenBy(r)[c]
      BY <2>1 DEF CommittedBy
    <3>2. CASE c = req[r].claim /\ WritesClaim(r)
      <4>1. claim'[c] = [notice |-> req[r].notice, status |-> req[r].status]
        BY <3>1, <3>2, Sees
      <4>2. req[r].notice \in Notice /\ req[r].status \in ClaimStatus
             /\ notice[req[r].notice].state # "absent"
        BY <2>4, <3>2, NullIs DEF WriteTyped
      <4>3. QED
        BY <2>3, <4>1, <4>2 DEF ClaimTyped
    <3>3. CASE ~(c = req[r].claim /\ WritesClaim(r))
      <4>1. claim'[c] = claim[c] /\ ClaimTyped(claim[c])
        BY <3>1, <3>3, Sees DEF RowsTyped
      <4>2. QED
        BY <2>3, <4>1 DEF ClaimTyped
    <3>4. QED
      BY <3>2, <3>3
  <2>8. DOMAIN claim' = Claim
    BY <2>1 DEF CommittedBy, ClaimsSeenBy
  <2>9. today' \in Nat /\ DOMAIN alone' = Request
    BY <2>2 DEF RowsTyped
  <2>10. QED
    BY <2>2, <2>3, <2>5, <2>6, <2>7, <2>8, <2>9 DEF RowsTyped
<1>10. ASSUME NEW r \in Request, Rollback(r)
       PROVE  RowsTyped'
  <2>1. req' = [req EXCEPT ![r] = Idle] /\ UNCHANGED <<today, notice, claim, alone, muddled, checkedOn>>
    BY <1>10 DEF Rollback
  <2>2. /\ req' \in [Request -> Write]
        /\ \A q \in Request : req'[q].phase # "idle" => req'[q] = req[q]
    BY <2>1, Blank, NullIs DEF RowsTyped
  <2>3. ASSUME NEW q \in Request, req'[q].phase # "idle"
        PROVE  WriteTyped(req[q])'
    <3>1. req'[q] = req[q] /\ WriteTyped(req[q])
      BY <2>2, <2>3 DEF RowsTyped
    <3>2. QED
      BY <2>1, <3>1 DEF WriteTyped
  <2>4. \A c \in Claim : ClaimTyped(claim[c])'
    BY <2>1 DEF RowsTyped, ClaimTyped
  <2>5. QED
    BY <2>1, <2>2, <2>3, <2>4 DEF RowsTyped
<1>11. CASE UNCHANGED noticeVars
  BY <1>11 DEF noticeVars, RowsTyped, ClaimTyped, WriteTyped
<1>12. QED
  BY <1>1, <1>3, <1>4, <1>5, <1>6, <1>7, <1>8, <1>9, <1>10, <1>11 DEF NoticeNext

-----------------------------------------------------------------------------
(* Claims.                                                                 *)

\* A request begins or ends and no claim is written.
LEMMA OwnedKept ==
  ASSUME ClaimsOwned, UNCHANGED claim,
         \A q \in Request : req'[q].phase # "idle" =>
           /\ req[q].phase # "idle"
           /\ req'[q].claim = req[q].claim /\ req'[q].notice = req[q].notice
  PROVE  ClaimsOwned'
<1> SUFFICES ASSUME NEW q \in Request, req'[q].phase # "idle", req'[q].claim # Null
             PROVE  ClaimOwned(q)'
  BY DEF ClaimsOwned
<1>1. ClaimOwned(q) /\ req'[q].claim = req[q].claim /\ req'[q].notice = req[q].notice
  BY DEF ClaimsOwned
<1>2. QED
  BY <1>1 DEF ClaimOwned

LEMMA OwnedLoaded ==
  ASSUME RowsTyped, ClaimsOwned, NEW r \in Request, NEW n, NEW g, NEW l, NEW c, NEW e, NEW s,
         LoadedTo(r, n, g, l, c, e, s),
         c # Null => \/ claim[c] # NoClaim /\ claim[c].notice = n
                     \/ claim[c] = NoClaim /\ \A q \in Request : req[q].claim # c
  PROVE  ClaimsOwned'
<1>1. /\ UNCHANGED claim /\ req'[r].claim = c /\ req'[r].notice = n
      /\ \A q \in Request : q # r => req'[q] = req[q]
  BY DEF LoadedTo
<1> SUFFICES ASSUME NEW q \in Request, req'[q].phase # "idle", req'[q].claim # Null
             PROVE  ClaimOwned(q)'
  BY DEF ClaimsOwned
<1>2. CASE q = r
  BY <1>1, <1>2 DEF ClaimOwned
<1>3. CASE q # r
  <2>1. req'[q] = req[q] /\ ClaimOwned(q)
    BY <1>1, <1>3 DEF ClaimsOwned
  <2>2. CASE claim[req[q].claim] # NoClaim
    BY <1>1, <2>1, <2>2 DEF ClaimOwned
  <2>3. CASE claim[req[q].claim] = NoClaim
    <3>1. c # req[q].claim
      BY <1>1, <2>1, <2>3
    <3>2. \A p \in Request : req'[p].phase # "idle" /\ req'[p].claim = req[q].claim => p = q
      BY <1>1, <2>1, <2>3, <3>1 DEF ClaimOwned
    <3>3. QED
      BY <1>1, <2>1, <2>3, <3>2 DEF ClaimOwned
  <2>4. QED
    BY <2>2, <2>3
<1>4. QED
  BY <1>2, <1>3

\* The claim that r commits is one of its notice afterwards, and was not one of another.
LEMMA OwnClaim ==
  ASSUME RowsTyped, ClaimsOwned, NEW r \in Request, req[r].phase # "idle",
         NEW c \in Claim, ClaimsSeenBy(r)[c] # claim[c]
  PROVE  /\ c = req[r].claim /\ ClaimsSeenBy(r)[c].notice = req[r].notice
         /\ claim[c] = NoClaim \/ claim[c].notice = req[r].notice
         /\ claim[c] = NoClaim =>
              \A p \in Request : req[p].phase # "idle" /\ req[p].claim = c => p = r
<1>1. c = req[r].claim /\ ClaimsSeenBy(r)[c].notice = req[r].notice
  <2> DEFINE own == [notice |-> req[r].notice, status |-> req[r].status]
             seen == ClaimsSeenBy(r)[c]
  <2>1. seen = IF c = req[r].claim /\ WritesClaim(r) THEN own ELSE claim[c]
    BY Sees
  <2>2. own.notice = req[r].notice /\ seen # claim[c]
    OBVIOUS
  <2> HIDE DEF own, seen
  <2>3. c = req[r].claim /\ seen = own
    BY <2>1, <2>2
  <2>4. QED
    BY <2>2, <2>3 DEF seen
<1>2. ClaimOwned(r)
  BY <1>1, NullIs DEF ClaimsOwned
<1>3. QED
  BY <1>1, <1>2 DEF ClaimOwned

LEMMA NextOwned ==
  ASSUME RowsTyped, ClaimsOwned, [NoticeNext]_noticeVars
  PROVE  ClaimsOwned'
<1>1. ASSUME UNCHANGED <<claim, req>>
      PROVE  ClaimsOwned'
  BY <1>1, OwnedKept
<1>2. /\ NextDay => UNCHANGED <<claim, req>>
      /\ \A n \in Notice, g, l \in Date : CreateNotice(n, g, l) => UNCHANGED <<claim, req>>
      /\ \A n \in Notice : ArchiveNotice(n) => UNCHANGED <<claim, req>>
      /\ UNCHANGED noticeVars => UNCHANGED <<claim, req>>
  BY DEF NextDay, CreateNotice, ArchiveNotice, noticeVars
<1>3. ASSUME NEW r \in Request, NEW n \in Notice, NEW g \in Date, NEW l \in Date,
             UpdateNotice(r, n, g, l)
      PROVE  ClaimsOwned'
  BY <1>3, LoadCases, OwnedLoaded
<1>4. ASSUME NEW r \in Request, NEW n \in Notice, NEW c \in Claim, NEW s \in ClaimStatus,
             AddClaim(r, n, c, s)
      PROVE  ClaimsOwned'
  <2>1. /\ claim[c] = NoClaim /\ \A q \in Request : req[q].claim # c
        /\ LoadedTo(r, n, notice[n].gazette, notice[n].local, c, Null, s)
    BY <1>4, LoadCases
  <2>2. QED
    BY <2>1, OwnedLoaded
<1>5. ASSUME NEW r \in Request, NEW c \in Claim, NEW s \in ClaimStatus, UpdateClaim(r, c, s)
      PROVE  ClaimsOwned'
  BY <1>5, LoadCases, OwnedLoaded
<1>6. ASSUME NEW r \in Request, Compute(r)
      PROVE  ClaimsOwned'
  <2>1. ComputedBy(r)
    BY <1>6, Computes
  <2>2. \A q \in Request : req'[q].phase # "idle" =>
           /\ req[q].phase # "idle"
           /\ req'[q].claim = req[q].claim /\ req'[q].notice = req[q].notice
    BY <2>1 DEF ComputedBy
  <2>3. UNCHANGED claim
    BY <2>1 DEF ComputedBy
  <2>4. QED
    BY <2>2, <2>3, OwnedKept
<1>7. ASSUME NEW r \in Request, Commit(r)
      PROVE  ClaimsOwned'
  <2>1. CommittedBy(r)
    BY <1>7, Commits
  <2>2. /\ req[r].phase # "idle" /\ req'[r].phase = "idle" /\ req[r].notice \in Notice
        /\ \A q \in Request : q # r => req'[q] = req[q]
        /\ claim' = ClaimsSeenBy(r)
    BY <2>1, NullIs DEF CommittedBy
  <2> SUFFICES ASSUME NEW q \in Request, req'[q].phase # "idle", req'[q].claim # Null
               PROVE  ClaimOwned(q)'
    BY DEF ClaimsOwned
  <2> DEFINE c == req[q].claim
  <2>3. req'[q] = req[q] /\ ClaimOwned(q) /\ q # r /\ c \in Claim
    BY <2>2 DEF ClaimsOwned, RowsTyped, Write
  <2>4. CASE ClaimsSeenBy(r)[c] = claim[c]
    <3>1. claim'[c] = claim[c]
      BY <2>2, <2>4
    <3>2. \A p \in Request : req'[p].phase # "idle" /\ req'[p].claim = c =>
            req[p].phase # "idle" /\ req[p].claim = c
      BY <2>2
    <3>3. QED
      BY <2>3, <3>1, <3>2 DEF ClaimOwned
  <2>5. CASE ClaimsSeenBy(r)[c] # claim[c]
    <3>1. /\ ClaimsSeenBy(r)[c].notice = req[r].notice
          /\ claim[c] = NoClaim \/ claim[c].notice = req[r].notice
          /\ claim[c] = NoClaim =>
              \A p \in Request : req[p].phase # "idle" /\ req[p].claim = c => p = r
      BY <2>2, <2>3, <2>5, OwnClaim
    <3>2. claim[c] # NoClaim
      BY <2>3, <3>1
    <3>3. claim[c].notice = req[q].notice
      BY <2>3, <3>2 DEF ClaimOwned
    <3>4. claim'[c].notice = req[q].notice /\ claim'[c] # NoClaim
      BY <2>2, <3>1, <3>2, <3>3, NullIs
    <3>5. QED
      BY <2>3, <3>4 DEF ClaimOwned
  <2>6. QED
    BY <2>4, <2>5
<1>8. ASSUME NEW r \in Request, Rollback(r)
      PROVE  ClaimsOwned'
  <2>1. req' = [req EXCEPT ![r] = Idle] /\ UNCHANGED claim
    BY <1>8 DEF Rollback
  <2>2. \A q \in Request : req'[q].phase # "idle" => req'[q] = req[q]
    BY <2>1, NullIs DEF RowsTyped
  <2>3. QED
    BY <2>1, <2>2, OwnedKept
<1>9. QED
  BY <1>1, <1>2, <1>3, <1>4, <1>5, <1>6, <1>7, <1>8 DEF NoticeNext

\* What a commit on another notice leaves of the open claims of n.
LEMMA OthersRows ==
  ASSUME RowsTyped, ClaimsOwned, NEW r \in Request, req[r].phase # "idle",
         NEW n \in Notice, n # req[r].notice, claim' = ClaimsSeenBy(r)
  PROVE  \A c \in Claim : claim'[c] = claim[c] \/ (claim'[c].notice # n /\ claim[c].notice # n)
<1> SUFFICES ASSUME NEW c \in Claim, claim'[c] # claim[c]
             PROVE  claim'[c].notice # n /\ claim[c].notice # n
  OBVIOUS
<1>1. ClaimsSeenBy(r)[c].notice = req[r].notice
      /\ (claim[c] = NoClaim \/ claim[c].notice = req[r].notice)
  BY OwnClaim
<1>2. QED
  BY <1>1, NullIs

\* Hence the open claims of another notice stay as they were.
LEMMA OthersClaims ==
  ASSUME RowsTyped, ClaimsOwned, NEW r \in Request, req[r].phase # "idle",
         NEW n \in Notice, n # req[r].notice, claim' = ClaimsSeenBy(r)
  PROVE  OpenClaims(n, claim') = OpenClaims(n, claim)
BY OthersRows DEF OpenClaims

\* And so do those that an untouched request counts for it.
LEMMA OthersCount ==
  ASSUME RowsTyped, ClaimsOwned, NEW r \in Request, req[r].phase # "idle",
         NEW n \in Notice, n # req[r].notice, claim' = ClaimsSeenBy(r),
         NEW q \in Request, req'[q] = req[q]
  PROVE  OpenClaims(n, ClaimsSeenBy(q))' = OpenClaims(n, ClaimsSeenBy(q))
<1>1. \A c \in Claim : claim'[c] = claim[c] \/ (claim'[c].notice # n /\ claim[c].notice # n)
  BY OthersRows
<1> DEFINE own == [notice |-> req[q].notice, status |-> req[q].status]
<1>2. WritesClaim(q)' = WritesClaim(q)
  BY DEF WritesClaim
<1>3. \A c \in Claim :
        /\ ClaimsSeenBy(q)[c] = IF c = req[q].claim /\ WritesClaim(q) THEN own ELSE claim[c]
        /\ ClaimsSeenBy(q)'[c] = IF c = req[q].claim /\ WritesClaim(q) THEN own ELSE claim'[c]
  BY <1>2 DEF ClaimsSeenBy
<1> DEFINE old == ClaimsSeenBy(q)
           now == ClaimsSeenBy(q)'
<1> HIDE DEF own, old, now
<1>4. \A c \in Claim : now[c] = old[c] \/ (now[c].notice # n /\ old[c].notice # n)
  BY <1>1, <1>3 DEF old, now
<1>5. OpenClaims(n, now) = OpenClaims(n, old)
  BY <1>4 DEF OpenClaims
<1>6. QED
  BY <1>5 DEF OpenClaims, old, now

-----------------------------------------------------------------------------
(* Undisturbed writes.                                                     *)

\* A step that commits no claim and leaves the columns of its notice alone leaves a
\* write undisturbed, when nothing loads its notice.
LEMMA UndisturbedKept ==
  ASSUME NEW q \in Request, req[q].phase # "idle", Undisturbed(q),
         req'[q] = req[q], UNCHANGED claim,
         \A p \in Request : req'[p].phase # "idle" /\ req'[p].notice = req[q].notice =>
           req[p].phase # "idle" /\ req[p].notice = req[q].notice,
         /\ notice'[req[q].notice].gazette = notice[req[q].notice].gazette
         /\ notice'[req[q].notice].local = notice[req[q].notice].local
         /\ notice'[req[q].notice].deadline = notice[req[q].notice].deadline
         /\ notice'[req[q].notice].safe = notice[req[q].notice].safe
  PROVE  Undisturbed(q)'
<1> DEFINE n == req[q].notice
<1>1. OpenClaims(n, ClaimsSeenBy(q))' = OpenClaims(n, ClaimsSeenBy(q))
  BY DEF ClaimsSeenBy, WritesClaim, OpenClaims
<1>2. Holds(n, req[q].seen)'
  BY DEF Undisturbed, Holds
<1> HIDE DEF n
<1>3. req'[q].phase = "computed" =>
        req'[q].safe = SafeOn(req'[q].deadline, req'[q].day, OpenClaims(n, ClaimsSeenBy(q))')
  BY <1>1 DEF Undisturbed, n
<1>4. \A p \in Request : req'[p].phase # "idle" /\ req'[p].notice = req'[q].notice => p = q
  BY DEF Undisturbed
<1>5. n' = n
  BY DEF n
<1>6. QED
  BY <1>1, <1>2, <1>3, <1>4, <1>5 DEF Undisturbed, n

LEMMA AloneKept ==
  ASSUME AloneIsAlone, UNCHANGED <<claim, alone>>,
         \A q \in Request : req'[q].phase # "idle" => req'[q] = req[q],
         \A q \in Request : req[q].phase # "idle" =>
           /\ notice'[req[q].notice].gazette = notice[req[q].notice].gazette
           /\ notice'[req[q].notice].local = notice[req[q].notice].local
           /\ notice'[req[q].notice].deadline = notice[req[q].notice].deadline
           /\ notice'[req[q].notice].safe = notice[req[q].notice].safe
  PROVE  AloneIsAlone'
<1> SUFFICES ASSUME NEW q \in Request, req'[q].phase # "idle", alone[q]
             PROVE  Undisturbed(q)'
  BY DEF AloneIsAlone
<1>1. req'[q] = req[q] /\ req[q].phase # "idle" /\ Undisturbed(q)
  BY DEF AloneIsAlone
<1>2. \A p \in Request : req'[p].phase # "idle" /\ req'[p].notice = req[q].notice =>
           req[p].phase # "idle" /\ req[p].notice = req[q].notice
  OBVIOUS
<1>3. QED
  BY <1>1, <1>2, UndisturbedKept

LEMMA AloneLoaded ==
  ASSUME RowsTyped, AloneIsAlone, NEW r \in Request, NEW n \in Notice, NEW g, NEW l, NEW c, NEW e, NEW s,
         LoadedTo(r, n, g, l, c, e, s)
  PROVE  AloneIsAlone'
<1>1. /\ UNCHANGED <<notice, claim>> /\ req[r].phase = "idle"
      /\ req'[r].notice = n /\ req'[r].seen = notice[n] /\ req'[r].phase = "loaded"
      /\ \A q \in Request : q # r => req'[q] = req[q]
      /\ \A q \in Request : alone'[q] = (IF q = r THEN InFlight(n) = {}
                                     ELSE alone[q] /\ q \notin InFlight(n))
  BY DEF LoadedTo
<1> SUFFICES ASSUME NEW q \in Request, req'[q].phase # "idle", alone'[q]
             PROVE  Undisturbed(q)'
  BY DEF AloneIsAlone
<1>2. CASE q = r
  <2>1. InFlight(n) = {}
    BY <1>1, <1>2
  <2>2. \A p \in Request : req'[p].phase # "idle" /\ req'[p].notice = n => p = r
    BY <1>1, <2>1 DEF InFlight
  <2>3. Holds(n, req[r].seen)'
    BY <1>1 DEF Holds
  <2>4. QED
    BY <1>1, <1>2, <2>2, <2>3 DEF Undisturbed, Holds
<1>3. CASE q # r
  <2>1. alone[q] /\ q \notin InFlight(n) /\ req'[q] = req[q]
    BY <1>1, <1>3
  <2>2. req[q].notice # n /\ req[q].phase # "idle" /\ Undisturbed(q)
    BY <2>1 DEF InFlight, AloneIsAlone
  <2>3. \A p \in Request : req'[p].phase # "idle" /\ req'[p].notice = req[q].notice =>
           req[p].phase # "idle" /\ req[p].notice = req[q].notice
    BY <1>1, <2>2
  <2>4. QED
    BY <1>1, <2>1, <2>2, <2>3, UndisturbedKept
<1>4. QED
  BY <1>2, <1>3

LEMMA AloneComputed ==
  ASSUME RowsTyped, AloneIsAlone, NEW r \in Request, ComputedBy(r)
  PROVE  AloneIsAlone'
<1>1. /\ UNCHANGED <<notice, claim, alone>> /\ req[r].phase = "loaded"
      /\ req'[r].notice = req[r].notice /\ req'[r].seen = req[r].seen
      /\ req'[r].claim = req[r].claim /\ req'[r].seenStatus = req[r].seenStatus
      /\ req'[r].status = req[r].status
      /\ \A q \in Request : q # r => req'[q] = req[q]
  BY DEF ComputedBy
<1> SUFFICES ASSUME NEW q \in Request, req'[q].phase # "idle", alone[q]
             PROVE  Undisturbed(q)'
  BY <1>1 DEF AloneIsAlone
<1>2. req[q].phase # "idle" /\ Undisturbed(q)
  BY <1>1 DEF AloneIsAlone
<1>3. \A p \in Request : req'[p].phase # "idle" /\ req'[p].notice = req[q].notice =>
           req[p].phase # "idle" /\ req[p].notice = req[q].notice
  BY <1>1
<1>4. CASE q = r
  <2> DEFINE n == req[r].notice
             N == OpenClaims(n, ClaimsSeenBy(r))
  <2>1. req'[r].safe = SafeOn(req'[r].deadline, req'[r].day, N)
    BY DEF ComputedBy, CountedClaims
  <2>2. OpenClaims(n, ClaimsSeenBy(r))' = N
    BY <1>1 DEF ClaimsSeenBy, WritesClaim, OpenClaims
  <2>3. Holds(n, req[r].seen)' /\ n' = n
    BY <1>1, <1>2, <1>4 DEF Undisturbed, Holds
  <2>4. \A p \in Request : req'[p].phase # "idle" /\ req'[p].notice = n => p = r
    BY <1>2, <1>3, <1>4 DEF Undisturbed
  <2> HIDE DEF N
  <2>5. QED
    BY <1>1, <1>4, <2>1, <2>2, <2>3, <2>4 DEF Undisturbed
<1>5. CASE q # r
  BY <1>1, <1>2, <1>3, <1>5, UndisturbedKept
<1>6. QED
  BY <1>4, <1>5

LEMMA AloneCommitted ==
  ASSUME RowsTyped, ClaimsOwned, AloneIsAlone, NEW r \in Request, CommittedBy(r)
  PROVE  AloneIsAlone'
<1>1. /\ req[r].phase # "idle" /\ req'[r].phase = "idle" /\ UNCHANGED alone
      /\ \A q \in Request : q # r => req'[q] = req[q]
      /\ \A m \in Notice : m # req[r].notice => notice'[m] = notice[m]
      /\ claim' = ClaimsSeenBy(r)
  BY NullIs DEF CommittedBy
<1> SUFFICES ASSUME NEW q \in Request, req'[q].phase # "idle", alone[q]
             PROVE  Undisturbed(q)'
  BY <1>1 DEF AloneIsAlone
<1>2. q # r /\ req'[q] = req[q] /\ Undisturbed(q) /\ req[q].notice \in Notice
  BY <1>1 DEF AloneIsAlone, RowsTyped, WriteTyped
<1> PICK n \in Notice : n = req[q].notice
  BY <1>2
<1>3. n # req[r].notice /\ req[r].phase # "idle" /\ claim' = ClaimsSeenBy(r)
  BY <1>1, <1>2 DEF Undisturbed
<1>4. OpenClaims(n, ClaimsSeenBy(q))' = OpenClaims(n, ClaimsSeenBy(q))
  BY <1>2, <1>3, OthersCount
<1>5. Holds(n, req[q].seen)'
  BY <1>1, <1>2, <1>3 DEF Undisturbed, Holds
<1>6. \A p \in Request : req'[p].phase # "idle" /\ req'[p].notice = n => p = q
  BY <1>1, <1>2 DEF Undisturbed
<1>7. req'[q].phase = "computed" =>
        req'[q].safe = SafeOn(req'[q].deadline, req'[q].day, OpenClaims(n, ClaimsSeenBy(q))')
  BY <1>2, <1>4 DEF Undisturbed
<1>8. QED
  BY <1>2, <1>5, <1>6, <1>7 DEF Undisturbed

LEMMA NextAlone ==
  ASSUME RowsTyped, ClaimsOwned, AloneIsAlone, [NoticeNext]_noticeVars
  PROVE  AloneIsAlone'
<1>1. ASSUME UNCHANGED <<claim, alone, notice>>,
             \A q \in Request : req'[q].phase # "idle" => req'[q] = req[q]
      PROVE  AloneIsAlone'
  BY <1>1, AloneKept
<1>2. ASSUME NextDay \/ UNCHANGED noticeVars
      PROVE  AloneIsAlone'
  <2>1. UNCHANGED <<claim, alone, notice, req>>
    BY <1>2 DEF NextDay, noticeVars
  <2>2. QED
    BY <1>1, <2>1
<1>3. ASSUME NEW n \in Notice, NEW g \in Date, NEW l \in Date, CreateNotice(n, g, l)
      PROVE  AloneIsAlone'
  <2>1. /\ notice[n].state = "absent" /\ UNCHANGED <<claim, alone, req>>
        /\ \A m \in Notice : m # n => notice'[m] = notice[m]
    BY <1>3 DEF CreateNotice, RowsTyped
  <2>2. \A q \in Request : req[q].phase # "idle" =>
          req[q].notice \in Notice /\ req[q].notice # n
    BY <2>1 DEF RowsTyped, WriteTyped
  <2>3. QED
    BY <2>1, <2>2, AloneKept
<1>4. ASSUME NEW n \in Notice, ArchiveNotice(n)
      PROVE  AloneIsAlone'
  <2> DEFINE old == notice[n]
             after == [old EXCEPT !.state = "archived"]
  <2>1. old \in NoticeRow
    BY DEF RowsTyped
  <2>2. notice' = [notice EXCEPT ![n] = after] /\ UNCHANGED <<claim, alone, req>>
    BY <1>4 DEF ArchiveNotice
  <2> HIDE DEF old
  <2>3. /\ after.gazette = old.gazette /\ after.local = old.local
        /\ after.deadline = old.deadline /\ after.safe = old.safe
    BY <2>1 DEF NoticeRow
  <2> HIDE DEF after
  <2>4. \A m \in Notice : /\ notice'[m].gazette = notice[m].gazette
                          /\ notice'[m].local = notice[m].local
                          /\ notice'[m].deadline = notice[m].deadline
                          /\ notice'[m].safe = notice[m].safe
    BY <2>2, <2>3 DEF RowsTyped, old
  <2>5. \A q \in Request : req[q].phase # "idle" => req[q].notice \in Notice
    BY DEF RowsTyped, WriteTyped
  <2>6. QED
    BY <2>2, <2>4, <2>5, AloneKept
<1>5. ASSUME NEW r \in Request, NEW n \in Notice, NEW g \in Date, NEW l \in Date,
             UpdateNotice(r, n, g, l)
      PROVE  AloneIsAlone'
  BY <1>5, LoadCases, AloneLoaded
<1>6. ASSUME NEW r \in Request, NEW n \in Notice, NEW c \in Claim, NEW s \in ClaimStatus,
             AddClaim(r, n, c, s)
      PROVE  AloneIsAlone'
  BY <1>6, LoadCases, AloneLoaded
<1>7. ASSUME NEW r \in Request, NEW c \in Claim, NEW s \in ClaimStatus, UpdateClaim(r, c, s)
      PROVE  AloneIsAlone'
  BY <1>7, LoadCases, AloneLoaded
<1>8. ASSUME NEW r \in Request, Compute(r)
      PROVE  AloneIsAlone'
  BY <1>8, Computes, AloneComputed
<1>9. ASSUME NEW r \in Request, Commit(r)
      PROVE  AloneIsAlone'
  BY <1>9, Commits, AloneCommitted
<1>10. ASSUME NEW r \in Request, Rollback(r)
       PROVE  AloneIsAlone'
  <2>1. req' = [req EXCEPT ![r] = Idle] /\ UNCHANGED <<claim, alone, notice>>
    BY <1>10 DEF Rollback
  <2>2. \A q \in Request : req'[q].phase # "idle" => req'[q] = req[q]
    BY <2>1, NullIs DEF RowsTyped
  <2>3. QED
    BY <1>1, <2>1, <2>2
<1>11. QED
  BY <1>2, <1>3, <1>4, <1>5, <1>6, <1>7, <1>8, <1>9, <1>10 DEF NoticeNext

-----------------------------------------------------------------------------
(* The derived columns.                                                    *)

LEMMA ExactIs == DerivedColumnsExact <=> \A n \in Notice : ~muddled[n] => Exact(n)
  BY DEF DerivedColumnsExact, Exact

LEMMA ExactCommitted ==
  ASSUME RowsTyped, ClaimsOwned, AloneIsAlone, DerivedColumnsExact,
         NEW r \in Request, CommittedBy(r)
  PROVE  DerivedColumnsExact'
<1>1. /\ req[r].phase = "computed" /\ req[r].notice \in Notice /\ claim' = ClaimsSeenBy(r)
  BY DEF CommittedBy
<1> SUFFICES ASSUME NEW n \in Notice, ~muddled'[n] PROVE Exact(n)'
  BY DEF DerivedColumnsExact, Exact
<1>2. CASE n = req[r].notice
  <2> DEFINE q == req[r]
  <2>1. alone[r]
    BY <1>2 DEF CommittedBy
  <2>2. Undisturbed(r) /\ WriteTyped(q)
    BY <1>1, <2>1 DEF AloneIsAlone, RowsTyped
  <2>3. /\ notice'[n].gazette = q.gazette /\ notice'[n].local = q.local
        /\ notice'[n].deadline = q.deadline /\ notice'[n].safe = q.safe
    BY <1>2, <2>2 DEF CommittedBy, Undisturbed, Holds, Column
  <2>4. q.deadline = DeriveDeadline(q.gazette, q.local)
    BY <1>1, <2>2 DEF WriteTyped
  <2>5. q.safe = SafeOn(q.deadline, q.day, OpenClaims(n, ClaimsSeenBy(r)))
    BY <1>1, <1>2, <2>2 DEF Undisturbed
  <2>6. checkedOn'[n] = q.day
    BY <1>2 DEF CommittedBy
  <2> HIDE DEF q
  <2>7. DeriveDeadline(notice[n].gazette, notice[n].local)' = DeriveDeadline(q.gazette, q.local)
    BY <2>3 DEF DeriveDeadline, LaterDate
  <2>8. OpenClaims(n, claim)' = OpenClaims(n, ClaimsSeenBy(r))
    BY <1>1 DEF OpenClaims
  <2>9. SafeOn(notice[n].deadline, checkedOn[n], OpenClaims(n, claim))'
          = SafeOn(q.deadline, q.day, OpenClaims(n, ClaimsSeenBy(r)))
    BY <2>3, <2>6, <2>8 DEF SafeOn
  <2>10. QED
    BY <2>3, <2>4, <2>5, <2>7, <2>9 DEF Exact
<1>3. CASE n # req[r].notice
  <2>1. notice'[n] = notice[n] /\ ~muddled[n] /\ checkedOn'[n] = checkedOn[n]
    BY <1>3 DEF CommittedBy
  <2>2. OpenClaims(n, claim') = OpenClaims(n, claim)
    BY <1>1, <1>3, OthersClaims
  <2>3. OpenClaims(n, claim)' = OpenClaims(n, claim)
    BY <2>2 DEF OpenClaims
  <2>4. Exact(n)
    BY <2>1, ExactIs
  <2>5. DeriveDeadline(notice[n].gazette, notice[n].local)'
          = DeriveDeadline(notice[n].gazette, notice[n].local)
    BY <2>1 DEF DeriveDeadline, LaterDate
  <2>6. SafeOn(notice[n].deadline, checkedOn[n], OpenClaims(n, claim))'
          = SafeOn(notice[n].deadline, checkedOn[n], OpenClaims(n, claim))
    BY <2>1, <2>3 DEF SafeOn
  <2>7. QED
    BY <2>1, <2>4, <2>5, <2>6 DEF Exact
<1>4. QED
  BY <1>2, <1>3

LEMMA NextExact ==
  ASSUME RowsTyped, ClaimsOwned, AloneIsAlone, DerivedColumnsExact, [NoticeNext]_noticeVars
  PROVE  DerivedColumnsExact'
<1>1. ASSUME NEW n \in Notice, UNCHANGED <<claim>>, Exact(n),
             notice'[n].gazette = notice[n].gazette, notice'[n].local = notice[n].local,
             notice'[n].deadline = notice[n].deadline, notice'[n].safe = notice[n].safe,
             checkedOn'[n] = checkedOn[n]
      PROVE  Exact(n)'
  <2>1. DeriveDeadline(notice[n].gazette, notice[n].local)'
          = DeriveDeadline(notice[n].gazette, notice[n].local)
    BY <1>1 DEF DeriveDeadline, LaterDate
  <2>2. SafeOn(notice[n].deadline, checkedOn[n], OpenClaims(n, claim))'
          = SafeOn(notice[n].deadline, checkedOn[n], OpenClaims(n, claim))
    BY <1>1 DEF SafeOn, OpenClaims
  <2>3. QED
    BY <1>1, <2>1, <2>2 DEF Exact
<1>2. ASSUME UNCHANGED <<notice, claim, muddled, checkedOn>>
      PROVE  DerivedColumnsExact'
  BY <1>2 DEF DerivedColumnsExact, SafeOn, OpenClaims, DeriveDeadline, LaterDate
<1>3. ASSUME NEW n \in Notice, NEW g \in Date, NEW l \in Date, CreateNotice(n, g, l)
      PROVE  DerivedColumnsExact'
  <2> DEFINE safe == SafeOn(DeriveDeadline(g, l), today, {})
             d == DeriveDeadline(g, l)
             after == [state |-> "live", gazette |-> g, local |-> l, deadline |-> d, safe |-> safe]
  <2>1. /\ notice[n].state = "absent"
        /\ notice' = [notice EXCEPT ![n] = after] /\ checkedOn' = [checkedOn EXCEPT ![n] = today]
        /\ UNCHANGED <<claim, muddled>>
    BY <1>3 DEF CreateNotice
  <2>2. /\ after.gazette = g /\ after.local = l /\ after.deadline = d /\ after.safe = safe
    OBVIOUS
  <2> HIDE DEF after
  <2>3. /\ notice'[n] = after /\ \A m \in Notice : m # n => notice'[m] = notice[m]
        /\ checkedOn'[n] = today /\ \A m \in Notice : m # n => checkedOn'[m] = checkedOn[m]
    BY <2>1 DEF RowsTyped
  <2> SUFFICES ASSUME NEW m \in Notice, ~muddled'[m] PROVE Exact(m)'
    BY DEF DerivedColumnsExact, Exact
  <2>4. CASE m = n
    <3>1. OpenClaims(n, claim)' = {}
      <4>1. ASSUME NEW c \in Claim PROVE claim[c].notice # n
        <5>1. ClaimTyped(claim[c])
          BY DEF RowsTyped
        <5>2. QED
          BY <2>1, <5>1, NullIs DEF ClaimTyped
      <4>2. QED
        BY <2>1, <4>1 DEF OpenClaims
    <3>2. DeriveDeadline(notice[n].gazette, notice[n].local)' = d
      BY <2>2, <2>3 DEF DeriveDeadline, LaterDate
    <3>3. SafeOn(notice[n].deadline, checkedOn[n], OpenClaims(n, claim))' = safe
      <4>1. notice'[n].deadline = d /\ checkedOn'[n] = today
        BY <2>2, <2>3
      <4> HIDE DEF d
      <4>2. QED
        BY <3>1, <4>1 DEF SafeOn, d
    <3> HIDE DEF d, safe
    <3>4. notice'[n].deadline = d /\ notice'[n].safe = safe
      BY <2>2, <2>3
    <3>5. QED
      BY <2>4, <3>2, <3>3, <3>4 DEF Exact
  <2>5. CASE m # n
    <3>1. Exact(m) /\ notice'[m] = notice[m] /\ checkedOn'[m] = checkedOn[m]
      BY <2>1, <2>3, <2>5, ExactIs
    <3>2. QED
      BY <1>1, <2>1, <3>1
  <2>6. QED
    BY <2>4, <2>5
<1>4. ASSUME NEW n \in Notice, ArchiveNotice(n)
      PROVE  DerivedColumnsExact'
  <2> DEFINE old == notice[n]
             after == [old EXCEPT !.state = "archived"]
  <2>1. old \in NoticeRow
    BY DEF RowsTyped
  <2>2. notice' = [notice EXCEPT ![n] = after] /\ UNCHANGED <<claim, muddled, checkedOn>>
    BY <1>4 DEF ArchiveNotice
  <2> HIDE DEF old
  <2>3. /\ after.gazette = old.gazette /\ after.local = old.local
        /\ after.deadline = old.deadline /\ after.safe = old.safe
    BY <2>1 DEF NoticeRow
  <2> HIDE DEF after
  <2>4. \A m \in Notice : /\ notice'[m].gazette = notice[m].gazette
                          /\ notice'[m].local = notice[m].local
                          /\ notice'[m].deadline = notice[m].deadline
                          /\ notice'[m].safe = notice[m].safe
    BY <2>2, <2>3 DEF RowsTyped, old
  <2> SUFFICES ASSUME NEW m \in Notice, ~muddled'[m] PROVE Exact(m)'
    BY DEF DerivedColumnsExact, Exact
  <2>5. Exact(m)
    BY <2>2, ExactIs
  <2>6. QED
    BY <1>1, <2>2, <2>4, <2>5
<1>5. ASSUME NextDay \/ UNCHANGED noticeVars
      PROVE  UNCHANGED <<notice, claim, muddled, checkedOn>>
  BY <1>5 DEF NextDay, noticeVars
<1>8. ASSUME NEW r \in Request, NEW n, NEW g, NEW l, NEW c, NEW seen, NEW s, Load(r, n, g, l, c, seen, s)
      PROVE  UNCHANGED <<notice, claim, muddled, checkedOn>>
  BY <1>8 DEF Load
<1>9. ASSUME NEW r \in Request,
             \/ \E n \in Notice, g, l \in Date : UpdateNotice(r, n, g, l)
             \/ \E n \in Notice, c \in Claim, s \in ClaimStatus : AddClaim(r, n, c, s)
             \/ \E c \in Claim, s \in ClaimStatus : UpdateClaim(r, c, s)
      PROVE  UNCHANGED <<notice, claim, muddled, checkedOn>>
  <2>1. CASE \E n \in Notice, g, l \in Date : UpdateNotice(r, n, g, l)
    BY <1>8, <2>1 DEF UpdateNotice
  <2>2. CASE \E n \in Notice, c \in Claim, s \in ClaimStatus : AddClaim(r, n, c, s)
    BY <1>8, <2>2 DEF AddClaim
  <2>3. CASE \E c \in Claim, s \in ClaimStatus : UpdateClaim(r, c, s)
    BY <1>8, <2>3 DEF UpdateClaim
  <2>4. QED
    BY <1>9, <2>1, <2>2, <2>3
<1>10. ASSUME NEW r \in Request, Compute(r) \/ Rollback(r)
       PROVE  UNCHANGED <<notice, claim, muddled, checkedOn>>
  <2>1. CASE Compute(r)
    BY <2>1 DEF Compute
  <2>2. CASE Rollback(r)
    BY <2>2 DEF Rollback
  <2>3. QED
    BY <1>10, <2>1, <2>2
<1>6. ASSUME NEW r \in Request, Commit(r)
      PROVE  DerivedColumnsExact'
  BY <1>6, Commits, ExactCommitted
<1>7. QED
  BY <1>2, <1>3, <1>4, <1>5, <1>6, <1>9, <1>10 DEF NoticeNext

\* The stored flag of a notice is exact, and the days since do not make it bolder.
LEMMA GuardAgrees ==
  ASSUME RowsTyped, DerivedColumnsExact
  PROVE  StoredNeverBolderThanGuard
<1> SUFFICES ASSUME \A n \in ActiveNotices : notice[n].safe /\ ~muddled[n],
                    NEW n \in ActiveNotices
             PROVE  SafeOn(DeriveDeadline(notice[n].gazette, notice[n].local), today, OpenClaims(n, claim))
  BY DEF StoredNeverBolderThanGuard, SafeToDistribute
<1>1. n \in Notice /\ Exact(n) /\ notice[n].safe
  BY ExactIs DEF ActiveNotices
<1>2. SafeOn(notice[n].deadline, checkedOn[n], OpenClaims(n, claim))
  BY <1>1 DEF Exact
<1>3. notice[n].deadline \in Nat \cup {Null} /\ checkedOn[n] \in Nat /\ checkedOn[n] <= today /\ today \in Nat
  BY <1>1 DEF RowsTyped, NoticeRow
<1>4. SafeOn(notice[n].deadline, today, OpenClaims(n, claim))
  BY <1>2, <1>3 DEF SafeOn
<1>5. QED
  BY <1>1, <1>4 DEF Exact

NoticeInvariant == RowsTyped /\ ClaimsOwned /\ AloneIsAlone /\ DerivedColumnsExact

LEMMA NoticesInvariant == NoticeSpec => []NoticeInvariant
<1>1. NoticeInit => NoticeInvariant
  BY InitRows DEF NoticeInvariant
<1>2. NoticeInvariant /\ [NoticeNext]_noticeVars => NoticeInvariant'
  BY NextTypedRows, NextOwned, NextAlone, NextExact DEF NoticeInvariant
<1>3. QED
  BY <1>1, <1>2, PTL DEF NoticeSpec

\* Notices, claims and requests keep their columns: every claim has its notice, and no
\* flag was computed on a day still to come (api/creditor_notices.py).
THEOREM NoticeTypeCorrect == NoticeSpec => []RowsTyped
<1>1. NoticeInvariant => RowsTyped
  BY DEF NoticeInvariant
<1>2. QED
  BY <1>1, NoticesInvariant, PTL

\* After a write that had its notice to itself, and until the next one, the stored
\* deadline and flag are exact, however many notices, claims and requests there are and
\* whatever overlapping writes had left before (_recompute_derived).
THEOREM StoredColumnsExact == NoticeSpec => []DerivedColumnsExact
<1>1. NoticeInvariant => DerivedColumnsExact
  BY DEF NoticeInvariant
<1>2. QED
  BY <1>1, NoticesInvariant, PTL

\* Whoever reads the stored flags of the active notices is never bolder than the guard,
\* which asks again (safe_to_distribute).
THEOREM StoredFlagsAreCautious == NoticeSpec => []StoredNeverBolderThanGuard
<1>1. NoticeInvariant => StoredNeverBolderThanGuard
  BY GuardAgrees DEF NoticeInvariant
<1>2. QED
  BY <1>1, NoticesInvariant, PTL
==============================================================================
