------------------------------ MODULE TaskBoard ------------------------------
(***************************************************************************)
(* The task board: the task router (api/tasks.py), the process-step        *)
(* mirror (services/process_sync.py, api/process.py) and the suggestion    *)
(* batches an approved agent draft materialises (api/agent_drafts.py).     *)
(*                                                                         *)
(* A task keeps two dependency lists, blocked_by and blocks, that are two  *)
(* columns nobody keeps symmetric, a free-text status, and an optional     *)
(* link to the timeline step it was seeded for.                            *)
(*                                                                         *)
(* The lists hold task ids as text, as the client spelt them: a UUID can   *)
(* be written in capitals, in braces or without dashes.  Some readers      *)
(* parse an entry, so that every spelling names the task, and some compare *)
(* the text, so that only the spelling str() gives does.                   *)
(*                                                                         *)
(* Requests overlap.  A handler awaits at every statement, a statement     *)
(* reads what is committed when it runs, and an UPDATE writes the columns  *)
(* that differ from what its request loaded and holds the row until the    *)
(* request ends.                                                           *)
(***************************************************************************)
EXTENDS Naturals

CONSTANTS
  Task,        \* task identifiers; unused ones are rows not yet created
  Step,        \* timeline steps, all created by the checklist seeding
  NoStep,      \* process_step_id is null
  Call,        \* requests that may overlap
  Spelling,    \* the ways to write a UUID
  Canon,       \* the one str() writes
  Sends,       \* the task statuses clients send (a free-text column)
  Posts,       \* the bodies of POST /tasks considered
  Patches,     \* the bodies of PATCH /tasks/{id} considered
  Seeded,      \* tasks the Section 25 checklist creates
  SeedLink,    \* the step each seeded task is linked to
  SeedDeps,    \* depends_on of the checklist entry behind each seeded task
  MaxBatch,    \* bound: suggestions accepted from one draft
  MaxWrites    \* bound: requests that commit

StepStatus == {"not_started", "in_progress", "blocked", "done"}

\* An entry of a dependency list: a task, as somebody spelt its id.
Ref == Task \X Spelling
Id(t) == <<t, Canon>>

\* The tasks a list names, whatever their spelling (uuid.UUID).
Named(B) == {r[1] : r \in B}

\* A set of tasks every member of which waits for another member.
WaitsOnItself(S, deps) == \A x \in S : \E y \in S : y \in deps[x]

Acyclic(T, deps) == \A S \in SUBSET T : WaitsOnItself(S, deps) => S = {}

\* Every status a task can get: those sent and those the system writes itself.
Status == Sends \cup {"todo"} \cup StepStatus

\* The columns of a task that requests load and write.
Columns == [status : Status, blocked_by : SUBSET Ref, blocks : SUBSET Ref,
            process_step_id : Step \cup {NoStep}]

Fields == {"status", "blocked_by", "blocks", "process_step_id"}

\* What a PATCH with body c asks for, of a task loaded as w: the fields the body does not
\* carry keep the value loaded.
Overlay(c, w) ==
  LET Value(f) == IF f \in DOMAIN c THEN c[f] ELSE w[f] IN
  [status |-> Value("status"), blocked_by |-> Value("blocked_by"),
   blocks |-> Value("blocks"), process_step_id |-> Value("process_step_id")]

ASSUME BoardAssumption ==
  /\ Seeded \subseteq Task
  /\ NoStep \notin Step
  /\ Canon \in Spelling
  /\ Posts \subseteq Columns
  /\ \A c \in Patches : /\ DOMAIN c \in (SUBSET Fields) \ {{}}
                        /\ \A w \in Columns : Overlay(c, w) \in Columns
  /\ SeedLink \in [Seeded -> Step]
  /\ SeedDeps \in [Seeded -> SUBSET Seeded]
  /\ Acyclic(Seeded, SeedDeps)
  /\ MaxBatch \in Nat /\ MaxWrites \in Nat

VARIABLES
  row,         \* "absent", "live" or "archived"
  status,      \* Task.status
  blockedBy,   \* Task.blocked_by
  blocks,      \* Task.blocks
  link,        \* Task.process_step_id
  stepStatus,  \* ProcessStep.status
  call,         \* the requests in flight
  writes,      \* commits so far
  missed,      \* history: what others committed during the flight of a request
  doubtful     \* history: tasks whose blocked_by was last written over such a commit

board == <<row, status, blockedBy, blocks, link, stepStatus>>
vars == <<row, status, blockedBy, blocks, link, stepStatus, call, writes, missed, doubtful>>

Live == {t \in Task : row[t] = "live"}
Existing == {t \in Task : row[t] # "absent"}

\* str.lower() on a status: "Done" is the one cased spelling of the model.
Lower(s) == IF s = "Done" THEN "done" ELSE s

-----------------------------------------------------------------------------
(* Requests.                                                               *)

ColumnsOf(t) == [status |-> status[t], blocked_by |-> blockedBy[t],
                 blocks |-> blocks[t], process_step_id |-> link[t]]

NoCall == [kind |-> "none"]

\* at is where the handler stands: what it does next, or "sync" once its task row is
\* flushed and the step read, and "commit" when only the step's row and the commit are
\* left.
CreateRequest == [kind : {"create"}, at : {"references", "walk", "done rule", "write"},
                  task : Task, asks : Columns]

PatchRequest ==
  [kind : {"patch"}, at : {"references", "walk", "done rule", "write", "sync", "commit"},
   task : Task, set : SUBSET Fields, asks : Columns, was : Columns,
   stepWas : StepStatus, stepTo : StepStatus]

StepRequest == [kind : {"step"}, at : {"write", "commit"}, step : Step,
                asks : StepStatus, was : StepStatus, tasks : SUBSET Task]

\* A flushed row is held until its request ends.
TaskHeld(t, by) ==
  \E r \in by : call[r].kind = "patch" /\ call[r].task = t /\ call[r].at \in {"sync", "commit"}

StepHeld(s, by) ==
  \E r \in by : call[r].kind = "step" /\ call[r].step = s /\ call[r].at = "commit"

Others(r) == Call \ {r}

\* A column goes into the UPDATE when it differs from what was loaded.
Written(asked, was, current) == IF asked # was THEN asked ELSE current

-----------------------------------------------------------------------------
(* The dependency check, _validate_dependencies.                           *)

\* The references a request names must be live tasks, and not the task itself.  The
\* entries are parsed first.
ValidReferences(t, B, K) ==
  LET named == Named(B) \cup Named(K) IN t \notin named /\ named \subseteq Live

(***************************************************************************)
(* The graph walked when task t asks for blocked_by B and blocks K.  Its   *)
(* nodes are texts.  The stored lists of the other live tasks enter as     *)
(* they are spelt, under the tasks' own ids; a stored blocks entry makes   *)
(* a node of its text, unless it is exactly t's id; t's candidate lists    *)
(* enter parsed.                                                           *)
(***************************************************************************)
WalkedGraph(t, B, K) ==
  [x \in Ref |->
     IF x = Id(t) THEN {Id(y) : y \in Named(B)}
     ELSE UNION {blockedBy[y] : y \in {z \in Live \ {t} : x = Id(z)}}
            \cup {Id(y) : y \in {z \in Live \ {t} : x \in blocks[z]}}
            \cup {Id(t) : y \in {z \in Named(K) : x = Id(z)}}]

\* Faulty variant: the walk never follows a dependency of a dependency.
ReachedOneHop(t, deps) == deps[Id(t)]

(***************************************************************************)
(* What the walk from t has seen when its stack is empty: the least set    *)
(* that holds t's dependencies and is closed under the graph.              *)
(***************************************************************************)
Reached(t, deps) ==
  {x \in Ref : \A C \in SUBSET Ref :
     (deps[Id(t)] \subseteq C /\ \A y \in C : deps[y] \subseteq C) => x \in C}

NoCycle(t, B, K) == Id(t) \notin Reached(t, WalkedGraph(t, B, K))

\* Faulty variant: an archived blocker still counts as open.
OpenBlockersArchived(B) == {b \in Named(B) : status[b] # "done"}

\* _open_blockers: the entries are parsed, archived blockers do not count.
OpenBlockers(B) == {b \in Named(B) : row[b] = "live" /\ status[b] # "done"}

\* Faulty variant: only blockers nobody has started hold a task back.
DoneGuardStarted(B) == \A b \in Named(B) : row[b] = "live" => status[b] # "todo"

\* _reject_done_if_blocked
DoneGuard(B) == OpenBlockers(B) = {}

-----------------------------------------------------------------------------
(* process_sync.py *)

\* _live_linked_tasks, with links lk.
Linked(s, lk) == {t \in Task : row[t] = "live" /\ lk[t] = s}

\* Faulty variant: a step nobody has started gets the tasks' word for it.
StepFromTasksWord(T, st) ==
  IF \A t \in T : Lower(st[t]) = "done" THEN "done"
  ELSE IF \E t \in T : Lower(st[t]) \in {"done", "in_progress", "blocked"}
       THEN "in_progress"
       ELSE "todo"

\* The status a step takes from its live linked tasks T.
StepFromTasks(T, st) ==
  IF \A t \in T : Lower(st[t]) = "done" THEN "done"
  ELSE IF \E t \in T : Lower(st[t]) \in {"done", "in_progress", "blocked"}
       THEN "in_progress"
       ELSE "not_started"

\* Faulty variant: a step that is done is left alone.
SyncStepSticky(s, was, st, lk) ==
  LET T == Linked(s, lk) IN IF T = {} \/ was = "done" THEN was ELSE StepFromTasks(T, st)

\* sync_step_from_tasks, for a step read as was: the status it is to have.
SyncStepFromTasks(s, was, st, lk) ==
  LET T == Linked(s, lk) IN IF T = {} THEN was ELSE StepFromTasks(T, st)

\* _STEP_TO_TASK_STATUS
TaskFromStep(v) == IF v = "not_started" THEN "todo" ELSE v

\* sync_tasks_from_step: a task already there keeps its own spelling.
TasksToMove(s, v) == {t \in Linked(s, link) : Lower(status[t]) # TaskFromStep(v)}

-----------------------------------------------------------------------------
NothingMissed == [steps |-> {}, lists |-> FALSE, reopened |-> FALSE]

Init ==
  /\ row = [t \in Task |-> IF t \in Seeded THEN "live" ELSE "absent"]
  /\ status = [t \in Task |-> "todo"]
  /\ blockedBy = [t \in Task |-> IF t \in Seeded THEN {Id(u) : u \in SeedDeps[t]} ELSE {}]
  /\ blocks = [t \in Task |-> {Id(u) : u \in {v \in Seeded : t \in SeedDeps[v]}}]
  /\ link = [t \in Task |-> IF t \in Seeded THEN SeedLink[t] ELSE NoStep]
  /\ stepStatus = [s \in Step |-> "not_started"]
  /\ call = [r \in Call |-> NoCall]
  /\ writes = 0
  /\ missed = [r \in Call |-> NothingMissed]
  /\ doubtful = {}

\* What the requests in flight miss of a commit by the requests in by: the steps it
\* disturbs, a blocked_by list it rewrites, a task it reopens.
Overtakes(by) ==
  missed' = [r \in Call |->
    IF r \in by \/ call[r] = NoCall THEN NothingMissed
    ELSE [steps |-> missed[r].steps \cup
                    {s \in Step : \/ stepStatus'[s] # stepStatus[s]
                                  \/ Linked(s, link)' # Linked(s, link)
                                  \/ \E t \in Linked(s, link) : status'[t] # status[t]},
          lists |-> \/ missed[r].lists
                    \/ \E t \in Existing : blockedBy'[t] # blockedBy[t],
          reopened |-> \/ missed[r].reopened
                       \/ \E t \in Existing : status[t] = "done" /\ status'[t] # "done"]]

\* A request ends with a commit.
Ends(r) ==
  /\ writes < MaxWrites
  /\ writes' = writes + 1
  /\ call' = [call EXCEPT ![r] = NoCall]
  /\ Overtakes({r})

\* A request goes on to its next await.
Reaches(r, place) ==
  /\ call' = [call EXCEPT ![r].at = place]
  /\ UNCHANGED <<board, writes, missed, doubtful>>

Starts(r, q) ==
  /\ call[r] = NoCall
  /\ writes < MaxWrites
  /\ call' = [call EXCEPT ![r] = q]
  /\ UNCHANGED <<board, writes, missed, doubtful>>

AfterLists(sets_status, s) ==
  IF sets_status /\ s = "done" THEN "done rule" ELSE "write"

-----------------------------------------------------------------------------
(* The task routes.                                                        *)

\* POST /tasks: the id is fresh.
StartCreate(r, t, a) ==
  /\ row[t] = "absent"
  /\ \A p \in Call : call[p].kind = "create" => call[p].task # t
  /\ Starts(r, [kind |-> "create", at |-> "references", task |-> t, asks |-> a])

\* PATCH /tasks/{id} loads the row, archived or not.  The lists are checked when one of
\* them is sent, the done rule when the status sent is done.
LoadTask(r, t, c) ==
  LET set == DOMAIN c  a == Overlay(c, ColumnsOf(t)) IN
  /\ row[t] # "absent"
  /\ Starts(r, [kind |-> "patch",
                at |-> IF set \cap {"blocked_by", "blocks"} # {} THEN "references"
                       ELSE AfterLists("status" \in set, a.status),
                task |-> t, set |-> set, asks |-> a, was |-> ColumnsOf(t),
                stepWas |-> "not_started", stepTo |-> "not_started"])

\* The first read of the check.  A list that names nobody ends the check here, and so
\* does no harm in the walk.
CheckReferences(r) ==
  /\ call[r].kind \in {"create", "patch"} /\ call[r].at = "references"
  /\ ValidReferences(call[r].task, call[r].asks.blocked_by, call[r].asks.blocks)
  /\ Reaches(r, "walk")

\* The second read of the check, and the walk.
CheckCycle(r) ==
  /\ call[r].kind \in {"create", "patch"} /\ call[r].at = "walk"
  /\ NoCycle(call[r].task, call[r].asks.blocked_by, call[r].asks.blocks)
  /\ Reaches(r, AfterLists(call[r].kind = "create" \/ "status" \in call[r].set,
                           call[r].asks.status))

CheckDoneRule(r) ==
  /\ call[r].kind \in {"create", "patch"} /\ call[r].at = "done rule"
  /\ DoneGuard(call[r].asks.blocked_by)
  /\ Reaches(r, "write")

\* The insert and the commit.  A create does not call the step mirror.
CommitCreate(r) ==
  LET t == call[r].task  a == call[r].asks IN
  /\ call[r].kind = "create" /\ call[r].at = "write"
  /\ row' = [row EXCEPT ![t] = "live"]
  /\ status' = [status EXCEPT ![t] = a.status]
  /\ blockedBy' = [blockedBy EXCEPT ![t] = a.blocked_by]
  /\ blocks' = [blocks EXCEPT ![t] = a.blocks]
  /\ link' = [link EXCEPT ![t] = a.process_step_id]
  /\ UNCHANGED <<stepStatus, doubtful>>
  /\ Ends(r)

\* A PATCH that sends a status recomputes the step its copy of the task is linked to.
CallsMirror(q) == "status" \in q.set /\ q.asks.process_step_id # NoStep

\* The flush takes the row; then the mirror reads the step.
FlushTask(r) ==
  /\ call[r].kind = "patch" /\ call[r].at = "write" /\ CallsMirror(call[r])
  /\ ~TaskHeld(call[r].task, Others(r))
  /\ call' = [call EXCEPT ![r].at = "sync", ![r].stepWas = stepStatus[call[r].asks.process_step_id]]
  /\ UNCHANGED <<board, writes, missed, doubtful>>

\* The mirror reads the linked tasks: of its own task it sees the flushed link and the
\* copy's status.
SyncStep(r) ==
  LET t == call[r].task
      a == call[r].asks
      lk == [link EXCEPT ![t] = Written(a.process_step_id, call[r].was.process_step_id, @)]
      st == [status EXCEPT ![t] = a.status]
  IN
  /\ call[r].kind = "patch" /\ call[r].at = "sync"
  /\ call' = [call EXCEPT ![r].at = "commit",
                        ![r].stepTo = SyncStepFromTasks(a.process_step_id, call[r].stepWas, st, lk)]
  /\ UNCHANGED <<board, writes, missed, doubtful>>

\* What is left of a PATCH: the step's row if its status is to change, else the task's
\* own flush if it was not needed before, and the commit.
CommitPatch(r) ==
  LET t == call[r].task  a == call[r].asks  w == call[r].was
      moves == call[r].at = "commit" /\ call[r].stepTo # call[r].stepWas
  IN
  /\ call[r].kind = "patch"
  /\ IF CallsMirror(call[r]) THEN call[r].at = "commit" ELSE call[r].at = "write"
  /\ ~TaskHeld(t, Others(r))
  /\ moves => ~StepHeld(a.process_step_id, Others(r))
  /\ status' = [status EXCEPT ![t] = Written(a.status, w.status, @)]
  /\ blockedBy' = [blockedBy EXCEPT ![t] = Written(a.blocked_by, w.blocked_by, @)]
  /\ blocks' = [blocks EXCEPT ![t] = Written(a.blocks, w.blocks, @)]
  /\ link' = [link EXCEPT ![t] = Written(a.process_step_id, w.process_step_id, @)]
  /\ stepStatus' = IF moves THEN [stepStatus EXCEPT ![a.process_step_id] = call[r].stepTo] ELSE stepStatus
  /\ doubtful' = IF a.blocked_by = w.blocked_by THEN doubtful
                 ELSE IF missed[r].lists THEN doubtful \cup {t} ELSE doubtful \ {t}
  /\ UNCHANGED row
  /\ Ends(r)

\* DELETE /tasks/{id}: soft delete, one column.  A second one that overlaps the first
\* writes it again.  It does not call the step mirror.
ArchiveTask(t) ==
  /\ row[t] = "live"
  /\ ~TaskHeld(t, Call)
  /\ writes < MaxWrites /\ writes' = writes + 1
  /\ row' = [row EXCEPT ![t] = "archived"]
  /\ UNCHANGED <<status, blockedBy, blocks, link, stepStatus, call, doubtful>>
  /\ Overtakes({})

-----------------------------------------------------------------------------
(* PATCH /process/steps/{id}: the new status is applied to linked tasks.   *)

LoadStep(r, s, v) ==
  Starts(r, [kind |-> "step", at |-> "write", step |-> s, asks |-> v,
             was |-> stepStatus[s], tasks |-> {}])

\* The flush takes the step's row; then the mirror reads the linked tasks.
SyncTasks(r) ==
  /\ call[r].kind = "step" /\ call[r].at = "write"
  /\ ~StepHeld(call[r].step, Others(r))
  /\ call' = [call EXCEPT ![r].at = "commit",
                        ![r].tasks = TasksToMove(call[r].step, call[r].asks)]
  /\ UNCHANGED <<board, writes, missed, doubtful>>

\* The tasks it read are flushed one by one, and committed together.
CommitStep(r) ==
  LET q == call[r] IN
  /\ q.kind = "step" /\ q.at = "commit"
  /\ \A t \in q.tasks : ~TaskHeld(t, Others(r))
  /\ stepStatus' = [stepStatus EXCEPT ![q.step] = Written(q.asks, q.was, @)]
  /\ status' = [t \in Task |-> IF t \in q.tasks THEN TaskFromStep(q.asks) ELSE status[t]]
  /\ UNCHANGED <<row, blockedBy, blocks, link, doubtful>>
  /\ Ends(r)

-----------------------------------------------------------------------------
(***************************************************************************)
(* Approving a suggestion draft (_materialise_tasks): the accepted         *)
(* suggestions become tasks, in batch order, and those in chained depend   *)
(* on the one before (the graph that suggests them only ever names the     *)
(* previous open step).  Nothing is read of the board or validated and no  *)
(* step is linked.                                                         *)
(***************************************************************************)
MaterialiseTasks(n, batch, chained) ==
  LET new == {batch[i] : i \in 1..n} IN
  /\ \A i, j \in 1..n : batch[i] = batch[j] => i = j
  /\ \A t \in new : row[t] = "absent"
  /\ \A p \in Call : call[p].kind = "create" => call[p].task \notin new
  /\ writes < MaxWrites /\ writes' = writes + 1
  /\ row' = [t \in Task |-> IF t \in new THEN "live" ELSE row[t]]
  /\ status' = [t \in Task |-> IF t \in new THEN "not_started" ELSE status[t]]
  /\ blockedBy' = [t \in Task |->
       IF t \notin new THEN blockedBy[t]
       ELSE {Id(batch[i - 1]) : i \in {j \in chained : batch[j] = t}}]
  /\ blocks' = [t \in Task |->
       IF t \notin new THEN blocks[t]
       ELSE {Id(batch[i]) : i \in {j \in chained : batch[j - 1] = t}}]
  /\ UNCHANGED <<link, stepStatus, call, doubtful>>
  /\ Overtakes({})

\* A check refuses, the client or the database breaks off (two requests that wait for
\* each other's row are broken up this way): what was flushed is rolled back.
Fail(r) ==
  /\ call[r] # NoCall
  /\ call' = [call EXCEPT ![r] = NoCall]
  /\ missed' = [missed EXCEPT ![r] = NothingMissed]
  /\ UNCHANGED <<board, writes, doubtful>>

Next ==
  \/ \E r \in Call, t \in Task, a \in Posts : StartCreate(r, t, a)
  \/ \E r \in Call, t \in Task, c \in Patches : LoadTask(r, t, c)
  \/ \E r \in Call, s \in Step, v \in StepStatus : LoadStep(r, s, v)
  \/ \E r \in Call :
       \/ CheckReferences(r) \/ CheckCycle(r) \/ CheckDoneRule(r)
       \/ CommitCreate(r) \/ FlushTask(r) \/ SyncStep(r) \/ CommitPatch(r)
       \/ SyncTasks(r) \/ CommitStep(r) \/ Fail(r)
  \/ \E t \in Task : ArchiveTask(t)
  \/ \E n \in 1..MaxBatch : \E batch \in [1..n -> Task], chained \in SUBSET (2..n) :
       MaterialiseTasks(n, batch, chained)

Spec == Init /\ [][Next]_vars

-----------------------------------------------------------------------------
(* Correctness.                                                            *)

\* Every column of the task and step tables, and every request in flight, holds values
\* of its kind.
TypeOK ==
  /\ row \in [Task -> {"absent", "live", "archived"}]
  /\ status \in [Task -> Status]
  /\ blockedBy \in [Task -> SUBSET Ref]
  /\ blocks \in [Task -> SUBSET Ref]
  /\ link \in [Task -> Step \cup {NoStep}]
  /\ stepStatus \in [Step -> StepStatus]
  /\ call \in [Call -> {NoCall} \cup CreateRequest \cup PatchRequest \cup StepRequest]
  /\ writes \in 0..MaxWrites
  /\ missed \in [Call -> [steps : SUBSET Step, lists : BOOLEAN, reopened : BOOLEAN]]
  /\ doubtful \subseteq Task

\* The tasks a task waits for by entries spelt as str() spells them.
WaitsFor == [x \in Task |-> {y \in Task : Id(y) \in blockedBy[x]}]

\* A circle of live tasks holds a respelt id, or a list written by a PATCH during whose
\* flight another blocked_by list was rewritten.  So the walk in _validate_dependencies,
\* which only starts at the task being written, is enough for clients that send ids as
\* they got them and wait for their answers; it is not enough for the others.
CircleOnlyByOverlapOrSpelling == Acyclic(Live \ doubtful, WaitsFor)

\* The live tasks that are not done.
Open == {t \in Live : status[t] # "done"}

\* While tasks are open, none of which has a respelt entry or a list written over
\* another's rewrite, some open task has no open blocker: the done rule lets someone on.
WedgedOnlyByOverlapOrSpelling ==
  (/\ Open # {}
   /\ Open \cap doubtful = {}
   /\ \A t \in Open : blockedBy[t] \subseteq {Id(u) : u \in Task})
    => \E t \in Open : OpenBlockers(blockedBy[t]) = {}

\* A step agrees with its live linked tasks: it has the status they derive, or
\* they all have the status it was set to.
StepAgrees(s) ==
  LET T == Linked(s, link) IN
  \/ T = {}
  \/ stepStatus[s] = StepFromTasks(T, status)
  \/ \A t \in T : Lower(status[t]) = TaskFromStep(stepStatus[s])

\* A commit that leaves a step in disagreement with its tasks changed which tasks are
\* linked to it, or missed what another request did to the step while it was in flight,
\* or left an older disagreement as it was: a status written from either surface without
\* overlap brings the two together, whatever state they were in.
DriftOnlyByMembershipOrOverlap ==
  [][\A s \in Step : ~StepAgrees(s)' =>
       \/ Linked(s, link)' # Linked(s, link)
       \/ \E r \in Call : call[r] # NoCall /\ call'[r] = NoCall /\ s \in missed[r].steps
       \/ /\ ~StepAgrees(s)
          /\ stepStatus'[s] = stepStatus[s]
          /\ \A t \in Linked(s, link) : status'[t] = status[t]]_vars

\* A task becomes done over an open blocker when its step is set to done, which does not
\* ask the done rule, or when a blocker was reopened, or its list rewritten, during the
\* flight of the request that completes it; in no other way.
DoneOverBlockerOnlyByStepOrOverlap ==
  [][\A t \in Task :
       /\ status'[t] = "done"
       /\ ~(row[t] # "absent" /\ status[t] = "done")
       /\ OpenBlockers(blockedBy[t])' # {}
       => \E r \in Call :
            /\ call[r] # NoCall /\ call'[r] = NoCall
            /\ \/ call[r].kind = "step" /\ call[r].asks = "done" /\ t \in call[r].tasks
               \/ missed[r].lists \/ missed[r].reopened]_vars
=============================================================================
