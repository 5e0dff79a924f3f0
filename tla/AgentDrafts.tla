----------------------------- MODULE AgentDrafts -----------------------------
(***************************************************************************)
(* Suggested tasks, from proposal to approval (agents/graphs/              *)
(* next_actions.py, api/agent_drafts.py).  A run reads the estate and      *)
(* the tasks, proposes one for every subject nothing covers, and stores    *)
(* the proposals as a draft; a person approves the draft, or a selection   *)
(* of it, and the accepted proposals become tasks.                         *)
(*                                                                         *)
(* Requests overlap: an approval is checked when its row is loaded and     *)
(* takes effect when it commits, and a proposal is made from tasks that    *)
(* may have changed by the time it is stored, let alone approved.          *)
(***************************************************************************)
EXTENDS Naturals, FiniteSets

CONSTANTS
  Chore,       \* contacts to notify and deadlines that come near
  NumSteps,    \* timeline steps, numbered in their order
  Task, Draft, Request,
  Null,
  MaxBatches   \* bound: how often one draft can be approved

Step == 1..NumSteps
Subject == Chore \cup Step   \* one title each

ASSUME DraftAssumption ==
  /\ NumSteps \in Nat /\ MaxBatches \in Nat
  /\ Chore \cap Nat = {}
  /\ Null \notin Nat \cup Chore \cup Task \cup Draft

VARIABLES
  task,      \* committed tasks
  draft,     \* committed drafts with their approval rows
  req,       \* the requests in flight
  batches,   \* history: approvals of each draft that have committed
  overlap,   \* history: drafts loaded for approval twice at once
  since      \* history: items of each pending draft that got an open task since

vars == <<task, draft, req, batches, overlap, since>>

NoTask == [state |-> "absent", title |-> Null, status |-> "closed", link |-> Null,
           draft |-> Null, batch |-> 0, blockedBy |-> {}, blocks |-> {}]
NoDraft == [state |-> "absent", items |-> {}]
Idle == [phase |-> "idle", draft |-> Null, items |-> {}, since |-> {}]

Live == {t \in Task : task[t].state = "live"}
Fresh == {t \in Task : task[t].state = "absent"}

\* Live tasks titled s whose status counts as open (_OPEN_TASK_STATUSES).
OpenFor(s) == {t \in Live : task[t].title = s /\ task[t].status = "open"}

Linked(s) == {t \in Live : task[t].link = s}

Loaded(d) == {r \in Request : req[r].phase = "approving" /\ req[r].draft = d}

\* An open task appears for the subjects S: pending drafts and proposals are overtaken.
DraftsOvertaken(S) ==
  [d \in Draft |-> IF draft'[d].state = "pending"
                   THEN since[d] \cup (S \cap draft[d].items) ELSE {}]

RequestsOvertaken(S) ==
  [r \in Request |-> IF req[r].phase = "proposing"
                     THEN [req[r] EXCEPT !.since = @ \cup (S \cap req[r].items)]
                     ELSE req[r]]

-----------------------------------------------------------------------------
Init ==
  /\ task = [t \in Task |-> NoTask]
  /\ draft = [d \in Draft |-> NoDraft]
  /\ req = [r \in Request |-> Idle]
  /\ batches = [d \in Draft |-> 0]
  /\ overlap = {}
  /\ since = [d \in Draft |-> {}]

\* POST /tasks, by hand; the checklist links its tasks to their steps.
CreateTask(t, s, l) ==
  /\ t \in Fresh
  /\ task' = [task EXCEPT ![t] = [NoTask EXCEPT !.state = "live", !.title = s,
                                                !.status = "open", !.link = l]]
  /\ UNCHANGED <<draft, batches, overlap>>
  /\ since' = DraftsOvertaken({s})
  /\ req' = RequestsOvertaken({s})

\* PATCH /tasks/{id}: its status; "closed" stands for every status that is not in
\* _OPEN_TASK_STATUSES, done as well as waiting for a third party.
PatchTask(t, v) ==
  /\ t \in Live
  /\ task[t].status # v
  /\ task' = [task EXCEPT ![t].status = v]
  /\ UNCHANGED <<draft, batches, overlap>>
  /\ LET S == IF v = "open" THEN {task[t].title} ELSE {} IN
       since' = DraftsOvertaken(S) /\ req' = RequestsOvertaken(S)

\* DELETE /tasks/{id}
ArchiveTask(t) ==
  /\ t \in Live
  /\ task' = [task EXCEPT ![t].state = "archived"]
  /\ UNCHANGED <<draft, req, batches, overlap, since>>

-----------------------------------------------------------------------------
(* POST /agents/suggest-tasks *)

\* Faulty variant: the titles of the open tasks are not looked at.
ProposalsUncovered(due) == {s \in due : s \in Step => Linked(s) = {}}

\* The proposal rules: what is due (contacts not notified, deadlines near, open steps),
\* no open task is titled after, and, for a step, no task is linked to.
Proposals(due) ==
  {s \in due : OpenFor(s) = {} /\ (s \in Step => Linked(s) = {})}

Propose(r, due) ==
  /\ req[r].phase = "idle"
  /\ req' = [req EXCEPT ![r] = [Idle EXCEPT !.phase = "proposing", !.items = Proposals(due)]]
  /\ UNCHANGED <<task, draft, batches, overlap, since>>

\* The draft document and its pending approval row are committed together.
StoreDraft(r, d) ==
  /\ req[r].phase = "proposing"
  /\ draft[d].state = "absent"
  /\ draft' = [draft EXCEPT ![d] = [state |-> "pending", items |-> req[r].items]]
  /\ since' = [since EXCEPT ![d] = req[r].since]
  /\ req' = [req EXCEPT ![r] = Idle]
  /\ UNCHANGED <<task, batches, overlap>>

-----------------------------------------------------------------------------
(* POST /agents/drafts/{id}/approve *)

\* Faulty variant: an approved draft can be approved again.
ApprovableAlways(d) == draft[d].state # "absent"

\* The row is there and approved_by is not set.
Approvable(d) == draft[d].state = "pending"

LoadApproval(r, d) ==
  /\ req[r].phase = "idle"
  /\ Approvable(d)
  /\ req' = [req EXCEPT ![r] = [Idle EXCEPT !.phase = "approving", !.draft = d]]
  /\ overlap' = IF Loaded(d) = {} THEN overlap ELSE overlap \cup {d}
  /\ UNCHANGED <<task, draft, batches, since>>

\* The step suggestion that one depends on: the step before it in the suggestions.
DependsOn(s, items) ==
  {u \in items \cap Step : s \in Step /\ u < s /\ \A v \in items \cap Step : v < s => v <= u}

\* Faulty variant: blockers are looked up among all tasks made from the draft.
BlockersByTitle(s, d, new) ==
  {t \in Task : task[t].draft = d /\ task[t].title \in DependsOn(s, draft[d].items)}
    \cup {new[u] : u \in DependsOn(s, draft[d].items) \cap DOMAIN new}

\* The tasks the task for s waits for; a suggestion that was not accepted has none.
Blockers(s, d, new) == {new[u] : u \in DependsOn(s, draft[d].items) \cap DOMAIN new}

(***************************************************************************)
(* The commit of an approval.  new gives the accepted suggestions their    *)
(* tasks; they, the approval row and the audit event are one transaction.  *)
(***************************************************************************)
CommitApproval(r, accepted, new) ==
  LET d == req[r].draft IN
  /\ req[r].phase = "approving"
  /\ batches[d] < MaxBatches
  /\ accepted \subseteq draft[d].items
  /\ \A s, u \in accepted : new[s] = new[u] => s = u
  /\ task' = [t \in Task |->
       IF \A s \in accepted : new[s] # t THEN task[t]
       ELSE LET s == CHOOSE u \in accepted : new[u] = t IN
            [NoTask EXCEPT !.state = "live", !.title = s, !.status = "open",
               !.draft = d, !.batch = batches[d] + 1,
               !.blockedBy = Blockers(s, d, new),
               !.blocks = {new[u] : u \in {v \in accepted : t \in Blockers(v, d, new)}}]]
  /\ draft' = [draft EXCEPT ![d].state = "approved"]
  /\ batches' = [batches EXCEPT ![d] = @ + 1]
  /\ since' = DraftsOvertaken(accepted)
  /\ req' = [RequestsOvertaken(accepted) EXCEPT ![r] = Idle]
  /\ UNCHANGED overlap

\* A request is refused (409, 422), fails or is cut off: nothing is committed.
Fail(r) ==
  /\ req[r].phase # "idle"
  /\ req' = [req EXCEPT ![r] = Idle]
  /\ UNCHANGED <<task, draft, batches, overlap, since>>

Next ==
  \/ \E t \in Task :
       \/ \E s \in Subject : \E l \in {Null} \cup ({s} \cap Step) : CreateTask(t, s, l)
       \/ \E v \in {"open", "closed"} : PatchTask(t, v)
       \/ ArchiveTask(t)
  \/ \E r \in Request :
       \/ \E due \in SUBSET Subject : Propose(r, due)
       \/ \E d \in Draft : StoreDraft(r, d) \/ LoadApproval(r, d)
       \/ \E accepted \in SUBSET Subject : \E new \in [accepted -> Fresh] :
            CommitApproval(r, accepted, new)
       \/ Fail(r)

Spec == Init /\ [][Next]_vars
-----------------------------------------------------------------------------
(* Correctness.                                                            *)

\* A draft becomes tasks at most once, unless two approvals of it were in flight
\* together: the check of approved_by when the row is loaded covers every other order
\* of retries, failures and later approvals (approve_draft).
SecondBatchOnlyByOverlap == \A d \in Draft \ overlap : batches[d] <= 1

\* An approval's tasks wait only for tasks of the same approval, those of earlier
\* timeline steps, and both sides of every link agree, even when the draft was
\* approved twice or only in part (_materialise_tasks).
BatchStandsAlone ==
  \A t, u \in Task :
    /\ u \in task[t].blockedBy =>
         /\ task[u].draft = task[t].draft /\ task[u].batch = task[t].batch
         /\ task[u].title < task[t].title
    /\ u \in task[t].blockedBy <=> t \in task[u].blocks

\* A pending suggestion that an open task covers is one that got this task after the
\* run read the tasks: approving a draft nothing has overtaken duplicates no open task,
\* however many other drafts are pending (_propose_node).
CoveredOnlySince ==
  \A d \in Draft : draft[d].state = "pending" =>
    \A s \in draft[d].items : OpenFor(s) # {} => s \in since[d]
=============================================================================
