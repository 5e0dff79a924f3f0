-------------------------- MODULE AgentGraphs_proof --------------------------
(***************************************************************************)
(* Proofs about two modules that end in what an agent graph stores, and    *)
(* whose names do not meet: AgentDrafts, for every set of chores, tasks,   *)
(* drafts and requests, and Corpus, for every set of runs, jobs and        *)
(* batches.                                                                *)
(***************************************************************************)
EXTENDS AgentDrafts, Corpus, SequenceTheorems, TLAPS

-----------------------------------------------------------------------------
(* AgentDrafts                                                             *)

TaskRow == [state : {"absent", "live", "archived"}, title : Subject \cup {Null},
            status : {"open", "closed"}, link : Step \cup {Null},
            draft : Draft \cup {Null}, batch : Nat,
            blockedBy : SUBSET Task, blocks : SUBSET Task]
DraftRow == [state : {"absent", "pending", "approved"}, items : SUBSET Subject]
Asked == [phase : {"idle", "proposing", "approving"}, draft : Draft \cup {Null},
          items : SUBSET Subject, since : SUBSET Subject]

\* Rows and requests have their columns; an approval is loaded for a draft.
Typed ==
  /\ task \in [Task -> TaskRow]
  /\ draft \in [Draft -> DraftRow]
  /\ req \in [Request -> Asked]
  /\ batches \in [Draft -> Nat]
  /\ since \in [Draft -> SUBSET Subject]
  /\ \A r \in Request : req[r].phase = "approving" => req[r].draft \in Draft

(***************************************************************************)
(* Approvals.  A draft that was never loaded twice at once is loaded by    *)
(* one request at most, and while it is loaded it is still pending: its    *)
(* check has not gone stale.                                               *)
(***************************************************************************)
LoadedOnce ==
  \A d \in Draft \ overlap :
    /\ batches[d] <= 1
    /\ draft[d].state # "approved" => batches[d] = 0
    /\ \A r \in Request : req[r].phase = "approving" /\ req[r].draft = d =>
         /\ draft[d].state = "pending"
         /\ \A q \in Request : req[q].phase = "approving" /\ req[q].draft = d => q = r

\* Nothing is linked to a task that does not exist.
Links == BatchStandsAlone /\ \A t \in Task : task[t].state = "absent" => task[t] = NoTask

\* What a proposal or a pending draft holds was not covered when the tasks were read.
Covered ==
  /\ CoveredOnlySince
  /\ \A r \in Request : req[r].phase = "proposing" =>
       \A s \in req[r].items : OpenFor(s) # {} => s \in req[r].since

-----------------------------------------------------------------------------
(* Types.                                                                  *)

LEMMA Overtakes ==
  ASSUME Typed, NEW S \in SUBSET Subject, NEW r \in Request
  PROVE  /\ RequestsOvertaken(S)[r] \in Asked
         /\ RequestsOvertaken(S)[r].phase = req[r].phase
         /\ RequestsOvertaken(S)[r].draft = req[r].draft
         /\ RequestsOvertaken(S)[r].items = req[r].items
         /\ req[r].phase = "proposing" =>
              RequestsOvertaken(S)[r].since = req[r].since \cup (S \cap req[r].items)
<1> DEFINE q == req[r]
           new == [q EXCEPT !.since = @ \cup (S \cap q.items)]
<1>1. q \in Asked
  BY DEF Typed
<1>2. RequestsOvertaken(S)[r] = IF q.phase = "proposing" THEN new ELSE q
  BY DEF RequestsOvertaken
<1> HIDE DEF q
<1>3. /\ new \in Asked /\ new.phase = q.phase /\ new.draft = q.draft /\ new.items = q.items
      /\ new.since = q.since \cup (S \cap q.items)
  BY <1>1 DEF Asked
<1> HIDE DEF new
<1>4. QED
  BY <1>1, <1>2, <1>3 DEF q

LEMMA RequestsKept ==
  ASSUME Typed, NEW S \in SUBSET Subject, req' = RequestsOvertaken(S)
  PROVE  /\ req' \in [Request -> Asked]
         /\ \A r \in Request : req'[r].phase = "approving" => req'[r].draft \in Draft
<1>1. \A r \in Request : req'[r] = RequestsOvertaken(S)[r]
  OBVIOUS
<1>2. req' = [r \in Request |-> req'[r]]
  BY DEF RequestsOvertaken
<1>3. \A r \in Request : /\ req'[r] \in Asked
                         /\ req'[r].phase = req[r].phase /\ req'[r].draft = req[r].draft
  BY <1>1, Overtakes
<1>4. QED
  BY <1>2, <1>3 DEF Typed

LEMMA SinceTyped ==
  ASSUME Typed, NEW S \in SUBSET Subject, since' = DraftsOvertaken(S)
  PROVE  since' \in [Draft -> SUBSET Subject]
  BY DEF Typed, DraftsOvertaken, DraftRow

LEMMA NoTaskTyped == NoTask \in TaskRow
<1>1. NoTask.batch \in Nat
  BY DEF NoTask
<1>2. QED
  BY <1>1 DEF NoTask, TaskRow

LEMMA InitTyped == Init => Typed
<1> SUFFICES ASSUME Init PROVE Typed
  OBVIOUS
<1>1. task \in [Task -> TaskRow]
  BY NoTaskTyped DEF Init
<1>2. draft \in [Draft -> DraftRow]
  BY DEF Init, NoDraft, DraftRow
<1>3. req \in [Request -> Asked] /\ \A r \in Request : req[r].phase = "idle"
  BY DEF Init, Idle, Asked
<1>4. batches \in [Draft -> Nat] /\ since \in [Draft -> SUBSET Subject]
  BY DEF Init
<1>5. QED
  BY <1>1, <1>2, <1>3, <1>4 DEF Typed

\* A request returns to idle.
LEMMA IdleAgain ==
  ASSUME NEW f \in [Request -> Asked],
         \A q \in Request : f[q].phase = "approving" => f[q].draft \in Draft,
         NEW r \in Request, req' = [f EXCEPT ![r] = Idle]
  PROVE  /\ req' \in [Request -> Asked]
         /\ \A q \in Request : req'[q].phase = "approving" => req'[q].draft \in Draft
<1>1. Idle \in Asked /\ Idle.phase = "idle"
  BY DEF Idle, Asked
<1>2. \A q \in Request : req'[q] = IF q = r THEN Idle ELSE f[q]
  OBVIOUS
<1>3. QED
  BY <1>1, <1>2

\* The task that an accepted suggestion s becomes.
Made(d, new, accepted, s) ==
  [NoTask EXCEPT !.state = "live", !.title = s, !.status = "open",
     !.draft = d, !.batch = batches[d] + 1,
     !.blockedBy = Blockers(s, d, new),
     !.blocks = {new[u] : u \in {v \in accepted : new[s] \in Blockers(v, d, new)}}]

LEMMA MadeColumns ==
  ASSUME NEW d \in Draft, NEW accepted \in SUBSET Subject, NEW new \in [accepted -> Fresh],
         NEW s \in accepted, Typed
  PROVE  LET m == Made(d, new, accepted, s) IN
         /\ m \in TaskRow
         /\ m.state = "live" /\ m.title = s /\ m.draft = d /\ m.batch = batches[d] + 1
         /\ m.blockedBy = Blockers(s, d, new)
         /\ m.blocks = {new[u] : u \in {v \in accepted : new[s] \in Blockers(v, d, new)}}
<1> DEFINE b == Blockers(s, d, new)
           c == {new[u] : u \in {v \in accepted : new[s] \in Blockers(v, d, new)}}
           k == batches[d] + 1
<1>1. \A u \in accepted : new[u] \in Task
  BY DEF Fresh
<1>2. b \in SUBSET Task
  BY <1>1 DEF Blockers
<1>3. c \in SUBSET Task
  BY <1>1
<1>4. k \in Nat
  BY DEF Typed
<1>5. Made(d, new, accepted, s) =
        [NoTask EXCEPT !.state = "live", !.title = s, !.status = "open",
           !.draft = d, !.batch = k, !.blockedBy = b, !.blocks = c]
  BY DEF Made
<1> HIDE DEF b, c, k
<1> DEFINE m == Made(d, new, accepted, s)
<1>6. /\ m \in TaskRow
      /\ m.state = "live" /\ m.title = s /\ m.draft = d /\ m.batch = k
      /\ m.blockedBy = b /\ m.blocks = c
  BY <1>2, <1>3, <1>4, <1>5 DEF NoTask, TaskRow
<1>7. QED
  BY <1>6 DEF b, c, k

\* What an approval commits: each accepted suggestion has its task, and the others stay.
LEMMA Committed ==
  ASSUME Typed, NEW r \in Request, NEW accepted \in SUBSET Subject,
         NEW new \in [accepted -> Fresh], CommitApproval(r, accepted, new)
  PROVE  /\ req[r].draft \in Draft
         /\ \A s \in accepted :
              /\ new[s] \in Task /\ task[new[s]].state = "absent"
              /\ task'[new[s]] = Made(req[r].draft, new, accepted, s)
         /\ \A t \in Task : (\A s \in accepted : new[s] # t) => task'[t] = task[t]
         /\ \A s, u \in accepted : new[s] = new[u] => s = u
         /\ task' = [t \in Task |-> task'[t]]
<1> DEFINE d == req[r].draft
<1>1. d \in Draft
  BY DEF Typed, CommitApproval
<1>2. \A s, u \in accepted : new[s] = new[u] => s = u
  BY DEF CommitApproval
<1>3. \A s \in accepted : new[s] \in Task /\ task[new[s]].state = "absent"
  BY DEF Fresh
<1> DEFINE Row(t, s) == [NoTask EXCEPT !.state = "live", !.title = s, !.status = "open",
               !.draft = d, !.batch = batches[d] + 1,
               !.blockedBy = Blockers(s, d, new),
               !.blocks = {new[u] : u \in {v \in accepted : t \in Blockers(v, d, new)}}]
<1>4. task' = [t \in Task |-> IF \A s \in accepted : new[s] # t THEN task[t]
                              ELSE Row(t, CHOOSE u \in accepted : new[u] = t)]
  BY DEF CommitApproval
<1>5. ASSUME NEW s \in accepted
      PROVE  task'[new[s]] = Made(d, new, accepted, s)
  <2>1. (CHOOSE u \in accepted : new[u] = new[s]) = s
    BY <1>2
  <2>2. Row(new[s], s) = Made(d, new, accepted, s)
    BY DEF Made
  <2> HIDE DEF Row
  <2>3. task'[new[s]] = Row(new[s], CHOOSE u \in accepted : new[u] = new[s])
    BY <1>3, <1>4
  <2>4. QED
    BY <2>1, <2>2, <2>3
<1> HIDE DEF Row
<1>6. \A t \in Task : (\A s \in accepted : new[s] # t) => task'[t] = task[t]
  BY <1>4
<1>7. task' = [t \in Task |-> task'[t]]
  BY <1>4
<1>8. QED
  BY <1>1, <1>2, <1>3, <1>5, <1>6, <1>7

LEMMA RowChanges ==
  ASSUME Typed, NEW t \in Task, NEW row \in TaskRow, task' = [task EXCEPT ![t] = row]
  PROVE  task' \in [Task -> TaskRow]
  BY DEF Typed

\* The row of a task after each request on it.
LEMMA TaskRequests ==
  ASSUME Typed, NEW t \in Task
  PROVE  /\ \A s \in Subject, l \in {Null} \cup Step :
              LET row == [NoTask EXCEPT !.state = "live", !.title = s,
                                        !.status = "open", !.link = l]
              IN  /\ row \in TaskRow /\ row.state = "live" /\ row.title = s
                  /\ row.status = "open" /\ row.draft = Null
                  /\ row.batch = 0 /\ row.blockedBy = {} /\ row.blocks = {}
         /\ \A v \in {"open", "closed"} :
              LET row == [task[t] EXCEPT !.status = v]
              IN  /\ row \in TaskRow /\ row.status = v /\ row.state = task[t].state
                  /\ row.title = task[t].title /\ row.draft = task[t].draft
                  /\ row.batch = task[t].batch /\ row.blockedBy = task[t].blockedBy
                  /\ row.blocks = task[t].blocks
         /\ LET row == [task[t] EXCEPT !.state = "archived"]
            IN  /\ row \in TaskRow /\ row.state = "archived"
                /\ row.title = task[t].title /\ row.draft = task[t].draft
                /\ row.batch = task[t].batch /\ row.blockedBy = task[t].blockedBy
                /\ row.blocks = task[t].blocks
<1> DEFINE old == task[t]
<1>1. old \in TaskRow
  BY DEF Typed
<1> HIDE DEF old
<1>2. ASSUME NEW s \in Subject, NEW l \in {Null} \cup Step
      PROVE  LET row == [NoTask EXCEPT !.state = "live", !.title = s,
                                       !.status = "open", !.link = l]
             IN  /\ row \in TaskRow /\ row.state = "live" /\ row.title = s
                 /\ row.status = "open" /\ row.draft = Null
                 /\ row.batch = 0 /\ row.blockedBy = {} /\ row.blocks = {}
  BY NoTaskTyped DEF NoTask, TaskRow
<1>3. ASSUME NEW v \in {"open", "closed"}
      PROVE  LET row == [old EXCEPT !.status = v]
             IN  /\ row \in TaskRow /\ row.status = v /\ row.state = old.state
                 /\ row.title = old.title /\ row.draft = old.draft
                 /\ row.batch = old.batch /\ row.blockedBy = old.blockedBy
                 /\ row.blocks = old.blocks
  BY <1>1 DEF TaskRow
<1>4. LET row == [old EXCEPT !.state = "archived"]
      IN  /\ row \in TaskRow /\ row.state = "archived"
          /\ row.title = old.title /\ row.draft = old.draft
          /\ row.batch = old.batch /\ row.blockedBy = old.blockedBy
          /\ row.blocks = old.blocks
  BY <1>1 DEF TaskRow
<1>5. QED
  BY <1>2, <1>3, <1>4 DEF old

LEMMA NextTyped ==
  ASSUME Typed, [Next]_vars
  PROVE  Typed'
<1> DEFINE Requests == /\ req' \in [Request -> Asked]
                       /\ \A r \in Request : req'[r].phase = "approving" => req'[r].draft \in Draft
<1>1. /\ req \in [Request -> Asked]
      /\ \A r \in Request : req[r].phase = "approving" => req[r].draft \in Draft
  BY DEF Typed
<1>2. UNCHANGED req => Requests
  BY <1>1
<1>3. ASSUME NEW t \in Task, NEW s \in Subject, NEW l \in {Null} \cup ({s} \cap Step),
             CreateTask(t, s, l)
      PROVE  Typed'
  <2>1. task' \in [Task -> TaskRow]
    BY <1>3, TaskRequests, RowChanges DEF CreateTask
  <2>2. Requests
    BY <1>3, RequestsKept DEF CreateTask
  <2>3. since' \in [Draft -> SUBSET Subject]
    BY <1>3, SinceTyped DEF CreateTask
  <2>4. UNCHANGED <<draft, batches>>
    BY <1>3 DEF CreateTask
  <2>5. QED
    BY <2>1, <2>2, <2>3, <2>4 DEF Typed
<1>4. ASSUME NEW t \in Task, NEW v \in {"open", "closed"}, PatchTask(t, v)
      PROVE  Typed'
  <2>1. task' \in [Task -> TaskRow]
    <3>1. task' = [task EXCEPT ![t] = [task[t] EXCEPT !.status = v]]
      BY <1>4 DEF PatchTask
    <3>2. QED
      BY <3>1, TaskRequests, RowChanges
  <2> DEFINE S == IF v = "open" THEN {task[t].title} ELSE {}
  <2>2. since' = DraftsOvertaken(S) /\ req' = RequestsOvertaken(S) /\ UNCHANGED <<draft, batches>>
    BY <1>4 DEF PatchTask
  <2>3. req' = [r \in Request |-> req'[r]] /\ since' = [d \in Draft |-> since'[d]]
    BY <2>2 DEF RequestsOvertaken, DraftsOvertaken
  <2>4. S \in SUBSET (Subject \cup {Null})
    BY DEF Typed, TaskRow
  <2> HIDE DEF S
  <2>5. S \cap Subject \in SUBSET Subject
    OBVIOUS
  <2>6. req' = RequestsOvertaken(S \cap Subject)
    <3>1. \A r \in Request : S \cap req[r].items = (S \cap Subject) \cap req[r].items
      BY DEF Typed, Asked
    <3>2. QED
      BY <2>2, <3>1 DEF RequestsOvertaken
  <2>7. since' = DraftsOvertaken(S \cap Subject)
    <3>1. \A d \in Draft : S \cap draft[d].items = (S \cap Subject) \cap draft[d].items
      BY DEF Typed, DraftRow
    <3>2. QED
      BY <2>2, <3>1 DEF DraftsOvertaken
  <2>8. Requests
    BY <2>5, <2>6, RequestsKept
  <2>9. since' \in [Draft -> SUBSET Subject]
    BY <2>5, <2>7, SinceTyped
  <2>10. QED
    BY <2>1, <2>2, <2>8, <2>9 DEF Typed
<1>5. ASSUME NEW t \in Task, ArchiveTask(t)
      PROVE  Typed'
  <2>1. task' = [task EXCEPT ![t] = [task[t] EXCEPT !.state = "archived"]]
    BY <1>5 DEF ArchiveTask
  <2>2. task' \in [Task -> TaskRow]
    BY <2>1, TaskRequests, RowChanges
  <2>3. UNCHANGED <<draft, req, batches, since>>
    BY <1>5 DEF ArchiveTask
  <2>4. QED
    BY <1>2, <2>2, <2>3 DEF Typed
<1>6. ASSUME NEW r \in Request, NEW due \in SUBSET Subject, Propose(r, due)
      PROVE  Typed'
  <2> DEFINE new == [Idle EXCEPT !.phase = "proposing", !.items = Proposals(due)]
  <2>1. Proposals(due) \in SUBSET Subject
    BY DEF Proposals
  <2>2. new \in Asked /\ new.phase = "proposing"
    BY <2>1 DEF Idle, Asked
  <2>3. req' = [req EXCEPT ![r] = new] /\ UNCHANGED <<task, draft, batches, since>>
    BY <1>6 DEF Propose
  <2> HIDE DEF new
  <2>4. Requests
    BY <1>1, <2>2, <2>3
  <2>5. QED
    BY <2>3, <2>4 DEF Typed
<1>7. ASSUME NEW r \in Request, NEW d \in Draft, StoreDraft(r, d)
      PROVE  Typed'
  <2> DEFINE new == [state |-> "pending", items |-> req[r].items]
  <2>1. req[r].items \in SUBSET Subject /\ req[r].since \in SUBSET Subject
    BY <1>1 DEF Asked
  <2>2. new \in DraftRow
    BY <2>1 DEF DraftRow
  <2>3. /\ draft' = [draft EXCEPT ![d] = new] /\ since' = [since EXCEPT ![d] = req[r].since]
        /\ req' = [req EXCEPT ![r] = Idle] /\ UNCHANGED <<task, batches>>
    BY <1>7 DEF StoreDraft
  <2> HIDE DEF new
  <2>4. Requests
    BY <1>1, <2>3, IdleAgain
  <2>5. draft' \in [Draft -> DraftRow] /\ since' \in [Draft -> SUBSET Subject]
    BY <2>1, <2>2, <2>3 DEF Typed
  <2>6. QED
    BY <2>3, <2>4, <2>5 DEF Typed
<1>8. ASSUME NEW r \in Request, NEW d \in Draft, LoadApproval(r, d)
      PROVE  Typed'
  <2> DEFINE new == [Idle EXCEPT !.phase = "approving", !.draft = d]
  <2>1. new \in Asked /\ new.draft = d
    BY DEF Idle, Asked
  <2>2. req' = [req EXCEPT ![r] = new] /\ UNCHANGED <<task, draft, batches, since>>
    BY <1>8 DEF LoadApproval
  <2> HIDE DEF new
  <2>3. Requests
    BY <1>1, <2>1, <2>2
  <2>4. QED
    BY <2>2, <2>3 DEF Typed
<1>9. ASSUME NEW r \in Request, NEW accepted \in SUBSET Subject,
             NEW new \in [accepted -> Fresh], CommitApproval(r, accepted, new)
      PROVE  Typed'
  <2> DEFINE d == req[r].draft
  <2>1. /\ d \in Draft
        /\ \A s \in accepted : new[s] \in Task /\ task'[new[s]] = Made(d, new, accepted, s)
        /\ \A t \in Task : (\A s \in accepted : new[s] # t) => task'[t] = task[t]
        /\ task' = [t \in Task |-> task'[t]]
    BY <1>9, Committed
  <2>2. ASSUME NEW t \in Task
        PROVE  task'[t] \in TaskRow
    <3>1. CASE \A s \in accepted : new[s] # t
      BY <2>1, <3>1 DEF Typed
    <3>2. ASSUME NEW s \in accepted, new[s] = t
          PROVE  task'[t] \in TaskRow
      <4>1. Made(d, new, accepted, s) \in TaskRow
        BY <2>1, MadeColumns
      <4>2. QED
        BY <2>1, <3>2, <4>1
    <3>3. QED
      BY <3>1, <3>2
  <2>3. task' \in [Task -> TaskRow]
    BY <2>1, <2>2
  <2>4. /\ draft' = [draft EXCEPT ![d].state = "approved"]
        /\ batches' = [batches EXCEPT ![d] = @ + 1]
        /\ since' = DraftsOvertaken(accepted)
        /\ req' = [RequestsOvertaken(accepted) EXCEPT ![r] = Idle]
    BY <1>9 DEF CommitApproval
  <2>5. draft' \in [Draft -> DraftRow] /\ batches' \in [Draft -> Nat]
    BY <2>1, <2>4 DEF Typed, DraftRow
  <2>6. since' \in [Draft -> SUBSET Subject]
    BY <2>4, SinceTyped
  <2> DEFINE f == RequestsOvertaken(accepted)
  <2>7. f \in [Request -> Asked] /\ \A q \in Request : f[q].phase = "approving" => f[q].draft \in Draft
    <3>1. \A q \in Request : /\ f[q] \in Asked
                             /\ f[q].phase = req[q].phase /\ f[q].draft = req[q].draft
      BY Overtakes
    <3>2. f = [q \in Request |-> f[q]]
      BY DEF RequestsOvertaken
    <3> HIDE DEF f
    <3>3. QED
      BY <1>1, <3>1, <3>2
  <2>8. req' = [f EXCEPT ![r] = Idle]
    BY <2>4
  <2> HIDE DEF f
  <2>9. Requests
    BY <2>7, <2>8, IdleAgain
  <2>10. QED
    BY <2>3, <2>5, <2>6, <2>9 DEF Typed
<1>10. ASSUME NEW r \in Request, Fail(r)
       PROVE  Typed'
  <2>1. req' = [req EXCEPT ![r] = Idle] /\ UNCHANGED <<task, draft, batches, since>>
    BY <1>10 DEF Fail
  <2>2. Requests
    BY <1>1, <2>1, IdleAgain
  <2>3. QED
    BY <2>1, <2>2 DEF Typed
<1>11. CASE UNCHANGED vars
  BY <1>11 DEF vars, Typed
<1>12. QED
  BY <1>3, <1>4, <1>5, <1>6, <1>7, <1>8, <1>9, <1>10, <1>11 DEF Next

\* Tasks, drafts and requests keep their columns; an approval in flight always has its
\* draft (api/approvals.py, the agents' drafts).
THEOREM DraftsTypeCorrect == Spec => []Typed
<1>1. Init => Typed
  BY InitTyped
<1>2. Typed /\ [Next]_vars => Typed'
  BY NextTyped
<1>3. QED
  BY <1>1, <1>2, PTL DEF Spec

-----------------------------------------------------------------------------
(* Approvals.                                                              *)

\* One draft's part of LoadedOnce.
Once(d) ==
  /\ batches[d] <= 1
  /\ draft[d].state # "approved" => batches[d] = 0
  /\ \A r \in Request : req[r].phase = "approving" /\ req[r].draft = d =>
       /\ draft[d].state = "pending"
       /\ \A q \in Request : req[q].phase = "approving" /\ req[q].draft = d => q = r

\* Requests that are loaded stay loaded or go; no draft becomes approved.
LEMMA OnceKept ==
  ASSUME Typed, LoadedOnce,
         UNCHANGED <<batches, overlap>>,
         \A d \in Draft : draft'[d].state = draft[d].state,
         \A r \in Request : req'[r].phase = "approving" =>
           req[r].phase = "approving" /\ req'[r].draft = req[r].draft
  PROVE  LoadedOnce'
<1> SUFFICES ASSUME NEW d \in Draft, d \notin overlap PROVE Once(d)'
  BY DEF LoadedOnce, Once
<1>1. Once(d)
  BY DEF LoadedOnce, Once
<1>2. QED
  BY <1>1 DEF Once

LEMMA NextLoadedOnce ==
  ASSUME Typed, LoadedOnce, [Next]_vars
  PROVE  LoadedOnce'
<1>1. /\ \A r \in Request : req[r].phase = "approving" => req[r].draft \in Draft
      /\ DOMAIN req = Request /\ DOMAIN draft = Draft /\ DOMAIN batches = Draft
      /\ \A d \in Draft : batches[d] \in Nat
  BY DEF Typed
<1>2. ASSUME NEW S, req' = RequestsOvertaken(S), UNCHANGED <<draft, batches, overlap>>
      PROVE  LoadedOnce'
  <2>1. \A r \in Request : req'[r].phase = "approving" =>
           req[r].phase = "approving" /\ req'[r].draft = req[r].draft
    <3> SUFFICES ASSUME NEW r \in Request, req'[r].phase = "approving"
                 PROVE  req[r].phase = "approving" /\ req'[r].draft = req[r].draft
      OBVIOUS
    <3> DEFINE q == req[r]
    <3>1. req'[r] = IF q.phase = "proposing" THEN [q EXCEPT !.since = @ \cup (S \cap q.items)] ELSE q
      BY <1>2 DEF RequestsOvertaken
    <3>2. q \in Asked
      BY DEF Typed
    <3> HIDE DEF q
    <3>3. [q EXCEPT !.since = @ \cup (S \cap q.items)].phase = q.phase
      BY <3>2 DEF Asked
    <3>4. req'[r] = q
      BY <3>1, <3>3
    <3>5. QED
      BY <3>4 DEF q
  <2>2. QED
    BY <1>2, <2>1, OnceKept
<1>3. ASSUME NEW t \in Task, NEW s \in Subject, NEW l \in {Null} \cup ({s} \cap Step),
             CreateTask(t, s, l)
      PROVE  LoadedOnce'
  BY <1>2, <1>3 DEF CreateTask
<1>4. ASSUME NEW t \in Task, NEW v \in {"open", "closed"}, PatchTask(t, v)
      PROVE  LoadedOnce'
  BY <1>2, <1>4 DEF PatchTask
<1>5. ASSUME NEW t \in Task, ArchiveTask(t)
      PROVE  LoadedOnce'
  BY <1>5, OnceKept DEF ArchiveTask
<1>6. ASSUME NEW r \in Request, NEW due \in SUBSET Subject, Propose(r, due)
      PROVE  LoadedOnce'
  <2> DEFINE new == [Idle EXCEPT !.phase = "proposing", !.items = Proposals(due)]
  <2>1. new.phase = "proposing"
    BY DEF Idle
  <2>2. req' = [req EXCEPT ![r] = new] /\ UNCHANGED <<draft, batches, overlap>>
    BY <1>6 DEF Propose
  <2> HIDE DEF new
  <2>3. QED
    BY <1>1, <2>1, <2>2, OnceKept
<1>7. ASSUME NEW r \in Request, NEW d \in Draft, StoreDraft(r, d)
      PROVE  LoadedOnce'
  <2>1. /\ draft[d].state = "absent"
        /\ \A x \in Draft : x # d => draft'[x] = draft[x]
        /\ draft'[d].state = "pending"
        /\ \A q \in Request : req'[q].phase = "approving" => req'[q] = req[q]
        /\ UNCHANGED <<batches, overlap>>
    BY <1>1, <1>7 DEF StoreDraft, Idle
  <2> SUFFICES ASSUME NEW x \in Draft, x \notin overlap PROVE Once(x)'
    BY <2>1 DEF LoadedOnce, Once
  <2>2. Once(x)
    BY <2>1 DEF LoadedOnce, Once
  <2>3. QED
    BY <2>1, <2>2 DEF Once
<1>8. ASSUME NEW r \in Request, NEW d \in Draft, LoadApproval(r, d)
      PROVE  LoadedOnce'
  <2>1. /\ draft[d].state = "pending" /\ UNCHANGED <<draft, batches>>
        /\ overlap' = IF Loaded(d) = {} THEN overlap ELSE overlap \cup {d}
        /\ req'[r].draft = d
        /\ \A q \in Request : q # r => req'[q] = req[q]
    BY <1>1, <1>8 DEF LoadApproval, Approvable, Idle
  <2> SUFFICES ASSUME NEW x \in Draft, x \notin overlap' PROVE Once(x)'
    BY DEF LoadedOnce, Once
  <2>2. x \notin overlap /\ (x = d => Loaded(d) = {})
    BY <2>1
  <2>3. Once(x)
    BY <2>2 DEF LoadedOnce, Once
  <2>4. CASE x = d
    <3>1. \A q \in Request : ~(req[q].phase = "approving" /\ req[q].draft = d)
      BY <2>2, <2>4 DEF Loaded
    <3>2. QED
      BY <2>1, <2>3, <2>4, <3>1 DEF Once
  <2>5. CASE x # d
    BY <2>1, <2>3, <2>5 DEF Once
  <2>6. QED
    BY <2>4, <2>5
<1>9. ASSUME NEW r \in Request, NEW accepted \in SUBSET Subject,
             NEW new \in [accepted -> Fresh], CommitApproval(r, accepted, new)
      PROVE  LoadedOnce'
  <2> DEFINE d == req[r].draft
             f == RequestsOvertaken(accepted)
  <2>1. d \in Draft /\ req[r].phase = "approving"
    BY <1>1, <1>9 DEF CommitApproval
  <2>2. /\ draft' = [draft EXCEPT ![d].state = "approved"]
        /\ batches' = [batches EXCEPT ![d] = @ + 1]
        /\ req' = [f EXCEPT ![r] = Idle] /\ UNCHANGED overlap
    BY <1>9 DEF CommitApproval
  <2>3. \A q \in Request : f[q].phase = req[q].phase /\ f[q].draft = req[q].draft
    BY Overtakes
  <2>4. DOMAIN f = Request
    BY DEF RequestsOvertaken
  <2>5. \A q \in Request : q # r => /\ req'[q].phase = req[q].phase
                                    /\ req'[q].draft = req[q].draft
    BY <2>2, <2>3, <2>4
  <2>6. req'[r].phase = "idle"
    BY <2>2, <2>4 DEF Idle
  <2>7. /\ draft'[d].state = "approved" /\ batches'[d] = batches[d] + 1
        /\ \A x \in Draft : x # d => draft'[x] = draft[x] /\ batches'[x] = batches[x]
    <3>1. draft[d] \in DraftRow
      BY <2>1 DEF Typed
    <3>2. QED
      BY <1>1, <2>1, <2>2, <3>1 DEF DraftRow
  <2> SUFFICES ASSUME NEW x \in Draft, x \notin overlap PROVE Once(x)'
    BY <2>2 DEF LoadedOnce, Once
  <2>8. Once(x)
    BY DEF LoadedOnce, Once
  <2>9. CASE x = d
    <3>1. batches[d] = 0 /\ \A q \in Request : req[q].phase = "approving" /\ req[q].draft = d => q = r
      BY <2>1, <2>8, <2>9 DEF Once
    <3> HIDE DEF d
    <3>2. \A q \in Request : ~(req'[q].phase = "approving" /\ req'[q].draft = d)
      BY <2>5, <2>6, <3>1
    <3>3. batches'[d] = 1
      BY <2>7, <3>1
    <3>4. QED
      BY <2>7, <2>9, <3>2, <3>3 DEF Once
  <2>10. CASE x # d
    <3> HIDE DEF d
    <3>1. /\ \A q \in Request : req'[q].phase = "approving" /\ req'[q].draft = x =>
               req[q].phase = "approving" /\ req[q].draft = x
          /\ draft'[x] = draft[x] /\ batches'[x] = batches[x]
      BY <2>5, <2>6, <2>7, <2>10
    <3>2. QED
      BY <2>8, <3>1 DEF Once
  <2>11. QED
    BY <2>9, <2>10
<1>10. ASSUME NEW r \in Request, Fail(r)
       PROVE  LoadedOnce'
  <2>1. /\ req' = [req EXCEPT ![r] = Idle] /\ UNCHANGED <<draft, batches, overlap>>
    BY <1>10 DEF Fail
  <2>2. Idle.phase = "idle"
    BY DEF Idle
  <2>3. QED
    BY <1>1, <2>1, <2>2, OnceKept
<1>11. CASE UNCHANGED vars
  BY <1>11, OnceKept DEF vars
<1>12. QED
  BY <1>3, <1>4, <1>5, <1>6, <1>7, <1>8, <1>9, <1>10, <1>11 DEF Next

\* A draft becomes tasks twice only when two approvals of it were loaded at once, with
\* any number of reviewers, retries and failures (approve_draft).
THEOREM TasksOnceUnlessOverlapped == Spec => []SecondBatchOnlyByOverlap
<1>1. Init => LoadedOnce
  BY DEF Init, LoadedOnce, Idle
<1>2. Typed /\ LoadedOnce /\ [Next]_vars => LoadedOnce'
  BY NextLoadedOnce
<1>3. LoadedOnce => SecondBatchOnlyByOverlap
  BY DEF LoadedOnce, SecondBatchOnlyByOverlap
<1>4. QED
  BY <1>1, <1>2, <1>3, DraftsTypeCorrect, PTL DEF Spec

-----------------------------------------------------------------------------
(* Links between tasks.                                                    *)

\* A task that u waits for is an earlier step of the same approval, and both sides of
\* the link agree.
Linkage(t, u) ==
  /\ u \in task[t].blockedBy =>
       /\ task[u].draft = task[t].draft /\ task[u].batch = task[t].batch
       /\ task[u].title < task[t].title
  /\ u \in task[t].blockedBy <=> t \in task[u].blocks

LEMMA LinksAre ==
  Links <=> /\ \A t, u \in Task : Linkage(t, u)
            /\ \A t \in Task : task[t].state = "absent" => task[t] = NoTask
  BY DEF Links, BatchStandsAlone, Linkage

\* A task that does not exist is linked to nothing.
LEMMA NothingLinked ==
  ASSUME Links, NEW t \in Task, NEW u \in Task, task[t].state = "absent"
  PROVE  /\ t \notin task[u].blockedBy /\ t \notin task[u].blocks
         /\ u \notin task[t].blockedBy /\ u \notin task[t].blocks
<1>1. task[t].blockedBy = {} /\ task[t].blocks = {}
  BY DEF Links, NoTask
<1>2. Linkage(t, u) /\ Linkage(u, t)
  BY LinksAre
<1>3. QED
  BY <1>1, <1>2 DEF Linkage

\* Requests on one task leave its links alone, or make a task without any.
LEMMA LinksKept ==
  ASSUME Links, NEW t \in Task,
         \A u \in Task : u # t => task'[u] = task[u],
         task'[t].state # "absent",
         \/ /\ task'[t].title = task[t].title /\ task'[t].draft = task[t].draft
            /\ task'[t].batch = task[t].batch /\ task'[t].blockedBy = task[t].blockedBy
            /\ task'[t].blocks = task[t].blocks
         \/ task[t].state = "absent" /\ task'[t].blockedBy = {} /\ task'[t].blocks = {}
  PROVE  Links'
<1>1. ASSUME NEW x \in Task, NEW y \in Task
      PROVE  Linkage(x, y)'
  <2>1. Linkage(x, y)
    BY LinksAre
  <2>2. CASE /\ task'[t].title = task[t].title /\ task'[t].draft = task[t].draft
             /\ task'[t].batch = task[t].batch /\ task'[t].blockedBy = task[t].blockedBy
             /\ task'[t].blocks = task[t].blocks
    BY <2>1, <2>2 DEF Linkage
  <2>3. CASE task[t].state = "absent" /\ task'[t].blockedBy = {} /\ task'[t].blocks = {}
    <3>1. /\ t \notin task[y].blockedBy /\ t \notin task[x].blockedBy
          /\ t \notin task[y].blocks /\ t \notin task[x].blocks
      BY <2>3, NothingLinked
    <3>2. QED
      BY <2>1, <2>3, <3>1 DEF Linkage
  <2>4. QED
    BY <2>2, <2>3
<1>2. \A x \in Task : task'[x].state = "absent" => task'[x] = NoTask
  BY DEF Links
<1>3. QED
  BY <1>1, <1>2 DEF Links, BatchStandsAlone, Linkage

\* The tasks of one approval.
LEMMA LinksCommitted ==
  ASSUME Typed, Links, NEW r \in Request, NEW accepted \in SUBSET Subject,
         NEW new \in [accepted -> Fresh], CommitApproval(r, accepted, new)
  PROVE  Links'
<1> DEFINE d == req[r].draft
<1>1. /\ d \in Draft
      /\ \A s \in accepted : /\ new[s] \in Task /\ task[new[s]].state = "absent"
                             /\ task'[new[s]] = Made(d, new, accepted, s)
      /\ \A t \in Task : (\A s \in accepted : new[s] # t) => task'[t] = task[t]
      /\ \A s, u \in accepted : new[s] = new[u] => s = u
  BY Committed
<1>2. ASSUME NEW s \in accepted
      PROVE  LET m == task'[new[s]] IN
             /\ m.state = "live" /\ m.title = s /\ m.draft = d /\ m.batch = batches[d] + 1
             /\ m.blockedBy = Blockers(s, d, new)
             /\ m.blocks = {new[u] : u \in {v \in accepted : new[s] \in Blockers(v, d, new)}}
  <2>1. task'[new[s]] = Made(d, new, accepted, s)
    BY <1>1
  <2>2. LET m == Made(d, new, accepted, s) IN
        /\ m.state = "live" /\ m.title = s /\ m.draft = d /\ m.batch = batches[d] + 1
        /\ m.blockedBy = Blockers(s, d, new)
        /\ m.blocks = {new[u] : u \in {v \in accepted : new[s] \in Blockers(v, d, new)}}
    <3> HIDE DEF d
    <3>1. d \in Draft
      BY <1>1
    <3>2. QED
      BY <3>1, MadeColumns
  <2>3. QED
    BY <2>1, <2>2
<1>3. ASSUME NEW s \in accepted, NEW x \in Blockers(s, d, new)
      PROVE  \E u \in accepted : x = new[u] /\ u < s
  BY DEF Blockers, DependsOn
<1> HIDE DEF d
<1>4. ASSUME NEW t \in Task, NEW u \in Task
      PROVE  Linkage(t, u)'
  <2>1. CASE (\A s \in accepted : new[s] # t) /\ (\A s \in accepted : new[s] # u)
    <3>1. task'[t] = task[t] /\ task'[u] = task[u] /\ Linkage(t, u)
      BY <1>1, <2>1, LinksAre
    <3>2. QED
      BY <3>1 DEF Linkage
  <2>2. ASSUME NEW s \in accepted, new[s] = t, \A w \in accepted : new[w] # u
        PROVE  Linkage(t, u)'
    <3>1. u \notin task'[t].blockedBy
      BY <1>2, <1>3, <2>2
    <3>2. task'[u] = task[u] /\ t \notin task[u].blocks
      BY <1>1, <2>2, NothingLinked
    <3>3. QED
      BY <3>1, <3>2 DEF Linkage
  <2>3. ASSUME NEW s \in accepted, new[s] = u, \A w \in accepted : new[w] # t
        PROVE  Linkage(t, u)'
    <3>1. t \notin task'[u].blocks
      BY <1>2, <2>3
    <3>2. task'[t] = task[t] /\ u \notin task[t].blockedBy
      BY <1>1, <2>3, NothingLinked
    <3>3. QED
      BY <3>1, <3>2 DEF Linkage
  <2>4. ASSUME NEW s \in accepted, new[s] = t, NEW w \in accepted, new[w] = u
        PROVE  Linkage(t, u)'
    <3>1. /\ task'[t].title = s /\ task'[u].title = w
          /\ task'[t].draft = task'[u].draft /\ task'[t].batch = task'[u].batch
          /\ task'[t].blockedBy = Blockers(s, d, new)
          /\ task'[u].blocks = {new[z] : z \in {v \in accepted : u \in Blockers(v, d, new)}}
      BY <1>2, <2>4
    <3>2. u \in Blockers(s, d, new) => w < s
      <4> SUFFICES ASSUME u \in Blockers(s, d, new) PROVE w < s
        OBVIOUS
      <4>1. PICK z \in accepted : u = new[z] /\ z < s
        BY <1>3
      <4>2. z = w
        BY <1>1, <2>4, <4>1
      <4>3. QED
        BY <4>1, <4>2
    <3>3. u \in Blockers(s, d, new) <=> t \in task'[u].blocks
      BY <1>1, <2>4, <3>1
    <3>4. QED
      BY <3>1, <3>2, <3>3 DEF Linkage
  <2>5. QED
    BY <2>1, <2>2, <2>3, <2>4
<1>5. ASSUME NEW t \in Task, task'[t].state = "absent"
      PROVE  task'[t] = NoTask
  <2>1. \A s \in accepted : new[s] # t
    BY <1>2, <1>5
  <2>2. task'[t] = task[t]
    BY <1>1, <2>1
  <2>3. QED
    BY <1>5, <2>2 DEF Links
<1>6. QED
  BY <1>4, <1>5 DEF Links, BatchStandsAlone, Linkage

LEMMA NextLinks ==
  ASSUME Typed, Links, [Next]_vars
  PROVE  Links'
<1>1. DOMAIN task = Task
  BY DEF Typed
<1>2. ASSUME UNCHANGED task
      PROVE  Links'
  BY <1>2 DEF Links, BatchStandsAlone
<1>3. ASSUME NEW t \in Task, NEW s \in Subject, NEW l \in {Null} \cup ({s} \cap Step),
             CreateTask(t, s, l)
      PROVE  Links'
  <2> DEFINE row == [NoTask EXCEPT !.state = "live", !.title = s, !.status = "open", !.link = l]
  <2>1. row.state = "live" /\ row.blockedBy = {} /\ row.blocks = {}
    BY DEF NoTask
  <2>2. task' = [task EXCEPT ![t] = row] /\ task[t].state = "absent"
    BY <1>3 DEF CreateTask, Fresh
  <2> HIDE DEF row
  <2>3. task'[t] = row /\ \A u \in Task : u # t => task'[u] = task[u]
    BY <1>1, <2>2
  <2>4. QED
    BY <2>1, <2>2, <2>3, LinksKept
<1>4. ASSUME NEW t \in Task, NEW v \in {"open", "closed"}, PatchTask(t, v)
      PROVE  Links'
  <2> DEFINE row == [task[t] EXCEPT !.status = v]
  <2>1. /\ row.state = task[t].state /\ row.title = task[t].title /\ row.draft = task[t].draft
        /\ row.batch = task[t].batch /\ row.blockedBy = task[t].blockedBy
        /\ row.blocks = task[t].blocks
    <3>1. task[t] \in TaskRow
      BY DEF Typed
    <3>2. QED
      BY <3>1 DEF TaskRow
  <2>2. task' = [task EXCEPT ![t] = row] /\ task[t].state = "live"
    BY <1>4 DEF PatchTask, Live
  <2> HIDE DEF row
  <2>3. task'[t] = row /\ \A u \in Task : u # t => task'[u] = task[u]
    BY <1>1, <2>2
  <2>4. task'[t].state # "absent"
    BY <2>1, <2>2, <2>3
  <2>5. QED
    BY <2>1, <2>3, <2>4, LinksKept
<1>5. ASSUME NEW t \in Task, ArchiveTask(t)
      PROVE  Links'
  <2> DEFINE row == [task[t] EXCEPT !.state = "archived"]
  <2>1. /\ row.state = "archived" /\ row.title = task[t].title /\ row.draft = task[t].draft
        /\ row.batch = task[t].batch /\ row.blockedBy = task[t].blockedBy
        /\ row.blocks = task[t].blocks
    BY TaskRequests
  <2>2. task' = [task EXCEPT ![t] = row]
    BY <1>5 DEF ArchiveTask
  <2> HIDE DEF row
  <2>3. task'[t] = row /\ \A u \in Task : u # t => task'[u] = task[u]
    BY <1>1, <2>2
  <2>4. QED
    BY <2>1, <2>3, LinksKept
<1>6. ASSUME NEW r \in Request, NEW accepted \in SUBSET Subject,
             NEW new \in [accepted -> Fresh], CommitApproval(r, accepted, new)
      PROVE  Links'
  BY <1>6, LinksCommitted
<1>7. ASSUME NEW r \in Request, NEW d \in Draft
      PROVE  StoreDraft(r, d) \/ LoadApproval(r, d) => UNCHANGED task
  BY DEF StoreDraft, LoadApproval
<1>8. ASSUME NEW r \in Request
      PROVE  /\ \A due \in SUBSET Subject : Propose(r, due) => UNCHANGED task
             /\ Fail(r) => UNCHANGED task
  BY DEF Propose, Fail
<1>9. UNCHANGED vars => UNCHANGED task
  BY DEF vars
<1>10. QED
  BY <1>2, <1>3, <1>4, <1>5, <1>6, <1>7, <1>8, <1>9 DEF Next

\* The tasks of an approval stand alone: each waits for earlier steps of its own
\* approval, and nothing made by hand, by another approval or by another draft is
\* linked to them (_materialise_tasks).
THEOREM ApprovalsStandAlone == Spec => []BatchStandsAlone
<1>1. Init => Links
  BY DEF Init, NoTask, Links, BatchStandsAlone
<1>2. Typed /\ Links /\ [Next]_vars => Links'
  BY NextLinks
<1>3. Links => BatchStandsAlone
  BY DEF Links
<1>4. QED
  BY <1>1, <1>2, <1>3, DraftsTypeCorrect, PTL DEF Spec

-----------------------------------------------------------------------------
(* Suggestions that an open task covers.                                   *)

\* Subjects that got an open task are added to since, of drafts and of proposals.
LEMMA CoveredGrows ==
  ASSUME Typed, Covered, NEW S,
         \A s : OpenFor(s)' # {} => OpenFor(s) # {} \/ s \in S,
         \A d \in Draft : draft'[d].state = "pending" => draft'[d] = draft[d],
         \A d \in Draft : draft'[d].state = "pending" =>
           since[d] \subseteq since'[d] /\ S \cap draft[d].items \subseteq since'[d],
         \A r \in Request : req'[r].phase = "proposing" =>
           /\ req[r].phase = "proposing" /\ req'[r].items = req[r].items
           /\ req[r].since \subseteq req'[r].since
           /\ S \cap req[r].items \subseteq req'[r].since
  PROVE  Covered'
<1>1. ASSUME NEW d \in Draft, draft'[d].state = "pending",
             NEW s \in draft'[d].items, OpenFor(s)' # {}
      PROVE  s \in since'[d]
  <2>1. draft'[d] = draft[d]
    BY <1>1
  <2>2. s \in draft[d].items /\ draft[d].state = "pending"
    BY <1>1, <2>1
  <2>3. OpenFor(s) # {} \/ s \in S
    BY <1>1
  <2>4. since[d] \subseteq since'[d] /\ S \cap draft[d].items \subseteq since'[d]
    BY <1>1
  <2>5. OpenFor(s) # {} => s \in since[d]
    BY <2>2 DEF Covered, CoveredOnlySince
  <2>6. QED
    BY <2>2, <2>3, <2>4, <2>5
<1>2. ASSUME NEW r \in Request, req'[r].phase = "proposing",
             NEW s \in req'[r].items, OpenFor(s)' # {}
      PROVE  s \in req'[r].since
  <2>1. /\ req[r].phase = "proposing" /\ s \in req[r].items
        /\ req[r].since \subseteq req'[r].since
        /\ S \cap req[r].items \subseteq req'[r].since
    BY <1>2
  <2>2. OpenFor(s) # {} \/ s \in S
    BY <1>2
  <2>3. OpenFor(s) # {} => s \in req[r].since
    BY <2>1 DEF Covered
  <2>4. QED
    BY <2>1, <2>2, <2>3
<1>3. QED
  BY <1>1, <1>2 DEF Covered, CoveredOnlySince

\* The same, when the commit that gives S its tasks overtakes drafts and requests.
LEMMA CoveredOvertaken ==
  ASSUME Typed, Covered, NEW S \in SUBSET Subject,
         \A s : OpenFor(s)' # {} => OpenFor(s) # {} \/ s \in S,
         \A d \in Draft : draft'[d].state = "pending" => draft'[d] = draft[d],
         since' = DraftsOvertaken(S),
         \A r \in Request : req'[r].phase = "proposing" => req'[r] = RequestsOvertaken(S)[r]
  PROVE  Covered'
<1>1. \A d \in Draft : draft'[d].state = "pending" =>
        since'[d] = since[d] \cup (S \cap draft[d].items)
  BY DEF DraftsOvertaken
<1>2. \A r \in Request : req'[r].phase = "proposing" =>
        /\ req[r].phase = "proposing" /\ req'[r].items = req[r].items
        /\ req'[r].since = req[r].since \cup (S \cap req[r].items)
  BY Overtakes
<1>3. QED
  BY <1>1, <1>2, CoveredGrows

LEMMA NextCovered ==
  ASSUME Typed, Covered, [Next]_vars
  PROVE  Covered'
<1>1. DOMAIN task = Task /\ DOMAIN req = Request /\ DOMAIN draft = Draft /\ DOMAIN since = Draft
  BY DEF Typed
<1>2. ASSUME UNCHANGED task, NEW s
      PROVE  OpenFor(s)' = OpenFor(s)
  BY <1>2 DEF OpenFor, Live
<1>3. ASSUME NEW t \in Task, NEW s \in Subject, NEW l \in {Null} \cup ({s} \cap Step),
             CreateTask(t, s, l)
      PROVE  Covered'
  <2> DEFINE row == [NoTask EXCEPT !.state = "live", !.title = s, !.status = "open", !.link = l]
  <2>1. row.title = s
    BY DEF NoTask
  <2>2. task' = [task EXCEPT ![t] = row] /\ UNCHANGED draft
        /\ since' = DraftsOvertaken({s}) /\ req' = RequestsOvertaken({s})
    BY <1>3 DEF CreateTask
  <2> HIDE DEF row
  <2>3. task'[t].title = s /\ \A u \in Task : u # t => task'[u] = task[u]
    BY <1>1, <2>1, <2>2
  <2>4. \A x : OpenFor(x)' # {} => OpenFor(x) # {} \/ x \in {s}
    BY <2>3 DEF OpenFor, Live
  <2>5. {s} \in SUBSET Subject
    OBVIOUS
  <2>6. QED
    BY <2>2, <2>4, <2>5, CoveredOvertaken
<1>4. ASSUME NEW t \in Task, NEW v \in {"open", "closed"}, PatchTask(t, v)
      PROVE  Covered'
  <2> DEFINE row == [task[t] EXCEPT !.status = v]
             S == IF v = "open" THEN {task[t].title} ELSE {}
  <2>1. row.status = v /\ row.state = task[t].state /\ row.title = task[t].title
    <3>1. task[t] \in TaskRow
      BY DEF Typed
    <3>2. QED
      BY <3>1 DEF TaskRow
  <2>2. task' = [task EXCEPT ![t] = row] /\ UNCHANGED draft
        /\ since' = DraftsOvertaken(S) /\ req' = RequestsOvertaken(S)
    BY <1>4 DEF PatchTask
  <2> HIDE DEF row
  <2>3. task'[t] = row /\ \A u \in Task : u # t => task'[u] = task[u]
    BY <1>1, <2>2
  <2>4. \A x : OpenFor(x)' # {} => OpenFor(x) # {} \/ x \in S
    <3> SUFFICES ASSUME NEW x, NEW u \in OpenFor(x)', x \notin S PROVE u \in OpenFor(x)
      OBVIOUS
    <3>1. u \in Task /\ task'[u].state = "live" /\ task'[u].title = x /\ task'[u].status = "open"
      BY DEF OpenFor, Live
    <3>2. u # t
      BY <2>1, <2>3, <3>1
    <3>3. QED
      BY <2>3, <3>1, <3>2 DEF OpenFor, Live
  <2> HIDE DEF S
  <2>5. \A d \in Draft : draft'[d].state = "pending" =>
          since'[d] = since[d] \cup (S \cap draft[d].items)
    BY <2>2 DEF DraftsOvertaken
  <2>6. \A r \in Request : req'[r].phase = "proposing" =>
          /\ req[r].phase = "proposing" /\ req'[r].items = req[r].items
          /\ req'[r].since = req[r].since \cup (S \cap req[r].items)
    <3> SUFFICES ASSUME NEW r \in Request, req'[r].phase = "proposing"
                 PROVE  /\ req[r].phase = "proposing" /\ req'[r].items = req[r].items
                        /\ req'[r].since = req[r].since \cup (S \cap req[r].items)
      OBVIOUS
    <3> DEFINE q == req[r]
    <3>1. req'[r] = IF q.phase = "proposing" THEN [q EXCEPT !.since = @ \cup (S \cap q.items)] ELSE q
      BY <2>2 DEF RequestsOvertaken
    <3>2. q \in Asked
      BY DEF Typed
    <3> HIDE DEF q
    <3>3. q.phase = "proposing"
      BY <3>1
    <3>4. req'[r] = [q EXCEPT !.since = @ \cup (S \cap q.items)]
      BY <3>1, <3>3
    <3>5. req'[r].items = q.items /\ req'[r].since = q.since \cup (S \cap q.items)
      BY <3>2, <3>4 DEF Asked
    <3>6. QED
      BY <3>3, <3>5 DEF q
  <2>7. /\ \A d \in Draft : draft'[d].state = "pending" =>
             since[d] \subseteq since'[d] /\ S \cap draft[d].items \subseteq since'[d]
        /\ \A r \in Request : req'[r].phase = "proposing" =>
             /\ req[r].phase = "proposing" /\ req'[r].items = req[r].items
             /\ req[r].since \subseteq req'[r].since
             /\ S \cap req[r].items \subseteq req'[r].since
    BY <2>5, <2>6
  <2>8. \A d \in Draft : draft'[d].state = "pending" => draft'[d] = draft[d]
    BY <2>2
  <2>9. QED
    BY <2>4, <2>7, <2>8, CoveredGrows
<1>5. ASSUME NEW t \in Task, ArchiveTask(t)
      PROVE  Covered'
  <2> DEFINE row == [task[t] EXCEPT !.state = "archived"]
  <2>1. row.state = "archived"
    BY TaskRequests
  <2>2. task' = [task EXCEPT ![t] = row] /\ UNCHANGED <<draft, req, since>>
    BY <1>5 DEF ArchiveTask
  <2> HIDE DEF row
  <2>3. task'[t] = row /\ \A u \in Task : u # t => task'[u] = task[u]
    BY <1>1, <2>2
  <2>4. \A x : OpenFor(x)' # {} => OpenFor(x) # {} \/ x \in {}
    BY <2>1, <2>3 DEF OpenFor, Live
  <2>5. QED
    BY <2>2, <2>4, CoveredGrows
<1>6. ASSUME NEW r \in Request, NEW due \in SUBSET Subject, Propose(r, due)
      PROVE  Covered'
  <2> DEFINE new == [Idle EXCEPT !.phase = "proposing", !.items = Proposals(due)]
  <2>1. new.items = Proposals(due)
    BY DEF Idle
  <2>2. req' = [req EXCEPT ![r] = new] /\ UNCHANGED <<task, draft, since>>
    BY <1>6 DEF Propose
  <2> HIDE DEF new
  <2>3. req'[r] = new /\ \A q \in Request : q # r => req'[q] = req[q]
    BY <1>1, <2>2
  <2>4. \A s \in new.items : OpenFor(s) = {}
    BY <2>1 DEF Proposals
  <2>5. CoveredOnlySince'
    BY <1>2, <2>2 DEF Covered, CoveredOnlySince
  <2>6. ASSUME NEW q \in Request, req'[q].phase = "proposing",
               NEW s \in req'[q].items, OpenFor(s)' # {}
        PROVE  s \in req'[q].since
    <3>1. OpenFor(s) # {}
      BY <1>2, <2>2, <2>6
    <3>2. q # r
      BY <2>3, <2>4, <2>6, <3>1
    <3>3. req'[q] = req[q]
      BY <2>3, <3>2
    <3>4. QED
      BY <2>6, <3>1, <3>3 DEF Covered
  <2>7. QED
    BY <2>5, <2>6 DEF Covered
<1>7. ASSUME NEW r \in Request, NEW d \in Draft, StoreDraft(r, d)
      PROVE  Covered'
  <2> DEFINE new == [state |-> "pending", items |-> req[r].items]
  <2>1. /\ req[r].phase = "proposing" /\ draft'[d] = new /\ since'[d] = req[r].since
        /\ \A x \in Draft : x # d => draft'[x] = draft[x] /\ since'[x] = since[x]
        /\ req'[r].phase = "idle" /\ \A q \in Request : q # r => req'[q] = req[q]
        /\ UNCHANGED task
    BY <1>1, <1>7 DEF StoreDraft, Idle
  <2>2. new.items = req[r].items
    OBVIOUS
  <2> HIDE DEF new
  <2>3. ASSUME NEW x \in Draft, draft'[x].state = "pending",
               NEW s \in draft'[x].items, OpenFor(s)' # {}
        PROVE  s \in since'[x]
    <3>1. OpenFor(s) # {}
      BY <1>2, <2>1, <2>3
    <3>2. CASE x = d
      BY <2>1, <2>2, <2>3, <3>1, <3>2 DEF Covered
    <3>3. CASE x # d
      <4>1. draft'[x] = draft[x] /\ since'[x] = since[x]
        BY <2>1, <3>3
      <4>2. QED
        BY <2>3, <3>1, <4>1 DEF Covered, CoveredOnlySince
    <3>4. QED
      BY <3>2, <3>3
  <2>4. ASSUME NEW q \in Request, req'[q].phase = "proposing",
               NEW s \in req'[q].items, OpenFor(s)' # {}
        PROVE  s \in req'[q].since
    <3>1. OpenFor(s) # {}
      BY <1>2, <2>1, <2>4
    <3>2. req'[q] = req[q]
      BY <2>1, <2>4
    <3>3. QED
      BY <2>4, <3>1, <3>2 DEF Covered
  <2>5. QED
    BY <2>3, <2>4 DEF Covered, CoveredOnlySince
<1>8. ASSUME NEW r \in Request, NEW new \in Asked, new.phase # "proposing",
             req' = [req EXCEPT ![r] = new], UNCHANGED <<task, draft, since>>
      PROVE  Covered'
  <2>1. \A q \in Request : req'[q].phase = "proposing" => req'[q] = req[q]
    BY <1>1, <1>8
  <2>2. \A s : OpenFor(s)' # {} => OpenFor(s) # {} \/ s \in {}
    BY <1>2, <1>8
  <2>3. QED
    BY <1>8, <2>1, <2>2, CoveredGrows
<1>9. ASSUME NEW r \in Request, NEW d \in Draft, LoadApproval(r, d)
      PROVE  Covered'
  <2> DEFINE new == [Idle EXCEPT !.phase = "approving", !.draft = d]
  <2>1. new \in Asked /\ new.phase = "approving"
    BY DEF Idle, Asked
  <2>2. req' = [req EXCEPT ![r] = new] /\ UNCHANGED <<task, draft, since>>
    BY <1>9 DEF LoadApproval
  <2> HIDE DEF new
  <2>3. QED
    BY <1>8, <2>1, <2>2
<1>10. ASSUME NEW r \in Request, NEW accepted \in SUBSET Subject,
              NEW new \in [accepted -> Fresh], CommitApproval(r, accepted, new)
       PROVE  Covered'
  <2> DEFINE d == req[r].draft
             f == RequestsOvertaken(accepted)
  <2>1. /\ d \in Draft
        /\ \A s \in accepted : new[s] \in Task /\ task'[new[s]] = Made(d, new, accepted, s)
        /\ \A t \in Task : (\A s \in accepted : new[s] # t) => task'[t] = task[t]
    BY <1>10, Committed
  <2>2. ASSUME NEW s \in accepted
        PROVE  task'[new[s]].title = s
    <3>1. task'[new[s]] = Made(d, new, accepted, s) /\ d \in Draft
      BY <2>1
    <3> HIDE DEF d
    <3>2. Made(d, new, accepted, s).title = s
      BY <3>1, MadeColumns
    <3>3. QED
      BY <3>1, <3>2
  <2>3. /\ draft' = [draft EXCEPT ![d].state = "approved"]
        /\ since' = DraftsOvertaken(accepted)
        /\ req' = [f EXCEPT ![r] = Idle]
    BY <1>10 DEF CommitApproval
  <2>4. \A x : OpenFor(x)' # {} => OpenFor(x) # {} \/ x \in accepted
    <3> SUFFICES ASSUME NEW x, NEW u \in OpenFor(x)', x \notin accepted PROVE u \in OpenFor(x)
      OBVIOUS
    <3>1. u \in Task /\ task'[u].state = "live" /\ task'[u].title = x /\ task'[u].status = "open"
      BY DEF OpenFor, Live
    <3>2. \A s \in accepted : new[s] # u
      BY <2>2, <3>1
    <3>3. QED
      BY <2>1, <3>1, <3>2 DEF OpenFor, Live
  <2>5. \A x \in Draft : draft'[x].state = "pending" => draft'[x] = draft[x]
    <3>1. draft[d] \in DraftRow
      BY <2>1 DEF Typed
    <3>2. draft'[d].state = "approved"
      BY <1>1, <2>1, <2>3, <3>1 DEF DraftRow
    <3>3. QED
      BY <1>1, <2>3, <3>2
  <2>6. \A q \in Request : req'[q].phase = "proposing" => req'[q] = f[q]
    <3>1. DOMAIN f = Request /\ Idle.phase = "idle"
      BY DEF RequestsOvertaken, Idle
    <3>2. QED
      BY <2>3, <3>1
  <2>7. QED
    BY <2>3, <2>4, <2>5, <2>6, CoveredOvertaken
<1>11. ASSUME NEW r \in Request, Fail(r)
       PROVE  Covered'
  <2>1. req' = [req EXCEPT ![r] = Idle] /\ UNCHANGED <<task, draft, since>>
    BY <1>11 DEF Fail
  <2>2. Idle \in Asked /\ Idle.phase = "idle"
    BY DEF Idle, Asked
  <2>3. QED
    BY <1>8, <2>1, <2>2
<1>12. CASE UNCHANGED vars
  <2>1. UNCHANGED <<task, draft, req, since>>
    BY <1>12 DEF vars
  <2>2. \A s : OpenFor(s)' # {} => OpenFor(s) # {} \/ s \in {}
    BY <1>2, <2>1
  <2>3. QED
    BY <2>1, <2>2, CoveredGrows
<1>13. QED
  BY <1>3, <1>4, <1>5, <1>6, <1>7, <1>9, <1>10, <1>11, <1>12 DEF Next

\* A pending suggestion that an open task covers got that task after the run read the
\* tasks, however many runs, drafts and people there are (_propose_node).
THEOREM CoveredOnlyByLaterTasks == Spec => []CoveredOnlySince
<1>1. Init => Covered
  BY DEF Init, NoDraft, Idle, Covered, CoveredOnlySince
<1>2. Typed /\ Covered /\ [Next]_vars => Covered'
  BY NextCovered
<1>3. Covered => CoveredOnlySince
  BY DEF Covered
<1>4. QED
  BY <1>1, <1>2, <1>3, DraftsTypeCorrect, PTL DEF Spec

-----------------------------------------------------------------------------
(* Corpus                                                                  *)

-----------------------------------------------------------------------------
(* What is stored is of one fetch.                                         *)

Text == [words : Saying, parts : BOOLEAN]
DocColumns == [hash : Page, text : Text, version : Nat]
ChunkRows == [id : Nat, text : Text, vectors : SUBSET Batch, blind : BOOLEAN]
DocRow == [row : DocColumns, chunks : ChunkRows, overtaken : BOOLEAN, kept : BOOLEAN]

IngestRun == [phase : {"fetched", "review", "loaded"}, force : BOOLEAN,
              on : BOOLEAN, page : Page, doc : {0, 1}, seen : DocColumns \cup {NoRun},
              text : Text \cup {NoRun}, overtaken : BOOLEAN]
StatusWord == {"idle", "running", "complete", "error"}
SwitchPhase == {"switch", "applying", "skipped", "found", "status"}
SwitchRun == [phase : SwitchPhase, on : BOOLEAN, was : BOOLEAN, before : BOOLEAN,
              found : BOOLEAN, word : StatusWord]

\* Rows and runs have their columns.
CorpusTyped ==
  /\ made \in Nat /\ enabled \in BOOLEAN /\ status \in StatusWord
  /\ docs \in Seq(DocRow)
  /\ run \in [Run -> {NoRun} \cup IngestRun \cup SwitchRun]

\* What an ingest carries to its commit.
LoadedRun(q) ==
  /\ q.text \in Text /\ q.text.words = Words[q.page]
  /\ q.doc = 1 => docs # <<>> /\ q.seen \in DocColumns

\* What it loaded is what is stored, as long as no other has committed.
StillSeen(q) ==
  /\ q.doc = 0 => docs = <<>>
  /\ q.doc = 1 => q.seen = docs[1].row

RunsLoaded ==
  \A r \in Run : run[r].phase = "loaded" =>
    LoadedRun(run[r]) /\ (~run[r].overtaken => StillSeen(run[r]))

-----------------------------------------------------------------------------
(* Complete means embedded.                                                *)

BatchOf(d, b) == [doc |-> d, id |-> docs[d].chunks.id, batch |-> b]

\* Batch b of the chunks of d has no vectors, and was not stored by an ingest without a
\* provider while embeddings were on.
Missing(d, b) ==
  d \in DOMAIN docs /\ b \in Batch /\ b \notin docs[d].chunks.vectors /\ ~docs[d].chunks.blind

JobRow == {Off, [phase |-> "due"]} \cup
          [phase : {"running"}, todo : SUBSET [doc : Nat, id : Nat, batch : Batch]]

\* Between two lone starts there is one job; until it ends the status is not "complete",
\* and with embeddings on it has everything before it that is still to be embedded.
OneJob ==
  /\ job \in [Job -> JobRow]
  /\ ~crossed =>
       /\ \A i, j \in Active : i = j
       /\ \A j \in Active : status # "complete"
       /\ enabled => \A j \in Active : job[j].phase = "running" =>
            \A d, b : Missing(d, b) => BatchOf(d, b) \in job[j].todo
       /\ enabled /\ Active = {} /\ status = "complete" => \A d, b : ~Missing(d, b)

-----------------------------------------------------------------------------
(* Runs that begin, go on and end.                                         *)

\* A run in flight is an ingest or a switch, and not the idle record.
LEMMA InFlightIs ==
  ASSUME CorpusTyped, NEW r \in Run
  PROVE  /\ run[r].phase = "loaded" => run[r] \in IngestRun
         /\ run[r].phase \in SwitchPhase => run[r] \in SwitchRun
         /\ run[r].phase \in {"fetched", "review"} => run[r] \in IngestRun
<1>1. run[r] \in {NoRun} \cup IngestRun \cup SwitchRun /\ NoRun.phase = "idle"
  BY DEF CorpusTyped, NoRun
<1>2. ASSUME run[r] \in IngestRun PROVE run[r].phase \in {"fetched", "review", "loaded"}
  BY <1>2 DEF IngestRun
<1>3. ASSUME run[r] \in SwitchRun PROVE run[r].phase \in SwitchPhase
  BY <1>3 DEF SwitchRun
<1>4. QED
  BY <1>1, <1>2, <1>3 DEF SwitchPhase

\* A run that begins, ends, or goes on without loading the document leaves the others as
\* they were.
LEMMA RunGoesOn ==
  ASSUME CorpusTyped, RunsLoaded, NEW r \in Run,
         NEW new \in {NoRun} \cup IngestRun \cup SwitchRun, new.phase # "loaded",
         run' = [run EXCEPT ![r] = new], docs' = docs
  PROVE  /\ run' \in [Run -> {NoRun} \cup IngestRun \cup SwitchRun]
         /\ RunsLoaded'
<1>1. run' \in [Run -> {NoRun} \cup IngestRun \cup SwitchRun]
  BY DEF CorpusTyped
<1>2. run'[r] = new /\ \A q \in Run : q # r => run'[q] = run[q]
  BY DEF CorpusTyped
<1>3. RunsLoaded'
  <2> SUFFICES ASSUME NEW q \in Run, run'[q].phase = "loaded"
               PROVE  LoadedRun(run[q])' /\ (~run'[q].overtaken => StillSeen(run[q])')
    BY DEF RunsLoaded
  <2>1. run'[q] = run[q]
    BY <1>2
  <2>2. QED
    BY <2>1 DEF RunsLoaded, LoadedRun, StillSeen
<1>4. QED
  BY <1>1, <1>3

\* The stored document is loaded.
LEMMA RunLoads ==
  ASSUME CorpusTyped, RunsLoaded, NEW r \in Run, NEW parts \in BOOLEAN, LoadDoc(r, parts)
  PROVE  /\ run' \in [Run -> {NoRun} \cup IngestRun \cup SwitchRun]
         /\ RunsLoaded'
<1> DEFINE q == run[r]
           seen == IF docs = <<>> THEN NoRun ELSE docs[ExistingDoc].row
           text == GuideText(q.page, parts)
           new == [q EXCEPT !.phase = "loaded", !.doc = ExistingDoc, !.seen = seen, !.text = text]
<1>1. q \in IngestRun /\ docs' = docs
  BY InFlightIs DEF LoadDoc
<1>2. docs # <<>> => docs[1] \in DocRow
  BY DEF CorpusTyped
<1>3. docs # <<>> => docs[1].row \in DocColumns
  BY <1>2 DEF DocRow
<1>4. seen \in DocColumns \cup {NoRun} /\ ExistingDoc \in {0, 1}
  BY <1>3 DEF ExistingDoc
<1>5. /\ ExistingDoc = 0 => docs = <<>>
      /\ ExistingDoc = 1 => docs # <<>> /\ seen = docs[1].row /\ seen \in DocColumns
  BY <1>3 DEF ExistingDoc
<1>6. q.page \in Page
  BY <1>1 DEF IngestRun
<1>7. text \in Text /\ text.words = Words[q.page]
  BY <1>6, CorpusAssumption DEF GuideText, Text
<1>8. run' = [run EXCEPT ![r] = new]
  BY DEF LoadDoc
<1> HIDE DEF q, seen, text
<1>9. /\ new \in IngestRun /\ new.phase = "loaded" /\ new.doc = ExistingDoc /\ new.seen = seen
      /\ new.text = text /\ new.page = q.page
  BY <1>1, <1>4, <1>7 DEF IngestRun
<1> HIDE DEF new
<1>10. run' \in [Run -> {NoRun} \cup IngestRun \cup SwitchRun]
  BY <1>8, <1>9 DEF CorpusTyped
<1>11. run'[r] = new /\ \A p \in Run : p # r => run'[p] = run[p]
  BY <1>8 DEF CorpusTyped
<1>12. LoadedRun(new) /\ StillSeen(new)
  BY <1>5, <1>7, <1>9 DEF LoadedRun, StillSeen
<1>13. RunsLoaded'
  <2> SUFFICES ASSUME NEW p \in Run, run'[p].phase = "loaded"
               PROVE  LoadedRun(run[p])' /\ (~run'[p].overtaken => StillSeen(run[p])')
    BY DEF RunsLoaded
  <2>1. LoadedRun(run'[p]) /\ (~run'[p].overtaken => StillSeen(run'[p]))
    BY <1>11, <1>12 DEF RunsLoaded
  <2>2. QED
    BY <1>1, <2>1 DEF LoadedRun, StillSeen
<1>14. QED
  BY <1>10, <1>13

-----------------------------------------------------------------------------
(* Commits and the document.                                               *)

\* The hash, the text and the chunks of x are of one fetch, or it was overtaken with a
\* column left unwritten.
OfOneFetch(x) ==
  \/ x.row.text.words = Words[x.row.hash] /\ x.chunks.text = x.row.text
  \/ x.overtaken /\ x.kept

LEMMA OneFetchIs ==
  CorpusOfOneFetch <=> \A i \in DOMAIN docs : OfOneFetch(docs[i]) /\ (i > 1 => docs[i].overtaken)
BY DEF CorpusOfOneFetch, OfOneFetch

\* What the commit of q stores.
NewDoc(q) ==
  [row |-> Stored(q), chunks |-> Chunks(q), overtaken |-> q.overtaken, kept |-> Kept(q)]

LEMMA NewDocIs ==
  ASSUME CorpusTyped, NEW q \in IngestRun, LoadedRun(q), ~q.overtaken => StillSeen(q)
  PROVE  NewDoc(q) \in DocRow /\ OfOneFetch(NewDoc(q)) /\ NewDoc(q).overtaken = q.overtaken
<1> DEFINE stored == Stored(q)
           chunks == Chunks(q)
           kept == Kept(q)
<1>1. /\ q.page \in Page /\ q.text \in Text /\ q.text.words = Words[q.page] /\ q.doc \in {0, 1}
      /\ q.overtaken \in BOOLEAN /\ q.on \in BOOLEAN
  BY DEF IngestRun, LoadedRun
<1>2. ASSUME q.doc = 1
      PROVE  /\ docs[1].row.hash \in Page /\ docs[1].row.text \in Text
             /\ q.seen.version \in Nat
  <2>1. docs # <<>> /\ q.seen \in DocColumns
    BY <1>2 DEF LoadedRun
  <2>2. docs[1] \in DocRow
    BY <2>1 DEF CorpusTyped
  <2>3. docs[1].row \in DocColumns
    BY <2>2 DEF DocRow
  <2>4. QED
    BY <2>1, <2>3 DEF DocColumns
<1>3. chunks \in ChunkRows /\ chunks.text = q.text
  <2>1. made + 1 \in Nat /\ Vectors(q.on) \in SUBSET Batch
    BY <1>1 DEF CorpusTyped, Vectors
  <2>2. (enabled /\ ~(q.on /\ provider = "local")) \in BOOLEAN
    BY <1>1 DEF CorpusTyped
  <2>3. QED
    BY <1>1, <2>1, <2>2 DEF Chunks, ChunkRows
<1>4. kept \in BOOLEAN /\ (~kept => q.doc = 0 \/ (q.page # q.seen.hash /\ q.text # q.seen.text))
  BY DEF Kept
<1>5. /\ stored \in DocColumns
      /\ ~(q.overtaken /\ kept) => stored.hash = q.page /\ stored.text = q.text
  <2> HIDE DEF kept
  <2>1. CASE q.doc = 0
    <3>1. stored = [hash |-> q.page, text |-> q.text, version |-> 1]
      BY <2>1 DEF Stored
    <3>2. QED
      BY <1>1, <3>1 DEF DocColumns
  <2>2. CASE q.doc = 1
    <3> DEFINE hash == IF q.page = q.seen.hash THEN docs[1].row.hash ELSE q.page
               text == IF q.text = q.seen.text THEN docs[1].row.text ELSE q.text
    <3>1. stored = [hash |-> hash, text |-> text, version |-> q.seen.version + 1]
      BY <2>2 DEF Stored
    <3>2. hash \in Page /\ text \in Text
      BY <1>1, <1>2, <2>2
    <3>3. ~q.overtaken => hash = q.page /\ text = q.text
      BY <2>2 DEF StillSeen
    <3>4. ~kept => hash = q.page /\ text = q.text
      BY <1>4, <2>2
    <3> HIDE DEF hash, text
    <3>5. stored \in DocColumns /\ stored.hash = hash /\ stored.text = text
      BY <1>2, <2>2, <3>1, <3>2 DEF DocColumns
    <3>6. QED
      BY <3>3, <3>4, <3>5
  <2>3. QED
    BY <1>1, <2>1, <2>2
<1> HIDE DEF stored, chunks, kept
<1>6. NewDoc(q) = [row |-> stored, chunks |-> chunks, overtaken |-> q.overtaken, kept |-> kept]
  BY DEF NewDoc, stored, chunks, kept
<1>7. NewDoc(q) \in DocRow
  BY <1>1, <1>3, <1>4, <1>5, <1>6 DEF DocRow
<1>8. /\ NewDoc(q).row = stored /\ NewDoc(q).chunks = chunks
      /\ NewDoc(q).overtaken = q.overtaken /\ NewDoc(q).kept = kept
  BY <1>6
<1>9. OfOneFetch(NewDoc(q))
  <2>1. CASE q.overtaken /\ kept
    BY <1>8, <2>1 DEF OfOneFetch
  <2>2. CASE ~(q.overtaken /\ kept)
    BY <1>1, <1>3, <1>5, <1>8, <2>2 DEF OfOneFetch
  <2>3. QED
    BY <2>1, <2>2
<1>10. QED
  BY <1>7, <1>8, <1>9

\* The document rows after a commit: one added at the end, or the first replaced.
DocsAfter(x, at) ==
  /\ docs' \in Seq(DocRow) /\ docs' # <<>>
  /\ at \in DOMAIN docs' /\ docs'[at] = x
  /\ \A i \in DOMAIN docs' : i # at => i \in DOMAIN docs /\ docs'[i] = docs[i]
  /\ \A i \in DOMAIN docs : i \in DOMAIN docs'

LEMMA DocsCommitted ==
  ASSUME CorpusTyped, RunsLoaded, NEW r \in Run, CommitIngest(r)
  PROVE  \E at \in Nat : /\ DocsAfter(NewDoc(run[r]), at)
                         /\ at > 1 => run[r].overtaken
<1> DEFINE q == run[r]
           new == NewDoc(q)
<1>1. q.phase = "loaded" /\ q \in IngestRun
  BY InFlightIs DEF CommitIngest
<1>2. LoadedRun(q) /\ (~q.overtaken => StillSeen(q))
  BY <1>1 DEF RunsLoaded
<1>3. new \in DocRow
  BY <1>1, <1>2, NewDocIs
<1>4. docs' = IF q.doc = 0 THEN Append(docs, new) ELSE [docs EXCEPT ![q.doc] = new]
  BY DEF CommitIngest, NewDoc
<1>5. q.doc \in {0, 1}
  BY <1>1 DEF IngestRun
<1>6. docs \in Seq(DocRow)
  BY DEF CorpusTyped
<1>7. q.doc = 1 => docs # <<>>
  BY <1>2 DEF LoadedRun
<1>8. ~q.overtaken /\ q.doc = 0 => docs = <<>>
  BY <1>2 DEF StillSeen
<1> HIDE DEF q, new
<1>9. CASE q.doc = 0
  <2> DEFINE at == Len(docs) + 1
  <2>1. docs' = Append(docs, new)
    BY <1>4, <1>9
  <2>2. DocsAfter(new, at)
    BY <1>3, <1>6, <2>1 DEF DocsAfter
  <2>3. at > 1 => q.overtaken
    BY <1>6, <1>8, <1>9
  <2>4. at \in Nat
    BY <1>6
  <2>5. QED
    BY <2>2, <2>3, <2>4 DEF q, new
<1>10. CASE q.doc = 1
  <2>1. docs' = [docs EXCEPT ![1] = new] /\ docs # <<>>
    BY <1>4, <1>7, <1>10
  <2>2. DocsAfter(new, 1)
    BY <1>3, <1>6, <2>1 DEF DocsAfter
  <2>3. QED
    BY <2>2 DEF q, new
<1>11. QED
  BY <1>5, <1>9, <1>10

\* A run that is overtaken carries what it carried.
LEMMA OvertakenIs ==
  ASSUME NEW x \in IngestRun, NEW y, y = [x EXCEPT !.overtaken = TRUE]
  PROVE  /\ y \in IngestRun /\ y.overtaken /\ y.phase = x.phase
         /\ y.text = x.text /\ y.page = x.page /\ y.doc = x.doc /\ y.seen = x.seen
  BY DEF IngestRun

\* A commit keeps all of it, and overtakes those that have loaded the document.
LEMMA CommitKeeps ==
  ASSUME CorpusTyped, RunsLoaded, CorpusOfOneFetch, NEW r \in Run, CommitIngest(r)
  PROVE  CorpusTyped' /\ RunsLoaded' /\ CorpusOfOneFetch'
<1>1. run[r].phase = "loaded" /\ run[r] \in IngestRun
  BY InFlightIs DEF CommitIngest
<1>2. LoadedRun(run[r]) /\ (~run[r].overtaken => StillSeen(run[r]))
  BY <1>1 DEF RunsLoaded
<1> DEFINE new == NewDoc(run[r])
<1>3. new \in DocRow /\ OfOneFetch(new) /\ new.overtaken = run[r].overtaken
  BY <1>1, <1>2, NewDocIs
<1>4. PICK at \in Nat : DocsAfter(new, at) /\ (at > 1 => run[r].overtaken)
  BY DocsCommitted
<1> HIDE DEF new
<1>5. made' = made + 1 /\ UNCHANGED <<enabled, status>>
  BY DEF CommitIngest, settings
<1>6. run' = [p \in Run |->
        IF p = r THEN NoRun
        ELSE IF run[p].phase = "loaded" THEN [run[p] EXCEPT !.overtaken = TRUE] ELSE run[p]]
  BY DEF CommitIngest
<1>7. ASSUME NEW q \in Run
      PROVE  /\ run'[q] \in {NoRun} \cup IngestRun \cup SwitchRun
             /\ run'[q].phase = "loaded" =>
                  LoadedRun(run[q])' /\ (~run'[q].overtaken => StillSeen(run[q])')
  <2>1. CASE q = r
    <3>1. run'[q] = NoRun
      BY <1>6, <2>1
    <3>2. QED
      BY <3>1 DEF NoRun
  <2>2. CASE q # r /\ run[q].phase = "loaded"
    <3> DEFINE x == run[q]
               y == run'[q]
    <3>1. x \in IngestRun /\ LoadedRun(x) /\ docs' # <<>>
      BY <1>4, <2>2, InFlightIs DEF RunsLoaded, DocsAfter
    <3>2. y = [x EXCEPT !.overtaken = TRUE]
      BY <1>6, <2>2
    <3> HIDE DEF x, y
    <3>3. /\ y \in IngestRun /\ y.overtaken /\ y.phase = x.phase
          /\ y.text = x.text /\ y.page = x.page /\ y.doc = x.doc /\ y.seen = x.seen
      BY <3>1, <3>2, OvertakenIs
    <3>4. /\ y.text \in Text /\ y.text.words = Words[y.page]
          /\ y.doc = 1 => docs' # <<>> /\ y.seen \in DocColumns
      BY <3>1, <3>3 DEF LoadedRun
    <3>5. QED
      BY <3>3, <3>4 DEF LoadedRun, y
  <2>3. CASE q # r /\ run[q].phase # "loaded"
    <3>1. run'[q] = run[q]
      BY <1>6, <2>3
    <3>2. QED
      BY <2>3, <3>1 DEF CorpusTyped
  <2>4. QED
    BY <2>1, <2>2, <2>3
<1>8. CorpusTyped'
  <2>1. run' \in [Run -> {NoRun} \cup IngestRun \cup SwitchRun]
    BY <1>6, <1>7
  <2>2. QED
    BY <1>4, <1>5, <2>1 DEF CorpusTyped, DocsAfter
<1>9. RunsLoaded'
  BY <1>7 DEF RunsLoaded
<1>10. CorpusOfOneFetch'
  <2>1. \A i \in DOMAIN docs' : OfOneFetch(docs'[i]) /\ (i > 1 => docs'[i].overtaken)
    BY <1>3, <1>4, OneFetchIs DEF DocsAfter
  <2>2. QED
    BY <2>1 DEF CorpusOfOneFetch, OfOneFetch
<1>11. QED
  BY <1>8, <1>9, <1>10

\* A row whose chunks get the vectors of one more batch.
Embedded(x, y, b) ==
  /\ y \in DocRow
  /\ y.row = x.row /\ y.overtaken = x.overtaken /\ y.kept = x.kept
  /\ y.chunks.id = x.chunks.id /\ y.chunks.text = x.chunks.text /\ y.chunks.blind = x.chunks.blind
  /\ y.chunks.vectors = x.chunks.vectors \cup {b}

LEMMA EmbeddedIs ==
  ASSUME NEW x \in DocRow, NEW b \in Batch
  PROVE  Embedded(x, [x EXCEPT !.chunks.vectors = @ \cup {b}], b)
<1> DEFINE c == x.chunks
           d == [c EXCEPT !.vectors = @ \cup {b}]
           y == [x EXCEPT !.chunks = d]
<1>1. c \in ChunkRows
  BY DEF DocRow
<1>2. /\ d \in ChunkRows /\ d.id = c.id /\ d.text = c.text /\ d.blind = c.blind
      /\ d.vectors = c.vectors \cup {b}
  BY <1>1 DEF ChunkRows
<1>3. [x EXCEPT !.chunks.vectors = @ \cup {b}] = y
  OBVIOUS
<1> HIDE DEF d
<1>4. /\ y \in DocRow /\ y.row = x.row /\ y.overtaken = x.overtaken /\ y.kept = x.kept
      /\ y.chunks = d
  BY <1>2 DEF DocRow
<1> HIDE DEF y
<1>5. QED
  BY <1>2, <1>3, <1>4 DEF Embedded

\* The rows after a batch is embedded.
RowsEmbedded(b) ==
  /\ docs' \in Seq(DocRow) /\ Len(docs') = Len(docs)
  /\ \A i \in DOMAIN docs : i # b.doc => docs'[i] = docs[i]
  /\ b.doc \in DOMAIN docs => Embedded(docs[b.doc], docs'[b.doc], b.batch)

\* One row of a sequence replaced by another.
LEMMA RowReplaced ==
  ASSUME NEW rows \in Seq(DocRow), NEW at \in 1 .. Len(rows), NEW y \in DocRow,
         NEW after, after = [rows EXCEPT ![at] = y]
  PROVE  /\ after \in Seq(DocRow) /\ Len(after) = Len(rows) /\ after[at] = y
         /\ \A i \in DOMAIN rows : i # at => after[i] = rows[i]
  BY ExceptSeq

\* A batch embedded by a job changes the row of its document only.
LEMMA BatchEmbedded ==
  ASSUME CorpusTyped, NEW b, b.batch \in Batch,
         docs' = [docs EXCEPT ![b.doc].chunks.vectors = @ \cup {b.batch}]
  PROVE  RowsEmbedded(b)
<1> DEFINE at == b.doc
           y == [docs[at] EXCEPT !.chunks.vectors = @ \cup {b.batch}]
<1>1. docs' = [docs EXCEPT ![at] = y]
  OBVIOUS
<1>2. docs \in Seq(DocRow)
  BY DEF CorpusTyped
<1>4. CASE at \in DOMAIN docs
  <2>1. docs[at] \in DocRow /\ at \in 1 .. Len(docs)
    BY <1>2, <1>4
  <2>2. Embedded(docs[at], y, b.batch)
    BY <2>1, EmbeddedIs
  <2> HIDE DEF at, y
  <2>3. y \in DocRow
    BY <2>2 DEF Embedded
  <2> DEFINE after == docs'
  <2>4. after = [docs EXCEPT ![at] = y]
    BY <1>1
  <2> HIDE DEF after
  <2>5. /\ after \in Seq(DocRow) /\ Len(after) = Len(docs) /\ after[at] = y
        /\ \A i \in DOMAIN docs : i # at => after[i] = docs[i]
    BY <1>2, <2>1, <2>3, <2>4, RowReplaced
  <2>6. QED
    BY <2>2, <2>5 DEF RowsEmbedded, at, after
<1>5. CASE at \notin DOMAIN docs
  <2> HIDE DEF at, y
  <2>1. docs = [i \in DOMAIN docs |-> docs[i]]
    BY <1>2
  <2>2. docs' = [i \in DOMAIN docs |-> docs[i]]
    BY <1>1, <1>5, <2>1
  <2>3. docs' = docs
    BY <2>1, <2>2
  <2>4. QED
    BY <1>2, <1>5, <2>3 DEF RowsEmbedded, at
<1>6. QED
  BY <1>4, <1>5

\* Vectors touch neither the columns of a document nor the texts.
LEMMA EmbeddingKeeps ==
  ASSUME CorpusTyped, RunsLoaded, CorpusOfOneFetch, NEW b, RowsEmbedded(b),
         UNCHANGED <<enabled, status, run, made>>
  PROVE  CorpusTyped' /\ RunsLoaded' /\ CorpusOfOneFetch'
<1>1. /\ DOMAIN docs' = DOMAIN docs
      /\ \A i \in DOMAIN docs : /\ docs'[i].row = docs[i].row
                                /\ docs'[i].overtaken = docs[i].overtaken
                                /\ docs'[i].kept = docs[i].kept
                                /\ docs'[i].chunks.text = docs[i].chunks.text
      /\ docs' = <<>> <=> docs = <<>>
  BY DEF CorpusTyped, RowsEmbedded, Embedded
<1>2. CorpusTyped'
  BY DEF CorpusTyped, RowsEmbedded
<1>3. CorpusOfOneFetch'
  BY <1>1, OneFetchIs DEF CorpusOfOneFetch, OfOneFetch
<1>4. docs # <<>> => docs'[1].row = docs[1].row
  BY <1>1 DEF CorpusTyped
<1>5. \A r \in Run : run[r].phase = "loaded" =>
        LoadedRun(run[r])' /\ (~run[r].overtaken => StillSeen(run[r])')
  BY <1>1, <1>4 DEF RunsLoaded, LoadedRun, StillSeen
<1>6. RunsLoaded'
  BY <1>5 DEF RunsLoaded
<1>7. QED
  BY <1>2, <1>3, <1>6

-----------------------------------------------------------------------------
(* Jobs.                                                                   *)

\* A step that touches neither the jobs nor what they are for.
LEMMA JobsUntouched ==
  ASSUME OneJob, UNCHANGED <<docs, enabled, status, job, crossed>>
  PROVE  OneJob'
  BY DEF OneJob, Missing, BatchOf, Active

\* With embeddings on, a commit adds no chunks that anyone will ask the vectors of.
LEMMA JobsAtCommit ==
  ASSUME CorpusTyped, RunsLoaded, OneJob, NEW r \in Run, CommitIngest(r)
  PROVE  OneJob'
<1> DEFINE new == NewDoc(run[r])
<1>1. PICK at \in Nat : DocsAfter(new, at)
  BY DocsCommitted
<1>2. run[r] \in IngestRun /\ UNCHANGED <<enabled, status, job, crossed>>
  BY InFlightIs DEF CommitIngest, settings, histories
<1>3. run[r].on \in BOOLEAN
  BY <1>2 DEF IngestRun
<1>4. new.chunks = Chunks(run[r])
  BY DEF NewDoc
<1>5. enabled => \A b \in Batch : b \in new.chunks.vectors \/ new.chunks.blind
  <2>1. /\ new.chunks.vectors = Vectors(run[r].on)
        /\ new.chunks.blind = (enabled /\ ~(run[r].on /\ provider = "local"))
    BY <1>4 DEF Chunks
  <2> HIDE DEF new
  <2>2. CASE run[r].on /\ provider = "local"
    BY <2>1, <2>2 DEF Vectors
  <2>3. CASE ~(run[r].on /\ provider = "local")
    BY <2>1, <2>3
  <2>4. QED
    BY <2>2, <2>3
<1> HIDE DEF new
<1>6. ASSUME enabled, NEW d, NEW b, Missing(d, b)'
      PROVE  Missing(d, b) /\ BatchOf(d, b)' = BatchOf(d, b)
  <2>1. d # at
    BY <1>1, <1>5, <1>6 DEF Missing, DocsAfter
  <2>2. d \in DOMAIN docs /\ docs'[d] = docs[d]
    BY <1>1, <1>6, <2>1 DEF Missing, DocsAfter
  <2>3. QED
    BY <1>6, <2>2 DEF Missing, BatchOf
<1>7. Active' = Active
  BY <1>2 DEF Active
<1>8. ASSUME ~crossed, enabled, NEW j \in Active, job[j].phase = "running",
             NEW d, NEW b, Missing(d, b)'
      PROVE  BatchOf(d, b)' \in job[j].todo
  BY <1>6, <1>8 DEF OneJob
<1>9. ASSUME ~crossed, enabled, Active = {}, status = "complete"
      PROVE  \A d, b : ~Missing(d, b)'
  BY <1>6, <1>9 DEF OneJob
<1>10. QED
  BY <1>2, <1>7, <1>8, <1>9 DEF OneJob

\* The switch: a second job crosses the first, and so does coming on without one.
LEMMA JobsAtSwitch ==
  ASSUME CorpusTyped, OneJob, NEW r \in Run, CommitSwitch(r)
  PROVE  OneJob' /\ enabled' \in BOOLEAN /\ status' \in StatusWord
<1> DEFINE q == run[r]
           start == q.on /\ ~q.was
           word == IF start THEN "running" ELSE IF q.on THEN q.word ELSE "idle"
<1>1. q \in SwitchRun /\ docs' = docs
  BY InFlightIs DEF CommitSwitch, SwitchPhase
<1>2. q.on \in BOOLEAN /\ q.word \in StatusWord
  BY <1>1 DEF SwitchRun
<1>3. /\ enabled' = (IF q.on \in {q.before, q.found} THEN enabled ELSE q.on)
      /\ status' = (IF word = q.word THEN status ELSE word)
      /\ crossed' = (IF start THEN Active # {} \/ status' # "running"
                     ELSE crossed \/ (enabled' /\ ~enabled))
  BY DEF CommitSwitch
<1>4. IF start THEN Active # Job /\ job' = [job EXCEPT ![FreeJob] = [phase |-> "due"]]
               ELSE job' = job
  BY DEF CommitSwitch
<1>5. enabled' \in BOOLEAN /\ status' \in StatusWord
  <2>1. enabled \in BOOLEAN /\ status \in StatusWord /\ word \in StatusWord
    BY <1>2 DEF CorpusTyped, StatusWord
  <2> HIDE DEF q, word
  <2>2. QED
    BY <1>2, <1>3, <2>1
<1> HIDE DEF q
<1>6. CASE start
  <2>1. \E j \in Job : job[j] = Off
    BY <1>4, <1>6 DEF Active
  <2>2. FreeJob \in Job /\ job[FreeJob] = Off
    BY <2>1 DEF FreeJob
  <2>3. job' = [job EXCEPT ![FreeJob] = [phase |-> "due"]]
    BY <1>4, <1>6
  <2> DEFINE free == FreeJob
  <2> HIDE DEF free
  <2>4. job' \in [Job -> JobRow]
    BY <2>3 DEF OneJob, JobRow
  <2>5. /\ free \in Job /\ job'[free] = [phase |-> "due"]
        /\ \A j \in Job : j # free => job'[j] = job[j]
    BY <2>2, <2>3 DEF OneJob, free
  <2>6. ~crossed' => Active = {} /\ status' = "running"
    BY <1>3, <1>6
  <2>7. ~crossed' => \A j \in Active' : j = free
    BY <2>5, <2>6 DEF Active
  <2>8. free \in Active'
    BY <2>5 DEF Active, Off
  <2>9. job'[free].phase # "running"
    BY <2>5
  <2>10. ~crossed' =>
       /\ \A i, j \in Active' : i = j
       /\ \A j \in Active' : status' # "complete"
       /\ \A j \in Active' : job'[j].phase # "running"
       /\ Active' # {}
    BY <2>6, <2>7, <2>8, <2>9
  <2>11. QED
    BY <1>5, <2>4, <2>10 DEF OneJob
<1>7. CASE ~start
  <2>1. job' = job /\ (~crossed' => ~crossed /\ (enabled' => enabled))
    BY <1>3, <1>4, <1>7
  <2>2. status' \in {status, "idle"}
    BY <1>3, <1>7 DEF word
  <2>3. \A d, b : /\ Missing(d, b)' <=> Missing(d, b)
                  /\ BatchOf(d, b)' = BatchOf(d, b)
    BY <1>1 DEF Missing, BatchOf
  <2>4. Active' = Active
    BY <2>1 DEF Active
  <2>5. OneJob'
    BY <2>1, <2>2, <2>3, <2>4 DEF OneJob
  <2>6. QED
    BY <1>5, <2>5
<1>8. QED
  BY <1>6, <1>7

\* The job reads everything that is to be embedded.
LEMMA JobLoads ==
  ASSUME CorpusTyped, OneJob, NEW j \in Job, LoadUnembedded(j)
  PROVE  OneJob'
<1>1. /\ job' = [job EXCEPT ![j] = [phase |-> "running", todo |-> Unembedded]]
      /\ UNCHANGED <<docs, enabled, status, crossed>> /\ job[j].phase = "due"
  BY DEF LoadUnembedded, settings, histories
<1>2. \A d \in DOMAIN docs : d \in Nat /\ docs[d].chunks.id \in Nat
  <2> SUFFICES ASSUME NEW d \in DOMAIN docs PROVE d \in Nat /\ docs[d].chunks.id \in Nat
    OBVIOUS
  <2>1. d \in Nat /\ docs[d] \in DocRow
    BY DEF CorpusTyped
  <2>2. docs[d].chunks \in ChunkRows
    BY <2>1 DEF DocRow
  <2>3. QED
    BY <2>1, <2>2 DEF ChunkRows
<1>3. Unembedded \subseteq [doc : Nat, id : Nat, batch : Batch]
  BY <1>2 DEF Unembedded
<1>4. \A d, b : Missing(d, b) => BatchOf(d, b) \in Unembedded
  BY DEF Missing, BatchOf, Unembedded
<1> DEFINE todo == Unembedded
<1> HIDE DEF todo
<1>5. job' \in [Job -> JobRow]
  <2>1. [phase |-> "running", todo |-> todo] \in JobRow
    BY <1>3 DEF JobRow, todo
  <2>2. QED
    BY <1>1, <2>1 DEF OneJob, todo
<1>6. job'[j] = [phase |-> "running", todo |-> todo] /\ \A i \in Job : i # j => job'[i] = job[i]
  BY <1>1 DEF OneJob, todo
<1>7. j \in Active /\ Active' = Active
  BY <1>1, <1>6 DEF Active, Off
<1>8. \A d, b : /\ Missing(d, b)' <=> Missing(d, b)
                /\ BatchOf(d, b)' = BatchOf(d, b)
  BY <1>1 DEF Missing, BatchOf
<1>9. ~crossed => \A i \in Active' : i = j
  BY <1>7 DEF OneJob
<1>10. \A d, b : Missing(d, b) => BatchOf(d, b) \in job'[j].todo
  BY <1>4, <1>6 DEF todo
<1>11. QED
  BY <1>1, <1>5, <1>7, <1>8, <1>9, <1>10 DEF OneJob

\* A batch that is embedded is the one that is off the list.
LEMMA JobEmbeds ==
  ASSUME CorpusTyped, OneJob, NEW j \in Job, EmbedBatch(j)
  PROVE  OneJob' /\ \E b : RowsEmbedded(b)
<1>1. PICK b \in job[j].todo :
        /\ ~Replaced(b)
        /\ docs' = [docs EXCEPT ![b.doc].chunks.vectors = @ \cup {b.batch}]
        /\ job' = [job EXCEPT ![j].todo = @ \ {b}]
  BY DEF EmbedBatch
<1>2. job[j].phase = "running" /\ UNCHANGED <<enabled, status, crossed>>
  BY DEF EmbedBatch, settings, histories
<1>3. job[j] \in [phase : {"running"}, todo : SUBSET [doc : Nat, id : Nat, batch : Batch]]
  BY <1>2 DEF OneJob, JobRow, Off
<1>4. b \in [doc : Nat, id : Nat, batch : Batch]
  BY <1>1, <1>3
<1>5. RowsEmbedded(b)
  <2>1. docs' = [docs EXCEPT ![b.doc].chunks.vectors = @ \cup {b.batch}]
    BY <1>1
  <2>2. b.batch \in Batch
    BY <1>4
  <2>3. QED
    BY <2>1, <2>2, BatchEmbedded
<1> DEFINE new == [job[j] EXCEPT !.todo = @ \ {b}]
<1>6. /\ new \in [phase : {"running"}, todo : SUBSET [doc : Nat, id : Nat, batch : Batch]]
      /\ new.todo = job[j].todo \ {b} /\ new.phase = "running"
  BY <1>3
<1>7. job' = [job EXCEPT ![j] = new]
  BY <1>1
<1> HIDE DEF new
<1>8. job' \in [Job -> JobRow]
  BY <1>6, <1>7 DEF OneJob, JobRow
<1>9. job'[j] = new /\ \A i \in Job : i # j => job'[i] = job[i]
  BY <1>7 DEF OneJob
<1>10. j \in Active /\ Active' = Active
  BY <1>2, <1>6, <1>9 DEF Active, Off
<1>11. ASSUME NEW d, NEW c, Missing(d, c)'
       PROVE  Missing(d, c) /\ BatchOf(d, c)' = BatchOf(d, c) /\ BatchOf(d, c) # b
  <2>1. d \in DOMAIN docs
    BY <1>5, <1>11 DEF Missing, RowsEmbedded, CorpusTyped
  <2>2. CASE d # b.doc
    <3>1. docs'[d] = docs[d]
      BY <1>5, <2>1, <2>2 DEF RowsEmbedded
    <3>2. QED
      BY <1>11, <2>1, <2>2, <3>1 DEF Missing, BatchOf
  <2>3. CASE d = b.doc
    <3>1. Embedded(docs[d], docs'[d], b.batch)
      BY <1>5, <2>1, <2>3 DEF RowsEmbedded
    <3>2. c # b.batch
      BY <1>11, <3>1 DEF Missing, Embedded
    <3>3. QED
      BY <1>11, <2>1, <3>1, <3>2 DEF Missing, BatchOf, Embedded
  <2>4. QED
    BY <2>2, <2>3
<1>12. ~crossed' =>
         /\ \A i, k \in Active' : i = k
         /\ \A k \in Active' : status' # "complete"
         /\ Active' # {}
  BY <1>2, <1>10 DEF OneJob
<1>13. ASSUME ~crossed', enabled', NEW k \in Active', NEW d, NEW c, Missing(d, c)'
       PROVE  BatchOf(d, c)' \in job'[k].todo
  <2>1. k = j
    BY <1>10, <1>12, <1>13
  <2>2. BatchOf(d, c) \in job[j].todo
    BY <1>2, <1>10, <1>11, <1>13 DEF OneJob
  <2>3. QED
    BY <1>6, <1>9, <1>11, <1>13, <2>1, <2>2
<1>14. OneJob'
  BY <1>8, <1>12, <1>13 DEF OneJob
<1>15. QED
  BY <1>5, <1>14

\* A job that ends with nothing left to do leaves nothing to be embedded; one that ends
\* unreported leaves the status, which is not "complete".
LEMMA JobEnds ==
  ASSUME CorpusTyped, OneJob, NEW j \in Job,
         FailBackfill(j) \/ CompleteBackfill(j) \/ EndUnreported(j)
  PROVE  OneJob'
<1>1. /\ job[j] # Off /\ job' = [job EXCEPT ![j] = Off]
      /\ UNCHANGED <<docs, enabled, crossed>>
  BY DEF FailBackfill, CompleteBackfill, EndUnreported, Report, Off, histories, settings
<1>2. status' = "complete" => status' = status \/ (job[j].phase = "running" /\ job[j].todo = {})
  BY DEF FailBackfill, CompleteBackfill, EndUnreported, Report, settings
<1>3. job' \in [Job -> JobRow]
  BY <1>1 DEF OneJob, JobRow
<1>4. job'[j] = Off /\ \A i \in Job : i # j => job'[i] = job[i]
  BY <1>1 DEF OneJob
<1>5. j \in Active
  BY <1>1 DEF Active
<1>6. ~crossed => Active' = {}
  BY <1>4, <1>5 DEF OneJob, Active
<1>7. \A d, b : Missing(d, b)' <=> Missing(d, b)
  BY <1>1 DEF Missing
<1>8. ~crossed /\ enabled /\ status' = "complete" => \A d, b : ~Missing(d, b)
  BY <1>1, <1>2, <1>5 DEF OneJob
<1>9. QED
  BY <1>1, <1>3, <1>6, <1>7, <1>8 DEF OneJob

\* A restart ends every job and says nothing of it.
LEMMA JobsAtRestart ==
  ASSUME OneJob, NEW model, Restart(model)
  PROVE  OneJob'
<1>1. job' = [j \in Job |-> Off] /\ UNCHANGED <<docs, enabled, status, crossed>>
  BY DEF Restart, settings
<1>2. Active' = {} /\ job' \in [Job -> JobRow]
  BY <1>1 DEF Active, JobRow
<1>3. \A d, b : Missing(d, b)' <=> Missing(d, b)
  BY <1>1 DEF Missing
<1>4. ~crossed /\ enabled /\ status = "complete" => \A d, b : ~Missing(d, b)
  BY DEF OneJob
<1>5. QED
  BY <1>1, <1>2, <1>3, <1>4 DEF OneJob

-----------------------------------------------------------------------------
(* The invariants of the corpus.                                           *)

FetchInvariant == CorpusTyped /\ RunsLoaded /\ CorpusOfOneFetch

LEMMA CorpusStarts == CorpusInit => FetchInvariant /\ OneJob
<1> SUFFICES ASSUME CorpusInit PROVE FetchInvariant /\ OneJob
  OBVIOUS
<1>1. /\ made = 0 /\ enabled = FALSE /\ status = "idle" /\ crossed = FALSE
      /\ docs \in {<<>>} \cup {<<IngestedOff(p)>> : p \in Page}
      /\ run = [r \in Run |-> NoRun] /\ job = [j \in Job |-> Off]
  BY DEF CorpusInit
<1>2. ASSUME NEW p \in Page
      PROVE  IngestedOff(p) \in DocRow /\ OfOneFetch(IngestedOff(p))
  <2> DEFINE text == GuideText(p, TRUE)
             row == [hash |-> p, text |-> text, version |-> 1]
             chunks == [id |-> 0, text |-> text, vectors |-> {}, blind |-> FALSE]
  <2>1. text \in Text /\ text.words = Words[p]
    BY CorpusAssumption DEF GuideText, Text
  <2>2. IngestedOff(p) = [row |-> row, chunks |-> chunks, overtaken |-> FALSE, kept |-> FALSE]
    BY DEF IngestedOff
  <2> HIDE DEF text
  <2>3. row \in DocColumns /\ row.hash = p /\ row.text = text
    BY <2>1 DEF DocColumns
  <2>4. chunks \in ChunkRows /\ chunks.text = text
    BY <2>1 DEF ChunkRows
  <2> HIDE DEF row, chunks
  <2>5. QED
    BY <2>1, <2>2, <2>3, <2>4 DEF DocRow, OfOneFetch
<1>3. docs \in Seq(DocRow) /\ \A i \in DOMAIN docs : i = 1 /\ OfOneFetch(docs[i])
  <2>1. CASE docs = <<>>
    BY <2>1
  <2>2. ASSUME NEW p \in Page, docs = <<IngestedOff(p)>>
        PROVE  docs \in Seq(DocRow) /\ \A i \in DOMAIN docs : i = 1 /\ OfOneFetch(docs[i])
    <3> DEFINE off == IngestedOff(p)
    <3>1. off \in DocRow /\ OfOneFetch(off) /\ docs = <<off>>
      BY <1>2, <2>2
    <3> HIDE DEF off
    <3>2. docs \in Seq(DocRow)
      BY <3>1
    <3>3. Len(docs) = 1 /\ docs[1] = off
      BY <3>1
    <3>4. DOMAIN docs = 1 .. 1
      BY <3>2, <3>3
    <3>5. QED
      BY <3>1, <3>2, <3>3, <3>4
  <2>3. QED
    BY <1>1, <2>1, <2>2
<1>4. CorpusTyped
  BY <1>1, <1>3 DEF CorpusTyped, StatusWord
<1>5. RunsLoaded
  BY <1>1 DEF RunsLoaded, NoRun
<1>6. CorpusOfOneFetch
  BY <1>3, OneFetchIs
<1>7. OneJob
  BY <1>1 DEF OneJob, JobRow, Active
<1>8. QED
  BY <1>4, <1>5, <1>6, <1>7 DEF FetchInvariant

\* A request that begins.
LEMMA BeginKeeps ==
  ASSUME FetchInvariant, OneJob, NEW r \in Run, NEW choice \in BOOLEAN,
         \/ \E p \in Page : BeginIngest(r, choice, p) \/ BeginPlan(r, p)
         \/ BeginSwitch(r, choice)
  PROVE  FetchInvariant' /\ OneJob'
<1>1. enabled \in BOOLEAN
  BY DEF FetchInvariant, CorpusTyped
<1>2. \A phase \in {"fetched", "review"}, force \in BOOLEAN, p \in Page :
        Ingest(phase, force, p) \in IngestRun /\ Ingest(phase, force, p).phase # "loaded"
  BY <1>1 DEF Ingest, IngestRun
<1>3. UNCHANGED <<docs, enabled, status, job, made, crossed>>
  BY DEF BeginIngest, BeginSwitch, BeginPlan, settings, histories
<1>4. \E new \in {NoRun} \cup IngestRun \cup SwitchRun :
        new.phase # "loaded" /\ run' = [run EXCEPT ![r] = new]
  <2>1. CASE \E p \in Page : BeginIngest(r, choice, p)
    BY <1>2, <2>1 DEF BeginIngest
  <2>2. CASE \E p \in Page : BeginPlan(r, p)
    BY <1>2, <2>2 DEF BeginPlan
  <2>3. CASE BeginSwitch(r, choice)
    <3> DEFINE new == [phase |-> "switch", on |-> choice, was |-> enabled,
                       before |-> choice, found |-> choice, word |-> "idle"]
    <3>1. new \in SwitchRun /\ new.phase # "loaded"
      BY <1>1 DEF SwitchRun, SwitchPhase, StatusWord
    <3>2. run' = [run EXCEPT ![r] = new]
      BY <2>3 DEF BeginSwitch
    <3> HIDE DEF new
    <3>3. QED
      BY <3>1, <3>2
  <2>4. QED
    BY <2>1, <2>2, <2>3
<1>5. /\ run' \in [Run -> {NoRun} \cup IngestRun \cup SwitchRun]
      /\ RunsLoaded'
  BY <1>3, <1>4, RunGoesOn DEF FetchInvariant
<1>6. CorpusTyped' /\ CorpusOfOneFetch'
  BY <1>3, <1>5 DEF FetchInvariant, CorpusTyped, CorpusOfOneFetch
<1>7. QED
  BY <1>3, <1>5, <1>6, JobsUntouched DEF FetchInvariant

\* A request that goes on or ends without a commit of the document.
LEMMA GoOnKeeps ==
  ASSUME FetchInvariant, OneJob, NEW r \in Run,
         \/ ApproveChange(r) \/ Unchanged(r) \/ Abandon(r)
         \/ ReadBefore(r) \/ LoadSetting(r) \/ LoadStatus(r) \/ CommitSwitch(r)
  PROVE  FetchInvariant' /\ OneJob'
<1>1. UNCHANGED <<docs, made>>
  BY DEF ApproveChange, Unchanged, Abandon, ReadBefore, LoadSetting, LoadStatus, CommitSwitch
<1>2. OneJob' /\ enabled' \in BOOLEAN /\ status' \in StatusWord
  <2>1. CASE CommitSwitch(r)
    BY <2>1, JobsAtSwitch DEF FetchInvariant
  <2>2. CASE ~CommitSwitch(r)
    <3>1. UNCHANGED <<docs, enabled, status, job, crossed>>
      BY <2>2 DEF ApproveChange, Unchanged, Abandon, ReadBefore, LoadSetting, LoadStatus,
                  settings, histories
    <3>2. QED
      BY <3>1, JobsUntouched DEF FetchInvariant, CorpusTyped
  <2>3. QED
    BY <2>1, <2>2
<1>3. enabled \in BOOLEAN /\ status \in StatusWord
  BY DEF FetchInvariant, CorpusTyped
<1>4. \E new \in {NoRun} \cup IngestRun \cup SwitchRun :
        new.phase # "loaded" /\ run' = [run EXCEPT ![r] = new]
  <2>1. CASE ApproveChange(r)
    <3> DEFINE new == [run[r] EXCEPT !.phase = "fetched", !.on = enabled]
    <3>1. run[r] \in IngestRun
      BY <2>1, InFlightIs DEF ApproveChange, FetchInvariant
    <3>2. new \in IngestRun /\ new.phase # "loaded"
      BY <1>3, <3>1 DEF IngestRun
    <3>3. run' = [run EXCEPT ![r] = new]
      BY <2>1 DEF ApproveChange
    <3> HIDE DEF new
    <3>4. QED
      BY <3>2, <3>3
  <2>2. CASE ReadBefore(r)
    <3> DEFINE new == [run[r] EXCEPT !.phase = IF enabled = run[r].on THEN "skipped"
                                              ELSE "applying",
                                     !.before = enabled]
    <3>1. run[r] \in SwitchRun
      BY <2>2, InFlightIs DEF ReadBefore, FetchInvariant, SwitchPhase
    <3>2. new \in SwitchRun /\ new.phase # "loaded"
      BY <1>3, <3>1 DEF SwitchRun, SwitchPhase
    <3>3. run' = [run EXCEPT ![r] = new]
      BY <2>2 DEF ReadBefore
    <3> HIDE DEF new
    <3>4. QED
      BY <3>2, <3>3
  <2>3. CASE LoadSetting(r)
    <3> DEFINE new == [run[r] EXCEPT !.phase = "found", !.found = enabled]
    <3>1. run[r] \in SwitchRun
      BY <2>3, InFlightIs DEF LoadSetting, FetchInvariant, SwitchPhase
    <3>2. new \in SwitchRun /\ new.phase # "loaded"
      BY <1>3, <3>1 DEF SwitchRun, SwitchPhase
    <3>3. run' = [run EXCEPT ![r] = new]
      BY <2>3 DEF LoadSetting
    <3> HIDE DEF new
    <3>4. QED
      BY <3>2, <3>3
  <2>4. CASE LoadStatus(r)
    <3> DEFINE new == [run[r] EXCEPT !.phase = "status", !.word = status]
    <3>1. run[r] \in SwitchRun
      BY <2>4, InFlightIs DEF LoadStatus, FetchInvariant, SwitchPhase
    <3>2. new \in SwitchRun /\ new.phase # "loaded"
      BY <1>3, <3>1 DEF SwitchRun, SwitchPhase
    <3>3. run' = [run EXCEPT ![r] = new]
      BY <2>4 DEF LoadStatus
    <3> HIDE DEF new
    <3>4. QED
      BY <3>2, <3>3
  <2>5. CASE Unchanged(r) \/ Abandon(r) \/ CommitSwitch(r)
    <3>1. run' = [run EXCEPT ![r] = NoRun]
      BY <2>5 DEF Unchanged, Abandon, CommitSwitch
    <3>2. NoRun.phase # "loaded"
      BY DEF NoRun
    <3>3. QED
      BY <3>1, <3>2
  <2>6. QED
    BY <2>1, <2>2, <2>3, <2>4, <2>5
<1>5. /\ run' \in [Run -> {NoRun} \cup IngestRun \cup SwitchRun]
      /\ RunsLoaded'
  BY <1>1, <1>4, RunGoesOn DEF FetchInvariant
<1>6. CorpusTyped' /\ CorpusOfOneFetch'
  BY <1>1, <1>2, <1>5 DEF FetchInvariant, CorpusTyped, CorpusOfOneFetch
<1>7. QED
  BY <1>2, <1>5, <1>6 DEF FetchInvariant

LEMMA LoadKeeps ==
  ASSUME FetchInvariant, OneJob, NEW r \in Run, NEW parts \in BOOLEAN, LoadDoc(r, parts)
  PROVE  FetchInvariant' /\ OneJob'
<1>1. UNCHANGED <<docs, enabled, status, job, made, crossed>>
  BY DEF LoadDoc, settings, histories
<1>2. /\ run' \in [Run -> {NoRun} \cup IngestRun \cup SwitchRun]
      /\ RunsLoaded'
  BY RunLoads DEF FetchInvariant
<1>3. CorpusTyped' /\ CorpusOfOneFetch'
  BY <1>1, <1>2 DEF FetchInvariant, CorpusTyped, CorpusOfOneFetch
<1>4. QED
  BY <1>1, <1>2, <1>3, JobsUntouched DEF FetchInvariant

LEMMA JobKeeps ==
  ASSUME FetchInvariant, OneJob, NEW j \in Job, JobStep(j)
  PROVE  FetchInvariant' /\ OneJob'
<1>1. CASE EmbedBatch(j)
  <2>1. OneJob' /\ \E b : RowsEmbedded(b)
    BY <1>1, JobEmbeds DEF FetchInvariant
  <2>2. UNCHANGED <<enabled, status, run, made>>
    BY <1>1 DEF EmbedBatch, settings
  <2>3. QED
    BY <2>1, <2>2, EmbeddingKeeps DEF FetchInvariant
<1>2. CASE ~EmbedBatch(j)
  <2>1. OneJob'
    BY <1>2, JobLoads, JobEnds DEF JobStep, FetchInvariant
  <2>2. UNCHANGED <<docs, enabled, run, made>>
    BY <1>2 DEF JobStep, LoadUnembedded, FailBackfill, CompleteBackfill, EndUnreported, settings
  <2>3. status' \in StatusWord
    <3>1. status' \in {status, "error", "complete"}
      BY <1>2 DEF JobStep, LoadUnembedded, FailBackfill, CompleteBackfill, EndUnreported, Report,
                  settings
    <3>2. QED
      BY <3>1 DEF FetchInvariant, CorpusTyped, StatusWord
  <2>4. CorpusTyped' /\ CorpusOfOneFetch'
    BY <2>2, <2>3 DEF FetchInvariant, CorpusTyped, CorpusOfOneFetch
  <2>5. RunsLoaded'
    BY <2>2 DEF FetchInvariant, RunsLoaded, LoadedRun, StillSeen
  <2>6. QED
    BY <2>1, <2>4, <2>5 DEF FetchInvariant
<1>3. QED
  BY <1>1, <1>2

\* The process restarts, or nothing happens.
LEMMA WorldKeeps ==
  ASSUME FetchInvariant, OneJob, (\E model : Restart(model)) \/ UNCHANGED corpusVars
  PROVE  FetchInvariant' /\ OneJob'
<1>1. UNCHANGED <<docs, enabled, status, made>>
  BY DEF Restart, corpusVars, settings
<1>2. OneJob'
  <2>1. ASSUME NEW model, Restart(model)
        PROVE  OneJob'
    BY <2>1, JobsAtRestart
  <2>2. CASE UNCHANGED corpusVars
    BY <2>2, JobsUntouched DEF corpusVars, settings, histories
  <2>3. QED
    BY <2>1, <2>2
<1>3. run' = run \/ run' = [r \in Run |-> NoRun]
  BY DEF Restart, corpusVars
<1>4. run' \in [Run -> {NoRun} \cup IngestRun \cup SwitchRun]
  BY <1>3 DEF FetchInvariant, CorpusTyped
<1>5. CorpusTyped' /\ CorpusOfOneFetch'
  BY <1>1, <1>4 DEF FetchInvariant, CorpusTyped, CorpusOfOneFetch
<1>6. RunsLoaded'
  <2>1. CASE run' = run
    BY <1>1, <2>1 DEF FetchInvariant, RunsLoaded, LoadedRun, StillSeen
  <2>2. CASE run' = [r \in Run |-> NoRun]
    BY <2>2 DEF RunsLoaded, NoRun
  <2>3. QED
    BY <1>3, <2>1, <2>2
<1>7. QED
  BY <1>2, <1>5, <1>6 DEF FetchInvariant

LEMMA CorpusKeeps ==
  FetchInvariant /\ OneJob /\ [CorpusNext]_corpusVars => FetchInvariant' /\ OneJob'
<1> SUFFICES ASSUME FetchInvariant, OneJob, [CorpusNext]_corpusVars
             PROVE  FetchInvariant' /\ OneJob'
  OBVIOUS
<1>1. ASSUME (\E model : Restart(model)) \/ Quiet \/ UNCHANGED corpusVars
      PROVE  FetchInvariant' /\ OneJob'
  BY <1>1, WorldKeeps DEF Quiet
<1>2. ASSUME NEW r \in Run, NEW choice \in BOOLEAN,
             \/ \E p \in Page : BeginIngest(r, choice, p)
             \/ LoadDoc(r, choice) \/ BeginSwitch(r, choice)
      PROVE  FetchInvariant' /\ OneJob'
  BY <1>2, BeginKeeps, LoadKeeps
<1>3. ASSUME NEW r \in Run, NEW p \in Page, BeginPlan(r, p)
      PROVE  FetchInvariant' /\ OneJob'
  BY <1>3, BeginKeeps
<1>4. ASSUME NEW r \in Run,
             \/ ApproveChange(r) \/ Unchanged(r) \/ Abandon(r)
             \/ ReadBefore(r) \/ LoadSetting(r) \/ LoadStatus(r) \/ CommitSwitch(r)
      PROVE  FetchInvariant' /\ OneJob'
  BY <1>4, GoOnKeeps
<1>5. ASSUME NEW r \in Run, CommitIngest(r)
      PROVE  FetchInvariant' /\ OneJob'
  BY <1>5, CommitKeeps, JobsAtCommit DEF FetchInvariant
<1>6. ASSUME NEW j \in Job, JobStep(j)
      PROVE  FetchInvariant' /\ OneJob'
  BY <1>6, JobKeeps
<1>7. QED
  BY <1>1, <1>2, <1>3, <1>4, <1>5, <1>6 DEF CorpusNext

\* Documents, ingests and switches keep their columns (ingest of pipeline.py, POST /settings/params).
THEOREM CorpusTypeCorrect == CorpusSpec => []CorpusTyped
<1>1. FetchInvariant => CorpusTyped
  BY DEF FetchInvariant
<1>2. QED
  BY <1>1, CorpusStarts, CorpusKeeps, PTL DEF CorpusSpec

\* However many ingests of the source overlap, whatever pages say the same, and with
\* whatever switches, backfills and restarts: a document of two fetches was left only by
\* an ingest that another one overtook and that left a column unwritten, and a second
\* document was made only by one that was overtaken (ingest of pipeline.py).
THEOREM DocumentsAreOfOneFetch == CorpusSpec => []CorpusOfOneFetch
<1>1. FetchInvariant => CorpusOfOneFetch
  BY DEF FetchInvariant
<1>2. QED
  BY <1>1, CorpusStarts, CorpusKeeps, PTL DEF CorpusSpec

\* However many batches, jobs and ingests there are, and whatever EMBEDDING_MODEL names:
\* with embeddings on, and no setting that came on without a job, a backfill that reports
\* "complete" and was alone leaves no chunk without vectors, but for those stored while
\* embeddings were on by an ingest that had no provider - it missed the switch, or
\* EMBEDDING_MODEL is empty (_backfill_job of params.py, ingest of pipeline.py).
THEOREM CompleteIsEmbedded == CorpusSpec => []CompleteMeansEmbedded
<1>1. FetchInvariant /\ OneJob => CompleteMeansEmbedded
  <2> SUFFICES ASSUME FetchInvariant, OneJob, enabled, status = "complete", Active = {}, ~crossed,
                      NEW i \in DOMAIN docs, ~docs[i].chunks.blind
               PROVE  docs[i].chunks.vectors = Batch
    BY DEF CompleteMeansEmbedded
  <2>1. docs[i] \in DocRow
    BY DEF FetchInvariant, CorpusTyped
  <2>2. docs[i].chunks \in ChunkRows
    BY <2>1 DEF DocRow
  <2>3. docs[i].chunks.vectors \subseteq Batch
    BY <2>2 DEF ChunkRows
  <2>4. \A d, b : ~Missing(d, b)
    BY DEF OneJob
  <2>5. \A b \in Batch : b \in docs[i].chunks.vectors
    BY <2>4 DEF Missing
  <2>6. QED
    BY <2>3, <2>5
<1>2. QED
  BY <1>1, CorpusStarts, CorpusKeeps, PTL DEF CorpusSpec
==============================================================================
