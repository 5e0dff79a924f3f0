# TLA+ verification of the estate administration assistant

The program is a FastAPI / SQLAlchemy back end (`src/backend/app`) with a React front
end for the executors of an estate in England and Wales: registers of assets and debts,
a task board and a timeline, a document vault, section 27 creditor notices, the
inheritance tax position, and agents that draft suggestions a person approves.

What makes it hard is not any one handler but how they meet. A request is one database
session: it loads rows, awaits (other rows, file bytes, a model), flushes changes and
commits. PostgreSQL runs at READ COMMITTED, the ORM writes only the columns that differ
from what was loaded, a flushed row stays locked until the commit, and nothing uses
version columns or `SELECT ... FOR UPDATE`. So two requests can both decide on rows that
the other is about to change, one can commit before the other and carry older values,
and each can fail between any two steps. Files live outside the transaction.

## Inventory

| Part | State | Operations | Meets | What makes it correct | Module |
|---|---|---|---|---|---|
| Task board `api/tasks.py` | task rows: status (free text), `blocked_by`, `blocks`, step link, soft delete | create, patch, archive | timeline, agent batches | no circular waiting, board never wedged, done rule - for clients that wait for answers and send ids as they got them | `TaskBoard` |
| Timeline mirror `services/process_sync.py`, `api/process.py` | step status | patch step, recompute step from tasks | task rows | step and tasks tell one story | `TaskBoard` |
| Creditor notices `api/creditor_notices.py` | notices, claims, two derived columns | create / patch / archive notice, add / patch claim, live guard | clock, overlapping writes | stored flag and deadline exact, never bolder than the live guard | `CreditorNotice` |
| Document vault `api/documents.py`, `services/storage.py`, erasure in `api/estate.py` | rows, files in object storage, audit of downloads | upload, new version, archive, download, erase | storage volume, crash | no dangling key, no file stranded silently, erasure complete and final, rows and files behave as one store | `DocumentVault`, `DocumentStore` |
| Agent suggestions `agents/graphs/next_actions.py`, `api/agent_drafts.py` | drafts, approvals, tasks | suggest, store, approve all or some | tasks changed by hand | approved once, batch stands alone, no duplicate of covered work | `AgentDrafts` |
| Tax engine `domain/iht_engine.py`, `domain/jurisdiction/england_wales.py` | none (pure) | assess, is_excepted, required_schedules | settings, registers | filing route and tax never contradict each other | `IhtEngine` |
| Re-evaluation `services/reevaluation.py`, `api/estate.py`, `api/iht.py` | estate settings, snapshots, alerts | edit settings, recompute, register writes | executors | latest snapshot current, every executor told | `Reevaluation` |
| Registers `api/assets.py`, `liabilities.py`, `debtors.py`, `creditors.py`, `reliefs.py`, `contacts.py`, `costs.py`, `digital.py`, `beneficiaries.py` | rows with soft delete, audit events | create, patch, add valuation, archive | each other, tax position | trail tells the row's story, derived reclaim follows its values | `Register`, `RegisterLog` |
| Estate accounts `domain/estate_accounts.py`, `GET /estate/accounts`, `/estate/summary`; legacies and payments `api/beneficiaries.py` | legacy rows, distributions | draw up accounts; create, patch, archive a legacy; record a payment | registers, latest assessment, exports | adds up to the penny, payments counted once, an archived total is final | `EstateAccounts` |
| Drafts `agents/graphs/forms_draft.py`, `iht_narration.py`, drafting in `api/agent_drafts.py`; approvals `api/approvals.py`; exports `api/exports.py` | draft documents, approvals, audit of exports | draft a form, letter or narration; upload a version; approve; export | accounts, assessment, registers, vault | what leaves the system is what was approved, a pack lists every asset | `Paperwork` |
| Statutory dates `domain/deadlines.py`, deadline board `api/process.py`, administration tax years `api/admin_tax.py` | deadline rows, tax year rows | recompute the board; create, patch, archive a tax year | estate, notices, assets, assessment | statutory length, one row a type, derived columns exact | `StatutoryDates`, `DeadlineBoard` |
| Knowledge ingest `ingest/`, `agents/graphs/knowledge_ingest.py`; the embedding switch `api/params.py` | documents, versions, chunks, vectors, two settings | ingest, review and approve a change, switch, backfill | the published page, restarts | one fetch, one document a source; complete means embedded; a backfill ends | `Corpus` |
| Knowledge search, chat and answers `api/knowledge.py`, `services/qa_chat.py`, `api/knowledge_chat.py` | conversations, messages, pinned passages | ask, archive, library question | corpus, daily limit | every marker names a source, limits overshot by no more than the overlap | `Guidance`, `Chat` |
| Decisions, notifications, audit and activity views, PDF layout, backups, seeding, authentication, shell, front end, migrations | - | - | - | - | not modelled (below) |

The hazards, each at the line where it bites, with the properties that would catch it,
are in `PROJECT.json`.

## The modules

All the request modules share one form. A request is a record in `req` (`call`, `run`) with
a `phase` or a place; an action is what the handler does between two points at which another
request can be seen: the load, the flush or computation, the commit, and a rollback that can
come at any moment. `Idle` is a request that is not in flight. In some modules `kind` says
what a request does, and a behaviour whose bounded requests are used up and answered ends in
`Quiet`, so that a deadlock is still an error. Row locks appear as guards (a flush waits
while another request has sent a change of the same row). Variables called history record
what the code does not keep and the properties need: which requests overlapped (`clean`,
`missed`, `exact`, `settled`, `overtaken`), which files a row ever named, what an executor
was told, which texts were approved. No guard of an action reads one, and no code-modelling
variable depends on one.

**`TaskBoard`** has the two things that make the board less safe than its checks look. An
entry of `blocked_by` or `blocks` is a task *as somebody spelt its id* (`Ref`): the router
stores the strings it was sent, `_open_blockers` parses them (`Named`), and the cycle walk
compares them as text with `str(id)` (`WalkedGraph`), where only the candidate's own lists
enter parsed. And a request awaits at every statement: `LoadTask`, then the two reads of the
check (`CheckReferences`, `CheckCycle`), the done rule, `FlushTask`, which takes the row,
`SyncStep`, and `CommitPatch`, which writes the columns that differ from those loaded. A
step's PATCH is `LoadStep`, `SyncTasks`, `CommitStep`. The walk is given as the least set
closed under its graph (`Reached`), which leaves out the order of the visits.
`MaterialiseTasks` is an approved agent batch, which skips every check. `missed` records what
others committed while a request was in flight, `doubtful` the tasks whose list was written
over such a commit. Merged: a flush and the read that follows it are one step, the tasks a
step moves are flushed with its commit, an archive is one step (a second that overlaps it
writes the same column again), and requests that wait for each other's rows end by `Fail`.
Titles, owners, due dates and comments are left out.

**`CreditorNotice`** splits each write in load, compute and commit. `Compute` is
`_recompute_derived` up to the count of open claims, `Commit` writes the columns that
changed (`Column`). `NextDay` is the calendar. The guard of distributions,
`SafeToDistribute`, reads dates and claims and never the stored columns, as the endpoint
does. A claim status is open or closed.

**`DocumentVault`** keeps the two stores apart: `files` and `doc`. A write loads, saves
the file, and only then commits; an erasure collects keys, commits, then deletes file by
file. A request can fail, or the server can stop, at every point. `LoseFile` is the
volume losing a file by itself. `NothingStranded` names every way a file can be left
without a row, and says there is no other.

**`DocumentStore`** is what the vault promises: one store, in which a document and its file
are written at once, `shown` are the files a document ever had and `readable` those that
can be had now. `DocumentVault` implements it (`StoreSpec`) with `shown` as the history of
the keys its rows named and `readable` as the files present that a row ever named: a saved
file that was not committed is not there yet for anybody, and a commit shows it. What the
store does not promise is as telling: the version number may go back and `links` may lose
an entry, since a new version writes what it computed from the row it loaded; the file of
the overwritten version stays readable all the same.

**`AgentDrafts`** goes from the tasks a run reads (`Suggest`), over the draft it stores,
to the approval. Proposals carry the subject they are about, which stands for their
title; a batch is the set of tasks one approval made. People create, close, reopen and
archive tasks at any moment. Approval of a selection leaves the links out that point at
what was not accepted, as `_materialise_tasks` does.

**`IhtEngine`** is the engine as operators over one record of figures, in whole pounds:
`Nrb`, `RnrbMax` with its taper, `Allowance`, `Tax`, the conditions for an excepted
estate and the schedules. **`Reevaluation`** extends it. `register` stands for the
committed rows of the registers (gross value, deductions of either sign, since no schema
bounds them below, categories, and whether the engine accepts the assets at all),
`settings` for the estate row. A settings edit goes `LoadEdit`, `Flush` (flush of the edit, read of the
latest snapshot), `Assemble` (read of the registers, engine, new snapshot) and
`CommitEdit` (edit, snapshot and alerts together); `POST /iht/recompute` skips the flush
and alerts nobody. Snapshots are dated when made and seen when committed, so `Publish`
compares dates. `told` is what each executor believes of the four thresholds: what the
first snapshot said, corrected by each alert. The one who makes an edit sees its outcome
and counts as told. `untold` and `stale` say where no alert could report and why the
snapshot may be old.

**`Register`** is one row of one of the nine register routers, which are the same
handlers with three differences; a router's profile records them. Contacts, costs and
beneficiaries flush the change before they build the audit event, and a PATCH without a
field returns early. The other six build and date the event first and send the UPDATE in
the commit. Reliefs also derive a column. So a request goes `Load` (the row as committed,
and the changed copy), then either `FlushThenDate` or `DateEvent` and `SendUpdate`, then
`Commit`. The lock is taken by the UPDATE; `updated_at` is in every one, so no request
escapes it. `Commit` writes the columns that differ from the ones loaded (`Written`) on
the row as it is by then, while the event keeps both snapshots of the copy. `trail` is in
commit order; each event has the date it was given, which is the order in which the audit
pages show it. Columns that behave alike are one: two plain columns, which drive the
derived one in reliefs, the derived one, and `archived_at`.
**`RegisterLog`** is what a register promises: the row is what its log of changes adds up
to. `Register` implements it with the trail, in commit order, as the log.

**`StatutoryDates`** is `domain/deadlines.py` over a real calendar: a date is the number
yyyymmdd, `InMonth` moves it by months, `Ordinal` counts days, and the clamp to the last
day of a shorter month is the code's. **`DeadlineBoard`** extends it with the two writers
of such dates. `StatutorySet` is `_derive_statutory_set`; `BeginRecompute` does the reads
of `POST /deadlines/recompute` and `CommitRecompute` its upserts. A loaded row is written
only where the new date differs from the one *loaded* (`Upserted`), which matters when
another recomputation committed in between. `Derived` is `_apply_derivations` with
`_derive_complex`; `CommitPatch` writes the columns that differ, as the ORM does. The key
under which a disposal's date is looked up is part of the model (`StoredField`), because
one module writes the list and another reads it.

**`EstateAccounts`** counts in pence, and shares in `Whole`-ths. Money is rounded where
`_money` rounds (`Pence`, half away from zero). `DrawnUp` is when the endpoint answers
with accounts and not with an error; `Entitlement` takes the legacies in any order, since
the query has none, and gives the last one the rest. Payments and archives are two-step
requests. **`Paperwork`** extends it, because the accounts are one of the exports: drafts
of forms, letters and narrations (`BeginForms`, `BeginLetter`, `BeginNarration`,
`Narrate`, `StoreDraft`), new versions, the two ways to approve (`Approve`,
`RecordApproval`) and the exports with what they check and in which order. The text of a
version is a model value; what the model writes is any text that reads as its kind. `Reading`
says what `POST /exports/iht-draft` makes of a text: every field of `FormsDraftPayload` has a
default, so any JSON object passes for a pack, the JSON of a letter too; a file that does not
read so is passed over for an older approval (`LookAtDraft`), and JSON that is no object is an
error. The body that endpoint also accepts is left out: what it renders is not on record.

**`Corpus`** is one source. A run (`Run`: an ingest or a change of the switch) goes fetch
(with the choice of provider), hash comparison, load of the stored document, commit; the
graph adds a review between the first two, and `Abandon` ends any run without a change. The
hash is of a page's bytes and the text is what is extracted (`Words`), so pages with
different hashes may say the same; the ORM writes the columns that differ from those loaded
(`Stored`, `Kept`). A fetch brings any page. `provider` is what `EMBEDDING_MODEL` names -
nothing, the local model, or another, which is not implemented - and only the second gives
vectors. The switch reads the setting for itself (`BeginSwitch`), again in `apply`
(`ReadBefore`), loads the row it writes (`LoadSetting`), writes it, which holds it, and loads
the status (`LoadStatus`), and commits both (`CommitSwitch`), each left unwritten where it is
what was loaded. The job is then due: `LoadUnembedded` is the task that starts after the
response, `EmbedBatch`, `FailBackfill` and `CompleteBackfill` its batches and its reports, and
`EndUnreported` what befalls a job whose response failed before it, or whose own report did.
`Restart` ends whatever is in flight and nothing else, as nothing is resumed. The load and
the write of a job's report are one step.

**`Guidance`** is retrieval and citation as operators: `Fused` is the reciprocal rank
fusion of `hybrid_search`, `QaSources` and `QaNumbers` the two numberings of the library
answer, `SourcesCited` and `Markers` the two of the chat. **`Chat`** extends it: `Admit`
(the count of the day), `Prepare` (the pool and the search), `CommitTurn` (messages and
new pins), with `Midnight` and archiving at any moment, and `AskLibrary`.

Each module with an MC module is instantiated there for TLC; operators named as faulty
variants in comments are the plausible mistakes each property has to catch.

## The runs

| Run | Question | Instance |
|---|---|---|
| `TaskBoard_deps` | What does it take to make tasks wait in a circle, or to wedge the board? | 3 tasks, 1 step, 2 requests, 2 spellings of an id, lists of up to 1 entry, 3 commits |
| `TaskBoard_steps` | When can step and tasks disagree, and who can pass the done rule by? | 3 tasks, 1 step, 2 requests, 4 statuses in two cases, 3 commits |
| `CreditorNotice_columns` | Are the derived columns right, and bolder than the guard? | 1 notice, 2 claims, 2 requests, 2 days |
| `DocumentVault_stores` | What can happen to files and rows under overlap, failure, crash, loss and erasure; do database and storage still behave as one store? | 2 documents, 3 keys, 3 requests |
| `AgentDrafts_approvals` | When is a draft materialised twice, do batches stand alone, do suggestions duplicate? | 2 steps, 2 tasks, 2 drafts, 2 requests, 2 approvals a draft |
| `Reevaluation_alerts` | Is the latest snapshot current, is everybody told, do route and tax agree? | 2 executors, 2 requests, 4 registers, one of them with a negative deduction and one the engine refuses, 3 edits, 3 snapshots, the real tax constants |
| `Register_trail` | Does the trail tell the row's story, whoever overlaps; when is a row archived twice; is a reclaim ever stale? | every router, 2 requests, 6 bodies, 3 events, 3 dates |
| `DeadlineBoard_recompute` | When is a deadline or a tax year doubled; does a recomputation put a stale board right; are the dates as long as the statutes say? | 2 requests, 3 writes, up to 3 tax year rows; a death on 31 August before a leap February, notices at month ends and two, one or none of them |
| `DeadlineBoard_cgt` | "CGT 60-day deadlines for recorded residential disposals" (`api/process.py:218`) | as above; violated |
| `Paperwork_exports` | Do the accounts add up in every order of rows, are payments charged once, and is what is exported what was approved? | 3 legacies, 2 beneficiaries, 2 drafts, 2 texts, 2 requests, 4 writes, an estate with odd pennies and one in debt |
| `Corpus_backfill` | Is what is stored of one fetch, does "complete" mean embedded, does a running backfill end? | 2 requests, 2 jobs, 2 batches, 3 pages of which two say the same, 3 kinds of provider, 3 writes, 1 restart |
| `Chat_limits` | Do the markers of an answer name its sources; by how much can the two limits be overshot? | 2 requests, limits of 2, 3 passages on 2 pages, every ranking and choice of up to 2 citations, 3 questions, 1 midnight |

Why the bounds are enough. Every hazard found here needs two requests that overlap; a
third matters only in the vault, where an erasure, an upload and a download meet, and it
has three. Three tasks hold every shape of cycle that is not a repetition of a smaller
one: through one's own lists, through another's, and through both columns. Three commits are
two requests that overlap and the third that finds what they left. An id has the spelling of
`str()` and one other, as every other spelling is treated alike. The notice
instance has one notice because no write reads another; two claims let one close while
the other arrives. Two days separate "in the past" from "today". Three keys let two
versions and an erasure be in flight. Three snapshots give a first one, one to compare
with and one overtaken. The registers and edits put the estate on both sides of
each threshold (taxed, tapered, excepted, capped) and below zero. Three events of a
register row are one that creates it and two that can overlap, in either order of dates
and commits; the six bodies give, clear and pin, one column or two. Symmetry is only over
identifiers no definition orders. In `DeadlineBoard` three writes are two requests that
overlap and a change of the facts between them, or two rows and the third that doubles
one; the one date of death is chosen so that the sixth month after it is a February with
29 days, and the anniversaries of that day fall in shorter ones. Four writes in
`Paperwork` are a draft, its approval, a version and an export, or two payments and two
archives; two halves of an odd residue, one of them off by the tolerance, are where the
last legacy absorbs a penny, and the second register makes the residue negative. In
`Corpus` two batches let a backfill fail between them, two jobs report over one another, and
three pages differ in words, or in markup only; every exception that a property names there
is needed by a behaviour of this instance, but for the start that is left unwritten, which
the proof asked for. In `Chat` the pool is read from the newest 3 * `PinLimit` rows, and the bound on
the pins is stated for no more than three requests in flight; the instance has two.

Fairness is stated once: weak fairness of every step of a backfill job in `Corpus`, since
the event loop runs a background task to its end while the process lives. Requests are
owed nothing: a client may never send the next one, and a review may stay open for ever.
`BackfillSettles` needs no more than that. All other properties are safety. Deadlock is
checked in every run but `Register_trail`, which ends when its events and dates are used
up, and the two of `TaskBoard`, which end when their commits are.

What they show, beyond passing:

- The board's cycle check is enough for clients that send ids as they got them and wait
  for their answers, although it starts only at the task being written and ignores
  archived tasks and stale `blocks` entries. For others it is not: one request after
  another can close a circle of respelt ids, which the walk does not recognise and the
  done rule does, so that the board is wedged; and so can two patches that overlap. The
  done rule is passed by when a step is set to done, and when a blocker is reopened or a
  list rewritten while the request is in flight.
- Step and tasks part when tasks are linked, created, archived or moved, and when two
  requests overlap; a status written from either surface without overlap brings them
  together again.
- Only an overlap leaves notice columns wrong, and the next write that runs alone repairs
  them.
- In the model of the vault a file is stranded by five named causes and no other; an erasure that met no other write
  leaves nothing.
- A threshold crossing goes unreported only by a recompute by hand or an overlap. The
  filing route contradicts the tax at most by what negative deductions add to the estate.
- A register row is always what its committed changes add up to, so overlapping edits of
  different columns both survive. The trail shows that story in order only where the
  router flushes first: in the other six, two overlapping edits can be dated in one order
  and committed in the other.
- A deadline or a tax year is doubled only by requests that overlapped (or a PATCH that
  renames a year), and a recomputation that is alone puts every date that applies right,
  however stale the board was. A tax year's derived columns are wrong only after an
  overlap, until its next write.
- The accounts reconcile to the penny in every order of the legacies, in debt too; a
  payment is charged twice, or against the wrong legacy, only when its beneficiary has two
  residuary legacies, one of them perhaps archived.
- An export of an unapproved text needs a version that was uploaded after the approval or
  during the export. A pack that was not drafted as one needs an approval of the pack kind
  that was recorded by hand.
- A stored document mixes two fetches when an ingest that another one overtook left a
  column unwritten, because the page, or only its text, was the one it had loaded. Nothing
  need be forced. "Complete" with vectors missing needs an ingest without a provider (it
  chose before the switch, or `EMBEDDING_MODEL` is empty), a setting that came on without a
  job, a start that was left unwritten, or two jobs. "Running" for ever needs a restart, a
  response that failed before its job, or a report that failed.
- Daily limit and pin pool are overshot only by requests in flight together, and by no
  more than one question, or one pool, each.
- Two archives of one row both succeed only when they overlap. An unpinned reclaim is
  stale only after an overlap, or when one of its values is cleared, which leaves the last
  figure.

## Where the code and its documentation part

One is a run that ends in a violation: `DeadlineBoard_cgt`. The recomputation looks for the
key `date` in a disposal (`api/process.py:227`) that the tax year router stores under
`disposal_date` (`schemas/trackers.py:243`), so no reporting deadline ever reaches the
board, although the tax year row itself shows it.

These were met while modelling and have no run of their own. Where a property names the
exception, it is given.

Tasks, notices, documents and tax:

- "A task with any open blocking task cannot move to done" (`api/tasks.py:6`): setting the
  step to done sets its tasks to done without asking, and an overlapping request can reopen
  a blocker or rewrite the list (`DoneOverBlockerOnlyByStepOrOverlap`);
- "the dependency graph is walked to reject cycles" (`api/tasks.py:5`): an id in capitals or in braces ends the walk, so a cycle is
  stored, and two overlapping patches that each add one half of a cycle both pass
  (`CircleOnlyByOverlapOrSpelling`); the done rule parses the ids, so the tasks of that cycle
  hold each other back (`WedgedOnlyByOverlapOrSpelling`);
- the stored flag of a notice is "true only when ... no notice_claim rows are open"
  (`api/creditor_notices.py:9`): a claim added while the last one is closed leaves it true
  (`DerivedColumnsExact`);
- "the previous file key is kept in links" (`api/documents.py:216`): of two versions
  uploaded at once, one key is in neither (`NothingStranded`);
- "This draft is already approved." (`api/agent_drafts.py:350`): two approvals at once both
  pass (`SecondBatchOnlyByOverlap`);
- the tool "recomputes automatically whenever you change an asset, a liability or the
  settings" (`docs/USER_GUIDE.md:158`): only settings do (`LatestIsCurrent`);
- a step and its tasks can disagree after a task is created on, linked to or archived
  from the step (the mirror is called only when a status is sent), and after two requests
  that overlap (`DriftOnlyByMembershipOrOverlap`);
- `blocks` entries that another task stored are not followed by the done rule, which
  reads `blocked_by` only, so a cycle through `blocks` alone is
  possible (`api/tasks.py:137`);
- the done rule compares statuses exactly and the mirror in lower case, so a client that
  sends "Done" passes the first and satisfies the second;
- a download is audited when the response is prepared, and a missing file fails after
  that, while it streams;
- `POST /approvals` adds a row and leaves the pending approval of the draft as it was
  (`docs/masterdocs/FEATURES.md:128` describes one record);
- a task waiting for a third party is not among the open ones, so its subject is
  suggested again;
- a material change of the registers is absorbed by the next recompute by hand, and many
  small changes never add up to an alert;
- the snapshot before an audit event is of the row as loaded, which under overlap is not
  the row that was replaced;
- liabilities and costs have no lower bound: a liability of -10000 on a gross estate of
  320000 makes the net estate 330000, which is excepted by its gross value and owes tax
  (`LatestRouteAgrees`, which allows that much); an asset of a negative value makes every
  recompute, and the accounts, fail.

Deadlines, accounts and exports:

- a recomputation archives nothing: the claim date of a notice that was withdrawn and the
  exemption date of an ISA that was sold stay on the board;
- overlapping patches of a tax year each write the columns derived from what they loaded
  (`TaxYearDerivedExact`);
- `GET /estate/accounts` fails with a server error, not the 422 of shares that do not add
  up, when a residuary legacy has no share or one above the whole (`DrawnUp`);
- payments are keyed by beneficiary: one with two residuary legacies is charged with each
  payment twice, and payments on an archived legacy count against a live one
  (`PaymentsCountedOnce`); the last legacy absorbs what the tolerance on the shares lets by;
- recording a distribution does not ask the section 27 guard (`api/beneficiaries.py:243`);
- an approval names a document and not a version, and `export_letter` loads the row before
  it looks for the approval, so "never sent or exported unapproved" has two exceptions
  (`ExportsMatchRecords`);
- every field of a forms payload has a default, so the JSON of a letter whose approval was
  recorded as that of a pack is exported as an empty "IHT forms" pack, in place of an older
  real one; JSON that is no object is a server error (`api/exports.py:210`);
- a pack takes its forms from the latest assessment and its assets from the registers as
  they are (`PackListsAssets`);
- a narration whose figures fail the check twice is stored with a flag and can be approved.

Knowledge:

- a backfill that a restart ends, whose response failed before it began, or whose report
  failed stays "running", and only switching off and on again starts another
  (`BackfillSettles`);
- with `EMBEDDING_MODEL` empty, "complete" is reported of a corpus without chunks and the
  next ingest stores its chunks without vectors; the switch reads its setting twice, so that
  two switches at once can leave embeddings on without a backfill (`CompleteMeansEmbedded`);
- two first ingests of a source at once make two documents, and one that another overtakes
  can leave its hash with the other's text, or the other's text with its chunks
  (`CorpusOfOneFetch`); the raw file of a
  version is saved before the version is committed (`ingest/pipeline.py:192`);
- chat markers are numbered by search result and sources by page, so an answer that used
  two passages of one page has a marker without a source (`MarkersNameSources`);
- "every cited passage is pinned" (`services/qa_chat.py:12`) holds while the pool has room;
  pins of replaced versions are still supplied;
- the chat stores the second answer that fails the contract, where the library answer
  refuses; the `guidance_qa` graph does not check the contract at all;
- a conversation archived during a turn still receives its messages.

## Proofs

`tlapm` checks every theorem for all values of the constants, from the named assumptions
of the modules only. Every invariant and every action property that a passing run checks
is the statement of a theorem, so the runs are the small instances of these. A proof
module EXTENDS what it is about. Two of them extend two components each, whose names do
not meet: these are told apart by their specifications (`NoticeSpec`, `CorpusSpec`).

**`TaskAndNotice_proof`**, for `TaskBoard`: `TypeCorrect`; `CirclesNeedOverlapOrSpelling`;
`WedgesNeedOverlapOrSpelling`; `MirrorDriftsOnlyByMembershipOrOverlap`;
`DoneRuleHoldsUnlessOverlapped`. Acyclicity is stated by sets: no non-empty set of tasks each
of which waits for another member. The inductive invariant is `TypeOK`, that lists name tasks
that exist (`RefsExist`), that a task which is absent is untouched (`AbsentUntouched`), and
what each request in flight knows (`CallFacts`): where it stands in its handler (`Placed`),
that it names existing tasks, that it walked the graph of the lists as they are unless one was
rewritten since (`Walked`), that its copy, the step and the list of tasks it read are those
of the board unless it missed a commit (`CopyFresh`, `StepFresh`, `MirrorFresh`, `ListFresh`),
that the blockers it checked are still done (`Guarded`), and that a create has its id to
itself (`FreshId`). With it, a commit that missed nothing keeps the lists acyclic: a set that
waits on itself afterwards contains the written task (else it did before), so the set reached
from it contains it, which the check refused. A batch's tasks wait only backwards in their
batch. The board is not wedged because otherwise the tasks that are not done would be a set
that waits on itself. The two action properties are about one commit each, and use what the
invariant says of the request that makes it.

For `CreditorNotice`: `NoticeTypeCorrect`, `StoredColumnsExact` and
`StoredFlagsAreCautious`. The invariant adds what a write that met no other knows (`AloneIsAlone`): the row is still the one it
loaded, and the flag it computed is the one its own claim leaves. The claims are counted
through `ClaimsOwned`: the row that a write is about to insert or close belongs to its
notice. Without `AloneIsAlone` the commit of a write that changed nothing could not be
shown to leave the columns exact, as it writes none of them.

**`DocumentVault_proof`.** `IInv` adds to the type invariant: what a request in each
phase holds, that keys in rows were issued, that a saved key belongs to one request and
no row, that a file is only deleted after the erasure that collected its key committed,
and that every file is referenced, held by a request, or has a named cause. The type
invariant is its first part (`VaultTypeCorrect`); five of the run's properties follow,
among them the action property of the audited download.

`VaultIsOneStore` is the refinement (`StoreSpec`). `Showing` adds how rows stand to what was
ever shown: a row, and a copy of it in a request, names only files its document showed; a
saved file was shown by none; and an upload has its document to itself (`NewApart`), without
which two uploads could be one document with two first files. Then a commit is a `Write`,
the erasure an `Erase`, unless an overlapping erasure was first, the deletion of a file a
`Delete`, and saving a file, failing and stopping are stutters. From it follow
`ArchivedForGood`, which is about a version that was loaded before its document was
archived, and, from `Showing`, `VersionsStayReadable`.

**`Reevaluation_proof`.** `RouteAlwaysAgrees` proves of the engine, for all bands, limits
and rates, that an excepted estate owes nothing and that a chargeable one above the
nil-rate band must file, up to the amount by which negative deductions raise the net above
the gross value (`Excess`); `ExceptedOwesNothing` is the case without them. Two more
theorems are about the shape of the tax: `TaxFollowsTheFigures`, it never falls when an
estate is worth more or has smaller bands, exemptions or gifts to charity, where the taper
and the change of rate could turn it round; and `TaperHasNoCliff`, an extra pound makes at
most one and a half pounds more taxable. Both rest on `RnrbMaxFalls`, by cases on which of
two estates is over the threshold, and the first on the reduced rate being the lower one
(`RulesAssumption`; 0.36 and 0.40 in `england_wales.py`).
`Inductive` proves the strengthened invariant: a request that missed no commit holds the
settings as they will be after its own commit (`After`), and once it has read the
registers its snapshot is what they give. Without that clause a commit could not be shown
to leave the latest snapshot current. `PositionCurrent`, `AlertsReachEverybody` and
`LatestAssessmentAgrees` follow.

**`Register_proof`.** The inductive invariant has these parts: dates in the trail and in
requests are past (`DatesPast`), one request holds the lock (`OneHolder`), in the routers
that flush first a date is given under the lock and so is later than every committed one
(`DatedUnderLock`), the trail in commit order replays to the row (`ReplaysInCommitOrder`),
a request that missed no commit holds the row as loaded (`LoadedRow`), and a request that
archives holds a row that was not archived (`ArchiveShape`). `CommitOrderIsDateOrder`
turns the replay in commit order into the one by date. The five invariants follow;
`RegisterKeepsItsLog` is the refinement: a commit is a `Record` of the columns it touched,
every other step stutters.

**`DeadlineBoard_proof`**, in three parts.

- `RowsTwiceOnlyByOverlap`. The property alone is not inductive: nothing in it keeps a
  second clean insert from being committed. `IInv` adds what a request that is still clean
  knows: a recomputation that found no row of a type has a board without one
  (`RowsMissing`), a creation whose year was free has no live row of it (`YearsMissing`);
  both because every commit that could change that spoils the request. Rows only lose
  their mark, and a year changes only with it (`NoBolder`).
- `TaxYearColumnsExact` and `RecomputeLeavesItsDates`. `Loaded` says what a request read:
  a clean recomputation holds the deadlines of the present facts and each row's present
  date, a clean patch the present columns, so that what it does not write is right.
- `DatesAreStatutory` is about the calendar. A month is numbered from year 0 (`MonthsOf`),
  a date is a month and a day of it (`DateParts`), and the order of dates is that of
  these pairs. `Ordinal` is shown to grow by the length of a month from one first day to
  the next, by cases on the month and on the leap rule, so that a carry into the next
  month (`Spill`) changes the date and not the count of days; three carries are enough for
  sixty days. A claim date is two full months after the latest notice, and at least as
  long after the others. `DatesKnown` says that rows and requests hold only disposals that
  a body gave.

**`Paperwork_proof`**, for the accounts and the exports.

- `AccountsAlwaysReconcile` and `PaymentsAreCountedOnce`. The sums over registers and
  legacies are folds over sets. Their laws (`SumAdd`, `SumLinear`, `SumBound`,
  `SumReindexed`, ...) are proved by induction on the set: the sets for which a law holds
  are a set of sets, and `SetInduct` shows that it has every finite one. What is rounded
  is within half a penny (`PenceRounds`); the shares before the last add up to less or
  more than the residue by that much each, and the last takes what is left
  (`LastShareWithin`), in any order of the rows and below zero. That a beneficiary without
  two residuary legacies is charged once is `InterimOfOne`. The invariant is only that
  amounts are integers (`Amounts`) and that rows are rows (`Settlement`).
- `ArchivedTotalStays`. `Settlement` adds to the property: an archive that nothing
  overtook has read the total as it is (`TotalRead`), and of a settled legacy no payment
  is on its way (`NoPaymentLeft`). Without the second a payment could be committed to it.
- `ExportsSayWhatIsOnRecord`. What a letter or a pack has read is the draft's text while nothing
  overtook it (`LettersRead`), the approvals a pack chooses among are of drafts of packs or
  were recorded by hand (`PacksGiven`, from `RowsDrafted`, which says that of every approval
  row); a text that was seen approved is among the approved ones (`SeenText`), which only
  grow (`Growth`). `LastGood` is the property of the export that was made.
- `PacksListEveryAsset`. The latest assessment has the schedules of the assets it was
  made of (`SnapshotCodes`), so that a pack of the same assets has a form for each.

**`AgentGraphs_proof`**, for `AgentDrafts`: `TasksOnceUnlessOverlapped`, from `LoadedOnce`:
of a draft without overlap one request at most is approving it, and then it is pending and
has no tasks yet. `ApprovalsStandAlone`, from `Links`, which adds that absent tasks have no
links. `CoveredOnlyByLaterTasks`, from `Covered`, which says the same of a proposal that a
run still holds. All rest on the types (`DraftsTypeCorrect`).

For `Corpus`: `CorpusTypeCorrect`, `DocumentsAreOfOneFetch` and `CompleteIsEmbedded`.
`RunsLoaded` says that an ingest has loaded what is stored until another commits: then it
writes whatever differs, and what it leaves is its own. An ingest that was overtaken writes
both columns, unless one was what it had loaded, which is the exception. `OneJob`: until jobs
overlap, embeddings come on without one, or a start is left unwritten, there is one job, its
list has every batch that has no vectors but those stored by an ingest without a provider
(`Missing`), and the status is not "complete" until it is through. The third of these
exceptions came from the proof: without it the status of an earlier job could stand for a new
one's.

**`Chat_proof`.**

- `DailyLimitHolds`. A request in flight stores at most one question, so the questions
  asked and the requests in flight are counted together: admission raises the sum by one
  and needs the count below the limit and one idle request, a stored turn moves one from
  the second to the first. `LimitsOvershotByFew` adds the pins. They cannot be counted so,
  since a turn sees only what the pool showed it. Each pin belongs to the share of a
  request (`PoolShared`): a passage is in a request's share when it pinned it or was given
  it, the share has at most `PinLimit` passages, and a turn whose pool has room has the
  whole of its share in it. This needs a read that reaches all the pins, which is why the
  property supposes that no more requests overlap than pools fit into the rows read
  (`PinWindow`). One request more breaks the bound: one turn pins a whole pool, three that
  overlap it pin all of that but one passage, and the rows read are then repetitions that
  leave the one out; all four see room for another. With 3 * `PinLimit` requests in flight
  the pins grow without a bound.
- `MarkersHaveSources` is about lists: the members of a finite set in an order (`Ranks`,
  `InOrderNumbers`), the elements kept of a list and their numbers (`KeptIsList`,
  `DistinctIsList`, `TakeIsList`). Where each page gave one passage, the source listed for
  a page carries the number of that passage.

The assumptions on constants are few, and each can be held against the code.
`AccountsAssumption`: registers are
finite, amounts are whole pence, no category maps to the main form, and no legacy is
archived at the start. `DeadlineAssumption`: dates are dates of the calendar, up to the
last year whose ten instalments it has; the program raises for a later one. `ChatAssumption`:
a finite number of requests and a daily limit that is at least one, as the settings page
stores it. `BoardAssumption`: the seeded tasks wait for one another without a circle
(`depends_on` of the checklist in `services/seeding.py`), a PATCH sends at least one column and every body keeps a task a
task. `PositionAssumption`: an edit is one the settings form allows, the gross value of a
register is no less than nothing (a negative asset is one the engine refuses), and
deductions are any integers. `PaperworkAssumption`: a file reads in one of three ways.
`CorpusAssumption`: every page says something. The others say that an empty column is no value and that bounds are numbers.

Only model-checked: `BackfillSettles`, since liveness under fairness and ENABLED are out
of the prover's reach, and the disagreement of `DeadlineBoard_cgt`, which is a behaviour to
be found and not a law. Induction over data is too: that is why lists are functions of
positions here and why sums are reasoned about by sets.

## Abstractions

Money is in whole pounds in the tax engine and in pence in the accounts. The gross value
is always given, and the facts that no document relates to a threshold are left out of the
edits. Notice dates in `CreditorNotice` are day numbers and the two months and a day are
the constant `Wait`; `StatutoryDates` has the calendar. Who may read a private document or
cost is not modelled. In `AgentDrafts` a PATCH of a task changes
its status only: lists that people edit by hand are in `TaskBoard`. In the agent instance the contacts and deadlines that also give rise
to suggestions (`Chore`) are empty: the timeline steps exercise the links, which the
others do not have.

In `DeadlineBoard` the net value of the latest assessment is a fact that may change, and
instalments are checked as dates, since no row is kept for them. In `Paperwork` a draft's
text is a model value, whichever agent wrote it, and the registers are one value of a few.
In `Corpus` the settings rows exist, the two writes of a switch are committed as they were
loaded, and the parts of a guide are fetched all or not. In `Chat` the daily limit is a constant, so lowering it during a day is left out; a passage is both a chunk and the
quotation from it; the answer of a model is any choice of citations; the summary of the
history, the progress text and the question of the topic guard are left out.

## Not modelled

- Decisions: rows that are appended and never changed. Notifications: reading marks a
  caller's own rows. Lists, dashboards and the activity and trace views: queries.
- PDF layout, letter wording, gaps listed in a form: text.
- Backups: subprocesses that change no state of the application. Seeding: run once, or
  idempotent by title (two overlapping seedings of the tasks would double them).
- Authentication: a token is looked up in a fixed table. Shell, front end, migrations:
  wiring, a client without state of its own, generated code.
- Comments and checklists of tasks; notifications of costs; the helper for the earliest
  grant application, which only tests call.

## Plan

1. An abstract specification of the stored position ("the latest assessment is a past
   state of the rows") that `Reevaluation` implements.
2. Composition of `EstateAccounts` with `CreditorNotice`: which distributions are recorded
   while a claim is open.
3. Liveness of a purge that is not interrupted.
