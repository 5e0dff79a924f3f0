------------------------------- MODULE Corpus -------------------------------
(***************************************************************************)
(* The cached guidance corpus: the ingest of a registry source             *)
(* (app/ingest/pipeline.py), reached by POST /knowledge/ingest and by the  *)
(* knowledge_ingest graph with its review of changed sources, and the      *)
(* embedding switch with its background backfill (app/api/params.py).      *)
(*                                                                         *)
(* One source is modelled: runs over several sources ingest and commit     *)
(* them one after the other.  An ingest fetches the page, then loads the   *)
(* stored document, then commits; other requests and the backfill run in   *)
(* between.  The hash is taken of the bytes of the page, the text is what  *)
(* is extracted from them.  The backfill is started once the request that  *)
(* switched embeddings on has answered, reads the chunks without vectors   *)
(* and commits batch by batch.  A restart ends everything in flight.       *)
(***************************************************************************)
EXTENDS Integers, Sequences, FiniteSets

CONSTANTS
  Page,       \* what the source may publish: the bytes, which are what is hashed
  Saying,     \* what a page may say
  Words,      \* the text extracted from a page; several pages may say the same
  Run,        \* requests and graph runs that may overlap
  Job,        \* backfill jobs that may overlap
  Batch,      \* the parts of a document's chunks that the backfill commits together
  MaxWrites,  \* bound: requests in a behaviour
  MaxStarts   \* bound: restarts in a behaviour

ASSUME CorpusAssumption ==
  /\ Words \in [Page -> Saying]
  /\ Batch # {}
  /\ MaxWrites \in Nat /\ MaxStarts \in Nat

VARIABLES
  docs,     \* the document rows of the source, with their chunks, in order of insertion
  enabled,  \* setting embeddings_enabled
  status,   \* setting embeddings_status
  provider, \* the provider EMBEDDING_MODEL names, for as long as the process lives
  run,      \* the requests in flight
  job,      \* the backfill jobs
  made,     \* chunk ids handed out: the generation of the last chunks
  writes, starts,  \* how many requests and restarts there have been
  lost,     \* history: the last job has ended without the report status waits for
  crossed   \* history: since the last lone start two jobs have been active together, or
            \* embeddings came on without a job, or that start left its status unwritten

settings == <<enabled, status>>
counters == <<writes, starts>>
histories == <<lost, crossed>>
corpusVars == <<docs, settings, provider, run, job, made, counters, histories>>

\* EMBEDDING_MODEL: empty, the local model, and any other, which is not implemented.
Providers == {"none", "local", "voyage"}

NoRun == [phase |-> "idle"]
Off == [phase |-> "off"]

InFlight == {r \in Run : run[r] # NoRun}
Active == {j \in Job : job[j] # Off}

Counted == writes < MaxWrites /\ writes' = writes + 1

-----------------------------------------------------------------------------
(* The stored document.                                                    *)

\* _existing_doc: the oldest row of the source; 0 is none.
ExistingDoc == IF docs = <<>> THEN 0 ELSE 1

\* The hash-diff of a fetched page against the stored document.
SameHash(p) == docs # <<>> /\ docs[ExistingDoc].row.hash = p

\* The text of a page and of the guide parts its landing page links to, which are left
\* out when they cannot be fetched.  The stored hash is that of the landing page.
GuideText(p, parts) == [words |-> Words[p], parts |-> parts]

\* Faulty variant: an update keeps the hash of the first version.
StoredKeepsHash(q) ==
  IF q.doc = 0 THEN [hash |-> q.page, text |-> q.text, version |-> 1]
  ELSE [hash |-> docs[q.doc].row.hash,
        text |-> IF q.text = q.seen.text THEN docs[q.doc].row.text ELSE q.text,
        version |-> q.seen.version + 1]

\* The columns of the document after the commit of q: of a loaded row the ORM writes
\* the columns that differ from what was loaded.
Stored(q) ==
  IF q.doc = 0 THEN [hash |-> q.page, text |-> q.text, version |-> 1]
  ELSE [hash |-> IF q.page = q.seen.hash THEN docs[q.doc].row.hash ELSE q.page,
        text |-> IF q.text = q.seen.text THEN docs[q.doc].row.text ELSE q.text,
        version |-> q.seen.version + 1]

\* Faulty variant: the vectors are left to the backfill.
VectorsNone(on) == {}

\* embed_texts of the provider an ingest chose: without one, or with NoneProvider, the
\* chunks are stored without vectors.
Vectors(on) == IF on /\ provider = "local" THEN Batch ELSE {}

\* The chunks of q's text, in place of those the document had.  blind is a history: they
\* were stored while embeddings were on, by an ingest without a provider that embeds.
Chunks(q) ==
  [id |-> made + 1, text |-> q.text, vectors |-> Vectors(q.on),
   blind |-> enabled /\ ~(q.on /\ provider = "local")]

-----------------------------------------------------------------------------
(* Ingest of the source.                                                   *)

Ingest(phase, force, p) ==
  [phase |-> phase, force |-> force, on |-> enabled, page |-> p,
   doc |-> 0, seen |-> NoRun, text |-> NoRun, overtaken |-> FALSE]

\* POST /knowledge/ingest: the provider is chosen and the page fetched, whatever the source
\* publishes by then.  A page that cannot be fetched ends the request with a report and
\* no change.
BeginIngest(r, force, p) ==
  /\ run[r] = NoRun /\ Counted
  /\ run' = [run EXCEPT ![r] = Ingest("fetched", force, p)]
  /\ UNCHANGED <<docs, settings, provider, job, made, starts, histories>>

\* The plan node of the graph: a new source is ingested at once, a changed one waits for
\* a person, and an unchanged one needs nothing.  Of several rows the query finds any.
BeginPlan(r, p) ==
  /\ run[r] = NoRun /\ Counted
  /\ docs = <<>> \/ \E i \in DOMAIN docs : docs[i].row.hash # p
  /\ run' = [run EXCEPT ![r] = Ingest(IF docs = <<>> THEN "fetched" ELSE "review", FALSE, p)]
  /\ UNCHANGED <<docs, settings, provider, job, made, starts, histories>>

\* The reviewer resumes the run: the page is the one the plan fetched, the provider is
\* chosen anew.
ApproveChange(r) ==
  /\ run[r].phase = "review"
  /\ run' = [run EXCEPT ![r].phase = "fetched", ![r].on = enabled]
  /\ UNCHANGED <<docs, settings, provider, job, made, counters, histories>>

\* The page has the hash of the stored document.
Unchanged(r) ==
  /\ run[r].phase = "fetched"
  /\ ~run[r].force /\ SameHash(run[r].page)
  /\ run' = [run EXCEPT ![r] = NoRun]
  /\ UNCHANGED <<docs, settings, provider, job, made, counters, histories>>

\* The stored document is loaded, then the guide parts are fetched and the text is cut
\* and embedded.
LoadDoc(r, parts) ==
  /\ run[r].phase = "fetched"
  /\ run[r].force \/ ~SameHash(run[r].page)
  /\ run' = [run EXCEPT ![r].phase = "loaded",
                        ![r].doc = ExistingDoc,
                        ![r].seen = IF docs = <<>> THEN NoRun ELSE docs[ExistingDoc].row,
                        ![r].text = GuideText(run[r].page, parts)]
  /\ UNCHANGED <<docs, settings, provider, job, made, counters, histories>>

\* No change is made: the review ends in a rejection, extraction, embedding, the object
\* store or a statement fails, of an ingest or of a change of the settings.
Abandon(r) ==
  /\ run[r] # NoRun
  /\ run' = [run EXCEPT ![r] = NoRun]
  /\ UNCHANGED <<docs, settings, provider, job, made, counters, histories>>

\* A column the ORM leaves alone: what was loaded is what the fetch brought.
Kept(q) == q.doc # 0 /\ (q.page = q.seen.hash \/ q.text = q.seen.text)

\* The commit; a provider that is not implemented has raised before it.  Overlapping
\* commits to a row wait for one another at its UPDATE, so the DELETE that follows sees
\* the chunks of the one before.  overtaken is a history: another ingest committed after
\* this one had loaded the document.
CommitIngest(r) ==
  LET q == run[r]
      new == [row |-> Stored(q), chunks |-> Chunks(q),
              overtaken |-> q.overtaken, kept |-> Kept(q)]
  IN
  /\ q.phase = "loaded"
  /\ ~(q.on /\ provider = "voyage")
  /\ docs' = IF q.doc = 0 THEN Append(docs, new) ELSE [docs EXCEPT ![q.doc] = new]
  /\ made' = made + 1
  /\ run' = [p \in Run |->
       IF p = r THEN NoRun
       ELSE IF run[p].phase = "loaded" THEN [run[p] EXCEPT !.overtaken = TRUE] ELSE run[p]]
  /\ UNCHANGED <<settings, provider, job, counters, histories>>

-----------------------------------------------------------------------------
(* The embedding switch and its backfill.                                  *)

FreeJob == CHOOSE j \in Job : job[j] = Off

\* POST /settings/params reads whether embeddings are on, to see if they come on.
BeginSwitch(r, on) ==
  /\ run[r] = NoRun /\ Counted
  /\ run' = [run EXCEPT ![r] = [phase |-> "switch", on |-> on, was |-> enabled,
                               before |-> on, found |-> on, word |-> "idle"]]
  /\ UNCHANGED <<docs, settings, provider, job, made, starts, histories>>

\* apply reads it again, to see if there is anything to write.
ReadBefore(r) ==
  /\ run[r].phase = "switch"
  /\ run' = [run EXCEPT ![r].phase = IF enabled = run[r].on THEN "skipped" ELSE "applying",
                        ![r].before = enabled]
  /\ UNCHANGED <<docs, settings, provider, job, made, counters, histories>>

\* set_setting loads the row that it writes.
LoadSetting(r) ==
  /\ run[r].phase = "applying"
  /\ run' = [run EXCEPT ![r].phase = "found", ![r].found = enabled]
  /\ UNCHANGED <<docs, settings, provider, job, made, counters, histories>>

\* From its UPDATE to its commit a switch holds the row of the setting.
Holds(p) == run[p].phase = "status" /\ run[p].before # run[p].on

\* The row of the setting is written, when there was anything to write, and that of the
\* status loaded.
LoadStatus(r) ==
  /\ \/ run[r].phase = "skipped"
     \/ run[r].phase = "found" /\ ~ \E p \in Run : Holds(p)
  /\ run' = [run EXCEPT ![r].phase = "status", ![r].word = status]
  /\ UNCHANGED <<docs, settings, provider, job, made, counters, histories>>

\* The commit of the two rows; a value that is the one loaded is left unwritten.  When the
\* first read said off and embeddings are to be on, a backfill is due: a background task
\* of the response.  Switching off ends none.
CommitSwitch(r) ==
  LET q == run[r]
      start == q.on /\ ~q.was
      word == IF start THEN "running" ELSE IF q.on THEN q.word ELSE "idle"
  IN
  /\ q.phase = "status"
  /\ enabled' = IF q.on \in {q.before, q.found} THEN enabled ELSE q.on
  /\ status' = IF word = q.word THEN status ELSE word
  /\ IF start
     THEN Active # Job /\ job' = [job EXCEPT ![FreeJob] = [phase |-> "due"]]
     ELSE job' = job
  /\ lost' = (lost /\ ~start)
  /\ crossed' = IF start THEN Active # {} \/ status' # "running"
                ELSE crossed \/ (enabled' /\ ~enabled)
  /\ run' = [run EXCEPT ![r] = NoRun]
  /\ UNCHANGED <<docs, provider, made, counters>>

\* Faulty variant: a failure is logged and not reported.
ReportSuccess(j, word) ==
  /\ status' = IF word = "error" THEN status ELSE word
  /\ job' = [job EXCEPT ![j] = Off]

\* The job ends and stores its status.
Report(j, word) ==
  /\ status' = word
  /\ job' = [job EXCEPT ![j] = Off]

\* The batches without vectors, with the chunks they belong to.
Unembedded ==
  UNION {{[doc |-> d, id |-> docs[d].chunks.id, batch |-> b] :
            b \in Batch \ docs[d].chunks.vectors} : d \in DOMAIN docs}

\* The response is sent, and _backfill_job reads the chunks without vectors.
LoadUnembedded(j) ==
  /\ job[j].phase = "due"
  /\ job' = [job EXCEPT ![j] = [phase |-> "running", todo |-> Unembedded]]
  /\ UNCHANGED <<docs, settings, provider, run, made, counters, histories>>

\* The chunks of b have been replaced since the job read them.
Replaced(b) == docs[b.doc].chunks.id # b.id

\* A batch is embedded and committed.
EmbedBatch(j) ==
  /\ job[j].phase = "running" /\ provider = "local"
  /\ \E b \in job[j].todo :
       /\ ~Replaced(b)
       /\ docs' = [docs EXCEPT ![b.doc].chunks.vectors = @ \cup {b.batch}]
       /\ job' = [job EXCEPT ![j].todo = @ \ {b}]
  /\ UNCHANGED <<settings, provider, run, made, counters, histories>>

\* The UPDATE of a chunk that is gone matches no row, the provider fails or EMBEDDING_MODEL
\* names none, or a statement fails; nothing else can come of a batch with such a chunk or
\* without a provider.
FailBackfill(j) ==
  /\ job[j] # Off
  /\ Report(j, "error")
  /\ UNCHANGED <<docs, enabled, provider, run, made, counters, histories>>

\* With NoneProvider too, when there was nothing to embed.
CompleteBackfill(j) ==
  /\ job[j].phase = "running"
  /\ job[j].todo = {}
  /\ Report(j, "complete")
  /\ UNCHANGED <<docs, enabled, provider, run, made, counters, histories>>

\* Between the commit of the switch and the task stand _params_out and the response: a
\* failure there starts nothing.  And a job that fails reports it in a session of its
\* own, which can fail as well.
EndUnreported(j) ==
  /\ job[j] # Off
  /\ job' = [job EXCEPT ![j] = Off]
  /\ lost' = (lost \/ (status = "running" /\ Active = {j}))
  /\ UNCHANGED <<docs, settings, provider, run, made, counters, crossed>>

\* The process restarts, perhaps with another EMBEDDING_MODEL.  Nothing in flight is
\* resumed and nothing reads the status.
Restart(model) ==
  /\ starts < MaxStarts /\ starts' = starts + 1
  /\ provider' = model
  /\ run' = [r \in Run |-> NoRun]
  /\ job' = [j \in Job |-> Off]
  /\ lost' = (lost \/ status = "running")
  /\ UNCHANGED <<docs, settings, made, writes, crossed>>

-----------------------------------------------------------------------------
\* A document whose one ingest ran with embeddings off.
IngestedOff(p) ==
  LET text == GuideText(p, TRUE) IN
  [row |-> [hash |-> p, text |-> text, version |-> 1],
   chunks |-> [id |-> 0, text |-> text, vectors |-> {}, blind |-> FALSE],
   overtaken |-> FALSE, kept |-> FALSE]

CorpusInit ==
  /\ docs \in {<<>>} \cup {<<IngestedOff(p)>> : p \in Page}
  /\ enabled = FALSE /\ status = "idle"
  /\ provider \in Providers
  /\ run = [r \in Run |-> NoRun]
  /\ job = [j \in Job |-> Off]
  /\ made = 0 /\ writes = 0 /\ starts = 0
  /\ lost = FALSE /\ crossed = FALSE

\* The bound on requests is reached and nothing is in flight.
Quiet ==
  /\ writes = MaxWrites /\ InFlight = {} /\ Active = {}
  /\ UNCHANGED corpusVars

JobStep(j) ==
  \/ LoadUnembedded(j) \/ EmbedBatch(j) \/ FailBackfill(j) \/ CompleteBackfill(j)
  \/ EndUnreported(j)

CorpusNext ==
  \/ Quiet
  \/ \E model \in Providers : Restart(model)
  \/ \E r \in Run, choice \in BOOLEAN :
       \/ \E p \in Page : BeginIngest(r, choice, p)
       \/ LoadDoc(r, choice) \/ BeginSwitch(r, choice)
  \/ \E r \in Run :
       \/ \E p \in Page : BeginPlan(r, p)
       \/ ApproveChange(r) \/ Unchanged(r) \/ Abandon(r)
       \/ CommitIngest(r)
       \/ ReadBefore(r) \/ LoadSetting(r) \/ LoadStatus(r) \/ CommitSwitch(r)
  \/ \E j \in Job : JobStep(j)

\* The event loop runs a handler and its background task to their end; it owes nobody a
\* request, nor a success.
CorpusSpec ==
  CorpusInit /\ [][CorpusNext]_corpusVars /\ \A j \in Job : WF_corpusVars(JobStep(j))

-----------------------------------------------------------------------------
(* Properties.                                                             *)

\* A document's hash, text and chunks come from one fetch of the source, so that
\* "unchanged" speaks of the chunks that are searched.  Two fetches are mixed only by an
\* ingest that another one overtook and whose page, or whose text, was the one it had
\* loaded: the ORM leaves that column to the other (an edit of the markup changes the
\* hash and not the text, so nothing has to be forced).  And a document after the first
\* was made only by an ingest that another one overtook.
CorpusOfOneFetch ==
  \A i \in DOMAIN docs :
    LET d == docs[i] IN
    /\ \/ d.row.text.words = Words[d.row.hash] /\ d.chunks.text = d.row.text
       \/ d.overtaken /\ d.kept
    /\ i > 1 => d.overtaken

\* What "complete" promises the administrator: with embeddings on and no job active,
\* every chunk has its vectors.  The exceptions are chunks stored while embeddings were
\* on by an ingest that had no provider - it chose before the switch, or EMBEDDING_MODEL
\* is empty - a setting that came on without a job, a start whose "running" the ORM left
\* unwritten, or jobs that overlapped, where the last to end hides the failure of another.
CompleteMeansEmbedded ==
  enabled /\ status = "complete" /\ Active = {} /\ ~crossed =>
    \A i \in DOMAIN docs : docs[i].chunks.vectors = Batch \/ docs[i].chunks.blind

\* A backfill that is reported as running settles, unless the last job there was ended
\* without a report: by a restart, by a failure of the response that was to start it, or
\* by one of its own report (update_params, _backfill_job).
BackfillSettles == (status = "running" /\ ~lost) ~> (status # "running" \/ lost)
=============================================================================
