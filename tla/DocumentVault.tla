---------------------------- MODULE DocumentVault ----------------------------
(***************************************************************************)
(* The document vault: document rows in the database and their files in    *)
(* object storage (api/documents.py, services/storage.py), and the erasure *)
(* of the estate that removes both (api/estate.py).  The drafts agents     *)
(* store and the PDFs that are generated are uploads of this kind.         *)
(*                                                                         *)
(* The two stores share no transaction: a file is saved before its row is  *)
(* committed and deleted after its row is gone, requests overlap, any of   *)
(* them can fail, and the server can stop between any two steps.           *)
(***************************************************************************)
EXTENDS Naturals

CONSTANTS
  Doc, Key,     \* document ids, file keys
  Request,      \* requests that can be in flight at once
  Null

ASSUME VaultAssumption == Null \notin Doc \cup Key

VARIABLES
  estate,     \* the estate row exists
  doc,        \* committed document rows
  files,      \* keys in object storage
  used,       \* keys ever issued (uuid4)
  req,        \* the requests in flight
  published,  \* history: keys each document's row ever named as its file
  leaks,      \* history: what has stranded a file so far
  lost        \* history: files the storage volume lost by itself

vars == <<estate, doc, files, used, req, published, leaks, lost>>

\* links keeps the file keys of the previous versions.
NoRow == [state |-> "absent", key |-> Null, links |-> {}, version |-> 0]
Idle == [phase |-> "idle", doc |-> Null, seen |-> NoRow, key |-> Null, keys |-> {}]

KeysOf(row) == row.links \cup ({row.key} \ {Null})

\* The keys document rows name: those an export or an erasure can find.
Referenced == UNION {KeysOf(doc[d]) : d \in Doc}

Saved == {req[r].key : r \in {q \in Request : req[q].phase = "saved"}}
Purging == UNION {req[r].keys : r \in {q \in Request : req[q].phase = "purging"}}

\* Commits that overlap another request: a new version of a document that got one since
\* it was loaded, and a file committed after an erasure has listed the keys.
Overlaps == {"overwritten", "committed late"}

Release(r) == req' = [req EXCEPT ![r] = Idle]
Leak(cause, happened) == leaks' = IF happened THEN leaks \cup {cause} ELSE leaks

-----------------------------------------------------------------------------
Init ==
  /\ estate = TRUE
  /\ doc = [d \in Doc |-> NoRow]
  /\ files = {}
  /\ used = {}
  /\ req = [r \in Request |-> Idle]
  /\ published = [d \in Doc |-> {}]
  /\ leaks = {}
  /\ lost = {}

\* storage.save, under a key never issued before.
SaveFile(r, d, seen, k) ==
  /\ k \notin used
  /\ used' = used \cup {k}
  /\ files' = files \cup {k}
  /\ req' = [req EXCEPT ![r] = [Idle EXCEPT !.phase = "saved", !.doc = d,
                                            !.seen = seen, !.key = k]]
  /\ UNCHANGED <<estate, doc, published, leaks, lost>>

\* POST /documents: the estate is found and the file saved, under a fresh id.
Upload(r, d, k) ==
  /\ req[r].phase = "idle"
  /\ estate
  /\ doc[d].state = "absent" /\ published[d] = {}
  /\ \A q \in Request : req[q].doc # d
  /\ SaveFile(r, d, NoRow, k)

\* POST /documents/{id}/versions loads the row and waits for the upload's bytes.
LoadForVersion(r, d) ==
  /\ req[r].phase = "idle"
  /\ doc[d].state = "live"
  /\ req' = [req EXCEPT ![r] = [Idle EXCEPT !.phase = "loaded", !.doc = d, !.seen = doc[d]]]
  /\ UNCHANGED <<estate, doc, files, used, published, leaks, lost>>

SaveVersion(r, k) ==
  /\ req[r].phase = "loaded"
  /\ SaveFile(r, req[r].doc, req[r].seen, k)

\* Faulty variant: the file that is replaced is not kept in links.
NextVersionDrop(seen, k) ==
  [state |-> "live", key |-> k, links |-> seen.links, version |-> seen.version + 1]

\* The columns an upload or a new version writes, from the row it loaded.
NextVersion(seen, k) ==
  [state |-> "live", key |-> k, links |-> KeysOf(seen), version |-> seen.version + 1]

\* Faulty variant: a new version brings an archived document back.
StateRevived(q) == "live"

\* archived_at is not among the columns a new version writes.
StateLeft(q) == IF q.seen = NoRow THEN "live" ELSE doc[q.doc].state

\* Faulty variant: nothing ties what is written to the estate or to its row.
CanWriteAlways(q) == TRUE

\* An insert needs the estate (a foreign key), an update the row it loaded.
CanWrite(q) == IF q.seen = NoRow THEN estate ELSE doc[q.doc].state # "absent"

(***************************************************************************)
(* The commit.  What an update writes was computed from the row loaded, so *)
(* a version committed in between is overwritten, its archiving is not.    *)
(***************************************************************************)
CommitFile(r) ==
  LET q == req[r]
      row == NextVersion(q.seen, q.key)
  IN
  /\ q.phase = "saved"
  /\ CanWrite(q)
  /\ doc' = [doc EXCEPT ![q.doc] = [row EXCEPT !.state = StateLeft(q)]]
  /\ published' = [published EXCEPT ![q.doc] = @ \cup {q.key}]
  /\ leaks' = leaks \cup
       {c \in Overlaps :
          \/ c = "overwritten" /\ KeysOf(doc[q.doc]) # KeysOf(q.seen)
          \/ c = "committed late" /\ \E p \in Request : req[p].phase = "erasing"}
  /\ Release(r)
  /\ UNCHANGED <<estate, files, used, lost>>

\* DELETE /documents/{id}: soft, the file is retained.
ArchiveDocument(d) ==
  /\ doc[d].state = "live"
  /\ doc' = [doc EXCEPT ![d].state = "archived"]
  /\ UNCHANGED <<estate, files, used, req, published, leaks, lost>>

-----------------------------------------------------------------------------
(* GET /documents/{id}/download.  storage.stream is a generator: the check *)
(* that the file is there runs when the body is sent, after the audit      *)
(* event is committed, and not where its error is handled.                 *)

LoadForDownload(r, d) ==
  /\ req[r].phase = "idle"
  /\ doc[d].state # "absent"
  /\ req' = [req EXCEPT ![r] = [Idle EXCEPT !.phase = "found", !.doc = d, !.key = doc[d].key]]
  /\ UNCHANGED <<estate, doc, files, used, published, leaks, lost>>

AuditDownload(r) ==
  /\ req[r].phase = "found"
  /\ estate
  /\ req' = [req EXCEPT ![r].phase = "streaming"]
  /\ UNCHANGED <<estate, doc, files, used, published, leaks, lost>>

SendBody(r) ==
  /\ req[r].phase = "streaming"
  /\ Release(r)
  /\ UNCHANGED <<estate, doc, files, used, published, leaks, lost>>

-----------------------------------------------------------------------------
(* POST /estate/erase *)

\* Faulty variant: only the current files are collected.
CollectedCurrent == {doc[d].key : d \in Doc} \ {Null}

\* The keys of every document, archived ones and previous versions included.
Collected == Referenced

EraseCollect(r) ==
  /\ req[r].phase = "idle"
  /\ estate
  /\ req' = [req EXCEPT ![r] = [Idle EXCEPT !.phase = "erasing", !.keys = Collected]]
  /\ UNCHANGED <<estate, doc, files, used, published, leaks, lost>>

\* Faulty variant: the files go first.
EraseFilesFirst(r) ==
  /\ req[r].phase = "erasing"
  /\ files' = files \ req[r].keys
  /\ req' = [req EXCEPT ![r].phase = "purging"]
  /\ UNCHANGED <<estate, doc, used, published, leaks, lost>>

\* All rows go in one transaction; it cannot commit over rows added meanwhile
\* by a foreign key it would break, and then it fails as any request can.
EraseCommit(r) ==
  /\ req[r].phase = "erasing"
  /\ estate' = FALSE
  /\ doc' = [d \in Doc |-> NoRow]
  /\ req' = [req EXCEPT ![r].phase = "purging"]
  /\ UNCHANGED <<files, used, published, leaks, lost>>

\* storage.delete of one collected key; an error is logged and passed over.
EraseFile(r, k, deleted) ==
  /\ req[r].phase = "purging"
  /\ k \in req[r].keys
  /\ req' = [req EXCEPT ![r].keys = @ \ {k}]
  /\ files' = IF deleted THEN files \ {k} ELSE files
  /\ Leak("not deleted", ~deleted)
  /\ UNCHANGED <<estate, doc, used, published, lost>>

EraseDone(r) ==
  /\ req[r].phase = "purging" /\ req[r].keys = {}
  /\ Release(r)
  /\ UNCHANGED <<estate, doc, files, used, published, leaks, lost>>

-----------------------------------------------------------------------------
\* A request fails before its commit: the rows roll back, a saved file stays.
Fail(r) ==
  /\ req[r].phase \in {"loaded", "saved", "found", "erasing"}
  /\ Release(r)
  /\ Leak("rolled back", req[r].phase = "saved")
  /\ UNCHANGED <<estate, doc, files, used, published, lost>>

\* The server stops: every request in flight is gone, and its transaction with it.
Crash ==
  /\ req' = [r \in Request |-> Idle]
  /\ Leak("crash", Saved \cup Purging # {})
  /\ UNCHANGED <<estate, doc, files, used, published, lost>>

\* The volume loses a file.
LoseFile(k) ==
  /\ k \in files
  /\ files' = files \ {k}
  /\ lost' = lost \cup {k}
  /\ UNCHANGED <<estate, doc, used, req, published, leaks>>

Next ==
  \/ \E r \in Request :
       \/ \E d \in Doc, k \in Key : Upload(r, d, k)
       \/ \E d \in Doc : LoadForVersion(r, d) \/ LoadForDownload(r, d)
       \/ \E k \in Key : SaveVersion(r, k)
       \/ CommitFile(r)
       \/ AuditDownload(r)
       \/ SendBody(r)
       \/ EraseCollect(r)
       \/ EraseCommit(r)
       \/ \E k \in Key, deleted \in BOOLEAN : EraseFile(r, k, deleted)
       \/ EraseDone(r)
       \/ Fail(r)
  \/ \E d \in Doc : ArchiveDocument(d)
  \/ \E k \in Key : LoseFile(k)
  \/ Crash

Spec == Init /\ [][Next]_vars

-----------------------------------------------------------------------------
(* Correctness.                                                            *)

DocRow == [state : {"absent", "live", "archived"}, key : Key \cup {Null},
           links : SUBSET Key, version : Nat]

RequestRow == [phase : {"idle", "loaded", "saved", "found", "streaming", "erasing", "purging"},
               doc : Doc \cup {Null}, seen : DocRow, key : Key \cup {Null},
               keys : SUBSET Key]

Causes == Overlaps \cup {"not deleted", "rolled back", "crash"}

\* Rows, keys and requests hold values of their kinds.
TypeOK ==
  /\ estate \in BOOLEAN
  /\ doc \in [Doc -> DocRow]
  /\ files \subseteq used /\ used \subseteq Key
  /\ req \in [Request -> RequestRow]
  /\ published \in [Doc -> SUBSET Key]
  /\ lost \subseteq used
  /\ leaks \subseteq Causes

\* No row ever names a file that is not there, not even the previous versions of an
\* archived document, whatever overlaps, fails or stops an upload or an erasure: files
\* are saved before the row that names them and deleted after it is gone.
NoDanglingKey == Referenced \cup Saved \subseteq files \cup lost

\* Object storage holds nothing the database does not know of, apart from the files of
\* requests in flight, unless one of five things has happened: a request failed or the
\* server stopped after saving its file, two new versions of one document overlapped, a
\* file was committed while an erasure had already listed the keys, a delete failed.
NothingStranded == leaks = {} => files \subseteq Referenced \cup Saved \cup Purging

\* An audited download had its file when it was audited: a download that loads a row
\* just before an erasure removes row and file cannot leave its audit event behind.
AuditedDownloadHadFile ==
  [][\A r \in Request : req[r].phase = "found" /\ req'[r].phase = "streaming"
       => req[r].key \in files \cup lost]_vars

\* Nothing is recoverable after an erasure that met no other write: when the estate is
\* gone and its files have been worked through, the storage is empty.
ErasureComplete ==
  ~estate /\ leaks = {} /\ (\A r \in Request : req[r].phase \in {"idle", "found", "streaming"})
    => files = {}

\* An erased estate stays erased: a request that loaded its rows or saved a file before
\* the erasure can never bring a document back.
ErasedStaysErased == ~estate => \A d \in Doc : doc[d] = NoRow

-----------------------------------------------------------------------------
(* What the two stores look like from outside.                             *)

Published == UNION {published[d] : d \in Doc}

Store == INSTANCE DocumentStore WITH shown <- published, readable <- files \cap Published

\* Through every overlap, failure and stop the two stores behave as one, in which a row
\* and its file appear together: a file is readable from the commit that shows it until
\* an erasure, whatever overwrote it; no new version revives an archived document or
\* takes another's file.
StoreSpec == Store!Spec
=============================================================================
