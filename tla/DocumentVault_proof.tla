------------------------- MODULE DocumentVault_proof -------------------------
(***************************************************************************)
(* Proofs about the document vault, for every number of documents, files   *)
(* and overlapping requests.                                               *)
(*                                                                         *)
(* The argument turns on the estate row.  While it is there, no file is    *)
(* ever deleted, so every key ever issued still has its file; once it is   *)
(* gone, no row can come back, so a deletion can only hit files that no    *)
(* row names.  What remains is the files of uploads that have not          *)
(* committed: their keys are in no list an erasure has collected.          *)
(***************************************************************************)
EXTENDS DocumentVault, TLAPS

\* What a request in flight holds, by its phase.
RequestShape ==
  \A r \in Request :
    /\ req[r].phase \in {"loaded", "saved"} => req[r].doc \in Doc
    /\ req[r].phase \in {"saved", "found", "streaming"} => req[r].key \in Key \cap used

\* Only documents that are there have a file.
RowShape == \A d \in Doc : doc[d] = NoRow \/ (doc[d].state # "absent" /\ doc[d].key \in Key)

\* Every key in a row, in a copy of a row or in a list was issued.
KeysIssued ==
  /\ \A d \in Doc : KeysOf(doc[d]) \subseteq used
  /\ \A r \in Request : KeysOf(req[r].seen) \subseteq used /\ req[r].keys \subseteq used

\* The file of an upload that has not committed is its own: no row, no copy of a row,
\* no list of an erasure and no other upload has its key.
SavedApart ==
  \A r \in Request : req[r].phase = "saved" =>
    /\ \A d \in Doc : req[r].key \notin KeysOf(doc[d])
    /\ \A q \in Request :
         /\ req[r].key \notin req[q].keys \cup KeysOf(req[q].seen)
         /\ q # r /\ req[q].phase = "saved" => req[q].key # req[r].key

\* Files are deleted only when the estate is gone; until then every key has its file.
DeletedAfterErasure ==
  /\ estate => used \subseteq files \cup lost
  /\ ~estate => \A r \in Request : req[r].phase = "saved" => req[r].key \in files \cup lost
  /\ \A r \in Request : req[r].phase = "purging" => ~estate

\* NothingStranded, file by file.
EveryFileKnown ==
  leaks = {} => \A k \in files :
    \/ \E d \in Doc : k \in KeysOf(doc[d])
    \/ \E r \in Request : req[r].phase = "saved" /\ req[r].key = k
    \/ \E r \in Request : req[r].phase = "purging" /\ k \in req[r].keys

\* The list of an erasure holds every key a row names, unless a commit overlapped it.
ListsWhole ==
  leaks = {} => \A r \in Request : req[r].phase = "erasing" =>
    \A d \in Doc : KeysOf(doc[d]) \subseteq req[r].keys

IInv ==
  /\ TypeOK
  /\ RequestShape
  /\ RowShape
  /\ KeysIssued
  /\ SavedApart
  /\ DeletedAfterErasure
  /\ ErasedStaysErased
  /\ EveryFileKnown
  /\ ListsWhole

-----------------------------------------------------------------------------
\* The keys a row names: none when there is no row, the same when only its state
\* changes, and the new key with the old ones after a new version.
LEMMA KeysOfNoRow == KeysOf(NoRow) = {}
  BY DEF KeysOf, NoRow

LEMMA KeysOfState ==
  ASSUME NEW row \in DocRow, NEW s
  PROVE  KeysOf([row EXCEPT !.state = s]) = KeysOf(row)
  BY DEF KeysOf, DocRow

LEMMA KeysOfVersion ==
  ASSUME NEW seen \in DocRow, NEW k \in Key, NEW s
  PROVE  /\ KeysOf(NextVersion(seen, k)) = KeysOf(seen) \cup {k}
         /\ KeysOf([NextVersion(seen, k) EXCEPT !.state = s]) = KeysOf(seen) \cup {k}
  BY VaultAssumption DEF KeysOf, NextVersion

-----------------------------------------------------------------------------
(***************************************************************************)
(* A request moves and nothing else changes: every load, the audit event,  *)
(* the end of a download or an erasure, and every failure.                 *)
(***************************************************************************)
Moves(r, new) ==
  /\ UNCHANGED <<estate, doc, files, used, published, lost>>
  /\ new \in RequestRow
  /\ \A q \in Request : req'[q] = IF q = r THEN new ELSE req[q]
  /\ req' \in [Request -> RequestRow]
  /\ leaks \subseteq leaks' /\ leaks' \subseteq Causes

LEMMA QuietStep ==
  ASSUME IInv, NEW r \in Request, NEW new, Moves(r, new),
         new.phase \in {"idle", "loaded", "found", "streaming", "erasing"},
         new.phase = "loaded" => new.doc \in Doc,
         new.phase \in {"found", "streaming"} => new.key \in Key \cap used,
         KeysOf(new.seen) \cup new.keys \subseteq used,
         new.phase = "erasing" => \A d \in Doc : KeysOf(doc[d]) \subseteq new.keys,
         \A q \in Request : req[q].phase = "saved" => req[q].key \notin new.keys \cup KeysOf(new.seen),
         req[r].phase = "saved" => leaks' # {},
         req[r].phase = "purging" => req[r].keys = {}
  PROVE  IInv'
<1>1. TypeOK'
  BY DEF IInv, TypeOK, Moves
<1>2. RequestShape'
  BY DEF IInv, RequestShape, Moves
<1>3. RowShape' /\ KeysIssued' /\ ErasedStaysErased'
  BY DEF IInv, RowShape, KeysIssued, ErasedStaysErased, Moves
<1>4. SavedApart'
  BY DEF IInv, SavedApart, Moves
<1>5. DeletedAfterErasure'
  BY DEF IInv, DeletedAfterErasure, Moves
<1>6. EveryFileKnown'
  BY DEF IInv, EveryFileKnown, Moves
<1>7. ListsWhole'
  BY DEF IInv, ListsWhole, Moves
<1>8. QED
  BY <1>1, <1>2, <1>3, <1>4, <1>5, <1>6, <1>7 DEF IInv

-----------------------------------------------------------------------------
\* Each action that only moves a request is a quiet step.
LEMMA StepLoadForVersion ==
  ASSUME IInv, NEW r \in Request, NEW d \in Doc, LoadForVersion(r, d)
  PROVE  IInv'
<1> DEFINE new == [Idle EXCEPT !.phase = "loaded", !.doc = d, !.seen = doc[d]]
<1>1. /\ new.phase = "loaded" /\ new.doc = d /\ new.seen = doc[d] /\ new.keys = {}
      /\ new \in RequestRow
  BY DEF IInv, TypeOK, RequestRow, Idle
<1>2. Moves(r, new)
  BY <1>1 DEF IInv, TypeOK, Moves, LoadForVersion
<1>3. req[r].phase = "idle"
  BY DEF LoadForVersion
<1>4. KeysOf(doc[d]) \subseteq used
      /\ \A q \in Request : req[q].phase = "saved" => req[q].key \notin KeysOf(doc[d])
  BY DEF IInv, KeysIssued, SavedApart
<1> HIDE DEF new
<1>5. QED
  BY <1>1, <1>2, <1>3, <1>4, QuietStep

LEMMA StepLoadForDownload ==
  ASSUME IInv, NEW r \in Request, NEW d \in Doc, LoadForDownload(r, d)
  PROVE  IInv'
<1> DEFINE new == [Idle EXCEPT !.phase = "found", !.doc = d, !.key = doc[d].key]
<1>1. /\ new.phase = "found" /\ new.key = doc[d].key /\ new.seen = NoRow /\ new.keys = {}
      /\ new \in RequestRow
  BY DEF IInv, TypeOK, RequestRow, DocRow, Idle, NoRow
<1>2. Moves(r, new)
  BY <1>1 DEF IInv, TypeOK, Moves, LoadForDownload
<1>3. req[r].phase = "idle" /\ doc[d].state # "absent"
  BY DEF LoadForDownload
<1>4. doc[d].key \in Key \cap used
  BY <1>3, VaultAssumption DEF IInv, RowShape, KeysIssued, KeysOf, NoRow
<1> HIDE DEF new
<1>5. QED
  BY <1>1, <1>2, <1>3, <1>4, KeysOfNoRow, QuietStep

LEMMA StepAuditDownload ==
  ASSUME IInv, NEW r \in Request, AuditDownload(r)
  PROVE  IInv'
<1> DEFINE new == [req[r] EXCEPT !.phase = "streaming"]
<1>1. /\ req[r] \in RequestRow /\ req[r].phase = "found"
      /\ new.phase = "streaming" /\ new.key = req[r].key
      /\ new.seen = req[r].seen /\ new.keys = req[r].keys
      /\ new \in RequestRow
  BY DEF IInv, TypeOK, RequestRow, AuditDownload
<1>2. Moves(r, new)
  BY <1>1 DEF IInv, TypeOK, Moves, AuditDownload
<1>3. /\ req[r].key \in Key \cap used
      /\ KeysOf(req[r].seen) \cup req[r].keys \subseteq used
      /\ \A q \in Request : req[q].phase = "saved"
           => req[q].key \notin req[r].keys \cup KeysOf(req[r].seen)
  BY <1>1 DEF IInv, RequestShape, KeysIssued, SavedApart
<1> HIDE DEF new
<1>4. QED
  BY <1>1, <1>2, <1>3, QuietStep

LEMMA StepEraseCollect ==
  ASSUME IInv, NEW r \in Request, EraseCollect(r)
  PROVE  IInv'
<1> DEFINE new == [Idle EXCEPT !.phase = "erasing", !.keys = Collected]
<1>1. /\ Collected \subseteq used
      /\ \A q \in Request : req[q].phase = "saved" => req[q].key \notin Collected
      /\ \A d \in Doc : KeysOf(doc[d]) \subseteq Collected
  BY DEF IInv, KeysIssued, SavedApart, Collected, Referenced
<1>2. /\ new.phase = "erasing" /\ new.seen = NoRow /\ new.keys = Collected
      /\ new \in RequestRow
  BY <1>1 DEF IInv, TypeOK, RequestRow, DocRow, Idle, NoRow
<1>3. Moves(r, new)
  BY <1>2 DEF IInv, TypeOK, Moves, EraseCollect
<1>4. req[r].phase = "idle"
  BY DEF EraseCollect
<1> HIDE DEF new
<1>5. QED
  BY <1>1, <1>2, <1>3, <1>4, KeysOfNoRow, QuietStep

\* A request that ends: SendBody, EraseDone and Fail.
LEMMA StepRelease ==
  ASSUME IInv, NEW r \in Request, Release(r),
         UNCHANGED <<estate, doc, files, used, published, lost>>,
         leaks \subseteq leaks', leaks' \subseteq Causes,
         req[r].phase = "saved" => leaks' # {},
         req[r].phase = "purging" => req[r].keys = {}
  PROVE  IInv'
<1>1. Idle.phase = "idle" /\ Idle.seen = NoRow /\ Idle.keys = {} /\ Idle \in RequestRow
  BY DEF RequestRow, DocRow, Idle, NoRow
<1>2. Moves(r, Idle)
  BY <1>1 DEF IInv, TypeOK, Moves, Release
<1>3. QED
  BY <1>1, <1>2, KeysOfNoRow, QuietStep

LEMMA StepSendBody ==
  ASSUME IInv, NEW r \in Request, SendBody(r)
  PROVE  IInv'
  BY StepRelease DEF IInv, TypeOK, SendBody

LEMMA StepEraseDone ==
  ASSUME IInv, NEW r \in Request, EraseDone(r)
  PROVE  IInv'
  BY StepRelease DEF IInv, TypeOK, EraseDone

LEMMA StepFail ==
  ASSUME IInv, NEW r \in Request, Fail(r)
  PROVE  IInv'
<1>1. leaks \subseteq leaks' /\ leaks' \subseteq Causes
      /\ (req[r].phase = "saved" => leaks' # {})
  BY DEF IInv, TypeOK, Fail, Leak, Causes
<1>2. Release(r) /\ req[r].phase # "purging"
      /\ UNCHANGED <<estate, doc, files, used, published, lost>>
  BY DEF Fail
<1>3. QED
  BY <1>1, <1>2, StepRelease

-----------------------------------------------------------------------------
\* Saving a file under a fresh key, for a new document or a new version.
LEMMA StepSaveFile ==
  ASSUME IInv, NEW r \in Request, NEW d \in Doc, NEW seen \in DocRow, NEW k \in Key,
         SaveFile(r, d, seen, k),
         req[r].phase \in {"idle", "loaded"},
         KeysOf(seen) \subseteq used,
         \A q \in Request : req[q].phase = "saved" => req[q].key \notin KeysOf(seen)
  PROVE  IInv'
<1> DEFINE new == [Idle EXCEPT !.phase = "saved", !.doc = d, !.seen = seen, !.key = k]
<1>1. /\ new.phase = "saved" /\ new.doc = d /\ new.seen = seen /\ new.key = k /\ new.keys = {}
      /\ new \in RequestRow
  BY DEF RequestRow, Idle
<1>2. /\ k \notin used /\ used' = used \cup {k} /\ files' = files \cup {k}
      /\ UNCHANGED <<estate, doc, published, leaks, lost>>
      /\ \A q \in Request : req'[q] = IF q = r THEN new ELSE req[q]
      /\ req' \in [Request -> RequestRow]
  BY <1>1 DEF IInv, TypeOK, SaveFile
<1> HIDE DEF new
<1>3. TypeOK'
  BY <1>2 DEF IInv, TypeOK
<1>4. RequestShape'
  BY <1>1, <1>2 DEF IInv, RequestShape
<1>5. RowShape' /\ KeysIssued' /\ ErasedStaysErased'
  BY <1>1, <1>2 DEF IInv, RowShape, KeysIssued, ErasedStaysErased
<1>6. SavedApart'
  BY <1>1, <1>2 DEF IInv, SavedApart, KeysIssued, RequestShape
<1>7. DeletedAfterErasure'
  BY <1>1, <1>2 DEF IInv, DeletedAfterErasure
<1>8. EveryFileKnown'
  BY <1>1, <1>2 DEF IInv, EveryFileKnown
<1>9. ListsWhole'
  BY <1>1, <1>2 DEF IInv, ListsWhole
<1>10. QED
  BY <1>3, <1>4, <1>5, <1>6, <1>7, <1>8, <1>9 DEF IInv

LEMMA StepUpload ==
  ASSUME IInv, NEW r \in Request, NEW d \in Doc, NEW k \in Key, Upload(r, d, k)
  PROVE  IInv'
<1>1. NoRow \in DocRow
  BY DEF NoRow, DocRow
<1>2. QED
  BY <1>1, KeysOfNoRow, StepSaveFile DEF Upload

LEMMA StepSaveVersion ==
  ASSUME IInv, NEW r \in Request, NEW k \in Key, SaveVersion(r, k)
  PROVE  IInv'
<1>1. req[r].phase = "loaded" /\ SaveFile(r, req[r].doc, req[r].seen, k)
  BY DEF SaveVersion
<1>2. req[r].doc \in Doc /\ req[r].seen \in DocRow
  BY <1>1 DEF IInv, TypeOK, RequestShape, RequestRow
<1>3. /\ KeysOf(req[r].seen) \subseteq used
      /\ \A q \in Request : req[q].phase = "saved" => req[q].key \notin KeysOf(req[r].seen)
  BY DEF IInv, KeysIssued, SavedApart
<1>4. QED
  BY <1>1, <1>2, <1>3, StepSaveFile

-----------------------------------------------------------------------------
\* The commit of an upload or a new version.
LEMMA StepCommitFile ==
  ASSUME IInv, NEW r \in Request, CommitFile(r)
  PROVE  IInv'
<1> DEFINE d == req[r].doc
           k == req[r].key
           seen == req[r].seen
           state == IF seen = NoRow THEN "live" ELSE doc[d].state
           row == [NextVersion(seen, k) EXCEPT !.state = state]
<1>1. /\ req[r].phase = "saved" /\ CanWrite(req[r])
      /\ doc' = [doc EXCEPT ![d] = row]
      /\ published' = [published EXCEPT ![d] = @ \cup {k}]
      /\ leaks \subseteq leaks' /\ leaks' \subseteq leaks \cup Overlaps
      /\ leaks' = {} => /\ KeysOf(doc[d]) = KeysOf(seen)
                        /\ \A p \in Request : req[p].phase # "erasing"
      /\ req' = [req EXCEPT ![r] = Idle]
      /\ UNCHANGED <<estate, files, used, lost>>
  BY DEF CommitFile, StateLeft, Overlaps, Release
<1>2. d \in Doc /\ k \in Key \cap used /\ seen \in DocRow
  BY <1>1 DEF IInv, TypeOK, RequestShape, RequestRow
<1>3. estate /\ state # "absent" /\ state \in {"live", "archived"}
  <2>1. ~estate => doc[d] = NoRow
    BY <1>2 DEF IInv, ErasedStaysErased
  <2>2. IF seen = NoRow THEN estate ELSE doc[d].state # "absent"
    BY <1>1 DEF CanWrite
  <2>3. doc[d].state \in {"absent", "live", "archived"}
    BY <1>2 DEF IInv, TypeOK, DocRow
  <2>4. QED
    BY <2>1, <2>2, <2>3 DEF NoRow, IInv, TypeOK
<1>4. row.state = state /\ row.key = k /\ row \in DocRow
  BY <1>2, <1>3 DEF NextVersion, KeysOf, DocRow
<1>5. KeysOf(row) = KeysOf(seen) \cup {k} /\ KeysOf(NextVersion(seen, k)) = KeysOf(row)
  BY <1>2, KeysOfVersion
<1>6. KeysOf(seen) \subseteq used
  BY DEF IInv, KeysIssued
<1>7. Idle.phase = "idle" /\ Idle.seen = NoRow /\ Idle.keys = {} /\ Idle \in RequestRow
  BY DEF RequestRow, DocRow, Idle, NoRow
<1> HIDE DEF row, state
<1>8. /\ \A q \in Request : req'[q] = IF q = r THEN Idle ELSE req[q]
      /\ \A e \in Doc : doc'[e] = IF e = d THEN row ELSE doc[e]
  BY <1>1 DEF IInv, TypeOK
<1>9. TypeOK'
  BY <1>1, <1>2, <1>4, <1>7 DEF IInv, TypeOK, Causes
<1>10. RequestShape' /\ RowShape'
  BY <1>1, <1>2, <1>3, <1>4, <1>7, <1>8 DEF IInv, RequestShape, RowShape
<1>11. KeysIssued'
  BY <1>1, <1>2, <1>5, <1>6, <1>7, <1>8, KeysOfNoRow DEF IInv, KeysIssued
<1>12. SavedApart'
  <2>1. \A q \in Request : q # r /\ req[q].phase = "saved"
          => req[q].key \notin KeysOf(row)
    BY <1>1, <1>5 DEF IInv, SavedApart
  <2>2. QED
    BY <2>1, <1>7, <1>8, KeysOfNoRow DEF IInv, SavedApart
<1>13. DeletedAfterErasure' /\ ErasedStaysErased'
  BY <1>1, <1>3, <1>7, <1>8 DEF IInv, DeletedAfterErasure, ErasedStaysErased
<1>14. EveryFileKnown'
  <2> SUFFICES ASSUME leaks' = {}, NEW f \in files,
                      ~ \E e \in Doc : f \in KeysOf(doc'[e])
               PROVE  \E q \in Request :
                        \/ req'[q].phase = "saved" /\ req'[q].key = f
                        \/ req'[q].phase = "purging" /\ f \in req'[q].keys
    BY <1>1 DEF EveryFileKnown
  <2>1. f \notin KeysOf(row) /\ f # k
    BY <1>2, <1>5, <1>8
  <2>2. ~ \E e \in Doc : f \in KeysOf(doc[e])
    BY <2>1, <1>1, <1>5, <1>8
  <2>3. PICK q \in Request :
          \/ req[q].phase = "saved" /\ req[q].key = f
          \/ req[q].phase = "purging" /\ f \in req[q].keys
    BY <2>2, <1>1 DEF IInv, EveryFileKnown
  <2>4. q # r
    BY <2>1, <2>3, <1>1
  <2>5. QED
    BY <2>3, <2>4, <1>8
<1>15. ListsWhole'
  BY <1>1, <1>7, <1>8 DEF ListsWhole
<1>16. QED
  BY <1>9, <1>10, <1>11, <1>12, <1>13, <1>14, <1>15 DEF IInv

LEMMA StepArchiveDocument ==
  ASSUME IInv, NEW d \in Doc, ArchiveDocument(d)
  PROVE  IInv'
<1> DEFINE row == [doc[d] EXCEPT !.state = "archived"]
<1>1. /\ doc[d] \in DocRow /\ doc[d] # NoRow /\ doc' = [doc EXCEPT ![d] = row]
      /\ UNCHANGED <<estate, files, used, req, published, leaks, lost>>
  BY DEF IInv, TypeOK, ArchiveDocument, NoRow
<1>2. KeysOf(row) = KeysOf(doc[d])
  BY <1>1, KeysOfState
<1>3. row \in DocRow /\ row.state = "archived" /\ row.key = doc[d].key
  BY <1>1 DEF DocRow
<1> HIDE DEF row
<1>4. \A e \in Doc : doc'[e] = IF e = d THEN row ELSE doc[e]
  BY <1>1 DEF IInv, TypeOK
<1>5. TypeOK'
  BY <1>1, <1>3 DEF IInv, TypeOK
<1>6. RequestShape' /\ RowShape'
  BY <1>1, <1>3, <1>4 DEF IInv, RequestShape, RowShape
<1>7. \A e \in Doc : KeysOf(doc'[e]) = KeysOf(doc[e])
  BY <1>2, <1>4
<1>8. KeysIssued' /\ SavedApart'
  BY <1>1, <1>7 DEF IInv, KeysIssued, SavedApart
<1>9. ErasedStaysErased' /\ DeletedAfterErasure'
  BY <1>1, <1>4 DEF IInv, ErasedStaysErased, DeletedAfterErasure
<1>10. EveryFileKnown' /\ ListsWhole'
  BY <1>1, <1>7 DEF IInv, EveryFileKnown, ListsWhole
<1>11. QED
  BY <1>5, <1>6, <1>8, <1>9, <1>10 DEF IInv

\* The rows of the estate go: what they named is in the list that was collected, unless
\* something has stranded a file already.
LEMMA StepEraseCommit ==
  ASSUME IInv, NEW r \in Request, EraseCommit(r)
  PROVE  IInv'
<1> DEFINE new == [req[r] EXCEPT !.phase = "purging"]
<1>1. /\ req[r] \in RequestRow /\ req[r].phase = "erasing"
      /\ estate' = FALSE /\ doc' = [d \in Doc |-> NoRow]
      /\ req' = [req EXCEPT ![r] = new]
      /\ UNCHANGED <<files, used, published, leaks, lost>>
  BY DEF IInv, TypeOK, EraseCommit
<1>2. /\ new.phase = "purging" /\ new.keys = req[r].keys /\ new.seen = req[r].seen
      /\ new \in RequestRow /\ NoRow \in DocRow
  BY <1>1 DEF RequestRow, NoRow, DocRow
<1> HIDE DEF new
<1>3. \A q \in Request : req'[q] = IF q = r THEN new ELSE req[q]
  BY <1>1 DEF IInv, TypeOK
<1>4. TypeOK'
  BY <1>1, <1>2 DEF IInv, TypeOK, Causes
<1>5. RequestShape' /\ RowShape'
  BY <1>1, <1>2, <1>3 DEF IInv, RequestShape, RowShape
<1>6. KeysIssued' /\ ErasedStaysErased'
  BY <1>1, <1>2, <1>3, KeysOfNoRow DEF IInv, KeysIssued, ErasedStaysErased
<1>7. SavedApart'
  <2>1. \A q \in Request : /\ req'[q].phase = "saved" <=> req[q].phase = "saved"
                           /\ req'[q].phase = "saved" => req'[q].key = req[q].key
                           /\ req'[q].keys = req[q].keys /\ req'[q].seen = req[q].seen
    BY <1>1, <1>2, <1>3
  <2>2. \A d \in Doc : KeysOf(doc'[d]) = {}
    BY <1>1, KeysOfNoRow
  <2>3. QED
    BY <2>1, <2>2 DEF IInv, SavedApart
<1>8. DeletedAfterErasure'
  <2>1. \A q \in Request : req[q].phase = "saved" => req[q].key \in files \cup lost
    BY DEF IInv, DeletedAfterErasure, RequestShape
  <2>2. QED
    BY <2>1, <1>1, <1>2, <1>3 DEF DeletedAfterErasure
<1>9. EveryFileKnown'
  <2>1. leaks = {} => \A d \in Doc : KeysOf(doc[d]) \subseteq req[r].keys
    BY <1>1 DEF IInv, ListsWhole
  <2>2. QED
    BY <2>1, <1>1, <1>2, <1>3 DEF IInv, EveryFileKnown
<1>10. ListsWhole'
  BY <1>1, <1>2, <1>3, KeysOfNoRow DEF ListsWhole
<1>11. QED
  BY <1>4, <1>5, <1>6, <1>7, <1>8, <1>9, <1>10 DEF IInv

LEMMA StepEraseFile ==
  ASSUME IInv, NEW r \in Request, NEW k \in Key, NEW deleted \in BOOLEAN,
         EraseFile(r, k, deleted)
  PROVE  IInv'
<1> DEFINE new == [req[r] EXCEPT !.keys = @ \ {k}]
<1>1. /\ req[r] \in RequestRow /\ req[r].phase = "purging" /\ k \in req[r].keys
      /\ req' = [req EXCEPT ![r] = new]
      /\ files' = IF deleted THEN files \ {k} ELSE files
      /\ leaks \subseteq leaks' /\ leaks' \subseteq leaks \cup {"not deleted"}
      /\ leaks' = {} => deleted
      /\ UNCHANGED <<estate, doc, used, published, lost>>
  BY DEF IInv, TypeOK, EraseFile, Leak
<1>2. /\ new.phase = "purging" /\ new.keys = req[r].keys \ {k} /\ new.seen = req[r].seen
      /\ new \in RequestRow
  BY <1>1 DEF RequestRow
<1> HIDE DEF new
<1>3. \A q \in Request : req'[q] = IF q = r THEN new ELSE req[q]
  BY <1>1 DEF IInv, TypeOK
<1>4. TypeOK'
  BY <1>1, <1>2 DEF IInv, TypeOK, Causes
<1>5. RequestShape' /\ RowShape' /\ ErasedStaysErased'
  BY <1>1, <1>2, <1>3 DEF IInv, RequestShape, RowShape, ErasedStaysErased
<1>6. \A q \in Request :
        /\ req'[q].phase = req[q].phase
        /\ req'[q].seen = req[q].seen
        /\ req[q].phase = "saved" => req'[q].key = req[q].key
        /\ req'[q].keys \subseteq req[q].keys
  BY <1>1, <1>2, <1>3
<1>7. KeysIssued'
  BY <1>1, <1>6 DEF IInv, KeysIssued
<1>8. SavedApart'
  <2>1. doc' = doc
    BY <1>1
  <2>2. QED
    BY <2>1, <1>6 DEF IInv, SavedApart
<1>9. DeletedAfterErasure'
  <2>1. ~estate
    BY <1>1 DEF IInv, DeletedAfterErasure
  <2>2. \A q \in Request : req[q].phase = "saved" => req[q].key # k
    BY <1>1 DEF IInv, SavedApart
  <2>3. ~estate' /\ files \ {k} \subseteq files' /\ lost' = lost
    BY <1>1, <2>1
  <2>4. QED
    BY <2>1, <2>2, <2>3, <1>6 DEF IInv, DeletedAfterErasure
<1>10. EveryFileKnown'
  BY <1>1, <1>2, <1>3 DEF IInv, EveryFileKnown
<1>11. ListsWhole'
  BY <1>1, <1>2, <1>3 DEF IInv, ListsWhole
<1>12. QED
  BY <1>4, <1>5, <1>7, <1>8, <1>9, <1>10, <1>11 DEF IInv

LEMMA StepLoseFile ==
  ASSUME IInv, NEW k \in Key, LoseFile(k)
  PROVE  IInv'
<1>1. /\ k \in files /\ files' = files \ {k} /\ lost' = lost \cup {k}
      /\ UNCHANGED <<estate, doc, used, req, published, leaks>>
  BY DEF LoseFile
<1>2. TypeOK'
  BY <1>1 DEF IInv, TypeOK
<1>3. RequestShape' /\ RowShape' /\ ErasedStaysErased'
  BY <1>1 DEF IInv, RequestShape, RowShape, ErasedStaysErased
<1>4. KeysIssued' /\ SavedApart'
  BY <1>1 DEF IInv, KeysIssued, SavedApart
<1>5. DeletedAfterErasure'
  BY <1>1 DEF IInv, DeletedAfterErasure
<1>6. EveryFileKnown' /\ ListsWhole'
  BY <1>1 DEF IInv, EveryFileKnown, ListsWhole
<1>7. QED
  BY <1>2, <1>3, <1>4, <1>5, <1>6 DEF IInv

LEMMA StepCrash ==
  ASSUME IInv, Crash
  PROVE  IInv'
<1>1. /\ req' = [r \in Request |-> Idle]
      /\ leaks \subseteq leaks' /\ leaks' \subseteq leaks \cup {"crash"}
      /\ leaks' = {} => Saved = {} /\ Purging = {}
      /\ UNCHANGED <<estate, doc, files, used, published, lost>>
  BY DEF Crash, Leak
<1>2. Idle.phase = "idle" /\ Idle.seen = NoRow /\ Idle.keys = {} /\ Idle \in RequestRow
  BY DEF RequestRow, DocRow, Idle, NoRow
<1>3. TypeOK'
  BY <1>1, <1>2 DEF IInv, TypeOK, Causes
<1>4. RequestShape' /\ RowShape' /\ ErasedStaysErased'
  BY <1>1, <1>2 DEF IInv, RequestShape, RowShape, ErasedStaysErased
<1>5. KeysIssued' /\ SavedApart'
  BY <1>1, <1>2, KeysOfNoRow DEF IInv, KeysIssued, SavedApart
<1>6. DeletedAfterErasure'
  BY <1>1, <1>2 DEF IInv, DeletedAfterErasure
<1>7. EveryFileKnown' /\ ListsWhole'
  BY <1>1, <1>2 DEF IInv, EveryFileKnown, ListsWhole, Saved, Purging
<1>8. QED
  BY <1>3, <1>4, <1>5, <1>6, <1>7 DEF IInv

-----------------------------------------------------------------------------
LEMMA InitIInv == Init => IInv
<1>1. SUFFICES ASSUME Init PROVE IInv
  OBVIOUS
<1>2. Idle.phase = "idle" /\ Idle.seen = NoRow /\ Idle.keys = {} /\ Idle \in RequestRow
      /\ NoRow \in DocRow
  BY DEF RequestRow, DocRow, Idle, NoRow
<1>3. TypeOK
  BY <1>1, <1>2 DEF Init, TypeOK
<1>4. RequestShape /\ RowShape /\ KeysIssued /\ SavedApart
  BY <1>1, <1>2, KeysOfNoRow DEF Init, RequestShape, RowShape, KeysIssued, SavedApart
<1>5. DeletedAfterErasure /\ ErasedStaysErased /\ EveryFileKnown /\ ListsWhole
  BY <1>1, <1>2 DEF Init, DeletedAfterErasure, ErasedStaysErased, EveryFileKnown, ListsWhole
<1>6. QED
  BY <1>3, <1>4, <1>5 DEF IInv

LEMMA NextIInv == IInv /\ [Next]_vars => IInv'
<1> SUFFICES ASSUME IInv, [Next]_vars PROVE IInv'
  OBVIOUS
<1>1. CASE UNCHANGED vars
  BY <1>1 DEF vars, IInv, TypeOK, RequestShape, RowShape, KeysIssued, SavedApart,
              DeletedAfterErasure, ErasedStaysErased, EveryFileKnown, ListsWhole
<1>2. CASE Crash
  BY <1>2, StepCrash
<1>3. ASSUME NEW k \in Key, LoseFile(k) PROVE IInv'
  BY <1>3, StepLoseFile
<1>4. ASSUME NEW d \in Doc, ArchiveDocument(d) PROVE IInv'
  BY <1>4, StepArchiveDocument
<1>5. ASSUME NEW r \in Request,
             \/ \E d \in Doc, k \in Key : Upload(r, d, k)
             \/ \E d \in Doc : LoadForVersion(r, d) \/ LoadForDownload(r, d)
             \/ \E k \in Key : SaveVersion(r, k)
             \/ CommitFile(r) \/ AuditDownload(r) \/ SendBody(r)
             \/ EraseCollect(r) \/ EraseCommit(r)
             \/ \E k \in Key, deleted \in BOOLEAN : EraseFile(r, k, deleted)
             \/ EraseDone(r) \/ Fail(r)
      PROVE  IInv'
  BY <1>5, StepUpload, StepLoadForVersion, StepLoadForDownload, StepSaveVersion,
     StepCommitFile, StepAuditDownload, StepSendBody, StepEraseCollect, StepEraseCommit,
     StepEraseFile, StepEraseDone, StepFail
<1>6. QED
  BY <1>1, <1>2, <1>3, <1>4, <1>5 DEF Next

\* The inductive invariant holds of every execution.
LEMMA Inductive == Spec => []IInv
  BY InitIInv, NextIInv, PTL DEF Spec

-----------------------------------------------------------------------------
\* What the invariant gives: the properties the vault promises, in every state.
LEMMA IInvGives == IInv => NoDanglingKey /\ NothingStranded /\ ErasureComplete
<1> SUFFICES ASSUME IInv PROVE NoDanglingKey /\ NothingStranded /\ ErasureComplete
  OBVIOUS
<1>1. NoDanglingKey
  <2>1. CASE estate
    <3>1. Referenced \cup Saved \subseteq used
      BY DEF IInv, KeysIssued, RequestShape, Referenced, Saved
    <3>2. QED
      BY <2>1, <3>1 DEF IInv, DeletedAfterErasure, NoDanglingKey
  <2>2. CASE ~estate
    <3>1. Referenced = {}
      BY <2>2, KeysOfNoRow DEF IInv, ErasedStaysErased, Referenced
    <3>2. Saved \subseteq files \cup lost
      BY <2>2 DEF IInv, DeletedAfterErasure, Saved
    <3>3. QED
      BY <3>1, <3>2 DEF NoDanglingKey
  <2>3. QED
    BY <2>1, <2>2
<1>2. NothingStranded
  BY DEF IInv, EveryFileKnown, NothingStranded, Referenced, Saved, Purging
<1>3. ErasureComplete
  BY KeysOfNoRow DEF IInv, EveryFileKnown, ErasedStaysErased, ErasureComplete
<1>4. QED
  BY <1>1, <1>2, <1>3

\* Rows, keys and requests are well typed in every reachable state.
THEOREM VaultTypeCorrect == Spec => []TypeOK
<1>1. IInv => TypeOK
  BY DEF IInv
<1>2. QED
  BY <1>1, Inductive, PTL

\* No document row, live or archived, ever names a file that was deleted: neither its
\* current file nor a previous version (upload_new_version, erase_estate).
THEOREM NoRowDangles == Spec => []NoDanglingKey
  BY Inductive, IInvGives, PTL

\* A file object storage keeps for nobody has one of the five named causes.
THEOREM OnlyNamedCausesStrand == Spec => []NothingStranded
  BY Inductive, IInvGives, PTL

\* An erasure that met no other write leaves no file behind (erase_estate).
THEOREM ErasureLeavesNothing == Spec => []ErasureComplete
  BY Inductive, IInvGives, PTL

\* No request in flight can bring a document back after the erasure.
THEOREM ErasedForGood == Spec => []ErasedStaysErased
<1>1. IInv => ErasedStaysErased
  BY DEF IInv
<1>2. QED
  BY <1>1, Inductive, PTL

\* A download is audited only while its file is there (or the volume lost it): an
\* erasure cannot slip in between (download_document).
THEOREM DownloadAuditedWithFile == Spec => AuditedDownloadHadFile
<1>1. ASSUME IInv, [Next]_vars, NEW r \in Request,
             req[r].phase = "found", req'[r].phase = "streaming"
      PROVE  req[r].key \in files \cup lost
  <2>1. req \in [Request -> RequestRow] /\ req[r].key \in used
    BY <1>1 DEF IInv, TypeOK, RequestShape
  <2>2. estate
    <3>1. CASE UNCHANGED vars \/ Crash
      BY <1>1, <3>1 DEF vars, Crash, Idle
    <3>2. CASE \/ \E k \in Key : LoseFile(k)
               \/ \E d \in Doc : ArchiveDocument(d)
      BY <1>1, <3>2 DEF LoseFile, ArchiveDocument
    <3>3. ASSUME NEW q \in Request,
                 SendBody(q) \/ CommitFile(q) \/ EraseDone(q) \/ Fail(q)
          PROVE  FALSE
      <4>1. Release(q)
        BY <3>3 DEF SendBody, CommitFile, EraseDone, Fail
      <4>2. QED
        BY <1>1, <2>1, <4>1 DEF Release, Idle
    <3>4. ASSUME NEW q \in Request, NEW d \in Doc, LoadForVersion(q, d)
          PROVE  FALSE
      BY <1>1, <2>1, <3>4 DEF LoadForVersion, Idle
    <3>5. ASSUME NEW q \in Request, NEW d \in Doc, LoadForDownload(q, d)
          PROVE  FALSE
      BY <1>1, <2>1, <3>5 DEF LoadForDownload, Idle
    <3>6. ASSUME NEW q \in Request, EraseCollect(q)
          PROVE  FALSE
      BY <1>1, <2>1, <3>6 DEF EraseCollect, Idle
    <3>7. ASSUME NEW q \in Request, NEW k \in Key,
                 (\E d \in Doc : Upload(q, d, k)) \/ SaveVersion(q, k)
          PROVE  FALSE
      <4>1. PICK e, seen : SaveFile(q, e, seen, k)
        BY <3>7 DEF Upload, SaveVersion
      <4>2. QED
        BY <1>1, <2>1, <4>1 DEF SaveFile, Idle
    <3>8. ASSUME NEW q \in Request, EraseCommit(q)
          PROVE  FALSE
      BY <1>1, <2>1, <3>8 DEF EraseCommit
    <3>9. ASSUME NEW q \in Request, NEW k \in Key, NEW deleted \in BOOLEAN,
                  EraseFile(q, k, deleted)
           PROVE  FALSE
      <4>1. req[q].phase = "purging" /\ req' = [req EXCEPT ![q].keys = @ \ {k}]
        BY <3>9 DEF EraseFile
      <4>2. req[q] \in RequestRow
        BY <2>1
      <4>3. [req[q] EXCEPT !.keys = @ \ {k}].phase = "purging"
        BY <4>1, <4>2 DEF RequestRow
      <4>4. QED
        BY <1>1, <2>1, <4>1, <4>3
    <3>10. QED
      BY <1>1, <3>1, <3>2, <3>3, <3>4, <3>5, <3>6, <3>7, <3>8, <3>9 DEF Next, AuditDownload
  <2>3. QED
    BY <1>1, <2>1, <2>2 DEF IInv, DeletedAfterErasure
<1>2. IInv /\ [Next]_vars
        => [\A r \in Request : req[r].phase = "found" /\ req'[r].phase = "streaming"
              => req[r].key \in files \cup lost]_vars
  BY <1>1
<1>3. QED
  BY <1>2, Inductive, PTL DEF Spec, AuditedDownloadHadFile

-----------------------------------------------------------------------------
(***************************************************************************)
(* The two stores behave as one (StoreSpec).  Showing says how the rows    *)
(* stand to the files that were ever shown: a request in flight holds only *)
(* files its document showed, and a file that is saved and not committed   *)
(* was shown by none, for a new document under an id no one else has.      *)
(***************************************************************************)
RowsShown ==
  \A d \in Doc : KeysOf(doc[d]) \subseteq published[d] /\ published[d] \subseteq used

CopiesShown ==
  \A r \in Request :
    /\ req[r].phase \in {"loaded", "saved"} => KeysOf(req[r].seen) \subseteq published[req[r].doc]
    /\ req[r].phase = "loaded" => req[r].seen # NoRow

SavedUnshown ==
  \A r \in Request : req[r].phase = "saved" => \A d \in Doc : req[r].key \notin published[d]

NewApart ==
  \A r \in Request : req[r].phase = "saved" /\ req[r].seen = NoRow =>
    /\ doc[req[r].doc] = NoRow /\ published[req[r].doc] = {}
    /\ \A q \in Request : q # r => req[q].doc # req[r].doc

Showing ==
  /\ RowsShown
  /\ CopiesShown
  /\ SavedUnshown
  /\ NewApart
  /\ files \cap lost = {}

\* A request moves on a document that is there, or stays on its own.
LEMMA ShowingMoves ==
  ASSUME IInv, Showing, NEW r \in Request, NEW new, req' = [req EXCEPT ![r] = new],
         UNCHANGED <<doc, used, published>>,
         files' \cap lost' = {},
         new.phase # "saved",
         new.phase = "loaded" => /\ new.doc \in Doc /\ new.seen = doc[new.doc]
                                 /\ new.seen # NoRow,
         \/ new.doc = req[r].doc
         \/ new.doc = Null
         \/ new.doc \in Doc /\ doc[new.doc] # NoRow
  PROVE  Showing'
<1>1. \A q \in Request : req'[q] = IF q = r THEN new ELSE req[q]
  BY DEF IInv, TypeOK
<1>2. RowsShown' /\ SavedUnshown'
  BY <1>1 DEF Showing, RowsShown, SavedUnshown
<1>3. CopiesShown'
  BY <1>1 DEF Showing, RowsShown, CopiesShown
<1>4. ASSUME NEW q \in Request, req'[q].phase = "saved", req'[q].seen = NoRow
      PROVE  /\ doc'[req'[q].doc] = NoRow /\ published'[req'[q].doc] = {}
             /\ \A p \in Request : p # q => req'[p].doc # req'[q].doc
  <2>1. q # r /\ req'[q] = req[q]
    BY <1>1, <1>4
  <2>2. /\ doc[req[q].doc] = NoRow /\ published[req[q].doc] = {}
        /\ \A p \in Request : p # q => req[p].doc # req[q].doc
    BY <2>1, <1>4 DEF Showing, NewApart
  <2>3. req[q].doc # Null
    BY <2>1, <1>4, VaultAssumption DEF IInv, RequestShape
  <2>4. new.doc # req[q].doc
    BY <2>1, <2>2, <2>3
  <2>5. QED
    BY <2>1, <2>2, <2>4, <1>1
<1>5. NewApart'
  BY <1>4 DEF NewApart
<1>6. QED
  BY <1>2, <1>3, <1>5 DEF Showing

\* The file an upload or a new version saves was issued to no one before.
LEMMA ShowingSave ==
  ASSUME IInv, Showing, NEW r \in Request, NEW d \in Doc, NEW seen \in DocRow, NEW k \in Key,
         SaveFile(r, d, seen, k),
         KeysOf(seen) \subseteq published[d],
         seen = NoRow => /\ doc[d] = NoRow /\ published[d] = {}
                         /\ \A q \in Request : req[q].doc # d,
         seen # NoRow => req[r].doc = d
  PROVE  Showing'
<1> DEFINE new == [Idle EXCEPT !.phase = "saved", !.doc = d, !.seen = seen, !.key = k]
<1>1. new.phase = "saved" /\ new.doc = d /\ new.seen = seen /\ new.key = k
  BY DEF Idle
<1>2. /\ k \notin used /\ used' = used \cup {k} /\ files' = files \cup {k}
      /\ UNCHANGED <<estate, doc, published, leaks, lost>>
      /\ \A q \in Request : req'[q] = IF q = r THEN new ELSE req[q]
  BY DEF IInv, TypeOK, SaveFile
<1> HIDE DEF new
<1>3. RowsShown'
  BY <1>2 DEF Showing, RowsShown
<1>4. CopiesShown'
  BY <1>1, <1>2 DEF Showing, CopiesShown
<1>5. \A e \in Doc : k \notin published[e]
  BY <1>2 DEF Showing, RowsShown
<1>6. SavedUnshown'
  BY <1>1, <1>2, <1>5 DEF Showing, SavedUnshown
<1>7. ASSUME NEW q \in Request, req'[q].phase = "saved", req'[q].seen = NoRow
      PROVE  /\ doc'[req'[q].doc] = NoRow /\ published'[req'[q].doc] = {}
             /\ \A p \in Request : p # q => req'[p].doc # req'[q].doc
  <2>1. CASE q = r
    BY <1>1, <1>2, <1>7, <2>1
  <2>2. CASE q # r
    <3>1. req'[q] = req[q]
      BY <1>2, <2>2
    <3>2. /\ doc[req[q].doc] = NoRow /\ published[req[q].doc] = {}
          /\ \A p \in Request : p # q => req[p].doc # req[q].doc
      BY <3>1, <1>7 DEF Showing, NewApart
    <3>3. d # req[q].doc
      BY <3>2, <2>2
    <3>4. QED
      BY <3>1, <3>2, <3>3, <1>1, <1>2
  <2>3. QED
    BY <2>1, <2>2
<1>8. NewApart'
  BY <1>7 DEF NewApart
<1>9. files' \cap lost' = {}
  BY <1>2 DEF IInv, TypeOK, Showing
<1>10. QED
  BY <1>3, <1>4, <1>6, <1>8, <1>9 DEF Showing

\* What a commit writes, and what it finds: the estate, and, for a document that is not
\* there, one that never showed a file.
CommitWrites(r, d, k, row) ==
  /\ estate
  /\ d \in Doc /\ k \in Key /\ req[r].phase = "saved" /\ d = req[r].doc /\ k = req[r].key
  /\ doc' = [doc EXCEPT ![d] = row]
  /\ published' = [published EXCEPT ![d] = @ \cup {k}]
  /\ req' = [req EXCEPT ![r] = Idle]
  /\ UNCHANGED <<estate, files, used, lost>>
  /\ row.state = IF doc[d] = NoRow THEN "live" ELSE doc[d].state
  /\ row.key = k /\ row.links = KeysOf(req[r].seen) /\ KeysOf(row) = KeysOf(req[r].seen) \cup {k}
  /\ doc[d] = NoRow => published[d] = {}

LEMMA CommitWritesRow ==
  ASSUME IInv, Showing, NEW r \in Request, CommitFile(r)
  PROVE  \E d, k, row : CommitWrites(r, d, k, row)
<1> DEFINE q == req[r]
           row == [NextVersion(q.seen, q.key) EXCEPT !.state = StateLeft(q)]
<1>1. /\ q.phase = "saved" /\ CanWrite(q)
      /\ doc' = [doc EXCEPT ![q.doc] = row]
      /\ published' = [published EXCEPT ![q.doc] = @ \cup {q.key}]
      /\ req' = [req EXCEPT ![r] = Idle]
      /\ UNCHANGED <<estate, files, used, lost>>
  BY DEF CommitFile, Release
<1>2. q.doc \in Doc /\ q.key \in Key /\ q.seen \in DocRow
  BY <1>1 DEF IInv, TypeOK, RequestShape, RequestRow
<1>3. row.state = StateLeft(q) /\ row.key = q.key /\ row.links = KeysOf(q.seen)
  BY DEF NextVersion
<1>4. KeysOf(row) = KeysOf(q.seen) \cup {q.key}
  BY <1>2, KeysOfVersion
<1>5. CASE q.seen = NoRow
  <2>1. estate /\ doc[q.doc] = NoRow /\ published[q.doc] = {} /\ StateLeft(q) = "live"
    BY <1>1, <1>5 DEF CanWrite, StateLeft, Showing, NewApart
  <2>2. CommitWrites(r, q.doc, q.key, row)
    BY <2>1, <1>1, <1>2, <1>3, <1>4 DEF CommitWrites
  <2>3. QED
    BY <2>2
<1>6. CASE q.seen # NoRow
  <2>1. doc[q.doc].state # "absent" /\ StateLeft(q) = doc[q.doc].state
    BY <1>1, <1>6 DEF CanWrite, StateLeft
  <2>2. doc[q.doc] # NoRow
    BY <2>1 DEF NoRow
  <2>3. estate
    BY <2>2, <1>2 DEF IInv, TypeOK, ErasedStaysErased
  <2>4. CommitWrites(r, q.doc, q.key, row)
    BY <2>1, <2>2, <2>3, <1>1, <1>2, <1>3, <1>4 DEF CommitWrites
  <2>5. QED
    BY <2>4
<1>7. QED
  BY <1>5, <1>6

LEMMA ShowingCommit ==
  ASSUME IInv, Showing, NEW r \in Request, CommitFile(r)
  PROVE  Showing'
<1>1. PICK d, k, row : CommitWrites(r, d, k, row)
  BY CommitWritesRow
<1>2. /\ d \in Doc /\ k \in Key /\ req[r].phase = "saved" /\ d = req[r].doc /\ k = req[r].key
      /\ KeysOf(row) = KeysOf(req[r].seen) \cup {k}
      /\ UNCHANGED <<estate, files, used, lost>>
  BY <1>1 DEF CommitWrites
<1>3. /\ \A q \in Request : req'[q] = IF q = r THEN Idle ELSE req[q]
      /\ \A e \in Doc : doc'[e] = IF e = d THEN row ELSE doc[e]
      /\ \A e \in Doc : published'[e] = IF e = d THEN published[e] \cup {k} ELSE published[e]
  BY <1>1 DEF CommitWrites, IInv, TypeOK
<1>4. KeysOf(req[r].seen) \subseteq published[d] /\ k \in used
  BY <1>2 DEF Showing, CopiesShown, IInv, RequestShape
<1>5. Idle.phase = "idle" /\ Idle.doc = Null
  BY DEF Idle
<1>6. RowsShown'
  <2>1. ASSUME NEW e \in Doc
        PROVE  KeysOf(doc'[e]) \subseteq published'[e] /\ published'[e] \subseteq used'
    <3>1. KeysOf(doc[e]) \subseteq published[e] /\ published[e] \subseteq used
      BY DEF Showing, RowsShown
    <3>2. CASE e = d
      <4>1. doc'[e] = row /\ published'[e] = published[d] \cup {k}
        BY <1>3, <3>2
      <4>2. QED
        BY <4>1, <3>1, <3>2, <1>2, <1>4
    <3>3. CASE e # d
      BY <3>1, <3>3, <1>2, <1>3
    <3>4. QED
      BY <3>2, <3>3
  <2>2. QED
    BY <2>1 DEF RowsShown
<1>7. CopiesShown'
  <2>1. ASSUME NEW q \in Request, req'[q].phase \in {"loaded", "saved"}
        PROVE  /\ KeysOf(req'[q].seen) \subseteq published'[req'[q].doc]
               /\ req'[q].phase = "loaded" => req'[q].seen # NoRow
    <3>1. q # r /\ req'[q] = req[q] /\ req[q].doc \in Doc
      BY <2>1, <1>3, <1>5 DEF IInv, RequestShape
    <3>2. /\ KeysOf(req[q].seen) \subseteq published[req[q].doc]
          /\ req[q].phase = "loaded" => req[q].seen # NoRow
      BY <3>1, <2>1 DEF Showing, CopiesShown
    <3>3. published[req[q].doc] \subseteq published'[req[q].doc]
      BY <3>1, <1>3
    <3>4. QED
      BY <3>1, <3>2, <3>3
  <2>2. QED
    BY <2>1 DEF CopiesShown
<1>8. SavedUnshown'
  <2>1. ASSUME NEW q \in Request, req'[q].phase = "saved", NEW e \in Doc
        PROVE  req'[q].key \notin published'[e]
    <3>1. q # r /\ req'[q] = req[q]
      BY <2>1, <1>3, <1>5
    <3>2. req[q].key # k
      BY <3>1, <2>1, <1>2 DEF IInv, SavedApart
    <3>3. req[q].key \notin published[e]
      BY <3>1, <2>1 DEF Showing, SavedUnshown
    <3>4. QED
      BY <3>1, <3>2, <3>3, <1>3
  <2>2. QED
    BY <2>1 DEF SavedUnshown
<1>9. ASSUME NEW q \in Request, req'[q].phase = "saved", req'[q].seen = NoRow
      PROVE  /\ doc'[req'[q].doc] = NoRow /\ published'[req'[q].doc] = {}
             /\ \A p \in Request : p # q => req'[p].doc # req'[q].doc
  <2>1. q # r /\ req'[q] = req[q] /\ req[q].doc \in Doc
    BY <1>9, <1>3, <1>5 DEF IInv, RequestShape
  <2>2. /\ doc[req[q].doc] = NoRow /\ published[req[q].doc] = {}
        /\ \A p \in Request : p # q => req[p].doc # req[q].doc
    BY <2>1, <1>9 DEF Showing, NewApart
  <2>3. req[q].doc # d
    BY <2>1, <2>2, <1>2
  <2>4. req[q].doc # Null
    BY <2>1, VaultAssumption
  <2>5. QED
    BY <2>1, <2>2, <2>3, <2>4, <1>3, <1>5
<1>10. NewApart'
  BY <1>9 DEF NewApart
<1>11. files' \cap lost' = {}
  BY <1>2 DEF Showing
<1>12. QED
  BY <1>6, <1>7, <1>8, <1>10, <1>11 DEF Showing

-----------------------------------------------------------------------------
\* The steps of a request that neither save a file nor commit.
LEMMA ShowingRequest ==
  ASSUME IInv, Showing, NEW r \in Request,
         \/ \E d \in Doc : LoadForVersion(r, d) \/ LoadForDownload(r, d)
         \/ AuditDownload(r) \/ SendBody(r) \/ EraseCollect(r) \/ EraseDone(r) \/ Fail(r)
         \/ \E k \in Key, deleted \in BOOLEAN : EraseFile(r, k, deleted)
  PROVE  Showing'
<1>1. Idle.phase = "idle" /\ Idle.doc = Null
  BY DEF Idle
<1>2. req[r] \in RequestRow
  BY DEF IInv, TypeOK
<1>3. files \cap lost = {}
  BY DEF Showing
<1>4. CASE \E d \in Doc : LoadForVersion(r, d)
  <2>1. PICK d \in Doc : LoadForVersion(r, d)
    BY <1>4
  <2> DEFINE new == [Idle EXCEPT !.phase = "loaded", !.doc = d, !.seen = doc[d]]
  <2>2. new.phase = "loaded" /\ new.doc = d /\ new.seen = doc[d]
    BY DEF Idle
  <2>3. /\ req' = [req EXCEPT ![r] = new] /\ doc[d].state = "live"
        /\ UNCHANGED <<doc, files, used, published, lost>>
    BY <2>1 DEF LoadForVersion
  <2>4. doc[d] # NoRow
    BY <2>3 DEF NoRow
  <2> HIDE DEF new
  <2>5. QED
    BY <1>3, <2>2, <2>3, <2>4, ShowingMoves
<1>5. CASE \E d \in Doc : LoadForDownload(r, d)
  <2>1. PICK d \in Doc : LoadForDownload(r, d)
    BY <1>5
  <2> DEFINE new == [Idle EXCEPT !.phase = "found", !.doc = d, !.key = doc[d].key]
  <2>2. new.phase = "found" /\ new.doc = d
    BY DEF Idle
  <2>3. /\ req' = [req EXCEPT ![r] = new] /\ doc[d].state # "absent"
        /\ UNCHANGED <<doc, files, used, published, lost>>
    BY <2>1 DEF LoadForDownload
  <2>4. doc[d] # NoRow
    BY <2>3 DEF NoRow
  <2> HIDE DEF new
  <2>5. QED
    BY <1>3, <2>2, <2>3, <2>4, ShowingMoves
<1>6. CASE AuditDownload(r)
  <2> DEFINE new == [req[r] EXCEPT !.phase = "streaming"]
  <2>1. new.phase = "streaming" /\ new.doc = req[r].doc
    BY <1>2 DEF RequestRow
  <2>2. /\ req' = [req EXCEPT ![r] = new]
        /\ UNCHANGED <<doc, files, used, published, lost>>
    BY <1>6 DEF AuditDownload
  <2> HIDE DEF new
  <2>3. QED
    BY <1>3, <2>1, <2>2, ShowingMoves
<1>7. CASE SendBody(r) \/ EraseDone(r) \/ Fail(r)
  <2>1. /\ req' = [req EXCEPT ![r] = Idle]
        /\ UNCHANGED <<doc, files, used, published, lost>>
    BY <1>7 DEF SendBody, EraseDone, Fail, Release
  <2>2. QED
    BY <1>1, <1>3, <2>1, ShowingMoves
<1>8. CASE EraseCollect(r)
  <2> DEFINE new == [Idle EXCEPT !.phase = "erasing", !.keys = Collected]
  <2>1. new.phase = "erasing" /\ new.doc = Null
    BY DEF Idle
  <2>2. /\ req' = [req EXCEPT ![r] = new]
        /\ UNCHANGED <<doc, files, used, published, lost>>
    BY <1>8 DEF EraseCollect
  <2> HIDE DEF new
  <2>3. QED
    BY <1>3, <2>1, <2>2, ShowingMoves
<1>9. CASE \E k \in Key, deleted \in BOOLEAN : EraseFile(r, k, deleted)
  <2>1. PICK k \in Key, deleted \in BOOLEAN : EraseFile(r, k, deleted)
    BY <1>9
  <2> DEFINE new == [req[r] EXCEPT !.keys = @ \ {k}]
  <2>2. req[r].phase = "purging" /\ new.phase = req[r].phase /\ new.doc = req[r].doc
    BY <2>1, <1>2 DEF RequestRow, EraseFile
  <2>3. /\ req' = [req EXCEPT ![r] = new] /\ files' \subseteq files
        /\ UNCHANGED <<doc, used, published, lost>>
    BY <2>1 DEF EraseFile
  <2> HIDE DEF new
  <2>4. files' \cap lost' = {}
    BY <1>3, <2>3
  <2>5. QED
    BY <2>2, <2>3, <2>4, ShowingMoves
<1>10. QED
  BY <1>4, <1>5, <1>6, <1>7, <1>8, <1>9

LEMMA ShowingUpload ==
  ASSUME IInv, Showing, NEW r \in Request, NEW d \in Doc, NEW k \in Key, Upload(r, d, k)
  PROVE  Showing'
<1>1. /\ SaveFile(r, d, NoRow, k) /\ doc[d].state = "absent" /\ published[d] = {}
      /\ \A q \in Request : req[q].doc # d
  BY DEF Upload
<1>2. doc[d] = NoRow
  BY <1>1 DEF IInv, RowShape
<1>3. NoRow \in DocRow
  BY DEF NoRow, DocRow
<1>4. QED
  BY <1>1, <1>2, <1>3, KeysOfNoRow, ShowingSave

LEMMA ShowingVersion ==
  ASSUME IInv, Showing, NEW r \in Request, NEW k \in Key, SaveVersion(r, k)
  PROVE  Showing'
<1>1. req[r].phase = "loaded" /\ SaveFile(r, req[r].doc, req[r].seen, k)
  BY DEF SaveVersion
<1>2. req[r].doc \in Doc /\ req[r].seen \in DocRow
  BY <1>1 DEF IInv, TypeOK, RequestShape, RequestRow
<1>3. KeysOf(req[r].seen) \subseteq published[req[r].doc] /\ req[r].seen # NoRow
  BY <1>1 DEF Showing, CopiesShown
<1>4. QED
  BY <1>1, <1>2, <1>3, ShowingSave

LEMMA ShowingErasure ==
  ASSUME IInv, Showing, NEW r \in Request, EraseCommit(r)
  PROVE  Showing'
<1> DEFINE new == [req[r] EXCEPT !.phase = "purging"]
<1>1. /\ req[r] \in RequestRow /\ req[r].phase = "erasing" /\ doc' = [d \in Doc |-> NoRow]
      /\ req' = [req EXCEPT ![r] = new] /\ req \in [Request -> RequestRow]
      /\ UNCHANGED <<files, used, published, leaks, lost>>
  BY DEF IInv, TypeOK, EraseCommit
<1>2. new.phase = "purging" /\ new.doc = req[r].doc
  BY <1>1 DEF RequestRow
<1> HIDE DEF new
<1>3. \A q \in Request :
        /\ req'[q].doc = req[q].doc
        /\ req'[q].phase \in {"loaded", "saved"} => req'[q] = req[q]
  BY <1>1, <1>2
<1>4. RowsShown'
  BY <1>1, KeysOfNoRow DEF Showing, RowsShown
<1>5. CopiesShown' /\ SavedUnshown'
  BY <1>1, <1>3 DEF Showing, CopiesShown, SavedUnshown
<1>6. NewApart'
  <2>1. ASSUME NEW q \in Request, req'[q].phase = "saved", req'[q].seen = NoRow
        PROVE  /\ doc'[req'[q].doc] = NoRow /\ published'[req'[q].doc] = {}
               /\ \A p \in Request : p # q => req'[p].doc # req'[q].doc
    <3>1. req'[q] = req[q] /\ req[q].doc \in Doc
      BY <2>1, <1>3 DEF IInv, RequestShape
    <3>2. /\ published[req[q].doc] = {}
          /\ \A p \in Request : p # q => req[p].doc # req[q].doc
      BY <3>1, <2>1 DEF Showing, NewApart
    <3>3. QED
      BY <3>1, <3>2, <1>1, <1>3
  <2>2. QED
    BY <2>1 DEF NewApart
<1>7. files' \cap lost' = {}
  BY <1>1 DEF Showing
<1>8. QED
  BY <1>4, <1>5, <1>6, <1>7 DEF Showing

\* Archiving a document changes none of the keys its row names.
LEMMA ShowingArchive ==
  ASSUME IInv, Showing, NEW d \in Doc, ArchiveDocument(d)
  PROVE  Showing'
<1> DEFINE row == [doc[d] EXCEPT !.state = "archived"]
<1>1. /\ doc[d] \in DocRow /\ doc[d] # NoRow /\ doc' = [doc EXCEPT ![d] = row]
      /\ UNCHANGED <<files, used, req, published, lost>>
  BY DEF IInv, TypeOK, ArchiveDocument, NoRow
<1>2. KeysOf(row) = KeysOf(doc[d])
  BY <1>1, KeysOfState
<1> HIDE DEF row
<1>3. \A e \in Doc : doc'[e] = IF e = d THEN row ELSE doc[e]
  BY <1>1 DEF IInv, TypeOK
<1>4. RowsShown' /\ CopiesShown' /\ SavedUnshown'
  BY <1>1, <1>2, <1>3 DEF Showing, RowsShown, CopiesShown, SavedUnshown
<1>5. NewApart'
  <2>1. ASSUME NEW q \in Request, req[q].phase = "saved", req[q].seen = NoRow
        PROVE  doc'[req[q].doc] = NoRow
    <3>1. doc[req[q].doc] = NoRow /\ req[q].doc \in Doc
      BY <2>1 DEF Showing, NewApart, IInv, RequestShape
    <3>2. QED
      BY <3>1, <1>1, <1>3
  <2>2. QED
    BY <2>1, <1>1 DEF Showing, NewApart
<1>6. QED
  BY <1>1, <1>4, <1>5 DEF Showing

LEMMA ShowingNext == IInv /\ Showing /\ [Next]_vars => Showing'
<1> SUFFICES ASSUME IInv, Showing, [Next]_vars PROVE Showing'
  OBVIOUS
<1>1. CASE UNCHANGED vars
  BY <1>1 DEF vars, Showing, RowsShown, CopiesShown, SavedUnshown, NewApart
<1>2. CASE Crash
  <2>1. /\ req' = [r \in Request |-> Idle]
        /\ UNCHANGED <<doc, files, used, published, lost>>
    BY <1>2 DEF Crash
  <2>2. Idle.phase = "idle"
    BY DEF Idle
  <2>3. QED
    BY <2>1, <2>2 DEF Showing, RowsShown, CopiesShown, SavedUnshown, NewApart
<1>3. ASSUME NEW k \in Key, LoseFile(k) PROVE Showing'
  <2>1. /\ files' = files \ {k} /\ lost' = lost \cup {k}
        /\ UNCHANGED <<doc, used, req, published>>
    BY <1>3 DEF LoseFile
  <2>2. files' \cap lost' = {}
    BY <2>1 DEF Showing
  <2>3. QED
    BY <2>1, <2>2 DEF Showing, RowsShown, CopiesShown, SavedUnshown, NewApart
<1>4. ASSUME NEW d \in Doc, ArchiveDocument(d) PROVE Showing'
  BY <1>4, ShowingArchive
<1>5. ASSUME NEW r \in Request,
             \/ \E d \in Doc : LoadForVersion(r, d) \/ LoadForDownload(r, d)
             \/ AuditDownload(r) \/ SendBody(r) \/ EraseCollect(r) \/ EraseDone(r) \/ Fail(r)
             \/ \E k \in Key, deleted \in BOOLEAN : EraseFile(r, k, deleted)
      PROVE  Showing'
  BY <1>5, ShowingRequest
<1>6. ASSUME NEW r \in Request,
             \/ \E d \in Doc, k \in Key : Upload(r, d, k)
             \/ \E k \in Key : SaveVersion(r, k)
             \/ CommitFile(r) \/ EraseCommit(r)
      PROVE  Showing'
  BY <1>6, ShowingUpload, ShowingVersion, ShowingCommit, ShowingErasure
<1>7. QED
  BY <1>1, <1>2, <1>3, <1>4, <1>5, <1>6 DEF Next

LEMMA InitShowing == Init => Showing
<1>1. Idle.phase = "idle"
  BY DEF Idle
<1>2. QED
  BY <1>1, KeysOfNoRow
  DEF Init, Showing, RowsShown, CopiesShown, SavedUnshown, NewApart

LEMMA InductiveShowing == Spec => [](IInv /\ Showing)
  BY InitIInv, NextIInv, InitShowing, ShowingNext, PTL DEF Spec

-----------------------------------------------------------------------------
\* A commit is the one step that shows a file, and shows it readable.
LEMMA CommitIsWrite ==
  ASSUME IInv, Showing, NEW r \in Request, CommitFile(r)
  PROVE  Store!Next
<1>1. PICK d, k, row : CommitWrites(r, d, k, row)
  BY CommitWritesRow
<1>2. /\ estate /\ d \in Doc /\ k \in Key /\ req[r].phase = "saved"
      /\ d = req[r].doc /\ k = req[r].key
      /\ doc' = [doc EXCEPT ![d] = row]
      /\ published' = [published EXCEPT ![d] = @ \cup {k}]
      /\ UNCHANGED <<estate, files, used, lost>>
      /\ row.state = IF doc[d] = NoRow THEN "live" ELSE doc[d].state
      /\ row.key = k /\ row.links = KeysOf(req[r].seen)
      /\ doc[d] = NoRow => published[d] = {}
      /\ doc \in [Doc -> DocRow] /\ published \in [Doc -> SUBSET Key]
  BY <1>1 DEF CommitWrites, IInv, TypeOK
<1>3. k \notin Store!Shown
  BY <1>2 DEF Store!Shown, Showing, SavedUnshown
<1>4. Store!Absent = NoRow
  BY DEF Store!Absent, NoRow
<1>5. doc'[d] = row /\ row.links \subseteq published[d]
  BY <1>2 DEF Showing, CopiesShown
<1>6. Published' = Published \cup {k}
  BY <1>2 DEF Published
<1>7. k \in files \cup lost /\ files \cap lost = {}
  BY <1>2 DEF Showing, IInv, DeletedAfterErasure, RequestShape
<1>8. (files \cap Published)' = (files \cap Published) \cup ({k} \ lost)
  BY <1>2, <1>6, <1>7
<1>9. Store!Write(d, k)
  BY <1>2, <1>3, <1>4, <1>5, <1>8 DEF Store!Write
<1>10. QED
  BY <1>2, <1>9 DEF Store!Next

\* What is shown and readable does not change when no row and no shown file does.
LEMMA StoreStutters ==
  ASSUME UNCHANGED <<estate, doc, published, lost>>,
         files' \cap Published = files \cap Published
  PROVE  UNCHANGED Store!vars
<1>1. Published' = Published
  BY DEF Published
<1>2. QED
  BY <1>1 DEF Store!vars

LEMMA SaveStutters ==
  ASSUME IInv, Showing, NEW r \in Request, NEW d, NEW seen, NEW k \in Key,
         SaveFile(r, d, seen, k)
  PROVE  UNCHANGED Store!vars
<1>1. /\ k \notin used /\ files' = files \cup {k}
      /\ UNCHANGED <<estate, doc, published, lost>>
  BY DEF SaveFile
<1>2. k \notin Published
  BY <1>1 DEF Published, Showing, RowsShown
<1>3. QED
  BY <1>1, <1>2, StoreStutters

\* Erasing takes the documents; a second erasure in flight finds none.
LEMMA CommitIsErase ==
  ASSUME IInv, NEW r \in Request, EraseCommit(r)
  PROVE  [Store!Next]_(Store!vars)
<1>1. /\ estate' = FALSE /\ doc' = [d \in Doc |-> NoRow]
      /\ UNCHANGED <<files, published, lost>> /\ doc \in [Doc -> DocRow] /\ estate \in BOOLEAN
  BY DEF IInv, TypeOK, EraseCommit
<1>2. Published' = Published
  BY <1>1 DEF Published
<1>3. Store!Absent = NoRow
  BY DEF Store!Absent, NoRow
<1>4. CASE estate
  BY <1>1, <1>2, <1>3, <1>4 DEF Store!Next, Store!Erase
<1>5. CASE ~estate
  <2>1. \A d \in Doc : doc[d] = NoRow
    BY <1>5 DEF IInv, ErasedStaysErased
  <2>2. doc' = doc /\ estate' = estate
    BY <2>1, <1>1, <1>5
  <2>3. QED
    BY <2>2, <1>1, StoreStutters
<1>6. QED
  BY <1>4, <1>5

\* Only after the erasure does a file go, one at a time.
LEMMA EraseFileDeletes ==
  ASSUME IInv, NEW r \in Request, NEW k \in Key, NEW deleted \in BOOLEAN,
         EraseFile(r, k, deleted)
  PROVE  [Store!Next]_(Store!vars)
<1>1. /\ req[r].phase = "purging" /\ files' = IF deleted THEN files \ {k} ELSE files
      /\ UNCHANGED <<estate, doc, published, lost>>
  BY DEF EraseFile
<1>2. ~estate
  BY <1>1 DEF IInv, DeletedAfterErasure
<1>3. Published' = Published
  BY <1>1 DEF Published
<1>4. CASE deleted
  <2>1. (files \cap Published)' = (files \cap Published) \ {k}
    BY <1>1, <1>3, <1>4
  <2>2. Store!Delete(k)
    BY <2>1, <1>1, <1>2 DEF Store!Delete
  <2>3. QED
    BY <2>2 DEF Store!Next
<1>5. CASE ~deleted
  BY <1>1, <1>5, StoreStutters
<1>6. QED
  BY <1>4, <1>5

LEMMA StepOfStore == IInv /\ Showing /\ [Next]_vars => [Store!Next]_(Store!vars)
<1> SUFFICES ASSUME IInv, Showing, [Next]_vars PROVE [Store!Next]_(Store!vars)
  OBVIOUS
<1>1. CASE UNCHANGED vars
  BY <1>1, StoreStutters DEF vars
<1>2. CASE Crash
  BY <1>2, StoreStutters DEF Crash
<1>3. ASSUME NEW k \in Key, LoseFile(k) PROVE [Store!Next]_(Store!vars)
  <2>1. /\ files' = files \ {k} /\ lost' = lost \cup {k}
        /\ UNCHANGED <<estate, doc, published>>
    BY <1>3 DEF LoseFile
  <2>2. Published' = Published
    BY <2>1 DEF Published
  <2>3. Store!Lose(k)
    BY <2>1, <2>2 DEF Store!Lose
  <2>4. QED
    BY <2>3 DEF Store!Next
<1>4. ASSUME NEW d \in Doc, ArchiveDocument(d) PROVE [Store!Next]_(Store!vars)
  <2>1. /\ doc[d].state = "live" /\ doc' = [doc EXCEPT ![d].state = "archived"]
        /\ UNCHANGED <<estate, files, published, lost>>
    BY <1>4 DEF ArchiveDocument
  <2>2. Published' = Published
    BY <2>1 DEF Published
  <2>3. Store!Archive(d)
    BY <2>1, <2>2 DEF Store!Archive
  <2>4. QED
    BY <2>3 DEF Store!Next
<1>5. ASSUME NEW r \in Request,
             \/ \E d \in Doc : LoadForVersion(r, d) \/ LoadForDownload(r, d)
             \/ AuditDownload(r) \/ SendBody(r) \/ EraseCollect(r) \/ EraseDone(r) \/ Fail(r)
      PROVE  [Store!Next]_(Store!vars)
  <2>1. UNCHANGED <<estate, doc, files, published, lost>>
    BY <1>5 DEF LoadForVersion, LoadForDownload, AuditDownload, SendBody, EraseCollect,
                EraseDone, Fail
  <2>2. QED
    BY <2>1, StoreStutters
<1>6. ASSUME NEW r \in Request, NEW k \in Key,
             (\E d \in Doc : Upload(r, d, k)) \/ SaveVersion(r, k)
      PROVE  [Store!Next]_(Store!vars)
  <2>1. PICK d, seen : SaveFile(r, d, seen, k)
    BY <1>6 DEF Upload, SaveVersion
  <2>2. QED
    BY <2>1, SaveStutters
<1>7. ASSUME NEW r \in Request, NEW k \in Key, NEW deleted \in BOOLEAN,
             EraseFile(r, k, deleted)
      PROVE  [Store!Next]_(Store!vars)
  BY <1>7, EraseFileDeletes
<1>8. ASSUME NEW r \in Request, CommitFile(r) \/ EraseCommit(r)
      PROVE  [Store!Next]_(Store!vars)
  BY <1>8, CommitIsWrite, CommitIsErase
<1>9. QED
  BY <1>1, <1>2, <1>3, <1>4, <1>5, <1>6, <1>7, <1>8 DEF Next

\* Rows in the database and files in object storage behave as one store, in which a
\* version and its file appear together (upload_document, upload_new_version,
\* delete_document, erase_estate), for every number of overlapping requests.
THEOREM VaultIsOneStore == Spec => StoreSpec
<1>1. Init => Store!Init
  <2>1. SUFFICES ASSUME Init PROVE Store!Init
    OBVIOUS
  <2>2. Store!Absent = NoRow
    BY DEF Store!Absent, NoRow
  <2>3. files \cap Published = {}
    BY <2>1 DEF Init
  <2>4. QED
    BY <2>1, <2>2, <2>3 DEF Init, Store!Init
<1>2. QED
  BY <1>1, StepOfStore, InductiveShowing, PTL DEF Spec, StoreSpec, Store!Spec

\* While the estate is kept, every file a document ever showed can be read, unless the
\* volume lost it: no overlapping version, archiving, failure or stop takes one away.
THEOREM VersionsStayReadable == Spec => []Store!VersionsKept
<1>1. IInv /\ Showing => Store!VersionsKept
  <2>1. SUFFICES ASSUME IInv, Showing, estate, NEW d \in Doc, NEW k \in published[d]
                 PROVE  k \in (files \cap Published) \cup lost
    BY DEF Store!VersionsKept, Store!Shown
  <2>2. k \in used /\ k \in Published
    BY <2>1 DEF Showing, RowsShown, Published
  <2>3. QED
    BY <2>1, <2>2 DEF IInv, DeletedAfterErasure
<1>2. QED
  BY <1>1, InductiveShowing, PTL

\* An archived document is never live again: not when a new version that was loaded
\* before is committed after (archive_document, upload_new_version).
THEOREM ArchivedForGood ==
  Spec => [][\A d \in Doc : doc[d].state = "archived" => doc'[d].state # "live"]_vars
<1>1. ASSUME IInv, [Store!Next]_(Store!vars), NEW d \in Doc, doc[d].state = "archived"
      PROVE  doc'[d].state # "live"
  <2>1. doc \in [Doc -> DocRow] /\ Store!Absent.state = "absent"
    BY <1>1 DEF IInv, TypeOK, Store!Absent
  <2>2. ASSUME NEW e \in Doc, NEW k \in Key, Store!Write(e, k)
        PROVE  doc'[d].state # "live"
    <3>1. doc' = [doc EXCEPT ![e] = doc'[e]]
          /\ doc'[e].state = IF doc[e] = Store!Absent THEN "live" ELSE doc[e].state
      BY <2>2 DEF Store!Write
    <3>2. CASE e = d
      BY <1>1, <2>1, <3>1, <3>2
    <3>3. CASE e # d
      BY <1>1, <2>1, <3>1, <3>3
    <3>4. QED
      BY <3>2, <3>3
  <2>3. ASSUME NEW e \in Doc, Store!Archive(e)
        PROVE  doc'[d].state # "live"
    <3>1. doc[e].state = "live" /\ doc' = [doc EXCEPT ![e].state = "archived"]
      BY <2>3 DEF Store!Archive
    <3>2. doc'[d] = doc[d]
      BY <1>1, <2>1, <3>1
    <3>3. QED
      BY <1>1, <3>2
  <2>4. CASE Store!Erase
    BY <2>1, <2>4 DEF Store!Erase
  <2>5. CASE UNCHANGED Store!vars \/ \E k \in Key : Store!Delete(k) \/ Store!Lose(k)
    BY <1>1, <2>5 DEF Store!vars, Store!Delete, Store!Lose
  <2>6. QED
    BY <1>1, <2>2, <2>3, <2>4, <2>5 DEF Store!Next
<1>2. IInv /\ Showing /\ [Next]_vars
        => [\A d \in Doc : doc[d].state = "archived" => doc'[d].state # "live"]_vars
  BY <1>1, StepOfStore
<1>3. QED
  BY <1>2, InductiveShowing, PTL DEF Spec
=============================================================================
