--------------------------- MODULE Paperwork_proof ---------------------------
(***************************************************************************)
(* Proofs about Paperwork and the estate accounts it extends: the total on *)
(* record for an archived legacy, what an export may say, the packs, and   *)
(* the arithmetic of the accounts.                                         *)
(***************************************************************************)
EXTENDS Paperwork, SequenceTheorems, FiniteSetTheorems, TLAPS

\* A least element of a set of natural numbers.
LEMMA SmallestIndex ==
  ASSUME NEW T \in SUBSET Nat, T # {}
  PROVE  \E m \in T : \A k \in T : ~(k < m)
<1>1. IsWellFoundedOn(OpToRel(<, Nat), Nat)
  BY NatLessThanWellFounded
<1>2. \E m \in T : \A k \in T : ~(<<k, m>> \in OpToRel(<, Nat))
  BY <1>1, WFMin
<1>3. QED
  BY <1>2 DEF OpToRel

-----------------------------------------------------------------------------

DraftKind == {"iht400_draft", "notification_letter", "iht_narration"}

\* What a request carries between its reads and its commit.
Shape(q) ==
  /\ "kind" \in DOMAIN q
  /\ q.kind = "pay" => DOMAIN q = {"kind", "at", "amount", "alone"} /\ q.at \in Legacy
  /\ q.kind = "archive" => DOMAIN q = {"kind", "at", "total", "alone"} /\ q.at \in Legacy
  /\ q.kind = "narrate" => DOMAIN q = {"kind", "at", "attempts"} /\ q.at \in Draft
  /\ q.kind = "draft" => q.at \in Draft /\ q.of \in DraftKind
  /\ q.kind = "letter" => DOMAIN q = {"kind", "at", "text", "alone"} /\ q.at \in Draft
  /\ q.kind = "pack" => DOMAIN q = {"kind", "among"}
  /\ q.kind = "found" => DOMAIN q = {"kind", "at", "text", "recorded", "alone"}

RequestsShaped == DOMAIN req = Request /\ \A r \in Request : Shape(req[r])

LEMMA RequestsShapedAccounts ==
  ASSUME RequestsShaped, AccountsNext
  PROVE  RequestsShaped'
<1>1. DOMAIN req = Request /\ \A r \in Request : Shape(req[r])
  BY DEF RequestsShaped
<1>2. Shape(Idle)
  BY DEF Idle, Shape
<1>3. ASSUME NEW l, NEW r \in Request
      PROVE  Shape(Overtaken(l, "archive")[r])
  <2> DEFINE q == req[r]
  <2>1. Shape(q)
    BY <1>1
  <2> HIDE DEF q
  <2>2. CASE q.kind = "archive" /\ q.at = l
    <3>1. Shape([q EXCEPT !.alone = FALSE])
      BY <2>1, <2>2 DEF Shape
    <3>2. Overtaken(l, "archive")[r] = [q EXCEPT !.alone = FALSE]
      BY <2>2 DEF Overtaken, q
    <3>3. QED
      BY <3>1, <3>2
  <2>3. CASE ~(q.kind = "archive" /\ q.at = l)
    <3>1. Overtaken(l, "archive")[r] = q
      BY <2>3 DEF Overtaken, q
    <3>2. QED
      BY <2>1, <3>1
  <2>4. QED
    BY <2>2, <2>3
<1>4. ASSUME NEW l, NEW amount
      PROVE  l \in Legacy => Shape([kind |-> "pay", at |-> l, amount |-> amount, alone |-> TRUE])
  BY DEF Shape
<1>5. ASSUME NEW l, NEW total, NEW alone
      PROVE  l \in Legacy =>
               Shape([kind |-> "archive", at |-> l, total |-> total, alone |-> alone])
  BY DEF Shape
<1>6. SUFFICES DOMAIN req' = Request /\ \A r \in Request : Shape(req'[r])
  BY DEF RequestsShaped
<1>7. CASE UNCHANGED req
  BY <1>1, <1>7
<1>8. ASSUME NEW r \in Request, Rollback(r)
      PROVE  DOMAIN req' = Request /\ \A q \in Request : Shape(req'[q])
  BY <1>1, <1>2, <1>8 DEF Rollback
<1>9. ASSUME NEW r \in Request, NEW l \in Legacy, NEW n \in Payment, BeginPay(r, l, n)
      PROVE  DOMAIN req' = Request /\ \A q \in Request : Shape(req'[q])
  BY <1>1, <1>4, <1>9 DEF BeginPay
<1>10. ASSUME NEW r \in Request, CommitPay(r)
       PROVE  DOMAIN req' = Request /\ \A q \in Request : Shape(req'[q])
  <2> DEFINE o == Overtaken(req[r].at, "archive")
  <2>1. DOMAIN o = Request
    BY DEF Overtaken
  <2>2. \A q \in Request : Shape(o[q])
    BY <1>3
  <2>3. req' = [o EXCEPT ![r] = Idle]
    BY <1>10 DEF CommitPay
  <2> HIDE DEF o
  <2>4. QED
    BY <1>2, <2>1, <2>2, <2>3
<1>11. ASSUME NEW r \in Request, NEW l \in Legacy, BeginArchive(r, l)
       PROVE  DOMAIN req' = Request /\ \A q \in Request : Shape(req'[q])
  BY <1>1, <1>5, <1>11 DEF BeginArchive
<1>12. ASSUME NEW r \in Request, CommitArchive(r)
       PROVE  DOMAIN req' = Request /\ \A q \in Request : Shape(req'[q])
  <2> DEFINE o == Overtaken(req[r].at, "archive")
  <2>1. DOMAIN o = Request
    BY DEF Overtaken
  <2>2. \A q \in Request : Shape(o[q])
    BY <1>3
  <2>3. req' = [o EXCEPT ![r] = Idle]
    BY <1>12 DEF CommitArchive
  <2> HIDE DEF o
  <2>4. QED
    BY <1>2, <2>1, <2>2, <2>3
<1>13. QED
  BY <1>7, <1>8, <1>9, <1>10, <1>11, <1>12
     DEF AccountsNext, UpdateRegisters, Recompute, CreateLegacy, UpdateLegacy

LEMMA RequestsShapedPaper ==
  ASSUME RequestsShaped, PaperworkNext
  PROVE  RequestsShaped'
<1>1. DOMAIN req = Request /\ \A r \in Request : Shape(req[r])
  BY DEF RequestsShaped
<1>2. Shape(Idle)
  BY DEF Idle, Shape
<1>3. SUFFICES DOMAIN req' = Request /\ \A r \in Request : Shape(req'[r])
  BY DEF RequestsShaped
<1>4. CASE UNCHANGED req
  BY <1>1, <1>4
<1>5. ASSUME NEW r \in Request, NEW new, Shape(new), req' = [req EXCEPT ![r] = new]
      PROVE  DOMAIN req' = Request /\ \A q \in Request : Shape(req'[q])
  BY <1>1, <1>5
<1>6. ASSUME NEW d \in Draft, NEW t \in Text, UploadVersion(d, t)
      PROVE  DOMAIN req' = Request /\ \A q \in Request : Shape(req'[q])
  <2>1. DOMAIN req' = Request
    BY <1>6 DEF UploadVersion
  <2>2. ASSUME NEW r \in Request
        PROVE  Shape(req'[r])
    <3> DEFINE q == req[r]
    <3>1. Shape(q)
      BY <1>1
    <3>2. req'[r] = IF q.kind \in {"letter", "found"} THEN [q EXCEPT !.alone = FALSE] ELSE q
      BY <1>6 DEF UploadVersion
    <3> HIDE DEF q
    <3>3. q.kind \in {"letter", "found"} => Shape([q EXCEPT !.alone = FALSE])
      BY <3>1 DEF Shape
    <3>4. QED
      BY <3>1, <3>2, <3>3
  <2>3. QED
    BY <2>1, <2>2
<1>7. ASSUME NEW r \in Request, NEW d \in Draft, NEW f \in FormCode, BeginForms(r, d, f)
      PROVE  DOMAIN req' = Request /\ \A q \in Request : Shape(req'[q])
  <2>1. PICK new : /\ new = [kind |-> "draft", at |-> d, of |-> "iht400_draft",
                             forms |-> FormsDraft(reg.assets, assessment.codes, f),
                             assets |-> reg.assets,
                             current |-> assessment.assets = reg.assets, whole |-> f = Null]
                   /\ req' = [req EXCEPT ![r] = new]
    BY <1>7 DEF BeginForms
  <2>2. Shape(new)
    BY <2>1 DEF Shape, DraftKind
  <2>3. QED
    BY <1>5, <2>1, <2>2
<1>8. ASSUME NEW r \in Request, NEW d \in Draft, BeginLetter(r, d)
      PROVE  DOMAIN req' = Request /\ \A q \in Request : Shape(req'[q])
  <2>1. Shape([kind |-> "draft", at |-> d, of |-> "notification_letter"])
    BY DEF Shape, DraftKind
  <2>2. QED
    BY <1>5, <1>8, <2>1 DEF BeginLetter
<1>9. ASSUME NEW r \in Request, NEW d \in Draft, BeginNarration(r, d)
      PROVE  DOMAIN req' = Request /\ \A q \in Request : Shape(req'[q])
  <2>1. Shape([kind |-> "narrate", at |-> d, attempts |-> 0])
    BY DEF Shape
  <2>2. QED
    BY <1>5, <1>9, <2>1 DEF BeginNarration
<1>10. ASSUME NEW r \in Request, NEW d \in Draft, BeginExportLetter(r, d)
       PROVE  DOMAIN req' = Request /\ \A q \in Request : Shape(req'[q])
  <2>1. Shape([kind |-> "letter", at |-> d, text |-> draft[d].text, alone |-> TRUE])
    BY DEF Shape
  <2>2. QED
    BY <1>5, <1>10, <2>1 DEF BeginExportLetter
<1>11. ASSUME NEW r \in Request, NEW valid \in BOOLEAN, Narrate(r, valid)
       PROVE  DOMAIN req' = Request /\ \A q \in Request : Shape(req'[q])
  <2> DEFINE q == req[r]
             n == q.attempts + 1
  <2>1. Shape(q) /\ q.kind = "narrate"
    BY <1>1, <1>11 DEF Narrate
  <2>2. req' = [req EXCEPT ![r] =
          IF valid \/ n >= MaxDraftAttempts
          THEN [kind |-> "draft", at |-> q.at, of |-> "iht_narration", validated |-> valid]
          ELSE [q EXCEPT !.attempts = n]]
    BY <1>11 DEF Narrate
  <2> HIDE DEF q, n
  <2>3. Shape([kind |-> "draft", at |-> q.at, of |-> "iht_narration", validated |-> valid])
    BY <2>1 DEF Shape, DraftKind
  <2>4. Shape([q EXCEPT !.attempts = n])
    BY <2>1 DEF Shape
  <2>5. QED
    BY <1>5, <2>2, <2>3, <2>4
<1>12. ASSUME NEW r \in Request, BeginExportPack(r)
       PROVE  DOMAIN req' = Request /\ \A q \in Request : Shape(req'[q])
  <2>1. Shape([kind |-> "pack", among |-> ApprovedPacks])
    BY DEF Shape
  <2>2. QED
    BY <1>5, <1>12, <2>1 DEF BeginExportPack
<1>13. ASSUME NEW r \in Request, BeginExportAccounts(r)
       PROVE  DOMAIN req' = Request /\ \A q \in Request : Shape(req'[q])
  <2>1. Shape([kind |-> "accounts"])
    BY DEF Shape
  <2>2. QED
    BY <1>5, <1>13, <2>1 DEF BeginExportAccounts
<1>14. ASSUME NEW r \in Request,
              \/ \E t \in Text : StoreDraft(r, t)
              \/ CommitExportLetter(r) \/ CommitExportPack(r) \/ CommitExportAccounts(r)
       PROVE  DOMAIN req' = Request /\ \A q \in Request : Shape(req'[q])
  <2>1. req' = [req EXCEPT ![r] = Idle]
    BY <1>14 DEF StoreDraft, CommitExportLetter, CommitExportPack, CommitExportAccounts
  <2>2. QED
    BY <1>2, <1>5, <2>1
<1>15. CASE \/ ExportClearance
            \/ \E i \in DOMAIN approval : Approve(i)
            \/ \E d \in Draft :
                 \/ ArchiveDraft(d)
                 \/ \E kind \in {"iht400_draft", "notification_letter"} : RecordApproval(d, kind)
  <2>1. UNCHANGED req
    BY <1>15 DEF ExportClearance, Approve, ArchiveDraft, RecordApproval
  <2>2. QED
    BY <1>4, <2>1
<1>16. ASSUME NEW r \in Request, LookAtDraft(r)
       PROVE  DOMAIN req' = Request /\ \A q \in Request : Shape(req'[q])
  <2> DEFINE q == req[r]
  <2>1. Shape(q) /\ q.kind = "pack"
    BY <1>1, <1>16 DEF LookAtDraft
  <2>2. PICK p \in q.among :
          \/ req' = [req EXCEPT ![r].among = q.among \ {p}]
          \/ req' = [req EXCEPT ![r] = [kind |-> "found", at |-> p[2].draft,
                                        text |-> draft[p[2].draft].text,
                                        recorded |-> p[2].recorded, alone |-> TRUE]]
    BY <1>16 DEF LookAtDraft
  <2>4. CASE req' = [req EXCEPT ![r].among = q.among \ {p}]
    <3>1. req' = [req EXCEPT ![r] = [q EXCEPT !.among = q.among \ {p}]]
      BY <2>4
    <3> HIDE DEF q
    <3>2. Shape([q EXCEPT !.among = q.among \ {p}])
      BY <2>1 DEF Shape
    <3>3. QED
      BY <1>5, <3>1, <3>2
  <2>5. CASE req' = [req EXCEPT ![r] = [kind |-> "found", at |-> p[2].draft,
                                        text |-> draft[p[2].draft].text,
                                        recorded |-> p[2].recorded, alone |-> TRUE]]
    <3>1. Shape([kind |-> "found", at |-> p[2].draft, text |-> draft[p[2].draft].text,
                 recorded |-> p[2].recorded, alone |-> TRUE])
      BY DEF Shape
    <3>2. QED
      BY <1>5, <2>5, <3>1
  <2>6. QED
    BY <2>2, <2>4, <2>5
<1>17. QED
  BY <1>6, <1>7, <1>8, <1>9, <1>10, <1>11, <1>12, <1>13, <1>14, <1>15, <1>16 DEF PaperworkNext

\* The paperwork leaves the legacies, and the requests on them, as they are.
LEMMA PaperLeavesAccounts ==
  ASSUME PaperworkNext
  PROVE  UNCHANGED <<legacy, paid>> /\ UNCHANGED <<reg, assessment>>
<1>1. UNCHANGED accountVars
  <2>1. CASE \/ ExportClearance
             \/ \E i \in DOMAIN approval : Approve(i)
             \/ \E d \in Draft :
                  \/ \E t \in Text : UploadVersion(d, t)
                  \/ ArchiveDraft(d)
                  \/ \E kind \in {"iht400_draft", "notification_letter"} :
                       RecordApproval(d, kind)
    BY <2>1 DEF ExportClearance, Approve, UploadVersion, ArchiveDraft, RecordApproval
  <2>2. ASSUME NEW r \in Request, NEW d \in Draft,
               \/ \E f \in FormCode : BeginForms(r, d, f)
               \/ BeginLetter(r, d) \/ BeginNarration(r, d) \/ BeginExportLetter(r, d)
        PROVE  UNCHANGED accountVars
    BY <2>2 DEF BeginForms, BeginLetter, BeginNarration, BeginExportLetter
  <2>3. ASSUME NEW r \in Request,
               \/ \E valid \in BOOLEAN : Narrate(r, valid)
               \/ \E t \in Text : StoreDraft(r, t)
               \/ CommitExportLetter(r) \/ BeginExportPack(r) \/ CommitExportPack(r)
               \/ BeginExportAccounts(r) \/ CommitExportAccounts(r) \/ LookAtDraft(r)
        PROVE  UNCHANGED accountVars
    BY <2>3 DEF Narrate, StoreDraft, CommitExportLetter, BeginExportPack, CommitExportPack,
                BeginExportAccounts, CommitExportAccounts, LookAtDraft
  <2>4. QED
    BY <2>1, <2>2, <2>3 DEF PaperworkNext
<1>2. QED
  BY <1>1 DEF accountVars

LEMMA PaperLeavesPayments ==
  ASSUME RequestsShaped, PaperworkNext, NEW l \in Request
  PROVE  req'[l] = req[l] \/ req'[l].kind \notin {"pay", "archive"}
<1>1. DOMAIN req = Request /\ \A r \in Request : Shape(req[r])
  BY DEF RequestsShaped
<1> DEFINE Goal == req'[l] = req[l] \/ req'[l].kind \notin {"pay", "archive"}
<1>2. ASSUME NEW r \in Request, NEW new, req' = [req EXCEPT ![r] = new],
             new.kind \notin {"pay", "archive"}
      PROVE  Goal
  BY <1>1, <1>2
<1>3. ASSUME NEW d \in Draft, NEW t \in Text, UploadVersion(d, t)
      PROVE  Goal
  <2> DEFINE q == req[l]
  <2>1. Shape(q)
    BY <1>1
  <2>2. req'[l] = IF q.kind \in {"letter", "found"} THEN [q EXCEPT !.alone = FALSE] ELSE q
    BY <1>3 DEF UploadVersion
  <2> HIDE DEF q
  <2>3. q.kind \in {"letter", "found"} => [q EXCEPT !.alone = FALSE].kind = q.kind
    BY <2>1 DEF Shape
  <2>4. req'[l] = q \/ req'[l].kind \notin {"pay", "archive"}
    BY <2>2, <2>3
  <2>5. QED
    BY <2>4 DEF q
<1>4. ASSUME NEW r \in Request, NEW valid \in BOOLEAN, Narrate(r, valid)
      PROVE  Goal
  <2> DEFINE q == req[r]
             n == q.attempts + 1
             new == IF valid \/ n >= MaxDraftAttempts
                    THEN [kind |-> "draft", at |-> q.at, of |-> "iht_narration",
                          validated |-> valid]
                    ELSE [q EXCEPT !.attempts = n]
  <2>1. Shape(q) /\ q.kind = "narrate"
    BY <1>1, <1>4 DEF Narrate
  <2>2. req' = [req EXCEPT ![r] = new]
    BY <1>4 DEF Narrate
  <2> HIDE DEF q, n
  <2>3. new.kind \notin {"pay", "archive"}
    BY <2>1 DEF Shape
  <2> HIDE DEF new
  <2>4. QED
    BY <1>2, <2>2, <2>3
<1>5. ASSUME NEW r \in Request, NEW d \in Draft, NEW f \in FormCode, BeginForms(r, d, f)
      PROVE  Goal
  <2>1. PICK new : /\ new = [kind |-> "draft", at |-> d, of |-> "iht400_draft",
                             forms |-> FormsDraft(reg.assets, assessment.codes, f),
                             assets |-> reg.assets,
                             current |-> assessment.assets = reg.assets, whole |-> f = Null]
                   /\ req' = [req EXCEPT ![r] = new]
    BY <1>5 DEF BeginForms
  <2>2. QED
    BY <1>2, <2>1
<1>6. ASSUME NEW r \in Request, NEW d \in Draft,
             BeginLetter(r, d) \/ BeginNarration(r, d) \/ BeginExportLetter(r, d)
      PROVE  Goal
  <2>1. CASE BeginLetter(r, d)
    BY <1>2, <2>1 DEF BeginLetter
  <2>2. CASE BeginNarration(r, d)
    BY <1>2, <2>2 DEF BeginNarration
  <2>3. CASE BeginExportLetter(r, d)
    BY <1>2, <2>3 DEF BeginExportLetter
  <2>4. QED
    BY <1>6, <2>1, <2>2, <2>3
<1>7. ASSUME NEW r \in Request, BeginExportPack(r) \/ BeginExportAccounts(r)
      PROVE  Goal
  <2>1. CASE BeginExportPack(r)
    BY <1>2, <2>1 DEF BeginExportPack
  <2>2. CASE BeginExportAccounts(r)
    <3>1. PICK new : new.kind = "accounts" /\ req' = [req EXCEPT ![r] = new]
      BY <2>2 DEF BeginExportAccounts
    <3>2. QED
      BY <1>2, <3>1
  <2>3. QED
    BY <1>7, <2>1, <2>2
<1>8. ASSUME NEW r \in Request,
             \/ \E t \in Text : StoreDraft(r, t)
             \/ CommitExportLetter(r) \/ CommitExportPack(r) \/ CommitExportAccounts(r)
      PROVE  Goal
  <2>1. req' = [req EXCEPT ![r] = Idle]
    BY <1>8 DEF StoreDraft, CommitExportLetter, CommitExportPack, CommitExportAccounts
  <2>2. Idle.kind = "idle"
    BY DEF Idle
  <2>3. QED
    BY <1>2, <2>1, <2>2
<1>9. CASE \/ ExportClearance
           \/ \E i \in DOMAIN approval : Approve(i)
           \/ \E d \in Draft :
                \/ ArchiveDraft(d)
                \/ \E kind \in {"iht400_draft", "notification_letter"} : RecordApproval(d, kind)
  BY <1>9 DEF ExportClearance, Approve, ArchiveDraft, RecordApproval
<1>10. ASSUME NEW r \in Request, LookAtDraft(r)
       PROVE  Goal
  <2> DEFINE q == req[r]
  <2>1. Shape(q) /\ q.kind = "pack"
    BY <1>1, <1>10 DEF LookAtDraft
  <2>2. PICK p \in q.among :
          \/ req' = [req EXCEPT ![r] = [q EXCEPT !.among = q.among \ {p}]]
          \/ req' = [req EXCEPT ![r] = [kind |-> "found", at |-> p[2].draft,
                                        text |-> draft[p[2].draft].text,
                                        recorded |-> p[2].recorded, alone |-> TRUE]]
    BY <1>10 DEF LookAtDraft
  <2> HIDE DEF q
  <2>3. [q EXCEPT !.among = q.among \ {p}].kind = "pack"
    BY <2>1 DEF Shape
  <2>4. QED
    BY <1>2, <2>2, <2>3
<1>11. QED
  BY <1>3, <1>4, <1>5, <1>6, <1>7, <1>8, <1>9, <1>10 DEF PaperworkNext

-----------------------------------------------------------------------------
(* The total on record.                                                    *)

\* A row is there or not, and has its columns.
LegacyShaped ==
  /\ DOMAIN legacy = Legacy /\ DOMAIN paid = Legacy
  /\ \A l \in Legacy :
       \/ legacy[l] = NoLegacy
       \/ DOMAIN legacy[l] = LegacyColumns /\ legacy[l].state \in {"live", "archived"}

\* An archive that nothing overtook read the total as it still is.
TotalRead ==
  \A r \in Request :
    req[r].kind = "archive" /\ req[r].alone => req[r].total = paid[req[r].at]

\* What is settled is settled: no payment is on its way to the legacy.
NoPaymentLeft ==
  \A l \in Legacy :
    legacy[l].state = "archived" /\ legacy[l].settled =>
      /\ paid[l] = legacy[l].total
      /\ \A r \in Request : ~(req[r].kind = "pay" /\ req[r].at = l)

\* A legacy that is being archived is on file.
ArchivesOnFile ==
  \A r \in Request : req[r].kind = "archive" => legacy[req[r].at] # NoLegacy

Settlement == RequestsShaped /\ LegacyShaped /\ TotalRead /\ NoPaymentLeft /\ ArchivesOnFile

LEMMA SettlementPaper ==
  ASSUME Settlement, PaperworkNext
  PROVE  Settlement'
<1>1. RequestsShaped'
  BY RequestsShapedPaper DEF Settlement
<1>2. UNCHANGED <<legacy, paid>>
  BY PaperLeavesAccounts
<1>3. \A r \in Request : req'[r] = req[r] \/ req'[r].kind \notin {"pay", "archive"}
  BY PaperLeavesPayments DEF Settlement
<1>4. LegacyShaped'
  BY <1>2 DEF Settlement, LegacyShaped
<1>5. TotalRead'
  BY <1>2, <1>3 DEF Settlement, TotalRead
<1>6. NoPaymentLeft'
  BY <1>2, <1>3 DEF Settlement, NoPaymentLeft
<1>7. ArchivesOnFile'
  BY <1>2, <1>3 DEF Settlement, ArchivesOnFile
<1>8. QED
  BY <1>1, <1>4, <1>5, <1>6, <1>7 DEF Settlement

LEMMA SettlementAccounts ==
  ASSUME Settlement, AccountsNext
  PROVE  Settlement'
<1>1. RequestsShaped'
  BY RequestsShapedAccounts DEF Settlement
<1> DEFINE Rest == LegacyShaped /\ TotalRead /\ NoPaymentLeft /\ ArchivesOnFile
<1>2. /\ RequestsShaped /\ LegacyShaped /\ TotalRead /\ NoPaymentLeft /\ ArchivesOnFile
      /\ DOMAIN req = Request /\ \A r \in Request : Shape(req[r])
  BY DEF Settlement, RequestsShaped
<1>3. ASSUME UNCHANGED <<legacy, paid, req>>
      PROVE  Rest'
  <2>1. legacy' = legacy /\ paid' = paid /\ req' = req
    BY <1>3
  <2>2. LegacyShaped'
    BY <1>2, <2>1 DEF LegacyShaped
  <2>3. TotalRead' /\ ArchivesOnFile'
    BY <1>2, <2>1 DEF TotalRead, ArchivesOnFile
  <2>4. NoPaymentLeft'
    BY <1>2, <2>1 DEF NoPaymentLeft
  <2>5. QED
    BY <2>2, <2>3, <2>4
<1>4. ASSUME NEW l \in Legacy, NEW c \in Contact, NEW t \in Terms, CreateLegacy(l, c, t)
      PROVE  Rest'
  <2> DEFINE new == [state |-> "live", contact |-> c, type |-> t.type, amount |-> t.amount,
                     total |-> 0, settled |-> FALSE]
  <2>1. /\ UNCHANGED <<paid, req>> /\ DOMAIN legacy' = Legacy
        /\ \A k \in Legacy : legacy'[k] = IF k = l THEN new ELSE legacy[k]
    BY <1>2, <1>4 DEF CreateLegacy, LegacyShaped
  <2>2. new.state = "live" /\ DOMAIN new = LegacyColumns /\ new # NoLegacy
    BY DEF LegacyColumns, NoLegacy
  <2> HIDE DEF new
  <2>3. LegacyShaped'
    BY <1>2, <2>1, <2>2 DEF LegacyShaped
  <2>4. TotalRead'
    BY <1>2, <2>1 DEF TotalRead
  <2>5. NoPaymentLeft'
    BY <1>2, <2>1, <2>2 DEF NoPaymentLeft
  <2>6. ArchivesOnFile'
    <3>1. \A r \in Request : req[r].kind = "archive" => req[r].at \in Legacy
      BY <1>2 DEF Shape
    <3>2. QED
      BY <1>2, <2>1, <2>2, <3>1 DEF ArchivesOnFile
  <2>7. QED
    BY <2>3, <2>4, <2>5, <2>6
<1>5. ASSUME NEW l \in Legacy, NEW c \in Contact, NEW t \in Terms, UpdateLegacy(l, c, t)
      PROVE  Rest'
  <2> DEFINE old == legacy[l]
             new == legacy'[l]
  <2>1. /\ UNCHANGED <<paid, req>> /\ DOMAIN legacy' = Legacy
        /\ \A k \in Legacy : k # l => legacy'[k] = legacy[k]
    BY <1>2, <1>5 DEF UpdateLegacy, LegacyShaped
  <2>2. old.state # "absent"
    BY <1>5 DEF UpdateLegacy
  <2>3. DOMAIN old = LegacyColumns /\ old.state \in {"live", "archived"}
    BY <1>2, <2>2 DEF LegacyShaped, NoLegacy
  <2>4. new = [old EXCEPT !.contact = c, !.type = t.type, !.amount = t.amount]
    BY <1>2, <1>5 DEF UpdateLegacy, LegacyShaped
  <2> HIDE DEF old, new
  <2>5. /\ DOMAIN new = LegacyColumns /\ new.state = old.state
        /\ new.total = old.total /\ new.settled = old.settled
    BY <2>3, <2>4 DEF LegacyColumns
  <2>6. new # NoLegacy
    BY <2>3, <2>5 DEF NoLegacy
  <2> USE DEF old, new
  <2>7. LegacyShaped'
    BY <1>2, <2>1, <2>3, <2>5 DEF LegacyShaped
  <2>8. TotalRead'
    BY <1>2, <2>1 DEF TotalRead
  <2>9. NoPaymentLeft'
    BY <1>2, <2>1, <2>5 DEF NoPaymentLeft
  <2>10. ArchivesOnFile'
    <3>1. \A r \in Request : req[r].kind = "archive" => req[r].at \in Legacy
      BY <1>2 DEF Shape
    <3>2. QED
      BY <1>2, <2>1, <2>6, <3>1 DEF ArchivesOnFile
  <2>11. QED
    BY <2>7, <2>8, <2>9, <2>10
<1>6. ASSUME NEW r \in Request, NEW l \in Legacy, NEW n \in Payment, BeginPay(r, l, n)
      PROVE  Rest'
  <2> DEFINE new == [kind |-> "pay", at |-> l, amount |-> n, alone |-> TRUE]
  <2>1. /\ UNCHANGED <<legacy, paid>>
        /\ \A q \in Request : req'[q] = IF q = r THEN new ELSE req[q]
    BY <1>2, <1>6 DEF BeginPay, accountVars
  <2>2. new.kind = "pay" /\ new.at = l
    OBVIOUS
  <2> HIDE DEF new
  <2>3. legacy[l].state = "live"
    BY <1>6 DEF BeginPay, Payable
  <2>4. LegacyShaped'
    BY <1>2, <2>1 DEF LegacyShaped
  <2>5. TotalRead'
    BY <1>2, <2>1, <2>2 DEF TotalRead
  <2>6. NoPaymentLeft'
    BY <1>2, <2>1, <2>2, <2>3 DEF NoPaymentLeft
  <2>7. ArchivesOnFile'
    BY <1>2, <2>1, <2>2 DEF ArchivesOnFile
  <2>8. QED
    BY <2>4, <2>5, <2>6, <2>7
<1>7. ASSUME NEW r \in Request, NEW l \in Legacy, BeginArchive(r, l)
      PROVE  Rest'
  <2> DEFINE new == [kind |-> "archive", at |-> l, total |-> paid[l],
                     alone |-> InFlight(l, "archive") = {}]
  <2>1. /\ UNCHANGED <<legacy, paid>>
        /\ \A q \in Request : req'[q] = IF q = r THEN new ELSE req[q]
    BY <1>2, <1>7 DEF BeginArchive, accountVars
  <2>2. new.kind = "archive" /\ new.at = l /\ new.total = paid[l]
    OBVIOUS
  <2> HIDE DEF new
  <2>3. legacy[l].state = "live"
    BY <1>7 DEF BeginArchive
  <2>4. LegacyShaped'
    BY <1>2, <2>1 DEF LegacyShaped
  <2>5. TotalRead'
    BY <1>2, <2>1, <2>2 DEF TotalRead
  <2>6. NoPaymentLeft'
    BY <1>2, <2>1, <2>2 DEF NoPaymentLeft
  <2>7. ArchivesOnFile'
    BY <1>2, <2>1, <2>2, <2>3 DEF ArchivesOnFile, NoLegacy
  <2>8. QED
    BY <2>4, <2>5, <2>6, <2>7
<1>8. ASSUME NEW r \in Request, Rollback(r)
      PROVE  Rest'
  <2>1. /\ UNCHANGED <<legacy, paid>>
        /\ \A q \in Request : req'[q] = IF q = r THEN Idle ELSE req[q]
    BY <1>2, <1>8 DEF Rollback, accountVars
  <2>2. Idle.kind = "idle"
    BY DEF Idle
  <2>3. LegacyShaped'
    BY <1>2, <2>1 DEF LegacyShaped
  <2>4. TotalRead'
    BY <1>2, <2>1, <2>2 DEF TotalRead
  <2>5. NoPaymentLeft'
    BY <1>2, <2>1, <2>2 DEF NoPaymentLeft
  <2>6. ArchivesOnFile'
    BY <1>2, <2>1, <2>2 DEF ArchivesOnFile
  <2>7. QED
    BY <2>3, <2>4, <2>5, <2>6
\* A commit on a legacy tells the archives of it that it came between.
<1>9. ASSUME NEW l, NEW q \in Request, NEW r \in Request,
             req' = [Overtaken(l, "archive") EXCEPT ![r] = Idle]
      PROVE  /\ req'[q].kind = "pay" => q # r /\ req'[q] = req[q]
             /\ req'[q].kind = "archive" =>
                  /\ q # r /\ req[q].kind = "archive" /\ req'[q].at = req[q].at
                  /\ req'[q].total = req[q].total
                  /\ req'[q].alone => req[q].alone /\ req[q].at # l
  <2> DEFINE x == req[q]
  <2>1. CASE q = r
    <3>1. req'[q] = Idle
      BY <1>9, <2>1 DEF Overtaken
    <3>2. QED
      BY <3>1 DEF Idle
  <2>2. CASE q # r /\ x.kind = "archive" /\ x.at = l
    <3>1. req'[q] = [x EXCEPT !.alone = FALSE]
      BY <1>9, <2>2 DEF Overtaken
    <3>2. Shape(x)
      BY <1>2
    <3> HIDE DEF x
    <3>3. /\ req'[q].kind = "archive" /\ req'[q].at = x.at /\ req'[q].total = x.total
          /\ req'[q].alone = FALSE
      BY <2>2, <3>1, <3>2 DEF Shape
    <3>4. QED
      BY <2>2, <3>3 DEF x
  <2>3. CASE q # r /\ ~(x.kind = "archive" /\ x.at = l)
    <3>1. req'[q] = x
      BY <1>9, <2>3 DEF Overtaken
    <3>2. QED
      BY <2>3, <3>1
  <2>4. QED
    BY <2>1, <2>2, <2>3
<1>10. ASSUME NEW r \in Request, CommitPay(r)
       PROVE  Rest'
  <2> DEFINE l == req[r].at
  <2>1. /\ req[r].kind = "pay" /\ UNCHANGED legacy /\ l \in Legacy
        /\ req' = [Overtaken(l, "archive") EXCEPT ![r] = Idle]
    BY <1>2, <1>10 DEF CommitPay, Shape
  <2>2. DOMAIN paid' = Legacy /\ \A k \in Legacy : k # l => paid'[k] = paid[k]
    BY <1>2, <1>10 DEF CommitPay, LegacyShaped
  <2>3. ~(legacy[l].state = "archived" /\ legacy[l].settled)
    BY <1>2, <2>1 DEF NoPaymentLeft
  <2> HIDE DEF l
  <2>4. \A q \in Request :
          /\ req'[q].kind = "pay" => q # r /\ req'[q] = req[q]
          /\ req'[q].kind = "archive" =>
               /\ q # r /\ req[q].kind = "archive" /\ req'[q].at = req[q].at
               /\ req'[q].total = req[q].total
               /\ req'[q].alone => req[q].alone /\ req[q].at # l
    BY <1>9, <2>1
  <2>5. LegacyShaped'
    BY <1>2, <2>1, <2>2 DEF LegacyShaped
  <2>6. TotalRead'
    <3>1. \A q \in Request : req[q].kind = "archive" => req[q].at \in Legacy
      BY <1>2 DEF Shape
    <3>2. QED
      BY <1>2, <2>2, <2>4, <3>1 DEF TotalRead
  <2>7. NoPaymentLeft'
    BY <1>2, <2>1, <2>2, <2>3, <2>4 DEF NoPaymentLeft
  <2>8. ArchivesOnFile'
    BY <1>2, <2>1, <2>4 DEF ArchivesOnFile
  <2>9. QED
    BY <2>5, <2>6, <2>7, <2>8
<1>11. ASSUME NEW r \in Request, CommitArchive(r)
       PROVE  Rest'
  <2> DEFINE l == req[r].at
             old == legacy[l]
             new == legacy'[l]
  <2>1. /\ req[r].kind = "archive" /\ UNCHANGED paid /\ l \in Legacy
        /\ req' = [Overtaken(l, "archive") EXCEPT ![r] = Idle]
    BY <1>2, <1>11 DEF CommitArchive, Shape
  <2>2. DOMAIN legacy' = Legacy /\ \A k \in Legacy : k # l => legacy'[k] = legacy[k]
    BY <1>2, <1>11 DEF CommitArchive, LegacyShaped
  <2>3. new = [old EXCEPT !.state = "archived", !.total = req[r].total,
                          !.settled = req[r].alone /\ InFlight(l, "pay") = {}]
    BY <1>2, <1>11, <2>1 DEF CommitArchive, LegacyShaped
  <2>4. DOMAIN old = LegacyColumns
    BY <1>2, <2>1 DEF ArchivesOnFile, LegacyShaped
  <2>5. req[r].alone => req[r].total = paid[l]
    BY <1>2, <2>1 DEF TotalRead
  <2> HIDE DEF l, old, new
  <2>6. /\ DOMAIN new = LegacyColumns /\ new.state = "archived" /\ new.total = req[r].total
        /\ new.settled = (req[r].alone /\ InFlight(l, "pay") = {})
    BY <2>3, <2>4 DEF LegacyColumns
  <2>7. new # NoLegacy
    BY <2>6 DEF NoLegacy
  <2>8. \A q \in Request :
          /\ req'[q].kind = "pay" => q # r /\ req'[q] = req[q]
          /\ req'[q].kind = "archive" =>
               /\ q # r /\ req[q].kind = "archive" /\ req'[q].at = req[q].at
               /\ req'[q].total = req[q].total
               /\ req'[q].alone => req[q].alone /\ req[q].at # l
    BY <1>9, <2>1
  <2>9. LegacyShaped'
    BY <1>2, <2>1, <2>2, <2>6 DEF LegacyShaped, new
  <2>10. TotalRead'
    BY <1>2, <2>1, <2>8 DEF TotalRead
  <2>11. NoPaymentLeft'
    <3>1. new.settled =>
            paid[l] = new.total /\ \A q \in Request : ~(req[q].kind = "pay" /\ req[q].at = l)
      BY <2>5, <2>6 DEF InFlight
    <3>2. QED
      BY <1>2, <2>1, <2>2, <2>8, <3>1 DEF NoPaymentLeft, new
  <2>12. ArchivesOnFile'
    <3>1. \A q \in Request : req[q].kind = "archive" => req[q].at \in Legacy
      BY <1>2 DEF Shape
    <3>2. QED
      BY <1>2, <2>2, <2>7, <2>8, <3>1 DEF ArchivesOnFile, new
  <2>13. QED
    BY <2>9, <2>10, <2>11, <2>12
<1>12. Rest'
  <2>1. CASE (\E contents \in Registers : UpdateRegisters(contents)) \/ \E tax \in Tax : Recompute(tax)
    BY <1>3, <2>1 DEF UpdateRegisters, Recompute
  <2> HIDE DEF Rest
  <2>2. QED
    BY <1>4, <1>5, <1>6, <1>7, <1>8, <1>10, <1>11, <2>1 DEF AccountsNext
<1>13. QED
  BY <1>1, <1>12 DEF Settlement

LEMMA SettlementInvariant == Spec => []Settlement
<1>1. Init => Settlement
  <2> SUFFICES ASSUME Init PROVE Settlement
    OBVIOUS
  <2>1. DOMAIN req = Request /\ \A r \in Request : req[r] = Idle
    BY DEF Init
  <2>2. Shape(Idle) /\ Idle.kind = "idle"
    BY DEF Shape, Idle
  <2>3. RequestsShaped
    BY <2>1, <2>2 DEF RequestsShaped
  <2>4. legacy \in Will /\ DOMAIN paid = Legacy
    BY DEF Init, AccountsInit
  <2>5. LegacyShaped /\ \A l \in Legacy : legacy[l].state # "archived"
    <3>1. /\ DOMAIN legacy = Legacy
          /\ \A l \in Legacy :
               \/ legacy[l] = NoLegacy
               \/ DOMAIN legacy[l] = LegacyColumns /\ legacy[l].state = "live"
      BY <2>4, AccountsAssumption
    <3>2. NoLegacy.state = "absent"
      BY DEF NoLegacy
    <3>3. QED
      BY <2>4, <3>1, <3>2 DEF LegacyShaped
  <2>6. TotalRead /\ NoPaymentLeft /\ ArchivesOnFile
    BY <2>1, <2>2, <2>5 DEF TotalRead, NoPaymentLeft, ArchivesOnFile
  <2>7. QED
    BY <2>3, <2>5, <2>6 DEF Settlement
<1>2. Settlement /\ [Next]_vars => Settlement'
  <2> SUFFICES ASSUME Settlement, [Next]_vars PROVE Settlement'
    OBVIOUS
  <2>1. CASE UNCHANGED vars
    <3>1. UNCHANGED <<legacy, paid, req>>
      BY <2>1 DEF vars, accountVars
    <3>2. QED
      BY <3>1 DEF Settlement, RequestsShaped, LegacyShaped, TotalRead, NoPaymentLeft,
                  ArchivesOnFile
  <2>2. QED
    BY <2>1, SettlementAccounts, SettlementPaper DEF Next, Quiet
<1>3. QED
  BY <1>1, <1>2, PTL DEF Spec

\* The total of the distributions that the archive of a legacy put on record stays its
\* total, unless a payment was on its way or another archive overlapped.
THEOREM ArchivedTotalStays == Spec => []ArchivedTotalFinal
<1>1. Settlement => ArchivedTotalFinal
  BY DEF Settlement, NoPaymentLeft, ArchivedTotalFinal
<1>2. QED
  BY <1>1, SettlementInvariant, PTL

-----------------------------------------------------------------------------
(* What an export says.                                                    *)

\* The estate's requests leave the papers' requests as they are.
LEMMA AccountsLeavePapers ==
  ASSUME RequestsShaped, AccountsNext, NEW q \in Request
  PROVE  req'[q] = req[q] \/ req'[q].kind \in {"idle", "pay", "archive"}
<1>1. DOMAIN req = Request /\ \A r \in Request : Shape(req[r])
  BY DEF RequestsShaped
<1> DEFINE Goal == req'[q] = req[q] \/ req'[q].kind \in {"idle", "pay", "archive"}
<1>2. ASSUME NEW r \in Request, NEW new, req' = [req EXCEPT ![r] = new],
             new.kind \in {"idle", "pay", "archive"}
      PROVE  Goal
  BY <1>1, <1>2
<1>3. ASSUME NEW l, NEW r \in Request, req' = [Overtaken(l, "archive") EXCEPT ![r] = Idle]
      PROVE  Goal
  <2> DEFINE x == req[q]
  <2>1. CASE q = r
    <3>1. req'[q] = Idle
      BY <1>3, <2>1 DEF Overtaken
    <3>2. QED
      BY <3>1 DEF Idle
  <2>2. CASE q # r /\ x.kind = "archive" /\ x.at = l
    <3>1. req'[q] = [x EXCEPT !.alone = FALSE]
      BY <1>3, <2>2 DEF Overtaken
    <3>2. Shape(x)
      BY <1>1
    <3> HIDE DEF x
    <3>3. req'[q].kind = "archive"
      BY <2>2, <3>1, <3>2 DEF Shape
    <3>4. QED
      BY <3>3
  <2>3. CASE q # r /\ ~(x.kind = "archive" /\ x.at = l)
    <3>1. req'[q] = x
      BY <1>3, <2>3 DEF Overtaken
    <3>2. QED
      BY <3>1
  <2>4. QED
    BY <2>1, <2>2, <2>3
<1>4. ASSUME NEW r \in Request, Rollback(r)
      PROVE  Goal
  BY <1>2, <1>4 DEF Rollback, Idle
<1>5. ASSUME NEW r \in Request, NEW l \in Legacy, NEW n \in Payment, BeginPay(r, l, n)
      PROVE  Goal
  BY <1>2, <1>5 DEF BeginPay
<1>6. ASSUME NEW r \in Request, NEW l \in Legacy, BeginArchive(r, l)
      PROVE  Goal
  BY <1>2, <1>6 DEF BeginArchive
<1>7. ASSUME NEW r \in Request, CommitPay(r) \/ CommitArchive(r)
      PROVE  Goal
  BY <1>3, <1>7 DEF CommitPay, CommitArchive
<1>8. CASE UNCHANGED req
  BY <1>8
<1>9. QED
  BY <1>4, <1>5, <1>6, <1>7, <1>8
     DEF AccountsNext, UpdateRegisters, Recompute, CreateLegacy, UpdateLegacy

\* Taking a row out and putting it at the end.
Moved(s, i, x) == Append(SubSeq(s, 1, i - 1) \o SubSeq(s, i + 1, Len(s)), x)

MovedFacts(S, s, i, x) ==
  /\ Moved(s, i, x) \in Seq(S) /\ Len(Moved(s, i, x)) = Len(s)
  /\ Moved(s, i, x)[Len(s)] = x
  /\ \A k \in 1 .. Len(s) : k < i => Moved(s, i, x)[k] = s[k]
  /\ \A k \in 1 .. Len(s) : i < k => Moved(s, i, x)[k - 1] = s[k]

LEMMA MovedRow ==
  ASSUME NEW S, NEW s \in Seq(S), NEW i \in 1 .. Len(s), NEW x \in S
  PROVE  MovedFacts(S, s, i, x)
<1> DEFINE t == Moved(s, i, x)
<1> DEFINE a == SubSeq(s, 1, i - 1)
           b == SubSeq(s, i + 1, Len(s))
<1>1. Len(s) \in Nat /\ i \in Int /\ 1 <= i /\ i <= Len(s) /\ \A k \in 1 .. Len(s) : s[k] \in S
  BY LenProperties, ElementOfSeq
<1>2. a \in Seq(S) /\ Len(a) = i - 1 /\ \A k \in 1 .. i - 1 : a[k] = s[k]
  <2>1. \A k \in 1 .. i - 1 : s[k] \in S
    BY <1>1
  <2>2. /\ a \in Seq(S) /\ Len(a) = IF 1 <= i - 1 THEN (i - 1) - 1 + 1 ELSE 0
        /\ \A k \in 1 .. (i - 1) - 1 + 1 : a[k] = s[1 + k - 1]
    BY <1>1, <2>1, SubSeqProperties
  <2> HIDE DEF a
  <2>3. QED
    BY <1>1, <2>2
<1>3. /\ b \in Seq(S) /\ Len(b) = Len(s) - i
      /\ \A k \in 1 .. Len(s) - i : b[k] = s[k + i]
  <2>1. \A k \in i + 1 .. Len(s) : s[k] \in S
    BY <1>1
  <2>2. /\ b \in Seq(S) /\ Len(b) = IF i + 1 <= Len(s) THEN Len(s) - (i + 1) + 1 ELSE 0
        /\ \A k \in 1 .. Len(s) - (i + 1) + 1 : b[k] = s[(i + 1) + k - 1]
    BY <1>1, <2>1, SubSeqProperties
  <2> HIDE DEF b
  <2>3. \A k \in 1 .. Len(s) - i : b[k] = s[k + i]
    <3> SUFFICES ASSUME NEW k \in 1 .. Len(s) - i PROVE b[k] = s[k + i]
      OBVIOUS
    <3>1. (i + 1) + k - 1 = k + i /\ k \in 1 .. Len(s) - (i + 1) + 1
      BY <1>1
    <3>2. QED
      BY <2>2, <3>1
  <2>4. QED
    BY <1>1, <2>2, <2>3
<1> HIDE DEF a, b
<1> DEFINE c == a \o b
<1>4. /\ c \in Seq(S) /\ Len(c) = Len(s) - 1
      /\ \A k \in 1 .. Len(s) - 1 : c[k] = IF k <= i - 1 THEN a[k] ELSE b[k - (i - 1)]
  <2>1. /\ c \in Seq(S) /\ Len(c) = Len(a) + Len(b)
        /\ \A k \in 1 .. Len(a) + Len(b) : c[k] = IF k <= Len(a) THEN a[k] ELSE b[k - Len(a)]
    BY <1>2, <1>3, ConcatProperties
  <2>2. Len(a) + Len(b) = Len(s) - 1
    BY <1>1, <1>2, <1>3
  <2>3. QED
    BY <1>2, <2>1, <2>2
<1> HIDE DEF c
<1>5. t = Append(c, x)
  BY DEF a, b, c, Moved
<1> HIDE DEF t
<1>6. /\ t \in Seq(S) /\ Len(t) = Len(s) /\ t[Len(s)] = x
      /\ \A k \in 1 .. Len(s) - 1 : t[k] = c[k]
  <2>1. /\ t \in Seq(S) /\ Len(t) = Len(c) + 1 /\ t[Len(c) + 1] = x
        /\ \A k \in 1 .. Len(c) : t[k] = c[k]
    <3>1. c \in Seq(S) /\ x \in S
      BY <1>4
    <3>2. /\ Append(c, x) \in Seq(S) /\ Len(Append(c, x)) = Len(c) + 1
          /\ \A k \in 1 .. Len(c) : Append(c, x)[k] = c[k]
          /\ Append(c, x)[Len(c) + 1] = x
      BY <3>1, AppendProperties
    <3>3. QED
      BY <1>5, <3>2
  <2>2. Len(c) + 1 = Len(s)
    BY <1>1, <1>4
  <2>3. QED
    BY <1>4, <2>1, <2>2
<1>7. ASSUME NEW k \in 1 .. Len(s), k < i
      PROVE  t[k] = s[k]
  <2>1. k \in 1 .. Len(s) - 1 /\ k \in 1 .. i - 1 /\ k <= i - 1
    BY <1>1, <1>7
  <2>2. t[k] = c[k] /\ c[k] = a[k] /\ a[k] = s[k]
    BY <1>2, <1>4, <1>6, <2>1
  <2>3. QED
    BY <2>2
<1>8. ASSUME NEW k \in 1 .. Len(s), i < k
      PROVE  t[k - 1] = s[k]
  <2>1. /\ k - 1 \in 1 .. Len(s) - 1 /\ ~(k - 1 <= i - 1) /\ (k - 1) - (i - 1) = k - i
        /\ k - i \in 1 .. Len(s) - i /\ (k - i) + i = k
    BY <1>1, <1>8
  <2>2. t[k - 1] = c[k - 1] /\ c[k - 1] = b[(k - 1) - (i - 1)]
    BY <1>4, <1>6, <2>1
  <2>3. b[k - i] = s[(k - i) + i]
    BY <1>3, <2>1
  <2>4. QED
    BY <2>1, <2>2, <2>3
<1>9. QED
  BY <1>6, <1>7, <1>8 DEF t, MovedFacts

RowsOf(s) == {s[k] : k \in 1 .. Len(s)}

MovedTo(S, s, i, x, t) ==
  /\ t \in Seq(S) /\ Len(t) = Len(s)
  /\ x \in RowsOf(t) /\ RowsOf(t) \subseteq RowsOf(s) \cup {x}
  /\ RowsOf(s) \subseteq RowsOf(t) \cup {s[i]}

LEMMA MovedRows ==
  ASSUME NEW S, NEW s \in Seq(S), NEW i \in 1 .. Len(s), NEW x \in S, NEW t, t = Moved(s, i, x)
  PROVE  MovedTo(S, s, i, x, t)
<1>1. /\ t \in Seq(S) /\ Len(t) = Len(s) /\ t[Len(s)] = x
      /\ \A k \in 1 .. Len(s) : k < i => t[k] = s[k]
      /\ \A k \in 1 .. Len(s) : i < k => t[k - 1] = s[k]
  <2>1. MovedFacts(S, s, i, x)
    BY MovedRow
  <2>2. QED
    BY <2>1 DEF MovedFacts
<1>2. Len(s) \in Nat /\ i \in Nat /\ 1 <= i /\ i <= Len(s)
  BY LenProperties
<1>3. x \in RowsOf(t)
  <2>1. Len(s) \in 1 .. Len(t)
    BY <1>1, <1>2
  <2>2. QED
    BY <1>1, <2>1 DEF RowsOf
<1>4. ASSUME NEW k \in 1 .. Len(t)
      PROVE  t[k] \in RowsOf(s) \cup {x}
  <2>1. CASE k < i
    BY <1>1, <2>1 DEF RowsOf
  <2>2. CASE k = Len(s)
    BY <1>1, <2>2
  <2>3. CASE ~(k < i) /\ k # Len(s)
    <3>1. k + 1 \in 1 .. Len(s) /\ i < k + 1 /\ (k + 1) - 1 = k
      BY <1>1, <1>2, <2>3
    <3>2. t[(k + 1) - 1] = s[k + 1]
      BY <1>1, <3>1
    <3>3. QED
      BY <3>1, <3>2 DEF RowsOf
  <2>4. QED
    BY <2>1, <2>2, <2>3
<1>5. ASSUME NEW k \in 1 .. Len(s)
      PROVE  s[k] \in RowsOf(t) \cup {s[i]}
  <2>1. CASE k < i
    BY <1>1, <2>1 DEF RowsOf
  <2>2. CASE i < k
    <3>1. k - 1 \in 1 .. Len(t)
      BY <1>1, <1>2, <2>2
    <3>2. QED
      BY <1>1, <2>2, <3>1 DEF RowsOf
  <2>3. CASE k = i
    BY <2>3
  <2>4. QED
    BY <1>2, <2>1, <2>2, <2>3
<1>6. RowsOf(t) \subseteq RowsOf(s) \cup {x}
  BY <1>4 DEF RowsOf
<1>7. RowsOf(s) \subseteq RowsOf(t) \cup {s[i]}
  BY <1>5 DEF RowsOf
<1>8. QED
  BY <1>1, <1>3, <1>6, <1>7 DEF MovedTo

\* A row put at the end, or in front.
AddedTo(S, s, x, t) ==
  t \in Seq(S) /\ Len(t) = Len(s) + 1 /\ RowsOf(t) = RowsOf(s) \cup {x}

LEMMA AddedRow ==
  ASSUME NEW S, NEW s \in Seq(S), NEW x \in S, NEW t,
         t = Append(s, x) \/ t = <<x>> \o s
  PROVE  AddedTo(S, s, x, t)
<1>1. Len(s) \in Nat
  BY LenProperties
<1>2. CASE t = Append(s, x)
  <2>1. /\ Append(s, x) \in Seq(S) /\ Len(Append(s, x)) = Len(s) + 1
        /\ \A k \in 1 .. Len(s) : Append(s, x)[k] = s[k]
        /\ Append(s, x)[Len(s) + 1] = x
    BY AppendProperties
  <2>2. /\ t \in Seq(S) /\ Len(t) = Len(s) + 1
        /\ \A k \in 1 .. Len(s) : t[k] = s[k]
        /\ t[Len(s) + 1] = x
    BY <1>2, <2>1
  <2>3. \A k \in 1 .. Len(s) + 1 : k = Len(s) + 1 \/ k \in 1 .. Len(s)
    BY <1>1
  <2>4. Len(s) + 1 \in 1 .. Len(s) + 1 /\ \A k \in 1 .. Len(s) : k \in 1 .. Len(s) + 1
    BY <1>1
  <2>5. QED
    BY <2>2, <2>3, <2>4 DEF RowsOf, AddedTo
<1>3. CASE t = <<x>> \o s
  <2>1. <<x>> \in Seq(S) /\ Len(<<x>>) = 1 /\ <<x>>[1] = x
    OBVIOUS
  <2>2. /\ t \in Seq(S) /\ Len(t) = 1 + Len(s)
        /\ \A k \in 1 .. 1 + Len(s) : t[k] = IF k <= 1 THEN <<x>>[k] ELSE s[k - 1]
    BY <1>3, <2>1, ConcatProperties
  <2>3. t[1] = x /\ 1 \in 1 .. Len(s) + 1
    BY <1>1, <2>1, <2>2
  <2>4. \A k \in 1 .. Len(s) : t[k + 1] = s[k] /\ k + 1 \in 1 .. Len(s) + 1
    <3> SUFFICES ASSUME NEW k \in 1 .. Len(s)
                 PROVE  t[k + 1] = s[k] /\ k + 1 \in 1 .. Len(s) + 1
      OBVIOUS
    <3>1. k + 1 \in 1 .. 1 + Len(s) /\ ~(k + 1 <= 1) /\ (k + 1) - 1 = k
      BY <1>1
    <3>2. t[k + 1] = s[(k + 1) - 1]
      BY <2>2, <3>1
    <3>3. QED
      BY <3>1, <3>2
  <2>5. \A k \in 1 .. Len(s) + 1 : k = 1 \/ (k - 1 \in 1 .. Len(s) /\ t[k] = s[k - 1])
    BY <1>1, <2>2
  <2>6. Len(t) = Len(s) + 1
    BY <1>1, <2>2
  <2>7. RowsOf(t) \subseteq RowsOf(s) \cup {x}
    BY <2>3, <2>5, <2>6 DEF RowsOf
  <2>8. RowsOf(s) \cup {x} \subseteq RowsOf(t)
    BY <2>3, <2>4, <2>6 DEF RowsOf
  <2>9. QED
    BY <2>2, <2>6, <2>7, <2>8 DEF AddedTo
<1>4. QED
  BY <1>2, <1>3

DraftColumns == {"state", "of", "text", "approved", "changed", "pack"}
Row == [draft : Draft, of : DraftKind, given : BOOLEAN, recorded : BOOLEAN]
OnFile(d) == draft[d].state # "absent"

DraftShaped ==
  /\ DOMAIN draft = Draft
  /\ \A d \in Draft :
       \/ draft[d] = NoDraft
       \/ DOMAIN draft[d] = DraftColumns /\ draft[d].state \in {"live", "archived"}

ApprovalShaped == approval \in Seq(Row) /\ Len(approval) <= MaxApprovals

\* An approval is of a draft that is there.
RowsOnFile == \A w \in RowsOf(approval) : OnFile(w.draft)

GivenTo(d) == \E w \in RowsOf(approval) : w.draft = d /\ w.given

\* The text of an approved draft was seen by whoever approved it, unless it changed since.
SeenText ==
  \A d \in Draft :
    OnFile(d) /\ GivenTo(d) /\ ~draft[d].changed => draft[d].text \in draft[d].approved

\* An approval that nobody recorded by hand is of the kind that was drafted.
RowsDrafted == \A w \in RowsOf(approval) : w.recorded \/ draft[w.draft].of = w.of

Papers == DraftShaped /\ ApprovalShaped /\ RowsOnFile /\ SeenText /\ RowsDrafted

LEMMA ApprovedGiven ==
  ASSUME ApprovalShaped, NEW d
  PROVE  Approved(d) <=> GivenTo(d)
<1>1. DOMAIN approval = 1 .. Len(approval)
  BY LenProperties DEF ApprovalShaped
<1>2. QED
  BY <1>1 DEF Approved, GivenTo, RowsOf

\* Nothing that is on file leaves it, and what was approved stays approved.
Growth ==
  \A d \in Draft :
    /\ OnFile(d) => /\ OnFile(d)' /\ draft[d].approved \subseteq draft'[d].approved
                    /\ draft'[d].of = draft[d].of
    /\ GivenTo(d) => GivenTo(d)'

LEMMA RowsOfDrafts ==
  ASSUME ApprovalShaped, NEW w \in RowsOf(approval)
  PROVE  w \in Row /\ w.draft \in Draft
<1>1. w \in Row
  BY ElementOfSeq DEF ApprovalShaped, RowsOf
<1>2. QED
  BY <1>1 DEF Row

LEMMA RowsDraftedKept ==
  ASSUME Papers, Growth, NEW x, RowsOf(approval') \subseteq RowsOf(approval) \cup {x},
         x \in RowsOf(approval) \/ x.recorded \/ draft'[x.draft].of = x.of
  PROVE  RowsDrafted'
<1> SUFFICES ASSUME NEW w \in RowsOf(approval')
             PROVE  w.recorded \/ draft'[w.draft].of = w.of
  BY DEF RowsDrafted, RowsOf
<1>1. CASE w \in RowsOf(approval)
  <2>1. w.draft \in Draft
    BY <1>1, RowsOfDrafts DEF Papers
  <2>2. OnFile(w.draft) /\ (w.recorded \/ draft[w.draft].of = w.of)
    BY <1>1 DEF Papers, RowsOnFile, RowsDrafted
  <2>3. QED
    BY <2>1, <2>2 DEF Growth
<1>2. CASE w \notin RowsOf(approval)
  BY <1>2
<1>3. QED
  BY <1>1, <1>2

LEMMA PapersUnchanged ==
  ASSUME Papers, draft' = draft, approval' = approval
  PROVE  Papers' /\ Growth
<1>1. DraftShaped'
  BY DEF Papers, DraftShaped
<1>2. ApprovalShaped'
  BY DEF Papers, ApprovalShaped
<1>3. RowsOnFile'
  BY DEF Papers, RowsOnFile, OnFile
<1>4. SeenText'
  BY DEF Papers, SeenText, OnFile, GivenTo
<1>5. RowsDrafted'
  BY DEF Papers, RowsDrafted
<1>6. QED
  BY <1>1, <1>2, <1>3, <1>4, <1>5 DEF Papers, Growth, OnFile, GivenTo

LEMMA PapersStored ==
  ASSUME Papers, RequestsShaped, NEW r \in Request, NEW t \in Text, StoreDraft(r, t)
  PROVE  Papers' /\ Growth
<1> DEFINE q == req[r]
           d == q.at
           new == [state |-> "live", of |-> q.of, text |-> t, approved |-> {}, changed |-> FALSE,
                   pack |-> IF q.of = "iht400_draft"
                            THEN [forms |-> q.forms, assets |-> q.assets,
                                  current |-> q.current, whole |-> q.whole]
                            ELSE Null]
           row == [draft |-> d, of |-> q.of, given |-> FALSE, recorded |-> FALSE]
<1>1. Shape(q) /\ q.kind = "draft"
  BY DEF RequestsShaped, StoreDraft
<1>2. d \in Draft /\ q.of \in DraftKind
  BY <1>1 DEF Shape
<1>3. /\ ~OnFile(d) /\ Len(approval) < MaxApprovals /\ DOMAIN draft' = Draft
      /\ \A e \in Draft : draft'[e] = IF e = d THEN new ELSE draft[e]
  BY DEF StoreDraft, Papers, DraftShaped, OnFile
<1>4. approval' = <<row>> \o approval
  BY DEF StoreDraft
<1>5. DOMAIN new = DraftColumns /\ new.state = "live" /\ new.of = row.of
  BY DEF DraftColumns
<1>6. row \in Row /\ row.draft = d /\ row.given = FALSE
  BY <1>2 DEF Row
<1> HIDE DEF q, d, new, row
<1>7. /\ approval' \in Seq(Row) /\ Len(approval') = Len(approval) + 1
      /\ RowsOf(approval)' = RowsOf(approval) \cup {row}
  <2>1. approval \in Seq(Row)
    BY DEF Papers, ApprovalShaped
  <2>2. AddedTo(Row, approval, row, approval')
    BY <1>4, <1>6, <2>1, AddedRow
  <2>3. RowsOf(approval)' = RowsOf(approval')
    BY DEF RowsOf
  <2>4. QED
    BY <2>2, <2>3 DEF AddedTo
<1>8. DraftShaped'
  BY <1>3, <1>5 DEF Papers, DraftShaped
<1>9. ApprovalShaped'
  <2>1. Len(approval) \in Nat
    BY LenProperties DEF Papers, ApprovalShaped
  <2>2. QED
    BY <1>3, <1>7, <2>1, PaperworkAssumption DEF ApprovalShaped
<1>10. \A w \in RowsOf(approval) : w.draft \in Draft /\ OnFile(w.draft) /\ w.draft # d
  <2>1. \A w \in RowsOf(approval) : w \in Row
    BY ElementOfSeq DEF Papers, ApprovalShaped, RowsOf
  <2>2. QED
    BY <1>3, <2>1 DEF Papers, RowsOnFile, Row
<1>11. RowsOnFile'
  BY <1>2, <1>3, <1>5, <1>6, <1>7, <1>10 DEF RowsOnFile, OnFile
<1>12. \A e \in Draft : GivenTo(e)' <=> GivenTo(e)
  BY <1>6, <1>7 DEF GivenTo
<1>13. ~GivenTo(d)
  BY <1>10 DEF GivenTo
<1>14. SeenText'
  BY <1>3, <1>12, <1>13 DEF Papers, SeenText, OnFile
<1>15. Growth
  BY <1>3, <1>12 DEF Growth, OnFile
<1>16. RowsDrafted'
  <2>1. RowsOf(approval') \subseteq RowsOf(approval) \cup {row}
    BY <1>7 DEF RowsOf
  <2>2. draft'[row.draft].of = row.of
    BY <1>2, <1>3, <1>5, <1>6
  <2>3. QED
    BY <1>15, <2>1, <2>2, RowsDraftedKept
<1>17. QED
  BY <1>8, <1>9, <1>11, <1>14, <1>15, <1>16 DEF Papers

LEMMA PapersUploaded ==
  ASSUME Papers, NEW d \in Draft, NEW t, UploadVersion(d, t) \/ ArchiveDraft(d)
  PROVE  Papers' /\ Growth
<1> DEFINE old == draft[d]
           new == draft'[d]
<1>1. /\ approval' = approval /\ old.state = "live" /\ DOMAIN draft' = Draft
      /\ \A e \in Draft : e # d => draft'[e] = draft[e]
  BY DEF UploadVersion, ArchiveDraft, Papers, DraftShaped
<1>2. new = [old EXCEPT !.text = t, !.changed = TRUE] \/ new = [old EXCEPT !.state = "archived"]
  BY DEF UploadVersion, ArchiveDraft, Papers, DraftShaped
<1>3. DOMAIN old = DraftColumns
  BY <1>1 DEF Papers, DraftShaped, NoDraft
<1> HIDE DEF old, new
<1>4. /\ DOMAIN new = DraftColumns /\ new.state \in {"live", "archived"}
      /\ new.approved = old.approved /\ new.of = old.of
      /\ ~new.changed => ~old.changed /\ new.text = old.text
  BY <1>1, <1>2, <1>3 DEF DraftColumns
<1>5. \A e : GivenTo(e)' <=> GivenTo(e)
  BY <1>1 DEF GivenTo
<1>6. DraftShaped'
  BY <1>1, <1>4 DEF Papers, DraftShaped, new
<1>7. \A e \in Draft : OnFile(e) => OnFile(e)'
  BY <1>1, <1>4 DEF OnFile, new
<1>8. RowsOnFile'
  <2>1. \A w \in RowsOf(approval) : w.draft \in Draft
    BY RowsOfDrafts DEF Papers
  <2>2. QED
    BY <1>1, <1>7, <2>1 DEF Papers, RowsOnFile, OnFile
<1>9. SeenText'
  BY <1>1, <1>4, <1>5 DEF Papers, SeenText, OnFile, new, old
<1>10. Growth
  BY <1>1, <1>4, <1>5, <1>7 DEF Growth, new, old
<1>11. RowsDrafted'
  <2>1. \A w \in RowsOf(approval) : w.draft \in Draft
    BY RowsOfDrafts DEF Papers
  <2>2. \A e \in Draft : draft'[e].of = draft[e].of
    BY <1>1, <1>4 DEF new, old
  <2>3. QED
    BY <1>1, <2>1, <2>2 DEF Papers, RowsDrafted
<1>12. QED
  BY <1>1, <1>6, <1>8, <1>9, <1>10, <1>11 DEF Papers, ApprovalShaped

\* A draft is approved as it is.
LEMMA PapersSeen ==
  ASSUME Papers, NEW d \in Draft, OnFile(d), Seen(d), ApprovalShaped',
         NEW x, x.draft = d, x.given = TRUE, x \in RowsOf(approval'),
         x.recorded \/ x.of = draft[d].of,
         RowsOf(approval') \subseteq RowsOf(approval) \cup {x},
         \A w \in RowsOf(approval) : w.given => w \in RowsOf(approval')
  PROVE  Papers' /\ Growth
<1> DEFINE old == draft[d]
           new == draft'[d]
<1>1. /\ DOMAIN draft' = Draft /\ \A e \in Draft : e # d => draft'[e] = draft[e]
      /\ new = [old EXCEPT !.approved = @ \cup {old.text}, !.changed = FALSE]
  BY DEF Seen, Papers, DraftShaped
<1>2. DOMAIN old = DraftColumns /\ old.state \in {"live", "archived"}
  BY DEF Papers, DraftShaped, NoDraft, OnFile
<1> HIDE DEF old, new
<1>3. /\ DOMAIN new = DraftColumns /\ new.state = old.state /\ new.text = old.text
      /\ new.of = old.of /\ new.approved = old.approved \cup {old.text}
  BY <1>1, <1>2 DEF DraftColumns
<1>4. DraftShaped'
  BY <1>1, <1>2, <1>3 DEF Papers, DraftShaped, new
<1>5. \A e \in Draft : OnFile(e) => OnFile(e)'
  BY <1>1, <1>2, <1>3 DEF OnFile, new, old
<1>6. RowsOnFile'
  <2>1. \A w \in RowsOf(approval) : w.draft \in Draft
    BY RowsOfDrafts DEF Papers
  <2>2. \A w \in RowsOf(approval') : w.draft \in Draft /\ OnFile(w.draft)
    BY <2>1 DEF Papers, RowsOnFile
  <2>3. QED
    BY <1>5, <2>2 DEF RowsOnFile
<1>7. \A e \in Draft : GivenTo(e) => GivenTo(e)'
  BY DEF GivenTo
<1>8. \A e \in Draft : e # d /\ GivenTo(e)' => GivenTo(e)
  BY DEF GivenTo
<1>9. SeenText'
  <2>1. new.text \in new.approved
    BY <1>3
  <2>2. ASSUME NEW e \in Draft, e # d, OnFile(e)', GivenTo(e)', ~draft'[e].changed
        PROVE  draft'[e].text \in draft'[e].approved
    BY <1>1, <1>8, <2>2 DEF Papers, SeenText, OnFile
  <2>3. QED
    BY <2>1, <2>2 DEF SeenText, new
<1>10. Growth
  BY <1>1, <1>3, <1>5, <1>7 DEF Growth, new, old
<1>11. RowsDrafted'
  <2>1. x.recorded \/ draft'[x.draft].of = x.of
    BY <1>3 DEF new, old
  <2>2. QED
    BY <1>10, <2>1, RowsDraftedKept
<1>12. QED
  BY <1>4, <1>6, <1>9, <1>10, <1>11 DEF Papers

LEMMA PapersApproved ==
  ASSUME Papers, NEW i \in DOMAIN approval, Approve(i)
  PROVE  Papers' /\ Growth
<1> DEFINE d == approval[i].draft
           old == approval[i]
           x == [approval[i] EXCEPT !.given = TRUE]
<1>1. /\ approval \in Seq(Row) /\ i \in 1 .. Len(approval) /\ old \in Row
      /\ old \in RowsOf(approval) /\ Len(approval) <= MaxApprovals
  BY LenProperties, ElementOfSeq DEF Papers, ApprovalShaped, RowsOf
<1>2. d \in Draft /\ OnFile(d)
  BY <1>1 DEF Papers, RowsOnFile, Row
<1>3. /\ x \in Row /\ x.draft = d /\ x.given = TRUE /\ ~old.given
      /\ x.of = old.of /\ x.recorded = old.recorded
  <2>1. ~old.given
    BY DEF Approve
  <2> HIDE DEF old
  <2>2. [old EXCEPT !.given = TRUE] \in Row /\ [old EXCEPT !.given = TRUE].draft = old.draft
        /\ [old EXCEPT !.given = TRUE].given = TRUE
        /\ [old EXCEPT !.given = TRUE].of = old.of
        /\ [old EXCEPT !.given = TRUE].recorded = old.recorded
    BY <1>1 DEF Row
  <2>3. QED
    BY <2>1, <2>2 DEF old
<1>4. approval' = Moved(approval, i, x)
  BY DEF Approve, Moved
<1>5. Seen(d)
  BY DEF Approve
<1>10. x.recorded \/ x.of = draft[d].of
  BY <1>1, <1>3 DEF Papers, RowsDrafted
<1> HIDE DEF d, old, x
<1>6. /\ approval' \in Seq(Row) /\ Len(approval') = Len(approval)
      /\ x \in RowsOf(approval') /\ RowsOf(approval') \subseteq RowsOf(approval) \cup {x}
      /\ RowsOf(approval) \subseteq RowsOf(approval') \cup {approval[i]}
  <2>1. MovedTo(Row, approval, i, x, approval')
    BY <1>1, <1>3, <1>4, MovedRows
  <2>2. QED
    BY <2>1 DEF MovedTo
<1>7. ApprovalShaped'
  BY <1>1, <1>6 DEF ApprovalShaped
<1>8. \A w \in RowsOf(approval) : w.given => w \in RowsOf(approval')
  BY <1>3, <1>6 DEF old
<1>9. QED
  BY <1>2, <1>3, <1>5, <1>6, <1>7, <1>8, <1>10, PapersSeen

LEMMA PapersRecorded ==
  ASSUME Papers, NEW d \in Draft, NEW kind \in {"iht400_draft", "notification_letter"},
         RecordApproval(d, kind)
  PROVE  Papers' /\ Growth
<1> DEFINE x == [draft |-> d, of |-> kind, given |-> TRUE, recorded |-> TRUE]
<1>1. x \in Row /\ x.draft = d /\ x.given = TRUE /\ x.recorded
  BY DEF Row, DraftKind
<1>2. /\ OnFile(d) /\ Seen(d) /\ approval' = Append(approval, x)
      /\ Len(approval) < MaxApprovals
  BY DEF RecordApproval, OnFile
<1> HIDE DEF x
<1>3. approval \in Seq(Row) /\ Len(approval) \in Nat
  BY LenProperties DEF Papers, ApprovalShaped
<1>4. /\ approval' \in Seq(Row) /\ Len(approval') = Len(approval) + 1
      /\ RowsOf(approval') = RowsOf(approval) \cup {x}
  <2>1. AddedTo(Row, approval, x, approval')
    BY <1>1, <1>2, <1>3, AddedRow
  <2>2. QED
    BY <2>1 DEF AddedTo
<1>5. ApprovalShaped'
  BY <1>2, <1>3, <1>4, PaperworkAssumption DEF ApprovalShaped
<1>6. QED
  BY <1>1, <1>2, <1>4, <1>5, PapersSeen

-----------------------------------------------------------------------------

\* What a request has read is as it read it, unless it was told otherwise.
LettersRead ==
  \A r \in Request :
    req[r].kind \in {"letter", "found"} =>
      /\ req[r].at \in Draft /\ OnFile(req[r].at)
      /\ req[r].alone => req[r].text = draft[req[r].at].text

\* A draft that was approved as a pack, by hand or because it was drafted as one.
PackOf(d, recorded) ==
  d \in Draft /\ GivenTo(d) /\ (recorded \/ draft[d].of = "iht400_draft")

PacksGiven ==
  \A r \in Request :
    /\ req[r].kind = "pack" =>
         \A p \in req[r].among : PackOf(p[2].draft, p[2].recorded)
    /\ req[r].kind = "found" => PackOf(req[r].at, req[r].recorded)

LastGood ==
  /\ last.kind \in {"letter", "pack"} =>
       /\ last.draft \in Draft /\ OnFile(last.draft)
       /\ last.asApproved => last.text \in draft[last.draft].approved
  /\ last.kind = "pack" => last.recorded \/ draft[last.draft].of = "iht400_draft"

Exports == Papers /\ RequestsShaped /\ LettersRead /\ PacksGiven /\ LastGood

LEMMA PackOnFile ==
  ASSUME Papers, NEW d, NEW recorded, PackOf(d, recorded)
  PROVE  d \in Draft /\ OnFile(d)
<1>1. PICK w \in RowsOf(approval) : w.draft = d
  BY DEF PackOf, GivenTo
<1>2. QED
  BY <1>1 DEF PackOf, Papers, RowsOnFile

LEMMA PackOfKept ==
  ASSUME Papers, Growth, NEW d, NEW recorded, PackOf(d, recorded)
  PROVE  d \in Draft /\ GivenTo(d)' /\ (recorded \/ draft'[d].of = "iht400_draft")
<1>1. d \in Draft /\ OnFile(d)
  BY PackOnFile
<1>2. QED
  BY <1>1 DEF Growth, PackOf

\* A request that holds something read stays as it is, or learns that it was overtaken.
Kept(q) ==
  \/ req'[q].kind \notin {"letter", "found", "pack"}
  \/ /\ req'[q] = req[q]
     /\ req[q].kind \in {"letter", "found"} =>
          \A d \in Draft : OnFile(d) => draft'[d].text = draft[d].text
  \/ /\ req[q].kind \in {"letter", "found"}
     /\ req'[q].kind = req[q].kind /\ req'[q].alone = FALSE /\ req'[q].at = req[q].at
     /\ req[q].kind = "found" => req'[q].recorded = req[q].recorded

LEMMA LettersKept ==
  ASSUME Exports, Growth, \A q \in Request : Kept(q)
  PROVE  LettersRead'
<1> SUFFICES ASSUME NEW r \in Request, req'[r].kind \in {"letter", "found"}
             PROVE  /\ req'[r].at \in Draft /\ OnFile(req[r].at)'
                    /\ req'[r].alone => req'[r].text = draft'[req'[r].at].text
  BY DEF LettersRead
<1> DEFINE d == req[r].at
<1>1. req[r].kind \in {"letter", "found"} /\ req'[r].at = d
  BY DEF Kept
<1>2. d \in Draft /\ OnFile(d)
  BY <1>1 DEF Exports, LettersRead
<1>3. OnFile(req[r].at)'
  BY <1>1, <1>2 DEF Growth, OnFile
<1>4. req'[r].alone => req'[r] = req[r] /\ draft'[d].text = draft[d].text
  BY <1>2 DEF Kept
<1>5. QED
  BY <1>1, <1>2, <1>3, <1>4 DEF Exports, LettersRead

LEMMA PacksKept ==
  ASSUME Exports, Growth, \A q \in Request : Kept(q)
  PROVE  PacksGiven'
<1>1. ASSUME NEW r \in Request, req'[r].kind = "pack", NEW p \in req'[r].among
      PROVE  PackOf(p[2].draft, p[2].recorded)'
  <2>1. req[r].kind = "pack" /\ req'[r].among = req[r].among
    BY <1>1 DEF Kept
  <2>2. PackOf(p[2].draft, p[2].recorded)
    BY <1>1, <2>1 DEF Exports, PacksGiven
  <2>3. QED
    BY <2>2, PackOfKept DEF Exports, PackOf
<1>2. ASSUME NEW r \in Request, req'[r].kind = "found"
      PROVE  /\ req'[r].at \in Draft /\ GivenTo(req[r].at)'
             /\ req'[r].recorded \/ draft'[req'[r].at].of = "iht400_draft"
  <2>1. PICK d, b : d = req[r].at /\ b = req[r].recorded
    OBVIOUS
  <2>2. req[r].kind = "found" /\ req'[r].at = d /\ req'[r].recorded = b
    BY <1>2, <2>1 DEF Kept
  <2>3. PackOf(d, b)
    BY <2>1, <2>2 DEF Exports, PacksGiven
  <2>4. d \in Draft /\ GivenTo(d)' /\ (b \/ draft'[d].of = "iht400_draft")
    BY <2>3, PackOfKept DEF Exports
  <2>5. GivenTo(req[r].at)' <=> GivenTo(d)'
    BY <2>2 DEF GivenTo
  <2>6. QED
    BY <2>2, <2>4, <2>5
<1>3. QED
  BY <1>1, <1>2 DEF PacksGiven, PackOf

LEMMA ExportsKept ==
  ASSUME Exports, Growth, Papers', RequestsShaped', \A q \in Request : Kept(q), last' = last
  PROVE  Exports'
<1>1. LettersRead' /\ PacksGiven'
  BY LettersKept, PacksKept
<1>2. LastGood'
  BY DEF Exports, LastGood, Growth, OnFile
<1>3. QED
  BY <1>1, <1>2 DEF Exports

LEMMA ExportsAccounts ==
  ASSUME Exports, AccountsNext, UNCHANGED paperVars
  PROVE  Exports'
<1>1. draft' = draft /\ approval' = approval /\ last' = last
  BY DEF paperVars
<1>2. Papers' /\ Growth
  BY <1>1, PapersUnchanged DEF Exports
<1>3. RequestsShaped'
  BY RequestsShapedAccounts DEF Exports
<1>4. \A q \in Request : Kept(q)
  BY <1>1, AccountsLeavePapers DEF Exports, Kept
<1>5. QED
  BY <1>1, <1>2, <1>3, <1>4, ExportsKept

LEMMA SeenKeepsText ==
  ASSUME Papers, NEW d, Seen(d), NEW e \in Draft, OnFile(e)
  PROVE  draft'[e].text = draft[e].text
<1> DEFINE old == draft[e]
<1>1. DOMAIN old = DraftColumns
  BY DEF Papers, DraftShaped, NoDraft, OnFile
<1>2. draft'[e] = old \/ draft'[e] = [old EXCEPT !.approved = @ \cup {old.text}, !.changed = FALSE]
  BY DEF Seen, Papers, DraftShaped
<1> HIDE DEF old
<1>3. draft'[e].text = old.text
  BY <1>1, <1>2 DEF DraftColumns
<1>4. QED
  BY <1>3 DEF old

LEMMA ArchiveKeepsText ==
  ASSUME Papers, NEW d \in Draft, ArchiveDraft(d), NEW e \in Draft, OnFile(e)
  PROVE  draft'[e].text = draft[e].text
<1> DEFINE old == draft[e]
<1>1. DOMAIN old = DraftColumns
  BY DEF Papers, DraftShaped, NoDraft, OnFile
<1>2. draft'[e] = old \/ draft'[e] = [old EXCEPT !.state = "archived"]
  BY DEF ArchiveDraft, Papers, DraftShaped
<1> HIDE DEF old
<1>3. draft'[e].text = old.text
  BY <1>1, <1>2 DEF DraftColumns
<1>4. QED
  BY <1>3 DEF old

LEMMA PacksAreGiven ==
  ASSUME Papers, NEW p \in ApprovedPacks
  PROVE  PackOf(p[2].draft, p[2].recorded)
<1>1. PICK i \in DOMAIN approval : /\ p = <<i, approval[i]>> /\ approval[i].given
                                   /\ approval[i].of = "iht400_draft"
  BY DEF ApprovedPacks
<1>2. DOMAIN approval = 1 .. Len(approval) /\ Len(approval) \in Nat
  BY LenProperties DEF Papers, ApprovalShaped
<1>3. PICK w : w = approval[i] /\ w \in RowsOf(approval)
  BY <1>1, <1>2 DEF RowsOf
<1>4. w.draft \in Draft
  BY <1>3, RowsOfDrafts DEF Papers
<1>5. GivenTo(w.draft)
  BY <1>1, <1>3 DEF GivenTo
<1>6. w.recorded \/ draft[w.draft].of = w.of
  BY <1>3 DEF Papers, RowsDrafted
<1>7. p[2] = w
  BY <1>1, <1>3
<1>8. QED
  BY <1>1, <1>3, <1>4, <1>5, <1>6, <1>7 DEF PackOf

\* An export that is committed: the request is gone, the papers are as they were.
LEMMA ExportsCommitted ==
  ASSUME Exports, RequestsShaped', NEW r \in Request, req' = [req EXCEPT ![r] = Idle],
         draft' = draft, approval' = approval, LastGood'
  PROVE  Exports'
<1>1. Papers' /\ Growth
  BY PapersUnchanged DEF Exports
<1>2. DOMAIN req = Request /\ Idle.kind = "idle"
  BY DEF Exports, RequestsShaped, Idle
<1>3. \A q \in Request : Kept(q)
  BY <1>2 DEF Kept
<1>4. LettersRead' /\ PacksGiven'
  BY <1>1, <1>3, LettersKept, PacksKept
<1>5. QED
  BY <1>1, <1>4 DEF Exports

\* A request that begins and the papers as they were.
LEMMA ExportsBegun ==
  ASSUME Exports, RequestsShaped', NEW r \in Request, NEW new,
         req' = [req EXCEPT ![r] = new], UNCHANGED paperVars,
         new.kind \in {"letter", "found"} =>
           /\ new.at \in Draft /\ OnFile(new.at)
           /\ new.alone => new.text = draft[new.at].text,
         new.kind = "pack" => \A p \in new.among : PackOf(p[2].draft, p[2].recorded),
         new.kind = "found" => PackOf(new.at, new.recorded)
  PROVE  Exports'
<1>1. draft' = draft /\ approval' = approval /\ last' = last
  BY DEF paperVars
<1>2. Papers' /\ Growth
  BY <1>1, PapersUnchanged DEF Exports
<1>3. \A q \in Request : req'[q] = IF q = r THEN new ELSE req[q]
  BY DEF Exports, RequestsShaped
<1>4. LettersRead'
  BY <1>1, <1>3 DEF Exports, LettersRead, OnFile
<1>5. \A d, b : PackOf(d, b) => d \in Draft /\ GivenTo(d)' /\ (b \/ draft'[d].of = "iht400_draft")
  BY <1>2, PackOfKept DEF Exports
<1>6. ASSUME NEW q \in Request, req'[q].kind = "pack", NEW p \in req'[q].among
      PROVE  PackOf(p[2].draft, p[2].recorded)'
  <2>1. PackOf(p[2].draft, p[2].recorded)
    <3>1. CASE q = r
      BY <1>3, <1>6, <3>1
    <3>2. CASE q # r
      BY <1>3, <1>6, <3>2 DEF Exports, PacksGiven
    <3>3. QED
      BY <3>1, <3>2
  <2>2. QED
    BY <1>5, <2>1 DEF PackOf
<1>7. ASSUME NEW q \in Request, req'[q].kind = "found"
      PROVE  /\ req'[q].at \in Draft /\ GivenTo(req[q].at)'
             /\ req'[q].recorded \/ draft'[req'[q].at].of = "iht400_draft"
  <2>1. PICK d, b : d = req'[q].at /\ b = req'[q].recorded
    OBVIOUS
  <2>2. PackOf(d, b)
    <3>1. CASE q = r
      BY <1>3, <1>7, <2>1, <3>1
    <3>2. CASE q # r
      BY <1>3, <1>7, <2>1, <3>2 DEF Exports, PacksGiven
    <3>3. QED
      BY <3>1, <3>2
  <2>3. d \in Draft /\ GivenTo(d)' /\ (b \/ draft'[d].of = "iht400_draft")
    BY <1>5, <2>2
  <2>4. GivenTo(req[q].at)' <=> GivenTo(d)'
    BY <2>1 DEF GivenTo
  <2>5. QED
    BY <2>1, <2>3, <2>4
<1>8. PacksGiven'
  BY <1>6, <1>7 DEF PacksGiven, PackOf
<1>9. LastGood'
  BY <1>1, <1>2 DEF Exports, LastGood, Growth, OnFile
<1>10. QED
  BY <1>2, <1>4, <1>8, <1>9 DEF Exports

LEMMA ExportsPaper ==
  ASSUME Exports, PaperworkNext
  PROVE  Exports'
<1>1. RequestsShaped'
  BY RequestsShapedPaper DEF Exports
<1>2. DOMAIN req = Request /\ \A r \in Request : Shape(req[r])
  BY DEF Exports, RequestsShaped
<1>3. CASE ExportClearance
  <2>1. draft' = draft /\ approval' = approval /\ req' = req
    BY <1>3 DEF ExportClearance
  <2>2. Papers' /\ Growth
    BY <2>1, PapersUnchanged DEF Exports
  <2>3. \A q \in Request : Kept(q)
    BY <2>1 DEF Kept
  <2>4. LettersRead' /\ PacksGiven'
    BY <2>2, <2>3, LettersKept, PacksKept
  <2>6. LastGood'
    <3>1. last'.kind = "clearance"
      BY <1>3 DEF ExportClearance
    <3>2. QED
      BY <3>1 DEF LastGood
  <2>7. QED
    BY <1>1, <2>2, <2>4, <2>6 DEF Exports
<1>4. ASSUME NEW i \in DOMAIN approval, Approve(i)
      PROVE  Exports'
  <2>1. Papers' /\ Growth
    BY <1>4, PapersApproved DEF Exports
  <2>2. req' = req /\ last' = last /\ Seen(approval[i].draft)
    BY <1>4 DEF Approve
  <2>3. \A d \in Draft : OnFile(d) => draft'[d].text = draft[d].text
    BY <2>2, SeenKeepsText DEF Exports
  <2>4. \A q \in Request : Kept(q)
    BY <2>2, <2>3 DEF Kept
  <2>5. QED
    BY <1>1, <2>1, <2>2, <2>4, ExportsKept
<1>5. ASSUME NEW d \in Draft, NEW kind \in {"iht400_draft", "notification_letter"},
             RecordApproval(d, kind)
      PROVE  Exports'
  <2>1. Papers' /\ Growth
    BY <1>5, PapersRecorded DEF Exports
  <2>2. req' = req /\ last' = last /\ Seen(d)
    BY <1>5 DEF RecordApproval
  <2>3. \A e \in Draft : OnFile(e) => draft'[e].text = draft[e].text
    BY <2>2, SeenKeepsText DEF Exports
  <2>4. \A q \in Request : Kept(q)
    BY <2>2, <2>3 DEF Kept
  <2>5. QED
    BY <1>1, <2>1, <2>2, <2>4, ExportsKept
<1>6. ASSUME NEW d \in Draft, NEW t \in Text, UploadVersion(d, t)
      PROVE  Exports'
  <2>1. Papers' /\ Growth
    BY <1>6, PapersUploaded DEF Exports
  <2>2. last' = last
    BY <1>6 DEF UploadVersion
  <2>3. ASSUME NEW q \in Request
        PROVE  Kept(q)
    <3> DEFINE x == req[q]
    <3>1. Shape(x)
      BY <1>2
    <3>2. req'[q] = IF x.kind \in {"letter", "found"} THEN [x EXCEPT !.alone = FALSE] ELSE x
      BY <1>6 DEF UploadVersion
    <3>3. CASE x.kind \in {"letter", "found"}
      <4>1. req'[q] = [x EXCEPT !.alone = FALSE]
        BY <3>2, <3>3
      <4> HIDE DEF x
      <4>2. /\ req'[q].kind = x.kind /\ req'[q].alone = FALSE /\ req'[q].at = x.at
            /\ x.kind = "found" => req'[q].recorded = x.recorded
        BY <3>1, <3>3, <4>1 DEF Shape
      <4>3. QED
        BY <3>3, <4>2 DEF Kept, x
    <3>4. CASE x.kind \notin {"letter", "found"}
      <4>1. req'[q] = x
        BY <3>2, <3>4
      <4>2. QED
        BY <4>1, <3>4 DEF Kept
    <3>5. QED
      BY <3>3, <3>4
  <2>4. QED
    BY <1>1, <2>1, <2>2, <2>3, ExportsKept
<1>7. ASSUME NEW d \in Draft, ArchiveDraft(d)
      PROVE  Exports'
  <2>1. Papers' /\ Growth
    BY <1>7, PapersUploaded DEF Exports
  <2>2. req' = req /\ last' = last
    BY <1>7 DEF ArchiveDraft
  <2>3. \A e \in Draft : OnFile(e) => draft'[e].text = draft[e].text
    BY <1>7, ArchiveKeepsText DEF Exports
  <2>4. \A q \in Request : Kept(q)
    BY <2>2, <2>3 DEF Kept
  <2>5. QED
    BY <1>1, <2>1, <2>2, <2>4, ExportsKept
<1>8. ASSUME NEW r \in Request, NEW t \in Text, StoreDraft(r, t)
      PROVE  Exports'
  <2>1. Papers' /\ Growth
    BY <1>8, PapersStored DEF Exports
  <2>2. req' = [req EXCEPT ![r] = Idle] /\ last' = last
    BY <1>8 DEF StoreDraft
  <2>3. \A e \in Draft : OnFile(e) => draft'[e] = draft[e]
    <3>1. req[r].at \in Draft
      BY <1>2, <1>8 DEF StoreDraft, Shape
    <3>2. ~OnFile(req[r].at) /\ \A e \in Draft : e # req[r].at => draft'[e] = draft[e]
      BY <1>8, <3>1 DEF StoreDraft, OnFile, Exports, Papers, DraftShaped
    <3>3. QED
      BY <3>2
  <2>4. \A q \in Request : Kept(q)
    <3>1. Idle.kind = "idle"
      BY DEF Idle
    <3>2. QED
      BY <1>2, <2>2, <2>3, <3>1 DEF Kept
  <2>5. QED
    BY <1>1, <2>1, <2>2, <2>4, ExportsKept
<1>9. ASSUME NEW r \in Request, NEW d \in Draft, NEW f \in FormCode, BeginForms(r, d, f)
      PROVE  Exports'
  <2>1. PICK new : /\ new = [kind |-> "draft", at |-> d, of |-> "iht400_draft",
                             forms |-> FormsDraft(reg.assets, assessment.codes, f),
                             assets |-> reg.assets,
                             current |-> assessment.assets = reg.assets, whole |-> f = Null]
                   /\ req' = [req EXCEPT ![r] = new]
    BY <1>9 DEF BeginForms
  <2>2. new.kind = "draft" /\ UNCHANGED paperVars
    BY <1>9, <2>1 DEF BeginForms
  <2>3. QED
    BY <1>1, <2>1, <2>2, ExportsBegun
<1>10. ASSUME NEW r \in Request, NEW d \in Draft, BeginLetter(r, d)
       PROVE  Exports'
  <2> DEFINE new == [kind |-> "draft", at |-> d, of |-> "notification_letter"]
  <2>1. req' = [req EXCEPT ![r] = new] /\ UNCHANGED paperVars /\ new.kind = "draft"
    BY <1>10 DEF BeginLetter
  <2> HIDE DEF new
  <2>2. QED
    BY <1>1, <2>1, ExportsBegun
<1>11. ASSUME NEW r \in Request, NEW d \in Draft, BeginNarration(r, d)
       PROVE  Exports'
  <2> DEFINE new == [kind |-> "narrate", at |-> d, attempts |-> 0]
  <2>1. req' = [req EXCEPT ![r] = new] /\ UNCHANGED paperVars /\ new.kind = "narrate"
    BY <1>11 DEF BeginNarration
  <2> HIDE DEF new
  <2>2. QED
    BY <1>1, <2>1, ExportsBegun
<1>12. ASSUME NEW r \in Request, NEW d \in Draft, BeginExportLetter(r, d)
       PROVE  Exports'
  <2> DEFINE new == [kind |-> "letter", at |-> d, text |-> draft[d].text, alone |-> TRUE]
  <2>1. /\ req' = [req EXCEPT ![r] = new] /\ UNCHANGED paperVars
        /\ new.kind = "letter" /\ new.at = d /\ new.text = draft[d].text /\ OnFile(d)
    BY <1>12 DEF BeginExportLetter, OnFile
  <2> HIDE DEF new
  <2>2. QED
    BY <1>1, <2>1, ExportsBegun
<1>13. ASSUME NEW r \in Request, NEW valid \in BOOLEAN, Narrate(r, valid)
       PROVE  Exports'
  <2> DEFINE q == req[r]
             n == q.attempts + 1
             new == IF valid \/ n >= MaxDraftAttempts
                    THEN [kind |-> "draft", at |-> q.at, of |-> "iht_narration",
                          validated |-> valid]
                    ELSE [q EXCEPT !.attempts = n]
  <2>1. Shape(q) /\ q.kind = "narrate"
    BY <1>2, <1>13 DEF Narrate
  <2>2. req' = [req EXCEPT ![r] = new] /\ UNCHANGED paperVars
    BY <1>13 DEF Narrate
  <2> HIDE DEF q, n
  <2>3. new.kind \in {"draft", "narrate"}
    BY <2>1 DEF Shape
  <2> HIDE DEF new
  <2>4. QED
    BY <1>1, <2>2, <2>3, ExportsBegun
<1>14. ASSUME NEW r \in Request, BeginExportPack(r)
       PROVE  Exports'
  <2> DEFINE new == [kind |-> "pack", among |-> ApprovedPacks]
  <2>1. /\ req' = [req EXCEPT ![r] = new] /\ UNCHANGED paperVars
        /\ new.kind = "pack" /\ new.among = ApprovedPacks
    BY <1>14 DEF BeginExportPack
  <2> HIDE DEF new
  <2>2. \A p \in ApprovedPacks : PackOf(p[2].draft, p[2].recorded)
    BY PacksAreGiven DEF Exports
  <2>3. QED
    BY <1>1, <2>1, <2>2, ExportsBegun
<1>15. ASSUME NEW r \in Request, BeginExportAccounts(r)
       PROVE  Exports'
  <2> DEFINE new == [kind |-> "accounts"]
  <2>1. req' = [req EXCEPT ![r] = new] /\ UNCHANGED paperVars /\ new.kind = "accounts"
    BY <1>15 DEF BeginExportAccounts
  <2> HIDE DEF new
  <2>2. QED
    BY <1>1, <2>1, ExportsBegun
<1>16. ASSUME NEW r \in Request, CommitExportLetter(r)
       PROVE  Exports'
  <2> DEFINE q == req[r]
             d == q.at
             e == [kind |-> "letter", draft |-> q.at, text |-> q.text,
                   asApproved |-> q.alone /\ ~draft[q.at].changed]
  <2>1. /\ q.kind = "letter" /\ Approved(d) /\ last' = e
        /\ req' = [req EXCEPT ![r] = Idle] /\ draft' = draft /\ approval' = approval
    BY <1>16 DEF CommitExportLetter
  <2>2. /\ e.kind = "letter" /\ e.draft = d /\ e.text = q.text
        /\ e.asApproved = (q.alone /\ ~draft[d].changed)
    OBVIOUS
  <2>3. d \in Draft
    BY <1>2, <2>1 DEF Shape
  <2>4. OnFile(d) /\ (q.alone => q.text = draft[d].text)
    BY <2>1 DEF Exports, LettersRead
  <2>5. GivenTo(d)
    BY <2>1, ApprovedGiven DEF Exports, Papers
  <2> HIDE DEF q, d, e
  <2>6. e.asApproved => e.text \in draft[d].approved
    BY <2>2, <2>3, <2>4, <2>5 DEF Exports, Papers, SeenText
  <2>7. LastGood'
    BY <2>1, <2>2, <2>3, <2>4, <2>6 DEF LastGood, OnFile
  <2>8. QED
    BY <1>1, <2>1, <2>7, ExportsCommitted
<1>17. ASSUME NEW r \in Request, CommitExportPack(r)
       PROVE  Exports'
  <2> DEFINE q == req[r]
             d == q.at
             e == [kind |-> "pack", draft |-> q.at, text |-> q.text, recorded |-> q.recorded,
                   asApproved |-> q.alone /\ ~draft[q.at].changed]
  <2>1. /\ q.kind = "found" /\ last' = e
        /\ req' = [req EXCEPT ![r] = Idle] /\ draft' = draft /\ approval' = approval
    BY <1>17 DEF CommitExportPack
  <2>2. /\ e.kind = "pack" /\ e.draft = d /\ e.text = q.text /\ e.recorded = q.recorded
        /\ e.asApproved = (q.alone /\ ~draft[d].changed)
    OBVIOUS
  <2>3. d \in Draft /\ OnFile(d) /\ (q.alone => q.text = draft[d].text)
    BY <2>1 DEF Exports, LettersRead
  <2>4. GivenTo(d) /\ (q.recorded \/ draft[d].of = "iht400_draft")
    BY <2>1 DEF Exports, PacksGiven, PackOf
  <2> HIDE DEF q, d, e
  <2>5. e.asApproved => e.text \in draft[d].approved
    BY <2>2, <2>3, <2>4 DEF Exports, Papers, SeenText
  <2>6. LastGood'
    BY <2>1, <2>2, <2>3, <2>4, <2>5 DEF LastGood, OnFile
  <2>7. QED
    BY <1>1, <2>1, <2>6, ExportsCommitted
<1>18. ASSUME NEW r \in Request, CommitExportAccounts(r)
       PROVE  Exports'
  <2>1. /\ last' = [kind |-> "accounts", listed |-> LiveLegacies]
        /\ req' = [req EXCEPT ![r] = Idle] /\ draft' = draft /\ approval' = approval
    BY <1>18 DEF CommitExportAccounts
  <2>2. last'.kind = "accounts"
    BY <2>1
  <2>3. LastGood'
    BY <2>2 DEF LastGood
  <2>4. QED
    BY <1>1, <2>1, <2>3, ExportsCommitted
<1>19. ASSUME NEW r \in Request, LookAtDraft(r)
       PROVE  Exports'
  <2> DEFINE q == req[r]
  <2>1. Shape(q) /\ q.kind = "pack" /\ UNCHANGED paperVars
    BY <1>2, <1>19 DEF LookAtDraft
  <2>2. PICK p \in q.among :
          \/ req' = [req EXCEPT ![r] = [q EXCEPT !.among = q.among \ {p}]]
          \/ req' = [req EXCEPT ![r] = [kind |-> "found", at |-> p[2].draft,
                                        text |-> draft[p[2].draft].text,
                                        recorded |-> p[2].recorded, alone |-> TRUE]]
    BY <1>19 DEF LookAtDraft
  <2>3. \A k \in q.among : PackOf(k[2].draft, k[2].recorded)
    BY <2>1 DEF Exports, PacksGiven
  <2>4. CASE req' = [req EXCEPT ![r] = [q EXCEPT !.among = q.among \ {p}]]
    <3> DEFINE new == [q EXCEPT !.among = q.among \ {p}]
    <3>1. req' = [req EXCEPT ![r] = new]
      BY <2>4
    <3> HIDE DEF q
    <3>2. new.kind = "pack" /\ new.among = q.among \ {p}
      BY <2>1 DEF Shape
    <3> HIDE DEF new
    <3>3. QED
      BY <1>1, <2>1, <2>3, <3>1, <3>2, ExportsBegun
  <2>5. CASE req' = [req EXCEPT ![r] = [kind |-> "found", at |-> p[2].draft,
                                        text |-> draft[p[2].draft].text,
                                        recorded |-> p[2].recorded, alone |-> TRUE]]
    <3> DEFINE new == [kind |-> "found", at |-> p[2].draft, text |-> draft[p[2].draft].text,
                       recorded |-> p[2].recorded, alone |-> TRUE]
    <3>1. req' = [req EXCEPT ![r] = new]
      BY <2>5
    <3>2. /\ new.kind = "found" /\ new.at = p[2].draft /\ new.recorded = p[2].recorded
          /\ new.text = draft[p[2].draft].text
      OBVIOUS
    <3> HIDE DEF q, new
    <3>3. PackOf(new.at, new.recorded)
      BY <2>3, <3>2
    <3>4. new.at \in Draft /\ OnFile(new.at)
      BY <3>3, PackOnFile DEF Exports
    <3>5. QED
      BY <1>1, <2>1, <3>1, <3>2, <3>3, <3>4, ExportsBegun
  <2>6. QED
    BY <2>2, <2>4, <2>5
<1>20. QED
  BY <1>3, <1>4, <1>5, <1>6, <1>7, <1>8, <1>9, <1>10, <1>11, <1>12, <1>13, <1>14, <1>15,
     <1>16, <1>17, <1>18, <1>19 DEF PaperworkNext

LEMMA ExportsInvariant == Spec => []Exports
<1>1. Init => Exports
  <2> SUFFICES ASSUME Init PROVE Exports
    OBVIOUS
  <2>1. DOMAIN req = Request /\ \A r \in Request : req[r] = Idle
    BY DEF Init
  <2>2. Shape(Idle) /\ Idle.kind = "idle"
    BY DEF Shape, Idle
  <2>3. RequestsShaped /\ LettersRead /\ PacksGiven
    BY <2>1, <2>2 DEF RequestsShaped, LettersRead, PacksGiven
  <2>4. DraftShaped /\ \A d \in Draft : ~OnFile(d)
    BY DEF Init, DraftShaped, OnFile, NoDraft
  <2>5. approval = <<>> /\ Len(approval) = 0 /\ approval \in Seq(Row)
    BY EmptySeq DEF Init
  <2>6. ApprovalShaped
    BY <2>5, PaperworkAssumption DEF ApprovalShaped
  <2>7. RowsOf(approval) = {}
    BY <2>5 DEF RowsOf
  <2>8. RowsOnFile /\ SeenText /\ RowsDrafted
    BY <2>4, <2>7 DEF RowsOnFile, SeenText, RowsDrafted
  <2>9. LastGood
    BY DEF Init, NoExport, LastGood
  <2>10. QED
    BY <2>3, <2>4, <2>6, <2>8, <2>9 DEF Exports, Papers
<1>2. Exports /\ [Next]_vars => Exports'
  <2> SUFFICES ASSUME Exports, [Next]_vars PROVE Exports'
    OBVIOUS
  <2>1. CASE UNCHANGED vars
    <3>1. draft' = draft /\ approval' = approval /\ last' = last /\ req' = req
      BY <2>1 DEF vars, paperVars
    <3>2. Papers' /\ Growth
      BY <3>1, PapersUnchanged DEF Exports
    <3>3. RequestsShaped' /\ \A q \in Request : Kept(q)
      BY <3>1 DEF Exports, RequestsShaped, Kept
    <3>4. QED
      BY <3>1, <3>2, <3>3, ExportsKept
  <2>2. QED
    BY <2>1, ExportsAccounts, ExportsPaper DEF Next, Quiet
<1>3. QED
  BY <1>1, <1>2, PTL DEF Spec

\* What an export says is what the records said: the text of an exported letter or pack
\* was approved, and what is exported as a pack was drafted or recorded as one.
THEOREM ExportsSayWhatIsOnRecord == Spec => []ExportsMatchRecords
<1>1. Exports => ExportsMatchRecords
  BY DEF Exports, LastGood, ExportsMatchRecords
<1>2. QED
  BY <1>1, ExportsInvariant, PTL

-----------------------------------------------------------------------------
(* The packs.                                                              *)

\* A pack of forms lists the assets on their schedules.
Lists(p) ==
  p.whole /\ p.current =>
    \A a \in p.assets : a.schedule # Null /\ a.override = Null =>
      {f \in DOMAIN p.forms : a \in p.forms[f]} = {a.schedule}

\* A snapshot requires the schedules of the assets it was taken of.
SnapshotCodes == assessment # Null => assessment.codes = Codes(assessment.assets)

PacksDrafted ==
  \A r \in Request : req[r].kind = "draft" /\ req[r].of = "iht400_draft" => Lists(req[r])

PacksStored == \A d \in Draft : OnFile(d) /\ draft[d].pack # Null => Lists(draft[d].pack)

Packs ==
  /\ RequestsShaped /\ DraftShaped /\ reg \in Registers
  /\ SnapshotCodes /\ PacksDrafted /\ PacksStored

\* A whole pack of the registers that the assessment was taken of.
LEMMA FormsList ==
  ASSUME NEW assets, \A a \in assets : a.schedule # MainForm, NEW f, NEW p,
         DOMAIN p.forms = Forms(Codes(assets), Null), p.assets = assets,
         \A g \in DOMAIN p.forms :
           p.forms[g] = IF g = MainForm THEN {} ELSE {a \in assets : ScheduleFor(a) = g}
  PROVE  Lists(p)
<1> SUFFICES ASSUME NEW a \in assets, a.schedule # Null, a.override = Null
             PROVE  {g \in DOMAIN p.forms : a \in p.forms[g]} = {a.schedule}
  BY DEF Lists
<1>1. ScheduleFor(a) = a.schedule /\ a.schedule # MainForm
  BY DEF ScheduleFor
<1>2. a.schedule \in DOMAIN p.forms
  BY DEF Forms, Codes
<1>3. ASSUME NEW g \in DOMAIN p.forms
      PROVE  a \in p.forms[g] <=> g = a.schedule
  BY <1>1
<1>4. QED
  BY <1>2, <1>3

LEMMA PacksFrame ==
  ASSUME Packs, RequestsShaped', DraftShaped', reg' \in Registers, SnapshotCodes',
         \A r \in Request : \/ req'[r] = req[r]
                            \/ ~(req'[r].kind = "draft" /\ req'[r].of = "iht400_draft")
                            \/ Lists(req'[r]),
         \A d \in Draft : OnFile(d)' => (OnFile(d) /\ draft'[d].pack = draft[d].pack)
                                        \/ draft'[d].pack = Null \/ Lists(draft'[d].pack)
  PROVE  Packs'
<1>1. PacksDrafted'
  <2> SUFFICES ASSUME NEW r \in Request, req'[r].kind = "draft", req'[r].of = "iht400_draft"
               PROVE  Lists(req'[r])
    BY DEF PacksDrafted, Lists
  <2>1. req'[r] = req[r] \/ Lists(req'[r])
    OBVIOUS
  <2>2. QED
    BY <2>1 DEF Packs, PacksDrafted
<1>2. PacksStored'
  <2> SUFFICES ASSUME NEW d \in Draft, OnFile(d)', draft'[d].pack # Null
               PROVE  Lists(draft'[d].pack)
    BY DEF PacksStored, Lists
  <2>1. (OnFile(d) /\ draft'[d].pack = draft[d].pack) \/ Lists(draft'[d].pack)
    OBVIOUS
  <2>2. QED
    BY <2>1 DEF Packs, PacksStored
<1>3. QED
  BY <1>1, <1>2 DEF Packs

LEMMA PacksUntouched ==
  ASSUME Packs, RequestsShaped', draft' = draft, reg' \in Registers, SnapshotCodes',
         \A r \in Request : \/ req'[r] = req[r]
                            \/ ~(req'[r].kind = "draft" /\ req'[r].of = "iht400_draft")
                            \/ Lists(req'[r])
  PROVE  Packs'
<1>1. DraftShaped'
  BY DEF Packs, DraftShaped
<1>2. \A d \in Draft : OnFile(d)' => OnFile(d) /\ draft'[d].pack = draft[d].pack
  BY DEF OnFile
<1>3. QED
  BY <1>1, <1>2, PacksFrame

LEMMA PacksAccounts ==
  ASSUME Packs, AccountsNext, UNCHANGED paperVars
  PROVE  Packs'
<1>1. RequestsShaped' /\ draft' = draft
  BY RequestsShapedAccounts DEF Packs, paperVars
<1>2. \A r \in Request : req'[r] = req[r] \/ req'[r].kind # "draft"
  BY AccountsLeavePapers DEF Packs
<1>3. reg' \in Registers /\ SnapshotCodes'
  <2>1. CASE UNCHANGED <<reg, assessment>>
    BY <2>1 DEF Packs, SnapshotCodes, Codes
  <2>2. ASSUME NEW contents \in Registers, UpdateRegisters(contents)
        PROVE  reg' \in Registers /\ SnapshotCodes'
    BY <2>2 DEF UpdateRegisters, Packs, SnapshotCodes, Codes
  <2>3. ASSUME NEW tax \in Tax, Recompute(tax)
        PROVE  reg' \in Registers /\ SnapshotCodes'
    <3>1. /\ reg' = reg
          /\ assessment' = [tax |-> tax, codes |-> Codes(reg.assets), assets |-> reg.assets]
      BY <2>3 DEF Recompute, Snapshot
    <3>2. assessment'.codes = Codes(reg.assets) /\ assessment'.assets = reg.assets
      BY <3>1
    <3>3. assessment'.codes = Codes(assessment'.assets)
      BY <3>2
    <3>4. QED
      BY <3>1, <3>3 DEF Packs, SnapshotCodes, Codes
  <2>4. CASE \/ \E l \in Legacy, c \in Contact, t \in Terms :
                  CreateLegacy(l, c, t) \/ UpdateLegacy(l, c, t)
             \/ \E r \in Request : \/ Rollback(r) \/ CommitPay(r) \/ CommitArchive(r)
                                   \/ \E l \in Legacy, n \in Payment : BeginPay(r, l, n)
                                   \/ \E l \in Legacy : BeginArchive(r, l)
    <3>1. UNCHANGED <<reg, assessment>>
      BY <2>4 DEF CreateLegacy, UpdateLegacy, Rollback, CommitPay, CommitArchive, BeginPay,
                  BeginArchive, accountVars
    <3>2. QED
      BY <2>1, <3>1
  <2>5. QED
    BY <2>2, <2>3, <2>4 DEF AccountsNext
<1>4. QED
  BY <1>1, <1>2, <1>3, PacksUntouched

\* A form of a draft request is what FormsDraft makes of the assets and the snapshot.
LEMMA BegunLists ==
  ASSUME Packs, assessment # Null, NEW wanted, NEW d,
         NEW q, q = [kind |-> "draft", at |-> d, of |-> "iht400_draft",
                     forms |-> FormsDraft(reg.assets, assessment.codes, wanted),
                     assets |-> reg.assets, current |-> assessment.assets = reg.assets,
                     whole |-> wanted = Null]
  PROVE  Lists(q)
<1>1. CASE ~(q.whole /\ q.current)
  BY <1>1 DEF Lists
<1>2. CASE q.whole /\ q.current
  <2>1. wanted = Null /\ assessment.assets = reg.assets
    BY <1>2
  <2>2. assessment.codes = Codes(reg.assets)
    BY <2>1 DEF Packs, SnapshotCodes
  <2> DEFINE A == reg.assets
  <2>3. q.assets = A /\ q.forms = FormsDraft(A, Codes(A), Null)
    BY <2>1, <2>2
  <2>4. \A a \in A : a.schedule # MainForm
    BY AccountsAssumption DEF Packs
  <2> HIDE DEF A
  <2>5. /\ DOMAIN q.forms = Forms(Codes(A), Null)
        /\ \A g \in DOMAIN q.forms :
             q.forms[g] = IF g = MainForm THEN {} ELSE {a \in A : ScheduleFor(a) = g}
    BY <2>3 DEF FormsDraft
  <2>6. QED
    BY <2>3, <2>4, <2>5, FormsList
<1>3. QED
  BY <1>1, <1>2

LEMMA PacksPaper ==
  ASSUME Packs, Papers, Papers', PaperworkNext
  PROVE  Packs'
<1>1. RequestsShaped' /\ UNCHANGED <<reg, assessment>>
  BY RequestsShapedPaper, PaperLeavesAccounts DEF Packs
<1>2. reg' \in Registers /\ SnapshotCodes'
  BY <1>1 DEF Packs, SnapshotCodes, Codes
<1>3. DOMAIN req = Request /\ \A r \in Request : Shape(req[r])
  BY DEF Packs, RequestsShaped
<1>4. ASSUME NEW r \in Request, NEW new, req' = [req EXCEPT ![r] = new], draft' = draft,
             ~(new.kind = "draft" /\ new.of = "iht400_draft") \/ Lists(new)
      PROVE  Packs'
  <2>1. \A q \in Request : \/ req'[q] = req[q]
                           \/ ~(req'[q].kind = "draft" /\ req'[q].of = "iht400_draft")
                           \/ Lists(req'[q])
    <3> SUFFICES ASSUME NEW q \in Request
                 PROVE  \/ req'[q] = req[q]
                        \/ ~(req'[q].kind = "draft" /\ req'[q].of = "iht400_draft")
                        \/ Lists(req'[q])
      OBVIOUS
    <3>1. req'[q] = new \/ req'[q] = req[q]
      BY <1>3, <1>4
    <3>2. QED
      BY <1>4, <3>1
  <2>2. QED
    BY <1>1, <1>2, <1>4, <2>1, PacksUntouched
<1>5. CASE req' = req /\ draft' = draft
  BY <1>1, <1>2, <1>5, PacksUntouched
\* A change of the file or of the approval leaves the pack.
<1>6. ASSUME NEW d, \A e \in Draft : draft'[e] = draft[e] \/ e = d,
             \/ \E t : draft'[d] = [draft[d] EXCEPT !.text = t, !.changed = TRUE]
             \/ draft'[d] = [draft[d] EXCEPT !.state = "archived"]
             \/ \E S : draft'[d] = [draft[d] EXCEPT !.approved = S, !.changed = FALSE],
             OnFile(d), d \in Draft,
             \A r \in Request : req'[r] = req[r] \/ req'[r].kind # "draft"
      PROVE  Packs'
  <2> DEFINE old == draft[d]
  <2>1. DOMAIN old = DraftColumns
    <3>1. OnFile(d) /\ d \in Draft
      BY <1>6
    <3>2. QED
      BY <3>1 DEF Packs, DraftShaped, NoDraft, OnFile
  <2>2. \/ \E t : draft'[d] = [old EXCEPT !.text = t, !.changed = TRUE]
        \/ draft'[d] = [old EXCEPT !.state = "archived"]
        \/ \E S : draft'[d] = [old EXCEPT !.approved = S, !.changed = FALSE]
    BY <1>6
  <2> HIDE DEF old
  <2>3. draft'[d].pack = old.pack
    BY <2>1, <2>2 DEF DraftColumns
  <2>4. \A e \in Draft : OnFile(e)' => OnFile(e) /\ draft'[e].pack = draft[e].pack
    BY <1>6, <2>3 DEF OnFile, old
  <2>5. QED
    BY <1>1, <1>2, <1>6, <2>4, PacksFrame DEF Papers
<1>7. ASSUME NEW d \in Draft, OnFile(d), Seen(d), req' = req
      PROVE  Packs'
  <2>1. /\ \A e \in Draft : draft'[e] = draft[e] \/ e = d
        /\ draft'[d] = [draft[d] EXCEPT !.approved = draft[d].approved \cup {draft[d].text},
                                        !.changed = FALSE]
    BY <1>7 DEF Seen, Packs, DraftShaped
  <2>2. QED
    BY <1>6, <1>7, <2>1
<1>8. ASSUME NEW i \in DOMAIN approval, Approve(i)
      PROVE  Packs'
  <2>1. i \in 1 .. Len(approval)
    BY LenProperties DEF Papers, ApprovalShaped
  <2>2. approval[i] \in RowsOf(approval)
    BY <2>1 DEF RowsOf
  <2>3. approval[i].draft \in Draft /\ OnFile(approval[i].draft)
    BY <2>2, RowsOfDrafts DEF Papers, RowsOnFile
  <2>4. QED
    BY <1>7, <1>8, <2>3 DEF Approve
<1>9. ASSUME NEW d \in Draft, NEW kind \in {"iht400_draft", "notification_letter"},
             RecordApproval(d, kind)
      PROVE  Packs'
  BY <1>7, <1>9 DEF RecordApproval, OnFile
<1>10. ASSUME NEW d \in Draft, NEW t \in Text, UploadVersion(d, t)
       PROVE  Packs'
  <2>1. ASSUME NEW r \in Request
        PROVE  req'[r] = req[r] \/ req'[r].kind # "draft"
    <3> DEFINE x == req[r]
    <3>1. Shape(x)
      BY <1>3
    <3>2. req'[r] = IF x.kind \in {"letter", "found"} THEN [x EXCEPT !.alone = FALSE] ELSE x
      BY <1>10 DEF UploadVersion
    <3> HIDE DEF x
    <3>3. x.kind \in {"letter", "found"} => [x EXCEPT !.alone = FALSE].kind = x.kind
      BY <3>1 DEF Shape
    <3>4. QED
      BY <3>2, <3>3 DEF x
  <2>2. /\ \A e \in Draft : draft'[e] = draft[e] \/ e = d
        /\ draft'[d] = [draft[d] EXCEPT !.text = t, !.changed = TRUE]
        /\ OnFile(d)
    BY <1>10 DEF UploadVersion, Packs, DraftShaped, OnFile
  <2>3. QED
    BY <1>6, <2>1, <2>2
<1>11. ASSUME NEW d \in Draft, ArchiveDraft(d)
       PROVE  Packs'
  <2>1. /\ \A e \in Draft : draft'[e] = draft[e] \/ e = d
        /\ draft'[d] = [draft[d] EXCEPT !.state = "archived"]
        /\ OnFile(d) /\ req' = req
    BY <1>11 DEF ArchiveDraft, Packs, DraftShaped, OnFile
  <2>2. QED
    BY <1>6, <2>1
<1>12. ASSUME NEW r \in Request, NEW t \in Text, StoreDraft(r, t)
       PROVE  Packs'
  <2> DEFINE q == req[r]
             d == q.at
             pack == IF q.of = "iht400_draft"
                     THEN [forms |-> q.forms, assets |-> q.assets,
                           current |-> q.current, whole |-> q.whole]
                     ELSE Null
  <2>1. q.kind = "draft" /\ d \in Draft
    BY <1>3, <1>12 DEF StoreDraft, Shape
  <2>2. draft'[d].pack = pack /\ \A e \in Draft : e # d => draft'[e] = draft[e]
    BY <1>12, <2>1 DEF StoreDraft, Packs, DraftShaped
  <2>3. q.of = "iht400_draft" => Lists(q)
    BY <2>1 DEF Packs, PacksDrafted
  <2>4. pack = Null \/ Lists(pack)
    <3>1. CASE q.of = "iht400_draft"
      <4> HIDE DEF q
      <4>1. /\ pack.forms = q.forms /\ pack.assets = q.assets
            /\ pack.current = q.current /\ pack.whole = q.whole
        BY <3>1
      <4>2. Lists(q)
        BY <2>3, <3>1
      <4> HIDE DEF pack
      <4>3. QED
        BY <4>1, <4>2 DEF Lists
    <3>2. QED
      BY <3>1
  <2>5. \A e \in Request : req'[e] = req[e] \/ req'[e].kind # "draft"
    BY <1>3, <1>12 DEF StoreDraft, Idle
  <2> HIDE DEF q, d, pack
  <2>6. \A e \in Draft : OnFile(e)' => (OnFile(e) /\ draft'[e].pack = draft[e].pack)
                                       \/ draft'[e].pack = Null \/ Lists(draft'[e].pack)
    BY <2>2, <2>4 DEF OnFile
  <2>7. QED
    BY <1>1, <1>2, <2>5, <2>6, PacksFrame DEF Papers
<1>13. ASSUME NEW r \in Request, NEW d \in Draft, NEW f \in FormCode, BeginForms(r, d, f)
       PROVE  Packs'
  <2>1. PICK new : /\ new = [kind |-> "draft", at |-> d, of |-> "iht400_draft",
                             forms |-> FormsDraft(reg.assets, assessment.codes, f),
                             assets |-> reg.assets,
                             current |-> assessment.assets = reg.assets, whole |-> f = Null]
                   /\ req' = [req EXCEPT ![r] = new]
    BY <1>13 DEF BeginForms
  <2>2. draft' = draft /\ assessment # Null
    BY <1>13 DEF BeginForms, paperVars
  <2>3. Lists(new)
    BY <2>1, <2>2, BegunLists
  <2>4. QED
    BY <1>4, <2>1, <2>2, <2>3
<1>14. ASSUME NEW r \in Request, NEW d \in Draft, BeginLetter(r, d)
       PROVE  Packs'
  <2> DEFINE new == [kind |-> "draft", at |-> d, of |-> "notification_letter"]
  <2>1. req' = [req EXCEPT ![r] = new] /\ draft' = draft /\ new.of # "iht400_draft"
    BY <1>14 DEF BeginLetter, paperVars
  <2> HIDE DEF new
  <2>2. QED
    BY <1>4, <2>1
<1>15. ASSUME NEW r \in Request, NEW d \in Draft, BeginNarration(r, d)
       PROVE  Packs'
  <2> DEFINE new == [kind |-> "narrate", at |-> d, attempts |-> 0]
  <2>1. req' = [req EXCEPT ![r] = new] /\ draft' = draft /\ new.kind # "draft"
    BY <1>15 DEF BeginNarration, paperVars
  <2> HIDE DEF new
  <2>2. QED
    BY <1>4, <2>1
<1>16. ASSUME NEW r \in Request, NEW d \in Draft, BeginExportLetter(r, d)
       PROVE  Packs'
  <2> DEFINE new == [kind |-> "letter", at |-> d, text |-> draft[d].text, alone |-> TRUE]
  <2>1. req' = [req EXCEPT ![r] = new] /\ draft' = draft /\ new.kind # "draft"
    BY <1>16 DEF BeginExportLetter, paperVars
  <2> HIDE DEF new
  <2>2. QED
    BY <1>4, <2>1
<1>17. ASSUME NEW r \in Request, NEW valid \in BOOLEAN, Narrate(r, valid)
       PROVE  Packs'
  <2> DEFINE q == req[r]
             n == q.attempts + 1
             new == IF valid \/ n >= MaxDraftAttempts
                    THEN [kind |-> "draft", at |-> q.at, of |-> "iht_narration",
                          validated |-> valid]
                    ELSE [q EXCEPT !.attempts = n]
  <2>1. Shape(q) /\ q.kind = "narrate"
    BY <1>3, <1>17 DEF Narrate
  <2>2. req' = [req EXCEPT ![r] = new] /\ draft' = draft
    BY <1>17 DEF Narrate, paperVars
  <2> HIDE DEF q, n
  <2>3. new.kind # "draft" \/ new.of # "iht400_draft"
    BY <2>1 DEF Shape
  <2> HIDE DEF new
  <2>4. QED
    BY <1>4, <2>2, <2>3
<1>18. ASSUME NEW r \in Request, BeginExportPack(r)
       PROVE  Packs'
  <2> DEFINE new == [kind |-> "pack", among |-> ApprovedPacks]
  <2>1. req' = [req EXCEPT ![r] = new] /\ draft' = draft /\ new.kind # "draft"
    BY <1>18 DEF BeginExportPack, paperVars
  <2> HIDE DEF new
  <2>2. QED
    BY <1>4, <2>1
<1>19. ASSUME NEW r \in Request, BeginExportAccounts(r)
       PROVE  Packs'
  <2> DEFINE new == [kind |-> "accounts"]
  <2>1. req' = [req EXCEPT ![r] = new] /\ draft' = draft /\ new.kind # "draft"
    BY <1>19 DEF BeginExportAccounts, paperVars
  <2> HIDE DEF new
  <2>2. QED
    BY <1>4, <2>1
<1>20. ASSUME NEW r \in Request,
              CommitExportLetter(r) \/ CommitExportPack(r) \/ CommitExportAccounts(r)
       PROVE  Packs'
  <2>1. req' = [req EXCEPT ![r] = Idle] /\ draft' = draft
    BY <1>20 DEF CommitExportLetter, CommitExportPack, CommitExportAccounts
  <2>2. Idle.kind = "idle"
    BY DEF Idle
  <2>3. QED
    BY <1>4, <2>1, <2>2
<1>21. CASE ExportClearance
  BY <1>5, <1>21 DEF ExportClearance
<1>22. ASSUME NEW r \in Request, LookAtDraft(r)
       PROVE  Packs'
  <2> DEFINE q == req[r]
  <2>1. Shape(q) /\ q.kind = "pack" /\ draft' = draft
    BY <1>3, <1>22 DEF LookAtDraft, paperVars
  <2>2. PICK p \in q.among :
          \/ req' = [req EXCEPT ![r] = [q EXCEPT !.among = q.among \ {p}]]
          \/ req' = [req EXCEPT ![r] = [kind |-> "found", at |-> p[2].draft,
                                        text |-> draft[p[2].draft].text,
                                        recorded |-> p[2].recorded, alone |-> TRUE]]
    BY <1>22 DEF LookAtDraft
  <2> HIDE DEF q
  <2>3. [q EXCEPT !.among = q.among \ {p}].kind = "pack"
    BY <2>1 DEF Shape
  <2>4. QED
    BY <1>4, <2>1, <2>2, <2>3
<1>23. QED
  BY <1>8, <1>9, <1>10, <1>11, <1>12, <1>13, <1>14, <1>15, <1>16, <1>17, <1>18, <1>19,
     <1>20, <1>21, <1>22 DEF PaperworkNext

LEMMA PacksInvariant == Spec => []Packs
<1>1. Init => Packs
  <2> SUFFICES ASSUME Init PROVE Packs
    OBVIOUS
  <2>1. DOMAIN req = Request /\ \A r \in Request : req[r] = Idle
    BY DEF Init
  <2>2. Shape(Idle) /\ Idle.kind = "idle"
    BY DEF Shape, Idle
  <2>3. RequestsShaped /\ PacksDrafted
    BY <2>1, <2>2 DEF RequestsShaped, PacksDrafted
  <2>4. DraftShaped /\ PacksStored
    BY DEF Init, DraftShaped, PacksStored, OnFile, NoDraft
  <2>5. reg \in Registers /\ SnapshotCodes
    <3>1. /\ reg \in Registers
          /\ assessment = Null \/ \E tax \in Tax : assessment = Snapshot(tax, reg.assets)
      BY DEF Init, AccountsInit
    <3>2. CASE assessment = Null
      BY <3>1, <3>2 DEF SnapshotCodes
    <3>3. ASSUME NEW tax \in Tax, assessment = Snapshot(tax, reg.assets)
          PROVE  assessment.codes = Codes(assessment.assets)
      <4>1. assessment.codes = Codes(reg.assets) /\ assessment.assets = reg.assets
        BY <3>3 DEF Snapshot
      <4>2. QED
        BY <4>1
    <3>4. QED
      BY <3>1, <3>2, <3>3 DEF SnapshotCodes
  <2>6. QED
    BY <2>3, <2>4, <2>5 DEF Packs
<1>2. Packs /\ Exports /\ Exports' /\ [Next]_vars => Packs'
  <2> SUFFICES ASSUME Packs, Exports, Exports', [Next]_vars PROVE Packs'
    OBVIOUS
  <2>1. CASE UNCHANGED vars
    <3>1. /\ draft' = draft /\ req' = req /\ reg' = reg /\ assessment' = assessment
      BY <2>1 DEF vars, paperVars, accountVars
    <3>2. RequestsShaped' /\ reg' \in Registers /\ SnapshotCodes'
      BY <3>1 DEF Packs, RequestsShaped, SnapshotCodes, Codes
    <3>3. QED
      BY <3>1, <3>2, PacksUntouched
  <2>2. QED
    BY <2>1, PacksAccounts, PacksPaper DEF Next, Quiet, Exports
<1>3. QED
  BY <1>1, <1>2, ExportsInvariant, PTL DEF Spec

\* A pack drafted of the registers as the assessment found them lists every asset on its
\* schedule, once.
THEOREM PacksListEveryAsset == Spec => []PackListsAssets
<1>1. Packs => PackListsAssets
  BY DEF Packs, PacksStored, Lists, OnFile, PackListsAssets
<1>2. QED
  BY <1>1, PacksInvariant, PTL

-----------------------------------------------------------------------------
(* Sums over finite sets.                                                  *)

Pick(S) == CHOOSE x \in S : TRUE

\* g gives the sum of f over each subset of S.
Adds(g, f, S) ==
  g = [s \in SUBSET S |-> IF s = {} THEN 0 ELSE f[Pick(s)] + g[s \ {Pick(s)}]]

LEMMA SumUnfolded ==
  ASSUME NEW f, NEW S
  PROVE  SumOf(f, S) = (CHOOSE g : Adds(g, f, S))[S]
  BY DEF SumOf, SumFunctionOnSet, FoldFunctionOnSet, MapThenFoldSet, Adds, Pick

LEMMA Picked ==
  ASSUME NEW S, S # {}
  PROVE  Pick(S) \in S
  BY DEF Pick

LEMMA CardinalityDrops ==
  ASSUME NEW S, IsFiniteSet(S), NEW x \in S
  PROVE  /\ IsFiniteSet(S \ {x}) /\ Cardinality(S \ {x}) < Cardinality(S)
         /\ Cardinality(S \ {x}) \in Nat /\ Cardinality(S) \in Nat
<1>1. IsFiniteSet(S \ {x}) /\ Cardinality(S \ {x}) = Cardinality(S) - 1
  BY FS_RemoveElement
<1>2. Cardinality(S \ {x}) \in Nat /\ Cardinality(S) \in Nat
  BY <1>1, FS_CardinalityType
<1>3. QED
  BY <1>1, <1>2

LEMMA SumAgrees ==
  ASSUME NEW f, NEW S, NEW T, NEW g, NEW h, Adds(g, f, S), Adds(h, f, T),
         NEW u \in SUBSET (S \cap T), IsFiniteSet(u)
  PROVE  g[u] = h[u]
<1> DEFINE Bad == {n \in Nat : \E s \in SUBSET (S \cap T) :
                     IsFiniteSet(s) /\ Cardinality(s) = n /\ g[s] # h[s]}
<1>1. SUFFICES ASSUME Bad # {} PROVE FALSE
  BY FS_CardinalityType
<1>2. PICK m \in Bad : \A k \in Bad : ~(k < m)
  <2>1. Bad \subseteq Nat
    OBVIOUS
  <2> HIDE DEF Bad
  <2>2. QED
    BY <1>1, <2>1, SmallestIndex
<1>3. PICK s \in SUBSET (S \cap T) : IsFiniteSet(s) /\ Cardinality(s) = m /\ g[s] # h[s]
  BY <1>2
<1>4. s # {}
  BY <1>3 DEF Adds
<1> DEFINE r == s \ {Pick(s)}
<1>5. /\ r \in SUBSET (S \cap T) /\ IsFiniteSet(r)
      /\ Cardinality(r) < m /\ Cardinality(r) \in Nat
  BY <1>3, <1>4, Picked, CardinalityDrops
<1>6. g[s] = f[Pick(s)] + g[r] /\ h[s] = f[Pick(s)] + h[r]
  BY <1>3, <1>4 DEF Adds
<1> HIDE DEF r
<1>7. g[r] # h[r]
  BY <1>3, <1>6
<1>8. Cardinality(r) \in Bad
  BY <1>5, <1>7
<1>9. QED
  BY <1>2, <1>5, <1>8

LEMMA SumExists ==
  ASSUME NEW f, NEW S, IsFiniteSet(S)
  PROVE  \E g : Adds(g, f, S)
<1> DEFINE Bad == {n \in Nat : \E s \in SUBSET S :
                     Cardinality(s) = n /\ ~\E g : Adds(g, f, s)}
<1>1. SUFFICES ASSUME Bad # {} PROVE FALSE
  <2>1. Cardinality(S) \in Nat
    BY FS_CardinalityType
  <2>2. QED
    BY <2>1
<1>2. PICK m \in Bad : \A k \in Bad : ~(k < m)
  <2>1. Bad \subseteq Nat
    OBVIOUS
  <2> HIDE DEF Bad
  <2>2. QED
    BY <1>1, <2>1, SmallestIndex
<1>3. PICK s \in SUBSET S : Cardinality(s) = m /\ ~\E g : Adds(g, f, s)
  BY <1>2
<1>4. IsFiniteSet(s)
  BY FS_Subset
<1> DEFINE V(t) == (CHOOSE g : Adds(g, f, t))[t]
<1>5. ASSUME NEW t \in SUBSET s, t # s
      PROVE  \E g : Adds(g, f, t)
  <2>1. IsFiniteSet(t) /\ Cardinality(t) \in Nat /\ Cardinality(t) < Cardinality(s)
    BY <1>4, <1>5, FS_Subset, FS_CardinalityType
  <2>2. Cardinality(t) \notin Bad
    BY <1>2, <1>3, <2>1
  <2>3. QED
    BY <2>1, <2>2
<1>6. ASSUME NEW t \in SUBSET s, t # s, t # {}
      PROVE  V(t) = f[Pick(t)] + V(t \ {Pick(t)})
  <2> DEFINE r == t \ {Pick(t)}
             g == CHOOSE g : Adds(g, f, t)
             h == CHOOSE h : Adds(h, f, r)
  <2>1. Adds(g, f, t)
    BY <1>5, <1>6
  <2>2. r \in SUBSET s /\ r # s
    BY <1>6, Picked
  <2>3. Adds(h, f, r)
    BY <1>5, <2>2
  <2>4. g[t] = f[Pick(t)] + g[r]
    BY <1>6, <2>1 DEF Adds
  <2>5. IsFiniteSet(r)
    BY <1>4, <2>2, FS_Subset
  <2> HIDE DEF g, h
  <2>6. g[r] = h[r]
    <3>1. r \in SUBSET (t \cap r)
      OBVIOUS
    <3> HIDE DEF r
    <3>2. QED
      BY <2>1, <2>3, <2>5, <3>1, SumAgrees
  <2>7. V(t) = g[t] /\ V(r) = h[r]
    BY DEF g, h
  <2> HIDE DEF V, r
  <2>8. V(t) = f[Pick(t)] + V(r)
    BY <2>4, <2>6, <2>7
  <2>9. QED
    BY <2>8 DEF r
<1>7. V({}) = 0 \/ s = {}
  <2>1. CASE s # {}
    <3>1. Adds(CHOOSE g : Adds(g, f, {}), f, {})
      BY <1>5, <2>1
    <3>2. QED
      BY <3>1 DEF Adds
  <2>2. QED
    BY <2>1
<1> HIDE DEF V
<1> DEFINE G == [t \in SUBSET s |-> IF t = {} THEN 0 ELSE f[Pick(t)] + V(t \ {Pick(t)})]
<1>8. ASSUME NEW t \in SUBSET s, t # s
      PROVE  G[t] = V(t)
  BY <1>6, <1>7, <1>8
<1>9. ASSUME NEW t \in SUBSET s, t # {}
      PROVE  G[t] = f[Pick(t)] + G[t \ {Pick(t)}]
  <2>1. t \ {Pick(t)} \in SUBSET s /\ t \ {Pick(t)} # s
    BY <1>9, Picked
  <2>2. G[t \ {Pick(t)}] = V(t \ {Pick(t)})
    BY <1>8, <2>1
  <2>3. QED
    BY <1>9, <2>2
<1>10. Adds(G, f, s)
  <2>1. G[{}] = 0
    OBVIOUS
  <2>2. DOMAIN G = SUBSET s /\ G = [t \in SUBSET s |-> G[t]]
    OBVIOUS
  <2> HIDE DEF G
  <2>3. \A t \in SUBSET s : G[t] = IF t = {} THEN 0 ELSE f[Pick(t)] + G[t \ {Pick(t)}]
    BY <1>9, <2>1
  <2>4. QED
    BY <2>2, <2>3 DEF Adds
<1>11. QED
  BY <1>3, <1>10

\* The sum over the empty set is 0; an element can be taken off.
LEMMA SumStep ==
  ASSUME NEW f, NEW S, IsFiniteSet(S)
  PROVE  SumOf(f, S) = IF S = {} THEN 0 ELSE f[Pick(S)] + SumOf(f, S \ {Pick(S)})
<1> DEFINE r == S \ {Pick(S)}
           g == CHOOSE g : Adds(g, f, S)
           h == CHOOSE h : Adds(h, f, r)
<1>1. Adds(g, f, S)
  BY SumExists
<1>2. IsFiniteSet(r) /\ r \in SUBSET S
  BY FS_Subset
<1>3. Adds(h, f, r)
  BY <1>2, SumExists
<1>4. SumOf(f, S) = g[S] /\ SumOf(f, r) = h[r]
  BY SumUnfolded
<1>5. g[S] = IF S = {} THEN 0 ELSE f[Pick(S)] + g[r]
  BY <1>1 DEF Adds
<1>6. g[r] = h[r]
  <2>1. r \in SUBSET (S \cap r)
    BY <1>2
  <2> HIDE DEF g, h, r
  <2>2. QED
    BY <1>1, <1>2, <1>3, <2>1, SumAgrees
<1> HIDE DEF g, h
<1>7. QED
  BY <1>4, <1>5, <1>6

LEMMA SumType ==
  ASSUME NEW f, NEW S, IsFiniteSet(S), \A x \in S : f[x] \in Int
  PROVE  SumOf(f, S) \in Int
<1> DEFINE Bad == {n \in Nat : \E s \in SUBSET S : Cardinality(s) = n /\ SumOf(f, s) \notin Int}
<1>1. SUFFICES ASSUME Bad # {} PROVE FALSE
  BY FS_CardinalityType
<1>2. PICK m \in Bad : \A k \in Bad : ~(k < m)
  <2>1. Bad \subseteq Nat
    OBVIOUS
  <2> HIDE DEF Bad
  <2>2. QED
    BY <1>1, <2>1, SmallestIndex
<1>3. PICK s \in SUBSET S : Cardinality(s) = m /\ SumOf(f, s) \notin Int
  BY <1>2
<1>4. IsFiniteSet(s)
  BY FS_Subset
<1>5. s # {}
  <2>1. IsFiniteSet({}) /\ SumOf(f, {}) = 0
    BY FS_EmptySet, SumStep
  <2>2. SumOf(f, {}) \in Int
    BY <2>1
  <2>3. QED
    BY <1>3, <2>2
<1> DEFINE r == s \ {Pick(s)}
<1>6. Pick(s) \in s /\ IsFiniteSet(r) /\ Cardinality(r) < m /\ Cardinality(r) \in Nat
  BY <1>3, <1>4, <1>5, Picked, CardinalityDrops
<1>7. SumOf(f, s) = f[Pick(s)] + SumOf(f, r)
  BY <1>4, <1>5, SumStep
<1>8. SumOf(f, r) \notin Int
  BY <1>3, <1>6, <1>7
<1>9. r \in SUBSET S
  OBVIOUS
<1> HIDE DEF r
<1>10. Cardinality(r) \in Bad
  BY <1>6, <1>8, <1>9
<1>11. QED
  BY <1>2, <1>6, <1>10

\* The order in which a sum takes its elements does not matter.
LEMMA SumAdd ==
  ASSUME NEW f, NEW S, IsFiniteSet(S), NEW x, x \notin S, \A y \in S \cup {x} : f[y] \in Int
  PROVE  SumOf(f, S \cup {x}) = f[x] + SumOf(f, S)
<1> DEFINE All == S \cup {x}
           Bad == {n \in Nat : \E s \in SUBSET All : \E y \in All \ s :
                     Cardinality(s) = n /\ SumOf(f, s \cup {y}) # f[y] + SumOf(f, s)}
<1>1. SUFFICES ASSUME Bad # {} PROVE FALSE
  <2>1. Cardinality(S) \in Nat
    BY FS_CardinalityType
  <2>2. S \in SUBSET All /\ x \in All \ S
    OBVIOUS
  <2>3. QED
    BY <2>1, <2>2
<1>2. PICK m \in Bad : \A k \in Bad : ~(k < m)
  <2>1. Bad \subseteq Nat
    OBVIOUS
  <2> HIDE DEF Bad
  <2>2. QED
    BY <1>1, <2>1, SmallestIndex
<1>3. PICK s \in SUBSET All : \E y \in All \ s :
        Cardinality(s) = m /\ SumOf(f, s \cup {y}) # f[y] + SumOf(f, s)
  BY <1>2
<1>4. PICK y \in All \ s :
        Cardinality(s) = m /\ SumOf(f, s \cup {y}) # f[y] + SumOf(f, s)
  BY <1>3
<1>5. IsFiniteSet(All)
  BY FS_AddElement
<1>6. IsFiniteSet(s)
  BY <1>5, FS_Subset
<1> DEFINE U == s \cup {y}
           c == Pick(U)
<1>7. IsFiniteSet(U) /\ c \in U
  <2>1. IsFiniteSet(U)
    BY <1>6, FS_AddElement
  <2>2. U # {}
    OBVIOUS
  <2> HIDE DEF U
  <2>3. Pick(U) \in U
    BY <2>2, Picked
  <2>4. QED
    BY <2>1, <2>3
<1>8. SumOf(f, U) = f[c] + SumOf(f, U \ {c})
  BY <1>7, SumStep
<1> HIDE DEF U, c, All
<1>9. c # y
  <2>1. SUFFICES ASSUME c = y PROVE FALSE
    OBVIOUS
  <2>2. U \ {c} = s
    BY <1>4, <2>1 DEF U
  <2>3. QED
    BY <1>4, <1>8, <2>1, <2>2 DEF U
<1> DEFINE r == s \ {c}
<1>10. c \in s /\ U \ {c} = r \cup {y} /\ r \cup {c} = s /\ y \notin r /\ c \notin r
  BY <1>4, <1>7, <1>9 DEF U
<1>11. /\ r \in SUBSET All /\ c \in All /\ y \in All
       /\ Cardinality(r) < m /\ Cardinality(r) \in Nat
  BY <1>4, <1>6, <1>10, CardinalityDrops
<1> HIDE DEF r
<1>12. Cardinality(r) \notin Bad
  BY <1>2, <1>11
<1>13. SumOf(f, r \cup {y}) = f[y] + SumOf(f, r) /\ SumOf(f, r \cup {c}) = f[c] + SumOf(f, r)
  BY <1>10, <1>11, <1>12
<1>14. SumOf(f, r) \in Int /\ f[y] \in Int /\ f[c] \in Int
  <2>1. \A z \in All : f[z] \in Int
    BY DEF All
  <2>2. IsFiniteSet(r)
    BY <1>5, <1>11, FS_Subset
  <2>3. QED
    BY <1>11, <2>1, <2>2, SumType
<1>15. SumOf(f, U) = f[y] + SumOf(f, s)
  <2>1. SumOf(f, U) = f[c] + (f[y] + SumOf(f, r))
    BY <1>8, <1>10, <1>13
  <2>2. SumOf(f, s) = f[c] + SumOf(f, r)
    BY <1>10, <1>13
  <2>3. f[c] + (f[y] + SumOf(f, r)) = f[y] + (f[c] + SumOf(f, r))
    BY <1>14
  <2>4. QED
    BY <2>1, <2>2, <2>3
<1>16. QED
  BY <1>4, <1>15 DEF U

\* What holds of the empty set and is kept by adding an element holds of a finite set.
LEMMA SetInduct ==
  ASSUME NEW S, IsFiniteSet(S), NEW G, {} \in G,
         \A T \in SUBSET S : \A x \in S \ T : T \in G => T \cup {x} \in G
  PROVE  S \in G
<1> DEFINE Bad == {n \in Nat : \E s \in SUBSET S : Cardinality(s) = n /\ s \notin G}
<1>1. SUFFICES ASSUME Bad # {} PROVE FALSE
  BY FS_CardinalityType
<1>2. PICK m \in Bad : \A k \in Bad : ~(k < m)
  <2>1. Bad \subseteq Nat
    OBVIOUS
  <2> HIDE DEF Bad
  <2>2. QED
    BY <1>1, <2>1, SmallestIndex
<1>3. PICK s \in SUBSET S : Cardinality(s) = m /\ s \notin G
  BY <1>2
<1>4. IsFiniteSet(s) /\ s # {}
  BY <1>3, FS_Subset
<1> DEFINE x == Pick(s)
           r == s \ {x}
<1>5. x \in s /\ IsFiniteSet(r) /\ Cardinality(r) < m /\ Cardinality(r) \in Nat
  BY <1>3, <1>4, Picked, CardinalityDrops
<1>6. r \in SUBSET S /\ x \in S \ r /\ r \cup {x} = s
  BY <1>5
<1> HIDE DEF r, x
<1>7. Cardinality(r) \notin Bad
  BY <1>2, <1>5
<1>8. r \in G
  BY <1>5, <1>6, <1>7
<1>9. QED
  BY <1>3, <1>6, <1>8

LEMMA SumEmpty ==
  ASSUME NEW f
  PROVE  SumOf(f, {}) = 0
  BY FS_EmptySet, SumStep

LEMMA SumEqual ==
  ASSUME NEW f, NEW g, NEW S, IsFiniteSet(S), \A x \in S : f[x] \in Int /\ f[x] = g[x]
  PROVE  SumOf(f, S) = SumOf(g, S)
<1> DEFINE G == {T \in SUBSET S : SumOf(f, T) = SumOf(g, T)}
<1>1. {} \in G
  BY SumEmpty
<1>2. ASSUME NEW T \in SUBSET S, NEW x \in S \ T, T \in G
      PROVE  T \cup {x} \in G
  <2>1. IsFiniteSet(T)
    BY FS_Subset
  <2>2. (\A y \in T \cup {x} : f[y] \in Int) /\ \A y \in T \cup {x} : g[y] \in Int
    OBVIOUS
  <2>3. SumOf(f, T \cup {x}) = f[x] + SumOf(f, T)
    BY <2>1, <2>2, SumAdd
  <2>4. SumOf(g, T \cup {x}) = g[x] + SumOf(g, T)
    BY <2>1, <2>2, SumAdd
  <2>5. QED
    BY <1>2, <2>3, <2>4
<1> HIDE DEF G
<1>3. S \in G
  BY <1>1, <1>2, SetInduct
<1>4. QED
  BY <1>3 DEF G

\* What is zero need not be added.
LEMMA SumWithin ==
  ASSUME NEW f, NEW S, IsFiniteSet(S), NEW A \in SUBSET S,
         \A x \in S : f[x] \in Int, \A x \in S \ A : f[x] = 0
  PROVE  SumOf(f, S) = SumOf(f, A)
<1> DEFINE G == {T \in SUBSET S : SumOf(f, T) = SumOf(f, T \cap A)}
<1>1. {} \in G
  BY SumEmpty
<1>2. ASSUME NEW T \in SUBSET S, NEW x \in S \ T, T \in G
      PROVE  T \cup {x} \in G
  <2>1. IsFiniteSet(T) /\ IsFiniteSet(T \cap A)
    BY FS_Subset
  <2>2. SumOf(f, T \cup {x}) = f[x] + SumOf(f, T)
    BY <2>1, SumAdd
  <2>3. SumOf(f, T) \in Int
    BY <2>1, SumType
  <2>4. CASE x \in A
    <3>1. (T \cup {x}) \cap A = (T \cap A) \cup {x}
      BY <2>4
    <3>2. SumOf(f, (T \cap A) \cup {x}) = f[x] + SumOf(f, T \cap A)
      <4>1. \A y \in (T \cap A) \cup {x} : f[y] \in Int
        OBVIOUS
      <4>2. QED
        BY <2>1, <4>1, SumAdd
    <3>3. QED
      BY <1>2, <2>2, <3>1, <3>2
  <2>5. CASE x \notin A
    <3>1. (T \cup {x}) \cap A = T \cap A /\ f[x] = 0
      BY <2>5
    <3>2. f[x] + SumOf(f, T) = SumOf(f, T)
      BY <2>3, <3>1
    <3>3. SumOf(f, T) = SumOf(f, T \cap A)
      BY <1>2
    <3>4. SumOf(f, T \cup {x}) = SumOf(f, (T \cup {x}) \cap A)
      BY <2>2, <3>1, <3>2, <3>3
    <3>5. QED
      BY <3>4
  <2>6. QED
    BY <2>4, <2>5
<1> HIDE DEF G
<1>3. S \in G
  BY <1>1, <1>2, SetInduct
<1>4. S \cap A = A
  OBVIOUS
<1>5. QED
  BY <1>3, <1>4 DEF G

\* A multiple of one sum less another.
LEMMA SumLinear ==
  ASSUME NEW f, NEW g, NEW h, NEW c \in Int, NEW S, IsFiniteSet(S),
         \A x \in S : f[x] \in Int /\ g[x] \in Int /\ h[x] = c * f[x] - g[x]
  PROVE  SumOf(h, S) = c * SumOf(f, S) - SumOf(g, S)
<1> DEFINE G == {T \in SUBSET S : SumOf(h, T) = c * SumOf(f, T) - SumOf(g, T)}
<1>1. {} \in G
  <2>1. SumOf(h, {}) = 0 /\ SumOf(f, {}) = 0 /\ SumOf(g, {}) = 0
    BY SumEmpty
  <2>2. c * 0 - 0 = 0
    OBVIOUS
  <2>3. QED
    BY <2>1, <2>2
<1>2. ASSUME NEW T \in SUBSET S, NEW x \in S \ T, T \in G
      PROVE  T \cup {x} \in G
  <2>1. IsFiniteSet(T)
    BY FS_Subset
  <2>2. \A y \in S : h[y] \in Int
    OBVIOUS
  <2>3. SumOf(f, T \cup {x}) = f[x] + SumOf(f, T)
    BY <2>1, SumAdd
  <2>4. SumOf(g, T \cup {x}) = g[x] + SumOf(g, T)
    BY <2>1, SumAdd
  <2>5. SumOf(h, T \cup {x}) = h[x] + SumOf(h, T)
    BY <2>1, <2>2, SumAdd
  <2>6. SumOf(f, T) \in Int /\ SumOf(g, T) \in Int
    BY <2>1, SumType
  <2>7. f[x] \in Int /\ g[x] \in Int /\ h[x] = c * f[x] - g[x]
    OBVIOUS
  <2>8. SumOf(h, T) = c * SumOf(f, T) - SumOf(g, T)
    BY <1>2
  <2>9. ASSUME NEW a \in Int, NEW b \in Int, NEW s \in Int, NEW t \in Int
        PROVE  (c * a - b) + (c * s - t) = c * (a + s) - (b + t)
    <3>1. c * (a + s) = c * a + c * s
      OBVIOUS
    <3>2. c * a \in Int /\ c * s \in Int
      OBVIOUS
    <3>3. QED
      BY <3>1, <3>2
  <2>10. (c * f[x] - g[x]) + (c * SumOf(f, T) - SumOf(g, T))
           = c * (f[x] + SumOf(f, T)) - (g[x] + SumOf(g, T))
    <3> DEFINE a == f[x]
               b == g[x]
               s == SumOf(f, T)
               t == SumOf(g, T)
    <3>1. a \in Int /\ b \in Int /\ s \in Int /\ t \in Int
      BY <2>6, <2>7
    <3> HIDE DEF a, b, s, t
    <3>2. (c * a - b) + (c * s - t) = c * (a + s) - (b + t)
      BY <2>9, <3>1
    <3>3. QED
      BY <3>2 DEF a, b, s, t
  <2>11. QED
    BY <2>3, <2>4, <2>5, <2>7, <2>8, <2>10
<1> HIDE DEF G
<1>3. S \in G
  BY <1>1, <1>2, SetInduct
<1>4. QED
  BY <1>3 DEF G

\* A sum of terms that are each at most c in size.
LEMMA SumBound ==
  ASSUME NEW f, NEW c \in Int, NEW S, IsFiniteSet(S),
         \A x \in S : f[x] \in Int /\ f[x] <= c /\ -f[x] <= c
  PROVE  SumOf(f, S) <= Cardinality(S) * c /\ -SumOf(f, S) <= Cardinality(S) * c
<1> DEFINE G == {T \in SUBSET S : /\ SumOf(f, T) <= Cardinality(T) * c
                                  /\ -SumOf(f, T) <= Cardinality(T) * c}
<1>1. {} \in G
  <2>1. SumOf(f, {}) = 0 /\ Cardinality({}) = 0
    BY SumEmpty, FS_EmptySet
  <2>2. QED
    BY <2>1
<1>2. ASSUME NEW T \in SUBSET S, NEW x \in S \ T, T \in G
      PROVE  T \cup {x} \in G
  <2>1. IsFiniteSet(T)
    BY FS_Subset
  <2>2. SumOf(f, T \cup {x}) = f[x] + SumOf(f, T)
    BY <2>1, SumAdd
  <2>3. Cardinality(T \cup {x}) = Cardinality(T) + 1
    BY <2>1, FS_AddElement
  <2>4. SumOf(f, T) \in Int /\ Cardinality(T) \in Nat
    BY <2>1, SumType, FS_CardinalityType
  <2>5. f[x] \in Int /\ f[x] <= c /\ -f[x] <= c
    OBVIOUS
  <2>6. SumOf(f, T) <= Cardinality(T) * c /\ -SumOf(f, T) <= Cardinality(T) * c
    BY <1>2
  <2>7. ASSUME NEW n \in Int, NEW a \in Int, NEW s \in Int,
               a <= c, -a <= c, s <= n * c, -s <= n * c
        PROVE  a + s <= (n + 1) * c /\ -(a + s) <= (n + 1) * c
    <3>1. (n + 1) * c = n * c + c /\ n * c \in Int
      OBVIOUS
    <3>2. QED
      BY <2>7, <3>1
  <2>8. /\ f[x] + SumOf(f, T) <= (Cardinality(T) + 1) * c
        /\ -(f[x] + SumOf(f, T)) <= (Cardinality(T) + 1) * c
    BY <2>4, <2>5, <2>6, <2>7
  <2>9. QED
    BY <2>2, <2>3, <2>8
<1> HIDE DEF G
<1>3. S \in G
  BY <1>1, <1>2, SetInduct
<1>4. QED
  BY <1>3 DEF G

\* A sum may be taken in the order of a one-to-one list.
LEMMA SumReindexed ==
  ASSUME NEW I, NEW S, IsFiniteSet(I), NEW b \in Bijection(I, S), NEW f, NEW g,
         \A x \in S : f[x] \in Int, \A i \in I : g[i] = f[b[i]]
  PROVE  SumOf(g, I) = SumOf(f, S)
<1> DEFINE Im(T) == {b[i] : i \in T}
<1> DEFINE G == {T \in SUBSET I : IsFiniteSet(Im(T)) /\ SumOf(g, T) = SumOf(f, Im(T))}
<1>0. /\ \A i \in I : b[i] \in S
      /\ \A i, j \in I : b[i] = b[j] => i = j
      /\ \A x \in S : \E i \in I : b[i] = x
  BY DEF Bijection, Injection, Surjection, IsInjective
<1>1. {} \in G
  <2>1. Im({}) = {}
    OBVIOUS
  <2>2. QED
    BY <2>1, FS_EmptySet, SumEmpty
<1>2. ASSUME NEW T \in SUBSET I, NEW x \in I \ T, T \in G
      PROVE  T \cup {x} \in G
  <2>1. IsFiniteSet(T) /\ IsFiniteSet(Im(T))
    BY <1>2, FS_Subset
  <2>2. SumOf(g, T \cup {x}) = g[x] + SumOf(g, T)
    <3>1. \A i \in T \cup {x} : g[i] \in Int
      BY <1>0
    <3>2. QED
      BY <2>1, <3>1, SumAdd
  <2>3. Im(T \cup {x}) = Im(T) \cup {b[x]}
    OBVIOUS
  <2>4. b[x] \notin Im(T) /\ Im(T) \cup {b[x]} \subseteq S
    BY <1>0
  <2>5. SumOf(f, Im(T) \cup {b[x]}) = f[b[x]] + SumOf(f, Im(T))
    <3> DEFINE U == Im(T)
               z == b[x]
    <3>1. IsFiniteSet(U) /\ z \notin U /\ \A y \in U \cup {z} : f[y] \in Int
      BY <2>1, <2>4
    <3> HIDE DEF U, z
    <3>2. SumOf(f, U \cup {z}) = f[z] + SumOf(f, U)
      BY <3>1, SumAdd
    <3>3. QED
      BY <3>2 DEF U, z
  <2>6. g[x] = f[b[x]] /\ SumOf(g, T) = SumOf(f, Im(T))
    BY <1>2
  <2> HIDE DEF Im
  <2>7. SumOf(g, T \cup {x}) = SumOf(f, Im(T \cup {x})) /\ IsFiniteSet(Im(T \cup {x}))
    <3>1. SumOf(g, T \cup {x}) = SumOf(f, Im(T \cup {x}))
      BY <2>2, <2>3, <2>5, <2>6
    <3>2. IsFiniteSet(Im(T) \cup {b[x]})
      BY <2>1, FS_AddElement
    <3>3. QED
      BY <2>3, <3>1, <3>2
  <2>8. QED
    BY <2>7
<1>3. Im(I) = S
  BY <1>0
<1> HIDE DEF G, Im
<1>4. I \in G
  BY <1>1, <1>2, SetInduct
<1>5. QED
  BY <1>3, <1>4 DEF G

-----------------------------------------------------------------------------
(* The accounts.                                                           *)

OnWill(l) == legacy[l].state # "absent"

\* Amounts are amounts.
Amounts ==
  /\ reg \in Registers
  /\ assessment # Null => assessment.tax \in Int
  /\ \A l \in Legacy : paid[l] \in Int
  /\ \A l \in Legacy : OnWill(l) => legacy[l].amount \in Int \cup {Null}
  /\ \A r \in Request : req[r].kind = "pay" => req[r].amount \in Int

LEMMA AmountsAccounts ==
  ASSUME Settlement, Amounts, AccountsNext
  PROVE  Amounts'
<1>1. /\ DOMAIN legacy = Legacy /\ DOMAIN paid = Legacy
      /\ DOMAIN req = Request /\ \A r \in Request : Shape(req[r])
  BY DEF Settlement, LegacyShaped, RequestsShaped
<1> DEFINE A1 == reg \in Registers /\ (assessment # Null => assessment.tax \in Int)
           A2 == \A l \in Legacy : paid[l] \in Int
           A3 == \A l \in Legacy : OnWill(l) => legacy[l].amount \in Int \cup {Null}
           A4 == \A r \in Request : req[r].kind = "pay" => req[r].amount \in Int
<1>2. A1 /\ A2 /\ A3 /\ A4
  BY DEF Amounts
<1>3. SUFFICES A1' /\ A2' /\ A3' /\ A4'
  BY DEF Amounts
<1>5. ASSUME reg' = reg, assessment' = assessment PROVE A1'
  BY <1>2, <1>5
<1>6. ASSUME paid' = paid PROVE A2'
  BY <1>2, <1>6
<1>7. ASSUME legacy' = legacy PROVE A3'
  BY <1>2, <1>7 DEF OnWill
<1>8. ASSUME req' = req PROVE A4'
  BY <1>2, <1>8
<1> HIDE DEF A1, A2, A3, A4
<1>9. ASSUME NEW contents \in Registers, UpdateRegisters(contents)
      PROVE  A1' /\ A2' /\ A3' /\ A4'
  <2>1. A1'
    BY <1>2, <1>9 DEF UpdateRegisters, A1
  <2>2. QED
    BY <1>6, <1>7, <1>8, <1>9, <2>1 DEF UpdateRegisters
<1>10. ASSUME NEW tax \in Tax, Recompute(tax)
       PROVE  A1' /\ A2' /\ A3' /\ A4'
  <2>1. /\ reg' = reg
        /\ assessment' = [tax |-> tax, codes |-> Codes(reg.assets), assets |-> reg.assets]
    BY <1>10 DEF Recompute, Snapshot
  <2>2. assessment'.tax \in Int
    BY <2>1, AccountsAssumption
  <2>3. A1'
    BY <1>2, <2>1, <2>2 DEF A1
  <2>4. QED
    BY <1>6, <1>7, <1>8, <1>10, <2>3 DEF Recompute
<1>11. ASSUME NEW l \in Legacy, NEW c \in Contact, NEW t \in Terms,
              CreateLegacy(l, c, t) \/ UpdateLegacy(l, c, t)
       PROVE  A1' /\ A2' /\ A3' /\ A4'
  <2>1. /\ UNCHANGED <<reg, assessment, paid, req>>
        /\ \A k \in Legacy : k # l => legacy'[k] = legacy[k]
    BY <1>1, <1>11 DEF CreateLegacy, UpdateLegacy
  <2>2. legacy'[l].amount = t.amount
    <3>1. CASE CreateLegacy(l, c, t)
      BY <1>1, <3>1 DEF CreateLegacy
    <3>2. CASE UpdateLegacy(l, c, t)
      <4> DEFINE old == legacy[l]
      <4>1. legacy'[l] = [old EXCEPT !.contact = c, !.type = t.type, !.amount = t.amount]
        BY <1>1, <3>2 DEF UpdateLegacy
      <4>2. DOMAIN old = LegacyColumns
        BY <3>2 DEF UpdateLegacy, Settlement, LegacyShaped, NoLegacy
      <4> HIDE DEF old
      <4>3. QED
        BY <4>1, <4>2 DEF LegacyColumns
    <3>3. QED
      BY <1>11, <3>1, <3>2
  <2>3. t.amount \in Int \cup {Null}
    BY AccountsAssumption
  <2>4. A3'
    BY <1>2, <2>1, <2>2, <2>3 DEF A3, OnWill
  <2>5. QED
    BY <1>5, <1>6, <1>8, <2>1, <2>4
<1>12. ASSUME NEW r \in Request, Rollback(r)
       PROVE  A1' /\ A2' /\ A3' /\ A4'
  <2>1. /\ UNCHANGED <<reg, assessment, legacy, paid>>
        /\ \A q \in Request : req'[q] = IF q = r THEN Idle ELSE req[q]
    BY <1>1, <1>12 DEF Rollback, accountVars
  <2>2. A4'
    BY <1>2, <2>1 DEF A4, Idle
  <2>3. QED
    BY <1>5, <1>6, <1>7, <2>1, <2>2
<1>13. ASSUME NEW r \in Request, NEW l \in Legacy, NEW n \in Payment, BeginPay(r, l, n)
       PROVE  A1' /\ A2' /\ A3' /\ A4'
  <2> DEFINE new == [kind |-> "pay", at |-> l, amount |-> n, alone |-> TRUE]
  <2>1. /\ UNCHANGED <<reg, assessment, legacy, paid>>
        /\ \A q \in Request : req'[q] = IF q = r THEN new ELSE req[q]
    BY <1>1, <1>13 DEF BeginPay, accountVars
  <2>2. new.amount \in Int
    BY AccountsAssumption
  <2> HIDE DEF new
  <2>3. A4'
    BY <1>2, <2>1, <2>2 DEF A4
  <2>4. QED
    BY <1>5, <1>6, <1>7, <2>1, <2>3
<1>14. ASSUME NEW r \in Request, NEW l \in Legacy, BeginArchive(r, l)
       PROVE  A1' /\ A2' /\ A3' /\ A4'
  <2> DEFINE new == [kind |-> "archive", at |-> l, total |-> paid[l],
                     alone |-> InFlight(l, "archive") = {}]
  <2>1. /\ UNCHANGED <<reg, assessment, legacy, paid>>
        /\ \A q \in Request : req'[q] = IF q = r THEN new ELSE req[q]
    BY <1>1, <1>14 DEF BeginArchive, accountVars
  <2>2. new.kind = "archive"
    OBVIOUS
  <2> HIDE DEF new
  <2>3. A4'
    BY <1>2, <2>1, <2>2 DEF A4
  <2>4. QED
    BY <1>5, <1>6, <1>7, <2>1, <2>3
<1>15. ASSUME NEW l, NEW q \in Request, NEW r \in Request,
              req' = [Overtaken(l, "archive") EXCEPT ![r] = Idle], req'[q].kind = "pay"
       PROVE  req'[q] = req[q]
  <2> DEFINE x == req[q]
  <2>1. CASE q = r
    BY <1>15, <2>1 DEF Overtaken, Idle
  <2>2. CASE q # r /\ x.kind = "archive" /\ x.at = l
    <3>1. req'[q] = [x EXCEPT !.alone = FALSE]
      BY <1>15, <2>2 DEF Overtaken
    <3>2. Shape(x)
      BY <1>1
    <3> HIDE DEF x
    <3>3. req'[q].kind = "archive"
      BY <2>2, <3>1, <3>2 DEF Shape
    <3>4. QED
      BY <1>15, <3>3
  <2>3. CASE q # r /\ ~(x.kind = "archive" /\ x.at = l)
    BY <1>15, <2>3 DEF Overtaken
  <2>4. QED
    BY <2>1, <2>2, <2>3
<1>16. ASSUME NEW r \in Request, CommitPay(r)
       PROVE  A1' /\ A2' /\ A3' /\ A4'
  <2> DEFINE l == req[r].at
             n == req[r].amount
  <2>1. /\ UNCHANGED <<reg, assessment, legacy>> /\ l \in Legacy /\ n \in Int
        /\ req' = [Overtaken(l, "archive") EXCEPT ![r] = Idle]
    BY <1>1, <1>2, <1>16 DEF CommitPay, Shape, A4
  <2>2. \A k \in Legacy : paid'[k] = IF k = l THEN paid[k] + n ELSE paid[k]
    BY <1>1, <1>16 DEF CommitPay
  <2> HIDE DEF l, n
  <2>3. A2'
    BY <1>2, <2>1, <2>2 DEF A2
  <2>4. A4'
    BY <1>2, <1>15, <2>1 DEF A4
  <2>5. QED
    BY <1>5, <1>7, <2>1, <2>3, <2>4
<1>17. ASSUME NEW r \in Request, CommitArchive(r)
       PROVE  A1' /\ A2' /\ A3' /\ A4'
  <2> DEFINE l == req[r].at
             old == legacy[l]
  <2>1. /\ req[r].kind = "archive" /\ UNCHANGED <<reg, assessment, paid>> /\ l \in Legacy
        /\ req' = [Overtaken(l, "archive") EXCEPT ![r] = Idle]
    BY <1>1, <1>17 DEF CommitArchive, Shape
  <2>2. \A k \in Legacy : k # l => legacy'[k] = legacy[k]
    BY <1>1, <1>17 DEF CommitArchive
  <2>3. legacy'[l] = [old EXCEPT !.state = "archived", !.total = req[r].total,
                          !.settled = req[r].alone /\ InFlight(l, "pay") = {}]
    BY <1>1, <1>17, <2>1 DEF CommitArchive
  <2>4. DOMAIN old = LegacyColumns /\ old.state \in {"live", "archived"}
    BY <2>1 DEF Settlement, ArchivesOnFile, LegacyShaped
  <2> HIDE DEF l, old
  <2>5. legacy'[l].amount = old.amount
    BY <2>3, <2>4 DEF LegacyColumns
  <2>6. old.amount \in Int \cup {Null}
    BY <1>2, <2>1, <2>4 DEF A3, OnWill, old
  <2>7. A3'
    BY <1>2, <2>1, <2>2, <2>5, <2>6 DEF A3, OnWill
  <2>8. A4'
    BY <1>2, <1>15, <2>1 DEF A4
  <2>9. QED
    BY <1>5, <1>6, <2>1, <2>7, <2>8
<1>18. QED
  BY <1>9, <1>10, <1>11, <1>12, <1>13, <1>14, <1>16, <1>17 DEF AccountsNext

LEMMA AmountsInvariant == Spec => []Amounts
<1>1. Init => Amounts
  <2> SUFFICES ASSUME Init PROVE Amounts
    OBVIOUS
  <2>1. /\ reg \in Registers /\ legacy \in Will
        /\ assessment = Null \/ \E tax \in Tax : assessment = Snapshot(tax, reg.assets)
    BY DEF Init, AccountsInit
  <2>2. assessment # Null => assessment.tax \in Int
    <3> SUFFICES ASSUME NEW tax \in Tax, assessment = Snapshot(tax, reg.assets)
                 PROVE  assessment.tax \in Int
      BY <2>1
    <3>1. assessment.tax = tax
      BY DEF Snapshot
    <3>2. QED
      BY <3>1, AccountsAssumption
  <2>3. \A l \in Legacy : paid[l] \in Int
    BY DEF Init, AccountsInit
  <2>4. \A l \in Legacy : OnWill(l) => legacy[l].amount \in Int \cup {Null}
    <3> SUFFICES ASSUME NEW l \in Legacy, OnWill(l)
                 PROVE  legacy[l].amount \in Int \cup {Null}
      OBVIOUS
    <3>1. legacy[l] = NoLegacy \/ legacy[l].amount \in Int \cup {Null}
      BY <2>1, AccountsAssumption
    <3>2. QED
      BY <3>1 DEF OnWill, NoLegacy
  <2>5. \A r \in Request : req[r].kind # "pay"
    BY DEF Init, Idle
  <2>6. QED
    BY <2>1, <2>2, <2>3, <2>4, <2>5 DEF Amounts
<1>2. Amounts /\ Settlement /\ [Next]_vars => Amounts'
  <2> SUFFICES ASSUME Amounts, Settlement, [Next]_vars PROVE Amounts'
    OBVIOUS
  <2>1. CASE UNCHANGED vars
    <3>1. /\ reg' = reg /\ assessment' = assessment /\ legacy' = legacy /\ paid' = paid
          /\ req' = req
      BY <2>1 DEF vars, accountVars
    <3>2. QED
      BY <3>1 DEF Amounts, OnWill
  <2>2. CASE PaperworkNext
    <3>1. /\ reg' = reg /\ assessment' = assessment /\ legacy' = legacy /\ paid' = paid
      BY <2>2, PaperLeavesAccounts
    <3>2. \A r \in Request : req'[r] = req[r] \/ req'[r].kind # "pay"
      BY <2>2, PaperLeavesPayments DEF Settlement
    <3>3. QED
      BY <3>1, <3>2 DEF Amounts, OnWill
  <2>3. QED
    BY <2>1, <2>2, AmountsAccounts DEF Next, Quiet
<1>3. QED
  BY <1>1, <1>2, SettlementInvariant, PTL DEF Spec


-----------------------------------------------------------------------------

LEMMA DivFloor ==
  ASSUME NEW a \in Int, NEW b \in Nat \ {0}
  PROVE  a \div b \in Int /\ b * (a \div b) <= a /\ a < b * (a \div b) + b
  OBVIOUS

\* Rounding to pence is off by half a penny at most.
LEMMA PenceRounds ==
  ASSUME NEW n \in Int, Whole \in Nat \ {0}
  PROVE  /\ Pence(n) \in Int
         /\ 2 * (Pence(n) * Whole - n) <= Whole /\ 2 * (n - Pence(n) * Whole) <= Whole
<1> DEFINE b == 2 * Whole
<1>1. b \in Nat \ {0}
  OBVIOUS
<1>2. CASE n >= 0
  <2> DEFINE a == 2 * n + Whole
             q == a \div b
  <2>1. a \in Int
    OBVIOUS
  <2>2. Pence(n) = q
    BY <1>2 DEF Pence
  <2> HIDE DEF a, b
  <2>3. q \in Int /\ b * q <= a /\ a < b * q + b
    BY <1>1, <2>1, DivFloor
  <2> HIDE DEF q
  <2>4. b * q = 2 * (q * Whole) /\ q * Whole \in Int
    BY <2>3 DEF b
  <2>5. QED
    BY <2>2, <2>3, <2>4 DEF a, b
<1>3. CASE ~(n >= 0)
  <2> DEFINE a == Whole - 2 * n
             q == a \div b
  <2>1. a \in Int
    OBVIOUS
  <2>2. Pence(n) = -q
    BY <1>3 DEF Pence
  <2> HIDE DEF a, b
  <2>3. q \in Int /\ b * q <= a /\ a < b * q + b
    BY <1>1, <2>1, DivFloor
  <2> HIDE DEF q
  <2>4. b * q = 2 * (q * Whole) /\ q * Whole \in Int /\ (-q) * Whole = -(q * Whole)
    BY <2>3 DEF b
  <2>5. QED
    BY <2>2, <2>3, <2>4 DEF a, b
<1>4. QED
  BY <1>2, <1>3

LEMMA Scaled ==
  ASSUME NEW x \in Int, NEW d \in Int, NEW t \in Nat, d <= t, -d <= t
  PROVE  Abs(x * d) <= Abs(x) * t
<1>1. x * d \in Int /\ x * t \in Int
  OBVIOUS
<1>2. CASE x >= 0
  <2>1. x * d <= x * t /\ x * (-d) <= x * t
    BY <1>2
  <2>2. x * (-d) = -(x * d)
    OBVIOUS
  <2>3. QED
    BY <1>1, <1>2, <2>1, <2>2 DEF Abs
<1>3. CASE x < 0
  <2> DEFINE y == -x
  <2>1. y \in Nat
    BY <1>3
  <2>2. y * d <= y * t /\ y * (-d) <= y * t
    BY <2>1
  <2>3. y * (-d) = -(y * d) /\ y * d = -(x * d) /\ y * d \in Int
    OBVIOUS
  <2>4. Abs(x) = y
    BY <1>3 DEF Abs
  <2> HIDE DEF y
  <2>5. QED
    BY <1>1, <2>1, <2>2, <2>3, <2>4 DEF Abs
<1>4. QED
  BY <1>2, <1>3

\* The registers hold amounts.
LEMMA RegistersTyped ==
  ASSUME Amounts
  PROVE  /\ IsFiniteSet(reg.assets) /\ IsFiniteSet(reg.liabilities) /\ IsFiniteSet(reg.costs)
         /\ \A a \in reg.assets : a.value \in Int /\ a.share \in Int \cup {Null} /\ a.income \in Int
         /\ \A x \in reg.liabilities : x.amount \in Int
         /\ \A x \in reg.costs : x.amount \in Int
         /\ Whole \in Nat \ {0}
  BY AccountsAssumption DEF Amounts

LEMMA EstateTyped ==
  ASSUME Amounts
  PROVE  /\ \A a \in reg.assets : EstateShare(a) \in Int
         /\ \A treatment : CostsOf(treatment) \in Int
         /\ Deductible \in Int /\ IncomeAccount \in Int /\ TaxDue \in Int
         /\ NetEstate \in Int /\ Administration \in Int
<1>1. /\ IsFiniteSet(reg.assets) /\ IsFiniteSet(reg.liabilities) /\ IsFiniteSet(reg.costs)
      /\ \A a \in reg.assets : a.value \in Int /\ a.share \in Int \cup {Null} /\ a.income \in Int
      /\ \A x \in reg.liabilities : x.amount \in Int
      /\ \A x \in reg.costs : x.amount \in Int
      /\ Whole \in Nat \ {0}
  BY RegistersTyped
<1>2. ASSUME NEW a \in reg.assets
      PROVE  EstateShare(a) \in Int
  <2>1. a.value \in Int /\ a.value * Whole \in Int
    BY <1>1
  <2>2. (IF a.share = Null THEN Whole ELSE a.share) \in Int
    BY <1>1
  <2>3. a.value * (IF a.share = Null THEN Whole ELSE a.share) \in Int
    BY <2>1, <2>2
  <2>4. QED
    BY <2>1, <2>3 DEF EstateShare
<1>3. ASSUME NEW treatment
      PROVE  CostsOf(treatment) \in Int
  <2> DEFINE f == [c \in reg.costs |-> c.amount]
             S == {c \in reg.costs : c.treatment = treatment}
  <2>1. IsFiniteSet(S)
    BY <1>1, FS_Subset
  <2>2. \A x \in S : f[x] \in Int
    BY <1>1
  <2> HIDE DEF f, S
  <2>3. SumOf(f, S) \in Int
    BY <2>1, <2>2, SumType
  <2>4. QED
    BY <2>3 DEF CostsOf, f, S
<1>4. Deductible \in Int
  <2> DEFINE f == [l \in reg.liabilities |-> l.amount]
             S == {l \in reg.liabilities : l.deductible}
  <2>1. IsFiniteSet(S)
    BY <1>1, FS_Subset
  <2>2. \A x \in S : f[x] \in Int
    BY <1>1
  <2> HIDE DEF f, S
  <2>3. SumOf(f, S) \in Int
    BY <2>1, <2>2, SumType
  <2>4. QED
    BY <2>3 DEF Deductible, f, S
<1>5. IncomeAccount \in Int
  <2> DEFINE f == [a \in reg.assets |-> a.income]
             S == {a \in reg.assets : ~a.outside}
  <2>1. IsFiniteSet(S)
    BY <1>1, FS_Subset
  <2>2. \A x \in S : f[x] \in Int
    BY <1>1
  <2> HIDE DEF f, S
  <2>3. SumOf(f, S) \in Int
    BY <2>1, <2>2, SumType
  <2>4. QED
    BY <2>3 DEF IncomeAccount, f, S
<1>6. TaxDue \in Int
  BY DEF TaxDue, Amounts
<1>7. NetEstate \in Int
  <2> DEFINE f == [a \in reg.assets |-> EstateShare(a)]
             n == SumOf(f, reg.assets) - (Deductible + CostsOf("funeral")) * Whole
  <2>1. \A x \in reg.assets : f[x] \in Int
    BY <1>2
  <2> HIDE DEF f
  <2>2. SumOf(f, reg.assets) \in Int
    BY <1>1, <2>1, SumType
  <2>3. n \in Int
    BY <1>1, <1>3, <1>4, <2>2
  <2> HIDE DEF n
  <2>4. Pence(n) \in Int
    BY <1>1, <2>3, PenceRounds
  <2>5. QED
    BY <2>4 DEF NetEstate, f, n
<1>8. Administration \in Int
  BY <1>3, <1>6 DEF Administration
<1>9. QED
  BY <1>2, <1>3, <1>4, <1>5, <1>6, <1>7, <1>8

\* The dashboard and the accounts add up the same shares.
LEMMA DashboardAgrees ==
  ASSUME Amounts
  PROVE  Abs(SummaryNet - NetEstate * Whole) * 2 <= Whole
<1>1. /\ IsFiniteSet(reg.assets) /\ Whole \in Nat \ {0}
      /\ \A a \in reg.assets : EstateShare(a) \in Int
      /\ Deductible \in Int /\ CostsOf("funeral") \in Int
  BY RegistersTyped, EstateTyped
<1> DEFINE Share(a) == CASE a.ownership = "sole" -> Whole
                         [] a.ownership = "tenants_in_common" /\ a.share # Null -> a.share
                         [] a.ownership = "tenants_in_common" /\ a.share = Null -> Whole
                         [] OTHER -> 0
           S == {a \in reg.assets : ~a.outside}
           f == [a \in reg.assets |-> EstateShare(a)]
           g == [a \in reg.assets |-> a.value * Share(a)]
           owed == (Deductible + CostsOf("funeral")) * Whole
<1>2. \A a \in reg.assets : f[a] \in Int /\ f[a] = EstateShare(a)
  BY <1>1
<1>3. ASSUME NEW a \in S
      PROVE  f[a] = g[a]
  <2>1. a.value \in Int
    BY RegistersTyped
  <2>2. a.value * 0 = 0
    BY <2>1
  <2>3. CASE a.ownership = "sole"
    BY <2>3 DEF EstateShare
  <2>4. CASE a.ownership = "tenants_in_common" /\ a.share # Null
    <3>1. Share(a) = a.share
      BY <2>4
    <3>2. EstateShare(a) = a.value * a.share
      BY <2>4 DEF EstateShare
    <3>3. QED
      BY <3>1, <3>2
  <2>5. CASE a.ownership = "tenants_in_common" /\ a.share = Null
    <3>1. Share(a) = Whole
      BY <2>5
    <3>2. EstateShare(a) = a.value * Whole
      BY <2>5 DEF EstateShare
    <3>3. QED
      BY <3>1, <3>2
  <2>6. CASE a.ownership \notin {"sole", "tenants_in_common"}
    BY <2>2, <2>6 DEF EstateShare
  <2>7. QED
    BY <2>3, <2>4, <2>5, <2>6
<1>4. \A a \in reg.assets \ S : f[a] = 0
  BY DEF EstateShare
<1>5. S \in SUBSET reg.assets /\ IsFiniteSet(S)
  BY <1>1, FS_Subset
<1>6. SummaryNet = SumOf(g, S) - owed
  BY DEF SummaryNet
<1>7. NetEstate = Pence(SumOf(f, reg.assets) - owed)
  BY DEF NetEstate
<1>8. owed \in Int
  BY <1>1
<1> HIDE DEF S, f, g, owed, Share
<1>9. SumOf(f, reg.assets) = SumOf(f, S)
  BY <1>1, <1>2, <1>4, <1>5, SumWithin
<1>10. SumOf(f, S) = SumOf(g, S) /\ SumOf(f, S) \in Int
  <2>1. \A a \in S : f[a] \in Int /\ f[a] = g[a]
    BY <1>2, <1>3, <1>5
  <2>2. QED
    BY <1>5, <2>1, SumEqual, SumType
<1> DEFINE n == SummaryNet
           p == NetEstate
<1>11. n \in Int /\ p = Pence(n)
  BY <1>6, <1>7, <1>8, <1>9, <1>10
<1> HIDE DEF n, p
<1>12. p \in Int /\ 2 * (p * Whole - n) <= Whole /\ 2 * (n - p * Whole) <= Whole
  BY <1>1, <1>11, PenceRounds
<1>13. Abs(n - p * Whole) * 2 <= Whole
  BY <1>1, <1>11, <1>12 DEF Abs
<1>14. QED
  BY <1>13 DEF n, p

LEMMA ResidueTyped ==
  ASSUME Amounts
  PROVE  Residue \in Int
<1> DEFINE f == [l \in Legacy |-> IF legacy[l].amount = Null THEN 0 ELSE legacy[l].amount]
<1>1. IsFiniteSet(Fixed)
  BY AccountsAssumption, FS_Subset DEF Fixed, LiveLegacies
<1>2. \A l \in Fixed : f[l] \in Int
  BY DEF Amounts, OnWill, Fixed, LiveLegacies
<1> HIDE DEF f
<1>3. SumOf(f, Fixed) \in Int
  BY <1>1, <1>2, SumType
<1>4. LegaciesTotal \in Int
  BY <1>3 DEF LegaciesTotal, f
<1>5. NetEstate \in Int /\ IncomeAccount \in Int /\ Administration \in Int
  BY EstateTyped
<1>6. QED
  BY <1>4, <1>5 DEF Residue

LEMMA SumScaled ==
  ASSUME NEW f, NEW h, NEW c \in Int, NEW S, IsFiniteSet(S),
         \A x \in S : f[x] \in Int /\ h[x] = c * f[x]
  PROVE  SumOf(h, S) = c * SumOf(f, S)
<1> DEFINE z == [x \in S |-> 0]
<1>1. SumOf(z, S) = 0
  <2>1. /\ {} \in SUBSET S /\ \A x \in S : z[x] \in Int
        /\ \A x \in S \ {} : z[x] = 0
    OBVIOUS
  <2> HIDE DEF z
  <2>2. SumOf(z, S) = SumOf(z, {})
    BY <2>1, SumWithin
  <2>3. QED
    BY <2>2, SumEmpty
<1>2. \A x \in S : f[x] \in Int /\ z[x] \in Int /\ h[x] = c * f[x] - z[x]
  OBVIOUS
<1> HIDE DEF z
<1>3. SumOf(h, S) = c * SumOf(f, S) - SumOf(z, S)
  BY <1>2, SumLinear
<1>4. SumOf(f, S) \in Int /\ c * SumOf(f, S) \in Int
  BY SumType
<1>5. QED
  BY <1>1, <1>3, <1>4

\* The last of a list.
LEMMA SumLast ==
  ASSUME NEW f, NEW n \in Nat \ {0}, \A i \in 1 .. n : f[i] \in Int
  PROVE  /\ SumOf(f, 1 .. n) = f[n] + SumOf(f, 1 .. n - 1)
         /\ SumOf(f, 1 .. n - 1) \in Int /\ IsFiniteSet(1 .. n - 1)
<1> DEFINE S == 1 .. n - 1
<1>1. 1 .. n = S \cup {n} /\ n \notin S
  OBVIOUS
<1>2. IsFiniteSet(S)
  BY FS_Interval
<1>3. \A y \in S \cup {n} : f[y] \in Int
  BY <1>1
<1> HIDE DEF S
<1>4. SumOf(f, S \cup {n}) = f[n] + SumOf(f, S)
  BY <1>1, <1>2, <1>3, SumAdd
<1>5. SumOf(f, S) \in Int
  BY <1>2, <1>3, SumType
<1>6. QED
  BY <1>1, <1>2, <1>4, <1>5 DEF S

\* The residuary legacies in the order in which the rows come.
LEMMA OrderFacts ==
  ASSUME NEW order \in Orders
  PROVE  /\ Len(order) \in Nat /\ IsFiniteSet(Residuary) /\ IsFiniteSet(1 .. Len(order))
         /\ order \in Bijection(1 .. Len(order), Residuary)
         /\ \A i \in 1 .. Len(order) : order[i] \in Residuary
         /\ Residuary = {} <=> Len(order) = 0
<1> DEFINE m == Cardinality(Residuary)
<1>1. IsFiniteSet(Residuary)
  BY AccountsAssumption, FS_Subset DEF Residuary, LiveLegacies
<1>2. m \in Nat /\ (Residuary = {} <=> m = 0)
  BY <1>1, FS_CardinalityType, FS_EmptySet
<1> HIDE DEF m
<1>3. order \in Bijection(1 .. m, Residuary)
  BY DEF Orders, m
<1>4. order \in [1 .. m -> Residuary]
  BY <1>3 DEF Bijection, Injection
<1>5. Len(order) = m
  BY <1>2, <1>4
<1>6. IsFiniteSet(1 .. m)
  BY <1>2, FS_Interval
<1>7. QED
  BY <1>1, <1>2, <1>3, <1>4, <1>5, <1>6

\* The amounts of the residuary legacies, in order.
AmountsOf(order) == [i \in 1 .. Len(order) |-> legacy[order[i]].amount]

LEMMA SharesAddUp ==
  ASSUME DrawnUp, NEW order \in Orders, Len(order) # 0
  PROVE  /\ \A i \in 1 .. Len(order) : AmountsOf(order)[i] \in Int
         /\ SumOf(AmountsOf(order), 1 .. Len(order)) \in Int
         /\ Whole - SumOf(AmountsOf(order), 1 .. Len(order)) <= Tolerance
         /\ -(Whole - SumOf(AmountsOf(order), 1 .. Len(order))) <= Tolerance
<1> DEFINE n == Len(order)
           f == [l \in Residuary |-> legacy[l].amount]
           g == AmountsOf(order)
           R == Residuary
<1>1. /\ n \in Nat /\ IsFiniteSet(R) /\ IsFiniteSet(1 .. n) /\ order \in Bijection(1 .. n, R)
      /\ \A i \in 1 .. n : order[i] \in R
      /\ R # {}
  BY OrderFacts
<1>2. /\ SumOf(f, R) - Whole <= Tolerance
      /\ -(SumOf(f, R) - Whole) <= Tolerance
      /\ Whole \in Nat
  BY <1>1, AccountsAssumption DEF DrawnUp
<1>3. \A l \in R : f[l] \in Int
  BY AccountsAssumption DEF DrawnUp
<1>4. \A i \in 1 .. n : g[i] = f[order[i]]
  BY <1>1 DEF AmountsOf
<1> HIDE DEF n, f, g, R
<1>5. SumOf(g, 1 .. n) = SumOf(f, R) /\ SumOf(f, R) \in Int
  <2> DEFINE I == 1 .. n
  <2>1. IsFiniteSet(I) /\ order \in Bijection(I, R) /\ \A i \in I : g[i] = f[order[i]]
    BY <1>1, <1>4
  <2> HIDE DEF I
  <2>2. SumOf(g, I) = SumOf(f, R)
    BY <1>3, <2>1, SumReindexed
  <2>3. SumOf(f, R) \in Int
    BY <1>1, <1>3, SumType
  <2>4. QED
    BY <2>2, <2>3 DEF I
<1>6. \A i \in 1 .. n : g[i] \in Int
  BY <1>1, <1>3, <1>4
<1>7. /\ SumOf(g, 1 .. n) \in Int /\ Whole - SumOf(g, 1 .. n) <= Tolerance
      /\ -(Whole - SumOf(g, 1 .. n)) <= Tolerance
  BY <1>2, <1>5, AccountsAssumption
<1>8. QED
  BY <1>6, <1>7 DEF n, g

\* The entitlements: rounded shares, and the last what they leave.
LEMMA EntitlementFacts ==
  ASSUME Amounts, DrawnUp, NEW order \in Orders, Len(order) # 0,
         NEW rounded,
         rounded = [k \in 1 .. Len(order) - 1 |-> Pence(Residue * legacy[order[k]].amount)]
  PROVE  /\ \A k \in 1 .. Len(order) - 1 :
              /\ Entitlement(order, k) = rounded[k] /\ rounded[k] \in Int
              /\ rounded[k] = Pence(Residue * AmountsOf(order)[k])
         /\ Entitlement(order, Len(order)) = Residue - SumOf(rounded, 1 .. Len(order) - 1)
         /\ SumOf(rounded, 1 .. Len(order) - 1) \in Int
         /\ IsFiniteSet(1 .. Len(order) - 1)
<1> DEFINE n == Len(order)
           residue == Residue
<1>1. n \in Nat \ {0} /\ residue \in Int /\ Whole \in Nat \ {0}
  BY OrderFacts, ResidueTyped, AccountsAssumption
<1>2. \A i \in 1 .. n : AmountsOf(order)[i] \in Int
  BY SharesAddUp
<1>3. ASSUME NEW k \in 1 .. n - 1
      PROVE  /\ Entitlement(order, k) = rounded[k] /\ rounded[k] \in Int
             /\ rounded[k] = Pence(residue * AmountsOf(order)[k])
  <2>1. k < n /\ k \in 1 .. n
    BY <1>1
  <2>2. AmountsOf(order)[k] = legacy[order[k]].amount
    BY <2>1 DEF AmountsOf
  <2>3. rounded[k] = Pence(residue * AmountsOf(order)[k])
    BY <2>2
  <2>4. Pence(residue * AmountsOf(order)[k]) \in Int
    <3> DEFINE x == residue * AmountsOf(order)[k]
    <3>1. x \in Int
      BY <1>1, <1>2, <2>1
    <3> HIDE DEF x
    <3>2. Pence(x) \in Int
      BY <1>1, <3>1, PenceRounds
    <3>3. QED
      BY <3>2 DEF x
  <2>5. Entitlement(order, k) = rounded[k]
    BY <2>1 DEF Entitlement
  <2>6. QED
    BY <2>3, <2>4, <2>5
<1>4. Entitlement(order, n) = residue - SumOf(rounded, 1 .. n - 1)
  BY <1>1 DEF Entitlement
<1>5. IsFiniteSet(1 .. n - 1)
  BY <1>1, FS_Interval
<1>6. SumOf(rounded, 1 .. n - 1) \in Int
  <2>1. \A k \in 1 .. n - 1 : rounded[k] \in Int
    BY <1>3
  <2>2. QED
    BY <1>5, <2>1, SumType
<1>7. QED
  BY <1>3, <1>4, <1>5, <1>6

\* To the penny.
LEMMA EntitlementsAddUp ==
  ASSUME Amounts, DrawnUp, NEW order \in Orders, Len(order) # 0,
         NEW due, \A i \in 1 .. Len(order) : due[i] = Entitlement(order, i)
  PROVE  /\ SumOf(due, 1 .. Len(order)) = Residue
         /\ \A i \in 1 .. Len(order) : due[i] \in Int
<1> DEFINE n == Len(order)
           residue == Residue
           rounded == [k \in 1 .. Len(order) - 1 |-> Pence(Residue * legacy[order[k]].amount)]
<1>1. n \in Nat \ {0} /\ residue \in Int
  BY OrderFacts, ResidueTyped
<1>2. /\ \A k \in 1 .. n - 1 : Entitlement(order, k) = rounded[k] /\ rounded[k] \in Int
      /\ Entitlement(order, n) = residue - SumOf(rounded, 1 .. n - 1)
      /\ SumOf(rounded, 1 .. n - 1) \in Int /\ IsFiniteSet(1 .. n - 1)
  BY EntitlementFacts
<1>3. \A i \in 1 .. n : due[i] = Entitlement(order, i)
  OBVIOUS
<1> HIDE DEF n, residue, rounded
<1>4. \A k \in 1 .. n - 1 : due[k] = rounded[k] /\ due[k] \in Int
  BY <1>1, <1>2, <1>3
<1>5. due[n] = residue - SumOf(rounded, 1 .. n - 1)
  BY <1>1, <1>2, <1>3
<1>6. \A i \in 1 .. n : due[i] \in Int
  <2> SUFFICES ASSUME NEW i \in 1 .. n PROVE due[i] \in Int
    OBVIOUS
  <2>1. CASE i = n
    BY <1>1, <1>2, <1>5, <2>1
  <2>2. CASE i # n
    <3>1. i \in 1 .. n - 1
      BY <1>1, <2>2
    <3>2. QED
      BY <1>4, <3>1
  <2>3. QED
    BY <2>1, <2>2
<1>7. SumOf(due, 1 .. n) = due[n] + SumOf(due, 1 .. n - 1)
  BY <1>1, <1>6, SumLast
<1>8. SumOf(due, 1 .. n - 1) = SumOf(rounded, 1 .. n - 1)
  BY <1>2, <1>4, SumEqual
<1>9. SumOf(due, 1 .. n) = residue
  BY <1>1, <1>2, <1>5, <1>7, <1>8
<1>10. QED
  BY <1>6, <1>9 DEF n, residue

\* Each share but the last is off by half a penny at most.
LEMMA ShareWithinPenny ==
  ASSUME Amounts, DrawnUp, NEW order \in Orders, Len(order) # 0, NEW i \in 1 .. Len(order) - 1
  PROVE  Abs(Entitlement(order, i) * Whole - Residue * legacy[order[i]].amount) * 2 <= Whole
<1> DEFINE p == Entitlement(order, i)
           m == Residue * legacy[order[i]].amount
<1>1. Len(order) \in Nat
  BY OrderFacts
<1>2. AmountsOf(order)[i] = legacy[order[i]].amount /\ AmountsOf(order)[i] \in Int
  BY <1>1, SharesAddUp DEF AmountsOf
<1>3. p = Pence(Residue * AmountsOf(order)[i])
  BY EntitlementFacts
<1>4. m \in Int /\ p = Pence(m) /\ Whole \in Nat \ {0}
  BY <1>2, <1>3, ResidueTyped, AccountsAssumption
<1> HIDE DEF p, m
<1>5. p \in Int /\ 2 * (p * Whole - m) <= Whole /\ 2 * (m - p * Whole) <= Whole
  BY <1>4, PenceRounds
<1>6. Abs(p * Whole - m) * 2 <= Whole
  BY <1>4, <1>5 DEF Abs
<1>7. QED
  BY <1>6 DEF p, m

\* The rounding of all shares but the last, in Whole-ths of a penny.
LEMMA RoundingBounded ==
  ASSUME NEW n \in Nat \ {0}, NEW residue \in Int, NEW g, NEW rounded, Whole \in Nat \ {0},
         \A k \in 1 .. n - 1 : g[k] \in Int /\ rounded[k] = Pence(residue * g[k])
  PROVE  /\ SumOf(g, 1 .. n - 1) \in Int /\ SumOf(rounded, 1 .. n - 1) \in Int
         /\ 2 * (Whole * SumOf(rounded, 1 .. n - 1) - residue * SumOf(g, 1 .. n - 1))
              <= (n - 1) * Whole
         /\ -(2 * (Whole * SumOf(rounded, 1 .. n - 1) - residue * SumOf(g, 1 .. n - 1)))
              <= (n - 1) * Whole
<1> DEFINE S == 1 .. n - 1
           m == [k \in S |-> residue * g[k]]
           e == [k \in S |-> Whole * rounded[k] - m[k]]
           e2 == [k \in S |-> 2 * e[k]]
<1>1. IsFiniteSet(S) /\ Cardinality(S) = n - 1
  <2>1. IsFiniteSet(1 .. n - 1)
    BY FS_Interval
  <2>2. 1 \in Int /\ n - 1 \in Int
    OBVIOUS
  <2>3. Cardinality(1 .. n - 1) = IF 1 > n - 1 THEN 0 ELSE (n - 1) - 1 + 1
    BY <2>2, FS_Interval
  <2>4. QED
    BY <2>1, <2>3
<1>2. /\ \A k \in S : g[k] \in Int /\ rounded[k] = Pence(residue * g[k])
      /\ \A k \in S : m[k] = residue * g[k]
      /\ \A k \in S : e[k] = Whole * rounded[k] - m[k]
      /\ \A k \in S : e2[k] = 2 * e[k]
  OBVIOUS
<1> HIDE DEF S, m, e, e2
<1>3. ASSUME NEW k \in S
      PROVE  /\ m[k] \in Int /\ rounded[k] \in Int
             /\ 2 * (rounded[k] * Whole - m[k]) <= Whole /\ 2 * (m[k] - rounded[k] * Whole) <= Whole
  <2>1. m[k] \in Int /\ rounded[k] = Pence(m[k])
    <3>1. g[k] \in Int /\ residue * g[k] \in Int
      BY <1>2
    <3>2. QED
      BY <1>2, <3>1
  <2>2. QED
    BY <2>1, PenceRounds
<1>4. ASSUME NEW k \in S
      PROVE  e[k] \in Int /\ e2[k] \in Int /\ e2[k] <= Whole /\ -e2[k] <= Whole
  <2>1. e[k] = Whole * rounded[k] - m[k] /\ e2[k] = 2 * e[k]
    BY <1>2
  <2>2. /\ m[k] \in Int /\ rounded[k] \in Int
        /\ 2 * (rounded[k] * Whole - m[k]) <= Whole /\ 2 * (m[k] - rounded[k] * Whole) <= Whole
    BY <1>3
  <2> DEFINE x == rounded[k]
             y == rounded[k] * Whole
  <2>3. y \in Int /\ Whole * rounded[k] = y
    BY <2>2
  <2> HIDE DEF y
  <2>4. 2 * (y - m[k]) <= Whole /\ 2 * (m[k] - y) <= Whole
    BY <2>2 DEF y
  <2>5. QED
    BY <2>1, <2>2, <2>3, <2>4
<1> DEFINE A == SumOf(g, S)
           P == SumOf(rounded, S)
<1>5. A \in Int /\ P \in Int /\ SumOf(e, S) \in Int
  <2>1. A \in Int
    BY <1>1, <1>2, SumType
  <2>2. P \in Int
    BY <1>1, <1>3, SumType
  <2>3. SumOf(e, S) \in Int
    BY <1>1, <1>4, SumType
  <2>4. QED
    BY <2>1, <2>2, <2>3
<1>6. SumOf(m, S) = residue * A
  BY <1>1, <1>2, SumScaled
<1>7. SumOf(e, S) = Whole * P - SumOf(m, S)
  <2>1. \A k \in S : rounded[k] \in Int /\ m[k] \in Int /\ e[k] = Whole * rounded[k] - m[k]
    BY <1>2, <1>3
  <2>2. Whole \in Int
    OBVIOUS
  <2>3. QED
    BY <1>1, <2>1, <2>2, SumLinear
<1>8. SumOf(e2, S) = 2 * SumOf(e, S)
  <2>1. \A k \in S : e[k] \in Int /\ e2[k] = 2 * e[k]
    BY <1>2, <1>4
  <2>2. 2 \in Int
    OBVIOUS
  <2>3. QED
    BY <1>1, <2>1, <2>2, SumScaled
<1>9. SumOf(e2, S) <= (n - 1) * Whole /\ -SumOf(e2, S) <= (n - 1) * Whole
  <2>1. \A k \in S : e2[k] \in Int /\ e2[k] <= Whole /\ -e2[k] <= Whole
    BY <1>4
  <2>2. Whole \in Int
    OBVIOUS
  <2>3. SumOf(e2, S) <= Cardinality(S) * Whole /\ -SumOf(e2, S) <= Cardinality(S) * Whole
    BY <1>1, <2>1, <2>2, SumBound
  <2>4. QED
    BY <1>1, <2>3
<1>10. SumOf(e2, S) = 2 * (Whole * P - residue * A)
  BY <1>6, <1>7, <1>8
<1>11. /\ 2 * (Whole * P - residue * A) <= (n - 1) * Whole
       /\ -(2 * (Whole * P - residue * A)) <= (n - 1) * Whole
  BY <1>9, <1>10
<1>12. QED
  BY <1>5, <1>11 DEF A, P, S

\* The last share makes up for the rounding of the others, and takes the part of the
\* residue that the shares do not add up to.
LEMMA LastShareWithin ==
  ASSUME Amounts, DrawnUp, NEW order \in Orders, Len(order) # 0
  PROVE  Abs(Entitlement(order, Len(order)) * Whole
               - Residue * legacy[order[Len(order)]].amount) * 2
           <= (Len(order) - 1) * Whole + 2 * Abs(Residue) * Tolerance
<1> DEFINE n == Len(order)
           x == Residue
           g == AmountsOf(order)
           rounded == [k \in 1 .. Len(order) - 1 |-> Pence(Residue * legacy[order[k]].amount)]
           S == 1 .. n - 1
           p == Entitlement(order, n)
<1>1. n \in Nat \ {0} /\ x \in Int /\ Whole \in Nat \ {0} /\ Tolerance \in Nat
  BY OrderFacts, ResidueTyped, AccountsAssumption
<1>2. /\ \A i \in 1 .. n : g[i] \in Int
      /\ SumOf(g, 1 .. n) \in Int
      /\ Whole - SumOf(g, 1 .. n) <= Tolerance /\ -(Whole - SumOf(g, 1 .. n)) <= Tolerance
  BY SharesAddUp
<1>3. /\ \A k \in S : rounded[k] = Pence(x * g[k])
      /\ p = x - SumOf(rounded, S)
  BY EntitlementFacts
<1>4. legacy[order[n]].amount = g[n]
  BY <1>1 DEF AmountsOf
<1> DEFINE a == g[n]
           m == x * legacy[order[n]].amount
<1>5. m = x * a /\ a \in Int
  BY <1>1, <1>2, <1>4
<1> HIDE DEF n, x, g, rounded, p, m
<1>6. /\ SumOf(g, S) \in Int /\ SumOf(rounded, S) \in Int
      /\ 2 * (Whole * SumOf(rounded, S) - x * SumOf(g, S)) <= (n - 1) * Whole
      /\ -(2 * (Whole * SumOf(rounded, S) - x * SumOf(g, S))) <= (n - 1) * Whole
  <2>1. \A k \in S : g[k] \in Int /\ rounded[k] = Pence(x * g[k])
    BY <1>1, <1>2, <1>3
  <2>2. QED
    BY <1>1, <2>1, RoundingBounded
<1>7. SumOf(g, 1 .. n) = a + SumOf(g, S)
  BY <1>1, <1>2, SumLast
<1> DEFINE A == SumOf(g, S)
           P == SumOf(rounded, S)
           d == Whole - (a + A)
<1>8. A \in Int /\ P \in Int /\ p = x - P
  BY <1>3, <1>6
<1>9. d \in Int /\ d <= Tolerance /\ -d <= Tolerance
  BY <1>1, <1>2, <1>5, <1>7, <1>8
<1>10. /\ 2 * (Whole * P - x * A) <= (n - 1) * Whole
       /\ -(2 * (Whole * P - x * A)) <= (n - 1) * Whole
  BY <1>6
<1> HIDE DEF a, A, P, S
<1>11. x * d = x * Whole - x * a - x * A
  BY <1>1, <1>5, <1>8
<1>12. p * Whole = x * Whole - Whole * P
  BY <1>1, <1>8
<1>13. x * d \in Int /\ x * Whole \in Int /\ x * a \in Int /\ x * A \in Int /\ Whole * P \in Int
  BY <1>1, <1>5, <1>8, <1>9
<1> DEFINE xd == x * d
           E == Whole * P - x * A
           N == (n - 1) * Whole
           b == Abs(x) * Tolerance
<1>14. p * Whole - m = xd - E
  BY <1>5, <1>11, <1>12, <1>13
<1>15. xd \in Int /\ E \in Int /\ N \in Int /\ b \in Int
  BY <1>1, <1>13 DEF Abs
<1>16. Abs(xd) <= b
  BY <1>1, <1>9, Scaled
<1>17. 2 * E <= N /\ -(2 * E) <= N
  BY <1>10
<1>18. 2 * Abs(x) * Tolerance = 2 * b
  BY <1>1 DEF Abs
<1> HIDE DEF xd, E, N, b
<1>19. Abs(xd - E) * 2 <= N + 2 * b
  BY <1>15, <1>16, <1>17 DEF Abs
<1> DEFINE w == p * Whole - m
<1>20. Abs(w) * 2 <= N + 2 * b
  BY <1>14, <1>19
<1>21. QED
  BY <1>18, <1>20 DEF N, p, m, n, x, w

LEMMA Reconciled ==
  ASSUME Amounts
  PROVE  AccountsReconcile
<1>1. ASSUME DrawnUp, NEW order \in Orders,
             NEW n, n = Len(order), NEW due, due = [i \in 1 .. n |-> Entitlement(order, i)]
      PROVE  /\ n > 0 => SumOf(due, 1 .. n) = Residue
             /\ \A i \in 1 .. n - 1 :
                  Abs(due[i] * Whole - Residue * legacy[order[i]].amount) * 2 <= Whole
             /\ n > 0 => Abs(due[n] * Whole - Residue * legacy[order[n]].amount) * 2
                           <= (n - 1) * Whole + 2 * Abs(Residue) * Tolerance
  <2>1. n \in Nat
    BY <1>1, OrderFacts
  <2>2. \A i \in 1 .. n : due[i] = Entitlement(order, i)
    BY <1>1
  <2>3. ASSUME n > 0
        PROVE  SumOf(due, 1 .. n) = Residue
    <3>1. Len(order) # 0
      BY <1>1, <2>1, <2>3
    <3>2. \A i \in 1 .. Len(order) : due[i] = Entitlement(order, i)
      BY <1>1, <2>2
    <3>3. SumOf(due, 1 .. Len(order)) = Residue
      BY <1>1, <3>1, <3>2, EntitlementsAddUp
    <3>4. QED
      BY <1>1, <3>3
  <2>4. ASSUME NEW i \in 1 .. n - 1
        PROVE  Abs(due[i] * Whole - Residue * legacy[order[i]].amount) * 2 <= Whole
    <3>1. Len(order) # 0 /\ i \in 1 .. Len(order) - 1 /\ i \in 1 .. n
      BY <1>1, <2>1
    <3>2. Abs(Entitlement(order, i) * Whole - Residue * legacy[order[i]].amount) * 2 <= Whole
      BY <1>1, <3>1, ShareWithinPenny
    <3>3. due[i] = Entitlement(order, i)
      BY <2>2, <3>1
    <3>4. QED
      BY <3>2, <3>3
  <2>5. ASSUME n > 0
        PROVE  Abs(due[n] * Whole - Residue * legacy[order[n]].amount) * 2
                 <= (n - 1) * Whole + 2 * Abs(Residue) * Tolerance
    <3>1. Len(order) # 0 /\ n \in 1 .. n
      BY <1>1, <2>1, <2>5
    <3>2. Abs(Entitlement(order, Len(order)) * Whole
               - Residue * legacy[order[Len(order)]].amount) * 2
           <= (Len(order) - 1) * Whole + 2 * Abs(Residue) * Tolerance
      BY <1>1, <3>1, LastShareWithin
    <3>3. due[n] = Entitlement(order, n)
      BY <2>2, <3>1
    <3>4. QED
      BY <1>1, <3>2, <3>3
  <2>6. QED
    BY <2>3, <2>4, <2>5
<1>2. Abs(SummaryNet - NetEstate * Whole) * 2 <= Whole
  BY DashboardAgrees
<1>3. QED
  BY <1>1, <1>2 DEF AccountsReconcile

\* The accounts always reconcile: the entitlements make up the residue to the penny in
\* whatever order the rows come, every share is as near to its fraction as its rounding
\* allows, and the dashboard shows the net estate of the accounts (compute_accounts,
\* estate_summary).
THEOREM AccountsAlwaysReconcile == Spec => []AccountsReconcile
<1>1. Amounts => AccountsReconcile
  BY Reconciled
<1>2. QED
  BY <1>1, AmountsInvariant, PTL

\* A beneficiary whose payments are all recorded against one residuary legacy is charged
\* with what was paid against that legacy.
LEMMA InterimOfOne ==
  ASSUME Amounts, NEW l \in Residuary,
         \A k \in Legacy \ {l} :
           legacy[k].state # "absent" /\ legacy[k].type = "residuary"
             /\ legacy[k].contact = legacy[l].contact => paid[k] = 0
  PROVE  Interim(legacy[l].contact) = paid[l] /\ paid[l] \in Int
<1> DEFINE S == {k \in Legacy : legacy[k].state # "absent" /\ legacy[k].type = "residuary"
                                  /\ legacy[k].contact = legacy[l].contact}
<1>1. l \in S /\ l \in Legacy
  BY DEF Residuary, LiveLegacies
<1>2. IsFiniteSet(S)
  BY AccountsAssumption, FS_Subset
<1>3. /\ \A k \in S : paid[k] \in Int
      /\ \A k \in S \ {l} : paid[k] = 0
  BY DEF Amounts
<1>4. Interim(legacy[l].contact) = SumOf(paid, S)
  BY DEF Interim
<1> HIDE DEF S
<1>5. SumOf(paid, S) = SumOf(paid, {l})
  BY <1>1, <1>2, <1>3, SumWithin
<1>6. SumOf(paid, {} \cup {l}) = paid[l] + SumOf(paid, {})
  <2>1. IsFiniteSet({}) /\ l \notin {} /\ \A y \in {} \cup {l} : paid[y] \in Int
    BY <1>1, <1>3, FS_EmptySet
  <2>2. QED
    BY <2>1, SumAdd
<1>7. SumOf(paid, {}) = 0 /\ {} \cup {l} = {l} /\ paid[l] \in Int
  BY <1>1, <1>3, SumEmpty
<1>8. QED
  BY <1>4, <1>5, <1>6, <1>7

\* A beneficiary paid in advance on two legacies.
PaidTwice(l, k) ==
  /\ legacy[k].state # "absent" /\ legacy[k].type = "residuary"
  /\ legacy[k].contact = legacy[l].contact
  /\ paid[k] # 0 \/ (k \in Residuary /\ paid[l] # 0)

LEMMA RemainderAddsUp ==
  ASSUME Amounts, DrawnUp, NEW order \in Orders, Residuary # {},
         \A l \in Residuary : \A k \in Legacy \ {l} : ~PaidTwice(l, k),
         NEW left, \A i \in 1 .. Len(order) : left[i] = RemainingDue(order, i)
  PROVE  SumOf(left, 1 .. Len(order)) + SumOf(paid, Residuary) = Residue
<1> DEFINE n == Len(order)
           I == 1 .. n
           R == Residuary
           due == [i \in 1 .. Len(order) |-> Entitlement(order, i)]
           g == [i \in 1 .. Len(order) |-> paid[order[i]]]
<1>1. /\ n # 0 /\ n \in Nat /\ IsFiniteSet(R) /\ IsFiniteSet(I) /\ order \in Bijection(I, R)
      /\ \A i \in I : order[i] \in R
  BY OrderFacts
<1>2. /\ SumOf(due, I) = Residue /\ \A i \in I : due[i] \in Int
  <2>1. \A i \in 1 .. Len(order) : due[i] = Entitlement(order, i)
    OBVIOUS
  <2>2. Len(order) # 0
    BY <1>1
  <2> HIDE DEF due
  <2>3. QED
    BY <2>1, <2>2, EntitlementsAddUp
<1>3. ASSUME NEW i \in I
      PROVE  left[i] = 1 * due[i] - g[i] /\ g[i] \in Int /\ g[i] = paid[order[i]]
  <2> DEFINE l == order[i]
  <2>1. l \in Residuary /\ l \in Legacy
    BY <1>1 DEF Residuary, LiveLegacies
  <2>2. \A k \in Legacy \ {l} : ~PaidTwice(l, k)
    BY <2>1
  <2> HIDE DEF l
  <2>3. Interim(legacy[l].contact) = paid[l] /\ paid[l] \in Int
    <3>1. \A k \in Legacy \ {l} :
           legacy[k].state # "absent" /\ legacy[k].type = "residuary"
             /\ legacy[k].contact = legacy[l].contact => paid[k] = 0
      BY <2>2 DEF PaidTwice
    <3>2. QED
      BY <2>1, <3>1, InterimOfOne
  <2>4. left[i] = Entitlement(order, i) - Interim(legacy[order[i]].contact)
    BY DEF RemainingDue
  <2>5. due[i] = Entitlement(order, i) /\ g[i] = paid[order[i]] /\ due[i] \in Int
    BY <1>2
  <2>6. left[i] = due[i] - paid[l] /\ g[i] = paid[l]
    BY <2>3, <2>4, <2>5 DEF l
  <2> HIDE DEF due, g
  <2>7. QED
    BY <2>3, <2>5, <2>6
<1>4. \A x \in R : paid[x] \in Int
  BY DEF Amounts, Residuary, LiveLegacies
<1> HIDE DEF n, I, R, due, g
<1>5. SumOf(left, I) = 1 * SumOf(due, I) - SumOf(g, I)
  <2>1. \A i \in I : due[i] \in Int /\ g[i] \in Int /\ left[i] = 1 * due[i] - g[i]
    BY <1>2, <1>3
  <2>2. 1 \in Int
    OBVIOUS
  <2>3. QED
    BY <1>1, <2>1, <2>2, SumLinear
<1>6. SumOf(g, I) = SumOf(paid, R)
  <2>1. \A i \in I : g[i] = paid[order[i]]
    BY <1>3
  <2>2. QED
    BY <1>1, <1>4, <2>1, SumReindexed
<1>7. SumOf(paid, R) \in Int
  BY <1>1, <1>4, SumType
<1>8. Residue \in Int
  BY ResidueTyped
<1>9. SumOf(left, I) + SumOf(paid, R) = Residue
  BY <1>2, <1>5, <1>6, <1>7, <1>8
<1>10. QED
  BY <1>9 DEF I, n, R

LEMMA CountedOnce ==
  ASSUME Amounts
  PROVE  PaymentsCountedOnce
<1> SUFFICES ASSUME DrawnUp, Residuary # {},
                    \A l \in Residuary : \A k \in Legacy \ {l} : ~PaidTwice(l, k),
                    NEW order \in Orders
             PROVE  SumOf([i \in 1 .. Len(order) |-> RemainingDue(order, i)], 1 .. Len(order))
                      + SumOf(paid, Residuary) = Residue
  BY DEF PaymentsCountedOnce, PaidTwice
<1> DEFINE left == [i \in 1 .. Len(order) |-> RemainingDue(order, i)]
<1>1. \A i \in 1 .. Len(order) : left[i] = RemainingDue(order, i)
  OBVIOUS
<1> HIDE DEF left
<1>2. SumOf(left, 1 .. Len(order)) + SumOf(paid, Residuary) = Residue
  BY <1>1, RemainderAddsUp
<1>3. QED
  BY <1>2 DEF left

\* What is due and what was paid make up the residue, whatever the legacies, unless a
\* beneficiary was paid in advance on two residuary legacies (the interim query of
\* estate_accounts): the exception the property names is the only one there is.
THEOREM PaymentsAreCountedOnce == Spec => []PaymentsCountedOnce
<1>1. Amounts => PaymentsCountedOnce
  BY CountedOnce
<1>2. QED
  BY <1>1, AmountsInvariant, PTL
====
