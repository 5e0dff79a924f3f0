----------------------------- MODULE Paperwork -----------------------------
(***************************************************************************)
(* Drafts, their approval and the exports (app/agents/graphs/              *)
(* forms_draft.py and iht_narration.py, app/api/agent_drafts.py,           *)
(* approvals.py and exports.py), beside the estate accounts, which are     *)
(* exported too.                                                           *)
(*                                                                         *)
(* An agent stores a draft as a document with a pending approval; a person *)
(* approves it; an export renders it and stores the result.  The approval  *)
(* names the document: the text behind it is whichever version was         *)
(* uploaded last.  Every field of a FormsDraftPayload has a default, so    *)
(* the JSON of a letter passes for a pack.  A request reads, then commits. *)
(***************************************************************************)
EXTENDS EstateAccounts

CONSTANTS
  Draft,     \* ids of draft documents
  Text,      \* what the file of a version may say
  Reading,   \* what POST /exports/iht-draft makes of a text, see below
  FormCode,  \* what POST /agents/draft-form may ask for; Null is the whole pack
  MaxDraftAttempts,
  MaxApprovals  \* bound: approval rows

VARIABLES
  draft,     \* the draft documents
  approval,  \* the approval rows, in order of approved_at, the pending ones first
  last       \* the latest export

paperVars == <<draft, approval, last>>
vars == <<accountVars, req, writes, paperVars>>

NoDraft == [state |-> "absent"]
NoExport == [kind |-> "none"]

\* A JSON object the payload accepts, any other object or no JSON at all, and JSON that
\* is no object (the agents write objects).
ASSUME PaperworkAssumption ==
  /\ Null \notin Text /\ MaxDraftAttempts \in Nat \ {0} /\ MaxApprovals \in Nat
  /\ Reading \in [Text -> {"pack", "other", "list"}]

-----------------------------------------------------------------------------
(* build_form_drafts.                                                      *)

\* _schedule_for_asset: an explicit override first, then what the category maps to.
ScheduleFor(a) == IF a.override # Null THEN a.override ELSE a.schedule

\* The forms: all that the assessment requires, or the one that was asked for, required
\* or not.
Forms(codes, wanted) == IF wanted = Null THEN {MainForm} \cup codes ELSE {wanted}

\* The assets each form lists; an asset that is on no form is in no gap either.
FormsDraft(assets, codes, wanted) ==
  [f \in Forms(codes, wanted) |->
     IF f = MainForm THEN {} ELSE {a \in assets : ScheduleFor(a) = f}]

-----------------------------------------------------------------------------
(* Drafts.                                                                 *)

\* POST /agents/draft-form, its reads: 409 without an assessment, which is read before
\* the assets and not compared with them.
BeginForms(r, d, wanted) ==
  /\ req[r].kind = "idle"
  /\ draft[d].state = "absent"
  /\ assessment # Null
  /\ Counted
  /\ req' = [req EXCEPT ![r] =
       [kind |-> "draft", at |-> d, of |-> "iht400_draft",
        forms |-> FormsDraft(reg.assets, assessment.codes, wanted),
        assets |-> reg.assets, current |-> assessment.assets = reg.assets,
        whole |-> wanted = Null]]
  /\ UNCHANGED <<accountVars, paperVars>>

\* POST /agents/draft-letter: the contact's details, then the text.
BeginLetter(r, d) ==
  /\ req[r].kind = "idle"
  /\ draft[d].state = "absent"
  /\ Counted
  /\ req' = [req EXCEPT ![r] = [kind |-> "draft", at |-> d, of |-> "notification_letter"]]
  /\ UNCHANGED <<accountVars, paperVars>>

\* POST /agents/draft-narration: 409 without an assessment.
BeginNarration(r, d) ==
  /\ req[r].kind = "idle"
  /\ draft[d].state = "absent"
  /\ assessment # Null
  /\ Counted
  /\ req' = [req EXCEPT ![r] = [kind |-> "narrate", at |-> d, attempts |-> 0]]
  /\ UNCHANGED <<accountVars, paperVars>>

\* A narration is drafted and its figures are looked up in the snapshot.  One that fails
\* goes back with feedback; the last one is stored as it is, flagged.
Narrate(r, valid) ==
  LET n == req[r].attempts + 1 IN
  /\ req[r].kind = "narrate"
  /\ req' = [req EXCEPT ![r] =
       IF valid \/ n >= MaxDraftAttempts
       THEN [kind |-> "draft", at |-> req[r].at, of |-> "iht_narration", validated |-> valid]
       ELSE [req[r] EXCEPT !.attempts = n]]
  /\ UNCHANGED <<accountVars, paperVars, writes>>

\* The file, the document row, the pending approval and the audit event, one commit.
\* pack is what an agent drafted, whatever was uploaded later; approved and changed are
\* histories: the texts approvals were given to, and whether the text changed after the
\* last of them.
StoreDraft(r, t) ==
  LET q == req[r] IN
  /\ q.kind = "draft"
  /\ Reading[t] = "pack"
  /\ draft[q.at].state = "absent"
  /\ Len(approval) < MaxApprovals
  /\ draft' = [draft EXCEPT ![q.at] =
       [state |-> "live", of |-> q.of, text |-> t, approved |-> {}, changed |-> FALSE,
        pack |-> IF q.of = "iht400_draft"
                 THEN [forms |-> q.forms, assets |-> q.assets, current |-> q.current,
                       whole |-> q.whole]
                 ELSE Null]]
  /\ approval' = <<[draft |-> q.at, of |-> q.of, given |-> FALSE, recorded |-> FALSE]>>
                   \o approval
  /\ req' = [req EXCEPT ![r] = Idle]
  /\ UNCHANGED <<accountVars, last, writes>>

\* POST /documents/{id}/versions: any live document takes a new file; its approvals stay.
UploadVersion(d, t) ==
  /\ draft[d].state = "live"
  /\ Counted
  /\ draft' = [draft EXCEPT ![d].text = t, ![d].changed = TRUE]
  /\ req' = [q \in Request |->
       IF req[q].kind \in {"letter", "found"} THEN [req[q] EXCEPT !.alone = FALSE] ELSE req[q]]
  /\ UNCHANGED <<accountVars, approval, last>>

ArchiveDraft(d) ==
  /\ draft[d].state = "live"
  /\ Counted
  /\ draft' = [draft EXCEPT ![d].state = "archived"]
  /\ UNCHANGED <<accountVars, approval, last, req>>

-----------------------------------------------------------------------------
(* Approvals.                                                              *)

\* The person who approves sees the text of the document as it is.
Seen(d) == draft' = [draft EXCEPT ![d].approved = @ \cup {draft[d].text}, ![d].changed = FALSE]

\* POST /agents/drafts/{id}/approve: 409 when the row is approved.  It takes its place
\* among the approvals, the latest last.
Approve(i) ==
  /\ ~approval[i].given
  /\ Counted
  /\ approval' = Append(SubSeq(approval, 1, i - 1) \o SubSeq(approval, i + 1, Len(approval)),
                        [approval[i] EXCEPT !.given = TRUE])
  /\ Seen(approval[i].draft)
  /\ UNCHANGED <<accountVars, last, req>>

\* POST /approvals: a row that is given at once, for any reference and kind; nothing is
\* looked up.  recorded tells it from the approval of a draft.
RecordApproval(d, kind) ==
  /\ draft[d].state # "absent"
  /\ Len(approval) < MaxApprovals
  /\ Counted
  /\ approval' = Append(approval, [draft |-> d, of |-> kind, given |-> TRUE, recorded |-> TRUE])
  /\ Seen(d)
  /\ UNCHANGED <<accountVars, last, req>>

\* Faulty variant: the row that waits for its approval will do.
ApprovedOrPending(d) == \E i \in DOMAIN approval : approval[i].draft = d

\* _approved: an approval of whatever kind.
Approved(d) == \E i \in DOMAIN approval : approval[i].draft = d /\ approval[i].given

-----------------------------------------------------------------------------
(* Exports.                                                                *)

\* POST /exports/letter/{id}: the row is loaded, with the key of its file; any live
\* document will do.
BeginExportLetter(r, d) ==
  /\ req[r].kind = "idle"
  /\ draft[d].state = "live"
  /\ Counted
  /\ req' = [req EXCEPT ![r] =
       [kind |-> "letter", at |-> d, text |-> draft[d].text, alone |-> TRUE]]
  /\ UNCHANGED <<accountVars, paperVars>>

\* 409 when it is not approved by now; the text is the one loaded before.
CommitExportLetter(r) ==
  LET q == req[r] IN
  /\ q.kind = "letter"
  /\ Approved(q.at)
  /\ last' = [kind |-> "letter", draft |-> q.at, text |-> q.text,
              asApproved |-> q.alone /\ ~draft[q.at].changed]
  /\ req' = [req EXCEPT ![r] = Idle]
  /\ UNCHANGED <<accountVars, draft, approval, writes>>

\* Faulty variant: an approval of any kind makes its document a pack.
ApprovedDrafts == {<<i, approval[i]>> : i \in {i \in DOMAIN approval : approval[i].given}}

\* The approvals given as IHT400 packs, with their places: the latest is the last.
ApprovedPacks ==
  {<<i, approval[i]>> : i \in {i \in DOMAIN approval :
     approval[i].given /\ approval[i].of = "iht400_draft"}}

\* POST /exports/iht-draft without a body: the approvals are looked up.
BeginExportPack(r) ==
  /\ req[r].kind = "idle"
  /\ Counted
  /\ req' = [req EXCEPT ![r] = [kind |-> "pack", among |-> ApprovedPacks]]
  /\ UNCHANGED <<accountVars, paperVars>>

\* Then their documents, the latest approved first, up to the first that is live and
\* reads as a pack, whatever was drafted.  When none is left the answer is 404, and JSON
\* that is no object is an error.
LookAtDraft(r) ==
  /\ req[r].kind = "pack"
  /\ \E p \in req[r].among :
       LET d == p[2].draft
           live == draft[d].state = "live"
           reading == Reading[draft[d].text]
       IN
       /\ \A k \in req[r].among : k[1] <= p[1]
       /\ \/ /\ ~live \/ reading = "other"
             /\ req' = [req EXCEPT ![r].among = @ \ {p}]
          \/ /\ live /\ reading = "pack"
             /\ req' = [req EXCEPT ![r] = [kind |-> "found", at |-> d, text |-> draft[d].text,
                                           recorded |-> p[2].recorded, alone |-> TRUE]]
  /\ UNCHANGED <<accountVars, paperVars, writes>>

\* The pack as it was read is stored.
CommitExportPack(r) ==
  LET q == req[r] IN
  /\ q.kind = "found"
  /\ last' = [kind |-> "pack", draft |-> q.at, text |-> q.text, recorded |-> q.recorded,
              asApproved |-> q.alone /\ ~draft[q.at].changed]
  /\ req' = [req EXCEPT ![r] = Idle]
  /\ UNCHANGED <<accountVars, draft, approval, writes>>

\* POST /exports/clearance-draft: the latest assessment, 404 without one.
ExportClearance ==
  /\ assessment # Null
  /\ Counted
  /\ last' = [kind |-> "clearance", tax |-> assessment.tax]
  /\ UNCHANGED <<accountVars, draft, approval, req>>

\* POST /exports/estate-accounts: the accounts, an error when they cannot be drawn up.
BeginExportAccounts(r) ==
  /\ req[r].kind = "idle"
  /\ DrawnUp
  /\ Counted
  /\ req' = [req EXCEPT ![r] = [kind |-> "accounts"]]
  /\ UNCHANGED <<accountVars, paperVars>>

\* Then the beneficiaries, read by a query of its own, and the commit.
CommitExportAccounts(r) ==
  /\ req[r].kind = "accounts"
  /\ last' = [kind |-> "accounts", listed |-> LiveLegacies]
  /\ req' = [req EXCEPT ![r] = Idle]
  /\ UNCHANGED <<accountVars, draft, approval, writes>>

-----------------------------------------------------------------------------

Init ==
  /\ AccountsInit
  /\ draft = [d \in Draft |-> NoDraft]
  /\ approval = <<>>
  /\ last = NoExport
  /\ req = [r \in Request |-> Idle]
  /\ writes = 0

\* At the bound, with no request in flight, nothing more happens.
Quiet ==
  /\ writes = MaxWrites
  /\ \A r \in Request : req[r] = Idle
  /\ UNCHANGED vars

PaperworkNext ==
  \/ ExportClearance
  \/ \E i \in DOMAIN approval : Approve(i)
  \/ \E d \in Draft :
       \/ \E t \in Text : UploadVersion(d, t)
       \/ ArchiveDraft(d)
       \/ \E kind \in {"iht400_draft", "notification_letter"} : RecordApproval(d, kind)
  \/ \E r \in Request :
       \/ \E d \in Draft :
            \/ \E f \in FormCode : BeginForms(r, d, f)
            \/ BeginLetter(r, d)
            \/ BeginNarration(r, d)
            \/ BeginExportLetter(r, d)
       \/ \E valid \in BOOLEAN : Narrate(r, valid)
       \/ \E t \in Text : StoreDraft(r, t)
       \/ CommitExportLetter(r)
       \/ BeginExportPack(r)
       \/ LookAtDraft(r)
       \/ CommitExportPack(r)
       \/ BeginExportAccounts(r)
       \/ CommitExportAccounts(r)

Next ==
  \/ Quiet
  \/ AccountsNext /\ UNCHANGED paperVars
  \/ PaperworkNext

Spec == Init /\ [][Next]_vars
-----------------------------------------------------------------------------
(* Correctness.                                                            *)

\* "drafts are never sent or exported unapproved" (export_letter): the text of an
\* exported letter or pack is one a person approved, unless a version of the draft was
\* uploaded after its last approval, or after the export had read it - an approval names
\* the document and not the version.  What is exported as a pack was drafted as one,
\* unless a person recorded the approval of something else as that of a pack: any JSON
\* object would do (_latest_approved_forms_draft).
ExportsMatchRecords ==
  /\ last.kind \in {"letter", "pack"} /\ last.asApproved =>
       last.text \in draft[last.draft].approved
  /\ last.kind = "pack" => last.recorded \/ draft[last.draft].of = "iht400_draft"

\* A pack drafted from an assessment of the registers as they are lists every asset on
\* the schedule of its category, once, unless an override points elsewhere; what an older
\* assessment requires need not cover the assets, and nothing tells (build_form_drafts
\* takes the forms from the snapshot and the assets from the registers).
PackListsAssets ==
  \A d \in Draft :
    draft[d].state # "absent" /\ draft[d].pack # Null =>
      LET p == draft[d].pack IN
      p.whole /\ p.current =>
        \A a \in p.assets : a.schedule # Null /\ a.override = Null =>
          {f \in DOMAIN p.forms : a \in p.forms[f]} = {a.schedule}
=============================================================================
