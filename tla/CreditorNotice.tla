--------------------------- MODULE CreditorNotice ---------------------------
(***************************************************************************)
(* Section 27 creditor notices and the claims they bring in                *)
(* (api/creditor_notices.py): the derived claim_deadline and the stored    *)
(* safe_to_distribute flag, both recomputed by every notice or claim write *)
(* and kept in columns of the notice.                                      *)
(*                                                                         *)
(* Requests overlap.  A write loads its rows, sends its changes and counts *)
(* the open claims (Compute), and commits (Commit).  Until then nobody     *)
(* else sees what it wrote; the session writes only the columns that       *)
(* differ from what it loaded; a row it has sent is locked until it ends.  *)
(***************************************************************************)
EXTENDS Naturals

CONSTANTS
  Notice, Claim,   \* rows
  Request,         \* requests that can be in flight at once
  Null,            \* no date, no claim, no row
  Wait,            \* days from the later notice date to the claim deadline
  NoticeDate,      \* the dates notices are given
  MaxDay           \* bound: the last day of the model

ASSUME CalendarAssumption ==
  /\ Wait \in Nat /\ MaxDay \in Nat /\ NoticeDate \subseteq Nat
  /\ Null \notin Nat \cup Notice \cup Claim \cup {"open", "closed"}

Day == 0..MaxDay
Date == NoticeDate \cup {Null}
Deadline == {d + Wait : d \in NoticeDate} \cup {Null}
ClaimStatus == {"open", "closed"}   \* closed: in CLOSED_CLAIM_STATUSES

VARIABLES
  today,        \* dt.date.today()
  notice,       \* committed notice rows
  claim,        \* committed claim rows
  req,          \* the requests in flight: what each loaded and will write
  alone,        \* history: no other request met this one on its notice
  muddled,      \* history: the notice's last recompute was not alone
  checkedOn     \* history: the day of the notice's last recompute

noticeVars == <<today, notice, claim, req, alone, muddled, checkedOn>>

NoNotice == [state |-> "absent", gazette |-> Null, local |-> Null,
             deadline |-> Null, safe |-> FALSE]
NoClaim == [notice |-> Null, status |-> Null]
Idle == [phase |-> "idle", notice |-> Null, seen |-> NoNotice,
         gazette |-> Null, local |-> Null,
         claim |-> Null, seenStatus |-> Null, status |-> Null,
         deadline |-> Null, safe |-> FALSE, sent |-> FALSE, day |-> 0]

-----------------------------------------------------------------------------
LaterDate(g, l) ==
  IF g = Null THEN l ELSE IF l = Null THEN g ELSE IF l < g THEN g ELSE l

\* _derive_claim_deadline
DeriveDeadline(g, l) ==
  LET d == LaterDate(g, l) IN IF d = Null THEN Null ELSE d + Wait

\* A deadline in the past, and no open claim.
SafeOn(deadline, day, open) == deadline # Null /\ deadline < day /\ open = {}

\* The claims _open_claims_stmt counts for a notice.
OpenClaims(n, rows) == {c \in Claim : rows[c].notice = n /\ rows[c].status = "open"}

InFlight(n) == {r \in Request : req[r].phase # "idle" /\ req[r].notice = n}

\* No other request holds the row lock of notice n.
NoticeFree(r, n) == \A q \in InFlight(n) \ {r} : ~req[q].sent

WritesClaim(r) == req[r].claim # Null /\ req[r].status # req[r].seenStatus

\* No other request holds the row lock of the claim r is about to write.
ClaimFree(r) ==
  WritesClaim(r) =>
    \A q \in Request \ {r} :
      ~(req[q].phase = "computed" /\ req[q].claim = req[r].claim /\ WritesClaim(q))

\* The claim rows as request r sees them once it has sent its own.
ClaimsSeenBy(r) ==
  [c \in Claim |-> IF c = req[r].claim /\ WritesClaim(r)
                   THEN [notice |-> req[r].notice, status |-> req[r].status]
                   ELSE claim[c]]

\* Faulty variant: the count runs before the claim is sent.
CountedClaimsEarly(r) == OpenClaims(req[r].notice, claim)

\* _open_claim_count, in the transaction of r.
CountedClaims(r) == OpenClaims(req[r].notice, ClaimsSeenBy(r))

\* What one column holds after an update: it is written when it was changed.
Column(loaded, new, stored) == IF new # loaded THEN new ELSE stored

-----------------------------------------------------------------------------
NoticeInit ==
  /\ today = 0
  /\ notice = [n \in Notice |-> NoNotice]
  /\ claim = [c \in Claim |-> NoClaim]
  /\ req = [r \in Request |-> Idle]
  /\ alone = [r \in Request |-> TRUE]
  /\ muddled = [n \in Notice |-> FALSE]
  /\ checkedOn = [n \in Notice |-> 0]

\* Midnight.
NextDay ==
  /\ today < MaxDay
  /\ today' = today + 1
  /\ UNCHANGED <<notice, claim, req, alone, muddled, checkedOn>>

\* POST /creditor-notices: nobody knows the new id before the commit.
CreateNotice(n, g, l) ==
  /\ notice[n].state = "absent"
  /\ notice' = [notice EXCEPT ![n] =
       [state |-> "live", gazette |-> g, local |-> l,
        deadline |-> DeriveDeadline(g, l),
        safe |-> SafeOn(DeriveDeadline(g, l), today, {})]]
  /\ checkedOn' = [checkedOn EXCEPT ![n] = today]
  /\ UNCHANGED <<today, claim, req, alone, muddled>>

\* DELETE /creditor-notices/{id} touches neither the flag nor the deadline; the
\* columns it writes are written by nothing else, so its steps are one.
ArchiveNotice(n) ==
  /\ notice[n].state = "live"
  /\ NoticeFree(Null, n)
  /\ notice' = [notice EXCEPT ![n].state = "archived"]
  /\ UNCHANGED <<today, claim, req, alone, muddled, checkedOn>>

\* Request r loads notice n, archived or not, to write these values.
Load(r, n, g, l, c, seenStatus, s) ==
  /\ req[r].phase = "idle"
  /\ notice[n].state # "absent"
  /\ req' = [req EXCEPT ![r] =
       [Idle EXCEPT !.phase = "loaded", !.notice = n, !.seen = notice[n],
                    !.gazette = g, !.local = l,
                    !.claim = c, !.seenStatus = seenStatus, !.status = s]]
  /\ alone' = [q \in Request |-> IF q = r THEN InFlight(n) = {}
                                 ELSE alone[q] /\ q \notin InFlight(n)]
  /\ UNCHANGED <<today, notice, claim, muddled, checkedOn>>

\* PATCH /creditor-notices/{id}
UpdateNotice(r, n, g, l) == Load(r, n, g, l, Null, Null, Null)

\* POST /creditor-notices/{id}/claims, under a fresh id.
AddClaim(r, n, c, s) ==
  /\ claim[c] = NoClaim
  /\ \A q \in Request : req[q].claim # c
  /\ Load(r, n, notice[n].gazette, notice[n].local, c, Null, s)

\* PATCH /creditor-notices/{id}/claims/{claim}
UpdateClaim(r, c, s) ==
  /\ claim[c] # NoClaim
  /\ LET n == claim[c].notice IN
     Load(r, n, notice[n].gazette, notice[n].local, c, claim[c].status, s)

(***************************************************************************)
(* The request sends its claim row and recomputes the derived fields       *)
(* (_recompute_derived).  The count flushes the notice first, and that     *)
(* takes the row lock if a date or the deadline has changed; the flag,     *)
(* computed after the count, and updated_at are sent at the commit.        *)
(***************************************************************************)
Compute(r) ==
  LET q == req[r]
      deadline == DeriveDeadline(q.gazette, q.local)
      dirty == q.gazette # q.seen.gazette \/ q.local # q.seen.local
                 \/ deadline # q.seen.deadline
  IN
  /\ q.phase = "loaded"
  /\ ClaimFree(r)
  /\ dirty => NoticeFree(r, q.notice)
  /\ req' = [req EXCEPT ![r].phase = "computed", ![r].sent = dirty,
       ![r].deadline = deadline, ![r].day = today,
       ![r].safe = SafeOn(deadline, today, CountedClaims(r))]
  /\ UNCHANGED <<today, notice, claim, alone, muddled, checkedOn>>

\* The commit: the changed columns of both rows become visible together.
Commit(r) ==
  LET q == req[r]
      row == notice[q.notice]
  IN
  /\ q.phase = "computed"
  /\ NoticeFree(r, q.notice)
  /\ notice' = [notice EXCEPT ![q.notice] =
       [row EXCEPT !.gazette = Column(q.seen.gazette, q.gazette, @),
                   !.local = Column(q.seen.local, q.local, @),
                   !.deadline = Column(q.seen.deadline, q.deadline, @),
                   !.safe = Column(q.seen.safe, q.safe, @)]]
  /\ claim' = ClaimsSeenBy(r)
  /\ muddled' = [muddled EXCEPT ![q.notice] = ~alone[r]]
  /\ checkedOn' = [checkedOn EXCEPT ![q.notice] = q.day]
  /\ req' = [req EXCEPT ![r] = Idle]
  /\ UNCHANGED <<today, alone>>

\* The client goes away or a statement fails: the transaction is rolled back.
Rollback(r) ==
  /\ req[r].phase # "idle"
  /\ req' = [req EXCEPT ![r] = Idle]
  /\ UNCHANGED <<today, notice, claim, alone, muddled, checkedOn>>

NoticeNext ==
  \/ NextDay
  \/ \E n \in Notice : \/ \E g, l \in Date : CreateNotice(n, g, l)
                       \/ ArchiveNotice(n)
  \/ \E r \in Request :
       \/ \E n \in Notice, g, l \in Date : UpdateNotice(r, n, g, l)
       \/ \E n \in Notice, c \in Claim, s \in ClaimStatus : AddClaim(r, n, c, s)
       \/ \E c \in Claim, s \in ClaimStatus : UpdateClaim(r, c, s)
       \/ Compute(r)
       \/ Commit(r)
       \/ Rollback(r)

NoticeSpec == NoticeInit /\ [][NoticeNext]_noticeVars

-----------------------------------------------------------------------------
(* The distribution guard, GET /creditor-notices/safe-to-distribute: it    *)
(* reads the dates and the claims, never the stored columns.               *)

ActiveNotices == {n \in Notice : notice[n].state = "live"}

SafeToDistribute ==
  /\ ActiveNotices # {}
  /\ \A n \in ActiveNotices :
       SafeOn(DeriveDeadline(notice[n].gazette, notice[n].local), today, OpenClaims(n, claim))

-----------------------------------------------------------------------------
(* Correctness.                                                            *)

\* The derived columns are exact unless requests overlapped: after a write that had
\* the notice to itself, and until the next write, claim_deadline is the one the dates
\* give and safe_to_distribute is what the dates and the claims give on the day of the
\* write - whatever earlier overlapping writes had left there (_recompute_derived).
DerivedColumnsExact ==
  \A n \in Notice : ~muddled[n] =>
    /\ notice[n].deadline = DeriveDeadline(notice[n].gazette, notice[n].local)
    /\ notice[n].safe = SafeOn(notice[n].deadline, checkedOn[n], OpenClaims(n, claim))

\* Reading the stored flags is never bolder than asking the live guard: if every
\* active notice is stored as safe, none of them by overlapping writes, then the guard
\* says safe too, although days have passed and claims have come and gone since.
StoredNeverBolderThanGuard ==
  /\ ActiveNotices # {}
  /\ \A n \in ActiveNotices : notice[n].safe /\ ~muddled[n]
  => SafeToDistribute
=============================================================================
