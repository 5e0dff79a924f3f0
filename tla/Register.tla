------------------------------ MODULE Register ------------------------------
(***************************************************************************)
(* One row of a register, and its audit trail, under overlapping requests. *)
(*                                                                         *)
(* The nine register routers are the same handlers with three differences, *)
(* which their profiles below record.  A request loads the row, changes    *)
(* its copy, and writes back the columns that differ from what it loaded,  *)
(* with an audit event holding the copy before and after.  The UPDATE      *)
(* takes the row lock, so the writes of two requests are ordered; what     *)
(* they loaded is not.  The trail is read in the order of the events'      *)
(* dates (GET /audit, GET /activity).                                      *)
(***************************************************************************)
EXTENDS Integers, Sequences, FiniteSets

CONSTANTS
  Router,     \* the registers considered
  Value,      \* amounts a column can hold
  Null,       \* an empty column
  Request,    \* requests that may overlap
  Bodies,     \* the request bodies considered
  MaxEvents,  \* bound: events of the row
  MaxDates    \* bound: events dated, the ones that are rolled back included

\* A router's profile: flush_first, the UPDATE is sent before the event is built and
\* dated; skips_empty, a PATCH with no field does nothing; derives, a column is derived.
Handlers(flush_first, skips_empty, derives) ==
  [flush_first |-> flush_first, skips_empty |-> skips_empty, derives |-> derives]

Contacts      == Handlers(TRUE, TRUE, FALSE)
Costs         == Handlers(TRUE, TRUE, FALSE)
Beneficiaries == Handlers(TRUE, TRUE, FALSE)
Assets        == Handlers(FALSE, FALSE, FALSE)
Liabilities   == Handlers(FALSE, FALSE, FALSE)
Debtors       == Handlers(FALSE, FALSE, FALSE)
Creditors     == Handlers(FALSE, FALSE, FALSE)
DigitalItems  == Handlers(FALSE, FALSE, FALSE)
Reliefs       == Handlers(FALSE, FALSE, TRUE)

Profile == [contacts |-> Contacts, costs |-> Costs, beneficiaries |-> Beneficiaries,
            assets |-> Assets, liabilities |-> Liabilities, debtors |-> Debtors,
            creditors |-> Creditors, digital |-> DigitalItems, reliefs |-> Reliefs]

VARIABLES
  profile,  \* of the router that serves the row
  row,      \* the committed row
  trail,    \* its audit events, in the order they were committed
  now,      \* the clock events are dated with
  req       \* the requests in flight

vars == <<profile, row, trail, now, req>>

\* first and second drive the derived column of a relief (probate_value, sale_value,
\* potential_reclaim); in the other registers all three are plain columns.
Drivers == {"first", "second"}
Column == Drivers \cup {"derived", "archived_at"}
Cell == Value \cup {Null}
Empty == [x \in Column |-> Null]

Idle == [phase |-> "idle", before |-> Empty, after |-> Empty, at |-> 0, base |-> 0,
         action |-> "none", pins |-> FALSE]

\* POST and PATCH bodies carry any of the plain columns, the archive request its one.
Body == UNION {[C -> Cell] : C \in SUBSET (Column \ {"archived_at"})}
Archive == [x \in {"archived_at"} |-> 1]

ASSUME RegisterAssumption ==
  /\ Router \subseteq DOMAIN Profile
  /\ Bodies \subseteq Body
  /\ Value \subseteq Nat /\ {0, 1} \subseteq Value
  /\ \A v, w \in Value : v >= w => v - w \in Value
  /\ Null \notin Value
  /\ MaxEvents \in Nat /\ MaxDates \in Nat

Overlay(c, w) == [x \in Column |-> IF x \in DOMAIN c THEN c[x] ELSE w[x]]

\* The columns a request changed in its copy.
Touched(e) == {x \in Column : e.after[x] # e.before[x]}

ChangeOf(e) == [x \in Touched(e) |-> e.after[x]]

-----------------------------------------------------------------------------
\* Faulty variant: a sale above the probate value gives a negative reclaim.
ReclaimUnfloored(w) ==
  IF Null \in {w["first"], w["second"]} THEN Null ELSE w["first"] - w["second"]

\* derive_potential_reclaim
Reclaim(w) ==
  IF Null \in {w["first"], w["second"]} THEN Null
  ELSE IF w["first"] >= w["second"] THEN w["first"] - w["second"] ELSE 0

\* Only what is not empty replaces the stored figure.
Derived(w) == IF Reclaim(w) = Null THEN w ELSE [w EXCEPT !["derived"] = Reclaim(w)]

\* Faulty variant: only a new sale value makes the column stale.
UpdatedBySecond(c, w) ==
  IF profile.derives /\ "second" \in DOMAIN c /\ "derived" \notin DOMAIN c
  THEN Derived(Overlay(c, w))
  ELSE Overlay(c, w)

\* What a PATCH with body c leaves in the copy: the derived column is recomputed when
\* a driving column was sent and the caller did not pin it.
Updated(c, w) ==
  IF profile.derives /\ DOMAIN c \cap Drivers # {} /\ "derived" \notin DOMAIN c
  THEN Derived(Overlay(c, w))
  ELSE Overlay(c, w)

\* What a POST stores: stored input wins, the derived column is filled when left empty.
Created(w) == IF profile.derives /\ w["derived"] = Null THEN Derived(w) ELSE w

-----------------------------------------------------------------------------
Init ==
  /\ profile \in {Profile[n] : n \in Router}
  /\ row = Empty
  /\ trail = <<>>
  /\ now = 0
  /\ req = [r \in Request |-> Idle]

\* POST: insert, flush, event, commit.  Nobody can name the row before the commit.
Create(c) ==
  /\ trail = <<>>
  /\ now < MaxDates /\ MaxEvents > 0
  /\ now' = now + 1
  /\ row' = Created(Overlay(c, Empty))
  /\ trail' = <<[at |-> now', before |-> Empty, after |-> row', alone |-> TRUE,
                 action |-> "create", pins |-> "derived" \in DOMAIN c]>>
  /\ UNCHANGED <<profile, req>>

\* A PATCH or DELETE loads the row and changes its copy.
Load(r, action, c) ==
  /\ req[r].phase = "idle"
  /\ trail # <<>>
  /\ req' = [req EXCEPT ![r] =
       [phase |-> "loaded", before |-> row, after |-> Updated(c, row), at |-> 0,
        base |-> Len(trail), action |-> action, pins |-> "derived" \in DOMAIN c]]
  /\ UNCHANGED <<profile, row, trail, now>>

\* PATCH of an archived row is allowed.
Patch(r, c) ==
  /\ profile.skips_empty => DOMAIN c # {}
  /\ Load(r, "update", c)

\* add_valuation writes the value columns of the asset together.
AddValuation(r, c) ==
  /\ profile = Assets
  /\ DOMAIN c = Drivers
  /\ Load(r, "update", c)

\* Faulty variant: the copy's archived_at is not looked at.
ArchiveRowAgain(r) == Load(r, "archive", Archive)

\* DELETE is a soft delete, refused when the copy is archived already.
ArchiveRow(r) ==
  /\ row["archived_at"] = Null
  /\ Load(r, "archive", Archive)

\* Without a flush the event is built, and dated, before the UPDATE is sent.
DateEvent(r) ==
  /\ ~profile.flush_first
  /\ req[r].phase = "loaded"
  /\ now < MaxDates
  /\ now' = now + 1
  /\ req' = [req EXCEPT ![r].phase = "dated", ![r].at = now']
  /\ UNCHANGED <<profile, row, trail>>

\* The row lock, held from the UPDATE to the end of the transaction.
Unlocked == \A q \in Request : req[q].phase # "written"

\* The UPDATE; updated_at is always written, so every request takes the lock.
SendUpdate(r) ==
  /\ req[r].phase = "dated"
  /\ Unlocked
  /\ req' = [req EXCEPT ![r].phase = "written"]
  /\ UNCHANGED <<profile, row, trail, now>>

\* Faulty variant: the event is dated without waiting for the lock.
FlushThenDateUnlocked(r) ==
  /\ profile.flush_first
  /\ req[r].phase = "loaded"
  /\ now < MaxDates
  /\ now' = now + 1
  /\ req' = [req EXCEPT ![r].phase = "written", ![r].at = now']
  /\ UNCHANGED <<profile, row, trail>>

\* With a flush the UPDATE has the lock when the event is built and dated.
FlushThenDate(r) ==
  /\ profile.flush_first
  /\ req[r].phase = "loaded"
  /\ Unlocked
  /\ now < MaxDates
  /\ now' = now + 1
  /\ req' = [req EXCEPT ![r].phase = "written", ![r].at = now']
  /\ UNCHANGED <<profile, row, trail>>

\* Faulty variant: the whole copy is written back.
WrittenWhole(e, w) == e.after

\* Faulty variant: the derived column is filled in after the snapshot is taken.
WrittenThenDerived(e, w) ==
  IF profile.derives THEN Derived(Overlay(ChangeOf(e), w)) ELSE Overlay(ChangeOf(e), w)

\* The UPDATE sets the columns that differ from the ones loaded, on the row as it is.
Written(e, w) == Overlay(ChangeOf(e), w)

Commit(r) ==
  /\ req[r].phase = "written"
  /\ Len(trail) < MaxEvents
  /\ row' = Written(req[r], row)
  /\ trail' = Append(trail,
       [at |-> req[r].at, before |-> req[r].before, after |-> req[r].after,
        alone |-> req[r].base = Len(trail), action |-> req[r].action, pins |-> req[r].pins])
  /\ req' = [req EXCEPT ![r] = Idle]
  /\ UNCHANGED <<profile, now>>

\* A request fails, its client leaves or the server stops: nothing of it is stored.
Rollback(r) ==
  /\ req[r].phase # "idle"
  /\ req' = [req EXCEPT ![r] = Idle]
  /\ UNCHANGED <<profile, row, trail, now>>

Next ==
  \/ \E c \in Bodies : Create(c)
  \/ \E r \in Request :
       \/ \E c \in Bodies : Patch(r, c) \/ AddValuation(r, c)
       \/ ArchiveRow(r)
       \/ DateEvent(r)
       \/ SendUpdate(r)
       \/ FlushThenDate(r)
       \/ Commit(r)
       \/ Rollback(r)

Spec == Init /\ [][Next]_vars

-----------------------------------------------------------------------------
(* Correctness.                                                            *)

EventRow == [at : Nat, before : [Column -> Cell], after : [Column -> Cell],
             alone : BOOLEAN, action : {"create", "update", "archive"}, pins : BOOLEAN]

RequestRow == [phase : {"idle", "loaded", "dated", "written"}, before : [Column -> Cell],
               after : [Column -> Cell], at : Nat, base : Nat,
               action : {"none", "update", "archive"}, pins : BOOLEAN]

\* The row, its events and the requests hold values of their kinds.
TypeOK ==
  /\ profile \in {Profile[n] : n \in Router}
  /\ row \in [Column -> Cell]
  /\ trail \in Seq(EventRow)
  /\ now \in Nat
  /\ req \in [Request -> RequestRow]

\* The events that changed column x.
Changes(x) == {i \in 1..Len(trail) : x \in Touched(trail[i])}

DatedInOrder == \A i, j \in 1..Len(trail) : i < j => trail[i].at < trail[j].at

\* The trail, read by date as the audit pages show it, replays to the row: each column
\* holds what the latest-dated event that changed it says, or nothing.  However requests
\* overlap this holds in the registers that flush before they build the event (contacts,
\* costs, beneficiaries); in the others it takes that events are dated in commit order.
TrailReplays ==
  profile.flush_first \/ DatedInOrder =>
    \A x \in Column :
      IF Changes(x) = {} THEN row[x] = Null
      ELSE \E i \in Changes(x) :
             /\ row[x] = trail[i].after[x]
             /\ \A j \in Changes(x) : trail[j].at <= trail[i].at

\* The after snapshot of the last event is the row, unless that request missed a commit
\* made since its load (snapshot is taken after every derivation).
LastEventExact ==
  LET n == Len(trail) IN
  trail # <<>> /\ trail[n].alone => trail[n].after = row

\* A row is archived twice only by requests that overlap.
ArchivedTwiceOnlyByOverlap ==
  \A i, j \in 1..Len(trail) :
    i < j /\ trail[i].action = "archive" /\ trail[j].action = "archive" => ~trail[j].alone

\* A relief nobody pinned shows the reclaim its two values give, whatever the order of
\* the edits, as long as none overlapped; a missing value leaves the last figure.
ReclaimFollowsValues ==
  profile.derives /\ (\A i \in 1..Len(trail) : trail[i].alone /\ ~trail[i].pins) =>
    Reclaim(row) \in {Null, row["derived"]}

\* The row and the changes its events record are a register log: every commit applies
\* to the row exactly the change its event shows, on top of all commits before it.
Log == INSTANCE RegisterLog WITH log <- [i \in 1..Len(trail) |-> ChangeOf(trail[i])]
LogSpec == Log!Spec
=============================================================================
