--------------------------- MODULE Register_proof ---------------------------
(***************************************************************************)
(* Proofs about a register row and its trail, for every profile, every     *)
(* number of overlapping requests and every set of bodies.                 *)
(*                                                                         *)
(* In commit order the trail always replays to the row, since an UPDATE    *)
(* sets exactly the columns its event shows as changed.  The dates follow  *)
(* the commit order where events are dated under the row lock, because the *)
(* lock is held by one request at a time and the clock only moves on.      *)
(***************************************************************************)
EXTENDS Register, TLAPS

\* Dates in use are in the past.
DatesPast ==
  /\ \A i \in 1..Len(trail) : trail[i].at <= now
  /\ \A r \in Request : req[r].at <= now

\* The row lock has one holder.
OneHolder ==
  \A q, r \in Request : req[q].phase = "written" /\ req[r].phase = "written" => q = r

\* Where events are dated under the lock, dates follow the commits.
DatedUnderLock ==
  profile.flush_first =>
    /\ DatedInOrder
    /\ \A r \in Request :
         /\ req[r].phase # "dated"
         /\ req[r].phase = "written" => \A i \in 1..Len(trail) : trail[i].at < req[r].at

\* Each column holds what the last commit that changed it wrote.
ReplaysInCommitOrder ==
  \A x \in Column :
    IF Changes(x) = {} THEN row[x] = Null
    ELSE \E i \in Changes(x) :
           row[x] = trail[i].after[x] /\ \A j \in Changes(x) : j <= i

\* A request has loaded a row that is there, and has it as it is when it missed no commit.
LoadedRow ==
  \A r \in Request : req[r].phase # "idle" =>
    /\ trail # <<>>
    /\ req[r].base <= Len(trail)
    /\ req[r].base = Len(trail) => req[r].before = row

\* Only the archive request changes archived_at, and it found it empty.
ArchiveShape ==
  /\ \A r \in Request : req[r].phase # "idle" =>
       IF req[r].action = "archive"
       THEN req[r].before["archived_at"] = Null /\ req[r].after["archived_at"] = 1
       ELSE req[r].action = "update"
            /\ req[r].after["archived_at"] = req[r].before["archived_at"]
  /\ \A i \in 1..Len(trail) : trail[i].action = "archive" => row["archived_at"] # Null

IInv ==
  /\ TypeOK
  /\ DatesPast
  /\ OneHolder
  /\ DatedUnderLock
  /\ ReplaysInCommitOrder
  /\ LoadedRow
  /\ ArchiveShape
  /\ LastEventExact
  /\ ArchivedTwiceOnlyByOverlap

-----------------------------------------------------------------------------
(* Rows and copies.                                                        *)

LEMMA EmptyIsRow == Empty \in [Column -> Cell] /\ Idle \in RequestRow /\ Idle.phase = "idle"
                    /\ Idle.at = 0
  BY DEF Empty, Cell, Idle, RequestRow

\* A body laid over a row is a row, and leaves the columns it does not carry.
LEMMA OverlayIsRow ==
  ASSUME NEW c, NEW w \in [Column -> Cell],
         \A x \in DOMAIN c : c[x] \in Cell
  PROVE  /\ Overlay(c, w) \in [Column -> Cell]
         /\ \A x \in Column \ DOMAIN c : Overlay(c, w)[x] = w[x]
  BY DEF Overlay

\* The derivation changes the derived column and gives it an amount.
LEMMA DerivedIsRow ==
  ASSUME NEW w \in [Column -> Cell]
  PROVE  /\ Derived(w) \in [Column -> Cell]
         /\ Derived(w)["archived_at"] = w["archived_at"]
<1>1. w["first"] \in Cell /\ w["second"] \in Cell
  BY DEF Column, Drivers
<1>2. Reclaim(w) \in Cell
  <2>1. CASE Null \in {w["first"], w["second"]}
    BY <2>1 DEF Reclaim, Cell
  <2>2. CASE Null \notin {w["first"], w["second"]}
    BY <1>1, <2>2, RegisterAssumption DEF Reclaim, Cell
  <2>3. QED
    BY <2>1, <2>2
<1>3. QED
  BY <1>2 DEF Derived, Column

\* A body carries plain columns only.
LEMMA BodyShape ==
  ASSUME NEW c \in Body
  PROVE  "archived_at" \notin DOMAIN c /\ \A x \in DOMAIN c : c[x] \in Cell
  BY DEF Body

LEMMA UpdatedIsRow ==
  ASSUME NEW c, NEW w \in [Column -> Cell], \A x \in DOMAIN c : c[x] \in Cell
  PROVE  /\ Updated(c, w) \in [Column -> Cell]
         /\ Updated(c, w)["archived_at"] = Overlay(c, w)["archived_at"]
<1>1. Overlay(c, w) \in [Column -> Cell]
  BY OverlayIsRow
<1>2. QED
  BY <1>1, DerivedIsRow DEF Updated

LEMMA CreatedIsRow ==
  ASSUME NEW w \in [Column -> Cell]
  PROVE  Created(w) \in [Column -> Cell]
  BY DerivedIsRow DEF Created

\* What the UPDATE leaves: the columns touched as in the copy, the others as they were;
\* the copy itself when it was made of this very row.
LEMMA WrittenRow ==
  ASSUME NEW e, e.before \in [Column -> Cell], e.after \in [Column -> Cell],
         NEW w \in [Column -> Cell]
  PROVE  /\ Written(e, w) \in [Column -> Cell]
         /\ \A x \in Column :
              Written(e, w)[x] = IF x \in Touched(e) THEN e.after[x] ELSE w[x]
         /\ e.before = w => Written(e, w) = e.after
<1>1. DOMAIN ChangeOf(e) = Touched(e) /\ \A x \in Touched(e) : ChangeOf(e)[x] = e.after[x]
  BY DEF ChangeOf
<1>2. Touched(e) \subseteq Column
  BY DEF Touched
<1>3. Written(e, w) = [x \in Column |-> IF x \in Touched(e) THEN e.after[x] ELSE w[x]]
  BY <1>1, <1>2 DEF Written, Overlay
<1>4. ASSUME e.before = w PROVE Written(e, w) = e.after
  <2>1. \A x \in Column : x \notin Touched(e) => e.after[x] = w[x]
    BY <1>4 DEF Touched
  <2>2. QED
    BY <1>3, <2>1
<1>5. QED
  BY <1>3, <1>4

-----------------------------------------------------------------------------
(***************************************************************************)
(* A request moves; the row and its trail do not.  It covers every action  *)
(* but Create and Commit.                                                  *)
(***************************************************************************)
MayMove(r, new) ==
  /\ UNCHANGED <<profile, row, trail>>
  /\ req' = [req EXCEPT ![r] = new]
  /\ new \in RequestRow
  /\ now' \in Nat /\ now <= now' /\ new.at <= now'
  /\ new.phase = "written" => \A q \in Request : req[q].phase # "written"
  /\ profile.flush_first => new.phase # "dated"
  /\ profile.flush_first /\ new.phase = "written" =>
       \A i \in 1..Len(trail) : trail[i].at < new.at
  /\ new.phase # "idle" =>
       /\ trail # <<>>
       /\ new.base <= Len(trail) /\ (new.base = Len(trail) => new.before = row)
       /\ IF new.action = "archive"
          THEN new.before["archived_at"] = Null /\ new.after["archived_at"] = 1
          ELSE new.action = "update"
               /\ new.after["archived_at"] = new.before["archived_at"]

LEMMA RequestMoves ==
  ASSUME IInv, NEW r \in Request, NEW new, MayMove(r, new)
  PROVE  IInv'
<1>1. /\ row' = row /\ trail' = trail /\ profile' = profile
      /\ \A q \in Request : req'[q] = IF q = r THEN new ELSE req[q]
      /\ req' \in [Request -> RequestRow]
      /\ now' \in Nat /\ now <= now' /\ new.at <= now'
  BY DEF IInv, TypeOK, MayMove
<1>2. TypeOK'
  BY <1>1 DEF IInv, TypeOK
<1>3. DatesPast'
  <2>1. \A i \in 1..Len(trail) : trail[i] \in EventRow
    BY DEF IInv, TypeOK
  <2>2. \A q \in Request : req[q].at \in Nat
    BY DEF IInv, TypeOK, RequestRow
  <2>3. now \in Nat
    BY DEF IInv, TypeOK
  <2>4. \A i \in 1..Len(trail) : trail[i].at \in Nat
    BY <2>1 DEF EventRow
  <2>5. QED
    BY <1>1, <2>2, <2>3, <2>4 DEF IInv, DatesPast
<1>4. OneHolder'
  BY <1>1 DEF IInv, OneHolder, MayMove
<1>5. DatedUnderLock'
  BY <1>1 DEF IInv, DatedUnderLock, DatedInOrder, MayMove
<1>6. ReplaysInCommitOrder' /\ LastEventExact' /\ ArchivedTwiceOnlyByOverlap'
  BY <1>1 DEF IInv, ReplaysInCommitOrder, LastEventExact, ArchivedTwiceOnlyByOverlap, Changes
<1>7. LoadedRow'
  BY <1>1 DEF IInv, LoadedRow, MayMove
<1>8. ArchiveShape'
  BY <1>1 DEF IInv, ArchiveShape, MayMove
<1>9. QED
  BY <1>2, <1>3, <1>4, <1>5, <1>6, <1>7, <1>8 DEF IInv

LEMMA StepLoad ==
  ASSUME IInv, NEW r \in Request, NEW c, NEW action \in {"update", "archive"},
         Load(r, action, c),
         \A x \in DOMAIN c : c[x] \in Cell,
         action = "update" => "archived_at" \notin DOMAIN c,
         action = "archive" => c = Archive /\ row["archived_at"] = Null
  PROVE  IInv'
<1> DEFINE new == [phase |-> "loaded", before |-> row, after |-> Updated(c, row), at |-> 0,
                   base |-> Len(trail), action |-> action, pins |-> "derived" \in DOMAIN c]
<1>1. row \in [Column -> Cell] /\ Len(trail) \in Nat /\ now \in Nat /\ "archived_at" \in Column
  BY DEF IInv, TypeOK, Column
<1>2. /\ Updated(c, row) \in [Column -> Cell]
      /\ Updated(c, row)["archived_at"] = Overlay(c, row)["archived_at"]
  BY <1>1, UpdatedIsRow
<1>3. CASE action = "update"
  <2>1. Updated(c, row)["archived_at"] = row["archived_at"]
    BY <1>1, <1>2, <1>3 DEF Overlay
  <2>2. new \in RequestRow
    BY <1>1, <1>2, <1>3 DEF RequestRow
  <2>3. /\ req' = [req EXCEPT ![r] = new] /\ UNCHANGED <<profile, row, trail, now>>
        /\ trail # <<>>
        /\ new.phase = "loaded" /\ new.before = row /\ new.base = Len(trail) /\ new.at = 0
        /\ new.action = "update" /\ new.after = Updated(c, row)
    BY <1>3 DEF Load
  <2> HIDE DEF new
  <2>4. MayMove(r, new)
    BY <1>1, <2>1, <2>2, <2>3 DEF MayMove
  <2>5. QED
    BY <2>4, RequestMoves
<1>4. CASE action = "archive"
  <2>1. Updated(c, row)["archived_at"] = 1 /\ row["archived_at"] = Null
    BY <1>1, <1>2, <1>4 DEF Overlay, Archive
  <2>2. new \in RequestRow
    BY <1>1, <1>2, <1>4 DEF RequestRow
  <2>3. /\ req' = [req EXCEPT ![r] = new] /\ UNCHANGED <<profile, row, trail, now>>
        /\ trail # <<>>
        /\ new.phase = "loaded" /\ new.before = row /\ new.base = Len(trail) /\ new.at = 0
        /\ new.action = "archive" /\ new.after = Updated(c, row)
    BY <1>4 DEF Load
  <2> HIDE DEF new
  <2>4. MayMove(r, new)
    BY <1>1, <2>1, <2>2, <2>3 DEF MayMove
  <2>5. QED
    BY <2>4, RequestMoves
<1>5. QED
  BY <1>3, <1>4

\* PATCH, POST of a valuation, DELETE.
LEMMA StepRead ==
  ASSUME IInv, NEW r \in Request,
         \/ \E c \in Bodies : Patch(r, c) \/ AddValuation(r, c)
         \/ ArchiveRow(r)
  PROVE  IInv'
<1>1. ASSUME NEW c \in Bodies, Load(r, "update", c) PROVE IInv'
  <2>1. c \in Body
    BY RegisterAssumption
  <2>2. QED
    BY <1>1, <2>1, BodyShape, StepLoad
<1>2. ASSUME ArchiveRow(r) PROVE IInv'
  <2>1. \A x \in DOMAIN Archive : Archive[x] \in Cell
    BY RegisterAssumption DEF Archive, Cell
  <2>2. QED
    BY <1>2, <2>1, StepLoad DEF ArchiveRow
<1>3. QED
  BY <1>1, <1>2 DEF Patch, AddValuation

\* The phases between load and commit, and giving up.
LEMMA StepProgress ==
  ASSUME IInv, NEW r \in Request,
         DateEvent(r) \/ SendUpdate(r) \/ FlushThenDate(r) \/ Rollback(r)
  PROVE  IInv'
<1>1. /\ req[r] \in RequestRow /\ now \in Nat /\ req[r].at <= now /\ req[r].at \in Nat
      /\ \A i \in 1..Len(trail) : trail[i].at \in Nat /\ trail[i].at <= now
  <2>1. \A i \in 1..Len(trail) : trail[i] \in EventRow
    BY DEF IInv, TypeOK
  <2>2. QED
    BY <2>1 DEF IInv, TypeOK, RequestRow, EventRow, DatesPast
<1>2. req[r].phase # "idle" =>
        /\ trail # <<>>
        /\ req[r].base <= Len(trail) /\ (req[r].base = Len(trail) => req[r].before = row)
        /\ IF req[r].action = "archive"
           THEN req[r].before["archived_at"] = Null /\ req[r].after["archived_at"] = 1
           ELSE req[r].action = "update"
                /\ req[r].after["archived_at"] = req[r].before["archived_at"]
  BY DEF IInv, LoadedRow, ArchiveShape
<1>3. CASE DateEvent(r)
  <2> DEFINE new == [req[r] EXCEPT !.phase = "dated", !.at = now + 1]
  <2>1. /\ new \in RequestRow /\ new.phase = "dated" /\ new.at = now + 1
        /\ new.before = req[r].before /\ new.after = req[r].after
        /\ new.base = req[r].base /\ new.action = req[r].action
    <3>1. now + 1 \in Nat /\ req[r] \in RequestRow
      BY <1>1
    <3>2. QED
      BY <3>1 DEF RequestRow
  <2>2. /\ req' = [req EXCEPT ![r] = new] /\ now' = now + 1
        /\ UNCHANGED <<profile, row, trail>>
        /\ req[r].phase = "loaded" /\ ~profile.flush_first
    BY <1>3 DEF DateEvent
  <2> HIDE DEF new
  <2>3. MayMove(r, new)
    BY <1>1, <1>2, <2>1, <2>2 DEF MayMove
  <2>4. QED
    BY <2>3, RequestMoves
<1>4. CASE SendUpdate(r)
  <2> DEFINE new == [req[r] EXCEPT !.phase = "written"]
  <2>1. /\ new \in RequestRow /\ new.phase = "written" /\ new.at = req[r].at
        /\ new.before = req[r].before /\ new.after = req[r].after
        /\ new.base = req[r].base /\ new.action = req[r].action
    BY <1>1 DEF RequestRow
  <2>2. /\ req' = [req EXCEPT ![r] = new]
        /\ UNCHANGED <<profile, row, trail, now>>
        /\ req[r].phase = "dated"
        /\ \A q \in Request : req[q].phase # "written"
    BY <1>4 DEF SendUpdate, Unlocked
  <2>3. ~profile.flush_first
    BY <2>2 DEF IInv, DatedUnderLock
  <2> HIDE DEF new
  <2>4. MayMove(r, new)
    BY <1>1, <1>2, <2>1, <2>2, <2>3 DEF MayMove
  <2>5. QED
    BY <2>4, RequestMoves
<1>5. CASE FlushThenDate(r)
  <2> DEFINE new == [req[r] EXCEPT !.phase = "written", !.at = now + 1]
  <2>1. /\ new \in RequestRow /\ new.phase = "written" /\ new.at = now + 1
        /\ new.before = req[r].before /\ new.after = req[r].after
        /\ new.base = req[r].base /\ new.action = req[r].action
    <3>1. now + 1 \in Nat /\ req[r] \in RequestRow
      BY <1>1
    <3>2. QED
      BY <3>1 DEF RequestRow
  <2>2. /\ req' = [req EXCEPT ![r] = new] /\ now' = now + 1
        /\ UNCHANGED <<profile, row, trail>>
        /\ req[r].phase = "loaded"
        /\ \A q \in Request : req[q].phase # "written"
    BY <1>5 DEF FlushThenDate, Unlocked
  <2> HIDE DEF new
  <2>3. MayMove(r, new)
    BY <1>1, <1>2, <2>1, <2>2 DEF MayMove
  <2>4. QED
    BY <2>3, RequestMoves
<1>6. CASE Rollback(r)
  <2>1. MayMove(r, Idle)
    BY <1>1, <1>6, EmptyIsRow DEF Rollback, MayMove
  <2>2. QED
    BY <2>1, RequestMoves
<1>7. QED
  BY <1>3, <1>4, <1>5, <1>6

-----------------------------------------------------------------------------
(***************************************************************************)
(* An event e joins the trail and its change the row.                      *)
(***************************************************************************)
LEMMA EventJoins ==
  ASSUME IInv, NEW e \in EventRow, trail' = Append(trail, e), row' = Written(e, row)
  PROVE  /\ Len(trail') = Len(trail) + 1 /\ Len(trail) \in Nat /\ trail' \in Seq(EventRow)
         /\ \A i \in 1..Len(trail) : trail'[i] = trail[i]
         /\ trail'[Len(trail) + 1] = e
         /\ row' \in [Column -> Cell]
         /\ \A x \in Column : row'[x] = IF x \in Touched(e) THEN e.after[x] ELSE row[x]
         /\ e.before = row => row' = e.after
         /\ ReplaysInCommitOrder'
<1>1. trail \in Seq(EventRow) /\ row \in [Column -> Cell] /\ Len(trail) \in Nat
  BY DEF IInv, TypeOK
<1>2. e.before \in [Column -> Cell] /\ e.after \in [Column -> Cell]
  BY DEF EventRow
<1>3. /\ row' \in [Column -> Cell]
      /\ \A x \in Column : row'[x] = IF x \in Touched(e) THEN e.after[x] ELSE row[x]
      /\ e.before = row => row' = e.after
  BY <1>1, <1>2, WrittenRow
<1>4. /\ Len(trail') = Len(trail) + 1 /\ trail' \in Seq(EventRow)
      /\ \A i \in 1..Len(trail) : trail'[i] = trail[i]
      /\ trail'[Len(trail) + 1] = e
  BY <1>1
<1>5. ReplaysInCommitOrder'
  <2> DEFINE n == Len(trail) + 1
  <2>1. \A x : Changes(x)' = {i \in 1..Len(trail') : x \in Touched(trail'[i])}
    BY DEF Changes, Touched
  <2>2. SUFFICES ASSUME NEW x \in Column
                 PROVE  IF Changes(x)' = {} THEN row'[x] = Null
                        ELSE \E i \in Changes(x)' :
                               row'[x] = trail'[i].after[x] /\ \A j \in Changes(x)' : j <= i
    BY DEF ReplaysInCommitOrder
  <2>3. Changes(x)' = IF x \in Touched(e) THEN Changes(x) \cup {n} ELSE Changes(x)
    BY <1>1, <1>4, <2>1 DEF Changes
  <2>4. Changes(x) \subseteq 1..Len(trail)
    BY DEF Changes
  <2>5. CASE x \in Touched(e)
    <3>1. n \in Changes(x)' /\ row'[x] = trail'[n].after[x] /\ \A j \in Changes(x)' : j <= n
      BY <1>1, <1>3, <1>4, <2>3, <2>4, <2>5
    <3>2. QED
      BY <3>1
  <2>6. CASE x \notin Touched(e)
    <3>1. Changes(x)' = Changes(x) /\ row'[x] = row[x]
      BY <1>3, <2>3, <2>6
    <3>2. IF Changes(x) = {} THEN row[x] = Null
          ELSE \E i \in Changes(x) :
                 row[x] = trail[i].after[x] /\ \A j \in Changes(x) : j <= i
      BY DEF IInv, ReplaysInCommitOrder
    <3>3. QED
      BY <1>4, <2>4, <3>1, <3>2
  <2>7. QED
    BY <2>5, <2>6
<1>6. QED
  BY <1>1, <1>3, <1>4, <1>5

LEMMA StepCommit ==
  ASSUME IInv, NEW r \in Request, Commit(r)
  PROVE  IInv'
<1> DEFINE e == [at |-> req[r].at, before |-> req[r].before, after |-> req[r].after,
                 alone |-> req[r].base = Len(trail), action |-> req[r].action,
                 pins |-> req[r].pins]
<1>1. /\ req[r].phase = "written" /\ req' = [req EXCEPT ![r] = Idle]
      /\ row' = Written(req[r], row) /\ trail' = Append(trail, e)
      /\ UNCHANGED <<profile, now>>
  BY DEF Commit
<1>2. req[r] \in RequestRow /\ req[r].action \in {"update", "archive"}
  BY <1>1 DEF IInv, TypeOK, ArchiveShape
<1>3. /\ e.at = req[r].at /\ e.before = req[r].before /\ e.after = req[r].after
      /\ e.action = req[r].action /\ (e.alone <=> req[r].base = Len(trail))
      /\ e \in EventRow
  BY <1>2 DEF RequestRow, EventRow
<1>4. Touched(req[r]) = Touched(e) /\ Written(req[r], row) = Written(e, row)
  BY <1>3 DEF Touched, Written, ChangeOf
<1>5. /\ e.alone => e.before = row
      /\ IF e.action = "archive"
         THEN e.before["archived_at"] = Null /\ e.after["archived_at"] = 1
         ELSE e.after["archived_at"] = e.before["archived_at"]
  BY <1>1, <1>3 DEF IInv, LoadedRow, ArchiveShape
<1> HIDE DEF e
<1>6. /\ Len(trail') = Len(trail) + 1 /\ Len(trail) \in Nat /\ trail' \in Seq(EventRow)
      /\ \A i \in 1..Len(trail) : trail'[i] = trail[i]
      /\ trail'[Len(trail) + 1] = e
      /\ row' \in [Column -> Cell]
      /\ \A x \in Column : row'[x] = IF x \in Touched(e) THEN e.after[x] ELSE row[x]
      /\ e.before = row => row' = e.after
      /\ ReplaysInCommitOrder'
  BY <1>1, <1>3, <1>4, EventJoins
<1>7. /\ \A q \in Request : req'[q] = IF q = r THEN Idle ELSE req[q]
      /\ req' \in [Request -> RequestRow]
      /\ Idle.phase = "idle" /\ Idle.at = 0
  BY <1>1, EmptyIsRow DEF IInv, TypeOK
<1>8. TypeOK'
  BY <1>1, <1>6, <1>7 DEF IInv, TypeOK
<1>9. DatesPast'
  <2>1. now \in Nat /\ now' = now /\ e.at <= now
    BY <1>1, <1>3 DEF IInv, TypeOK, DatesPast
  <2>2. QED
    BY <1>6, <1>7, <2>1 DEF IInv, DatesPast
<1>10. OneHolder'
  BY <1>7 DEF IInv, OneHolder
<1>11. DatedUnderLock'
  <2> SUFFICES ASSUME profile.flush_first
               PROVE  /\ \A i, j \in 1..Len(trail') : i < j => trail'[i].at < trail'[j].at
                      /\ \A q \in Request :
                           /\ req'[q].phase # "dated"
                           /\ req'[q].phase = "written" =>
                                \A i \in 1..Len(trail') : trail'[i].at < req'[q].at
    BY <1>1 DEF DatedUnderLock, DatedInOrder
  <2>1. /\ \A i, j \in 1..Len(trail) : i < j => trail[i].at < trail[j].at
        /\ \A i \in 1..Len(trail) : trail[i].at < e.at
        /\ \A q \in Request : req[q].phase # "dated"
    BY <1>1, <1>3 DEF IInv, DatedUnderLock, DatedInOrder
  <2>2. \A q \in Request : req'[q].phase # "written"
    BY <1>1, <1>7 DEF IInv, OneHolder
  <2>3. \A i, j \in 1..Len(trail') : i < j => trail'[i].at < trail'[j].at
    <3>1. SUFFICES ASSUME NEW i \in 1..Len(trail'), NEW j \in 1..Len(trail'), i < j
                   PROVE  trail'[i].at < trail'[j].at
      OBVIOUS
    <3>2. i \in 1..Len(trail) /\ trail'[i] = trail[i]
      BY <1>6, <3>1
    <3>3. CASE j \in 1..Len(trail)
      BY <1>6, <2>1, <3>1, <3>2, <3>3
    <3>4. CASE j = Len(trail) + 1
      BY <1>6, <2>1, <3>2, <3>4
    <3>5. QED
      BY <1>6, <3>3, <3>4
  <2>4. QED
    BY <1>7, <2>1, <2>2, <2>3
<1>12. LoadedRow'
  <2>1. \A q \in Request : req[q].phase # "idle" =>
          req[q].base \in Nat /\ req[q].base <= Len(trail)
    BY DEF IInv, TypeOK, RequestRow, LoadedRow
  <2>2. QED
    BY <1>1, <1>6, <1>7, <2>1 DEF LoadedRow
<1>13. ArchiveShape'
  <2>1. "archived_at" \in Column /\ Null # 1
    BY RegisterAssumption DEF Column
  <2>2. \A i \in 1..Len(trail') : trail'[i].action = "archive" => row'["archived_at"] # Null
    <3>1. CASE e.action = "archive"
      <4>1. "archived_at" \in Touched(e)
        BY <1>5, <2>1, <3>1 DEF Touched
      <4>2. QED
        BY <1>5, <1>6, <2>1, <3>1, <4>1
    <3>2. CASE e.action # "archive"
      <4>1. "archived_at" \notin Touched(e)
        BY <1>5, <3>2 DEF Touched
      <4>2. row'["archived_at"] = row["archived_at"]
        BY <1>6, <2>1, <4>1
      <4>3. \A i \in 1..Len(trail) : trail[i].action = "archive" => row["archived_at"] # Null
        BY DEF IInv, ArchiveShape
      <4>4. QED
        BY <1>6, <3>2, <4>2, <4>3
    <3>3. QED
      BY <3>1, <3>2
  <2>3. QED
    BY <1>7, <2>2 DEF IInv, ArchiveShape
<1>14. LastEventExact'
  BY <1>5, <1>6 DEF LastEventExact
<1>15. ArchivedTwiceOnlyByOverlap'
  <2>1. e.action = "archive" /\ e.alone =>
          \A i \in 1..Len(trail) : trail[i].action # "archive"
    BY <1>5 DEF IInv, ArchiveShape
  <2>2. QED
    BY <1>6, <2>1 DEF IInv, ArchivedTwiceOnlyByOverlap
<1>16. QED
  BY <1>6, <1>8, <1>9, <1>10, <1>11, <1>12, <1>13, <1>14, <1>15 DEF IInv

\* The first event of the row is its whole change, and nobody has loaded the row yet.
LEMMA StepCreate ==
  ASSUME IInv, NEW c \in Bodies, Create(c)
  PROVE  IInv'
<1> DEFINE w == Created(Overlay(c, Empty))
           e == [at |-> now + 1, before |-> Empty, after |-> w, alone |-> TRUE,
                 action |-> "create", pins |-> "derived" \in DOMAIN c]
<1>1. /\ trail = <<>> /\ trail' = <<e>> /\ row' = w /\ now' = now + 1
      /\ UNCHANGED <<profile, req>>
  BY DEF Create
<1>2. w \in [Column -> Cell]
  <2>1. c \in Body
    BY RegisterAssumption
  <2>2. Overlay(c, Empty) \in [Column -> Cell]
    BY <2>1, BodyShape, EmptyIsRow, OverlayIsRow
  <2>3. QED
    BY <2>2, CreatedIsRow
<1>3. now \in Nat /\ now + 1 \in Nat
  BY DEF IInv, TypeOK
<1>4. /\ e \in EventRow /\ e.at = now + 1 /\ e.before = Empty /\ e.after = w
      /\ e.action = "create"
  BY <1>2, <1>3, EmptyIsRow DEF EventRow
<1> HIDE DEF w, e
<1>5. /\ Len(trail') = 1 /\ trail'[1] = e /\ trail' \in Seq(EventRow)
      /\ Len(trail) = 0 /\ \A i \in 1..Len(trail') : i = 1
  BY <1>1, <1>4
<1>6. \A r \in Request : req[r].phase = "idle"
  BY <1>1 DEF IInv, LoadedRow
<1>7. TypeOK'
  BY <1>1, <1>2, <1>3, <1>5 DEF IInv, TypeOK
<1>8. DatesPast'
  <2>1. \A r \in Request : req[r].at \in Nat /\ req[r].at <= now
    BY DEF IInv, TypeOK, RequestRow, DatesPast
  <2>2. QED
    BY <1>1, <1>3, <1>4, <1>5, <2>1 DEF DatesPast
<1>9. OneHolder' /\ LoadedRow'
  BY <1>1, <1>6 DEF OneHolder, LoadedRow
<1>10. DatedUnderLock'
  <2>1. DatedInOrder'
    BY <1>5 DEF DatedInOrder
  <2>2. QED
    BY <1>1, <1>6, <2>1 DEF DatedUnderLock
<1>11. ReplaysInCommitOrder'
  <2>1. \A x : Changes(x)' = {i \in 1..Len(trail') : x \in Touched(trail'[i])}
    BY DEF Changes, Touched
  <2>2. SUFFICES ASSUME NEW x \in Column
                 PROVE  IF Changes(x)' = {} THEN row'[x] = Null
                        ELSE \E i \in Changes(x)' :
                               row'[x] = trail'[i].after[x] /\ \A j \in Changes(x)' : j <= i
    BY DEF ReplaysInCommitOrder
  <2>3. Changes(x)' = IF x \in Touched(e) THEN {1} ELSE {}
    BY <1>5, <2>1
  <2>4. x \notin Touched(e) => w[x] = Null
    BY <1>4 DEF Touched, Empty
  <2>5. QED
    BY <1>1, <1>4, <1>5, <2>3, <2>4
<1>12. ArchiveShape'
  <2>1. \A i \in 1..Len(trail') : trail'[i].action # "archive"
    BY <1>4, <1>5
  <2>2. QED
    BY <1>1, <1>6, <2>1 DEF ArchiveShape
<1>13. LastEventExact'
  BY <1>1, <1>4, <1>5 DEF LastEventExact
<1>14. ArchivedTwiceOnlyByOverlap'
  BY <1>4, <1>5 DEF ArchivedTwiceOnlyByOverlap
<1>15. QED
  BY <1>7, <1>8, <1>9, <1>10, <1>11, <1>12, <1>13, <1>14 DEF IInv

-----------------------------------------------------------------------------
LEMMA InitIInv == Init => IInv
<1> SUFFICES ASSUME Init PROVE IInv
  OBVIOUS
<1>1. Len(trail) = 0 /\ trail \in Seq(EventRow)
  BY DEF Init
<1>2. \A r \in Request : req[r] = Idle
  BY DEF Init
<1>3. TypeOK
  BY <1>1, EmptyIsRow DEF Init, TypeOK
<1>4. DatesPast /\ OneHolder /\ DatedUnderLock /\ LoadedRow /\ ArchiveShape
  BY <1>1, <1>2, EmptyIsRow
     DEF Init, DatesPast, OneHolder, DatedUnderLock, DatedInOrder, LoadedRow, ArchiveShape
<1>5. ReplaysInCommitOrder
  BY <1>1 DEF Init, ReplaysInCommitOrder, Changes, Empty
<1>6. LastEventExact /\ ArchivedTwiceOnlyByOverlap
  BY <1>1 DEF Init, LastEventExact, ArchivedTwiceOnlyByOverlap
<1>7. QED
  BY <1>3, <1>4, <1>5, <1>6 DEF IInv

LEMMA NextIInv == IInv /\ [Next]_vars => IInv'
<1> SUFFICES ASSUME IInv, [Next]_vars PROVE IInv'
  OBVIOUS
<1>1. CASE UNCHANGED vars
  BY <1>1 DEF vars, IInv, TypeOK, DatesPast, OneHolder, DatedUnderLock, DatedInOrder,
              ReplaysInCommitOrder, LoadedRow, ArchiveShape, LastEventExact,
              ArchivedTwiceOnlyByOverlap, Changes
<1>2. ASSUME NEW c \in Bodies, Create(c) PROVE IInv'
  BY <1>2, StepCreate
<1>3. ASSUME NEW r \in Request,
             \/ \E c \in Bodies : Patch(r, c) \/ AddValuation(r, c)
             \/ ArchiveRow(r)
      PROVE  IInv'
  BY <1>3, StepRead
<1>4. ASSUME NEW r \in Request,
             DateEvent(r) \/ SendUpdate(r) \/ FlushThenDate(r) \/ Rollback(r)
      PROVE  IInv'
  BY <1>4, StepProgress
<1>5. ASSUME NEW r \in Request, Commit(r) PROVE IInv'
  BY <1>5, StepCommit
<1>6. QED
  BY <1>1, <1>2, <1>3, <1>4, <1>5 DEF Next

\* The inductive invariant holds of every execution.
LEMMA Inductive == Spec => []IInv
  BY InitIInv, NextIInv, PTL DEF Spec

-----------------------------------------------------------------------------
\* Read by date, the trail replays to the row as soon as dates follow commits.
LEMMA CommitOrderIsDateOrder == IInv => TrailReplays
<1> SUFFICES ASSUME IInv, profile.flush_first \/ DatedInOrder, NEW x \in Column
             PROVE  IF Changes(x) = {} THEN row[x] = Null
                    ELSE \E i \in Changes(x) :
                           /\ row[x] = trail[i].after[x]
                           /\ \A j \in Changes(x) : trail[j].at <= trail[i].at
  BY DEF TrailReplays
<1>1. \A i, j \in 1..Len(trail) : i < j => trail[i].at < trail[j].at
  BY DEF IInv, DatedUnderLock, DatedInOrder
<1>2. \A i \in 1..Len(trail) : trail[i] \in EventRow
  BY DEF IInv, TypeOK
<1>3. \A i \in 1..Len(trail) : trail[i].at \in Nat
  BY <1>2 DEF EventRow
<1>4. Changes(x) \subseteq 1..Len(trail) /\ Len(trail) \in Nat
  BY DEF Changes, IInv, TypeOK
<1>5. CASE Changes(x) = {}
  BY <1>5 DEF IInv, ReplaysInCommitOrder
<1>6. CASE Changes(x) # {}
  <2>1. PICK i \in Changes(x) :
          row[x] = trail[i].after[x] /\ \A j \in Changes(x) : j <= i
    BY <1>6 DEF IInv, ReplaysInCommitOrder
  <2>2. \A j \in Changes(x) : j = i \/ j < i
    BY <1>4, <2>1
  <2>3. \A j \in Changes(x) : trail[j].at <= trail[i].at
    BY <1>1, <1>3, <1>4, <2>2
  <2>4. QED
    BY <1>6, <2>1, <2>3
<1>7. QED
  BY <1>5, <1>6

\* Row, trail and requests are well typed in every reachable state.
THEOREM RegisterTypeCorrect == Spec => []TypeOK
<1>1. IInv => TypeOK
  BY DEF IInv
<1>2. QED
  BY <1>1, Inductive, PTL

\* The audit trail, in the order GET /audit shows it, replays to the row: always for
\* contacts, costs and beneficiaries, and for the other registers while dates follow
\* the commits.
THEOREM TrailAlwaysReplays == Spec => []TrailReplays
  BY Inductive, CommitOrderIsDateOrder, PTL

\* The last event shows the row as it is, unless its request missed a commit.
THEOREM LastEventIsTheRow == Spec => []LastEventExact
<1>1. IInv => LastEventExact
  BY DEF IInv
<1>2. QED
  BY <1>1, Inductive, PTL

\* The 409 of an archived row can be missed only by requests that overlap.
THEOREM ArchivedOnceAlone == Spec => []ArchivedTwiceOnlyByOverlap
<1>1. IInv => ArchivedTwiceOnlyByOverlap
  BY DEF IInv
<1>2. QED
  BY <1>1, Inductive, PTL

-----------------------------------------------------------------------------
(* The derived reclaim.                                                    *)

Follows(w) == Reclaim(w) \in {Null, w["derived"]}

\* A copy made without pinning the figure follows its values if the row loaded did.
CopyFollows ==
  \A r \in Request :
    req[r].phase # "idle" /\ profile.derives /\ ~req[r].pins /\ Follows(req[r].before)
      => Follows(req[r].after)

LEMMA DerivedFollows ==
  ASSUME NEW w \in [Column -> Cell]
  PROVE  Follows(Derived(w))
<1>1. Reclaim(Derived(w)) = Reclaim(w)
  BY DEF Derived, Reclaim, Column, Drivers
<1>2. CASE Reclaim(w) = Null
  BY <1>1, <1>2 DEF Follows
<1>3. CASE Reclaim(w) # Null
  BY <1>1, <1>3 DEF Follows, Derived, Column
<1>4. QED
  BY <1>2, <1>3

LEMMA UpdatedFollows ==
  ASSUME NEW c, NEW w \in [Column -> Cell], \A x \in DOMAIN c : c[x] \in Cell,
         profile.derives, "derived" \notin DOMAIN c, Follows(w)
  PROVE  Follows(Updated(c, w))
<1>1. Overlay(c, w) \in [Column -> Cell]
  BY OverlayIsRow
<1>2. CASE DOMAIN c \cap Drivers # {}
  <2>1. Updated(c, w) = Derived(Overlay(c, w))
    BY <1>2 DEF Updated
  <2>2. QED
    BY <1>1, <2>1, DerivedFollows
<1>3. CASE DOMAIN c \cap Drivers = {}
  <2>1. Updated(c, w) = Overlay(c, w)
    BY <1>3 DEF Updated
  <2>2. \A x \in Drivers \cup {"derived"} : Overlay(c, w)[x] = w[x]
    BY <1>3 DEF Overlay, Column
  <2>3. Reclaim(Overlay(c, w)) = Reclaim(w) /\ Overlay(c, w)["derived"] = w["derived"]
    BY <2>2 DEF Reclaim, Drivers
  <2>4. QED
    BY <2>1, <2>3 DEF Follows
<1>4. QED
  BY <1>2, <1>3

LEMMA StepFollows ==
  ASSUME IInv, CopyFollows, ReclaimFollowsValues, [Next]_vars
  PROVE  CopyFollows' /\ ReclaimFollowsValues'
<1>1. row \in [Column -> Cell] /\ req \in [Request -> RequestRow] /\ trail \in Seq(EventRow)
  BY DEF IInv, TypeOK
<1>2. ASSUME UNCHANGED <<profile, row, trail>>, CopyFollows' PROVE ReclaimFollowsValues'
  BY <1>2 DEF ReclaimFollowsValues, Reclaim
<1>3. ASSUME UNCHANGED <<profile, row, trail>>, NEW r \in Request, NEW new,
             req' = [req EXCEPT ![r] = new],
             new.phase # "idle" /\ profile.derives /\ ~new.pins /\ Follows(new.before)
               => Follows(new.after)
      PROVE  CopyFollows' /\ ReclaimFollowsValues'
  <2>1. \A q \in Request : req'[q] = IF q = r THEN new ELSE req[q]
    BY <1>1, <1>3
  <2>2. CopyFollows'
    BY <1>3, <2>1 DEF CopyFollows, Follows, Reclaim
  <2>3. QED
    BY <1>2, <1>3, <2>2
<1>4. CASE UNCHANGED vars
  BY <1>4 DEF vars, CopyFollows, ReclaimFollowsValues, Follows, Reclaim
<1>5. ASSUME NEW c \in Bodies, Create(c) PROVE CopyFollows' /\ ReclaimFollowsValues'
  <2>1. trail = <<>> /\ row' = Created(Overlay(c, Empty)) /\ UNCHANGED <<profile, req>>
        /\ trail'[1].pins = ("derived" \in DOMAIN c) /\ Len(trail') = 1
    BY <1>5 DEF Create
  <2>2. \A r \in Request : req'[r].phase = "idle"
    BY <2>1 DEF IInv, LoadedRow
  <2>3. c \in Body
    BY RegisterAssumption
  <2>4. Overlay(c, Empty) \in [Column -> Cell]
    BY <2>3, BodyShape, EmptyIsRow, OverlayIsRow
  <2>5. ASSUME profile.derives, "derived" \notin DOMAIN c PROVE Follows(row')
    <3>1. Overlay(c, Empty)["derived"] = Null
      BY <2>5 DEF Overlay, Empty, Column
    <3>2. row' = Derived(Overlay(c, Empty))
      BY <2>1, <2>5, <3>1 DEF Created
    <3>3. QED
      BY <2>4, <3>2, DerivedFollows
  <2>6. ReclaimFollowsValues'
    <3>1. 1 \in 1..Len(trail')
      BY <2>1
    <3>2. ASSUME profile.derives, \A i \in 1..Len(trail') : trail'[i].alone /\ ~trail'[i].pins
          PROVE  Follows(row')
      <4>1. ~trail'[1].pins
        BY <3>1, <3>2
      <4>2. "derived" \notin DOMAIN c
        BY <2>1, <4>1, Zenon
      <4>3. QED
        BY <2>5, <3>2, <4>2
    <3>3. QED
      BY <2>1, <3>2 DEF ReclaimFollowsValues, Follows, Reclaim
  <2>7. QED
    BY <2>2, <2>6 DEF CopyFollows
<1>6. ASSUME NEW r \in Request, NEW c, NEW action, Load(r, action, c),
             \A x \in DOMAIN c : c[x] \in Cell
      PROVE  CopyFollows' /\ ReclaimFollowsValues'
  <2> DEFINE new == [phase |-> "loaded", before |-> row, after |-> Updated(c, row), at |-> 0,
                     base |-> Len(trail), action |-> action, pins |-> "derived" \in DOMAIN c]
  <2>1. req' = [req EXCEPT ![r] = new] /\ UNCHANGED <<profile, row, trail>>
    BY <1>6 DEF Load
  <2>2. profile.derives /\ ~new.pins /\ Follows(new.before) => Follows(new.after)
    BY <1>1, <1>6, UpdatedFollows
  <2> HIDE DEF new
  <2>3. QED
    BY <1>3, <2>1, <2>2
<1>7. ASSUME NEW r \in Request,
             \/ \E c \in Bodies : Patch(r, c) \/ AddValuation(r, c)
             \/ ArchiveRow(r)
      PROVE  CopyFollows' /\ ReclaimFollowsValues'
  <2>1. \A c \in Bodies : \A x \in DOMAIN c : c[x] \in Cell
    BY BodyShape, RegisterAssumption
  <2>2. \A x \in DOMAIN Archive : Archive[x] \in Cell
    BY RegisterAssumption DEF Archive, Cell
  <2>3. QED
    BY <1>6, <1>7, <2>1, <2>2 DEF Patch, AddValuation, ArchiveRow
<1>8. ASSUME NEW r \in Request,
             DateEvent(r) \/ SendUpdate(r) \/ FlushThenDate(r)
      PROVE  CopyFollows' /\ ReclaimFollowsValues'
  <2>1. PICK p \in {"dated", "written"}, n \in {now, now + 1, req[r].at} :
          req' = [req EXCEPT ![r] = [req[r] EXCEPT !.phase = p, !.at = n]]
    <3>1. req[r] \in RequestRow
      BY <1>1
    <3>2. CASE DateEvent(r)
      BY <3>2 DEF DateEvent
    <3>3. CASE FlushThenDate(r)
      BY <3>3 DEF FlushThenDate
    <3>4. CASE SendUpdate(r)
      <4>1. req' = [req EXCEPT ![r] = [req[r] EXCEPT !.phase = "written"]]
        BY <3>4 DEF SendUpdate
      <4>2. [req[r] EXCEPT !.phase = "written"]
              = [req[r] EXCEPT !.phase = "written", !.at = req[r].at]
        BY <3>1 DEF RequestRow
      <4>3. QED
        BY <4>1, <4>2
    <3>5. QED
      BY <1>8, <3>2, <3>3, <3>4
  <2>2. UNCHANGED <<profile, row, trail>> /\ req[r].phase # "idle"
    BY <1>8 DEF DateEvent, SendUpdate, FlushThenDate
  <2> DEFINE new == [req[r] EXCEPT !.phase = p, !.at = n]
  <2>3. new.pins = req[r].pins /\ new.before = req[r].before /\ new.after = req[r].after
    <3>1. req[r] \in RequestRow
      BY <1>1
    <3>2. QED
      BY <3>1 DEF RequestRow
  <2>4. profile.derives /\ ~new.pins /\ Follows(new.before) => Follows(new.after)
    BY <2>2, <2>3 DEF CopyFollows
  <2>5. req' = [req EXCEPT ![r] = new]
    BY <2>1
  <2> HIDE DEF new
  <2>6. QED
    BY <1>3, <2>2, <2>4, <2>5
<1>9. ASSUME NEW r \in Request, Rollback(r) PROVE CopyFollows' /\ ReclaimFollowsValues'
  BY <1>3, <1>9, EmptyIsRow DEF Rollback
<1>10. ASSUME NEW r \in Request, Commit(r) PROVE CopyFollows' /\ ReclaimFollowsValues'
  <2>1. /\ req[r].phase = "written" /\ req' = [req EXCEPT ![r] = Idle]
        /\ row' = Written(req[r], row) /\ UNCHANGED profile
        /\ Len(trail') = Len(trail) + 1 /\ Len(trail) \in Nat
        /\ \A i \in 1..Len(trail) : trail'[i] = trail[i]
        /\ trail'[Len(trail) + 1].alone = (req[r].base = Len(trail))
        /\ trail'[Len(trail) + 1].pins = req[r].pins
    BY <1>1, <1>10 DEF Commit
  <2>2. \A q \in Request : req'[q] = IF q = r THEN Idle ELSE req[q]
    BY <1>1, <2>1
  <2>3. CopyFollows'
    BY <2>1, <2>2, EmptyIsRow DEF CopyFollows, Follows, Reclaim
  <2>4. ASSUME profile.derives,
               \A i \in 1..Len(trail') : trail'[i].alone /\ ~trail'[i].pins
        PROVE  Follows(row')
    <3>1. /\ \A i \in 1..Len(trail) : trail[i].alone /\ ~trail[i].pins
          /\ req[r].base = Len(trail) /\ ~req[r].pins
      <4>1. Len(trail) + 1 \in 1..Len(trail') /\ 1..Len(trail) \subseteq 1..Len(trail')
        BY <2>1
      <4>2. trail'[Len(trail) + 1].alone /\ ~trail'[Len(trail) + 1].pins
        BY <2>4, <4>1
      <4>3. \A i \in 1..Len(trail) : trail[i].alone /\ ~trail[i].pins
        BY <2>1, <2>4, <4>1
      <4>4. QED
        BY <2>1, <4>2, <4>3, Zenon
    <3>2. req[r].before = row /\ Follows(row)
      BY <2>1, <2>4, <3>1 DEF IInv, LoadedRow, ReclaimFollowsValues, Follows
    <3>3. row' = req[r].after
      BY <1>1, <2>1, <3>2, WrittenRow DEF RequestRow
    <3>4. QED
      BY <2>1, <2>4, <3>1, <3>2, <3>3 DEF CopyFollows
  <2>5. ReclaimFollowsValues'
    BY <2>1, <2>4 DEF ReclaimFollowsValues, Follows, Reclaim
  <2>6. QED
    BY <2>3, <2>5
<1>11. QED
  BY <1>4, <1>5, <1>7, <1>8, <1>9, <1>10 DEF Next

\* A relief nobody pinned and no overlap touched shows the reclaim its values give
\* (update_relief, _apply_derivations).
THEOREM ReclaimAlwaysFollows == Spec => []ReclaimFollowsValues
<1>1. Init => CopyFollows /\ ReclaimFollowsValues
  <2> SUFFICES ASSUME Init PROVE CopyFollows /\ ReclaimFollowsValues
    OBVIOUS
  <2>1. Reclaim(Empty) = Null
    BY DEF Reclaim, Empty, Column, Drivers
  <2>2. QED
    BY <2>1, EmptyIsRow DEF Init, CopyFollows, ReclaimFollowsValues
<1>2. QED
  BY <1>1, Inductive, StepFollows, PTL DEF Spec

-----------------------------------------------------------------------------
(* The register implements its log.                                        *)

ChangesOf(t) == [i \in 1..Len(t) |-> ChangeOf(t[i])]

LEMMA ChangesGrow ==
  ASSUME NEW t \in Seq(EventRow), NEW e \in EventRow
  PROVE  ChangesOf(Append(t, e)) = Append(ChangesOf(t), ChangeOf(e))
<1>1. ChangesOf(t) \in Seq({ChangeOf(x) : x \in EventRow}) /\ Len(ChangesOf(t)) = Len(t)
  BY DEF ChangesOf
<1>2. QED
  BY <1>1 DEF ChangesOf

\* An event that joins the trail is a record of the log.
LEMMA EventIsRecord ==
  ASSUME IInv, NEW e \in EventRow, trail' = Append(trail, e), row' = Written(e, row)
  PROVE  Log!Record(Touched(e))
<1>1. /\ row' \in [Column -> Cell]
      /\ \A x \in Column : row'[x] = IF x \in Touched(e) THEN e.after[x] ELSE row[x]
  BY EventJoins
<1>2. ChangeOf(e) = [x \in Touched(e) |-> row'[x]]
  BY <1>1 DEF ChangeOf, Touched
<1>3. ChangesOf(trail)' = Append(ChangesOf(trail), ChangeOf(e))
  <2>1. ChangesOf(trail)' = ChangesOf(trail')
    BY DEF ChangesOf, ChangeOf, Touched
  <2>2. trail \in Seq(EventRow)
    BY DEF IInv, TypeOK
  <2>3. QED
    BY <2>1, <2>2, ChangesGrow
<1>4. QED
  BY <1>1, <1>2, <1>3 DEF Log!Record, ChangesOf

LEMMA StepImplements ==
  ASSUME IInv, [Next]_vars
  PROVE  [Log!Next]_(Log!vars)
<1>1. ASSUME UNCHANGED <<row, trail>> PROVE UNCHANGED Log!vars
  BY <1>1 DEF Log!vars, ChangeOf, Touched
<1>2. ASSUME NEW e \in EventRow, trail' = Append(trail, e), row' = Written(e, row)
      PROVE  Log!Next
  <2>1. Touched(e) \in SUBSET Column
    BY DEF Touched
  <2>2. QED
    BY <1>2, <2>1, EventIsRecord DEF Log!Next
<1>3. ASSUME NEW c \in Bodies, Create(c) PROVE Log!Next
  <2> DEFINE w == Created(Overlay(c, Empty))
             e == [at |-> now + 1, before |-> Empty, after |-> w, alone |-> TRUE,
                   action |-> "create", pins |-> "derived" \in DOMAIN c]
  <2>1. trail = <<>> /\ trail' = <<e>> /\ row' = w
    BY <1>3 DEF Create
  <2>2. w \in [Column -> Cell]
    <3>1. c \in Body
      BY RegisterAssumption
    <3>2. Overlay(c, Empty) \in [Column -> Cell]
      BY <3>1, BodyShape, EmptyIsRow, OverlayIsRow
    <3>3. QED
      BY <3>2, CreatedIsRow
  <2>3. e \in EventRow /\ e.before = Empty /\ e.after = w
    BY <2>2, EmptyIsRow DEF EventRow, IInv, TypeOK
  <2> HIDE DEF w, e
  <2>4. row = Empty
    <3>1. Len(trail) = 0
      BY <2>1
    <3>2. \A x \in Column : Changes(x) = {}
      BY <3>1 DEF Changes
    <3>3. \A x \in Column : row[x] = Null
      BY <3>2 DEF IInv, ReplaysInCommitOrder
    <3>4. QED
      BY <3>3 DEF Empty, IInv, TypeOK
  <2>5. Written(e, row) = w
    BY <2>2, <2>3, <2>4, EmptyIsRow, WrittenRow
  <2>6. trail' = Append(trail, e)
    BY <2>1
  <2>7. QED
    BY <1>2, <2>1, <2>3, <2>5, <2>6
<1>4. ASSUME NEW r \in Request, Commit(r) PROVE Log!Next
  <2> DEFINE e == [at |-> req[r].at, before |-> req[r].before, after |-> req[r].after,
                   alone |-> req[r].base = Len(trail), action |-> req[r].action,
                   pins |-> req[r].pins]
  <2>1. req[r].phase = "written" /\ trail' = Append(trail, e) /\ row' = Written(req[r], row)
    BY <1>4 DEF Commit
  <2>2. req[r] \in RequestRow /\ req[r].action \in {"update", "archive"}
    BY <2>1 DEF IInv, TypeOK, ArchiveShape
  <2>3. e \in EventRow /\ e.before = req[r].before /\ e.after = req[r].after
    BY <2>2 DEF RequestRow, EventRow
  <2>4. Written(req[r], row) = Written(e, row)
    BY <2>3 DEF Touched, Written, ChangeOf
  <2> HIDE DEF e
  <2>5. QED
    BY <1>2, <2>1, <2>3, <2>4
<1>5. ASSUME NEW r \in Request,
             \/ \E c \in Bodies : Patch(r, c) \/ AddValuation(r, c)
             \/ ArchiveRow(r) \/ DateEvent(r) \/ SendUpdate(r) \/ FlushThenDate(r)
             \/ Rollback(r)
      PROVE  UNCHANGED <<row, trail>>
  BY <1>5 DEF Patch, AddValuation, ArchiveRow, Load, DateEvent, SendUpdate, FlushThenDate,
              Rollback
<1>6. CASE UNCHANGED vars
  BY <1>1, <1>6 DEF vars
<1>7. QED
  BY <1>1, <1>3, <1>4, <1>5, <1>6 DEF Next

\* A register row with its trail is a register log: no overlap of requests loses a
\* committed change or records one that was not made.
THEOREM RegisterKeepsItsLog == Spec => LogSpec
<1>1. Init => Log!Init
  BY DEF Init, Log!Init, Empty
<1>2. QED
  BY <1>1, Inductive, StepImplements, PTL DEF Spec, LogSpec, Log!Spec
=============================================================================
