--------------------------- MODULE DeadlineBoard ---------------------------
(***************************************************************************)
(* The deadline board (app/api/process.py) and the administration tax      *)
(* years (app/api/admin_tax.py), under overlapping requests.               *)
(*                                                                         *)
(* POST /deadlines/recompute derives the statutory set from the estate,    *)
(* its section 27 notices, assets and tax years, and upserts one row per   *)
(* type; it archives nothing.  A tax year's derived columns are refreshed  *)
(* by each write of its row.  A request reads, then commits: the reads are *)
(* one step and the commit another.  Of a loaded row the ORM writes back   *)
(* only the columns that differ from what was loaded.                      *)
(***************************************************************************)
EXTENDS StatutoryDates, Sequences, FiniteSets

CONSTANTS
  DeathDate,      \* dates of death considered
  PublishDate,    \* publication dates of section 27 notices
  TaxYear,        \* tax years
  Income,         \* income figures of a year
  Disposals,      \* lists of disposals, as a request body holds them
  NetValue,       \* net values of the latest assessment
  IncomeLimit, GainsLimit, ValueLimit,  \* INFORMAL_ROUTE_THRESHOLDS
  Null,           \* an empty column
  Request,        \* requests that may overlap
  MaxRows,        \* bound: tax year rows
  MaxWrites       \* bound: requests and changes of the facts in a behaviour

VARIABLES
  estate,     \* date of death, and net value of the latest assessment
  published,  \* the Gazette and local dates of the live section 27 notices
  isa,        \* whether a live asset is an ISA
  years,      \* the tax year rows, in order of insertion
  board,      \* the live deadline rows of each type, in order of insertion
  req,        \* the requests in flight
  writes      \* how many requests and changes there have been

facts == <<estate, published, isa>>
vars == <<facts, years, board, req, writes>>

\* The types of the first reporting deadlines (bound: two of them).
CgtType == <<"cgt_60_day_1", "cgt_60_day_2">>
Type == {"iht_payment", "iht400_filing", "s27_claim", "isa_exemption_end",
         CgtType[1], CgtType[2]}

\* A disposal as CgtDisposal.model_dump stores it.
StoredField(disposal, field) ==
  IF field \in DOMAIN disposal THEN disposal[field] ELSE Null

ASSUME DeadlineAssumption ==
  /\ Null \notin DeathDate \cup Income \cup NetValue
  /\ \A n \in DeathDate \cup PublishDate : IsRecorded(n)
  /\ \A s \in Disposals : \A i \in DOMAIN s :
       LET d == StoredField(s[i], "disposal_date") IN d = Null \/ IsRecorded(d)
  /\ MaxRows \in Nat /\ MaxWrites \in Nat

LastOf(S) == CHOOSE d \in S : \A e \in S : e <= d

-----------------------------------------------------------------------------
(* Derivations.                                                            *)

\* The dates _derive_statutory_set looks up: the entry "date" of each disposal of a
\* live row, in the order of the rows.
RecordedDates(rows) ==
  LET Lookup(s) == [i \in 1 .. Len(s) |-> StoredField(s[i], "date")]
      all[k \in 0 .. Len(rows)] ==
        IF k = 0 THEN <<>>
        ELSE all[k - 1] \o IF rows[k].live THEN Lookup(rows[k].disposals) ELSE <<>>
  IN  SelectSeq(all[Len(rows)], LAMBDA d : d # Null)

S27Claim(dates) ==
  IF dates = {} THEN {} ELSE {<<"s27_claim", GazetteClaimDeadline(LastOf(dates))>>}

\* The deadlines that apply to the estate: pairs of type and date.
StatutorySet ==
  {<<"iht_payment", IhtPaymentDue(estate.dod)>>,
   <<"iht400_filing", Iht400FilingDue(estate.dod)>>}
  \cup S27Claim(published)
  \cup (IF isa THEN {<<"isa_exemption_end", IsaExemptionEnd(estate.dod)>>} ELSE {})
  \cup {<<CgtType[i], Cgt60DayDeadline(RecordedDates(years)[i])>> :
          i \in DOMAIN RecordedDates(years) \cap DOMAIN CgtType}

\* _derive_cgt_deadlines of one row: disposal date and deadline.
CgtDeadlines(disposals) ==
  {<<d, Cgt60DayDeadline(d)>> :
     d \in {StoredField(disposals[i], "disposal_date") : i \in DOMAIN disposals} \ {Null}}

TotalGains(disposals) ==
  LET sum[k \in 0 .. Len(disposals)] ==
        IF k = 0 THEN 0
        ELSE sum[k - 1] + LET g == StoredField(disposals[k], "gain") IN IF g = Null THEN 0 ELSE g
  IN  sum[Len(disposals)]

\* derive_estate_complex: an unknown net value counts as complex.
Complex(income, disposals, net) ==
  \/ income # Null /\ income > IncomeLimit
  \/ TotalGains(disposals) > GainsLimit
  \/ net = Null
  \/ net > ValueLimit

IsaEnd(dod) == IF dod = Null THEN Null ELSE IsaExemptionEnd(dod)

\* Faulty variant: the list of reporting deadlines is kept when it is not empty.
DerivedStickyCgt(row) ==
  [row EXCEPT !.cgt = IF @ = {} THEN CgtDeadlines(row.disposals) ELSE @,
              !.isaEnd = IsaEnd(estate.dod),
              !.complex = Complex(row.income, row.disposals, estate.net),
              !.dod = estate.dod, !.net = estate.net]

\* _apply_derivations and _derive_complex.  dod and net are histories of what the row
\* was derived from.
Derived(row) ==
  [row EXCEPT !.cgt = CgtDeadlines(row.disposals),
              !.isaEnd = IsaEnd(estate.dod),
              !.complex = Complex(row.income, row.disposals, estate.net),
              !.dod = estate.dod, !.net = estate.net]

\* A new row.  own: its year was checked against all others; exact: no other write of
\* the row overlapped the last one.
TaxYearRow(y, income, disposals) ==
  Derived([year |-> y, income |-> income, disposals |-> disposals, cgt |-> {},
           isaEnd |-> Null, complex |-> FALSE, live |-> TRUE,
           dod |-> Null, net |-> Null, own |-> TRUE, exact |-> TRUE])

-----------------------------------------------------------------------------
(* Requests.                                                               *)

Idle == [kind |-> "idle"]

\* What was committed between the reads and the commit of these requests spoils them.
Spoiled(kinds) ==
  [q \in Request |-> IF req[q].kind \in kinds THEN [req[q] EXCEPT !.clean = FALSE]
                     ELSE req[q]]

Finish(r, kinds) == req' = [Spoiled(kinds) EXCEPT ![r] = Idle]

Counted == writes < MaxWrites /\ writes' = writes + 1

Init ==
  /\ estate \in [dod : DeathDate \cup {Null}, net : NetValue \cup {Null}]
  /\ published \in {{}} \cup {{p} : p \in PublishDate}
  /\ isa = FALSE
  /\ years \in {<<>>} \cup {<<TaxYearRow(y, i, d)>> : y \in TaxYear, i \in Income, d \in Disposals}
  /\ board = [t \in Type |-> <<>>]
  /\ req = [r \in Request |-> Idle]
  /\ writes = 0

\* PUT /estate, and the snapshot it or POST /iht/recompute stores.
UpdateEstate(dod, net) ==
  /\ estate # [dod |-> dod, net |-> net]
  /\ Counted
  /\ estate' = [dod |-> dod, net |-> net]
  /\ req' = Spoiled({"recompute", "create", "patch"})
  /\ UNCHANGED <<published, isa, years, board>>

\* Section 27 notices are published, redated and archived.
UpdateNotices(dates) ==
  /\ published # dates
  /\ Counted
  /\ published' = dates
  /\ req' = Spoiled({"recompute"})
  /\ UNCHANGED <<estate, isa, years, board>>

\* An ISA is recorded among the assets, or the last one is archived.
UpdateAssets ==
  /\ Counted
  /\ isa' = ~isa
  /\ req' = Spoiled({"recompute"})
  /\ UNCHANGED <<estate, published, years, board>>

\* Faulty variant: a row the query returns is not found again by its type.
RowToUpdateNone(t, last) == 0

\* existing.get: of several rows of a type the dictionary keeps the one the query
\* returned last, and the query has no order (last: newest or oldest); 0 is none.
RowToUpdate(t, last) ==
  IF board[t] = <<>> THEN 0 ELSE IF last THEN Len(board[t]) ELSE 1

\* POST /deadlines/recompute, its reads.
BeginRecompute(r, last) ==
  /\ req[r].kind = "idle"
  /\ estate.dod # Null
  /\ Counted
  /\ LET row == [t \in Type |-> RowToUpdate(t, last)] IN
     req' = [req EXCEPT ![r] =
       [kind |-> "recompute", items |-> StatutorySet, row |-> row,
        seen |-> [t \in Type |-> IF row[t] = 0 THEN Null ELSE board[t][row[t]].date],
        clean |-> TRUE]]
  /\ UNCHANGED <<facts, years, board>>

\* Faulty variant: a date that is already on the board is left as it is.
UpsertedOnce(q, t, date) ==
  IF q.row[t] = 0 THEN Append(board[t], [date |-> date, clean |-> q.clean]) ELSE board[t]

\* The rows of type t after the upsert of q with this date.
Upserted(q, t, date) ==
  IF q.row[t] = 0 THEN Append(board[t], [date |-> date, clean |-> q.clean])
  ELSE IF date = q.seen[t] THEN board[t]
  ELSE [board[t] EXCEPT ![q.row[t]].date = date]

\* Its upserts, audit event and commit.
CommitRecompute(r) ==
  LET q == req[r] IN
  /\ q.kind = "recompute"
  /\ board' = [t \in Type |->
       IF \E p \in q.items : p[1] = t
       THEN Upserted(q, t, (CHOOSE p \in q.items : p[1] = t)[2])
       ELSE board[t]]
  /\ Finish(r, {"recompute"})
  /\ UNCHANGED <<facts, years, writes>>

YearTaken(y) == \E i \in DOMAIN years : years[i].live /\ years[i].year = y

\* POST /admin-tax, its reads: 409 when a live row has the year.
BeginCreate(r, y, income, disposals) ==
  /\ req[r].kind = "idle"
  /\ ~YearTaken(y)
  /\ Len(years) < MaxRows
  /\ Counted
  /\ req' = [req EXCEPT ![r] =
       [kind |-> "create", new |-> TaxYearRow(y, income, disposals), clean |-> TRUE]]
  /\ UNCHANGED <<facts, years, board>>

CommitCreate(r) ==
  LET q == req[r] IN
  /\ q.kind = "create"
  /\ Len(years) < MaxRows
  /\ years' = Append(years, [q.new EXCEPT !.own = q.clean])
  /\ Finish(r, {"recompute", "create"})
  /\ UNCHANGED <<facts, board, writes>>

\* PATCH /admin-tax/{id} with new values for the columns the body sets, archived or not.
BeginPatch(r, i, body) ==
  /\ req[r].kind = "idle"
  /\ Counted
  /\ req' = [req EXCEPT ![r] =
       [kind |-> "patch", at |-> i, seen |-> years[i],
        new |-> Derived([c \in DOMAIN years[i] |->
                           IF c \in DOMAIN body THEN body[c] ELSE years[i][c]]),
        clean |-> TRUE]]
  /\ UNCHANGED <<facts, years, board>>

CommitPatch(r) ==
  LET q == req[r]
      Columns == {"year", "income", "disposals", "cgt", "isaEnd", "complex"}
      row == years[q.at]
  IN
  /\ q.kind = "patch"
  /\ years' = [years EXCEPT ![q.at] =
       [c \in DOMAIN row |->
          CASE c \in Columns -> IF q.new[c] # q.seen[c] THEN q.new[c] ELSE row[c]
            [] c = "own" -> row.own /\ q.new.year = q.seen.year
            [] c = "exact" -> q.clean
            [] c \in {"dod", "net"} -> q.new[c]
            [] OTHER -> row[c]]]
  /\ Finish(r, {"recompute", "create", "patch"})
  /\ UNCHANGED <<facts, board, writes>>

\* DELETE /admin-tax/{id}: 409 when archived.  It writes no column another request does.
ArchiveYear(i) ==
  /\ years[i].live
  /\ Counted
  /\ years' = [years EXCEPT ![i].live = FALSE]
  /\ req' = Spoiled({"recompute"})
  /\ UNCHANGED <<facts, board>>

\* The client goes away or a statement fails.
Rollback(r) ==
  /\ req[r].kind # "idle"
  /\ req' = [req EXCEPT ![r] = Idle]
  /\ UNCHANGED <<facts, years, board, writes>>

\* At the bound, with no request in flight, nothing more happens.
Quiet ==
  /\ writes = MaxWrites
  /\ \A r \in Request : req[r] = Idle
  /\ UNCHANGED vars

Next ==
  \/ Quiet
  \/ \E dod \in DeathDate \cup {Null}, net \in NetValue \cup {Null} : UpdateEstate(dod, net)
  \/ \E dates \in SUBSET PublishDate : UpdateNotices(dates)
  \/ UpdateAssets
  \/ \E i \in DOMAIN years : ArchiveYear(i)
  \/ \E r \in Request :
       \/ \E last \in BOOLEAN : BeginRecompute(r, last)
       \/ CommitRecompute(r)
       \/ \E y \in TaxYear, n \in Income, d \in Disposals : BeginCreate(r, y, n, d)
       \/ CommitCreate(r)
       \/ \E i \in DOMAIN years :
            \/ \E y \in TaxYear : BeginPatch(r, i, [year |-> y])
            \/ \E n \in Income : BeginPatch(r, i, [income |-> n])
            \/ \E d \in Disposals : BeginPatch(r, i, [disposals |-> d])
       \/ CommitPatch(r)
       \/ Rollback(r)

Spec == Init /\ [][Next]_vars
-----------------------------------------------------------------------------
(* Correctness.                                                            *)

\* A deadline has two live rows only when two recomputations overlapped: of the rows of
\* a type, at most one was inserted by a request nothing was committed against between
\* its reads and its commit (recompute_deadlines, which checks existing rows itself;
\* no constraint of the table does).  Two live rows of one tax year come from such an
\* overlap or from a PATCH that renamed one (create_admin_tax).
RowTwiceOnlyByOverlap ==
  /\ \A t \in Type : \A i, j \in DOMAIN board[t] :
       board[t][i].clean /\ board[t][j].clean => i = j
  /\ \A i, j \in DOMAIN years :
       /\ years[i].live /\ years[j].live /\ years[i].year = years[j].year
       /\ years[i].own /\ years[j].own
       => i = j

\* A recomputation that had the facts and the board to itself leaves, for every deadline
\* that applies, a row with the date the facts give, and no row with another date unless
\* the type has two - however stale the board was, and whatever recomputations with older
\* facts had left on it (recompute_deadlines: the upsert by type).
RecomputeRefreshes ==
  [][\A r \in Request : CommitRecompute(r) /\ req[r].clean =>
       \A p \in StatutorySet :
         LET rows == board'[p[1]] IN
         /\ \E i \in DOMAIN rows : rows[i].date = p[2]
         /\ Len(rows) = 1 => rows[1].date = p[2]]_vars

\* The day two months after n, or the first of the next month where there is none.
TwoMonthsAfter(n) ==
  IF DayOf(n) <= LengthOfMonth(InMonth(n, 2, 1)) THEN InMonth(n, 2, DayOf(n)) ELSE InMonth(n, 3, 1)

\* The last day of the month k months after that of n.
EndOfMonthAfter(n, k) == Ordinal(InMonth(n, k + 1, 1)) - 1

\* The dates are dates of the calendar and have the length the statutes they cite give
\* them (deadlines.py), at month ends and in leap years too: tax is due on the last day of
\* the sixth month after the month of death, the account six months later, the instalments
\* a year apart in the same month; a section 27 claim never has less than two full months
\* from any of the published notices; a disposal is reported within sixty days.
StatutoryWindows ==
  /\ estate.dod # Null =>
       LET due == IhtPaymentDue(estate.dod) IN
       /\ Ordinal(due) = EndOfMonthAfter(estate.dod, 6)
       /\ Ordinal(Iht400FilingDue(estate.dod)) = EndOfMonthAfter(due, 6)
       /\ \A k \in 1 .. 10 :
            InstalmentDue(estate.dod, k) \div 100 = InMonth(due, 12 * (k - 1), 1) \div 100
  /\ \A c \in S27Claim(published), n \in published :
       IsDate(c[2]) /\ c[2] >= TwoMonthsAfter(n)
  /\ \A i \in DOMAIN years : \A c \in CgtDeadlines(years[i].disposals) :
       IsDate(c[2]) /\ Ordinal(c[2]) - Ordinal(c[1]) = 60

\* A tax year's derived columns are those its figures give, with the date of death and
\* the assessment of its last write, unless writes of it overlapped - and the next write
\* that does not overlap restores them all, whichever column it was sent for
\* (_apply_derivations, _derive_complex, on every POST and PATCH).
TaxYearDerivedExact ==
  \A i \in DOMAIN years :
    LET row == years[i] IN
    row.exact => /\ row.cgt = CgtDeadlines(row.disposals)
                 /\ row.isaEnd = IsaEnd(row.dod)
                 /\ row.complex = Complex(row.income, row.disposals, row.net)

-----------------------------------------------------------------------------
(* What the module says of disposals and the code does not do.             *)

\* "CGT 60-day deadlines for recorded residential disposals." (process.py): after a
\* recomputation that had the facts to itself, the reporting deadline of every disposal
\* of a live tax year is on the board.
CgtDeadlineListed ==
  [][\A r \in Request : CommitRecompute(r) /\ req[r].clean =>
       \A i \in DOMAIN years : years[i].live =>
         \A c \in CgtDeadlines(years[i].disposals) :
           \E t \in {CgtType[1], CgtType[2]} : \E k \in DOMAIN board'[t] :
             board'[t][k].date = c[2]]_vars
=============================================================================
