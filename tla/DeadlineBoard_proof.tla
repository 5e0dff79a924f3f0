------------------------- MODULE DeadlineBoard_proof -------------------------
(***************************************************************************)
(* Proofs about DeadlineBoard, for any dates, figures, disposals, requests *)
(* and bounds.                                                             *)
(***************************************************************************)
EXTENDS DeadlineBoard, SequenceTheorems, NaturalsInduction, WellFoundedInduction, TLAPS

(***************************************************************************)
(* The argument.  A request that is still clean has missed no commit, so   *)
(* what it found missing is missing still: a row that it inserts is the    *)
(* first clean one of its type, or the first of its year.                  *)
(***************************************************************************)

\* A sequence of whatever.
IsSeq(s) == \E n \in Nat : DOMAIN s = 1 .. n /\ s = [i \in 1 .. n |-> s[i]]

RowShape ==
  /\ board = [t \in Type |-> board[t]]
  /\ \A t \in Type : IsSeq(board[t]) /\ \A i \in DOMAIN board[t] : "clean" \in DOMAIN board[t][i]

YearShape ==
  /\ IsSeq(years)
  /\ \A i \in DOMAIN years : {"year", "live", "own"} \subseteq DOMAIN years[i]

WellFormed(q) ==
  /\ "kind" \in DOMAIN q
  /\ q.kind = "recompute" => {"row", "clean"} \subseteq DOMAIN q
  /\ q.kind = "create" => {"new", "clean"} \subseteq DOMAIN q

RequestShape ==
  /\ req = [r \in Request |-> req[r]]
  /\ \A r \in Request : WellFormed(req[r])

\* A clean recomputation that found no row of a type: there is none.
RowsMissing ==
  \A r \in Request : req[r].kind = "recompute" /\ req[r].clean =>
    \A t \in Type : req[r].row[t] = 0 => DOMAIN board[t] = {}

\* A clean creation of a year: no live row has it.
YearsMissing ==
  \A r \in Request : req[r].kind = "create" =>
    /\ {"year", "live", "own"} \subseteq DOMAIN req[r].new
    /\ req[r].clean =>
         \A i \in DOMAIN years : years[i].live => years[i].year # req[r].new.year

OneCleanRow ==
  \A t \in Type : \A i, j \in DOMAIN board[t] :
    board[t][i].clean /\ board[t][j].clean => i = j

OneOwnYear ==
  \A i, j \in DOMAIN years :
    /\ years[i].live /\ years[j].live /\ years[i].year = years[j].year
    /\ years[i].own /\ years[j].own
    => i = j

Shapes == RowShape /\ YearShape /\ RequestShape
IInv == Shapes /\ RowsMissing /\ YearsMissing /\ OneCleanRow /\ OneOwnYear

\* A request is no cleaner a recomputation or creation than it was before.
NoCleaner(old, new) ==
  /\ new.kind = "recompute" =>
       /\ old.kind = "recompute" /\ new.row = old.row
       /\ new.clean => old.clean
  /\ new.kind = "create" =>
       /\ old.kind = "create" /\ new.new = old.new
       /\ new.clean => old.clean

NoneCleaner == \A r \in Request : NoCleaner(req[r], req'[r])

-----------------------------------------------------------------------------
(* Sequences.                                                              *)

LEMMA FunctionIsSeq ==
  ASSUME NEW n \in Nat, NEW T, NEW f \in [1 .. n -> T]
  PROVE  IsSeq(f)
  BY DEF IsSeq

LEMMA LenOfSeq ==
  ASSUME NEW s, IsSeq(s)
  PROVE  Len(s) \in Nat /\ DOMAIN s = 1 .. Len(s)
<1>1. PICK n \in Nat : DOMAIN s = 1 .. n /\ s = [i \in 1 .. n |-> s[i]]
  BY DEF IsSeq
<1> DEFINE S == {s[i] : i \in 1 .. n}
<1>2. s \in [1 .. n -> S]
  BY <1>1
<1>3. s \in Seq(S)
  BY <1>1, <1>2, IsASeq
<1>4. QED
  BY <1>3, LenProperties

\* Append adds one element at the end.
LEMMA Appended ==
  ASSUME NEW s, IsSeq(s), NEW e
  PROVE  /\ IsSeq(Append(s, e))
         /\ DOMAIN Append(s, e) = DOMAIN s \cup {Len(s) + 1}
         /\ Len(s) + 1 \notin DOMAIN s
         /\ Append(s, e)[Len(s) + 1] = e
         /\ \A i \in DOMAIN s : Append(s, e)[i] = s[i]
<1>1. PICK n \in Nat : DOMAIN s = 1 .. n /\ s = [i \in 1 .. n |-> s[i]]
  BY DEF IsSeq
<1> DEFINE S == {s[i] : i \in 1 .. n} \cup {e}
           a == Append(s, e)
<1>2. s \in [1 .. n -> S]
  BY <1>1
<1>3. s \in Seq(S) /\ e \in S
  BY <1>1, <1>2, IsASeq
<1>4. Len(s) = n
  BY <1>1, <1>3, LenProperties
<1>5. /\ a \in Seq(S) /\ Len(a) = n + 1 /\ a[n + 1] = e
      /\ \A i \in 1 .. n : a[i] = s[i]
  BY <1>3, <1>4, AppendProperties
<1>6. DOMAIN a = 1 .. n + 1 /\ a \in [1 .. n + 1 -> S]
  BY <1>5, LenProperties
<1>7. IsSeq(a)
  <2> HIDE DEF a, S
  <2>1. n + 1 \in Nat
    OBVIOUS
  <2>2. QED
    BY <2>1, <1>6, FunctionIsSeq
<1>8. QED
  BY <1>1, <1>4, <1>5, <1>6, <1>7

\* An update in place keeps the rest.
LEMMA Replaced ==
  ASSUME NEW s, IsSeq(s), NEW k, NEW e
  PROVE  /\ IsSeq([s EXCEPT ![k] = e])
         /\ DOMAIN [s EXCEPT ![k] = e] = DOMAIN s
         /\ \A i \in DOMAIN s : [s EXCEPT ![k] = e][i] = IF i = k THEN e ELSE s[i]
<1>1. PICK n \in Nat : DOMAIN s = 1 .. n /\ s = [i \in 1 .. n |-> s[i]]
  BY DEF IsSeq
<1> DEFINE f == [s EXCEPT ![k] = e]
<1>2. DOMAIN f = 1 .. n /\ f = [i \in 1 .. n |-> f[i]]
  BY <1>1
<1>3. IsSeq(f)
  BY <1>2 DEF IsSeq
<1>4. QED
  BY <1>1, <1>3

-----------------------------------------------------------------------------
(* Requests.                                                               *)

\* A spoiled request is not clean and is otherwise what it was.
LEMMA SpoiledRequest ==
  ASSUME NEW q, WellFormed(q), q.kind \in {"recompute", "create"}
  PROVE  LET s == [q EXCEPT !.clean = FALSE] IN
         WellFormed(s) /\ NoCleaner(q, s) /\ s.kind = q.kind /\ s.clean = FALSE
  BY DEF WellFormed, NoCleaner

LEMMA SpoiledOther ==
  ASSUME NEW q, WellFormed(q), q.kind \notin {"recompute", "create"}
  PROVE  LET s == [q EXCEPT !.clean = FALSE] IN
         WellFormed(s) /\ NoCleaner(q, s) /\ s.kind = q.kind
  BY DEF WellFormed, NoCleaner

LEMMA SpoiledRequests ==
  ASSUME RequestShape, NEW kinds
  PROVE  /\ Spoiled(kinds) = [q \in Request |-> Spoiled(kinds)[q]]
         /\ \A q \in Request :
              /\ WellFormed(Spoiled(kinds)[q])
              /\ NoCleaner(req[q], Spoiled(kinds)[q])
              /\ Spoiled(kinds)[q].kind \in kinds \cap {"recompute", "create"} =>
                   Spoiled(kinds)[q].clean = FALSE
<1>1. Spoiled(kinds) = [q \in Request |-> Spoiled(kinds)[q]]
  BY DEF Spoiled
<1>2. ASSUME NEW q \in Request
      PROVE  /\ WellFormed(Spoiled(kinds)[q])
             /\ NoCleaner(req[q], Spoiled(kinds)[q])
             /\ Spoiled(kinds)[q].kind \in kinds \cap {"recompute", "create"} =>
                  Spoiled(kinds)[q].clean = FALSE
  <2>1. WellFormed(req[q])
    BY DEF RequestShape
  <2>2. CASE req[q].kind \notin kinds
    <3>1. Spoiled(kinds)[q] = req[q]
      BY <2>2 DEF Spoiled
    <3>2. NoCleaner(req[q], req[q])
      BY DEF NoCleaner
    <3>3. QED
      BY <2>1, <2>2, <3>1, <3>2
  <2>3. CASE req[q].kind \in kinds
    <3>1. Spoiled(kinds)[q] = [req[q] EXCEPT !.clean = FALSE]
      BY <2>3 DEF Spoiled
    <3>2. CASE req[q].kind \in {"recompute", "create"}
      BY <2>1, <3>1, <3>2, SpoiledRequest
    <3>3. CASE req[q].kind \notin {"recompute", "create"}
      BY <2>1, <3>1, <3>3, SpoiledOther
    <3>4. QED
      BY <3>2, <3>3
  <2>4. QED
    BY <2>2, <2>3
<1>3. QED
  BY <1>1, <1>2

LEMMA SpoiledKeeps ==
  ASSUME RequestShape, NEW kinds, req' = Spoiled(kinds)
  PROVE  RequestShape' /\ NoneCleaner
  BY SpoiledRequests DEF RequestShape, NoneCleaner

\* One request ends, or becomes one that inserts nothing.
LEMMA OtherRequest ==
  ASSUME RequestShape, NEW r \in Request, NEW new, "kind" \in DOMAIN new,
         new.kind \notin {"recompute", "create"}, req' = [req EXCEPT ![r] = new]
  PROVE  RequestShape' /\ NoneCleaner
<1>1. WellFormed(new) /\ NoCleaner(req[r], new)
  BY DEF WellFormed, NoCleaner
<1>2. \A q \in Request : NoCleaner(req[q], req[q])
  BY DEF NoCleaner
<1>3. QED
  BY <1>1, <1>2 DEF RequestShape, NoneCleaner

LEMMA IdleRequest == "kind" \in DOMAIN Idle /\ Idle.kind = "idle"
  BY DEF Idle

\* One request ends and others are spoiled.
LEMMA FinishedRequest ==
  ASSUME RequestShape, NEW r \in Request, NEW kinds, Finish(r, kinds)
  PROVE  /\ RequestShape' /\ NoneCleaner
         /\ \A q \in Request :
              req'[q].kind \in kinds \cap {"recompute", "create"} => req'[q].clean = FALSE
<1>1. /\ req' = [q \in Request |-> req'[q]]
      /\ req'[r] = Idle
      /\ \A q \in Request \ {r} : req'[q] = Spoiled(kinds)[q]
  BY SpoiledRequests DEF Finish
<1>2. WellFormed(Idle) /\ NoCleaner(req[r], Idle) /\ Idle.kind = "idle"
  BY IdleRequest DEF WellFormed, NoCleaner
<1>3. ASSUME NEW q \in Request
      PROVE  /\ WellFormed(req'[q]) /\ NoCleaner(req[q], req'[q])
             /\ req'[q].kind \in kinds \cap {"recompute", "create"} => req'[q].clean = FALSE
  <2>1. CASE q = r
    BY <1>1, <1>2, <2>1
  <2>2. CASE q # r
    BY <1>1, <2>2, SpoiledRequests
  <2>3. QED
    BY <2>1, <2>2
<1>4. QED
  BY <1>1, <1>3 DEF RequestShape, NoneCleaner

\* A step that changes no row and lets no request in.
LEMMA NothingInserted ==
  ASSUME IInv, RequestShape', NoneCleaner, UNCHANGED <<board, years>>
  PROVE  IInv'
<1>1. RowShape' /\ YearShape' /\ OneCleanRow' /\ OneOwnYear'
  BY DEF IInv, Shapes, RowShape, YearShape, OneCleanRow, OneOwnYear
<1>2. RowsMissing'
  BY DEF IInv, RowsMissing, NoneCleaner, NoCleaner
<1>3. YearsMissing'
  BY DEF IInv, YearsMissing, NoneCleaner, NoCleaner
<1>4. QED
  BY <1>1, <1>2, <1>3 DEF IInv, Shapes

-----------------------------------------------------------------------------
(* The initial state and each step.                                        *)

LEMMA DerivedColumns ==
  ASSUME NEW row
  PROVE  /\ DOMAIN Derived(row) = DOMAIN row
         /\ "year" \in DOMAIN row => Derived(row).year = row.year
  BY DEF Derived

LEMMA NewYear ==
  ASSUME NEW y, NEW income, NEW disposals
  PROVE  LET row == TaxYearRow(y, income, disposals) IN
         {"year", "live", "own"} \subseteq DOMAIN row /\ row.year = y
<1> DEFINE row == [year |-> y, income |-> income, disposals |-> disposals, cgt |-> {},
                   isaEnd |-> Null, complex |-> FALSE, live |-> TRUE,
                   dod |-> Null, net |-> Null, own |-> TRUE, exact |-> TRUE]
<1>1. {"year", "live", "own"} \subseteq DOMAIN row /\ row.year = y
  OBVIOUS
<1>2. TaxYearRow(y, income, disposals) = Derived(row)
  BY DEF TaxYearRow
<1> HIDE DEF row
<1>3. QED
  BY <1>1, <1>2, DerivedColumns

LEMMA EmptySequence == IsSeq(<<>>) /\ DOMAIN <<>> = {}
  BY DEF IsSeq

LEMMA OneElement ==
  ASSUME NEW e
  PROVE  IsSeq(<<e>>) /\ DOMAIN <<e>> = {1} /\ <<e>>[1] = e
  BY DEF IsSeq

LEMMA BoardInit == Init => IInv
<1>1. SUFFICES ASSUME Init PROVE IInv
  OBVIOUS
<1>2. RowShape /\ OneCleanRow
  BY <1>1, EmptySequence DEF Init, RowShape, OneCleanRow
<1>3. RequestShape /\ \A r \in Request : req[r] = Idle
  BY <1>1, IdleRequest DEF Init, RequestShape, WellFormed
<1>4. RowsMissing /\ YearsMissing
  BY <1>3, IdleRequest DEF RowsMissing, YearsMissing
<1>5. YearShape /\ OneOwnYear
  <2>1. CASE years = <<>>
    BY <2>1, EmptySequence DEF YearShape, OneOwnYear
  <2>2. ASSUME NEW y, NEW i, NEW d, years = <<TaxYearRow(y, i, d)>>
        PROVE  YearShape /\ OneOwnYear
    <3> DEFINE row == TaxYearRow(y, i, d)
    <3>1. {"year", "live", "own"} \subseteq DOMAIN row
      BY NewYear
    <3> HIDE DEF row
    <3>2. IsSeq(years) /\ DOMAIN years = {1} /\ years[1] = row
      <4>1. years = <<row>>
        BY <2>2 DEF row
      <4>2. QED
        BY <4>1, OneElement
    <3>3. QED
      BY <3>1, <3>2 DEF YearShape, OneOwnYear
  <2>3. QED
    BY <1>1, <2>1, <2>2 DEF Init
<1>6. QED
  BY <1>2, <1>3, <1>4, <1>5 DEF IInv, Shapes

\* The facts change; the requests that read them are spoiled.
LEMMA FactsStep ==
  ASSUME IInv, NEW kinds, req' = Spoiled(kinds), UNCHANGED <<board, years>>
  PROVE  IInv'
  BY SpoiledKeeps, NothingInserted DEF IInv, Shapes

LEMMA RollbackStep ==
  ASSUME IInv, NEW r \in Request, Rollback(r)
  PROVE  IInv'
<1>1. RequestShape' /\ NoneCleaner
  BY OtherRequest, IdleRequest DEF IInv, Shapes, Rollback
<1>2. QED
  BY <1>1, NothingInserted DEF Rollback

LEMMA BeginPatchStep ==
  ASSUME IInv, NEW r \in Request, NEW i, NEW body, BeginPatch(r, i, body)
  PROVE  IInv'
<1> DEFINE row == Derived([c \in DOMAIN years[i] |->
                            IF c \in DOMAIN body THEN body[c] ELSE years[i][c]])
           new == [kind |-> "patch", at |-> i, seen |-> years[i], new |-> row, clean |-> TRUE]
<1>1. req' = [req EXCEPT ![r] = new]
  BY DEF BeginPatch
<1> HIDE DEF row
<1>2. "kind" \in DOMAIN new /\ new.kind = "patch"
  OBVIOUS
<1> HIDE DEF new
<1>3. RequestShape' /\ NoneCleaner
  BY <1>1, <1>2, OtherRequest DEF IInv, Shapes
<1>4. QED
  BY <1>3, NothingInserted DEF BeginPatch

\* A recomputation that finds no row of a type has looked at all of them.
LEMMA NoRowToUpdate ==
  ASSUME RowShape, NEW t \in Type, NEW last, RowToUpdate(t, last) = 0
  PROVE  DOMAIN board[t] = {}
<1>1. IsSeq(board[t])
  BY DEF RowShape
<1>2. Len(board[t]) \in Nat /\ DOMAIN board[t] = 1 .. Len(board[t])
  BY <1>1, LenOfSeq
<1>3. board[t] = <<>> \/ Len(board[t]) = 0
  BY DEF RowToUpdate
<1>4. QED
  BY <1>2, <1>3, EmptySequence

LEMMA BeginRecomputeStep ==
  ASSUME IInv, NEW r \in Request, NEW last, BeginRecompute(r, last)
  PROVE  IInv'
<1> DEFINE row == [t \in Type |-> RowToUpdate(t, last)]
           new == [kind |-> "recompute", items |-> StatutorySet, row |-> row,
               seen |-> [t \in Type |-> IF row[t] = 0 THEN Null ELSE board[t][row[t]].date],
               clean |-> TRUE]
<1>1. /\ req' = [req EXCEPT ![r] = new]
      /\ {"kind", "row", "clean"} \subseteq DOMAIN new
      /\ new.kind = "recompute" /\ new.row = row
  BY DEF BeginRecompute
<1> HIDE DEF new
<1>2. UNCHANGED <<board, years>>
  BY DEF BeginRecompute
<1>3. RowShape' /\ YearShape' /\ OneCleanRow' /\ OneOwnYear'
  BY <1>2 DEF IInv, Shapes, RowShape, YearShape, OneCleanRow, OneOwnYear
<1>4. RequestShape'
  BY <1>1 DEF IInv, Shapes, RequestShape, WellFormed
<1>5. req'[r] = new /\ \A q \in Request \ {r} : req'[q] = req[q]
  BY <1>1 DEF IInv, Shapes, RequestShape
<1>6. \A t \in Type : row[t] = 0 => DOMAIN board[t] = {}
  BY NoRowToUpdate DEF IInv, Shapes
<1>7. RowsMissing'
  BY <1>1, <1>2, <1>5, <1>6 DEF IInv, RowsMissing
<1>8. YearsMissing'
  BY <1>1, <1>2, <1>5 DEF IInv, YearsMissing
<1>9. QED
  BY <1>3, <1>4, <1>7, <1>8 DEF IInv, Shapes

LEMMA BeginCreateStep ==
  ASSUME IInv, NEW r \in Request, NEW y, NEW income, NEW disposals,
         BeginCreate(r, y, income, disposals)
  PROVE  IInv'
<1> DEFINE row == TaxYearRow(y, income, disposals)
           new == [kind |-> "create", new |-> row, clean |-> TRUE]
<1>1. /\ req' = [req EXCEPT ![r] = new]
      /\ {"kind", "new", "clean"} \subseteq DOMAIN new
      /\ new.kind = "create" /\ new.new = row
  BY DEF BeginCreate
<1> HIDE DEF new
<1>2. UNCHANGED <<board, years>> /\ ~YearTaken(y)
  BY DEF BeginCreate
<1>3. RowShape' /\ YearShape' /\ OneCleanRow' /\ OneOwnYear'
  BY <1>2 DEF IInv, Shapes, RowShape, YearShape, OneCleanRow, OneOwnYear
<1>4. RequestShape'
  BY <1>1 DEF IInv, Shapes, RequestShape, WellFormed
<1>5. req'[r] = new /\ \A q \in Request \ {r} : req'[q] = req[q]
  BY <1>1 DEF IInv, Shapes, RequestShape
<1>6. {"year", "live", "own"} \subseteq DOMAIN row /\ row.year = y
  BY NewYear
<1> HIDE DEF row
<1>7. RowsMissing'
  BY <1>1, <1>2, <1>5 DEF IInv, RowsMissing
<1>8. YearsMissing'
  BY <1>1, <1>2, <1>5, <1>6 DEF IInv, YearsMissing, YearTaken
<1>9. QED
  BY <1>3, <1>4, <1>7, <1>8 DEF IInv, Shapes

(***************************************************************************)
(* The commit of a recomputation.  Rows of a type: what was there keeps    *)
(* its mark, and a row is added only where the request found none.         *)
(***************************************************************************)
\* The rows of type t after q's upsert.
GoodUpsert(q, t, rows) ==
  /\ IsSeq(rows) /\ \A i \in DOMAIN rows : "clean" \in DOMAIN rows[i]
  /\ DOMAIN board[t] \subseteq DOMAIN rows
  /\ \A i \in DOMAIN board[t] : rows[i].clean = board[t][i].clean
  /\ q.row[t] # 0 => DOMAIN rows = DOMAIN board[t]
  /\ \A i \in DOMAIN rows \ DOMAIN board[t] :
       i = Len(board[t]) + 1 /\ rows[i].clean = q.clean

LEMMA UpsertedRows ==
  ASSUME RowShape, NEW q, NEW t \in Type, NEW date
  PROVE  GoodUpsert(q, t, Upserted(q, t, date))
<1> DEFINE rows == Upserted(q, t, date)
<1>1. IsSeq(board[t]) /\ \A i \in DOMAIN board[t] : "clean" \in DOMAIN board[t][i]
  BY DEF RowShape
<1>2. CASE q.row[t] = 0
  <2> DEFINE new == [date |-> date, clean |-> q.clean]
  <2>1. rows = Append(board[t], new)
    BY <1>2 DEF Upserted
  <2>2. "clean" \in DOMAIN new /\ new.clean = q.clean
    OBVIOUS
  <2> HIDE DEF new, rows
  <2>3. /\ IsSeq(rows) /\ DOMAIN rows = DOMAIN board[t] \cup {Len(board[t]) + 1}
        /\ rows[Len(board[t]) + 1] = new /\ \A i \in DOMAIN board[t] : rows[i] = board[t][i]
    BY <1>1, <2>1, Appended
  <2>4. GoodUpsert(q, t, rows)
    BY <1>1, <1>2, <2>2, <2>3 DEF GoodUpsert
  <2>5. QED
    BY <2>4 DEF rows
<1>3. CASE q.row[t] # 0 /\ date = q.seen[t]
  <2>1. rows = board[t]
    BY <1>3 DEF Upserted
  <2> HIDE DEF rows
  <2>2. GoodUpsert(q, t, rows)
    BY <1>1, <1>3, <2>1 DEF GoodUpsert
  <2>3. QED
    BY <2>2 DEF rows
<1>4. CASE q.row[t] # 0 /\ date # q.seen[t]
  <2> DEFINE k == q.row[t]
             new == [board[t][k] EXCEPT !.date = date]
  <2>1. rows = [board[t] EXCEPT ![k] = new]
    BY <1>4 DEF Upserted
  <2>2. k \in DOMAIN board[t] =>
          DOMAIN new = DOMAIN board[t][k] /\ new.clean = board[t][k].clean
    BY <1>1
  <2> HIDE DEF new, rows, k
  <2>3. /\ IsSeq(rows) /\ DOMAIN rows = DOMAIN board[t]
        /\ \A i \in DOMAIN board[t] : rows[i] = IF i = k THEN new ELSE board[t][i]
    BY <1>1, <2>1, Replaced
  <2>4. GoodUpsert(q, t, rows)
    BY <1>1, <1>4, <2>2, <2>3 DEF GoodUpsert
  <2>5. QED
    BY <2>4 DEF rows
<1>5. QED
  BY <1>2, <1>3, <1>4

LEMMA CommitRecomputeStep ==
  ASSUME IInv, NEW r \in Request, CommitRecompute(r)
  PROVE  IInv'
<1> DEFINE q == req[r]
           Kept(t) == board'[t] = board[t]
           Grown(t) == \E date : board'[t] = Upserted(q, t, date)
<1>1. q.kind = "recompute" /\ years' = years /\ Finish(r, {"recompute"})
  BY DEF CommitRecompute
<1>2. RequestShape' /\ NoneCleaner /\ \A p \in Request :
        req'[p].kind = "recompute" => req'[p].clean = FALSE
  BY <1>1, FinishedRequest DEF IInv, Shapes
<1>3. board' = [t \in Type |-> board'[t]] /\ \A t \in Type : Kept(t) \/ Grown(t)
  BY DEF CommitRecompute
<1>4. ASSUME NEW t \in Type
      PROVE  /\ IsSeq(board'[t]) /\ \A i \in DOMAIN board'[t] : "clean" \in DOMAIN board'[t][i]
             /\ \A i, j \in DOMAIN board'[t] :
                  board'[t][i].clean /\ board'[t][j].clean => i = j
  <2>1. CASE Kept(t)
    BY <2>1 DEF IInv, Shapes, RowShape, OneCleanRow
  <2>2. CASE Grown(t)
    <3>1. PICK date : board'[t] = Upserted(q, t, date)
      BY <2>2
    <3> DEFINE rows == board'[t]
    <3>2. GoodUpsert(q, t, rows)
      BY <3>1, UpsertedRows DEF IInv, Shapes
    <3> HIDE DEF rows, q
    <3>3. \A i, j \in DOMAIN board[t] : board[t][i].clean /\ board[t][j].clean => i = j
      BY DEF IInv, OneCleanRow
    <3>4. q.clean /\ q.row[t] = 0 => DOMAIN board[t] = {}
      BY <1>1 DEF IInv, RowsMissing, q
    <3>5. ASSUME NEW i \in DOMAIN rows, NEW j \in DOMAIN rows, rows[i].clean, rows[j].clean
          PROVE  i = j
      <4>1. CASE q.row[t] # 0
        BY <3>2, <3>3, <3>5, <4>1 DEF GoodUpsert
      <4>2. CASE q.row[t] = 0 /\ q.clean
        <5>1. DOMAIN board[t] = {}
          BY <3>4, <4>2
        <5>2. \A k \in DOMAIN rows \ DOMAIN board[t] : k = Len(board[t]) + 1
          BY <3>2 DEF GoodUpsert
        <5>3. i = Len(board[t]) + 1 /\ j = Len(board[t]) + 1
          BY <3>5, <5>1, <5>2
        <5>4. QED
          BY <5>3
      <4>3. CASE ~q.clean
        BY <3>2, <3>3, <3>5, <4>3 DEF GoodUpsert
      <4>4. QED
        BY <4>1, <4>2, <4>3
    <3>6. QED
      BY <3>2, <3>5 DEF rows, GoodUpsert
  <2>3. QED
    BY <1>3, <2>1, <2>2
<1>5. RowShape' /\ OneCleanRow'
  BY <1>3, <1>4 DEF RowShape, OneCleanRow
<1>6. YearShape' /\ OneOwnYear'
  BY <1>1 DEF IInv, Shapes, YearShape, OneOwnYear
<1>7. RowsMissing'
  BY <1>2 DEF RowsMissing
<1>8. YearsMissing'
  BY <1>1, <1>2 DEF IInv, YearsMissing, NoneCleaner, NoCleaner
<1>9. QED
  BY <1>2, <1>5, <1>6, <1>7, <1>8 DEF IInv, Shapes

(***************************************************************************)
(* The tax years.  A row keeps its mark and its year as long as it is own, *)
(* and is never restored; a row is added by a creation only.               *)
(***************************************************************************)
NoBolder(old, new) ==
  /\ {"year", "live", "own"} \subseteq DOMAIN new
  /\ new.live => old.live
  /\ new.own => old.own /\ new.year = old.year

LEMMA CommitCreateStep ==
  ASSUME IInv, NEW r \in Request, CommitCreate(r)
  PROVE  IInv'
<1> DEFINE q == req[r]
           new == [q.new EXCEPT !.own = q.clean]
           end == Len(years) + 1
<1>1. q.kind = "create" /\ board' = board /\ Finish(r, {"recompute", "create"})
  BY DEF CommitCreate
<1>2. years' = Append(years, new)
  BY DEF CommitCreate
<1>3. RequestShape' /\ NoneCleaner /\ \A p \in Request :
        req'[p].kind \in {"recompute", "create"} => req'[p].clean = FALSE
  BY <1>1, FinishedRequest DEF IInv, Shapes
<1>4. /\ {"year", "live", "own"} \subseteq DOMAIN q.new
      /\ q.clean => \A i \in DOMAIN years : years[i].live => years[i].year # q.new.year
  BY <1>1 DEF IInv, YearsMissing
<1>5. /\ {"year", "live", "own"} \subseteq DOMAIN new
      /\ new.year = q.new.year /\ new.own = q.clean
  BY <1>4
<1> HIDE DEF new, q, end
<1>6. /\ IsSeq(years') /\ DOMAIN years' = DOMAIN years \cup {end}
      /\ years'[end] = new /\ \A i \in DOMAIN years : years'[i] = years[i]
  BY <1>2, Appended DEF IInv, Shapes, YearShape, end
<1>7. YearShape'
  BY <1>5, <1>6 DEF IInv, Shapes, YearShape
<1>8. OneOwnYear'
  <2>1. \A i, j \in DOMAIN years :
          /\ years[i].live /\ years[j].live /\ years[i].year = years[j].year
          /\ years[i].own /\ years[j].own
          => i = j
    BY DEF IInv, OneOwnYear
  <2>2. QED
    BY <1>4, <1>5, <1>6, <2>1 DEF OneOwnYear
<1>9. RowShape' /\ OneCleanRow'
  BY <1>1 DEF IInv, Shapes, RowShape, OneCleanRow
<1>10. RowsMissing'
  BY <1>3 DEF RowsMissing
<1>11. YearsMissing'
  BY <1>3 DEF IInv, YearsMissing, NoneCleaner, NoCleaner
<1>12. QED
  BY <1>3, <1>7, <1>8, <1>9, <1>10, <1>11 DEF IInv, Shapes

\* A row of the years is rewritten in place.
LEMMA RewrittenYear ==
  ASSUME YearShape, OneOwnYear, NEW k, NEW new, k \in DOMAIN years => NoBolder(years[k], new),
         years' = [years EXCEPT ![k] = new]
  PROVE  YearShape' /\ OneOwnYear'
<1>1. /\ IsSeq(years') /\ DOMAIN years' = DOMAIN years
      /\ \A i \in DOMAIN years : years'[i] = IF i = k THEN new ELSE years[i]
  BY Replaced DEF YearShape
<1>2. \A i \in DOMAIN years : NoBolder(years[i], years'[i])
  BY <1>1 DEF YearShape, NoBolder
<1>3. YearShape'
  BY <1>1, <1>2 DEF YearShape, NoBolder
<1>4. OneOwnYear'
  BY <1>1, <1>2 DEF OneOwnYear, NoBolder
<1>5. QED
  BY <1>3, <1>4

\* PATCH: the columns it writes.
LEMMA PatchedYear ==
  ASSUME NEW row, {"year", "live", "own"} \subseteq DOMAIN row, NEW q, NEW new,
         new = [c \in DOMAIN row |->
                  CASE c \in {"year", "income", "disposals", "cgt", "isaEnd", "complex"} ->
                         IF q.new[c] # q.seen[c] THEN q.new[c] ELSE row[c]
                    [] c = "own" -> row.own /\ q.new.year = q.seen.year
                    [] c = "exact" -> q.clean
                    [] c \in {"dod", "net"} -> q.new[c]
                    [] OTHER -> row[c]]
  PROVE  NoBolder(row, new)
<1>1. DOMAIN new = DOMAIN row
  OBVIOUS
<1>2. new.year = IF q.new.year # q.seen.year THEN q.new.year ELSE row.year
  OBVIOUS
<1>3. new.own = (row.own /\ q.new.year = q.seen.year)
  OBVIOUS
<1>4. new.live = row.live
  OBVIOUS
<1>5. QED
  BY <1>1, <1>2, <1>3, <1>4 DEF NoBolder

LEMMA CommitPatchStep ==
  ASSUME IInv, NEW r \in Request, CommitPatch(r)
  PROVE  IInv'
<1> DEFINE q == req[r]
           row == years[q.at]
           new == [c \in DOMAIN row |->
                  CASE c \in {"year", "income", "disposals", "cgt", "isaEnd", "complex"} ->
                         IF q.new[c] # q.seen[c] THEN q.new[c] ELSE row[c]
                    [] c = "own" -> row.own /\ q.new.year = q.seen.year
                    [] c = "exact" -> q.clean
                    [] c \in {"dod", "net"} -> q.new[c]
                    [] OTHER -> row[c]]
<1>1. board' = board /\ Finish(r, {"recompute", "create", "patch"})
  BY DEF CommitPatch
<1>2. years' = [years EXCEPT ![q.at] = new]
  BY DEF CommitPatch
<1>3. RequestShape' /\ NoneCleaner /\ \A p \in Request :
        req'[p].kind \in {"recompute", "create"} => req'[p].clean = FALSE
  BY <1>1, FinishedRequest DEF IInv, Shapes
<1>4. q.at \in DOMAIN years => NoBolder(row, new)
  <2>1. q.at \in DOMAIN years => {"year", "live", "own"} \subseteq DOMAIN row
    BY DEF IInv, Shapes, YearShape
  <2> HIDE DEF row, q
  <2>2. QED
    BY <2>1, PatchedYear
<1> HIDE DEF new
<1>5. YearShape' /\ OneOwnYear'
  BY <1>2, <1>4, RewrittenYear DEF IInv, Shapes
<1>6. RowShape' /\ OneCleanRow'
  BY <1>1 DEF IInv, Shapes, RowShape, OneCleanRow
<1>7. RowsMissing'
  BY <1>3 DEF RowsMissing
<1>8. YearsMissing'
  BY <1>3 DEF IInv, YearsMissing, NoneCleaner, NoCleaner
<1>9. QED
  BY <1>3, <1>5, <1>6, <1>7, <1>8 DEF IInv, Shapes

LEMMA ArchiveYearStep ==
  ASSUME IInv, NEW k \in DOMAIN years, ArchiveYear(k)
  PROVE  IInv'
<1> DEFINE new == [years[k] EXCEPT !.live = FALSE]
<1>1. board' = board /\ req' = Spoiled({"recompute"})
  BY DEF ArchiveYear
<1>2. years' = [years EXCEPT ![k] = new]
  BY DEF ArchiveYear
<1>3. /\ {"year", "live", "own"} \subseteq DOMAIN new /\ new.live = FALSE
      /\ new.own = years[k].own /\ new.year = years[k].year
  BY DEF IInv, Shapes, YearShape
<1> HIDE DEF new
<1>4. NoBolder(years[k], new)
  BY <1>3 DEF NoBolder
<1>5. YearShape' /\ OneOwnYear'
  BY <1>2, <1>4, RewrittenYear DEF IInv, Shapes
<1>6. RowShape' /\ OneCleanRow'
  BY <1>1 DEF IInv, Shapes, RowShape, OneCleanRow
<1>7. RequestShape' /\ NoneCleaner
  BY <1>1, SpoiledKeeps DEF IInv, Shapes
<1>8. RowsMissing'
  BY <1>1, <1>7 DEF IInv, RowsMissing, NoneCleaner, NoCleaner
<1>9. YearsMissing'
  <2>1. /\ DOMAIN years' = DOMAIN years
        /\ \A i \in DOMAIN years : years'[i] = IF i = k THEN new ELSE years[i]
    BY <1>2, Replaced DEF IInv, Shapes, YearShape
  <2>2. \A i \in DOMAIN years : years'[i].live => years[i].live /\ years'[i] = years[i]
    BY <1>3, <2>1
  <2>3. QED
    BY <1>7, <2>1, <2>2 DEF IInv, YearsMissing, NoneCleaner, NoCleaner
<1>10. QED
  BY <1>5, <1>6, <1>7, <1>8, <1>9 DEF IInv, Shapes

-----------------------------------------------------------------------------
(* The theorem.                                                            *)

LEMMA UnchangedBoard ==
  ASSUME IInv, UNCHANGED vars
  PROVE  IInv'
<1>1. UNCHANGED <<board, years, req>>
  BY DEF vars
<1>2. RequestShape' /\ NoneCleaner
  BY <1>1 DEF IInv, Shapes, RequestShape, NoneCleaner, NoCleaner
<1>3. QED
  BY <1>1, <1>2, NothingInserted

LEMMA BoardStep ==
  ASSUME IInv, [Next]_vars
  PROVE  IInv'
<1>1. CASE UNCHANGED vars
  BY <1>1, UnchangedBoard
<1>2. CASE Quiet
  BY <1>2, UnchangedBoard DEF Quiet
<1>3. ASSUME NEW dod, NEW net, UpdateEstate(dod, net)
      PROVE  IInv'
  BY <1>3, FactsStep DEF UpdateEstate
<1>4. ASSUME NEW dates, UpdateNotices(dates)
      PROVE  IInv'
  BY <1>4, FactsStep DEF UpdateNotices
<1>5. CASE UpdateAssets
  BY <1>5, FactsStep DEF UpdateAssets
<1>6. ASSUME NEW i \in DOMAIN years, ArchiveYear(i)
      PROVE  IInv'
  BY <1>6, ArchiveYearStep
<1>7. ASSUME NEW r \in Request, NEW last, BeginRecompute(r, last)
      PROVE  IInv'
  BY <1>7, BeginRecomputeStep
<1>8. ASSUME NEW r \in Request, CommitRecompute(r)
      PROVE  IInv'
  BY <1>8, CommitRecomputeStep
<1>9. ASSUME NEW r \in Request, NEW y, NEW n, NEW d, BeginCreate(r, y, n, d)
      PROVE  IInv'
  BY <1>9, BeginCreateStep
<1>10. ASSUME NEW r \in Request, CommitCreate(r)
       PROVE  IInv'
  BY <1>10, CommitCreateStep
<1>11. ASSUME NEW r \in Request, NEW i, NEW body, BeginPatch(r, i, body)
       PROVE  IInv'
  BY <1>11, BeginPatchStep
<1>12. ASSUME NEW r \in Request, CommitPatch(r)
       PROVE  IInv'
  BY <1>12, CommitPatchStep
<1>13. ASSUME NEW r \in Request, Rollback(r)
       PROVE  IInv'
  BY <1>13, RollbackStep
<1>14. QED
  BY <1>1, <1>2, <1>3, <1>4, <1>5, <1>6, <1>7, <1>8, <1>9, <1>10, <1>11, <1>12, <1>13 DEF Next

\* A deadline has two live rows, and a year two live rows, only when the requests that
\* inserted them overlapped or a PATCH renamed one (recompute_deadlines,
\* create_admin_tax).
THEOREM RowsTwiceOnlyByOverlap == Spec => []RowTwiceOnlyByOverlap
<1>1. IInv => RowTwiceOnlyByOverlap
  BY DEF IInv, OneCleanRow, OneOwnYear, RowTwiceOnlyByOverlap
<1>2. QED
  BY <1>1, BoardInit, BoardStep, PTL DEF Spec

(***************************************************************************)
(* What requests have loaded.  A request that is still clean holds what is *)
(* there: a recomputation the facts, the rows and their dates, a PATCH the *)
(* row it rewrites.                                                        *)
(***************************************************************************)
Kinds == {"recompute", "create", "patch"}

Filled(q) ==
  /\ "kind" \in DOMAIN q
  /\ q.kind \in Kinds => "clean" \in DOMAIN q
  /\ q.kind = "recompute" => {"items", "row", "seen"} \subseteq DOMAIN q
  /\ q.kind = "create" => "new" \in DOMAIN q
  /\ q.kind = "patch" => {"at", "seen", "new"} \subseteq DOMAIN q

\* A request goes on with what it had loaded, and no fresher.
NoFresher(old, new) ==
  new.kind \in Kinds =>
    /\ old.kind = new.kind
    /\ new.clean => old.clean
    /\ new.kind = "recompute" =>
         new.items = old.items /\ new.row = old.row /\ new.seen = old.seen
    /\ new.kind = "create" => new.new = old.new
    /\ new.kind = "patch" => new.at = old.at /\ new.seen = old.seen /\ new.new = old.new

RequestsFilled ==
  /\ req = [r \in Request |-> req[r]]
  /\ \A r \in Request : Filled(req[r])

NoneFresher == \A r \in Request : NoFresher(req[r], req'[r])

\* What a request of these kinds has read may have changed.
NoneClean(kinds) ==
  \A r \in Request : req'[r].kind \in kinds \cap Kinds => req'[r].clean = FALSE

Columns == {"year", "income", "disposals", "cgt", "isaEnd", "complex"}
YearColumns == Columns \cup {"live", "dod", "net", "own", "exact"}

\* The derived columns are those the row's figures give.
DerivedExactly(row) ==
  /\ row.cgt = CgtDeadlines(row.disposals)
  /\ row.isaEnd = IsaEnd(row.dod)
  /\ row.complex = Complex(row.income, row.disposals, row.net)

RowsDated ==
  /\ board = [t \in Type |-> board[t]]
  /\ \A t \in Type : IsSeq(board[t]) /\ \A i \in DOMAIN board[t] : "date" \in DOMAIN board[t][i]

YearsDerived ==
  /\ IsSeq(years)
  /\ \A i \in DOMAIN years :
       DOMAIN years[i] = YearColumns /\ (years[i].exact => DerivedExactly(years[i]))

\* The row and its date are those on the board.
RowLoaded(t, k, date) ==
  IF DOMAIN board[t] = {} THEN k = 0
  ELSE k \in DOMAIN board[t] /\ k # 0 /\ date = board[t][k].date

RecomputeLoaded(q) ==
  q.kind = "recompute" /\ q.clean =>
    q.items = StatutorySet /\ \A t \in Type : RowLoaded(t, q.row[t], q.seen[t])

CreateLoaded(q) ==
  q.kind = "create" => DOMAIN q.new = YearColumns /\ DerivedExactly(q.new)

PatchLoaded(q) ==
  q.kind = "patch" =>
    /\ q.at \in DOMAIN years /\ DOMAIN q.new = YearColumns /\ DerivedExactly(q.new)
    /\ q.clean => \A c \in Columns : q.seen[c] = years[q.at][c]

Loaded ==
  /\ RequestsFilled /\ RowsDated /\ YearsDerived
  /\ \A r \in Request : RecomputeLoaded(req[r]) /\ CreateLoaded(req[r]) /\ PatchLoaded(req[r])

LEMMA SpoiledFill ==
  ASSUME NEW q, Filled(q)
  PROVE  LET s == [q EXCEPT !.clean = FALSE] IN
         Filled(s) /\ NoFresher(q, s) /\ (s.kind \in Kinds => s.clean = FALSE)
<1> DEFINE s == [q EXCEPT !.clean = FALSE]
<1>1. /\ DOMAIN s = DOMAIN q
      /\ \A c \in DOMAIN q : c # "clean" => s[c] = q[c]
      /\ "clean" \in DOMAIN q => s["clean"] = FALSE
  OBVIOUS
<1> HIDE DEF s
<1>2. s.kind = q.kind
  BY <1>1 DEF Filled
<1>3. Filled(s)
  BY <1>1, <1>2 DEF Filled
<1>4. s.kind \in Kinds => s.clean = FALSE
  BY <1>1, <1>2 DEF Filled
<1>5. NoFresher(q, s)
  BY <1>1, <1>2, <1>4 DEF Filled, NoFresher
<1>6. QED
  BY <1>3, <1>4, <1>5 DEF s

LEMMA SpoiledFills ==
  ASSUME RequestsFilled, NEW kinds
  PROVE  /\ Spoiled(kinds) = [q \in Request |-> Spoiled(kinds)[q]]
         /\ \A q \in Request :
              /\ Filled(Spoiled(kinds)[q])
              /\ NoFresher(req[q], Spoiled(kinds)[q])
              /\ Spoiled(kinds)[q].kind \in kinds \cap Kinds => Spoiled(kinds)[q].clean = FALSE
<1>1. Spoiled(kinds) = [q \in Request |-> Spoiled(kinds)[q]]
  BY DEF Spoiled
<1>2. ASSUME NEW q \in Request
      PROVE  /\ Filled(Spoiled(kinds)[q])
             /\ NoFresher(req[q], Spoiled(kinds)[q])
             /\ Spoiled(kinds)[q].kind \in kinds \cap Kinds => Spoiled(kinds)[q].clean = FALSE
  <2>1. Filled(req[q])
    BY DEF RequestsFilled
  <2>2. CASE req[q].kind \in kinds
    <3>1. Spoiled(kinds)[q] = [req[q] EXCEPT !.clean = FALSE]
      BY <2>2 DEF Spoiled
    <3>2. QED
      BY <2>1, <3>1, SpoiledFill
  <2>3. CASE req[q].kind \notin kinds
    <3>1. Spoiled(kinds)[q] = req[q]
      BY <2>3 DEF Spoiled
    <3>2. NoFresher(req[q], req[q])
      BY DEF NoFresher
    <3>3. QED
      BY <2>1, <2>3, <3>1, <3>2
  <2>4. QED
    BY <2>2, <2>3
<1>3. QED
  BY <1>1, <1>2

LEMMA SpoiledStaysFilled ==
  ASSUME RequestsFilled, NEW kinds, req' = Spoiled(kinds)
  PROVE  RequestsFilled' /\ NoneFresher /\ NoneClean(kinds)
  BY SpoiledFills DEF RequestsFilled, NoneFresher, NoneClean

LEMMA FinishedStaysFilled ==
  ASSUME RequestsFilled, NEW r \in Request, NEW kinds, Finish(r, kinds)
  PROVE  RequestsFilled' /\ NoneFresher /\ NoneClean(kinds)
<1>1. /\ req' = [q \in Request |-> req'[q]]
      /\ req'[r] = Idle
      /\ \A q \in Request \ {r} : req'[q] = Spoiled(kinds)[q]
  BY SpoiledFills DEF Finish
<1>2. Filled(Idle) /\ Idle.kind \notin Kinds /\ NoFresher(req[r], Idle)
  BY IdleRequest DEF Filled, NoFresher, Kinds
<1>3. ASSUME NEW q \in Request
      PROVE  /\ Filled(req'[q]) /\ NoFresher(req[q], req'[q])
             /\ req'[q].kind \in kinds \cap Kinds => req'[q].clean = FALSE
  <2>1. CASE q = r
    BY <1>1, <1>2, <2>1
  <2>2. CASE q # r
    BY <1>1, <2>2, SpoiledFills
  <2>3. QED
    BY <2>1, <2>2
<1>4. QED
  BY <1>1, <1>3 DEF RequestsFilled, NoneFresher, NoneClean

RecomputesSpoiled == \A r \in Request : req'[r].kind = "recompute" => req'[r].clean = FALSE
PatchesSpoiled == \A r \in Request : req'[r].kind = "patch" => req'[r].clean = FALSE

YearsKept ==
  /\ DOMAIN years \subseteq DOMAIN years'
  /\ \A i \in DOMAIN years, c \in Columns : years'[i][c] = years[i][c]

LEMMA NoneCleanOf ==
  ASSUME NEW kinds, NoneClean(kinds)
  PROVE  /\ "recompute" \in kinds => RecomputesSpoiled
         /\ "patch" \in kinds => PatchesSpoiled
  BY DEF NoneClean, RecomputesSpoiled, PatchesSpoiled, Kinds

\* A step that lets no request in keeps what the others have loaded.
LEMMA LoadedSurvives ==
  ASSUME Loaded, RequestsFilled', NoneFresher, RowsDated', YearsDerived',
         DOMAIN years \subseteq DOMAIN years',
         RecomputesSpoiled \/ UNCHANGED <<facts, years, board>>,
         PatchesSpoiled \/ YearsKept
  PROVE  Loaded'
<1>1. ASSUME NEW r \in Request
      PROVE  RecomputeLoaded(req[r])'
  <2>1. CASE RecomputesSpoiled
    BY <2>1 DEF RecomputesSpoiled, RecomputeLoaded
  <2>2. CASE UNCHANGED <<facts, years, board>>
    <3>1. StatutorySet' = StatutorySet
      BY <2>2 DEF facts, StatutorySet
    <3>2. ASSUME NEW t, NEW k, NEW date, RowLoaded(t, k, date)
          PROVE  RowLoaded(t, k, date)'
      BY <2>2, <3>2 DEF RowLoaded
    <3>3. RecomputeLoaded(req[r]) /\ NoFresher(req[r], req'[r])
      BY DEF Loaded, NoneFresher
    <3>4. QED
      BY <3>1, <3>2, <3>3 DEF RecomputeLoaded, NoFresher, Kinds
  <2>3. QED
    BY <2>1, <2>2
<1>2. ASSUME NEW r \in Request
      PROVE  CreateLoaded(req[r])'
  <2>1. CreateLoaded(req[r]) /\ NoFresher(req[r], req'[r])
    BY DEF Loaded, NoneFresher
  <2>2. QED
    BY <2>1 DEF CreateLoaded, NoFresher, Kinds
<1>3. ASSUME NEW r \in Request
      PROVE  PatchLoaded(req[r])'
  <2>1. PatchLoaded(req[r]) /\ NoFresher(req[r], req'[r])
    BY DEF Loaded, NoneFresher
  <2>2. CASE req'[r].kind # "patch"
    BY <2>2 DEF PatchLoaded
  <2>3. CASE req'[r].kind = "patch"
    <3> DEFINE new == req'[r]
               old == req[r]
    <3>1. /\ old.kind = "patch" /\ (new.clean => old.clean)
          /\ new.at = old.at /\ new.seen = old.seen /\ new.new = old.new
      BY <2>1, <2>3 DEF NoFresher, Kinds
    <3>2. PatchesSpoiled => new.clean = FALSE
      BY <2>3 DEF PatchesSpoiled
    <3> HIDE DEF new, old
    <3>3. new.at \in DOMAIN years /\ DOMAIN new.new = YearColumns /\ DerivedExactly(new.new)
      BY <2>1, <3>1 DEF PatchLoaded, old
    <3>4. ASSUME new.clean, NEW c \in Columns
          PROVE  new.seen[c] = years'[new.at][c]
      <4>1. YearsKept /\ old.seen[c] = years[old.at][c]
        BY <2>1, <3>1, <3>2, <3>4 DEF PatchLoaded, old
      <4>2. QED
        BY <3>1, <3>3, <4>1 DEF YearsKept
    <3>5. QED
      BY <3>3, <3>4 DEF PatchLoaded, new
  <2>4. QED
    BY <2>2, <2>3
<1>4. QED
  BY <1>1, <1>2, <1>3 DEF Loaded

\* A request comes in, or goes, with what is there.
LEMMA LoadedEntry ==
  ASSUME Loaded, UNCHANGED <<facts, years, board>>,
         NEW r \in Request, NEW new, req' = [req EXCEPT ![r] = new],
         Filled(new), RecomputeLoaded(new), CreateLoaded(new), PatchLoaded(new)
  PROVE  Loaded'
<1>1. /\ req' = [q \in Request |-> req'[q]]
      /\ \A q \in Request : req'[q] = IF q = r THEN new ELSE req[q]
  BY DEF Loaded, RequestsFilled
<1>2. RequestsFilled'
  BY <1>1 DEF Loaded, RequestsFilled
<1>3. RowsDated' /\ YearsDerived'
  BY DEF Loaded, RowsDated, YearsDerived
<1>4. StatutorySet' = StatutorySet
  BY DEF facts, StatutorySet
<1>5. ASSUME NEW t, NEW k, NEW date, RowLoaded(t, k, date)
      PROVE  RowLoaded(t, k, date)'
  BY <1>5 DEF RowLoaded
<1>7. ASSUME NEW q \in Request
      PROVE  RecomputeLoaded(req[q])' /\ CreateLoaded(req[q])' /\ PatchLoaded(req[q])'
  <2>1. CASE q = r
    <3>1. req'[q] = new
      BY <1>1, <2>1
    <3>2. QED
      BY <1>4, <1>5, <3>1 DEF RecomputeLoaded, CreateLoaded, PatchLoaded
  <2>2. CASE q # r
    <3>1. req'[q] = req[q] /\ RecomputeLoaded(req[q]) /\ CreateLoaded(req[q]) /\ PatchLoaded(req[q])
      BY <1>1, <2>2 DEF Loaded
    <3>2. QED
      BY <1>4, <1>5, <3>1 DEF RecomputeLoaded, CreateLoaded, PatchLoaded
  <2>3. QED
    BY <2>1, <2>2
<1>8. QED
  BY <1>2, <1>3, <1>7 DEF Loaded

\* Every write derives the row's columns.
LEMMA DerivedIsExact ==
  ASSUME NEW row, DOMAIN row = YearColumns
  PROVE  DOMAIN Derived(row) = YearColumns /\ DerivedExactly(Derived(row))
<1> DEFINE d == Derived(row)
<1>1. /\ DOMAIN d = YearColumns
      /\ d.disposals = row.disposals /\ d.income = row.income
      /\ d.dod = estate.dod /\ d.net = estate.net
  BY DEF Derived, YearColumns, Columns
<1>2. /\ d.cgt = CgtDeadlines(row.disposals)
      /\ d.isaEnd = IsaEnd(estate.dod)
      /\ d.complex = Complex(row.income, row.disposals, estate.net)
  BY DEF Derived, YearColumns, Columns
<1> HIDE DEF d
<1>3. DerivedExactly(d)
  BY <1>1, <1>2 DEF DerivedExactly
<1>4. QED
  BY <1>1, <1>3 DEF d

LEMMA NewYearIsExact ==
  ASSUME NEW y, NEW income, NEW disposals
  PROVE  LET row == TaxYearRow(y, income, disposals) IN
         DOMAIN row = YearColumns /\ DerivedExactly(row)
<1> DEFINE row == [year |-> y, income |-> income, disposals |-> disposals, cgt |-> {},
                   isaEnd |-> Null, complex |-> FALSE, live |-> TRUE,
                   dod |-> Null, net |-> Null, own |-> TRUE, exact |-> TRUE]
<1>1. DOMAIN row = YearColumns
  BY DEF YearColumns, Columns
<1>2. TaxYearRow(y, income, disposals) = Derived(row)
  BY DEF TaxYearRow
<1> HIDE DEF row
<1>3. QED
  BY <1>1, <1>2, DerivedIsExact

LEMMA NewYearColumns ==
  ASSUME NEW y, NEW income, NEW disposals
  PROVE  DOMAIN TaxYearRow(y, income, disposals) = YearColumns
  BY NewYearIsExact

LEMMA LoadedInit == Init => Loaded
<1>1. SUFFICES ASSUME Init PROVE Loaded
  OBVIOUS
<1>2. RowsDated
  BY <1>1, EmptySequence DEF Init, RowsDated
<1>3. req = [r \in Request |-> Idle]
  BY <1>1 DEF Init
<1>4. Filled(Idle) /\ RecomputeLoaded(Idle) /\ CreateLoaded(Idle) /\ PatchLoaded(Idle)
  BY IdleRequest DEF Filled, RecomputeLoaded, CreateLoaded, PatchLoaded, Kinds
<1>5. YearsDerived
  <2>1. CASE years = <<>>
    BY <2>1, EmptySequence DEF YearsDerived
  <2>2. ASSUME NEW y, NEW i, NEW d, years = <<TaxYearRow(y, i, d)>>
        PROVE  YearsDerived
    <3> DEFINE row == TaxYearRow(y, i, d)
    <3>1. DOMAIN row = YearColumns /\ DerivedExactly(row)
      BY NewYearIsExact
    <3>2. years = <<row>>
      BY <2>2
    <3> HIDE DEF row
    <3>3. IsSeq(years) /\ DOMAIN years = {1} /\ years[1] = row
      BY <3>2, OneElement
    <3>4. QED
      BY <3>1, <3>3 DEF YearsDerived
  <2>3. QED
    BY <1>1, <2>1, <2>2 DEF Init
<1>6. RequestsFilled
  BY <1>3, <1>4 DEF RequestsFilled
<1>7. \A r \in Request : RecomputeLoaded(req[r]) /\ CreateLoaded(req[r]) /\ PatchLoaded(req[r])
  BY <1>3, <1>4
<1>8. QED
  BY <1>2, <1>5, <1>6, <1>7 DEF Loaded

LEMMA SpoiledLoaded ==
  ASSUME Loaded, NEW kinds, "recompute" \in kinds, req' = Spoiled(kinds),
         UNCHANGED <<years, board>>
  PROVE  Loaded'
<1>1. RequestsFilled' /\ NoneFresher /\ NoneClean(kinds)
  BY SpoiledStaysFilled DEF Loaded
<1>2. RowsDated' /\ YearsDerived' /\ DOMAIN years \subseteq DOMAIN years' /\ YearsKept
  BY DEF Loaded, RowsDated, YearsDerived, YearsKept
<1>3. RecomputesSpoiled
  BY <1>1, NoneCleanOf
<1>4. QED
  BY <1>1, <1>2, <1>3, LoadedSurvives

LEMMA IdleLoaded ==
  Filled(Idle) /\ RecomputeLoaded(Idle) /\ CreateLoaded(Idle) /\ PatchLoaded(Idle)
  BY IdleRequest DEF Filled, RecomputeLoaded, CreateLoaded, PatchLoaded, Kinds

LEMMA RollbackLoaded ==
  ASSUME Loaded, NEW r \in Request, Rollback(r)
  PROVE  Loaded'
  BY IdleLoaded, LoadedEntry DEF Rollback

LEMMA RowToUpdateLoaded ==
  ASSUME RowsDated, NEW t \in Type, NEW last
  PROVE  LET k == RowToUpdate(t, last) IN
         RowLoaded(t, k, IF k = 0 THEN Null ELSE board[t][k].date)
<1>1. IsSeq(board[t])
  BY DEF RowsDated
<1>2. Len(board[t]) \in Nat /\ DOMAIN board[t] = 1 .. Len(board[t])
  BY <1>1, LenOfSeq
<1>3. CASE board[t] = <<>>
  <2>1. DOMAIN board[t] = {}
    BY <1>3, EmptySequence
  <2>2. RowToUpdate(t, last) = 0
    BY <1>3 DEF RowToUpdate
  <2>3. QED
    BY <2>1, <2>2 DEF RowLoaded
<1>4. CASE board[t] # <<>>
  <2>1. DOMAIN board[t] # {}
    <3>1. PICK n \in Nat : DOMAIN board[t] = 1 .. n /\ board[t] = [i \in 1 .. n |-> board[t][i]]
      BY <1>1 DEF IsSeq
    <3>2. CASE n = 0
      <4>1. board[t] = [i \in {} |-> board[t][i]] /\ DOMAIN board[t] = {}
        BY <3>1, <3>2
      <4>2. board[t] = <<>>
        BY <4>1
      <4>3. QED
        BY <1>4, <4>2
    <3>3. CASE n # 0
      BY <3>1, <3>3
    <3>4. QED
      BY <3>2, <3>3
  <2>2. RowToUpdate(t, last) \in DOMAIN board[t] /\ RowToUpdate(t, last) # 0
    BY <1>2, <1>4, <2>1 DEF RowToUpdate
  <2>3. QED
    BY <2>1, <2>2 DEF RowLoaded
<1>5. QED
  BY <1>3, <1>4

LEMMA BeginRecomputeLoaded ==
  ASSUME Loaded, NEW r \in Request, NEW last, BeginRecompute(r, last)
  PROVE  Loaded'
<1> DEFINE row == [t \in Type |-> RowToUpdate(t, last)]
           seen == [t \in Type |-> IF row[t] = 0 THEN Null ELSE board[t][row[t]].date]
           new == [kind |-> "recompute", items |-> StatutorySet, row |-> row,
                   seen |-> seen, clean |-> TRUE]
<1>1. req' = [req EXCEPT ![r] = new] /\ UNCHANGED <<facts, years, board>>
  BY DEF BeginRecompute
<1>2. \A t \in Type : RowLoaded(t, row[t], seen[t])
  BY RowToUpdateLoaded DEF Loaded
<1> HIDE DEF row, seen
<1>3. /\ {"kind", "items", "row", "seen", "clean"} \subseteq DOMAIN new
      /\ new.kind = "recompute" /\ new.items = StatutorySet /\ new.row = row /\ new.seen = seen
  OBVIOUS
<1> HIDE DEF new
<1>4. Filled(new) /\ RecomputeLoaded(new) /\ CreateLoaded(new) /\ PatchLoaded(new)
  BY <1>2, <1>3 DEF Filled, RecomputeLoaded, CreateLoaded, PatchLoaded
<1>5. QED
  BY <1>1, <1>4, LoadedEntry

LEMMA BeginCreateLoaded ==
  ASSUME Loaded, NEW r \in Request, NEW y, NEW income, NEW disposals,
         BeginCreate(r, y, income, disposals)
  PROVE  Loaded'
<1> DEFINE row == TaxYearRow(y, income, disposals)
           new == [kind |-> "create", new |-> row, clean |-> TRUE]
<1>1. req' = [req EXCEPT ![r] = new] /\ UNCHANGED <<facts, years, board>>
  BY DEF BeginCreate
<1>2. DOMAIN row = YearColumns /\ DerivedExactly(row)
  BY NewYearIsExact
<1> HIDE DEF row
<1>3. {"kind", "new", "clean"} \subseteq DOMAIN new /\ new.kind = "create" /\ new.new = row
  OBVIOUS
<1> HIDE DEF new
<1>4. Filled(new) /\ RecomputeLoaded(new) /\ CreateLoaded(new) /\ PatchLoaded(new)
  BY <1>2, <1>3 DEF Filled, RecomputeLoaded, CreateLoaded, PatchLoaded
<1>5. QED
  BY <1>1, <1>4, LoadedEntry

LEMMA BeginPatchLoaded ==
  ASSUME Loaded, NEW r \in Request, NEW i \in DOMAIN years, NEW body, BeginPatch(r, i, body)
  PROVE  Loaded'
<1> DEFINE old == [c \in DOMAIN years[i] |-> IF c \in DOMAIN body THEN body[c] ELSE years[i][c]]
           row == Derived(old)
           new == [kind |-> "patch", at |-> i, seen |-> years[i], new |-> row, clean |-> TRUE]
<1>1. req' = [req EXCEPT ![r] = new] /\ UNCHANGED <<facts, years, board>>
  BY DEF BeginPatch
<1>2. DOMAIN old = YearColumns
  BY DEF Loaded, YearsDerived
<1> HIDE DEF old
<1>3. DOMAIN row = YearColumns /\ DerivedExactly(row)
  BY <1>2, DerivedIsExact
<1> HIDE DEF row
<1>4. /\ {"kind", "at", "seen", "new", "clean"} \subseteq DOMAIN new
      /\ new.kind = "patch" /\ new.at = i /\ new.seen = years[i] /\ new.new = row
  OBVIOUS
<1> HIDE DEF new
<1>5. Filled(new) /\ RecomputeLoaded(new) /\ CreateLoaded(new) /\ PatchLoaded(new)
  BY <1>3, <1>4 DEF Filled, RecomputeLoaded, CreateLoaded, PatchLoaded
<1>6. QED
  BY <1>1, <1>5, LoadedEntry

\* The rows of a type keep their form, and where the request was clean the date is there.
LEMMA UpsertedDates ==
  ASSUME NEW q, NEW t \in Type, NEW date, IsSeq(board[t]),
         \A i \in DOMAIN board[t] : "date" \in DOMAIN board[t][i]
  PROVE  LET rows == Upserted(q, t, date) IN
         /\ IsSeq(rows) /\ \A i \in DOMAIN rows : "date" \in DOMAIN rows[i]
         /\ RowLoaded(t, q.row[t], q.seen[t]) =>
              /\ \E i \in DOMAIN rows : rows[i].date = date
              /\ Len(rows) = 1 => rows[1].date = date
<1> DEFINE rows == Upserted(q, t, date)
           Dated(s) == /\ IsSeq(s) /\ \A i \in DOMAIN s : "date" \in DOMAIN s[i]
                       /\ RowLoaded(t, q.row[t], q.seen[t]) =>
                            /\ \E i \in DOMAIN s : s[i].date = date
                            /\ Len(s) = 1 => s[1].date = date
<1>1. Len(board[t]) \in Nat /\ DOMAIN board[t] = 1 .. Len(board[t])
  BY LenOfSeq
<1>2. CASE q.row[t] = 0
  <2> DEFINE new == [date |-> date, clean |-> q.clean]
             n == Len(board[t])
  <2>1. rows = Append(board[t], new)
    BY <1>2 DEF Upserted
  <2>2. "date" \in DOMAIN new /\ new.date = date
    OBVIOUS
  <2> HIDE DEF new, rows
  <2>3. /\ IsSeq(rows) /\ DOMAIN rows = DOMAIN board[t] \cup {n + 1}
        /\ rows[n + 1] = new /\ \A i \in DOMAIN board[t] : rows[i] = board[t][i]
    BY <2>1, Appended
  <2>4. Len(rows) \in Nat /\ DOMAIN rows = 1 .. Len(rows)
    BY <2>3, LenOfSeq
  <2>5. RowLoaded(t, q.row[t], q.seen[t]) => DOMAIN board[t] = {}
    BY <1>2 DEF RowLoaded
  <2>6. RowLoaded(t, q.row[t], q.seen[t]) => n = 0
    BY <1>1, <2>5
  <2> HIDE DEF n
  <2>7. Dated(rows)
    <3>1. \A i \in DOMAIN rows : "date" \in DOMAIN rows[i]
      BY <2>2, <2>3
    <3>2. n + 1 \in DOMAIN rows /\ rows[n + 1].date = date
      BY <2>2, <2>3
    <3>3. QED
      BY <2>3, <2>6, <3>1, <3>2
  <2>8. QED
    BY <2>7 DEF rows
<1>3. CASE q.row[t] # 0 /\ date = q.seen[t]
  <2>1. rows = board[t]
    BY <1>3 DEF Upserted
  <2> HIDE DEF rows
  <2>2. RowLoaded(t, q.row[t], q.seen[t]) =>
          q.row[t] \in DOMAIN board[t] /\ board[t][q.row[t]].date = date
    BY <1>3 DEF RowLoaded
  <2>3. Dated(rows)
    BY <1>1, <2>1, <2>2
  <2>4. QED
    BY <2>3 DEF rows
<1>4. CASE q.row[t] # 0 /\ date # q.seen[t]
  <2> DEFINE k == q.row[t]
             new == [board[t][k] EXCEPT !.date = date]
  <2>1. rows = [board[t] EXCEPT ![k] = new]
    BY <1>4 DEF Upserted
  <2>2. k \in DOMAIN board[t] => "date" \in DOMAIN new /\ new.date = date
    OBVIOUS
  <2>3. RowLoaded(t, q.row[t], q.seen[t]) => k \in DOMAIN board[t]
    BY <1>4 DEF RowLoaded
  <2> HIDE DEF new, rows, k
  <2>4. /\ IsSeq(rows) /\ DOMAIN rows = DOMAIN board[t]
        /\ \A i \in DOMAIN board[t] : rows[i] = IF i = k THEN new ELSE board[t][i]
    BY <2>1, Replaced
  <2>5. Len(rows) \in Nat /\ DOMAIN rows = 1 .. Len(rows)
    BY <2>4, LenOfSeq
  <2>6. \A i \in DOMAIN rows : "date" \in DOMAIN rows[i]
    BY <2>2, <2>4
  <2>7. k \in DOMAIN board[t] => k \in DOMAIN rows /\ rows[k].date = date
    BY <2>2, <2>4
  <2>8. k \in DOMAIN board[t] /\ Len(rows) = 1 => k = 1
    BY <2>4, <2>5
  <2>9. Dated(rows)
    BY <2>3, <2>4, <2>6, <2>7, <2>8
  <2>10. QED
    BY <2>9 DEF rows
<1>5. QED
  BY <1>2, <1>3, <1>4

LEMMA CommitRecomputeLoaded ==
  ASSUME Loaded, NEW r \in Request, CommitRecompute(r)
  PROVE  Loaded'
<1>1. RequestsFilled' /\ NoneFresher /\ NoneClean({"recompute"})
  BY FinishedStaysFilled DEF Loaded, CommitRecompute
<1>2. YearsDerived' /\ YearsKept
  BY DEF Loaded, CommitRecompute, YearsDerived, YearsKept
<1>3. ASSUME NEW t \in Type
      PROVE  IsSeq(board'[t]) /\ \A i \in DOMAIN board'[t] : "date" \in DOMAIN board'[t][i]
  <2>1. IsSeq(board[t]) /\ \A i \in DOMAIN board[t] : "date" \in DOMAIN board[t][i]
    BY DEF Loaded, RowsDated
  <2>2. board'[t] = board[t] \/ \E date : board'[t] = Upserted(req[r], t, date)
    BY DEF CommitRecompute
  <2>3. ASSUME NEW date, board'[t] = Upserted(req[r], t, date)
        PROVE  IsSeq(board'[t]) /\ \A i \in DOMAIN board'[t] : "date" \in DOMAIN board'[t][i]
    <3> DEFINE rows == Upserted(req[r], t, date)
    <3>1. IsSeq(rows) /\ \A i \in DOMAIN rows : "date" \in DOMAIN rows[i]
      BY <2>1, UpsertedDates
    <3> HIDE DEF rows
    <3>2. board'[t] = rows
      BY <2>3 DEF rows
    <3>3. QED
      BY <3>1, <3>2
  <2>4. QED
    BY <2>1, <2>2, <2>3
<1>4. RowsDated'
  BY <1>3 DEF CommitRecompute, RowsDated
<1>5. RecomputesSpoiled
  BY <1>1, NoneCleanOf
<1>6. QED
  BY <1>1, <1>2, <1>4, <1>5, LoadedSurvives DEF YearsKept

LEMMA CommitCreateLoaded ==
  ASSUME Loaded, NEW r \in Request, CommitCreate(r)
  PROVE  Loaded'
<1> DEFINE q == req[r]
           new == [q.new EXCEPT !.own = q.clean]
           end == Len(years) + 1
<1>1. q.kind = "create" /\ board' = board /\ Finish(r, {"recompute", "create"})
  BY DEF CommitCreate
<1>2. years' = Append(years, new)
  BY DEF CommitCreate
<1>3. RequestsFilled' /\ NoneFresher /\ NoneClean({"recompute", "create"})
  BY <1>1, FinishedStaysFilled DEF Loaded
<1>4. DOMAIN q.new = YearColumns /\ DerivedExactly(q.new)
  BY <1>1 DEF Loaded, CreateLoaded
<1>5. DOMAIN new = YearColumns /\ DerivedExactly(new)
  <2>1. /\ DOMAIN new = YearColumns
        /\ \A c \in YearColumns : c # "own" => new[c] = q.new[c]
    BY <1>4
  <2> HIDE DEF new, q
  <2>2. QED
    BY <1>4, <2>1 DEF DerivedExactly, YearColumns, Columns
<1> HIDE DEF new, q, end
<1>6. /\ IsSeq(years') /\ DOMAIN years' = DOMAIN years \cup {end}
      /\ years'[end] = new /\ \A i \in DOMAIN years : years'[i] = years[i]
  BY <1>2, Appended DEF Loaded, YearsDerived, end
<1>7. YearsDerived'
  BY <1>5, <1>6 DEF Loaded, YearsDerived
<1>8. RowsDated' /\ YearsKept
  BY <1>1, <1>6 DEF Loaded, RowsDated, YearsKept
<1>9. RecomputesSpoiled
  BY <1>3, NoneCleanOf
<1>10. QED
  BY <1>3, <1>7, <1>8, <1>9, LoadedSurvives DEF YearsKept

LEMMA CommitPatchLoaded ==
  ASSUME Loaded, NEW r \in Request, CommitPatch(r)
  PROVE  Loaded'
<1> DEFINE q == req[r]
           row == years[q.at]
           new == [c \in DOMAIN row |->
                  CASE c \in {"year", "income", "disposals", "cgt", "isaEnd", "complex"} ->
                         IF q.new[c] # q.seen[c] THEN q.new[c] ELSE row[c]
                    [] c = "own" -> row.own /\ q.new.year = q.seen.year
                    [] c = "exact" -> q.clean
                    [] c \in {"dod", "net"} -> q.new[c]
                    [] OTHER -> row[c]]
<1>1. q.kind = "patch" /\ board' = board /\ Finish(r, {"recompute", "create", "patch"})
  BY DEF CommitPatch
<1>2. years' = [years EXCEPT ![q.at] = new]
  BY DEF CommitPatch
<1>3. RequestsFilled' /\ NoneFresher /\ NoneClean({"recompute", "create", "patch"})
  BY <1>1, FinishedStaysFilled DEF Loaded
<1>4. /\ q.at \in DOMAIN years /\ DOMAIN q.new = YearColumns /\ DerivedExactly(q.new)
      /\ q.clean => \A c \in Columns : q.seen[c] = row[c]
  BY <1>1 DEF Loaded, PatchLoaded
<1>5. IsSeq(years) /\ DOMAIN row = YearColumns
  BY <1>4 DEF Loaded, YearsDerived
<1> HIDE DEF q, row
<1>6. DOMAIN new = YearColumns
  BY <1>5
<1>7. ASSUME q.clean, NEW c \in Columns \cup {"dod", "net"}
      PROVE  new[c] = q.new[c]
  <2>1. CASE c \in Columns
    <3>1. new[c] = IF q.new[c] # q.seen[c] THEN q.new[c] ELSE row[c]
      BY <1>5, <2>1 DEF Columns, YearColumns
    <3>2. QED
      BY <1>4, <1>7, <2>1, <3>1
  <2>2. CASE c \in {"dod", "net"}
    BY <1>5, <2>2 DEF Columns, YearColumns
  <2>3. QED
    BY <1>7, <2>1, <2>2
<1>8. new.exact = q.clean
  BY <1>5 DEF Columns, YearColumns
<1> HIDE DEF new
<1>9. new.exact => DerivedExactly(new)
  BY <1>4, <1>7, <1>8 DEF DerivedExactly, Columns
<1>10. /\ IsSeq(years') /\ DOMAIN years' = DOMAIN years
       /\ \A i \in DOMAIN years : years'[i] = IF i = q.at THEN new ELSE years[i]
  BY <1>2, <1>5, Replaced
<1>11. YearsDerived'
  BY <1>6, <1>9, <1>10 DEF Loaded, YearsDerived
<1>12. RowsDated'
  BY <1>1 DEF Loaded, RowsDated
<1>13. RecomputesSpoiled /\ PatchesSpoiled
  BY <1>3, NoneCleanOf
<1>14. QED
  BY <1>3, <1>10, <1>11, <1>12, <1>13, LoadedSurvives

LEMMA ArchiveYearLoaded ==
  ASSUME Loaded, NEW k \in DOMAIN years, ArchiveYear(k)
  PROVE  Loaded'
<1> DEFINE new == [years[k] EXCEPT !.live = FALSE]
<1>1. board' = board /\ req' = Spoiled({"recompute"})
  BY DEF ArchiveYear
<1>2. years' = [years EXCEPT ![k] = new]
  BY DEF ArchiveYear
<1>3. IsSeq(years) /\ DOMAIN years[k] = YearColumns
  BY DEF Loaded, YearsDerived
<1>4. /\ DOMAIN new = YearColumns
      /\ \A c \in YearColumns : c # "live" => new[c] = years[k][c]
  BY <1>3
<1> HIDE DEF new
<1>5. /\ new.exact = years[k].exact
      /\ DerivedExactly(years[k]) => DerivedExactly(new)
      /\ \A c \in Columns : new[c] = years[k][c]
  BY <1>4 DEF DerivedExactly, YearColumns, Columns
<1>6. /\ IsSeq(years') /\ DOMAIN years' = DOMAIN years
      /\ \A i \in DOMAIN years : years'[i] = IF i = k THEN new ELSE years[i]
  BY <1>2, <1>3, Replaced
<1>7. YearsDerived' /\ YearsKept
  BY <1>4, <1>5, <1>6 DEF Loaded, YearsDerived, YearsKept
<1>8. RowsDated'
  BY <1>1 DEF Loaded, RowsDated
<1>9. RequestsFilled' /\ NoneFresher /\ NoneClean({"recompute"})
  BY <1>1, SpoiledStaysFilled DEF Loaded
<1>10. RecomputesSpoiled
  BY <1>9, NoneCleanOf
<1>11. QED
  BY <1>7, <1>8, <1>9, <1>10, LoadedSurvives DEF YearsKept

LEMMA UnchangedLoaded ==
  ASSUME Loaded, UNCHANGED vars
  PROVE  Loaded'
<1>1. UNCHANGED <<facts, years, board, req>>
  BY DEF vars
<1>2. RequestsFilled' /\ NoneFresher /\ RowsDated' /\ YearsDerived' /\ YearsKept
  BY <1>1 DEF Loaded, RequestsFilled, NoneFresher, NoFresher, RowsDated, YearsDerived, YearsKept
<1>3. QED
  BY <1>1, <1>2, LoadedSurvives DEF YearsKept

LEMMA LoadedStep ==
  ASSUME Loaded, [Next]_vars
  PROVE  Loaded'
<1>1. CASE UNCHANGED vars
  BY <1>1, UnchangedLoaded
<1>2. CASE Quiet
  BY <1>2, UnchangedLoaded DEF Quiet
<1>3. ASSUME NEW dod, NEW net, UpdateEstate(dod, net)
      PROVE  Loaded'
  BY <1>3, SpoiledLoaded DEF UpdateEstate
<1>4. ASSUME NEW dates, UpdateNotices(dates)
      PROVE  Loaded'
  BY <1>4, SpoiledLoaded DEF UpdateNotices
<1>5. CASE UpdateAssets
  BY <1>5, SpoiledLoaded DEF UpdateAssets
<1>6. ASSUME NEW i \in DOMAIN years, ArchiveYear(i)
      PROVE  Loaded'
  BY <1>6, ArchiveYearLoaded
<1>7. ASSUME NEW r \in Request, NEW last, BeginRecompute(r, last)
      PROVE  Loaded'
  BY <1>7, BeginRecomputeLoaded
<1>8. ASSUME NEW r \in Request, CommitRecompute(r)
      PROVE  Loaded'
  BY <1>8, CommitRecomputeLoaded
<1>9. ASSUME NEW r \in Request, NEW y, NEW n, NEW d, BeginCreate(r, y, n, d)
      PROVE  Loaded'
  BY <1>9, BeginCreateLoaded
<1>10. ASSUME NEW r \in Request, CommitCreate(r)
       PROVE  Loaded'
  BY <1>10, CommitCreateLoaded
<1>11. ASSUME NEW r \in Request, NEW i \in DOMAIN years, NEW body, BeginPatch(r, i, body)
       PROVE  Loaded'
  BY <1>11, BeginPatchLoaded
<1>12. ASSUME NEW r \in Request, CommitPatch(r)
       PROVE  Loaded'
  BY <1>12, CommitPatchLoaded
<1>13. ASSUME NEW r \in Request, Rollback(r)
       PROVE  Loaded'
  BY <1>13, RollbackLoaded
<1>14. QED
  BY <1>1, <1>2, <1>3, <1>4, <1>5, <1>6, <1>7, <1>8, <1>9, <1>10, <1>11, <1>12, <1>13 DEF Next

\* A tax year's derived columns are those its figures give, for the date of death and the
\* assessment of its last write, unless writes of the row overlapped (_apply_derivations
\* and _derive_complex on every POST and PATCH).
THEOREM TaxYearColumnsExact == Spec => []TaxYearDerivedExact
<1>1. Loaded => TaxYearDerivedExact
  BY DEF Loaded, YearsDerived, DerivedExactly, TaxYearDerivedExact
<1>2. QED
  BY <1>1, LoadedInit, LoadedStep, PTL DEF Spec

\* The set holds one date of each type, and the types are those of the board.
LEMMA StatutorySetByType ==
  /\ \A p \in StatutorySet : p[1] \in Type
  /\ \A p, q \in StatutorySet : p[1] = q[1] => p[2] = q[2]
<1> DEFINE n == DOMAIN RecordedDates(years) \cap DOMAIN CgtType
           date(i) == Cgt60DayDeadline(RecordedDates(years)[i])
           claim == GazetteClaimDeadline(LastOf(published))
           payment == IhtPaymentDue(estate.dod)
           filing == Iht400FilingDue(estate.dod)
           end == IsaExemptionEnd(estate.dod)
<1>1. n \subseteq {1, 2}
  BY DEF CgtType
<1>2. \A p \in StatutorySet :
        \/ p = <<"iht_payment", payment>> \/ p = <<"iht400_filing", filing>>
        \/ p = <<"s27_claim", claim>> \/ p = <<"isa_exemption_end", end>>
        \/ \E i \in n : p = <<CgtType[i], date(i)>>
  BY DEF StatutorySet, S27Claim
<1> HIDE DEF date, claim, payment, filing, end, n
<1>3. \A p \in StatutorySet :
        \/ p = <<"iht_payment", payment>> \/ p = <<"iht400_filing", filing>>
        \/ p = <<"s27_claim", claim>> \/ p = <<"isa_exemption_end", end>>
        \/ p = <<"cgt_60_day_1", date(1)>> \/ p = <<"cgt_60_day_2", date(2)>>
  BY <1>1, <1>2 DEF CgtType
<1>4. QED
  BY <1>3 DEF Type, CgtType

LEMMA RecomputeGives ==
  ASSUME Loaded, NEW r \in Request, CommitRecompute(r), req[r].clean, NEW p \in StatutorySet
  PROVE  /\ \E i \in DOMAIN board'[p[1]] : board'[p[1]][i].date = p[2]
         /\ Len(board'[p[1]]) = 1 => board'[p[1]][1].date = p[2]
<1> DEFINE q == req[r]
           t == p[1]
           e == CHOOSE f \in q.items : f[1] = t
<1>1. q.items = StatutorySet /\ \A u \in Type : RowLoaded(u, q.row[u], q.seen[u])
  BY DEF Loaded, CommitRecompute, RecomputeLoaded
<1>2. t \in Type
  BY StatutorySetByType
<1>3. e \in StatutorySet /\ e[1] = t
  BY <1>1
<1>4. e[2] = p[2]
  BY <1>3, StatutorySetByType
<1>5. board'[t] = Upserted(q, t, e[2])
  BY <1>1, <1>2 DEF CommitRecompute
<1> HIDE DEF q, t, e
<1>6. IsSeq(board[t]) /\ \A i \in DOMAIN board[t] : "date" \in DOMAIN board[t][i]
  BY <1>2 DEF Loaded, RowsDated
<1>7. /\ \E i \in DOMAIN board'[t] : board'[t][i].date = p[2]
      /\ Len(board'[t]) = 1 => board'[t][1].date = p[2]
  BY <1>1, <1>2, <1>4, <1>5, <1>6, UpsertedDates
<1>8. QED
  BY <1>7 DEF t

\* A recomputation that had the facts and the board to itself leaves every deadline that
\* applies on the board with its date, and none with another date unless its type has
\* two rows (recompute_deadlines: the upsert by type).
THEOREM RecomputeLeavesItsDates == Spec => RecomputeRefreshes
<1>1. ASSUME Loaded, [Next]_vars
      PROVE  [\A r \in Request : CommitRecompute(r) /\ req[r].clean =>
                \A p \in StatutorySet :
                  LET rows == board'[p[1]] IN
                  /\ \E i \in DOMAIN rows : rows[i].date = p[2]
                  /\ Len(rows) = 1 => rows[1].date = p[2]]_vars
  BY <1>1, RecomputeGives
<1>2. QED
  BY <1>1, LoadedInit, LoadedStep, PTL DEF Spec, RecomputeRefreshes

-----------------------------------------------------------------------------
(* The calendar.                                                           *)

\* The numbers of years, months and days that are put together and taken apart again.
LEMMA Parts ==
  ASSUME NEW y \in Nat, NEW m \in 1 .. 12, NEW d \in 0 .. 99
  PROVE  /\ Date(y, m, d) \in Nat
         /\ YearOf(Date(y, m, d)) = y /\ MonthOf(Date(y, m, d)) = m /\ DayOf(Date(y, m, d)) = d
<1> DEFINE n == 10000 * y + 100 * m + d
           h == 100 * y + m
<1>1. h \in Nat /\ n \in Nat /\ n = 100 * h + d
  OBVIOUS
<1>2. h \div 100 = y /\ h % 100 = m
  OBVIOUS
<1>3. n \div 10000 = y
  <2> DEFINE r == 100 * m + d
             k == n \div 10000
  <2>1. n = 10000 * y + r
    OBVIOUS
  <2>2. r \in Nat /\ r < 10000
    OBVIOUS
  <2> HIDE DEF n, r
  <2>3. k \in Nat /\ 10000 * k <= n /\ n < 10000 * k + 10000
    BY <1>1
  <2> HIDE DEF k
  <2>4. k = y
    BY <2>1, <2>2, <2>3
  <2>5. QED
    BY <2>4 DEF k
<1> HIDE DEF n, h
<1>4. n \div 100 = h /\ n % 100 = d
  <2>1. d \in 0 .. 99
    OBVIOUS
  <2>2. n \div 100 = h
    BY <1>1, <2>1
  <2>3. n % 100 = n - 100 * (n \div 100)
    BY <1>1
  <2>4. QED
    BY <1>1, <2>2, <2>3
<1>5. Date(y, m, d) = n
  BY DEF Date, n
<1>6. QED
  BY <1>1, <1>2, <1>3, <1>4, <1>5 DEF YearOf, MonthOf, DayOf

LEMMA MonthLengths ==
  ASSUME NEW y \in Nat, NEW m \in 1 .. 12
  PROVE  MonthLength(y, m) \in 28 .. 31
  BY DEF MonthLength

\* The months that have passed since the year 0.
MonthsOf(n) == YearOf(n) * 12 + MonthOf(n) - 1

InMonthOf(t, d) == Date(t \div 12, (t % 12) + 1, d)

LEMMA MonthParts ==
  ASSUME NEW t \in Nat, NEW d \in 0 .. 99
  PROVE  /\ InMonthOf(t, d) \in Nat
         /\ YearOf(InMonthOf(t, d)) = t \div 12 /\ MonthOf(InMonthOf(t, d)) = (t % 12) + 1
         /\ DayOf(InMonthOf(t, d)) = d /\ MonthsOf(InMonthOf(t, d)) = t
         /\ t \div 12 \in Nat /\ (t % 12) + 1 \in 1 .. 12
<1>1. t \div 12 \in Nat /\ (t % 12) + 1 \in 1 .. 12 /\ (t \div 12) * 12 + (t % 12) = t
  OBVIOUS
<1> DEFINE y == t \div 12
           m == (t % 12) + 1
           n == Date(y, m, d)
<1> HIDE DEF y, m
<1>2. y \in Nat /\ m \in 1 .. 12
  BY <1>1 DEF y, m
<1>3. n \in Nat /\ YearOf(n) = y /\ MonthOf(n) = m /\ DayOf(n) = d
  BY <1>2, Parts
<1>4. MonthsOf(n) = t
  <2>1. y * 12 + m - 1 = t
    BY <1>1 DEF y, m
  <2>2. QED
    BY <1>3, <2>1 DEF MonthsOf
<1>5. InMonthOf(t, d) = n
  BY DEF InMonthOf, y, m
<1>6. QED
  BY <1>1, <1>3, <1>4, <1>5 DEF y, m

Length(t) == MonthLength(t \div 12, (t % 12) + 1)

\* A date is a month and a day of it.
LEMMA DateParts ==
  ASSUME NEW n, IsDate(n)
  PROVE  /\ n \in Nat /\ MonthsOf(n) \in Nat /\ MonthsOf(n) >= 12
         /\ DayOf(n) \in 1 .. Length(MonthsOf(n)) /\ Length(MonthsOf(n)) \in 28 .. 31
         /\ n = InMonthOf(MonthsOf(n), DayOf(n))
         /\ \A k \in Nat : \A d : InMonth(n, k, d) = InMonthOf(MonthsOf(n) + k, d)
<1> DEFINE y == YearOf(n)
           m == MonthOf(n)
           d == DayOf(n)
           t == y * 12 + m - 1
<1>1. n \in Nat /\ y >= 1 /\ m \in 1 .. 12 /\ d \in 1 .. MonthLength(y, m)
  BY DEF IsDate
<1>2. y \in Nat /\ n = Date(y, m, d)
  BY <1>1 DEF YearOf, MonthOf, DayOf, Date
<1> HIDE DEF y, m, d
<1>3. t \in Nat /\ t >= 12 /\ t \div 12 = y /\ (t % 12) + 1 = m
  BY <1>1, <1>2
<1>4. MonthLength(y, m) \in 28 .. 31
  BY <1>1, <1>2, MonthLengths
<1>5. MonthsOf(n) = t
  BY DEF MonthsOf, y, m
<1>6. Length(t) = MonthLength(y, m)
  BY <1>3 DEF Length
<1>7. InMonthOf(t, d) = n
  BY <1>2, <1>3 DEF InMonthOf
<1>8. ASSUME NEW k \in Nat, NEW e PROVE InMonth(n, k, e) = InMonthOf(t + k, e)
  <2>1. InMonth(n, k, e) = Date((y * 12 + m - 1 + k) \div 12, ((y * 12 + m - 1 + k) % 12) + 1, e)
    BY DEF InMonth, y, m
  <2>2. QED
    BY <2>1 DEF InMonthOf
<1> HIDE DEF t
<1>9. QED
  BY <1>1, <1>3, <1>4, <1>5, <1>6, <1>7, <1>8 DEF d

\* So is a month with a day, and the date of it.
LEMMA MonthDate ==
  ASSUME NEW t \in Nat, t >= 12, NEW d \in 1 .. Length(t)
  PROVE  IsDate(InMonthOf(t, d)) /\ d \in 0 .. 99
<1>1. t \div 12 \in Nat /\ t \div 12 >= 1 /\ (t % 12) + 1 \in 1 .. 12
  OBVIOUS
<1>2. Length(t) \in 28 .. 31
  BY <1>1, MonthLengths DEF Length
<1>3. d \in 0 .. 99
  BY <1>2
<1>4. QED
  BY <1>1, <1>3, MonthParts DEF IsDate, Length

\* The days before a month, from those before its year.
LeapDays(y) == y \div 4 - y \div 100 + y \div 400
Table == <<0, 31, 59, 90, 120, 151, 181, 212, 243, 273, 304, 334>>
InYear(y, m) == Table[m] + (IF m > 2 /\ Leap(y) THEN 1 ELSE 0)
DaysBefore(y, m) == 365 * (y - 1) + LeapDays(y - 1) + InYear(y, m)
First(t) == DaysBefore(t \div 12, (t % 12) + 1)

LEMMA Quotients ==
  ASSUME NEW y \in Nat, y >= 1
  PROVE  /\ y \div 4 = (y - 1) \div 4 + (IF y % 4 = 0 THEN 1 ELSE 0)
         /\ y \div 100 = (y - 1) \div 100 + (IF y % 100 = 0 THEN 1 ELSE 0)
         /\ y \div 400 = (y - 1) \div 400 + (IF y % 400 = 0 THEN 1 ELSE 0)
         /\ (y % 400 = 0 => y % 100 = 0) /\ (y % 100 = 0 => y % 4 = 0)
<1>1. y \div 4 = (y - 1) \div 4 + (IF y % 4 = 0 THEN 1 ELSE 0)
  OBVIOUS
<1>2. y \div 100 = (y - 1) \div 100 + (IF y % 100 = 0 THEN 1 ELSE 0)
  OBVIOUS
<1>3. y \div 400 = (y - 1) \div 400 + (IF y % 400 = 0 THEN 1 ELSE 0)
  OBVIOUS
<1>4. y % 400 = 0 => y % 100 = 0
  OBVIOUS
<1>5. y % 100 = 0 => y % 4 = 0
  OBVIOUS
<1>6. QED
  BY <1>1, <1>2, <1>3, <1>4, <1>5

LEMMA LeapYears ==
  ASSUME NEW y \in Nat, y >= 1
  PROVE  /\ LeapDays(y) = LeapDays(y - 1) + (IF Leap(y) THEN 1 ELSE 0)
         /\ LeapDays(y) \in Int /\ LeapDays(y - 1) \in Int
<1> DEFINE a == (y - 1) \div 4
           b == (y - 1) \div 100
           c == (y - 1) \div 400
           p == IF y % 4 = 0 THEN 1 ELSE 0
           q == IF y % 100 = 0 THEN 1 ELSE 0
           r == IF y % 400 = 0 THEN 1 ELSE 0
<1>1. LeapDays(y - 1) = a - b + c /\ a \in Int /\ b \in Int /\ c \in Int
  BY DEF LeapDays
<1>2. LeapDays(y) = a + p - (b + q) + (c + r)
  BY Quotients DEF LeapDays
<1>3. p \in Int /\ q \in Int /\ r \in Int /\ p - q + r = IF Leap(y) THEN 1 ELSE 0
  <2>1. (y % 400 = 0 => y % 100 = 0) /\ (y % 100 = 0 => y % 4 = 0)
    BY Quotients
  <2>2. QED
    BY <2>1 DEF Leap
<1> HIDE DEF a, b, c, p, q, r
<1>4. QED
  BY <1>1, <1>2, <1>3

\* A month has as many days as lie between its beginning and that of the next.
LEMMA WithinYear ==
  ASSUME NEW y \in Nat, NEW m \in 1 .. 11
  PROVE  InYear(y, m + 1) = InYear(y, m) + MonthLength(y, m) /\ InYear(y, m) \in Nat
<1>1. CASE m \in 1 .. 2
  BY <1>1 DEF InYear, Table, MonthLength
<1>2. CASE m \in 3 .. 6
  BY <1>2 DEF InYear, Table, MonthLength
<1>3. CASE m \in 7 .. 11
  BY <1>3 DEF InYear, Table, MonthLength
<1>4. QED
  BY <1>1, <1>2, <1>3

LEMMA YearEnd ==
  ASSUME NEW y \in Nat
  PROVE  InYear(y, 12) = 334 + (IF Leap(y) THEN 1 ELSE 0) /\ InYear(y + 1, 1) = 0 /\ MonthLength(y, 12) = 31
  BY DEF InYear, Table, MonthLength

LEMMA NextMonth ==
  ASSUME NEW t \in Nat, t >= 12
  PROVE  First(t + 1) = First(t) + Length(t) /\ First(t) \in Int
<1> DEFINE y == t \div 12
           m == (t % 12) + 1
<1>1. y \in Nat /\ y >= 1 /\ m \in 1 .. 12
  OBVIOUS
<1>2. LeapDays(y) = LeapDays(y - 1) + (IF Leap(y) THEN 1 ELSE 0) /\ LeapDays(y - 1) \in Int
  BY <1>1, LeapYears
<1>3. Length(t) = MonthLength(y, m) /\ First(t) = DaysBefore(y, m)
  BY DEF Length, First
<1>4. CASE m # 12
  <2>1. (t + 1) \div 12 = y /\ ((t + 1) % 12) + 1 = m + 1
    BY <1>4
  <2>2. First(t + 1) = DaysBefore(y, m + 1)
    BY <2>1 DEF First
  <2> HIDE DEF y, m
  <2>3. InYear(y, m + 1) = InYear(y, m) + MonthLength(y, m) /\ InYear(y, m) \in Nat
    BY <1>1, <1>4, WithinYear
  <2>4. MonthLength(y, m) \in Nat
    BY <1>1, MonthLengths
  <2>5. QED
    BY <1>1, <1>2, <1>3, <2>2, <2>3, <2>4 DEF DaysBefore
<1>5. CASE m = 12
  <2>1. (t + 1) \div 12 = y + 1 /\ ((t + 1) % 12) + 1 = 1
    BY <1>5
  <2>2. First(t + 1) = DaysBefore(y + 1, 1)
    BY <2>1 DEF First
  <2> HIDE DEF y, m
  <2>3. InYear(y, 12) = 334 + (IF Leap(y) THEN 1 ELSE 0) /\ InYear(y + 1, 1) = 0 /\ MonthLength(y, 12) = 31
    BY <1>1, YearEnd
  <2>4. y + 1 - 1 = y
    BY <1>1
  <2>5. First(t + 1) = 365 * y + LeapDays(y)
    BY <1>1, <1>2, <2>2, <2>3, <2>4 DEF DaysBefore
  <2>6. First(t) = 365 * (y - 1) + LeapDays(y - 1) + 334 + (IF Leap(y) THEN 1 ELSE 0)
    BY <1>1, <1>2, <1>3, <1>5, <2>3 DEF DaysBefore
  <2> DEFINE leap == IF Leap(y) THEN 1 ELSE 0
  <2>7. leap \in Int
    OBVIOUS
  <2> HIDE DEF leap
  <2>8. /\ First(t + 1) = 365 * y + LeapDays(y - 1) + leap
        /\ First(t) = 365 * (y - 1) + LeapDays(y - 1) + 334 + leap
        /\ Length(t) = 31
    BY <1>1, <1>2, <1>3, <1>5, <2>3, <2>5, <2>6, <2>7 DEF leap
  <2>9. QED
    BY <1>1, <1>2, <2>7, <2>8
<1>6. QED
  BY <1>4, <1>5

\* The ordinal of a day of a month.
LEMMA OrdinalOf ==
  ASSUME NEW t \in Nat, NEW d \in 0 .. 99
  PROVE  Ordinal(InMonthOf(t, d)) = First(t) + d
<1> DEFINE n == InMonthOf(t, d)
           y == t \div 12
           m == (t % 12) + 1
<1>1. YearOf(n) = y /\ MonthOf(n) = m /\ DayOf(n) = d /\ y \in Nat /\ m \in 1 .. 12
  BY MonthParts
<1> HIDE DEF n, y, m
<1>2. Ordinal(n) = 365 * (y - 1) + (y - 1) \div 4 - (y - 1) \div 100 + (y - 1) \div 400
                   + Table[m] + (IF m > 2 /\ Leap(y) THEN 1 ELSE 0) + d
  BY <1>1 DEF Ordinal, Table
<1>3. First(t) = 365 * (y - 1) + ((y - 1) \div 4 - (y - 1) \div 100 + (y - 1) \div 400)
                 + (Table[m] + (IF m > 2 /\ Leap(y) THEN 1 ELSE 0))
  BY DEF First, DaysBefore, LeapDays, InYear, y, m
<1>4. Table[m] \in Int
  BY <1>1 DEF Table
<1>5. QED
  <2> DEFINE a == (y - 1) \div 4
             b == (y - 1) \div 100
             c == (y - 1) \div 400
             g == Table[m]
             l == IF m > 2 /\ Leap(y) THEN 1 ELSE 0
  <2>1. a \in Int /\ b \in Int /\ c \in Int /\ g \in Int /\ l \in Int
    BY <1>1, <1>4
  <2>2. Ordinal(n) = 365 * (y - 1) + a - b + c + g + l + d /\ First(t) = 365 * (y - 1) + (a - b + c) + (g + l)
    BY <1>2, <1>3
  <2> HIDE DEF a, b, c, g, l
  <2>3. Ordinal(n) = First(t) + d
    BY <1>1, <2>1, <2>2
  <2>4. QED
    BY <2>3 DEF n

\* Dates are ordered by month, then by day.
LEMMA InOrderOfMonths ==
  ASSUME NEW t \in Nat, NEW u \in Nat, NEW d \in 0 .. 99, NEW e \in 0 .. 99
  PROVE  /\ t < u \/ (t = u /\ d <= e) => InMonthOf(t, d) <= InMonthOf(u, e)
         /\ InMonthOf(t, d) <= InMonthOf(u, e) => t < u \/ (t = u /\ d <= e)
<1> DEFINE y == t \div 12
           m == (t % 12) + 1
           z == u \div 12
           o == (u % 12) + 1
<1>1. /\ y \in Nat /\ m \in 1 .. 12 /\ t = 12 * y + m - 1
      /\ z \in Nat /\ o \in 1 .. 12 /\ u = 12 * z + o - 1
  OBVIOUS
<1>2. /\ InMonthOf(t, d) = 10000 * y + 100 * m + d
      /\ InMonthOf(u, e) = 10000 * z + 100 * o + e
  BY DEF InMonthOf, Date
<1> HIDE DEF y, m, z, o
<1>3. ASSUME t < u PROVE InMonthOf(t, d) < InMonthOf(u, e)
  <2>1. y < z \/ (y = z /\ m < o)
    BY <1>1, <1>3
  <2>2. CASE y < z
    BY <1>1, <1>2, <2>2
  <2>3. CASE y = z /\ m < o
    BY <1>1, <1>2, <2>3
  <2>4. QED
    BY <2>1, <2>2, <2>3
<1>4. ASSUME u < t PROVE InMonthOf(u, e) < InMonthOf(t, d)
  <2>1. z < y \/ (y = z /\ o < m)
    BY <1>1, <1>4
  <2>2. CASE z < y
    BY <1>1, <1>2, <2>2
  <2>3. CASE y = z /\ o < m
    BY <1>1, <1>2, <2>3
  <2>4. QED
    BY <2>1, <2>2, <2>3
<1>5. ASSUME t = u PROVE InMonthOf(t, d) <= InMonthOf(u, e) <=> d <= e
  <2>1. y = z /\ m = o
    BY <1>1, <1>5
  <2>2. InMonthOf(t, d) = 10000 * y + 100 * m + d /\ InMonthOf(u, e) = 10000 * y + 100 * m + e
    BY <1>2, <2>1
  <2> DEFINE x == 10000 * y + 100 * m
  <2>3. x \in Nat
    BY <1>1
  <2>4. InMonthOf(t, d) = x + d /\ InMonthOf(u, e) = x + e
    BY <1>1, <2>2
  <2> HIDE DEF x
  <2>5. x + d <= x + e <=> d <= e
    BY <2>3
  <2>6. QED
    BY <2>4, <2>5
<1>6. InMonthOf(t, d) \in Nat /\ InMonthOf(u, e) \in Nat
  BY MonthParts
<1>7. QED
  <2> DEFINE a == InMonthOf(t, d)
             b == InMonthOf(u, e)
  <2>1. /\ a \in Nat /\ b \in Nat
        /\ t < u => a < b
        /\ u < t => b < a
        /\ t = u => (a <= b <=> d <= e)
    BY <1>3, <1>4, <1>5, <1>6
  <2> HIDE DEF a, b
  <2>2. ASSUME t < u \/ (t = u /\ d <= e) PROVE a <= b
    BY <2>1, <2>2
  <2>3. ASSUME a <= b PROVE t < u \/ (t = u /\ d <= e)
    <3>1. ~(u < t)
      BY <2>1, <2>3
    <3>2. QED
      BY <2>1, <2>3, <3>1
  <2>4. QED
    BY <2>2, <2>3 DEF a, b

LEMMA MonthAgain ==
  ASSUME NEW t \in Nat, t >= 12, NEW d \in 0 .. 99
  PROVE  LengthOfMonth(InMonthOf(t, d)) = Length(t)
<1> DEFINE n == InMonthOf(t, d)
<1>1. YearOf(n) = t \div 12 /\ MonthOf(n) = (t % 12) + 1
  BY MonthParts
<1> HIDE DEF n
<1>2. LengthOfMonth(n) = Length(t)
  BY <1>1 DEF LengthOfMonth, Length
<1>3. QED
  BY <1>2 DEF n

LEMMA MonthOn ==
  ASSUME NEW t \in Nat, NEW d \in 0 .. 99, NEW k \in Nat, NEW e
  PROVE  InMonth(InMonthOf(t, d), k, e) = InMonthOf(t + k, e)
<1> DEFINE n == InMonthOf(t, d)
<1>1. MonthsOf(n) = t
  BY MonthParts
<1> HIDE DEF n
<1>2. YearOf(n) * 12 + MonthOf(n) - 1 = t
  BY <1>1 DEF MonthsOf
<1>3. InMonth(n, k, e) = InMonthOf(t + k, e)
  BY <1>2 DEF InMonth, InMonthOf
<1>4. QED
  BY <1>3 DEF n

LEMMA Lengths ==
  ASSUME NEW t \in Nat
  PROVE  Length(t) \in 28 .. 31 /\ Length(t) + Length(t + 1) >= 58
<1>1. t \div 12 \in Nat /\ (t % 12) + 1 \in 1 .. 12 /\ (t + 1) \div 12 \in Nat
  OBVIOUS
<1>2. Length(t) \in 28 .. 31 /\ Length(t + 1) \in 28 .. 31
  <2>1. ((t + 1) % 12) + 1 \in 1 .. 12
    OBVIOUS
  <2>2. QED
    BY <1>1, <2>1, MonthLengths DEF Length
<1>3. (t % 12) + 1 # 2 => Length(t) >= 30
  BY <1>1 DEF Length, MonthLength
<1>4. (t % 12) + 1 = 2 => Length(t + 1) = 31
  <2>1. (t % 12) + 1 = 2 => ((t + 1) % 12) + 1 = 3
    OBVIOUS
  <2>2. QED
    BY <2>1 DEF Length, MonthLength
<1> DEFINE a == Length(t)
           b == Length(t + 1)
<1>5. a \in 28 .. 31 /\ b \in 28 .. 31 /\ (a >= 30 \/ b = 31)
  BY <1>2, <1>3, <1>4
<1> HIDE DEF a, b
<1>6. a + b >= 58
  BY <1>5
<1>7. QED
  BY <1>5, <1>6 DEF a, b

LEMMA MonthsLater ==
  ASSUME NEW n, IsDate(n), NEW k \in Nat
  PROVE  LET t == MonthsOf(n) + k
             d == IF DayOf(n) <= Length(t) THEN DayOf(n) ELSE Length(t)
         IN  AddMonths(n, k) = InMonthOf(t, d) /\ t \in Nat /\ t >= 12 /\ d \in 1 .. Length(t)
<1> DEFINE t == MonthsOf(n) + k
           d == IF DayOf(n) <= Length(t) THEN DayOf(n) ELSE Length(t)
<1>1. /\ MonthsOf(n) \in Nat /\ MonthsOf(n) >= 12 /\ DayOf(n) \in Nat /\ DayOf(n) >= 1
      /\ \A e : InMonth(n, k, e) = InMonthOf(t, e)
  <2>1. Length(MonthsOf(n)) \in 28 .. 31 /\ DayOf(n) \in 1 .. Length(MonthsOf(n))
    BY DateParts
  <2>2. QED
    BY <2>1, DateParts
<1>2. t \in Nat /\ t >= 12
  BY <1>1
<1> HIDE DEF t
<1>3. LengthOfMonth(InMonth(n, k, 1)) = Length(t) /\ Length(t) \in 28 .. 31
  <2>1. InMonth(n, k, 1) = InMonthOf(t, 1) /\ 1 \in 0 .. 99
    BY <1>1
  <2>2. QED
    BY <1>2, <2>1, MonthAgain, Lengths
<1>4. AddMonths(n, k) = InMonthOf(t, d)
  BY <1>1, <1>3 DEF AddMonths
<1>5. d \in 1 .. Length(t)
  BY <1>1, <1>3
<1>6. QED
  BY <1>2, <1>4, <1>5 DEF t

\* The end of the k-th month after a date, by way of the first of its month.
LEMMA EndOfMonthLater ==
  ASSUME NEW n, IsDate(n), NEW k \in Nat
  PROVE  LET t == MonthsOf(n) + k IN
         /\ EndOfMonth(AddMonths(InMonth(n, 0, 1), k)) = InMonthOf(t, Length(t))
         /\ t \in Nat /\ t >= 12
<1> DEFINE s == MonthsOf(n)
           t == s + k
           first == InMonthOf(s, 1)
<1>1. s \in Nat /\ s >= 12 /\ InMonth(n, 0, 1) = InMonthOf(s + 0, 1)
  BY DateParts
<1>2. t \in Nat /\ t >= 12 /\ s + 0 = s
  BY <1>1
<1> HIDE DEF s
<1>3. Length(s) \in 28 .. 31 /\ Length(t) \in 28 .. 31
  BY <1>1, <1>2, Lengths
<1>4. IsDate(first) /\ MonthsOf(first) = s /\ DayOf(first) = 1
  <2>1. 1 \in 1 .. Length(s) /\ 1 \in 0 .. 99
    BY <1>3
  <2>2. QED
    BY <1>1, <2>1, MonthDate, MonthParts
<1> HIDE DEF first
<1>5. AddMonths(first, k) = InMonthOf(t, 1)
  BY <1>3, <1>4, MonthsLater
<1>6. LengthOfMonth(InMonthOf(t, 1)) = Length(t)
  <2> HIDE DEF t
  <2>1. QED
    BY <1>2, MonthAgain
<1>7. InMonth(InMonthOf(t, 1), 0, Length(t)) = InMonthOf(t + 0, Length(t)) /\ t + 0 = t
  <2> HIDE DEF t
  <2>1. 1 \in 0 .. 99 /\ 0 \in Nat
    OBVIOUS
  <2>2. InMonth(InMonthOf(t, 1), 0, Length(t)) = InMonthOf(t + 0, Length(t))
    BY <1>2, <2>1, MonthOn
  <2>3. QED
    BY <1>2, <2>2
<1>8. EndOfMonth(AddMonths(first, k)) = InMonthOf(t, Length(t))
  BY <1>5, <1>6, <1>7 DEF EndOfMonth
<1>9. InMonth(n, 0, 1) = first
  BY <1>1, <1>2 DEF first
<1>10. QED
  BY <1>2, <1>8, <1>9 DEF s

\* What a pair of a month and a day is worth, and that spilling keeps it.
LEMMA SpillOf ==
  ASSUME NEW t \in Nat, t >= 12, NEW e \in 1 .. 99
  PROVE  \E u \in Nat, f \in 1 .. 99 :
           /\ Spill(<<InMonthOf(t, 1), e>>) = <<InMonthOf(u, 1), f>>
           /\ u >= 12 /\ First(u) + f = First(t) + e
           /\ IF e <= Length(t) THEN u = t /\ f = e ELSE u = t + 1 /\ f = e - Length(t)
<1> DEFINE p == <<InMonthOf(t, 1), e>>
<1>1. /\ LengthOfMonth(InMonthOf(t, 1)) = Length(t)
      /\ InMonth(InMonthOf(t, 1), 1, 1) = InMonthOf(t + 1, 1)
  <2>1. 1 \in 0 .. 99 /\ 1 \in Nat
    OBVIOUS
  <2>2. LengthOfMonth(InMonthOf(t, 1)) = Length(t)
    BY <2>1, MonthAgain
  <2>3. InMonth(InMonthOf(t, 1), 1, 1) = InMonthOf(t + 1, 1)
    BY <2>1, MonthOn
  <2>4. QED
    BY <2>2, <2>3
<1>2. Length(t) \in 28 .. 31 /\ First(t + 1) = First(t) + Length(t) /\ First(t) \in Int
  BY Lengths, NextMonth
<1>3. Spill(p) = IF e <= Length(t) THEN p ELSE <<InMonthOf(t + 1, 1), e - Length(t)>>
  BY <1>1 DEF Spill
<1>4. CASE e <= Length(t)
  BY <1>3, <1>4
<1>5. CASE ~(e <= Length(t))
  <2>1. t + 1 \in Nat /\ t + 1 >= 12 /\ e - Length(t) \in 1 .. 99
    BY <1>2, <1>5
  <2>2. First(t + 1) + (e - Length(t)) = First(t) + e
    BY <1>2
  <2>3. QED
    BY <1>3, <1>5, <2>1, <2>2
<1>6. QED
  BY <1>4, <1>5

\* Days later: the month and the day they fall on.
LEMMA DaysLater ==
  ASSUME NEW n, IsDate(n), NEW k \in 0 .. 60
  PROVE  IsDate(AddDays(n, k)) /\ Ordinal(AddDays(n, k)) = Ordinal(n) + k
<1> DEFINE t == MonthsOf(n)
           d == DayOf(n)
           e == d + k
<1>1. /\ t \in Nat /\ t >= 12 /\ d \in 1 .. Length(t) /\ Length(t) \in 28 .. 31
      /\ n = InMonthOf(t, d)
  BY DateParts
<1>2. InMonth(n, 0, 1) = InMonthOf(t, 1)
  <2>1. InMonth(n, 0, 1) = InMonthOf(t + 0, 1) /\ t + 0 = t
    BY <1>1, DateParts
  <2>2. QED
    BY <2>1
<1> HIDE DEF t, d
<1>3. e \in 1 .. 99 /\ e <= 91 /\ d \in 0 .. 99
  BY <1>1
<1>4. Ordinal(n) = First(t) + d /\ First(t) \in Int
  BY <1>1, <1>3, OrdinalOf, NextMonth
<1> HIDE DEF e
<1>5. PICK u \in Nat, f \in 1 .. 99 :
        /\ Spill(<<InMonthOf(t, 1), e>>) = <<InMonthOf(u, 1), f>>
        /\ u >= 12 /\ First(u) + f = First(t) + e
        /\ IF e <= Length(t) THEN u = t /\ f = e ELSE u = t + 1 /\ f = e - Length(t)
  BY <1>1, <1>3, SpillOf
<1>6. PICK v \in Nat, g \in 1 .. 99 :
        /\ Spill(<<InMonthOf(u, 1), f>>) = <<InMonthOf(v, 1), g>>
        /\ v >= 12 /\ First(v) + g = First(u) + f
        /\ IF f <= Length(u) THEN v = u /\ g = f ELSE v = u + 1 /\ g = f - Length(u)
  BY <1>5, SpillOf
<1>7. PICK w \in Nat, h \in 1 .. 99 :
        /\ Spill(<<InMonthOf(v, 1), g>>) = <<InMonthOf(w, 1), h>>
        /\ w >= 12 /\ First(w) + h = First(v) + g
        /\ IF g <= Length(v) THEN w = v /\ h = g ELSE w = v + 1 /\ h = g - Length(v)
  BY <1>6, SpillOf
<1>8. /\ Length(t) \in 28 .. 31 /\ Length(u) \in 28 .. 31 /\ Length(v) \in 28 .. 31
      /\ Length(w) \in 28 .. 31 /\ Length(t) + Length(t + 1) >= 58
  BY <1>1, Lengths
<1>9. h <= Length(w)
  <2>1. CASE e <= Length(t)
    <3>1. u = t /\ f = e
      BY <1>5, <2>1
    <3>2. v = u /\ g = f
      BY <1>6, <2>1, <3>1
    <3>3. w = v /\ h = g
      BY <1>7, <2>1, <3>1, <3>2
    <3>4. QED
      BY <2>1, <3>1, <3>2, <3>3
  <2>2. CASE ~(e <= Length(t)) /\ f <= Length(u)
    <3>1. v = u /\ g = f
      BY <1>6, <2>2
    <3>2. w = v /\ h = g
      BY <1>7, <2>2, <3>1
    <3>3. QED
      BY <2>2, <3>1, <3>2
  <2>3. CASE ~(e <= Length(t)) /\ ~(f <= Length(u)) /\ g <= Length(v)
    <3>1. w = v /\ h = g
      BY <1>7, <2>3
    <3>2. QED
      BY <2>3, <3>1
  <2>4. CASE ~(e <= Length(t)) /\ ~(f <= Length(u)) /\ ~(g <= Length(v))
    <3>1. u = t + 1 /\ f = e - Length(t)
      BY <1>5, <2>4
    <3>2. g = f - Length(u) /\ h = g - Length(v)
      BY <1>6, <1>7, <2>4
    <3>3. h = e - Length(t) - Length(t + 1) - Length(v)
      BY <1>3, <1>8, <3>1, <3>2
    <3> DEFINE x == Length(t)
               y == Length(t + 1)
               z == Length(v)
    <3>4. x + y >= 58 /\ z \in 28 .. 31 /\ x \in Int /\ y \in Int /\ h = e - x - y - z
      BY <1>8, <3>1, <3>3
    <3> HIDE DEF x, y, z
    <3>5. h <= 5
      BY <1>3, <3>4
    <3>6. QED
      BY <1>8, <3>5
  <2>5. QED
    BY <2>1, <2>2, <2>3, <2>4
<1>10. AddDays(n, k) = InMonth(InMonthOf(w, 1), 0, h)
  BY <1>2, <1>5, <1>6, <1>7 DEF AddDays, e, d
<1>11. InMonth(InMonthOf(w, 1), 0, h) = InMonthOf(w, h)
  <2>1. 1 \in 0 .. 99 /\ 0 \in Nat /\ w + 0 = w
    OBVIOUS
  <2>2. InMonth(InMonthOf(w, 1), 0, h) = InMonthOf(w + 0, h)
    BY <2>1, MonthOn
  <2>3. QED
    BY <2>1, <2>2
<1>12. h \in 1 .. Length(w)
  BY <1>8, <1>9
<1>13. IsDate(InMonthOf(w, h)) /\ h \in 0 .. 99
  BY <1>7, <1>12, MonthDate
<1>14. Ordinal(InMonthOf(w, h)) = First(w) + h
  BY <1>13, OrdinalOf
<1>15. First(w) + h = First(t) + d + k
  <2>1. First(w) + h = First(t) + e
    BY <1>5, <1>6, <1>7
  <2>2. QED
    BY <1>1, <1>4, <2>1 DEF e
<1>16. QED
  BY <1>4, <1>10, <1>11, <1>13, <1>14, <1>15

-----------------------------------------------------------------------------
(* The dates of the board.                                                 *)

\* The first of the month after the k-th is one day later than the end of that.
LEMMA EndOfMonthIs ==
  ASSUME NEW n, IsDate(n), NEW k \in Nat
  PROVE  EndOfMonthAfter(n, k) = Ordinal(InMonthOf(MonthsOf(n) + k, Length(MonthsOf(n) + k)))
<1> DEFINE t == MonthsOf(n) + k
<1>1. MonthsOf(n) \in Nat /\ MonthsOf(n) >= 12 /\ InMonth(n, k + 1, 1) = InMonthOf(MonthsOf(n) + (k + 1), 1)
  BY DateParts
<1>2. t \in Nat /\ t >= 12 /\ MonthsOf(n) + (k + 1) = t + 1
  BY <1>1
<1> HIDE DEF t
<1>3. Length(t) \in 28 .. 31 /\ First(t + 1) = First(t) + Length(t) /\ First(t) \in Int
  BY <1>2, Lengths, NextMonth
<1>4. Ordinal(InMonthOf(t + 1, 1)) = First(t + 1) + 1
  <2>1. t + 1 \in Nat /\ 1 \in 0 .. 99
    BY <1>2
  <2>2. QED
    BY <2>1, OrdinalOf
<1>5. Ordinal(InMonthOf(t, Length(t))) = First(t) + Length(t)
  <2>1. Length(t) \in 0 .. 99
    BY <1>3
  <2>2. QED
    BY <1>2, <2>1, OrdinalOf
<1>6. EndOfMonthAfter(n, k) = Ordinal(InMonthOf(t, Length(t)))
  BY <1>1, <1>2, <1>3, <1>4, <1>5 DEF EndOfMonthAfter
<1>7. QED
  BY <1>6 DEF t

\* Tax and account fall due at the ends of their months.
LEMMA DuesAreMonthEnds ==
  ASSUME NEW death, IsDate(death)
  PROVE  LET due == IhtPaymentDue(death) IN
         /\ IsDate(due) /\ MonthsOf(due) = MonthsOf(death) + 6
         /\ Ordinal(due) = EndOfMonthAfter(death, 6)
         /\ Ordinal(Iht400FilingDue(death)) = EndOfMonthAfter(due, 6)
<1> DEFINE s == MonthsOf(death)
           t == s + 6
           u == s + 12
           due == IhtPaymentDue(death)
<1>1. 6 \in Nat /\ 12 \in Nat
  OBVIOUS
<1>2. due = InMonthOf(t, Length(t)) /\ t \in Nat /\ t >= 12
  BY <1>1, EndOfMonthLater DEF IhtPaymentDue
<1>3. Iht400FilingDue(death) = InMonthOf(u, Length(u)) /\ u \in Nat
  BY <1>1, EndOfMonthLater DEF Iht400FilingDue
<1>4. s \in Nat
  BY DateParts
<1> HIDE DEF due, s
<1>5. Length(t) \in 28 .. 31 /\ Length(t) \in 1 .. Length(t) /\ Length(t) \in 0 .. 99
  <2> HIDE DEF t
  <2>1. Length(t) \in 28 .. 31
    BY <1>2, Lengths
  <2>2. QED
    BY <2>1
<1>6. IsDate(due) /\ MonthsOf(due) = t
  <2> HIDE DEF t
  <2>1. IsDate(InMonthOf(t, Length(t)))
    BY <1>2, <1>5, MonthDate
  <2>2. MonthsOf(InMonthOf(t, Length(t))) = t
    BY <1>2, <1>5, MonthParts
  <2>3. QED
    BY <1>2, <2>1, <2>2
<1>7. EndOfMonthAfter(death, 6) = Ordinal(InMonthOf(t, Length(t)))
  BY <1>1, EndOfMonthIs DEF s
<1>8. EndOfMonthAfter(due, 6) = Ordinal(InMonthOf(t + 6, Length(t + 6)))
  BY <1>1, <1>6, EndOfMonthIs
<1>9. t + 6 = u
  BY <1>4
<1>10. QED
  BY <1>2, <1>3, <1>6, <1>7, <1>8, <1>9 DEF s, due

\* The instalments fall in the same month of every year.
LEMMA InstalmentsAreYearly ==
  ASSUME NEW death, IsDate(death), NEW k \in 1 .. 10
  PROVE  LET due == IhtPaymentDue(death) IN
         InstalmentDue(death, k) \div 100 = InMonth(due, 12 * (k - 1), 1) \div 100
<1> DEFINE due == IhtPaymentDue(death)
           j == 12 * (k - 1)
           t == MonthsOf(due) + j
           d == IF DayOf(due) <= Length(t) THEN DayOf(due) ELSE Length(t)
<1>1. IsDate(due) /\ j \in Nat
  BY DuesAreMonthEnds
<1> HIDE DEF due, j
<1>2. AddMonths(due, j) = InMonthOf(t, d) /\ t \in Nat /\ t >= 12 /\ d \in 1 .. Length(t)
  BY <1>1, MonthsLater
<1>3. InMonth(due, j, 1) = InMonthOf(t, 1)
  BY <1>1, DateParts
<1> HIDE DEF t, d
<1>4. Length(t) \in 28 .. 31
  BY <1>2, Lengths
<1>5. \A e \in 0 .. 99 : InMonthOf(t, e) \div 100 = 100 * (t \div 12) + (t % 12) + 1
  <2> SUFFICES ASSUME NEW e \in 0 .. 99
               PROVE  InMonthOf(t, e) \div 100 = 100 * (t \div 12) + (t % 12) + 1
    OBVIOUS
  <2> DEFINE y == t \div 12
             m == (t % 12) + 1
             x == 100 * y + m
  <2>1. y \in Nat /\ m \in 1 .. 12 /\ x \in Nat
    BY <1>2
  <2>2. InMonthOf(t, e) = 100 * x + e
    <3>1. InMonthOf(t, e) = 10000 * y + 100 * m + e
      BY DEF InMonthOf, Date
    <3> HIDE DEF y, m
    <3>2. QED
      BY <2>1, <3>1
  <2>3. x = 100 * (t \div 12) + (t % 12) + 1
    BY <1>2
  <2> HIDE DEF x
  <2>4. (100 * x + e) \div 100 = x
    BY <2>1
  <2>5. QED
    BY <2>2, <2>3, <2>4
<1>6. d \in 0 .. 99 /\ 1 \in 0 .. 99
  BY <1>2, <1>4
<1>7. InstalmentDue(death, k) = InMonthOf(t, d)
  BY <1>2 DEF InstalmentDue, due, j
<1>8. QED
  BY <1>3, <1>5, <1>6, <1>7 DEF due, j

-----------------------------------------------------------------------------
(* A section 27 claim.                                                     *)

LEMMA OneDayLater ==
  ASSUME NEW t \in Nat, t >= 12, NEW d \in 1 .. Length(t)
  PROVE  AddDays(InMonthOf(t, d), 1) =
           IF d < Length(t) THEN InMonthOf(t, d + 1) ELSE InMonthOf(t + 1, 1)
<1> DEFINE n == InMonthOf(t, d)
           e == d + 1
<1>1. Length(t) \in 28 .. 31 /\ Length(t + 1) \in 28 .. 31 /\ d \in 0 .. 99
  <2>1. t + 1 \in Nat
    OBVIOUS
  <2>2. Length(t) \in 28 .. 31 /\ Length(t + 1) \in 28 .. 31
    BY <2>1, Lengths
  <2>3. QED
    BY <2>2
<1>2. DayOf(n) = d
  BY <1>1, MonthParts
<1>3. InMonth(n, 0, 1) = InMonthOf(t, 1)
  <2>1. InMonth(n, 0, 1) = InMonthOf(t + 0, 1)
    BY <1>1, MonthOn
  <2>2. QED
    BY <2>1
<1> HIDE DEF n
<1>4. e \in 1 .. 99
  BY <1>1
<1> HIDE DEF e
<1> DEFINE p == Spill(<<InMonthOf(t, 1), e>>)
<1>5. AddDays(n, 1) = LET q == Spill(Spill(p)) IN InMonth(q[1], 0, q[2])
  BY <1>2, <1>3 DEF AddDays, e
<1>6. PICK u \in Nat, f \in 1 .. 99 :
        /\ p = <<InMonthOf(u, 1), f>>
        /\ u >= 12 /\ First(u) + f = First(t) + e
        /\ IF e <= Length(t) THEN u = t /\ f = e ELSE u = t + 1 /\ f = e - Length(t)
  BY <1>4, SpillOf
<1>7. IF d < Length(t) THEN u = t /\ f = d + 1 ELSE u = t + 1 /\ f = 1
  BY <1>1, <1>6 DEF e
<1>8. f <= Length(u)
  <2>1. CASE d < Length(t)
    BY <1>1, <1>7, <2>1
  <2>2. CASE ~(d < Length(t))
    <3>1. u = t + 1 /\ f = 1
      BY <1>7, <2>2
    <3>2. QED
      BY <1>1, <3>1
  <2>3. QED
    BY <2>1, <2>2
<1>9. Spill(p) = p
  <2>1. 1 \in 0 .. 99
    OBVIOUS
  <2>2. LengthOfMonth(InMonthOf(u, 1)) = Length(u)
    BY <1>6, <2>1, MonthAgain
  <2>3. QED
    BY <1>6, <1>8, <2>2 DEF Spill
<1>10. AddDays(n, 1) = InMonth(InMonthOf(u, 1), 0, f)
  BY <1>5, <1>6, <1>9
<1>11. InMonth(InMonthOf(u, 1), 0, f) = InMonthOf(u, f)
  <2>1. 1 \in 0 .. 99 /\ 0 \in Nat /\ u + 0 = u
    OBVIOUS
  <2>2. InMonth(InMonthOf(u, 1), 0, f) = InMonthOf(u + 0, f)
    BY <2>1, MonthOn
  <2>3. QED
    BY <2>1, <2>2
<1>12. QED
  BY <1>7, <1>10, <1>11 DEF n

\* A claim has two months from the last notice, and so from every earlier one.
LEMMA ClaimsHaveTwoMonths ==
  ASSUME NEW n, IsDate(n), NEW last, IsDate(last), n <= last
  PROVE  IsDate(GazetteClaimDeadline(last)) /\ GazetteClaimDeadline(last) >= TwoMonthsAfter(n)
<1> DEFINE s == MonthsOf(n)
           d == DayOf(n)
           t == MonthsOf(last)
           e == DayOf(last)
           u == t + 2
           f == IF e <= Length(u) THEN e ELSE Length(u)
           claim == GazetteClaimDeadline(last)
           full == TwoMonthsAfter(n)
<1>1. /\ s \in Nat /\ s >= 12 /\ d \in 1 .. Length(s) /\ Length(s) \in 28 .. 31 /\ n = InMonthOf(s, d)
      /\ t \in Nat /\ t >= 12 /\ e \in 1 .. Length(t) /\ Length(t) \in 28 .. 31
      /\ last = InMonthOf(t, e)
  BY DateParts
<1>2. InMonth(n, 2, 1) = InMonthOf(s + 2, 1) /\ InMonth(n, 2, d) = InMonthOf(s + 2, d)
      /\ InMonth(n, 3, 1) = InMonthOf(s + 3, 1)
  BY DateParts
<1>3. 2 \in Nat
  OBVIOUS
<1>4. AddMonths(last, 2) = InMonthOf(u, f) /\ u \in Nat /\ u >= 12 /\ f \in 1 .. Length(u)
  BY <1>3, MonthsLater
<1> HIDE DEF s, d, t, e
<1>5. d \in 1 .. 31 /\ e \in 1 .. 31 /\ d \in 0 .. 99 /\ e \in 0 .. 99
  BY <1>1
<1>6. s < t \/ (s = t /\ d <= e)
  BY <1>1, <1>5, InOrderOfMonths
<1>7. full = IF d <= Length(s + 2) THEN InMonthOf(s + 2, d) ELSE InMonthOf(s + 3, 1)
  <2>1. s + 2 \in Nat /\ s + 2 >= 12 /\ 1 \in 0 .. 99
    BY <1>1
  <2>2. LengthOfMonth(InMonthOf(s + 2, 1)) = Length(s + 2)
    BY <2>1, MonthAgain
  <2>3. QED
    BY <1>2, <2>2 DEF TwoMonthsAfter, d
<1>8. claim = IF f < Length(u) THEN InMonthOf(u, f + 1) ELSE InMonthOf(u + 1, 1)
  <2> HIDE DEF u, f
  <2>1. QED
    BY <1>4, OneDayLater DEF GazetteClaimDeadline
<1>9. Length(u) \in 28 .. 31 /\ Length(u + 1) \in 28 .. 31 /\ Length(s + 2) \in 28 .. 31
  <2>1. u \in Nat /\ u + 1 \in Nat /\ s + 2 \in Nat
    BY <1>1
  <2> HIDE DEF u
  <2>2. QED
    BY <2>1, Lengths
<1> DEFINE v == IF d <= Length(s + 2) THEN s + 2 ELSE s + 3
           g == IF d <= Length(s + 2) THEN d ELSE 1
           w == IF f < Length(u) THEN u ELSE u + 1
           h == IF f < Length(u) THEN f + 1 ELSE 1
<1>10. full = InMonthOf(v, g) /\ claim = InMonthOf(w, h)
  BY <1>7, <1>8
<1>11. /\ v \in Nat /\ g \in 0 .. 99 /\ w \in Nat /\ w >= 12 /\ h \in 1 .. Length(w) /\ h \in 0 .. 99
  <2>1. v \in Nat /\ g \in 0 .. 99
    BY <1>1, <1>5
  <2>2. CASE f < Length(u)
    <3>1. w = u /\ h = f + 1
      BY <2>2
    <3> HIDE DEF w, h, u, f, v, g
    <3>2. QED
      BY <1>4, <1>9, <2>1, <2>2, <3>1
  <2>3. CASE ~(f < Length(u))
    <3>1. w = u + 1 /\ h = 1
      BY <2>3
    <3> HIDE DEF w, h, u, f, v, g
    <3>2. QED
      BY <1>4, <1>9, <2>1, <2>3, <3>1
  <2>4. QED
    BY <2>2, <2>3
<1>12. v < w \/ (v = w /\ g <= h)
  <2>1. CASE s < t
    <3>1. v < w \/ (v = w /\ g = 1)
      BY <1>1, <2>1
    <3>2. h >= 1
      BY <1>11, <1>9
    <3>3. QED
      BY <3>1, <3>2
  <2>2. CASE s = t /\ d <= e
    <3>1. s + 2 = u /\ s + 3 = u + 1
      BY <1>1, <2>2
    <3>2. CASE e < Length(u)
      <4>1. f = e /\ w = u /\ h = e + 1
        BY <1>5, <1>9, <3>2
      <4>2. v = u /\ g = d
        BY <1>5, <1>9, <2>2, <3>1, <3>2
      <4> HIDE DEF v, g, w, h, u, f
      <4>3. QED
        BY <1>5, <2>2, <4>1, <4>2
    <3>3. CASE ~(e < Length(u))
      <4>1. f = Length(u) /\ w = u + 1 /\ h = 1
        BY <1>5, <1>9, <3>3
      <4>2. v = u \/ (v = u + 1 /\ g = 1)
        BY <3>1
      <4>3. u \in Nat
        BY <1>1
      <4> HIDE DEF v, g, w, h, u, f
      <4>4. QED
        BY <4>1, <4>2, <4>3
    <3>4. QED
      BY <3>2, <3>3
  <2>3. QED
    BY <1>6, <2>1, <2>2
<1> HIDE DEF v, g, w, h
<1>13. full <= claim
  <2>1. InMonthOf(v, g) <= InMonthOf(w, h)
    BY <1>11, <1>12, InOrderOfMonths
  <2> HIDE DEF full, claim
  <2>2. QED
    BY <1>10, <2>1
<1>14. IsDate(claim)
  BY <1>10, <1>11, MonthDate
<1>15. full \in Nat /\ claim \in Nat
  BY <1>10, <1>11, MonthParts
<1> HIDE DEF full, claim
<1>16. claim >= full
  BY <1>13, <1>15
<1>17. QED
  BY <1>14, <1>16 DEF full, claim

-----------------------------------------------------------------------------
(* The facts are dates of the calendar.                                    *)

\* A least element of a set of natural numbers.
LEMMA SmallestIndex ==
  ASSUME NEW T \in SUBSET Nat, T # {}
  PROVE  \E m \in T : \A k \in T : ~(k < m)
<1>1. IsWellFoundedOn(OpToRel(<, Nat), Nat)
  BY NatLessThanWellFounded
<1>2. \E m \in T : \A k \in T : ~(<<k, m>> \in OpToRel(<, Nat))
  BY <1>1, WFMin
<1>3. QED
  BY <1>2 DEF OpToRel

\* Of recorded dates there is a last one, as the calendar ends.
LEMMA LastIsThere ==
  ASSUME NEW S, S # {}, \A n \in S : IsRecorded(n)
  PROVE  LastOf(S) \in S /\ \A n \in S : n <= LastOf(S)
<1> DEFINE end == 10000 * 10000
           T == {end - n : n \in S}
<1>1. \A n \in S : n \in Nat /\ n <= end
  <2> SUFFICES ASSUME NEW n \in S PROVE n \in Nat /\ n <= end
    OBVIOUS
  <2>1. n \in Nat /\ n \div 10000 <= 9989
    BY DEF IsRecorded, IsDate, YearOf
  <2>2. n <= end
    BY <2>1
  <2>3. QED
    BY <2>1, <2>2
<1>2. end \in Nat
  OBVIOUS
<1> HIDE DEF end
<1>3. T \in SUBSET Nat /\ T # {}
  BY <1>1, <1>2
<1>4. PICK m \in T : \A k \in T : ~(k < m)
  <2> HIDE DEF T
  <2>1. QED
    BY <1>3, SmallestIndex
<1>5. PICK last \in S : m = end - last
  OBVIOUS
<1>6. ASSUME NEW n \in S PROVE n <= last
  <2>1. ~(end - n < end - last)
    BY <1>4, <1>5
  <2>2. n \in Nat /\ last \in Nat
    BY <1>1
  <2>3. QED
    BY <1>2, <2>1, <2>2
<1>7. QED
  BY <1>5, <1>6 DEF LastOf

\* The columns of the requests and rows hold what bodies can.
DatesKnown ==
  /\ estate.dod \in DeathDate \cup {Null}
  /\ published \subseteq PublishDate
  /\ \A i \in DOMAIN years : years[i].disposals \in Disposals
  /\ \A r \in Request : req[r].kind \in {"create", "patch"} => req[r].new.disposals \in Disposals

LEMMA DerivedDisposals ==
  ASSUME NEW row, DOMAIN row = YearColumns
  PROVE  Derived(row).disposals = row.disposals
  BY DEF Derived, YearColumns, Columns

LEMMA NewYearDisposals ==
  ASSUME NEW y, NEW income, NEW disposals
  PROVE  TaxYearRow(y, income, disposals).disposals = disposals
<1> DEFINE row == [year |-> y, income |-> income, disposals |-> disposals, cgt |-> {},
                   isaEnd |-> Null, complex |-> FALSE, live |-> TRUE,
                   dod |-> Null, net |-> Null, own |-> TRUE, exact |-> TRUE]
<1>1. DOMAIN row = YearColumns /\ row.disposals = disposals
  BY DEF YearColumns, Columns
<1>2. TaxYearRow(y, income, disposals) = Derived(row)
  BY DEF TaxYearRow
<1> HIDE DEF row
<1>3. QED
  BY <1>1, <1>2, DerivedDisposals

LEMMA DatesInit == Init => DatesKnown
<1>1. SUFFICES ASSUME Init PROVE DatesKnown
  OBVIOUS
<1>2. estate.dod \in DeathDate \cup {Null} /\ published \subseteq PublishDate
  BY <1>1 DEF Init
<1>3. \A r \in Request : req[r].kind = "idle"
  BY <1>1, IdleRequest DEF Init
<1>4. \A i \in DOMAIN years : years[i].disposals \in Disposals
  <2>1. CASE years = <<>>
    BY <2>1, EmptySequence
  <2>2. ASSUME NEW y, NEW i, NEW d \in Disposals, years = <<TaxYearRow(y, i, d)>>
        PROVE  \A k \in DOMAIN years : years[k].disposals \in Disposals
    <3> DEFINE row == TaxYearRow(y, i, d)
    <3>1. row.disposals \in Disposals
      BY NewYearDisposals
    <3> HIDE DEF row
    <3>2. DOMAIN years = {1} /\ years[1] = row
      <4>1. years = <<row>>
        BY <2>2 DEF row
      <4>2. QED
        BY <4>1, OneElement
    <3>3. QED
      BY <3>1, <3>2
  <2>3. QED
    BY <1>1, <2>1, <2>2 DEF Init
<1>5. QED
  BY <1>2, <1>3, <1>4 DEF DatesKnown

\* A step that lets no request in, and changes facts within their sets.
LEMMA DatesKept ==
  ASSUME DatesKnown, NoneFresher,
         estate'.dod \in DeathDate \cup {Null}, published' \subseteq PublishDate,
         \A i \in DOMAIN years' : years'[i].disposals \in Disposals
  PROVE  DatesKnown'
<1>1. ASSUME NEW r \in Request, req'[r].kind \in {"create", "patch"}
      PROVE  req'[r].new.disposals \in Disposals
  <2>1. req[r].kind = req'[r].kind /\ req'[r].new = req[r].new
    BY <1>1 DEF NoneFresher, NoFresher, Kinds
  <2>2. QED
    BY <1>1, <2>1 DEF DatesKnown
<1>2. QED
  BY <1>1 DEF DatesKnown

\* A request comes in, or goes, with figures a body can have.
LEMMA DatesEntry ==
  ASSUME DatesKnown, Loaded, UNCHANGED <<facts, years>>,
         NEW r \in Request, NEW new, req' = [req EXCEPT ![r] = new],
         new.kind \in {"create", "patch"} => new.new.disposals \in Disposals
  PROVE  DatesKnown'
<1>1. \A q \in Request : req'[q] = IF q = r THEN new ELSE req[q]
  BY DEF Loaded, RequestsFilled
<1>2. QED
  BY <1>1 DEF DatesKnown, facts

LEMMA DatesBegin ==
  ASSUME DatesKnown, Loaded, NEW r \in Request,
         \/ \E last : BeginRecompute(r, last)
         \/ \E y, n : \E d \in Disposals : BeginCreate(r, y, n, d)
         \/ Rollback(r)
  PROVE  DatesKnown'
<1>1. ASSUME NEW last, BeginRecompute(r, last) PROVE DatesKnown'
  <2> DEFINE row == [t \in Type |-> RowToUpdate(t, last)]
             new == [kind |-> "recompute", items |-> StatutorySet, row |-> row,
                     seen |-> [t \in Type |-> IF row[t] = 0 THEN Null
                                                            ELSE board[t][row[t]].date],
                     clean |-> TRUE]
  <2>1. req' = [req EXCEPT ![r] = new] /\ UNCHANGED <<facts, years>>
    BY <1>1 DEF BeginRecompute
  <2>2. new.kind = "recompute"
    OBVIOUS
  <2> HIDE DEF new
  <2>3. QED
    BY <2>1, <2>2, DatesEntry
<1>2. ASSUME NEW y, NEW n, NEW d \in Disposals, BeginCreate(r, y, n, d) PROVE DatesKnown'
  <2> DEFINE row == TaxYearRow(y, n, d)
             new == [kind |-> "create", new |-> row, clean |-> TRUE]
  <2>1. req' = [req EXCEPT ![r] = new] /\ UNCHANGED <<facts, years>>
    BY <1>2 DEF BeginCreate
  <2>2. row.disposals \in Disposals
    BY NewYearDisposals
  <2> HIDE DEF row
  <2>3. new.new.disposals \in Disposals
    BY <2>2
  <2> HIDE DEF new
  <2>4. QED
    BY <2>1, <2>3, DatesEntry
<1>3. CASE Rollback(r)
  <2>1. Idle.kind \notin {"create", "patch"}
    BY IdleRequest
  <2>2. req' = [req EXCEPT ![r] = Idle] /\ UNCHANGED <<facts, years>>
    BY <1>3 DEF Rollback
  <2>3. QED
    BY <2>1, <2>2, DatesEntry
<1>4. QED
  BY <1>1, <1>2, <1>3

LEMMA DatesBeginPatch ==
  ASSUME DatesKnown, Loaded, NEW r \in Request, NEW i \in DOMAIN years, NEW body,
         "disposals" \in DOMAIN body => body.disposals \in Disposals,
         BeginPatch(r, i, body)
  PROVE  DatesKnown'
<1> DEFINE old == [c \in DOMAIN years[i] |-> IF c \in DOMAIN body THEN body[c] ELSE years[i][c]]
           row == Derived(old)
           new == [kind |-> "patch", at |-> i, seen |-> years[i], new |-> row, clean |-> TRUE]
<1>1. req' = [req EXCEPT ![r] = new] /\ UNCHANGED <<facts, years>>
  BY DEF BeginPatch
<1>2. DOMAIN years[i] = YearColumns /\ years[i].disposals \in Disposals
  BY DEF Loaded, YearsDerived, DatesKnown
<1>3. DOMAIN old = YearColumns /\ old.disposals \in Disposals
  BY <1>2 DEF YearColumns, Columns
<1> HIDE DEF old
<1>4. row.disposals \in Disposals
  BY <1>3, DerivedDisposals
<1> HIDE DEF row
<1>5. new.new.disposals \in Disposals
  BY <1>4
<1> HIDE DEF new
<1>6. QED
  BY <1>1, <1>5, DatesEntry

LEMMA DatesCommitCreate ==
  ASSUME DatesKnown, Loaded, NEW r \in Request, CommitCreate(r)
  PROVE  DatesKnown'
<1> DEFINE q == req[r]
           new == [q.new EXCEPT !.own = q.clean]
           end == Len(years) + 1
<1>1. /\ q.kind = "create" /\ UNCHANGED facts
      /\ years' = Append(years, new) /\ Finish(r, {"recompute", "create"})
  BY DEF CommitCreate
<1>2. NoneFresher
  BY <1>1, FinishedStaysFilled DEF Loaded
<1>3. DOMAIN q.new = YearColumns /\ q.new.disposals \in Disposals
  BY <1>1 DEF Loaded, CreateLoaded, DatesKnown
<1>4. new.disposals \in Disposals
  BY <1>3
<1> HIDE DEF new, q
<1>5. /\ DOMAIN years' = DOMAIN years \cup {end}
      /\ years'[end] = new /\ \A i \in DOMAIN years : years'[i] = years[i]
  BY <1>1, Appended DEF Loaded, YearsDerived
<1> HIDE DEF end
<1>6. \A i \in DOMAIN years' : years'[i].disposals \in Disposals
  BY <1>4, <1>5 DEF DatesKnown
<1>7. QED
  BY <1>1, <1>2, <1>6, DatesKept DEF facts, DatesKnown

LEMMA DatesCommitPatch ==
  ASSUME DatesKnown, Loaded, NEW r \in Request, CommitPatch(r)
  PROVE  DatesKnown'
<1> DEFINE q == req[r]
           row == years[q.at]
           new == [c \in DOMAIN row |->
                  CASE c \in {"year", "income", "disposals", "cgt", "isaEnd", "complex"} ->
                         IF q.new[c] # q.seen[c] THEN q.new[c] ELSE row[c]
                    [] c = "own" -> row.own /\ q.new.year = q.seen.year
                    [] c = "exact" -> q.clean
                    [] c \in {"dod", "net"} -> q.new[c]
                    [] OTHER -> row[c]]
<1>1. q.kind = "patch" /\ UNCHANGED facts /\ Finish(r, {"recompute", "create", "patch"})
  BY DEF CommitPatch
<1>2. years' = [years EXCEPT ![q.at] = new]
  BY DEF CommitPatch
<1>3. NoneFresher
  BY <1>1, FinishedStaysFilled DEF Loaded
<1>4. q.at \in DOMAIN years /\ q.new.disposals \in Disposals
  BY <1>1 DEF Loaded, PatchLoaded, DatesKnown
<1>5. IsSeq(years) /\ DOMAIN row = YearColumns /\ row.disposals \in Disposals
  BY <1>4 DEF Loaded, YearsDerived, DatesKnown
<1> HIDE DEF q, row
<1>6. new.disposals = IF q.new["disposals"] # q.seen["disposals"] THEN q.new["disposals"]
                      ELSE row["disposals"]
  BY <1>5 DEF Columns, YearColumns
<1>7. new.disposals \in Disposals
  BY <1>4, <1>5, <1>6
<1> HIDE DEF new
<1>8. /\ DOMAIN years' = DOMAIN years
      /\ \A i \in DOMAIN years : years'[i] = IF i = q.at THEN new ELSE years[i]
  BY <1>2, <1>5, Replaced
<1>9. \A i \in DOMAIN years' : years'[i].disposals \in Disposals
  BY <1>7, <1>8 DEF DatesKnown
<1>10. QED
  BY <1>1, <1>3, <1>9, DatesKept DEF facts, DatesKnown

LEMMA DatesArchive ==
  ASSUME DatesKnown, Loaded, NEW k \in DOMAIN years, ArchiveYear(k)
  PROVE  DatesKnown'
<1> DEFINE new == [years[k] EXCEPT !.live = FALSE]
<1>1. /\ req' = Spoiled({"recompute"}) /\ UNCHANGED facts
      /\ years' = [years EXCEPT ![k] = new]
  BY DEF ArchiveYear
<1>2. NoneFresher
  BY <1>1, SpoiledStaysFilled DEF Loaded
<1>3. IsSeq(years) /\ DOMAIN years[k] = YearColumns /\ years[k].disposals \in Disposals
  BY DEF Loaded, YearsDerived, DatesKnown
<1>4. new.disposals \in Disposals
  BY <1>3
<1> HIDE DEF new
<1>5. /\ DOMAIN years' = DOMAIN years
      /\ \A i \in DOMAIN years : years'[i] = IF i = k THEN new ELSE years[i]
  BY <1>1, <1>3, Replaced
<1>6. \A i \in DOMAIN years' : years'[i].disposals \in Disposals
  BY <1>4, <1>5 DEF DatesKnown
<1>7. QED
  BY <1>1, <1>2, <1>6, DatesKept DEF facts, DatesKnown

LEMMA DatesStep ==
  ASSUME DatesKnown, Loaded, [Next]_vars
  PROVE  DatesKnown'
<1>1. ASSUME UNCHANGED <<facts, years, req>> PROVE DatesKnown'
  BY <1>1 DEF facts, DatesKnown
<1>2. CASE Quiet \/ UNCHANGED vars
  BY <1>1, <1>2 DEF Quiet, vars
<1>3. ASSUME NEW kinds, req' = Spoiled(kinds), UNCHANGED years,
             estate'.dod \in DeathDate \cup {Null}, published' \subseteq PublishDate
      PROVE  DatesKnown'
  <2>1. NoneFresher
    BY <1>3, SpoiledStaysFilled DEF Loaded
  <2>2. QED
    BY <1>3, <2>1, DatesKept DEF DatesKnown
<1>4. ASSUME NEW dod \in DeathDate \cup {Null}, NEW net, UpdateEstate(dod, net)
      PROVE  DatesKnown'
  <2>1. estate'.dod \in DeathDate \cup {Null} /\ published' \subseteq PublishDate
    BY <1>4 DEF UpdateEstate, DatesKnown
  <2>2. QED
    BY <1>3, <1>4, <2>1 DEF UpdateEstate
<1>5. ASSUME NEW dates \in SUBSET PublishDate, UpdateNotices(dates)
      PROVE  DatesKnown'
  BY <1>3, <1>5 DEF UpdateNotices, DatesKnown
<1>6. CASE UpdateAssets
  BY <1>3, <1>6 DEF UpdateAssets, DatesKnown
<1>7. ASSUME NEW i \in DOMAIN years, ArchiveYear(i) PROVE DatesKnown'
  BY <1>7, DatesArchive
<1>8. ASSUME NEW r \in Request, CommitRecompute(r) PROVE DatesKnown'
  <2>1. NoneFresher /\ UNCHANGED <<facts, years>>
    BY <1>8, FinishedStaysFilled DEF Loaded, CommitRecompute
  <2>2. QED
    BY <2>1, DatesKept DEF facts, DatesKnown
<1>9. ASSUME NEW r \in Request,
             \/ \E last : BeginRecompute(r, last)
             \/ \E y, n : \E d \in Disposals : BeginCreate(r, y, n, d)
             \/ Rollback(r)
      PROVE  DatesKnown'
  BY <1>9, DatesBegin
<1>10. ASSUME NEW r \in Request, CommitCreate(r) PROVE DatesKnown'
  BY <1>10, DatesCommitCreate
<1>11. ASSUME NEW r \in Request, NEW i \in DOMAIN years, NEW body,
              "disposals" \in DOMAIN body => body.disposals \in Disposals,
              BeginPatch(r, i, body)
       PROVE  DatesKnown'
  BY <1>11, DatesBeginPatch
<1>12. ASSUME NEW r \in Request, CommitPatch(r) PROVE DatesKnown'
  BY <1>12, DatesCommitPatch
<1>13. ASSUME NEW r \in Request, NEW i \in DOMAIN years,
              \/ \E y \in TaxYear : BeginPatch(r, i, [year |-> y])
              \/ \E n \in Income : BeginPatch(r, i, [income |-> n])
              \/ \E d \in Disposals : BeginPatch(r, i, [disposals |-> d])
       PROVE  DatesKnown'
  <2>1. ASSUME NEW y PROVE "disposals" \notin DOMAIN [year |-> y]
    OBVIOUS
  <2>2. ASSUME NEW n PROVE "disposals" \notin DOMAIN [income |-> n]
    OBVIOUS
  <2>3. ASSUME NEW d \in Disposals PROVE [disposals |-> d].disposals \in Disposals
    OBVIOUS
  <2>4. QED
    BY <1>11, <1>13, <2>1, <2>2, <2>3
<1>14. QED
  BY <1>2, <1>4, <1>5, <1>6, <1>7, <1>8, <1>9, <1>10, <1>12, <1>13 DEF Next

LEMMA WindowsKept ==
  ASSUME DatesKnown
  PROVE  StatutoryWindows
<1>1. ASSUME estate.dod # Null
      PROVE  LET due == IhtPaymentDue(estate.dod) IN
             /\ Ordinal(due) = EndOfMonthAfter(estate.dod, 6)
             /\ Ordinal(Iht400FilingDue(estate.dod)) = EndOfMonthAfter(due, 6)
             /\ \A k \in 1 .. 10 :
                  InstalmentDue(estate.dod, k) \div 100 = InMonth(due, 12 * (k - 1), 1) \div 100
  <2>1. IsDate(estate.dod)
    BY <1>1, DeadlineAssumption DEF DatesKnown, IsRecorded
  <2>2. QED
    BY <2>1, DuesAreMonthEnds, InstalmentsAreYearly
<1>2. ASSUME NEW c \in S27Claim(published), NEW n \in published
      PROVE  IsDate(c[2]) /\ c[2] >= TwoMonthsAfter(n)
  <2>1. \A m \in published : IsRecorded(m)
    BY DeadlineAssumption DEF DatesKnown
  <2> DEFINE last == LastOf(published)
  <2>2. last \in published /\ n <= last
    BY <2>1, LastIsThere
  <2>3. c[2] = GazetteClaimDeadline(last)
    BY <1>2 DEF S27Claim
  <2> HIDE DEF last
  <2>4. QED
    BY <2>1, <2>2, <2>3, ClaimsHaveTwoMonths DEF IsRecorded
<1>3. ASSUME NEW i \in DOMAIN years, NEW c \in CgtDeadlines(years[i].disposals)
      PROVE  IsDate(c[2]) /\ Ordinal(c[2]) - Ordinal(c[1]) = 60
  <2>1. PICK s \in Disposals : s = years[i].disposals
    BY DEF DatesKnown
  <2>2. PICK k \in DOMAIN s :
          LET d == StoredField(s[k], "disposal_date") IN
          d # Null /\ c = <<d, Cgt60DayDeadline(d)>>
    BY <1>3, <2>1 DEF CgtDeadlines
  <2> DEFINE d == StoredField(s[k], "disposal_date")
  <2>3. IsDate(d) /\ c[1] = d /\ c[2] = AddDays(d, 60)
    BY <2>2, DeadlineAssumption DEF IsRecorded, Cgt60DayDeadline
  <2> HIDE DEF d
  <2>4. 60 \in 0 .. 60
    OBVIOUS
  <2>5. IsDate(c[2]) /\ Ordinal(c[2]) = Ordinal(c[1]) + 60
    BY <2>3, <2>4, DaysLater
  <2>6. Ordinal(c[1]) \in Int
    <3>1. /\ MonthsOf(d) \in Nat /\ MonthsOf(d) >= 12 /\ DayOf(d) \in 0 .. 99
          /\ d = InMonthOf(MonthsOf(d), DayOf(d))
      <4>1. Length(MonthsOf(d)) \in 28 .. 31 /\ DayOf(d) \in 1 .. Length(MonthsOf(d))
        BY <2>3, DateParts
      <4>2. QED
        BY <2>3, <4>1, DateParts
    <3>2. Ordinal(d) = First(MonthsOf(d)) + DayOf(d) /\ First(MonthsOf(d)) \in Int
      BY <3>1, OrdinalOf, NextMonth
    <3>3. QED
      BY <2>3, <3>1, <3>2
  <2>7. QED
    BY <2>5, <2>6
<1>4. QED
  BY <1>1, <1>2, <1>3 DEF StatutoryWindows

\* Every date of the board is a date of the calendar and has the length its statute gives
\* it, for any date of death, notices and disposals the calendar has (deadlines.py).
THEOREM DatesAreStatutory == Spec => []StatutoryWindows
<1>1. Init => Loaded /\ DatesKnown
  BY LoadedInit, DatesInit
<1>2. Loaded /\ DatesKnown /\ [Next]_vars => (Loaded /\ DatesKnown)'
  BY LoadedStep, DatesStep
<1>3. Loaded /\ DatesKnown => StatutoryWindows
  BY WindowsKept
<1>4. QED
  BY <1>1, <1>2, <1>3, PTL DEF Spec
=============================================================================
