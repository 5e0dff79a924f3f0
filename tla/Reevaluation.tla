---------------------------- MODULE Reevaluation ----------------------------
(***************************************************************************)
(* The inheritance tax position of the estate: the figures it is computed  *)
(* from, its latest snapshot, and the alerts about it                      *)
(* (services/reevaluation.py, api/estate.py, api/iht.py).  A change of the *)
(* settings recomputes the position in its own transaction and alerts the  *)
(* other executors when it moved materially; a recompute asked for by hand *)
(* snapshots it and alerts nobody; a change of the registers does neither. *)
(*                                                                         *)
(* Requests overlap.  A request works on the settings as it loaded them,   *)
(* apart from its own change; it compares with the snapshot that was       *)
(* latest before it read the registers; a snapshot is dated when it is     *)
(* made and seen when its request commits.                                 *)
(***************************************************************************)
EXTENDS IhtEngine

CONSTANTS
  Executor,         \* the users of the write roles
  Request,
  Register,         \* states of the registers: [gross, deductions, accepted, categories]
  InitialSettings,  \* the seeded estate row
  Edit,             \* [field, value] changes that PUT /estate may send
  MaterialChange,   \* MATERIAL_SINGLE_CHANGE_GBP
  None,
  MaxSnapshots      \* bound: snapshots made in a behaviour

Settings == [tnrb : Percent, trnrb : Percent, residence : Fact, charity : Percent,
             claims : BOOLEAN \cup {Unknown}, gifts : Fact, trusts : Fact,
             foreign : Fact, reservation : BOOLEAN \cup {Unknown}]

\* What EstateSettingsUpdate accepts.
EditAllowed(c) ==
  \/ c.field \in {"tnrb", "trnrb", "charity"} /\ c.value \in Percent
  \/ c.field \in {"residence", "gifts", "trusts", "foreign"} /\ c.value \in Fact
  \/ c.field \in {"claims", "reservation"} /\ c.value \in BOOLEAN \cup {Unknown}

Snapshot == [at : 1..MaxSnapshots, input : EstateInput]

\* Liabilities and costs may have negative amounts, so deductions may be of either sign;
\* an asset of a negative value, or a share over 1, is one AccountAsset does not accept.
ASSUME PositionAssumption ==
  /\ Register \subseteq [gross : Nat, deductions : Int, accepted : BOOLEAN,
                         categories : SUBSET Category]
  /\ InitialSettings \in Settings
  /\ None \notin Snapshot /\ None \notin Edit
  /\ \A c \in Edit : EditAllowed(c)
  /\ MaterialChange \in Nat /\ MaxSnapshots \in Nat

VARIABLES
  register,   \* the committed assets, liabilities and costs
  settings,   \* the committed estate row
  latest,     \* the snapshot with the latest date, None before the first
  clock,      \* dates of the snapshots made so far
  req,        \* the requests in flight
  told,       \* what each executor believes: the flags, as the alerts reported them
  stale,      \* history: why the latest snapshot may not be what the rows give
  untold      \* history: flags that moved where no alert could report it

vars == <<register, settings, latest, clock, req, told, stale, untold>>

Idle == [phase |-> "idle", user |-> None, edit |-> None, seen |-> InitialSettings,
         previous |-> None, row |-> None, missed |-> {}, sent |-> FALSE]

-----------------------------------------------------------------------------
(* assemble_estate_input *)

\* Faulty variant: the deductions are not stopped at zero.
NetUnclamped(r) == r.gross - r.deductions

Net(r) == FloorZero(r.gross - r.deductions)

EngineInput(s, r) ==
  [net |-> Net(r), gross |-> r.gross, tnrb |-> s.tnrb, trnrb |-> s.trnrb,
   residence |-> OrZero(s.residence), downsizing |-> 0, exempt |-> 0,
   charity |-> s.charity, claims |-> s.claims, gifts |-> s.gifts, trusts |-> s.trusts,
   trustCount |-> Unknown, foreign |-> s.foreign, reservation |-> s.reservation,
   categories |-> r.categories]

-----------------------------------------------------------------------------
(* _material_reasons *)

Flag == {"taxed", "tapered", "excepted", "capped"}

\* The four thresholds an assessment is on one side or the other of.
Flags(e) == {f \in Flag :
     \/ f = "taxed" /\ Tax(e) > 0
     \/ f = "tapered" /\ e.net > TaperThreshold
     \/ f = "excepted" /\ IsExcepted(e)
     \/ f = "capped" /\ Rnrb(e) < QualifyingResidence(e)}

Differing(S, T) == (S \ T) \cup (T \ S)

\* The flags on which two assessments differ.
Crossed(e, f) == Differing(Flags(e), Flags(f))

Apart(a, b) == a - b > MaterialChange \/ b - a > MaterialChange

\* _COMPARED_INPUT_FIELDS
BigChange(e, f) ==
  \/ Apart(e.net, f.net) \/ Apart(e.gross, f.gross)
  \/ Apart(e.residence, f.residence) \/ Apart(e.exempt, f.exempt)
  \/ Apart(e.downsizing, f.downsizing) \/ Apart(OrZero(e.gifts), OrZero(f.gifts))
  \/ Apart(OrZero(e.trusts), OrZero(f.trusts)) \/ Apart(OrZero(e.foreign), OrZero(f.foreign))

\* Faulty variant: only a big change of a figure counts.
MaterialBySize(previous, row) == previous # None /\ BigChange(previous.input, row.input)

Material(previous, row) ==
  /\ previous # None
  /\ \/ Crossed(previous.input, row.input) # {}
     \/ BigChange(previous.input, row.input)

\* _alert_recipients
Recipients(u) == Executor \ {u}

-----------------------------------------------------------------------------
Init ==
  /\ register \in Register
  /\ settings = InitialSettings
  /\ latest = None
  /\ clock = 0
  /\ req = [r \in Request |-> Idle]
  /\ told = [u \in Executor |-> {}]
  /\ stale = {}
  /\ untold = {}

\* What request q misses when somebody else commits: nothing before it has read it.
Missing(q, cause) ==
  IF \/ q.phase = "idle"
     \/ cause = "register" /\ q.phase # "assembled"
  THEN q ELSE [q EXCEPT !.missed = @ \cup {cause}]

\* The routers of assets, liabilities and costs commit without a recompute.
WriteRegister(new) ==
  /\ new # register
  /\ register' = new
  /\ stale' = stale \cup {"register"}
  /\ req' = [q \in Request |-> Missing(req[q], "register")]
  /\ UNCHANGED <<settings, latest, clock, told, untold>>

\* PUT /estate loads the estate row.
LoadEdit(r, u, e) ==
  /\ req[r].phase = "idle"
  /\ req' = [req EXCEPT ![r] = [Idle EXCEPT !.phase = "loaded", !.user = u, !.edit = e,
                                            !.seen = settings]]
  /\ UNCHANGED <<register, settings, latest, clock, told, stale, untold>>

\* POST /iht/recompute loads it too, and has nothing to flush.
LoadRecompute(r) ==
  /\ req[r].phase = "idle"
  /\ req' = [req EXCEPT ![r] = [Idle EXCEPT !.phase = "flushed", !.seen = settings]]
  /\ UNCHANGED <<register, settings, latest, clock, told, stale, untold>>

\* An edit that changes what was loaded is sent, and locks the row until the commit.
Changes(q) == q.seen[q.edit.field] # q.edit.value
Locked(r) == \E q \in Request \ {r} : req[q].sent

\* Faulty variant: the position is recomputed from the row as it was loaded.
EditedLate(q) == q.seen

\* The estate row as the request has it after its own edit.
Edited(q) == [q.seen EXCEPT ![q.edit.field] = q.edit.value]

\* update_estate flushes its edit, and reevaluate reads the latest snapshot.
Flush(r) ==
  /\ req[r].phase = "loaded"
  /\ Changes(req[r]) => ~Locked(r)
  /\ req' = [req EXCEPT ![r].phase = "flushed", ![r].sent = Changes(req[r]),
                        ![r].seen = Edited(req[r]), ![r].previous = latest]
  /\ UNCHANGED <<register, settings, latest, clock, told, stale, untold>>

\* run_recompute reads the registers and makes the snapshot; the row the request
\* loaded is not looked at again.  With an asset it does not accept, it can only fail.
Assemble(r) ==
  /\ req[r].phase = "flushed"
  /\ register.accepted
  /\ clock < MaxSnapshots
  /\ clock' = clock + 1
  /\ req' = [req EXCEPT ![r].phase = "assembled", ![r].seen = InitialSettings,
       ![r].row = [at |-> clock + 1, input |-> EngineInput(req[r].seen, register)]]
  /\ UNCHANGED <<register, settings, latest, told, stale, untold>>

\* What the executors in S believe after an alert about row.
Alerted(S, previous, row) ==
  [u \in Executor |->
     IF u \in S
     THEN (told[u] \ Crossed(previous.input, row.input))
            \cup (Flags(row.input) \cap Crossed(previous.input, row.input))
     ELSE told[u]]

\* The snapshot becomes visible; it is the latest one unless a younger one already is.
Publish(row) ==
  latest' = IF latest = None THEN row ELSE IF row.at > latest.at THEN row ELSE latest

(***************************************************************************)
(* The commit of PUT /estate: edit, snapshot and alerts become visible     *)
(* together.  The first snapshot alerts nobody and is what everybody       *)
(* starts from.                                                            *)
(***************************************************************************)
CommitEdit(r) ==
  LET q == req[r] IN
  /\ q.phase = "assembled" /\ q.edit # None
  /\ settings' = IF q.sent THEN [settings EXCEPT ![q.edit.field] = q.edit.value] ELSE settings
  /\ Publish(q.row)
  /\ told' = IF Material(q.previous, q.row)
             THEN Alerted(Recipients(q.user) \cup {q.user}, q.previous, q.row)
             ELSE IF latest = None THEN [u \in Executor |-> Flags(q.row.input)] ELSE told
  /\ untold' =
       IF latest = None THEN {}
       ELSE IF q.previous = latest /\ latest' = q.row
            THEN untold \ Crossed(latest.input, q.row.input)
            ELSE untold \cup Crossed(latest.input, q.row.input)
                   \cup (IF q.previous = None THEN {}
                         ELSE Crossed(q.previous.input, q.row.input))
  /\ stale' = IF latest' = q.row THEN q.missed
              ELSE IF settings' # settings THEN stale \cup {"overlap"} ELSE stale
  /\ req' = [p \in Request |->
       IF p = r THEN Idle
       ELSE IF settings' # settings THEN Missing(req[p], "overlap") ELSE req[p]]
  /\ UNCHANGED <<register, clock>>

\* The commit of POST /iht/recompute: a snapshot and no alert.
CommitRecompute(r) ==
  LET q == req[r] IN
  /\ q.phase = "assembled" /\ q.edit = None
  /\ Publish(q.row)
  /\ told' = IF latest = None THEN [u \in Executor |-> Flags(q.row.input)] ELSE told
  /\ untold' = IF latest = None \/ latest' # q.row THEN untold
               ELSE untold \cup Crossed(latest.input, q.row.input)
  /\ stale' = IF latest' = q.row THEN q.missed ELSE stale
  /\ req' = [req EXCEPT ![r] = Idle]
  /\ UNCHANGED <<register, settings, clock>>

\* The request fails or its client goes away: the transaction is rolled back.
Rollback(r) ==
  /\ req[r].phase # "idle"
  /\ req' = [req EXCEPT ![r] = Idle]
  /\ UNCHANGED <<register, settings, latest, clock, told, stale, untold>>

Next ==
  \/ \E new \in Register : WriteRegister(new)
  \/ \E r \in Request :
       \/ \E u \in Executor, e \in Edit : LoadEdit(r, u, e)
       \/ LoadRecompute(r)
       \/ Flush(r)
       \/ Assemble(r)
       \/ CommitEdit(r)
       \/ CommitRecompute(r)
       \/ Rollback(r)

Spec == Init /\ [][Next]_vars

-----------------------------------------------------------------------------
(* Correctness.                                                            *)

RequestRow ==
  [phase : {"idle", "loaded", "flushed", "assembled"}, user : Executor \cup {None},
   edit : Edit \cup {None}, seen : Settings, previous : Snapshot \cup {None},
   row : Snapshot \cup {None}, missed : SUBSET {"register", "overlap"},
   sent : BOOLEAN]

\* Rows, snapshots and requests hold values of their kinds; the engine is only ever
\* given figures it accepts.
TypeOK ==
  /\ register \in Register
  /\ settings \in Settings
  /\ latest \in Snapshot \cup {None}
  /\ clock \in 0..MaxSnapshots
  /\ req \in [Request -> RequestRow]
  /\ told \in [Executor -> SUBSET Flag]
  /\ stale \subseteq {"register", "overlap"}
  /\ untold \subseteq Flag

\* The latest snapshot is the position the rows give, unless a register was written
\* after it or a change of the settings overlapped the request that made it: no order of
\* edits, recomputes and failures leaves an older position latest (reevaluate).
LatestIsCurrent ==
  latest # None /\ stale = {} => latest.input = EngineInput(settings, register)

\* Every executor, the one who made the change or any other, believes of every threshold
\* what the latest snapshot says, unless the threshold was crossed by a recompute or by
\* an edit that overlapped another commit and no alert has reported it since.
EverybodyTold ==
  latest # None =>
    \A u \in Executor : Differing(told[u], Flags(latest.input)) \subseteq untold

\* The latest assessment is one whose route and tax agree, whatever the registers held: an
\* excepted estate owes tax on negative deductions at most, and nil tax by the residence
\* band alone still means a full account.
LatestRouteAgrees == latest # None => RouteAgrees(latest.input)
=============================================================================
