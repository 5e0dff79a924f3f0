--------------------------- MODULE EstateAccounts ---------------------------
(***************************************************************************)
(* The estate accounts (app/domain/estate_accounts.py, GET /estate/accounts*)
(* and /estate/summary), the legacies and the payments recorded against    *)
(* them (app/api/beneficiaries.py), and the assessment whose tax the       *)
(* accounts take (app/services/reevaluation.py).                           *)
(*                                                                         *)
(* Amounts are pence.  A share is a number of Whole-ths: shares of an      *)
(* asset, and residuary legacies, whose amount_or_share is a fraction.     *)
(* Products of the two are counted in Whole-ths of a penny and rounded     *)
(* where the code rounds.                                                  *)
(***************************************************************************)
EXTENDS Integers, Sequences, FiniteSets, Functions

CONSTANTS
  Registers,   \* contents of the asset, liability and cost registers
  Tax,         \* what the engine may find due
  Contact,     \* beneficiaries
  Legacy,      \* ids of legacies
  Terms,       \* type and amount_or_share of legacies
  Will,        \* the legacies on file at the start
  Payment,     \* amounts of distributions
  Whole,       \* the scale of a share
  Tolerance,   \* _SHARE_TOLERANCE, in Whole-ths
  Null,        \* an empty column
  Request,     \* requests that may overlap
  MaxWrites    \* bound: requests in a behaviour

VARIABLES
  reg,      \* the registers
  assessment,  \* the latest snapshot: its tax and required schedules, Null before any
  legacy,   \* the legacy rows
  paid,     \* the distributions recorded against each legacy, summed
  req,      \* the requests in flight
  writes    \* how many requests there have been

accountVars == <<reg, assessment, legacy, paid>>

NoLegacy == [state |-> "absent"]
LegacyColumns == {"state", "contact", "type", "amount", "total", "settled"}

MainForm == "IHT400"

ASSUME AccountsAssumption ==
  /\ Whole \in Nat \ {0} /\ Tolerance \in Nat
  /\ Payment \subseteq Nat /\ MaxWrites \in Nat
  \* Nothing is archived at the start.
  /\ \A w \in Will : DOMAIN w = Legacy /\ \A l \in Legacy :
       \/ w[l] = NoLegacy
       \/ /\ DOMAIN w[l] = LegacyColumns
          /\ w[l].state = "live" /\ w[l].total = 0 /\ w[l].settled = FALSE
          /\ w[l].amount \in Int \cup {Null}
  /\ IsFiniteSet(Legacy) /\ Tax \subseteq Int
  /\ \A t \in Terms : t.amount \in Int \cup {Null}
  /\ \A g \in Registers :
       /\ IsFiniteSet(g.assets) /\ IsFiniteSet(g.liabilities) /\ IsFiniteSet(g.costs)
       /\ \A a \in g.assets :
            /\ a.value \in Int /\ a.share \in Int \cup {Null} /\ a.income \in Int
            \* CATEGORY_SCHEDULE_MAP gives schedules, never the account they belong to.
            /\ a.schedule # MainForm
       /\ \A x \in g.liabilities \cup g.costs : x.amount \in Int

\* The sum of f over S.
SumOf(f, S) == SumFunctionOnSet(f, S)

\* _money of n Whole-ths of a penny: ROUND_HALF_UP, away from zero.
Pence(n) ==
  IF n >= 0 THEN (2 * n + Whole) \div (2 * Whole) ELSE -((Whole - 2 * n) \div (2 * Whole))

-----------------------------------------------------------------------------
(* The estate.                                                             *)

\* AccountAsset.estate_share and load_account_assets: what passes outside the estate is
\* left out, a joint tenancy counts nothing, a share that is not recorded is the whole.
EstateShare(a) ==
  IF a.outside THEN 0
  ELSE CASE a.ownership = "sole" -> a.value * Whole
         [] a.ownership = "tenants_in_common" ->
              a.value * (IF a.share = Null THEN Whole ELSE a.share)
         [] OTHER -> 0

\* sum_costs_by_treatment, and the deductible liabilities.
CostsOf(treatment) == SumOf([c \in reg.costs |-> c.amount], {c \in reg.costs : c.treatment = treatment})
Deductible == 
  SumOf([l \in reg.liabilities |-> l.amount], {l \in reg.liabilities : l.deductible})

NetEstate ==
  Pence(SumOf([a \in reg.assets |-> EstateShare(a)], reg.assets) - (Deductible + CostsOf("funeral")) * Whole)

\* Income is not paid on an asset that passes outside the estate.
IncomeAccount ==
  SumOf([a \in reg.assets |-> a.income], {a \in reg.assets : ~a.outside})

TaxDue == IF assessment = Null THEN 0 ELSE assessment.tax

Administration == CostsOf("admin") + TaxDue

\* net_estate of GET /estate/summary, in Whole-ths of a penny: added up in SQL, which
\* has a share expression of its own.
SummaryNet ==
  LET Share(a) == CASE a.ownership = "sole" -> Whole
                    [] a.ownership = "tenants_in_common" /\ a.share # Null -> a.share
                    [] a.ownership = "tenants_in_common" /\ a.share = Null -> Whole
                    [] OTHER -> 0
  IN  SumOf([a \in reg.assets |-> a.value * Share(a)], {a \in reg.assets : ~a.outside})
        - (Deductible + CostsOf("funeral")) * Whole

-----------------------------------------------------------------------------
(* The accounts.                                                           *)

LiveLegacies == {l \in Legacy : legacy[l].state = "live"}
Residuary == {l \in LiveLegacies : legacy[l].type = "residuary"}
Fixed == LiveLegacies \ Residuary

LegaciesTotal ==
  SumOf([l \in Legacy |-> IF legacy[l].amount = Null THEN 0 ELSE legacy[l].amount], Fixed)

Residue == NetEstate + IncomeAccount - Administration - LegaciesTotal

\* The registers may hold amounts of either sign; AccountAsset, AccountLiability, Legacy
\* and EstateAccountsInput accept these.
Accepted ==
  /\ \A a \in reg.assets :
       ~a.outside => a.value >= 0 /\ (a.share = Null \/ a.share \in 0 .. Whole)
  /\ \A x \in reg.liabilities : x.amount >= 0
  /\ \A l \in Fixed : legacy[l].amount = Null \/ legacy[l].amount >= 0
  /\ \A n \in {CostsOf("funeral"), CostsOf("admin"), TaxDue, IncomeAccount} : n >= 0

\* The accounts are drawn up from these registers and legacies; otherwise the answer is an
\* error: a residuary legacy needs a share, at most the whole, and the shares add up to it.
DrawnUp ==
  /\ Accepted
  /\ \A l \in Residuary : legacy[l].amount # Null /\ legacy[l].amount \in 0 .. Whole
  /\ Residuary # {} =>
       LET off == SumOf([l \in Residuary |-> legacy[l].amount], Residuary) - Whole IN
       off <= Tolerance /\ -off <= Tolerance

\* Payments against the residuary legacies of a beneficiary, archived ones included:
\* the query joins the legacy and does not ask whether it is archived.
Interim(c) ==
  SumOf(paid,
        {l \in Legacy : legacy[l].state # "absent" /\ legacy[l].type = "residuary"
                          /\ legacy[l].contact = c})

\* Faulty variant: every share is rounded by itself.
EntitlementRounded(order, i) == Pence(Residue * legacy[order[i]].amount)

\* What the i-th residuary legacy is entitled to: its share of the residue in pence, the
\* last one what the others leave.  The rows come in no particular order.
Entitlement(order, i) ==
  LET residue == Residue
      rounded == [k \in 1 .. Len(order) - 1 |-> Pence(residue * legacy[order[k]].amount)]
  IN
  IF i < Len(order) THEN rounded[i]
  ELSE residue - SumOf(rounded, 1 .. Len(order) - 1)

\* Faulty variant: payments of a beneficiary count against the last legacy only.
RemainingDueLast(order, i) ==
  Entitlement(order, i) - IF i < Len(order) THEN 0 ELSE Interim(legacy[order[i]].contact)

RemainingDue(order, i) == Entitlement(order, i) - Interim(legacy[order[i]].contact)

Orders == Bijection(1 .. Cardinality(Residuary), Residuary)

Idle == [kind |-> "idle"]

Counted == writes < MaxWrites /\ writes' = writes + 1

-----------------------------------------------------------------------------
(* The registers and the assessment.                                       *)

\* Faulty variant: what passes outside the estate needs no schedule.
CodesWithin(assets) ==
  {a.schedule : a \in {b \in assets : ~b.outside}} \ {Null}

\* required_schedules, for the assets: _load_asset_items takes every live asset, and the
\* category alone decides (schedule: what CATEGORY_SCHEDULE_MAP makes of it).
Codes(assets) == {a.schedule : a \in assets} \ {Null}

Snapshot(tax, assets) == [tax |-> tax, codes |-> Codes(assets), assets |-> assets]

AccountsInit ==
  /\ reg \in Registers
  /\ assessment \in {Null} \cup {Snapshot(tax, reg.assets) : tax \in Tax}
  /\ legacy \in Will
  /\ paid = [l \in Legacy |-> 0]

\* Assets, liabilities and costs are recorded and changed; nothing recomputes the tax.
UpdateRegisters(contents) ==
  /\ reg # contents
  /\ Counted
  /\ reg' = contents
  /\ UNCHANGED <<assessment, legacy, paid, req>>

\* run_recompute: a new snapshot of the registers as they are.
Recompute(tax) ==
  /\ Counted
  /\ assessment' = Snapshot(tax, reg.assets)
  /\ UNCHANGED <<reg, legacy, paid, req>>

-----------------------------------------------------------------------------
(* Requests on legacies.                                                   *)

\* POST /beneficiaries: nothing compares the legacy with the others.
CreateLegacy(l, c, terms) ==
  /\ legacy[l].state = "absent"
  /\ Counted
  /\ legacy' = [legacy EXCEPT ![l] =
       [state |-> "live", contact |-> c, type |-> terms.type, amount |-> terms.amount,
        total |-> 0, settled |-> FALSE]]
  /\ UNCHANGED <<reg, assessment, paid, req>>

\* PATCH /beneficiaries/{id}: any column, archived or not.
UpdateLegacy(l, c, terms) ==
  /\ legacy[l].state # "absent"
  /\ Counted
  /\ legacy' = [legacy EXCEPT ![l].contact = c, ![l].type = terms.type,
                              ![l].amount = terms.amount]
  /\ UNCHANGED <<reg, assessment, paid, req>>

\* Faulty variant: archived legacies are paid as well.
PayableAny(l) == legacy[l].state # "absent"

\* record_distribution refuses an archived legacy (409).
Payable(l) == legacy[l].state = "live"

\* Requests that a commit on legacy l overtakes.
Overtaken(l, kind) ==
  [q \in Request |-> IF req[q].kind = kind /\ req[q].at = l
                     THEN [req[q] EXCEPT !.alone = FALSE] ELSE req[q]]

InFlight(l, kind) == {q \in Request : req[q].kind = kind /\ req[q].at = l}

\* POST /beneficiaries/{id}/distributions: the check, and the commit.
BeginPay(r, l, amount) ==
  /\ req[r].kind = "idle"
  /\ Payable(l)
  /\ Counted
  /\ req' = [req EXCEPT ![r] = [kind |-> "pay", at |-> l, amount |-> amount, alone |-> TRUE]]
  /\ UNCHANGED accountVars

CommitPay(r) ==
  /\ req[r].kind = "pay"
  /\ paid' = [paid EXCEPT ![req[r].at] = @ + req[r].amount]
  /\ req' = [Overtaken(req[r].at, "archive") EXCEPT ![r] = Idle]
  /\ UNCHANGED <<reg, assessment, legacy, writes>>

\* DELETE /beneficiaries/{id}: 409 when archived; the audit event holds the total of
\* the distributions when the row is flushed.
BeginArchive(r, l) ==
  /\ req[r].kind = "idle"
  /\ legacy[l].state = "live"
  /\ Counted
  /\ req' = [req EXCEPT ![r] =
       [kind |-> "archive", at |-> l, total |-> paid[l], alone |-> InFlight(l, "archive") = {}]]
  /\ UNCHANGED accountVars

\* settled: neither a payment nor another archive of the legacy overlapped this one.
CommitArchive(r) ==
  LET q == req[r] IN
  /\ q.kind = "archive"
  /\ legacy' = [legacy EXCEPT ![q.at] =
       [@ EXCEPT !.state = "archived", !.total = q.total,
                 !.settled = q.alone /\ InFlight(q.at, "pay") = {}]]
  /\ req' = [Overtaken(q.at, "archive") EXCEPT ![r] = Idle]
  /\ UNCHANGED <<reg, assessment, paid, writes>>

\* The client goes away or a statement fails.
Rollback(r) ==
  /\ req[r].kind # "idle"
  /\ req' = [req EXCEPT ![r] = Idle]
  /\ UNCHANGED <<accountVars, writes>>

AccountsNext ==
  \/ \E contents \in Registers : UpdateRegisters(contents)
  \/ \E tax \in Tax : Recompute(tax)
  \/ \E l \in Legacy, c \in Contact, t \in Terms : CreateLegacy(l, c, t) \/ UpdateLegacy(l, c, t)
  \/ \E r \in Request : \/ Rollback(r)
                        \/ \E l \in Legacy, n \in Payment : BeginPay(r, l, n)
                        \/ CommitPay(r)
                        \/ \E l \in Legacy : BeginArchive(r, l)
                        \/ CommitArchive(r)

-----------------------------------------------------------------------------
(* Correctness.                                                            *)

Abs(n) == IF n < 0 THEN -n ELSE n

\* Drawn up in whatever order the rows come, the entitlements add up to the residue to
\* the penny; each share but the last is within half a penny of its fraction, and the
\* last is off by no more than the rounding of the others and the residue's part that
\* the tolerance on the shares allows, also when the residue is negative; and the
\* dashboard, which adds up in SQL, shows the net estate of the accounts to half a penny
\* (compute_accounts, EstateAccountsInput, estate_summary).
AccountsReconcile ==
  /\ Abs(SummaryNet - NetEstate * Whole) * 2 <= Whole
  /\ DrawnUp => \A order \in Orders :
       LET n == Len(order)
           residue == Residue
           due == [i \in 1 .. n |-> Entitlement(order, i)]
           Gap(i) == Abs(due[i] * Whole - residue * legacy[order[i]].amount)
       IN
       /\ n > 0 => SumOf(due, 1 .. n) = residue
       /\ \A i \in 1 .. n - 1 : Gap(i) * 2 <= Whole
       /\ n > 0 => Gap(n) * 2 <= (n - 1) * Whole + 2 * Abs(residue) * Tolerance

\* What is still due and what was paid against the residuary legacies make up the
\* residue, unless a beneficiary paid in advance holds two of them - each is then charged
\* with all of the payments - or held one that was archived after a payment (the interim
\* query of estate_accounts, keyed by beneficiary and blind to archived_at).
PaymentsCountedOnce ==
  DrawnUp /\ Residuary # {} =>
    \/ \E l \in Residuary : \E k \in Legacy \ {l} :
         /\ legacy[k].state # "absent" /\ legacy[k].type = "residuary"
         /\ legacy[k].contact = legacy[l].contact
         /\ paid[k] # 0 \/ (k \in Residuary /\ paid[l] # 0)
    \/ \A order \in Orders :
         SumOf([i \in 1 .. Len(order) |-> RemainingDue(order, i)], 1 .. Len(order))
           + SumOf(paid, Residuary) = Residue

\* The total of the distributions that the archive of a legacy put on record stays its
\* total, unless a payment was on its way when the legacy was archived: the payment's
\* check of archived_at is older than the archive (record_distribution, archive_legacy).
ArchivedTotalFinal ==
  \A l \in Legacy :
    legacy[l].state = "archived" /\ legacy[l].settled => paid[l] = legacy[l].total
=============================================================================
