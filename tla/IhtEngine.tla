------------------------------ MODULE IhtEngine ------------------------------
(***************************************************************************)
(* The inheritance tax engine (domain/iht_engine.py) under the England and *)
(* Wales rules (domain/jurisdiction/england_wales.py): pure operators of   *)
(* one estate's figures.  Money is in whole pounds, shares are in per cent *)
(* and the tax is in pence, which makes every product exact; the half      *)
(* pound of an odd excess over the taper threshold is dropped.             *)
(***************************************************************************)
EXTENDS Integers

CONSTANTS
  NRB, RNRB, TaperThreshold,       \* the bands and where the residence band tapers
  ExemptLimit, TransfersLimit, TrustLimit, ForeignLimit,  \* excepted estate limits
  CharityThreshold, StandardRate, ReducedRate,
  Unknown                          \* None: a fact nobody has established

ASSUME RulesAssumption ==
  /\ {NRB, RNRB, TaperThreshold, ExemptLimit, TransfersLimit, TrustLimit,
      ForeignLimit, CharityThreshold, StandardRate, ReducedRate} \subseteq Nat
  /\ ReducedRate <= StandardRate
  /\ Unknown \notin Int \cup BOOLEAN

Percent == 0..100
Fact == Nat \cup {Unknown}

Category == {"land_and_buildings", "bank_accounts", "nsandi", "household_goods",
             "gifts", "listed_shares", "unlisted_shares", "other"}

\* The engine's Estate.
EstateInput ==
  [net : Nat, gross : Nat, tnrb : Percent, trnrb : Percent, residence : Nat,
   downsizing : Nat, exempt : Nat, charity : Percent, claims : BOOLEAN \cup {Unknown},
   gifts : Fact, trusts : Fact, trustCount : Fact, foreign : Fact,
   reservation : BOOLEAN \cup {Unknown}, categories : SUBSET Category]

OrZero(v) == IF v = Unknown THEN 0 ELSE v
Lesser(a, b) == IF a <= b THEN a ELSE b
FloorZero(a) == IF a <= 0 THEN 0 ELSE a

\* A band with the share of a predeceased spouse's band added.
Band(value, share) == (value * (100 + share)) \div 100

-----------------------------------------------------------------------------
(* assess *)

Nrb(e) == Band(NRB, e.tnrb)

RnrbMax(e) ==
  LET full == Band(RNRB, e.trnrb) IN
  IF e.net > TaperThreshold THEN FloorZero(full - (e.net - TaperThreshold) \div 2) ELSE full

QualifyingResidence(e) == e.residence + e.downsizing
Rnrb(e) == Lesser(RnrbMax(e), QualifyingResidence(e))
Allowance(e) == Nrb(e) + Rnrb(e)
Taxable(e) == FloorZero(e.net - e.exempt - Allowance(e))
Rate(e) == IF e.charity >= CharityThreshold THEN ReducedRate ELSE StandardRate
Tax(e) == Taxable(e) * Rate(e)

RnrbClaimed(e) == IF e.claims = Unknown THEN e.residence > 0 ELSE e.claims

\* _disqualifiers: any of these, or not knowing, rules an excepted estate out.
Disqualified(e) ==
  \/ RnrbClaimed(e)
  \/ e.reservation # FALSE
  \/ e.foreign = Unknown \/ e.foreign > ForeignLimit
  \/ e.trusts = Unknown \/ e.trusts > TrustLimit
  \/ e.trusts > 0 /\ (e.trustCount = Unknown \/ e.trustCount > 1)
  \/ e.gifts = Unknown \/ e.gifts > TransfersLimit

\* Only a full transferred band counts towards the excepted estate limit.
AvailableNrb(e) == Band(NRB, IF e.tnrb = 100 THEN 100 ELSE 0)

\* Faulty variant: the exempt estate category without its second condition.
WithinLimitsLoose(e) ==
  e.gross + OrZero(e.gifts) <= AvailableNrb(e) \/ e.gross + OrZero(e.gifts) <= ExemptLimit

\* Category 1 (low value) or category 2 (exempt).
WithinLimits(e) ==
  LET total == e.gross + OrZero(e.gifts) IN
  \/ total <= AvailableNrb(e)
  \/ total <= ExemptLimit /\ total - e.exempt <= AvailableNrb(e)

IsExcepted(e) == ~Disqualified(e) /\ WithinLimits(e)

MustFile(e) == RnrbClaimed(e) \/ ~IsExcepted(e)

\* CATEGORY_SCHEDULE_MAP
ScheduleOf(c) ==
  CASE c = "land_and_buildings" -> "IHT405"
    [] c \in {"bank_accounts", "nsandi"} -> "IHT406"
    [] c = "household_goods" -> "IHT407"
    [] c = "gifts" -> "IHT403"
    [] c = "listed_shares" -> "IHT411"
    [] c = "unlisted_shares" -> "IHT412"

RequiredSchedules(e) ==
  {ScheduleOf(c) : c \in e.categories \ {"other"}}
    \cup (IF e.tnrb > 0 THEN {"IHT402"} ELSE {})
    \cup (IF RnrbClaimed(e) THEN {"IHT435"} ELSE {})
    \cup (IF RnrbClaimed(e) /\ e.trnrb > 0 THEN {"IHT436"} ELSE {})
    \cup (IF OrZero(e.gifts) > 0 \/ e.reservation = TRUE THEN {"IHT403"} ELSE {})

-----------------------------------------------------------------------------
(* What an assessment promises.                                            *)

\* What negative deductions add to the net value of an estate beyond its gross value.
Excess(e) == FloorZero(e.net - e.gross)

\* The filing route agrees with the tax: an excepted estate is taxed on nothing but what
\* negative deductions added to its gross value, so on nothing without them, and an
\* estate whose tax is nil only thanks to the residence band must file in full (assess
\* and is_excepted are separate computations, one from the net and one from the gross).
RouteAgrees(e) ==
  /\ IsExcepted(e) => Taxable(e) <= Excess(e)
  /\ e.net - e.exempt - Excess(e) > Nrb(e) => MustFile(e)
=============================================================================
