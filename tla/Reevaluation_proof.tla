------------------------- MODULE Reevaluation_proof -------------------------
(***************************************************************************)
(* Proofs about the tax engine and the re-evaluation of the position, for  *)
(* every value of the bands and limits, every set of executors, requests,  *)
(* edits and registers.                                                    *)
(***************************************************************************)
EXTENDS Reevaluation, TLAPS

-----------------------------------------------------------------------------
(* The engine.                                                             *)

LEMMA BandAtLeast ==
  ASSUME NEW v \in Nat, NEW s \in Percent
  PROVE  Band(v, s) \in Nat /\ Band(v, s) >= v
<1>1. v * s \in Nat
  BY DEF Percent
<1>2. v * (100 + s) = 100 * v + v * s
  BY DEF Percent
<1>3. (100 * v + v * s) \div 100 >= v /\ (100 * v + v * s) \div 100 \in Nat
  BY <1>1
<1>4. QED
  BY <1>2, <1>3 DEF Band

LEMMA PlainBand ==
  ASSUME NEW v \in Nat
  PROVE  Band(v, 0) = v
BY DEF Band

\* The band that counts for an excepted estate is never more than the one the tax uses.
LEMMA AvailableWithinNrb ==
  ASSUME NEW e \in EstateInput
  PROVE  AvailableNrb(e) <= Nrb(e) /\ AvailableNrb(e) \in Nat /\ Nrb(e) \in Nat
<1>1. NRB \in Nat /\ e.tnrb \in Percent /\ 0 \in Percent
  BY RulesAssumption DEF EstateInput, Percent
<1>2. CASE e.tnrb = 100
  BY <1>1, <1>2, BandAtLeast DEF AvailableNrb, Nrb
<1>3. CASE e.tnrb # 100
  <2>1. AvailableNrb(e) = NRB
    BY <1>1, <1>3, PlainBand DEF AvailableNrb
  <2>2. QED
    BY <1>1, <2>1, BandAtLeast DEF Nrb
<1>4. QED
  BY <1>2, <1>3

LEMMA RnrbIsNat ==
  ASSUME NEW e \in EstateInput
  PROVE  Rnrb(e) \in Nat
<1>1. e.net \in Nat /\ e.residence \in Nat /\ e.downsizing \in Nat /\ e.trnrb \in Percent
  BY DEF EstateInput
<1>2. Band(RNRB, e.trnrb) \in Nat /\ TaperThreshold \in Nat
  BY <1>1, RulesAssumption, BandAtLeast
<1> DEFINE full == Band(RNRB, e.trnrb)
<1>3. RnrbMax(e) \in Nat
  <2>1. CASE e.net > TaperThreshold
    <3>1. (e.net - TaperThreshold) \div 2 \in Int
      BY <1>1, <1>2, <2>1
    <3>2. FloorZero(full - (e.net - TaperThreshold) \div 2) \in Nat
      BY <1>2, <3>1 DEF FloorZero
    <3>3. QED
      BY <2>1, <3>2 DEF RnrbMax
  <2>2. CASE ~(e.net > TaperThreshold)
    BY <1>2, <2>2 DEF RnrbMax
  <2>3. QED
    BY <2>1, <2>2
<1>4. QED
  BY <1>1, <1>3 DEF Rnrb, Lesser, QualifyingResidence

\* The filing route agrees with the tax for every estate: an excepted one is taxed on no
\* more than its net value exceeds its gross value by (assess, is_excepted).
THEOREM RouteAlwaysAgrees ==
  ASSUME NEW e \in EstateInput
  PROVE  RouteAgrees(e)
<1>1. e.net \in Nat /\ e.gross \in Nat /\ e.exempt \in Nat /\ e.gifts \in Fact
  BY DEF EstateInput
<1>2. OrZero(e.gifts) \in Nat
  BY <1>1, RulesAssumption DEF Fact, OrZero
<1>3. AvailableNrb(e) <= Nrb(e) /\ AvailableNrb(e) \in Nat /\ Nrb(e) \in Nat
  BY AvailableWithinNrb
<1>4. Rnrb(e) \in Nat
  BY RnrbIsNat
<1>5. Excess(e) \in Nat /\ e.net - e.gross <= Excess(e)
  BY <1>1 DEF Excess, FloorZero
<1>6. IsExcepted(e) => e.net - e.exempt - Excess(e) <= Nrb(e)
  BY <1>1, <1>2, <1>3, <1>5 DEF IsExcepted, WithinLimits
<1>7. ASSUME IsExcepted(e) PROVE Taxable(e) <= Excess(e)
  BY <1>1, <1>3, <1>4, <1>5, <1>6, <1>7 DEF Taxable, Allowance, FloorZero
<1>8. ASSUME e.net - e.exempt - Excess(e) > Nrb(e) PROVE MustFile(e)
  BY <1>1, <1>3, <1>5, <1>6, <1>8 DEF MustFile
<1>9. QED
  BY <1>7, <1>8 DEF RouteAgrees

\* Without negative deductions an excepted estate owes nothing at all (assess).
THEOREM ExceptedOwesNothing ==
  ASSUME NEW e \in EstateInput, e.net <= e.gross, IsExcepted(e)
  PROVE  Tax(e) = 0
<1>1. Excess(e) = 0
  BY DEF Excess, FloorZero, EstateInput
<1>2. e.net \in Nat /\ e.exempt \in Nat /\ Nrb(e) \in Nat /\ Rnrb(e) \in Nat
  BY AvailableWithinNrb, RnrbIsNat DEF EstateInput
<1>3. Taxable(e) \in Nat
  BY <1>2 DEF Taxable, Allowance, FloorZero
<1>4. Taxable(e) <= 0
  BY <1>1, RouteAlwaysAgrees DEF RouteAgrees
<1>5. Rate(e) \in Nat
  BY RulesAssumption DEF Rate
<1>6. Taxable(e) = 0
  BY <1>3, <1>4
<1>7. QED
  BY <1>5, <1>6 DEF Tax

\* A larger transferred share never makes a band smaller.
LEMMA BandGrows ==
  ASSUME NEW v \in Nat, NEW s \in Percent, NEW t \in Percent, s <= t
  PROVE  Band(v, s) <= Band(v, t)
<1>1. v * s \in Nat /\ v * t \in Nat /\ v * (t - s) \in Nat
  BY DEF Percent
<1>2. v * (100 + s) = 100 * v + v * s /\ v * (100 + t) = 100 * v + v * t
  BY DEF Percent
<1>3. v * (t - s) = v * t - v * s
  BY DEF Percent
<1>4. v * s <= v * t
  BY <1>1, <1>3
<1> DEFINE a == 100 * v + v * s
           b == 100 * v + v * t
<1>5. a \in Nat /\ b \in Nat /\ a <= b
  BY <1>1, <1>4
<1> HIDE DEF a, b
<1>6. a \div 100 <= b \div 100
  BY <1>5
<1>7. QED
  BY <1>2, <1>6 DEF Band, a, b

\* The residence band of two estates: it never grows with the net value, and loses at
\* most a pound for every two the net value grows by.
LEMMA RnrbMaxFalls ==
  ASSUME NEW e \in EstateInput, NEW f \in EstateInput,
         e.net <= f.net, f.trnrb <= e.trnrb
  PROVE  /\ RnrbMax(e) \in Nat /\ RnrbMax(f) \in Nat
         /\ RnrbMax(f) <= RnrbMax(e)
         /\ e.trnrb = f.trnrb => 2 * (RnrbMax(e) - RnrbMax(f)) <= f.net - e.net + 1
<1> DEFINE be == Band(RNRB, e.trnrb)
           bf == Band(RNRB, f.trnrb)
           me == e.net
           mf == f.net
           te == (me - TaperThreshold) \div 2
           tf == (mf - TaperThreshold) \div 2
<1>1. /\ me \in Nat /\ mf \in Nat /\ me <= mf /\ e.trnrb \in Percent /\ f.trnrb \in Percent
      /\ TaperThreshold \in Nat /\ RNRB \in Nat
  BY RulesAssumption DEF EstateInput
<1>2. be \in Nat /\ bf \in Nat /\ bf <= be
  BY <1>1, BandAtLeast, BandGrows
<1>3. e.trnrb = f.trnrb => be = bf
  OBVIOUS
<1>4. /\ RnrbMax(e) = IF me > TaperThreshold THEN FloorZero(be - te) ELSE be
      /\ RnrbMax(f) = IF mf > TaperThreshold THEN FloorZero(bf - tf) ELSE bf
  BY DEF RnrbMax
<1>5. me > TaperThreshold => /\ te \in Nat /\ 2 * te <= me - TaperThreshold
                             /\ me - TaperThreshold <= 2 * te + 1
  BY <1>1
<1>6. mf > TaperThreshold => /\ tf \in Nat /\ 2 * tf <= mf - TaperThreshold
                             /\ mf - TaperThreshold <= 2 * tf + 1
  BY <1>1
<1> HIDE DEF be, bf, me, mf, te, tf
<1>7. CASE me > TaperThreshold
  <2>1. mf > TaperThreshold
    BY <1>1, <1>7
  <2>2. te <= tf /\ 2 * (tf - te) <= mf - me + 1
    BY <2>1, <1>1, <1>5, <1>6, <1>7
  <2>3. RnrbMax(e) = FloorZero(be - te) /\ RnrbMax(f) = FloorZero(bf - tf)
    BY <1>4, <1>7, <2>1
  <2>4. RnrbMax(e) \in Nat /\ RnrbMax(f) \in Nat /\ RnrbMax(f) <= RnrbMax(e)
    BY <1>2, <1>5, <1>6, <1>7, <2>1, <2>2, <2>3 DEF FloorZero
  <2>5. be = bf => RnrbMax(e) - RnrbMax(f) <= tf - te
    BY <1>2, <1>5, <1>6, <1>7, <2>1, <2>2, <2>3 DEF FloorZero
  <2>6. be = bf => 2 * (RnrbMax(e) - RnrbMax(f)) <= mf - me + 1
    BY <2>2, <2>4, <2>5, <1>1, <1>5, <1>6, <1>7, <2>1
  <2>7. QED
    BY <2>4, <2>6, <1>3 DEF me, mf
<1>8. CASE ~(me > TaperThreshold) /\ mf > TaperThreshold
  <2>1. RnrbMax(e) = be /\ RnrbMax(f) = FloorZero(bf - tf)
    BY <1>4, <1>8
  <2>2. 2 * tf <= mf - me
    BY <1>1, <1>6, <1>8
  <2>3. RnrbMax(f) \in Nat /\ RnrbMax(f) <= bf /\ bf - RnrbMax(f) <= tf
    BY <1>2, <1>6, <1>8, <2>1 DEF FloorZero
  <2>4. RnrbMax(e) \in Nat /\ RnrbMax(f) <= RnrbMax(e)
    BY <1>2, <2>1, <2>3
  <2>5. be = bf => 2 * (RnrbMax(e) - RnrbMax(f)) <= mf - me + 1
    BY <2>1, <2>2, <2>3, <1>1, <1>2, <1>6, <1>8
  <2>6. QED
    BY <2>3, <2>4, <2>5, <1>3 DEF me, mf
<1>9. CASE ~(mf > TaperThreshold)
  <2>1. RnrbMax(e) = be /\ RnrbMax(f) = bf
    BY <1>1, <1>4, <1>9
  <2>2. QED
    BY <2>1, <1>1, <1>2, <1>3 DEF me, mf
<1>10. QED
  BY <1>7, <1>8, <1>9, <1>1

\* What the tax is computed from.
LEMMA TaxableType ==
  ASSUME NEW e \in EstateInput
  PROVE  Taxable(e) \in Nat /\ Nrb(e) \in Nat /\ Rnrb(e) \in Nat
<1>1. e.net \in Nat /\ e.exempt \in Nat /\ Nrb(e) \in Nat /\ Rnrb(e) \in Nat
  BY AvailableWithinNrb, RnrbIsNat DEF EstateInput
<1>2. QED
  BY <1>1 DEF Taxable, Allowance, FloorZero

LEMMA ProductGrows ==
  ASSUME NEW a \in Nat, NEW b \in Nat, NEW r \in Nat, NEW s \in Nat, a <= b, r <= s
  PROVE  a * r <= b * s
<1>1. (b - a) * r \in Nat /\ b * (s - r) \in Nat
  OBVIOUS
<1>2. a * r \in Nat /\ b * r \in Nat /\ b * s \in Nat
  OBVIOUS
<1>3. (b - a) * r = b * r - a * r /\ b * (s - r) = b * s - b * r
  OBVIOUS
<1>4. QED
  BY <1>1, <1>2, <1>3

\* An estate that is worth more, with no more exempt, no larger transferred bands, no
\* larger home and no larger share for charity, never owes less (assess).  The taper and
\* the change of rate are the places where a formula could turn this round.
THEOREM TaxFollowsTheFigures ==
  ASSUME NEW e \in EstateInput, NEW f \in EstateInput,
         e.net <= f.net, f.exempt <= e.exempt,
         f.tnrb <= e.tnrb, f.trnrb <= e.trnrb,
         f.residence <= e.residence, f.downsizing <= e.downsizing,
         f.charity <= e.charity
  PROVE  Tax(e) <= Tax(f)
<1>1. /\ e.net \in Nat /\ f.net \in Nat /\ e.exempt \in Nat /\ f.exempt \in Nat
      /\ e.tnrb \in Percent /\ f.tnrb \in Percent
      /\ e.residence \in Nat /\ f.residence \in Nat
      /\ e.downsizing \in Nat /\ f.downsizing \in Nat
      /\ e.charity \in 0..100 /\ f.charity \in 0..100
  BY DEF EstateInput, Percent
<1>2. Nrb(f) <= Nrb(e)
  BY <1>1, RulesAssumption, BandGrows DEF Nrb
<1>3. RnrbMax(e) \in Nat /\ RnrbMax(f) \in Nat /\ RnrbMax(f) <= RnrbMax(e)
  BY RnrbMaxFalls
<1>4. Rnrb(f) <= Rnrb(e)
  BY <1>1, <1>3 DEF Rnrb, Lesser, QualifyingResidence
<1>5. /\ Taxable(e) \in Nat /\ Nrb(e) \in Nat /\ Rnrb(e) \in Nat
      /\ Taxable(f) \in Nat /\ Nrb(f) \in Nat /\ Rnrb(f) \in Nat
  BY TaxableType
<1>6. Taxable(e) <= Taxable(f)
  BY <1>1, <1>2, <1>4, <1>5 DEF Taxable, Allowance, FloorZero
<1>7. Rate(e) \in Nat /\ Rate(f) \in Nat /\ Rate(e) <= Rate(f)
  BY <1>1, RulesAssumption DEF Rate
<1>8. QED
  BY <1>5, <1>6, <1>7, ProductGrows DEF Tax

\* The taper is a slope and no cliff: with all else equal, each extra pound of net value
\* makes at most one and a half pounds more taxable (assess), up to the half pound that
\* the figures in whole pounds drop.
THEOREM TaperHasNoCliff ==
  ASSUME NEW e \in EstateInput, NEW f \in EstateInput,
         e.net <= f.net, f.exempt = e.exempt, f.tnrb = e.tnrb, f.trnrb = e.trnrb,
         f.residence = e.residence, f.downsizing = e.downsizing
  PROVE  2 * (Taxable(f) - Taxable(e)) <= 3 * (f.net - e.net) + 1
<1>1. /\ e.net \in Nat /\ f.net \in Nat /\ e.exempt \in Nat /\ f.trnrb <= e.trnrb
      /\ e.residence \in Nat /\ e.downsizing \in Nat
  BY DEF EstateInput, Percent
<1>2. /\ RnrbMax(e) \in Nat /\ RnrbMax(f) \in Nat /\ RnrbMax(f) <= RnrbMax(e)
      /\ 2 * (RnrbMax(e) - RnrbMax(f)) <= f.net - e.net + 1
  BY <1>1, RnrbMaxFalls
<1>3. Rnrb(f) <= Rnrb(e) /\ Rnrb(e) - Rnrb(f) <= RnrbMax(e) - RnrbMax(f)
  BY <1>1, <1>2 DEF Rnrb, Lesser, QualifyingResidence
<1>4. /\ Taxable(e) \in Nat /\ Nrb(e) \in Nat /\ Rnrb(e) \in Nat
      /\ Taxable(f) \in Nat /\ Rnrb(f) \in Nat
  BY TaxableType
<1>5. Nrb(f) = Nrb(e)
  BY DEF Nrb
<1> DEFINE ne == Nrb(e)
           re == Rnrb(e)
           rf == Rnrb(f)
<1>6. /\ Taxable(e) = FloorZero(e.net - e.exempt - (ne + re))
      /\ Taxable(f) = FloorZero(f.net - e.exempt - (ne + rf))
  BY <1>5 DEF Taxable, Allowance
<1>7. 2 * (re - rf) <= f.net - e.net + 1 /\ ne \in Nat /\ re \in Nat /\ rf \in Nat
  BY <1>1, <1>2, <1>3, <1>4
<1> HIDE DEF ne, re, rf
<1>8. Taxable(f) - Taxable(e) <= (f.net - e.net) + (re - rf) \/ Taxable(f) = 0
  BY <1>1, <1>6, <1>7, <1>4 DEF FloorZero
<1>9. QED
  BY <1>1, <1>4, <1>7, <1>8

-----------------------------------------------------------------------------
(* Types.                                                                  *)

LEMMA EngineInputType ==
  ASSUME NEW s \in Settings, NEW g \in Register
  PROVE  EngineInput(s, g) \in EstateInput
<1>1. g.gross \in Nat /\ g.deductions \in Int /\ g.categories \in SUBSET Category
  BY PositionAssumption
<1>2. Net(g) \in Nat
  BY <1>1 DEF Net, FloorZero
<1>3. OrZero(s.residence) \in Nat
  BY RulesAssumption DEF Settings, Fact, OrZero
<1>4. QED
  BY <1>1, <1>2, <1>3 DEF EngineInput, EstateInput, Settings, Fact

LEMMA EditType ==
  ASSUME NEW s \in Settings, NEW c \in Edit
  PROVE  [s EXCEPT ![c.field] = c.value] \in Settings
<1>1. EditAllowed(c)
  BY PositionAssumption
<1>2. CASE c.field \in {"tnrb", "trnrb", "charity"} /\ c.value \in Percent
  BY <1>2 DEF Settings
<1>3. CASE c.field \in {"residence", "gifts", "trusts", "foreign"} /\ c.value \in Fact
  BY <1>3 DEF Settings
<1>4. CASE c.field \in {"claims", "reservation"} /\ c.value \in BOOLEAN \cup {Unknown}
  BY <1>4 DEF Settings
<1>5. QED
  BY <1>1, <1>2, <1>3, <1>4 DEF EditAllowed

LEMMA FlagsType == \A e : Flags(e) \subseteq Flag
BY DEF Flags

-----------------------------------------------------------------------------
(* The inductive invariant: what a request that missed nothing holds is    *)
(* what the rows give.                                                     *)

After(r) ==
  IF req[r].sent THEN [settings EXCEPT ![req[r].edit.field] = req[r].edit.value] ELSE settings

RequestShape ==
  \A r \in Request :
    /\ req[r].phase = "loaded" => req[r].edit # None
    /\ req[r].sent => req[r].edit # None
    /\ req[r].phase = "assembled" => req[r].row # None
    /\ req[r].previous # None => latest # None

UpToDate ==
  \A r \in Request : req[r].missed = {} =>
    /\ req[r].phase = "loaded" => req[r].seen = settings /\ ~req[r].sent
    /\ req[r].phase = "flushed" => req[r].seen = After(r)
    /\ req[r].phase = "assembled" => req[r].row.input = EngineInput(After(r), register)

IInv ==
  /\ TypeOK
  /\ RequestShape
  /\ UpToDate
  /\ LatestIsCurrent
  /\ EverybodyTold

LEMMA IdleType == Idle \in RequestRow
BY PositionAssumption DEF Idle, RequestRow

LEMMA MissingType ==
  ASSUME NEW q \in RequestRow, NEW cause \in {"register", "overlap"}
  PROVE  /\ Missing(q, cause) \in RequestRow
         /\ Missing(q, cause).phase = q.phase /\ Missing(q, cause).edit = q.edit
         /\ Missing(q, cause).seen = q.seen /\ Missing(q, cause).sent = q.sent
         /\ Missing(q, cause).row = q.row /\ Missing(q, cause).previous = q.previous
         /\ Missing(q, cause).missed = {} =>
              q.phase = "idle" \/ (cause = "register" /\ q.phase # "assembled" /\ q.missed = {})
BY DEF Missing, RequestRow

LEMMA InitIInv == Init => IInv
<1> SUFFICES ASSUME Init PROVE IInv
  OBVIOUS
<1>1. settings \in Settings /\ \A r \in Request : req[r] = Idle
  BY PositionAssumption DEF Init
<1>2. TypeOK
  BY <1>1, IdleType, PositionAssumption DEF Init, TypeOK
<1>3. RequestShape /\ UpToDate
  BY <1>1 DEF Idle, RequestShape, UpToDate
<1>4. QED
  BY <1>2, <1>3 DEF Init, IInv, LatestIsCurrent, EverybodyTold

\* A step that touches one request and nothing that is committed.
LEMMA OneRequest ==
  ASSUME IInv, NEW r \in Request, NEW new \in RequestRow,
         req' = [req EXCEPT ![r] = new],
         UNCHANGED <<register, settings, latest, told, stale, untold>>,
         clock' \in 0..MaxSnapshots,
         new.phase = "loaded" => new.edit # None,
         new.sent => new.edit # None,
         new.phase = "assembled" => new.row # None,
         new.previous # None => latest # None,
         new.missed = {} =>
           /\ new.phase = "loaded" => new.seen = settings /\ ~new.sent
           /\ new.phase = "flushed" =>
                new.seen = IF new.sent THEN [settings EXCEPT ![new.edit.field] = new.edit.value]
                                       ELSE settings
           /\ new.phase = "assembled" =>
                new.row.input = EngineInput(IF new.sent
                                            THEN [settings EXCEPT ![new.edit.field] = new.edit.value]
                                            ELSE settings, register)
  PROVE  IInv'
<1>1. \A q \in Request : req'[q] = IF q = r THEN new ELSE req[q]
  BY DEF IInv, TypeOK
<1>2. TypeOK'
  BY DEF IInv, TypeOK
<1>3. RequestShape'
  BY <1>1 DEF IInv, RequestShape
<1>4. UpToDate'
  <2> SUFFICES ASSUME NEW q \in Request, req'[q].missed = {}
               PROVE  /\ req'[q].phase = "loaded" => req'[q].seen = settings /\ ~req'[q].sent
                      /\ req'[q].phase = "flushed" => req'[q].seen = After(q)'
                      /\ req'[q].phase = "assembled" =>
                           req'[q].row.input = EngineInput(After(q)', register)
    BY DEF UpToDate
  <2>1. CASE q = r
    <3>1. After(q)' = IF new.sent THEN [settings EXCEPT ![new.edit.field] = new.edit.value]
                                  ELSE settings
      <4>1. req'[q] = new /\ settings' = settings
        BY <1>1, <2>1
      <4>2. After(q)' = IF req'[q].sent
                        THEN [settings' EXCEPT ![req'[q].edit.field] = req'[q].edit.value]
                        ELSE settings'
        BY DEF After
      <4>3. QED
        BY <4>1, <4>2
    <3>2. QED
      BY <1>1, <2>1, <3>1
  <2>2. CASE q # r
    <3>1. After(q)' = After(q) /\ req'[q] = req[q]
      BY <1>1, <2>2 DEF After
    <3>2. QED
      BY <3>1 DEF IInv, UpToDate
  <2>3. QED
    BY <2>1, <2>2
<1>5. LatestIsCurrent' /\ EverybodyTold'
  BY DEF IInv, LatestIsCurrent, EverybodyTold
<1>6. QED
  BY <1>2, <1>3, <1>4, <1>5 DEF IInv

LEMMA WriteRegisterIInv ==
  ASSUME IInv, NEW new \in Register, WriteRegister(new)
  PROVE  IInv'
<1>1. req \in [Request -> RequestRow]
  BY DEF IInv, TypeOK
<1>2. \A q \in Request :
        /\ req'[q] \in RequestRow
        /\ req'[q].phase = req[q].phase /\ req'[q].edit = req[q].edit
        /\ req'[q].seen = req[q].seen /\ req'[q].sent = req[q].sent
        /\ req'[q].row = req[q].row /\ req'[q].previous = req[q].previous
        /\ req'[q].missed = {} =>
             req[q].phase = "idle" \/ (req[q].phase # "assembled" /\ req[q].missed = {})
  BY <1>1, MissingType DEF WriteRegister
<1>3. TypeOK'
  BY <1>2 DEF IInv, TypeOK, WriteRegister
<1>4. RequestShape'
  BY <1>2 DEF IInv, RequestShape, WriteRegister
<1>5. UpToDate'
  <2>1. ASSUME NEW q \in Request PROVE After(q)' = After(q)
    <3>1. req'[q].sent = req[q].sent /\ req'[q].edit = req[q].edit /\ settings' = settings
      BY <1>2 DEF WriteRegister
    <3>2. After(q)' = IF req'[q].sent
                      THEN [settings' EXCEPT ![req'[q].edit.field] = req'[q].edit.value]
                      ELSE settings'
      BY DEF After
    <3>3. QED
      BY <3>1, <3>2 DEF After
  <2> SUFFICES ASSUME NEW q \in Request, req'[q].missed = {}
               PROVE  /\ req'[q].phase = "loaded" => req'[q].seen = settings' /\ ~req'[q].sent
                      /\ req'[q].phase = "flushed" => req'[q].seen = After(q)'
                      /\ req'[q].phase # "assembled"
    BY DEF UpToDate
  <2>2. settings' = settings /\ (req[q].phase = "idle" \/ (req[q].phase # "assembled" /\ req[q].missed = {}))
    BY <1>2 DEF WriteRegister
  <2>3. QED
    BY <1>2, <2>1, <2>2 DEF IInv, UpToDate
<1>6. LatestIsCurrent' /\ EverybodyTold'
  BY DEF IInv, LatestIsCurrent, EverybodyTold, WriteRegister
<1>7. QED
  BY <1>3, <1>4, <1>5, <1>6 DEF IInv

LEMMA LoadEditIInv ==
  ASSUME IInv, NEW r \in Request, NEW u \in Executor, NEW e \in Edit, LoadEdit(r, u, e)
  PROVE  IInv'
<1> DEFINE new == [Idle EXCEPT !.phase = "loaded", !.user = u, !.edit = e, !.seen = settings]
<1>1. new \in RequestRow
  BY IdleType DEF IInv, TypeOK, RequestRow
<1>2. /\ new.phase = "loaded" /\ new.edit = e /\ new.seen = settings /\ ~new.sent
      /\ new.row = None /\ new.previous = None
  BY DEF Idle
<1>3. e # None
  BY PositionAssumption
<1>4. req' = [req EXCEPT ![r] = new]
  BY DEF LoadEdit
<1>5. UNCHANGED <<register, settings, latest, told, stale, untold>> /\ clock' \in 0..MaxSnapshots
  BY DEF LoadEdit, IInv, TypeOK
<1> HIDE DEF new
<1>6. QED
  BY <1>1, <1>2, <1>3, <1>4, <1>5, OneRequest

LEMMA LoadRecomputeIInv ==
  ASSUME IInv, NEW r \in Request, LoadRecompute(r)
  PROVE  IInv'
<1> DEFINE new == [Idle EXCEPT !.phase = "flushed", !.seen = settings]
<1>1. new \in RequestRow
  BY IdleType DEF IInv, TypeOK, RequestRow
<1>2. /\ new.phase = "flushed" /\ new.seen = settings /\ ~new.sent
      /\ new.row = None /\ new.previous = None
  BY DEF Idle
<1>3. req' = [req EXCEPT ![r] = new]
  BY DEF LoadRecompute
<1>4. UNCHANGED <<register, settings, latest, told, stale, untold>> /\ clock' \in 0..MaxSnapshots
  BY DEF LoadRecompute, IInv, TypeOK
<1> HIDE DEF new
<1>5. QED
  BY <1>1, <1>2, <1>3, <1>4, OneRequest

LEMMA RollbackIInv ==
  ASSUME IInv, NEW r \in Request, Rollback(r)
  PROVE  IInv'
<1>1. Idle \in RequestRow
  BY IdleType
<1>2. Idle.phase = "idle" /\ ~Idle.sent /\ Idle.row = None /\ Idle.previous = None
  BY DEF Idle
<1>3. req' = [req EXCEPT ![r] = Idle]
  BY DEF Rollback
<1>4. UNCHANGED <<register, settings, latest, told, stale, untold>> /\ clock' \in 0..MaxSnapshots
  BY DEF Rollback, IInv, TypeOK
<1>5. QED
  BY <1>1, <1>2, <1>3, <1>4, OneRequest

\* An edit that changes nothing leaves the row as it was loaded.
LEMMA SameEdit ==
  ASSUME NEW s \in Settings, NEW c \in Edit, s[c.field] = c.value
  PROVE  [s EXCEPT ![c.field] = c.value] = s
BY DEF Settings

LEMMA FlushIInv ==
  ASSUME IInv, NEW r \in Request, Flush(r)
  PROVE  IInv'
<1>1. req \in [Request -> RequestRow] /\ req[r] \in RequestRow /\ latest \in Snapshot \cup {None}
  BY DEF IInv, TypeOK
<1>2. req[r].edit \in Edit /\ req[r].seen \in Settings
  BY <1>1 DEF IInv, RequestShape, Flush, RequestRow
<1>3. Edited(req[r]) \in Settings
  BY <1>2, EditType DEF Edited
<1>4. Changes(req[r]) \in BOOLEAN
  BY DEF Changes
<1> DEFINE new == [req[r] EXCEPT !.phase = "flushed", !.sent = Changes(req[r]),
                                 !.seen = Edited(req[r]), !.previous = latest]
<1>5. new \in RequestRow
  BY <1>1, <1>3, <1>4 DEF RequestRow
<1>6. /\ new.phase = "flushed" /\ new.sent = Changes(req[r]) /\ new.seen = Edited(req[r])
      /\ new.previous = latest /\ new.row = req[r].row /\ new.edit = req[r].edit
      /\ new.missed = req[r].missed
  BY <1>1 DEF RequestRow
<1>7. req' = [req EXCEPT ![r] = new]
  BY <1>1 DEF Flush
<1>8. UNCHANGED <<register, settings, latest, told, stale, untold>> /\ clock' \in 0..MaxSnapshots
  BY DEF Flush, IInv, TypeOK
<1>10. ASSUME new.missed = {}
       PROVE  new.seen = IF new.sent THEN [settings EXCEPT ![new.edit.field] = new.edit.value]
                                     ELSE settings
  <2>1. req[r].seen = settings
    BY <1>6, <1>10 DEF IInv, UpToDate, Flush
  <2>2. ~Changes(req[r]) => Edited(req[r]) = settings
    BY <1>2, <2>1, SameEdit DEF Changes, Edited
  <2>3. Edited(req[r]) = [settings EXCEPT ![req[r].edit.field] = req[r].edit.value]
    BY <2>1 DEF Edited
  <2>4. QED
    BY <1>6, <2>2, <2>3
<1>11. new.edit # None
  BY <1>2, <1>6, PositionAssumption
<1> HIDE DEF new
<1>12. QED
  BY <1>5, <1>6, <1>7, <1>8, <1>10, <1>11, OneRequest

LEMMA AssembleIInv ==
  ASSUME IInv, NEW r \in Request, Assemble(r)
  PROVE  IInv'
<1>1. /\ req \in [Request -> RequestRow] /\ req[r] \in RequestRow /\ register \in Register
      /\ clock \in 0..MaxSnapshots /\ MaxSnapshots \in Nat
  BY PositionAssumption DEF IInv, TypeOK
<1>2. clock + 1 \in 1..MaxSnapshots /\ clock' \in 0..MaxSnapshots
  BY <1>1 DEF Assemble
<1> DEFINE made == [at |-> clock + 1, input |-> EngineInput(req[r].seen, register)]
           new == [req[r] EXCEPT !.phase = "assembled", !.seen = InitialSettings, !.row = made]
<1>3. req[r].seen \in Settings
  BY <1>1 DEF RequestRow
<1>4. made \in Snapshot /\ made.input = EngineInput(req[r].seen, register)
  BY <1>1, <1>2, <1>3, EngineInputType DEF Snapshot
<1>6. made # None
  BY <1>4, PositionAssumption
<1>7. req' = [req EXCEPT ![r] = new]
  BY <1>1 DEF Assemble
<1> HIDE DEF made
<1>8. new \in RequestRow
  BY <1>1, <1>4, PositionAssumption DEF RequestRow
<1>9. /\ new.phase = "assembled" /\ new.row = made /\ new.edit = req[r].edit
      /\ new.sent = req[r].sent /\ new.missed = req[r].missed /\ new.previous = req[r].previous
  BY <1>1 DEF RequestRow
<1> HIDE DEF new
<1>10. UNCHANGED <<register, settings, latest, told, stale, untold>>
  BY DEF Assemble
<1>11. (new.sent => new.edit # None) /\ (new.previous # None => latest # None)
  BY <1>9 DEF IInv, RequestShape
<1>12. ASSUME new.missed = {}
       PROVE  new.row.input = EngineInput(IF new.sent
                                          THEN [settings EXCEPT ![new.edit.field] = new.edit.value]
                                          ELSE settings, register)
  <2>1. req[r].seen = After(r)
    BY <1>9, <1>12 DEF IInv, UpToDate, Assemble
  <2>2. After(r) = IF new.sent THEN [settings EXCEPT ![new.edit.field] = new.edit.value]
                               ELSE settings
    BY <1>9 DEF After
  <2>3. QED
    BY <1>4, <1>9, <2>1, <2>2
<1>13. QED
  BY <1>2, <1>6, <1>7, <1>8, <1>9, <1>10, <1>11, <1>12, OneRequest

-----------------------------------------------------------------------------
(* The commits.                                                            *)

\* What a commit leaves of the requests.
LEMMA OtherRequests ==
  ASSUME IInv, NEW r \in Request, register' = register, latest' # None,
         req' = [p \in Request |->
                   IF p = r THEN Idle
                   ELSE IF settings' # settings THEN Missing(req[p], "overlap") ELSE req[p]]
  PROVE  req' \in [Request -> RequestRow] /\ RequestShape' /\ UpToDate'
<1>1. req \in [Request -> RequestRow] /\ Idle \in RequestRow
  BY IdleType DEF IInv, TypeOK
<1>2. ASSUME NEW p \in Request, p # r
      PROVE  /\ req'[p] \in RequestRow
             /\ req'[p].phase = req[p].phase /\ req'[p].edit = req[p].edit
             /\ req'[p].seen = req[p].seen /\ req'[p].sent = req[p].sent
             /\ req'[p].row = req[p].row
             /\ req'[p].missed = {} => req[p].phase = "idle"
                                       \/ (settings' = settings /\ req[p].missed = {})
  <2>1. req'[p] = IF settings' # settings THEN Missing(req[p], "overlap") ELSE req[p]
    BY <1>2
  <2>2. req[p] \in RequestRow
    BY <1>1
  <2>3. CASE settings' = settings
    BY <2>1, <2>2, <2>3
  <2>4. CASE settings' # settings
    BY <2>1, <2>2, <2>4, MissingType
  <2>5. QED
    BY <2>3, <2>4
<1>3. req'[r] = Idle
  OBVIOUS
<1>4. req' \in [Request -> RequestRow]
  <2>1. \A p \in Request : req'[p] \in RequestRow
    BY <1>1, <1>2, <1>3
  <2>2. DOMAIN req' = Request /\ req' = [p \in Request |-> req'[p]]
    OBVIOUS
  <2>3. QED
    BY <2>1, <2>2
<1>5. Idle.phase = "idle" /\ ~Idle.sent /\ Idle.row = None
  BY DEF Idle
<1>6. RequestShape'
  <2> SUFFICES ASSUME NEW p \in Request
               PROVE  /\ req'[p].phase = "loaded" => req'[p].edit # None
                      /\ req'[p].sent => req'[p].edit # None
                      /\ req'[p].phase = "assembled" => req'[p].row # None
    BY DEF RequestShape
  <2>1. CASE p = r
    BY <1>3, <1>5, <2>1
  <2>2. CASE p # r
    <3>1. /\ req[p].phase = "loaded" => req[p].edit # None
          /\ req[p].sent => req[p].edit # None
          /\ req[p].phase = "assembled" => req[p].row # None
      BY DEF IInv, RequestShape
    <3>2. QED
      BY <1>2, <2>2, <3>1
  <2>3. QED
    BY <2>1, <2>2
<1>7. UpToDate'
  <2> SUFFICES ASSUME NEW p \in Request, req'[p].missed = {}
               PROVE  /\ req'[p].phase = "loaded" => req'[p].seen = settings' /\ ~req'[p].sent
                      /\ req'[p].phase = "flushed" => req'[p].seen = After(p)'
                      /\ req'[p].phase = "assembled" =>
                           req'[p].row.input = EngineInput(After(p)', register')
    BY DEF UpToDate
  <2>1. CASE p = r \/ req'[p].phase = "idle"
    BY <1>3, <1>5, <2>1
  <2>2. CASE p # r /\ req'[p].phase # "idle"
    <3>1. settings' = settings /\ req[p].missed = {}
      BY <1>2, <2>2
    <3>2. After(p)' = IF req'[p].sent
                      THEN [settings' EXCEPT ![req'[p].edit.field] = req'[p].edit.value]
                      ELSE settings'
      BY DEF After
    <3>3. req'[p].sent = req[p].sent /\ req'[p].edit = req[p].edit
      BY <1>2, <2>2
    <3>4. After(p)' = After(p)
      BY <3>1, <3>2, <3>3 DEF After
    <3>5. /\ req[p].phase = "loaded" => req[p].seen = settings /\ ~req[p].sent
          /\ req[p].phase = "flushed" => req[p].seen = After(p)
          /\ req[p].phase = "assembled" => req[p].row.input = EngineInput(After(p), register)
      BY <3>1 DEF IInv, UpToDate
    <3>6. QED
      BY <1>2, <2>2, <3>1, <3>4, <3>5
  <2>3. QED
    BY <2>1, <2>2
<1>8. QED
  BY <1>4, <1>6, <1>7

\* What Publish makes of the latest snapshot.
LEMMA Published ==
  ASSUME NEW row \in Snapshot, latest \in Snapshot \cup {None}, Publish(row)
  PROVE  /\ latest' \in Snapshot /\ latest' # None
         /\ latest' = row \/ (latest # None /\ latest' = latest)
         /\ latest = None => latest' = row
<1>1. (latest' = row) \/ (latest # None /\ latest' = latest)
  BY DEF Publish
<1>2. latest = None => latest' = row
  BY DEF Publish
<1>3. QED
  BY <1>1, <1>2, PositionAssumption

LEMMA CommitRecomputeIInv ==
  ASSUME IInv, NEW r \in Request, CommitRecompute(r)
  PROVE  IInv'
<1> DEFINE row == req[r].row
<1>1. /\ req[r] \in RequestRow /\ latest \in Snapshot \cup {None} /\ stale \subseteq {"register", "overlap"}
      /\ told \in [Executor -> SUBSET Flag] /\ untold \subseteq Flag
  BY DEF IInv, TypeOK
<1>2. row \in Snapshot /\ ~req[r].sent
  BY <1>1 DEF IInv, RequestShape, CommitRecompute, RequestRow
<1>3. req[r].missed \subseteq {"register", "overlap"}
  BY <1>1 DEF RequestRow
<1>4. /\ Publish(row) /\ register' = register /\ settings' = settings /\ clock' = clock
      /\ told' = IF latest = None THEN [u \in Executor |-> Flags(row.input)] ELSE told
      /\ untold' = IF latest = None \/ latest' # row THEN untold
                   ELSE untold \cup Crossed(latest.input, row.input)
      /\ stale' = IF latest' = row THEN req[r].missed ELSE stale
      /\ req' = [req EXCEPT ![r] = Idle]
  BY DEF CommitRecompute
<1>5. req[r].missed = {} => row.input = EngineInput(settings, register)
  <2>1. After(r) = settings
    BY <1>2 DEF After
  <2>2. QED
    BY <2>1 DEF IInv, UpToDate, CommitRecompute
<1> HIDE DEF row
<1>6. /\ latest' \in Snapshot /\ latest' # None
      /\ latest' = row \/ (latest # None /\ latest' = latest)
      /\ latest = None => latest' = row
  BY <1>1, <1>2, <1>4, Published
<1>7. req' \in [Request -> RequestRow] /\ RequestShape' /\ UpToDate'
  <2>1. req' = [p \in Request |->
                  IF p = r THEN Idle
                  ELSE IF settings' # settings THEN Missing(req[p], "overlap") ELSE req[p]]
    BY <1>4 DEF IInv, TypeOK
  <2>2. QED
    BY <1>4, <1>6, <2>1, OtherRequests
<1>8. TypeOK'
  <2>1. told' \in [Executor -> SUBSET Flag]
    BY <1>1, <1>4, FlagsType
  <2>2. untold' \subseteq Flag
    BY <1>1, <1>4, FlagsType DEF Crossed, Differing
  <2>3. stale' \subseteq {"register", "overlap"}
    BY <1>1, <1>3, <1>4
  <2>4. QED
    BY <1>4, <1>6, <1>7, <2>1, <2>2, <2>3 DEF IInv, TypeOK
<1>9. LatestIsCurrent'
  BY <1>4, <1>5, <1>6 DEF IInv, LatestIsCurrent
<1>10. EverybodyTold'
  <2> SUFFICES ASSUME NEW u \in Executor
               PROVE  Differing(told'[u], Flags(latest'.input)) \subseteq untold'
    BY DEF EverybodyTold
  <2>1. CASE latest = None
    BY <1>4, <1>6, <2>1 DEF Differing
  <2>2. CASE latest # None
    <3>1. told' = told /\ Differing(told[u], Flags(latest.input)) \subseteq untold
      BY <1>4, <2>2 DEF IInv, EverybodyTold
    <3>2. CASE latest' = row
      BY <1>4, <2>2, <3>1, <3>2 DEF Crossed, Differing
    <3>3. CASE latest' # row
      BY <1>4, <1>6, <2>2, <3>1, <3>3
    <3>4. QED
      BY <3>2, <3>3
  <2>3. QED
    BY <2>1, <2>2
<1>11. QED
  BY <1>6, <1>7, <1>8, <1>9, <1>10 DEF IInv

LEMMA CommitEditIInv ==
  ASSUME IInv, NEW r \in Request, CommitEdit(r)
  PROVE  IInv'
<1> DEFINE q == req[r]
           row == req[r].row
<1>1. /\ q \in RequestRow /\ latest \in Snapshot \cup {None} /\ stale \subseteq {"register", "overlap"}
      /\ told \in [Executor -> SUBSET Flag] /\ untold \subseteq Flag /\ settings \in Settings
  BY DEF IInv, TypeOK
<1>2. /\ row \in Snapshot /\ q.edit \in Edit
      /\ q.previous # None => latest # None
      /\ q.phase = "assembled"
  BY <1>1 DEF IInv, RequestShape, CommitEdit, RequestRow
<1>3. q.missed \subseteq {"register", "overlap"}
  BY <1>1 DEF RequestRow
<1>4. /\ Publish(row) /\ register' = register /\ clock' = clock
      /\ settings' = IF q.sent THEN [settings EXCEPT ![q.edit.field] = q.edit.value] ELSE settings
      /\ told' = IF Material(q.previous, row)
                 THEN Alerted(Recipients(q.user) \cup {q.user}, q.previous, row)
                 ELSE IF latest = None THEN [u \in Executor |-> Flags(row.input)] ELSE told
      /\ untold' =
           IF latest = None THEN {}
           ELSE IF q.previous = latest /\ latest' = row
                THEN untold \ Crossed(latest.input, row.input)
                ELSE untold \cup Crossed(latest.input, row.input)
                       \cup (IF q.previous = None THEN {}
                             ELSE Crossed(q.previous.input, row.input))
      /\ stale' = IF latest' = row THEN q.missed
                  ELSE IF settings' # settings THEN stale \cup {"overlap"} ELSE stale
      /\ req' = [p \in Request |->
           IF p = r THEN Idle
           ELSE IF settings' # settings THEN Missing(req[p], "overlap") ELSE req[p]]
  BY DEF CommitEdit
<1>5. settings' \in Settings
  BY <1>1, <1>2, <1>4, EditType
<1>6. q.missed = {} => row.input = EngineInput(settings', register)
  <2>1. settings' = After(r)
    BY <1>4 DEF After
  <2>2. QED
    BY <1>2, <2>1 DEF IInv, UpToDate
<1> HIDE DEF q, row
<1>7. /\ latest' \in Snapshot /\ latest' # None
      /\ latest' = row \/ (latest # None /\ latest' = latest)
      /\ latest = None => latest' = row
  BY <1>1, <1>2, <1>4, Published
<1>8. req' \in [Request -> RequestRow] /\ RequestShape' /\ UpToDate'
  BY <1>4, <1>7, OtherRequests
<1> DEFINE crossed == Crossed(q.previous.input, row.input)
           moved == Crossed(latest.input, row.input)
<1>9. ASSUME Material(q.previous, row), NEW u \in Executor
      PROVE  told'[u] = (told[u] \ crossed) \cup (Flags(row.input) \cap crossed)
  <2>1. u \in Recipients(q.user) \cup {q.user}
    BY DEF Recipients
  <2>2. told' = Alerted(Recipients(q.user) \cup {q.user}, q.previous, row)
    BY <1>4, <1>9
  <2>3. QED
    BY <2>1, <2>2 DEF Alerted
<1>10. TypeOK'
  <2>1. told' \in [Executor -> SUBSET Flag]
    <3>1. CASE Material(q.previous, row)
      <4>1. \A u \in Executor : told'[u] \subseteq Flag
        BY <1>1, <1>9, <3>1, FlagsType
      <4>2. told' = [u \in Executor |-> told'[u]]
        BY <1>4, <3>1 DEF Alerted
      <4>3. QED
        BY <4>1, <4>2
    <3>2. CASE ~Material(q.previous, row)
      BY <1>1, <1>4, <3>2, FlagsType
    <3>3. QED
      BY <3>1, <3>2
  <2>2. crossed \subseteq Flag /\ moved \subseteq Flag
    BY FlagsType DEF Crossed, Differing
  <2>3. untold' \subseteq Flag
    BY <1>1, <1>4, <2>2
  <2>4. stale' \subseteq {"register", "overlap"}
    BY <1>1, <1>3, <1>4
  <2>5. QED
    BY <1>4, <1>5, <1>7, <1>8, <2>1, <2>3, <2>4 DEF IInv, TypeOK
<1>11. LatestIsCurrent'
  <2>1. CASE latest' = row
    BY <1>4, <1>6, <2>1 DEF LatestIsCurrent
  <2>2. CASE latest' # row
    <3>1. latest' = latest /\ latest # None
      BY <1>7, <2>2
    <3>2. stale' = {} => stale = {} /\ settings' = settings
      BY <1>4, <2>2
    <3>3. QED
      BY <1>4, <3>1, <3>2 DEF IInv, LatestIsCurrent
  <2>3. QED
    BY <2>1, <2>2
<1>12. EverybodyTold'
  <2> SUFFICES ASSUME NEW u \in Executor
               PROVE  Differing(told'[u], Flags(latest'.input)) \subseteq untold'
    BY DEF EverybodyTold
  <2>1. CASE latest = None
    <3>1. q.previous = None /\ ~Material(q.previous, row)
      BY <1>2, <2>1 DEF Material
    <3>2. QED
      BY <1>4, <1>7, <2>1, <3>1 DEF Differing
  <2>2. CASE latest # None
    <3> DEFINE T == told[u]
               L == Flags(latest.input)
               N == Flags(row.input)
               P == Flags(q.previous.input)
    <3>1. Differing(T, L) \subseteq untold
      BY <2>2 DEF IInv, EverybodyTold
    <3>2. moved = Differing(L, N) /\ crossed = Differing(P, N)
      BY DEF Crossed
    <3>3. q.previous = latest => P = L
      OBVIOUS
    <3>4. Flags(latest'.input) = N \/ (latest' # row /\ Flags(latest'.input) = L)
      BY <1>7
    <3>5. told'[u] = IF Material(q.previous, row) THEN (T \ crossed) \cup (N \cap crossed) ELSE T
      BY <1>4, <1>9, <2>2
    <3>6. Material(q.previous, row) => q.previous # None
      BY DEF Material
    <3>7. ~Material(q.previous, row) /\ q.previous = latest => moved = {}
      BY <2>2 DEF Material
    <3>8. untold' = IF q.previous = latest /\ latest' = row
                    THEN untold \ moved
                    ELSE untold \cup moved \cup (IF q.previous = None THEN {} ELSE crossed)
      BY <1>4, <2>2
    <3> HIDE DEF T, L, N, P, moved, crossed
    <3>9. /\ P = L => Differing((T \ crossed) \cup (N \cap crossed), N) \subseteq untold \ moved
          /\ Differing((T \ crossed) \cup (N \cap crossed), N) \subseteq untold \cup moved \cup crossed
          /\ Differing((T \ crossed) \cup (N \cap crossed), L) \subseteq untold \cup moved \cup crossed
          /\ Differing(T, N) \subseteq untold \cup moved
          /\ moved = {} => Differing(T, N) \subseteq untold \ moved
      BY <3>1, <3>2 DEF Differing
    <3>10. CASE q.previous = latest /\ latest' = row
      <4>1. Flags(latest'.input) = N /\ P = L /\ untold' = untold \ moved
        BY <3>3, <3>4, <3>8, <3>10
      <4>2. CASE Material(q.previous, row)
        BY <3>5, <3>9, <4>1, <4>2
      <4>3. CASE ~Material(q.previous, row)
        BY <3>5, <3>7, <3>9, <3>10, <4>1, <4>3
      <4>4. QED
        BY <4>2, <4>3
    <3>11. CASE ~(q.previous = latest /\ latest' = row)
      <4>1. untold' = untold \cup moved \cup (IF q.previous = None THEN {} ELSE crossed)
        BY <3>8, <3>11
      <4>2. CASE Material(q.previous, row)
        <5>1. untold' = untold \cup moved \cup crossed
          BY <3>6, <4>1, <4>2
        <5>2. QED
          BY <3>4, <3>5, <3>9, <4>2, <5>1
      <4>3. CASE ~Material(q.previous, row)
        <5>1. told'[u] = T /\ untold \cup moved \subseteq untold'
          BY <3>5, <4>1, <4>3
        <5>2. QED
          BY <3>1, <3>4, <3>9, <5>1
      <4>4. QED
        BY <4>2, <4>3
    <3>12. QED
      BY <3>10, <3>11
  <2>3. QED
    BY <2>1, <2>2
<1>13. QED
  BY <1>7, <1>8, <1>10, <1>11, <1>12 DEF IInv

LEMMA StepIInv == IInv /\ [Next]_vars => IInv'
<1> SUFFICES ASSUME IInv, [Next]_vars PROVE IInv'
  OBVIOUS
<1>1. CASE \E new \in Register : WriteRegister(new)
  BY <1>1, WriteRegisterIInv
<1>2. ASSUME NEW r \in Request,
        \/ \E u \in Executor, e \in Edit : LoadEdit(r, u, e)
        \/ LoadRecompute(r) \/ Flush(r) \/ Assemble(r)
        \/ CommitEdit(r) \/ CommitRecompute(r) \/ Rollback(r)
      PROVE IInv'
  BY <1>2, LoadEditIInv, LoadRecomputeIInv, FlushIInv, AssembleIInv, CommitEditIInv,
     CommitRecomputeIInv, RollbackIInv
<1>3. CASE UNCHANGED vars
  BY <1>3 DEF vars, IInv, TypeOK, RequestShape, UpToDate, After, LatestIsCurrent, EverybodyTold
<1>4. QED
  BY <1>1, <1>2, <1>3 DEF Next

THEOREM Inductive == Spec => []IInv
<1>1. QED
  BY InitIInv, StepIInv, PTL DEF Spec

-----------------------------------------------------------------------------
(* What follows for the position.                                          *)

\* Rows, snapshots and requests keep their types, whatever the estate.
THEOREM TypeCorrect == Spec => []TypeOK
<1>1. IInv => TypeOK
  BY DEF IInv
<1>2. QED
  BY <1>1, Inductive, PTL

\* The latest snapshot is what the rows give unless a register was written after it or
\* an edit overlapped the request that made it (reevaluate, run_recompute).
THEOREM PositionCurrent == Spec => []LatestIsCurrent
<1>1. IInv => LatestIsCurrent
  BY DEF IInv
<1>2. QED
  BY <1>1, Inductive, PTL

\* No executor is left with a false idea of a threshold that an alert could have
\* corrected (_material_reasons, _alert_recipients).
THEOREM AlertsReachEverybody == Spec => []EverybodyTold
<1>1. IInv => EverybodyTold
  BY DEF IInv
<1>2. QED
  BY <1>1, Inductive, PTL

\* The route and the tax of the latest assessment agree (assess, is_excepted).
THEOREM LatestAssessmentAgrees == Spec => []LatestRouteAgrees
<1>1. IInv => LatestRouteAgrees
  <2> SUFFICES ASSUME IInv, latest # None PROVE RouteAgrees(latest.input)
    BY DEF LatestRouteAgrees
  <2>1. latest.input \in EstateInput
    BY DEF IInv, TypeOK, Snapshot
  <2>2. QED
    BY <2>1, RouteAlwaysAgrees
<1>2. QED
  BY <1>1, Inductive, PTL
=============================================================================
