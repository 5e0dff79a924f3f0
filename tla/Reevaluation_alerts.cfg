SPECIFICATION Spec
CONSTANTS
  u1 = u1
  u2 = u2
  r1 = r1
  r2 = r2
  Unknown = Unknown
  None = None
  NRB = 325000
  RNRB = 175000
  TaperThreshold = 2000000
  ExemptLimit = 3000000
  TransfersLimit = 250000
  TrustLimit = 250000
  ForeignLimit = 100000
  CharityThreshold = 10
  StandardRate = 40
  ReducedRate = 36
  MaterialChange = 10000
  Executor = {u1, u2}
  Request = {r1, r2}
  Register <- Registers
  InitialSettings <- KnownFacts
  Edit <- Edits
  MaxSnapshots = 3
SYMMETRY UserSymmetry
INVARIANTS
  TypeOK
  LatestIsCurrent
  EverybodyTold
  LatestRouteAgrees
