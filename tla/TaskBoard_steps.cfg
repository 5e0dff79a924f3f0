SPECIFICATION Spec
CONSTANTS
  t1 = t1
  t2 = t2
  t3 = t3
  s1 = s1
  r1 = r1
  r2 = r2
  Task = {t1, t2, t3}
  Step = {s1}
  NoStep = NoStep
  Call = {r1, r2}
  Spelling = {"canonical"}
  Canon = "canonical"
  Sends <- MixedCase
  Posts <- StatusPosts
  Patches <- StatusPatches
  Seeded <- TwoSeeded
  SeedLink <- OneStep
  SeedDeps <- Chain
  MaxBatch = 2
  MaxWrites = 3
SYMMETRY CallSymmetry
INVARIANTS
  TypeOK
PROPERTIES
  DriftOnlyByMembershipOrOverlap
  DoneOverBlockerOnlyByStepOrOverlap
CHECK_DEADLOCK FALSE
