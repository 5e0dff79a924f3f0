SPECIFICATION Spec
CONSTANTS
  c1 = c1
  t1 = t1
  t2 = t2
  d1 = d1
  d2 = d2
  r1 = r1
  r2 = r2
  Null = Null
  Chore = {}
  NumSteps = 2
  Task = {t1, t2}
  Draft = {d1, d2}
  Request = {r1, r2}
  MaxBatches = 2
SYMMETRY DraftSymmetry
INVARIANTS
  SecondBatchOnlyByOverlap
  
  
