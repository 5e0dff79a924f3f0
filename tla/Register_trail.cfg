SPECIFICATION Spec
CONSTANTS
  r1 = r1
  r2 = r2
  Null = Null
  Router <- AllRouters
  Value = {0, 1}
  Request = {r1, r2}
  Bodies <- Forms
  MaxEvents = 3
  MaxDates = 3
SYMMETRY RegisterSymmetry
INVARIANTS
  TypeOK
  TrailReplays
  LastEventExact
  ArchivedTwiceOnlyByOverlap
  ReclaimFollowsValues
PROPERTIES
  LogSpec
CHECK_DEADLOCK FALSE
