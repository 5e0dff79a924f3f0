SPECIFICATION NoticeSpec
CONSTANTS
  n1 = n1
  n2 = n2
  c1 = c1
  c2 = c2
  r1 = r1
  r2 = r2
  Null = Null
  Notice = {n1}
  Claim = {c1, c2}
  Request = {r1, r2}
  Wait = 0
  MaxDay = 1
  NoticeDate = {0}
SYMMETRY RowSymmetry
INVARIANTS
  DerivedColumnsExact
  StoredNeverBolderThanGuard
