SPECIFICATION Spec
CONSTANTS
  l1 = l1
  l2 = l2
  l3 = l3
  c1 = c1
  c2 = c2
  d1 = d1
  d2 = d2
  r1 = r1
  r2 = r2
  t1 = t1
  t2 = t2
  t3 = t3
  t4 = t4
  Null = Null
  Registers <- MCRegisters
  Tax = {17}
  Contact = {c1, c2}
  Legacy = {l1, l2, l3}
  Terms <- MCTerms
  Will <- MCWill
  Payment = {7}
  Whole = 1000
  Tolerance = 1
  Request = {r1, r2}
  Draft = {d1, d2}
  Text = {t1, t2, t3, t4}
  Reading <- MCReading
  FormCode = {"IHT405", Null}
  MaxDraftAttempts = 2
  MaxApprovals = 3
  MaxWrites = 4
SYMMETRY PaperSymmetry
INVARIANTS
  AccountsReconcile
  PaymentsCountedOnce
  ArchivedTotalFinal
  ExportsMatchRecords
  PackListsAssets
