SPECIFICATION Spec
CONSTANTS
  d1 = d1
  d2 = d2
  k1 = k1
  k2 = k2
  k3 = k3
  r1 = r1
  r2 = r2
  r3 = r3
  Null = Null
  Doc = {d1, d2}
  Key = {k1, k2, k3}
  Request = {r1, r2, r3}
SYMMETRY VaultSymmetry
INVARIANTS
  NoDanglingKey
  NothingStranded
  ErasureComplete
  ErasedStaysErased
PROPERTIES
  AuditedDownloadHadFile
  StoreSpec
