SPECIFICATION Spec
CONSTANTS
  r1 = r1
  r2 = r2
  y24 = y24
  y25 = y25
  Null = Null
  Request = {r1, r2}
  DeathDate <- Deaths
  PublishDate <- Publications
  TaxYear = {y24, y25}
  Income = {1, 6}
  Disposals <- Sales
  NetValue = {20}
  IncomeLimit = 5
  GainsLimit = 3
  ValueLimit = 25
  MaxRows = 3
  MaxWrites = 3
SYMMETRY BoardSymmetry
PROPERTIES
  CgtDeadlineListed
