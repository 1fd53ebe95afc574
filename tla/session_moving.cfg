SPECIFICATION Spec
CONSTANTS
  e1 = e1
  e2 = e2
  e3 = e3
  Endpoints <- MCEndpoints
  Names = {k1}
  Requests = {r1, r2}
  Layouts <- MCMoving
  MaxKeys = 2
  MaxLate = 1
INVARIANTS TypeOK MaterialCatalogued ScanIsComplete
SYMMETRY MCSymmetry
