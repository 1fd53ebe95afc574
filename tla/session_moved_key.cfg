SPECIFICATION Spec
CONSTANTS
  e1 = e1
  e2 = e2
  e3 = e3
  Endpoints <- MCEndpoints
  Names = {k1}
  Requests = {r1, r2}
  Layouts <- MCMoved
  MaxKeys = 2
  MaxLate = 1
INVARIANT DestroyedIsGone
