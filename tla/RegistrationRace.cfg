SPECIFICATION Spec
CONSTANTS
  r1 = r1
  r2 = r2
  v1 = v1
  v2 = v2
  v3 = v3
  e1 = e1
  Requests <- MCRequests
  Values <- MCValues
  Details <- MCDetails
  Stored <- MCAsGiven
  Columns <- MCMailOnly
  None = None
  MaxId = 2
  Uploads = FALSE
SYMMETRY Symmetric
INVARIANTS NoDuplicates
