SPECIFICATION Spec
CONSTANTS
  r1 = r1
  r2 = r2
  v1 = v1
  v2 = v2
  v3 = v3
  e1 = e1
  Requests <- MCRequests
  Values <- MCValues
  Details <- MCDetails
  Stored <- MCStored
  Columns <- MCColumns
  None = None
  MaxId = 2
  Uploads = TRUE
SYMMETRY Symmetric
INVARIANTS TypeOK DuplicatesExplained
PROPERTIES DeletedStaysDeleted
