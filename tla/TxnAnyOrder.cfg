SPECIFICATION Spec
CONSTANTS
  d1 = d1
  d2 = d2
  d3 = d3
  Data <- MCData
  MaxDepth = 4
  MaxCallbacks = 1
  Scoped = FALSE
  DDL = TRUE
SYMMETRY Contents
INVARIANTS TypeOK Accounted NoDangling
 
