SPECIFICATION Spec
CONSTANTS
  d1 = d1
  d2 = d2
  d3 = d3
  Data <- MCData
  MaxDepth = 3
  MaxCallbacks = 1
  Scoped = TRUE
  DDL = TRUE
INVARIANTS ClosedWhenDone
