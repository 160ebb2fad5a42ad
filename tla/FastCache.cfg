SPECIFICATION Spec
CONSTANTS
  p1 = p1
  p2 = p2
  s1 = s1
  s2 = s2
  Procs = {p1, p2}
  Servers = {s1, s2}
  Host <- MCHost
  MaxTime = 2
  MaxWrites = 2
SYMMETRY Symmetric
CONSTRAINT NotRaced
INVARIANTS TypeOK Fresh Recent
