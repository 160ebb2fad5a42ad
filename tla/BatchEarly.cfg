SPECIFICATION FairSpec
CONSTANTS
  Requests = {p1}
  Sets = 2
  Ops <- MCEarlyOps
  Passes <- MCEarlyPasses
  MaxFaults = 0
  MaxKills = 0
  MaxImpatience = 0
  NoConn = NoConn
INVARIANTS NoFalseHundred
