SPECIFICATION FairSpec
CONSTANTS
  Requests = {p1, p2}
  Sets = 4
  Ops <- MCOps
  Passes <- MCPasses
  MaxFaults = 1
  MaxKills = 1
  MaxImpatience = 1
  NoConn = NoConn
INVARIANTS TypeOK CountersCover HonestReport ExactlyOnce HundredIsLast
PROPERTIES InOrder Completes
