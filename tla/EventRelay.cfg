SPECIFICATION RelaySpec
CONSTANTS
  Workspaces = {w1}
  Txns = {x1, x2}
  None = none
  MaxId = 2
  Relays = {r1, r2}
  Batch = 2
  MaxAttempts = 2
  MaxFaults = 3
INVARIANTS
  ChainLinear
  MarkedWasSent
PROPERTIES
  CommitsInOrder
  EveryEventLeaves
  ImplementsFeed
