SPECIFICATION ReadersSpec
CONSTANTS
  Workspaces = {w1, w2}
  Txns = {x1, x2}
  None = none
  MaxId = 4
  ShortLog = 3
  MaxFaults = 2
  TapFaults = 1
  Nodes = {n1}
  PageSize = 1
  Undecodable = {2}
  MaxQueue = 2
  Room = w1
  Limit = 2
  Taps = {n1}
  TapBatch = 1
  InOrder = FALSE
INVARIANTS
  OnlyLateLossesMissed
  FramesInOrder
  
  

  
