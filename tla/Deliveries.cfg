SPECIFICATION FairDeliverySpec
CONSTANTS
  Keys = {1, 2, 3}
  MaxAttempts = 2
  MaxRevision = 2
  MaxReplays = 1
  Routers = {1, 2}
  Workers = {1, 2}
  MaxFaults = 2
  Turns = 4
INVARIANTS
  PendingUnlessCrossed
  
  AttemptsBounded
PROPERTIES
  RowsSettle
