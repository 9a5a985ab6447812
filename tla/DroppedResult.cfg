SPECIFICATION FairDeliverySpec
CONSTANTS
  Keys = {1, 2, 3}
  MaxAttempts = 2
  MaxRevision = 2
  MaxReplays = 1
  Routers = {1, 2}
  Workers = {1, 2}
  MaxFaults = 0
  Turns = 4
INVARIANT PendingIsQueued
