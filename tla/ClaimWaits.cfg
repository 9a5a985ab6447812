SPECIFICATION WaitsSpec
CONSTANTS
  m1 = m1
  m2 = m2
  t1 = t1
  Threads = {t1}
  Members = {m1, m2}
  NoMember = nobody
  Replicas = {r1}
  Delegations <- NoDelegation
  Owner <- OwnedBy1
  ReportIds = {}
  LeaseSecs = 1
  GraceSecs = 1
  AckSecs = 0
  HumanSecs = 0
  MaxRounds = 0
  Batch = 1
  UseCaps = {0}
  WallCaps = {0}
  MaxTime = 3
  MaxLeases = 2
PROPERTIES
  LapsedClaimFreed
  HumanWaitEnds
