SPECIFICATION HoldersSpec
CONSTANTS
  m1 = m1
  m2 = m2
  t1 = t1
  Threads = {t1, t2}
  Members = {m1, m2}
  NoMember = nobody
  Replicas = {r1}
  Delegations <- TwoForOne
  Owner <- NoOwner
  ReportIds = {}
  LeaseSecs = 1
  GraceSecs = 0
  AckSecs = 0
  HumanSecs = 0
  MaxRounds = 2
  Batch = 1
  UseCaps = {0}
  WallCaps = {0}
  MaxTime = 0
  MaxLeases = 3
INVARIANTS
  HolderIsRecorded
  
  
PROPERTIES
  ResultNeverRegresses
  ImplementsFencedClaims
