SPECIFICATION ClockSpec
CONSTANTS
  m1 = m1
  m2 = m2
  t1 = t1
  Threads = {t1}
  Members = {m1}
  NoMember = nobody
  Replicas = {r1}
  Delegations <- NoDelegation
  Owner <- NoOwner
  ReportIds = {u1, u2}
  LeaseSecs = 1
  GraceSecs = 1
  AckSecs = 0
  HumanSecs = 0
  MaxRounds = 1
  Batch = 1
  UseCaps = {2}
  WallCaps = {0, 2}
  MaxTime = 4
  MaxLeases = 2
INVARIANTS
  ClaimWhole
  OneReportPerClaim
  
  NeverOvercharged
  UsageMatchesLedger
PROPERTIES
  NoOverBudgetHandout
  GraceKeepsClaims
