SPECIFICATION ApprovalsSpec
CONSTANTS
  t1 = t1
  t2 = t2
  t3 = t3
  w = w
  a = a
  b = b
  x = x
  y = y
  p1 = p1
  p2 = p2
  None = none
  Maintainers = {}
  Threads = {t1, t2}
  Members = {w, a, b}
  Parent <- NoParent
  Family = {}
  Owner <- NoOne
  Producer <- NoOne
  Delegations <- BForA
  Critics = {w}
  Gaters = {}
  Contents = {x, y}
  Critical = {x}
  Artifacts = {f}
  Counts = {1, 2}
  Pulls = {}
  PullOf <- OnChange
  Sweepers = {}
  MaxHeads = 1
INVARIANTS
  StandingApprovals

  
