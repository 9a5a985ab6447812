SPECIFICATION LandingSpec
CONSTANTS
  t1 = t1
  t2 = t2
  t3 = t3
  w = w
  a = a
  b = b
  x = x
  y = y
  p1 = p1
  p2 = p2
  None = none
  Maintainers = {}
  Threads = {t1, t2, t3}
  Members = {w, a, b}
  Parent <- Tree
  Family = {t3}
  Owner <- OwnedByB
  Producer <- MadeByW
  Delegations <- WForA
  Critics = {}
  Gaters = {a}
  Contents = {x}
  Critical = {}
  Artifacts = {}
  Counts = {}
  Pulls = {p1, p2}
  PullOf <- OnChange
  Sweepers = {s1, s2}
  MaxHeads = 2
INVARIANTS
  StandingNamesHead
PROPERTIES
  
  LandsPassed
