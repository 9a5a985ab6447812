SPECIFICATION RequestsSpec
CONSTANTS
  tp = tp
  to = to
  ta = ta
  tb = tb
  tc = tc
  r1 = r1
  r2 = r2
  r3 = r3
  Threads = {tp, to, ta, tb, tc}
  Roots = {tp, to}
  PlanKind = {tp, ta}
  Closers = {x1, x2}
  Amenders = {y}
  Adders = {z1, z2}
  None = None
  MaxAmendments = 1
  Requests = {r1, r2, r3}
  Fingerprint <- Prints
  MaxLease = 2
PROPERTY AmendSparesClaimed
