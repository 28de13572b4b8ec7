SPECIFICATION Spec
CONSTANTS
  t1 = t1  k1 = k1  k2 = k2  r1 = r1  r2 = r2  r3 = r3  w1 = w1  w2 = w2
  Tenants = {t1}
  Keys = {k1, k2}
  Requests = {r1, r2}
  Workers = {w1}
  TenantOf <- AllOfT1
  KeyOf <- KeyPerRequest
  Streams = {r1}
  InitTotal <- TenantTotal3
  Estimates = {1, 2}
  Costs = {1, 3}
  Totals = {4}
  Switched = {t1}
  Operated = {r1, r2}
  Accepting = {w1}
  Exiting = {}
  Lapsing = {}
  MaxAttempts = 2
  MaxFaults = 1
  NoCost = NoCost  Absent = Absent  NoOwner = NoOwner  NoNote = NoNote
INVARIANTS LedgerBalanced QuotaBound
CHECK_DEADLOCK FALSE
