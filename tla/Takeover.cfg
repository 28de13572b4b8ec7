SPECIFICATION Spec
CONSTANTS
  t1 = t1  k1 = k1  k2 = k2  r1 = r1  r2 = r2  r3 = r3  w1 = w1  w2 = w2
  Tenants = {t1}
  Keys = {k1}
  Requests = {r1, r2}
  Workers = {w1, w2}
  TenantOf <- OneKey
  KeyOf <- SameKey
  Streams = {r2}
  InitTotal <- KeyTotal3
  Estimates = {1}
  Costs = {2}
  Totals = {}
  Switched = {}
  Operated = {r1}
  Accepting = {w1, w2}
  Exiting = {w1}
  Lapsing = {w1}
  MaxAttempts = 1
  MaxFaults = 1
  NoCost = NoCost  Absent = Absent  NoOwner = NoOwner  NoNote = NoNote
INVARIANTS ReleasedUnsent UsageKept
CHECK_DEADLOCK FALSE
