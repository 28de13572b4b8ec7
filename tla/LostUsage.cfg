SPECIFICATION Spec
CONSTANTS
  t1 = t1  k1 = k1  k2 = k2  r1 = r1  r2 = r2  r3 = r3  w1 = w1  w2 = w2
  Tenants = {t1}
  Keys = {k1}
  Requests = {r1}
  Workers = {w1}
  TenantOf <- OneKey
  KeyOf <- SingleRequest
  Streams = {}
  InitTotal <- KeyTotal3
  Estimates = {1}
  Costs = {2, NoCost}
  Totals = {}
  Switched = {}
  Operated = {r1}
  Accepting = {w1}
  Exiting = {}
  Lapsing = {}
  MaxAttempts = 2
  MaxFaults = 3
  NoCost = NoCost  Absent = Absent  NoOwner = NoOwner  NoNote = NoNote
INVARIANT ActualUsageKept
CHECK_DEADLOCK FALSE
