SPECIFICATION SpecWindows
CONSTANTS
  t1 = t1  k1 = k1  r1 = r1  r2 = r2  w1 = w1  w2 = w2
  Tenants = {t1}
  Keys = {k1}
  Requests = {r1, r2}
  Workers = {w1}
  TenantOf <- OneKey
  KeyOf <- SameKey
  Streams = {r1, r2}
  InitTotal <- NoTotals
  Estimates = {2}
  Costs = {1}
  Totals = {}
  Switched = {}
  Operated = {}
  Accepting = {w1}
  Exiting = {}
  Lapsing = {}
  MaxAttempts = 2
  MaxFaults = 0
  NoCost = NoCost  Absent = Absent  NoOwner = NoOwner  NoNote = NoNote
  Cap <- BothCaps
  Window = 2
  BucketTTL = 2
  MaxHour = 3
  MaxMisses = 1
INVARIANT WindowExact
CHECK_DEADLOCK FALSE
