SPECIFICATION FairWindows
CONSTANTS
  t1 = t1  k1 = k1    r1 = r1  r2 = r2    w1 = w1  w2 = w2
  Tenants = {t1}
  Keys = {k1}
  Requests = {r1}
  Workers = {w1, w2}
  TenantOf <- OneKey
  KeyOf <- SingleRequest
  Streams = {}
  InitTotal <- NoTotals
  Estimates = {1}
  Costs = {2, NoCost}
  Totals = {}
  Switched = {}
  Operated = {r1}
  Accepting = {w1}
  Exiting = {w1}
  Lapsing = {w1}
  MaxAttempts = 2
  MaxFaults = 1
  Cap <- NoTotals
  Window = 1
  BucketTTL = 1
  MaxHour = 0
  MaxMisses = 1
  NoCost = NoCost  Absent = Absent  NoOwner = NoOwner  NoNote = NoNote
PROPERTIES OrphansTakenOver PendingDecided WindowsRecorded
CHECK_DEADLOCK FALSE
