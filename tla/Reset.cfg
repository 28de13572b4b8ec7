SPECIFICATION SpecReset
CONSTANTS
  t1 = t1  k1 = k1  k2 = k2  r1 = r1  r2 = r2  w1 = w1  w2 = w2
  Tenants = {t1}
  Keys = {k1}
  Requests = {r1}
  Workers = {w1, w2}
  TenantOf <- OneKey
  KeyOf <- SingleRequest
  Streams = {r1, r2}
  InitTotal <- KeyTotal3
  Estimates = {1}
  Costs = {2}
  Totals = {}
  Switched = {}
  Operated = {}
  Accepting = {w1}
  Exiting = {}
  Lapsing = {}
  MaxAttempts = 1
  MaxFaults = 0
  NoCost = NoCost  Absent = Absent  NoOwner = NoOwner  NoNote = NoNote
  Monthly = {k1}
  Edited = {k1}
  Start = 1
  MaxClock = 3
INVARIANT ResetOnce
PROPERTY ResetImplementsLedger
CHECK_DEADLOCK FALSE
