SPECIFICATION SpecFlow
CONSTANTS
  t1 = t1  k1 = k1  k2 = k2  stream = stream  job = job  chat = chat  large = large  other = other  w1 = w1  c1 = c1  c2 = c2
  Tenants = {t1}
  Keys = {k1}
  Requests = {chat}
  Workers = {w1}
  TenantOf <- OneKey
  KeyOf <- OnlyChat
  Streams = {}
  InitTotal <- NoTotals
  Estimates = {3}
  Costs = {0, 1, 2, 3, NoCost}
  Totals = {}
  Switched = {}
  Operated = {}
  Accepting = {w1}
  Exiting = {}
  Lapsing = {}
  MaxAttempts = 2
  MaxFaults = 0
  NoCost = NoCost  Absent = Absent  NoOwner = NoOwner  NoNote = NoNote
  Channels = {c1, c2}
  Candidates <- BothChannels
  KeyCount <- TwoAndOne
  Retries <- OneAndNone
  Idempotent = {chat}
  Failing <- AllFailures
  TokenLimit <- Rates
  SlotLimit <- OneEach
  Others = {other}
  Crowded = {t1, k1}
  EstimatedInput = 1
  EstimatedOutput = 2
  ReportedInput = 1
  ReportedOutput = 1
  MaxText = 1
  MaxUpsets = 0
  MaxArrivals = 1
INVARIANT UnknownKept
CHECK_DEADLOCK FALSE
