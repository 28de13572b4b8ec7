SPECIFICATION FairFlow
CONSTANTS
  t1 = t1  k1 = k1  k2 = k2  stream = stream  job = job  chat = chat  large = large  other = other  w1 = w1  c1 = c1  c2 = c2
  Tenants = {t1}
  Keys = {k1, k2}
  Requests = {stream, job, chat, large}
  Workers = {w1}
  TenantOf <- TwoKeys
  KeyOf <- LargeAlone
  Streams = {stream}
  InitTotal <- NoTotals
  Estimates = {3}
  Costs = {0, 1, 2, 3, NoCost}
  Totals = {}
  Switched = {}
  Operated = {}
  Accepting = {w1}
  Exiting = {}
  Lapsing = {}
  MaxAttempts = 2
  MaxFaults = 1
  NoCost = NoCost  Absent = Absent  NoOwner = NoOwner  NoNote = NoNote
  Channels = {c1, c2}
  Candidates <- BothChannels
  KeyCount <- TwoAndOne
  Retries <- OneAndNone
  Idempotent = {stream, chat, large}
  Failing <- AllFailures
  TokenLimit <- Rates
  SlotLimit <- OneEach
  Others = {other}
  Crowded = {t1, k1}
  EstimatedInput = 1
  EstimatedOutput = 2
  ReportedInput = 1
  ReportedOutput = 1
  MaxText = 1
  MaxUpsets = 1
  MaxArrivals = 1
INVARIANTS ForwardedBilled CountersAccounted CallsBounded
PROPERTIES SentOnce RequestConcludes
CHECK_DEADLOCK FALSE
