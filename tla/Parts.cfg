SPECIFICATION SpecParts
CONSTANTS
  tenant = tenant  key1 = key1  key2 = key2  count = count  video = video  chat = chat  w1 = w1  w2 = w2
  a = a  b = b  c = c  main = main  f = f  x = x  s1 = s1  s2 = s2  d1 = d1  s = s  e = e  lone = lone
  u1 = u1  u2 = u2  h1 = h1  h2 = h2  y1 = y1  y2 = y2  g1 = g1  q1 = q1  q2 = q2  o1 = o1  o2 = o2
  x1 = x1  x2 = x2  l1 = l1  l2 = l2  p1 = p1  p2 = p2
  t1 = t1  t2 = t2  k1 = k1  k2 = k2  k3 = k3  c1 = c1  c2 = c2  c3 = c3
  Operations = {count, video, chat}
  Billed = {chat}
  Owners = {tenant, key1, key2}
  Path <- OnePath
  Workers = {w1, w2}
  WorkerOf <- OnWorkers
  Skew <- Clocks
  LeaseTTL = 3
  SlotLimit <- Slots
  TokenLimit <- Rates
  Tokens <- TokensAsked
  Actual = {1, 3}
  MaxSlips = 1
  MaxCrashes = 1
  Channels = {a, b, c}
  Serves <- ServedBy
  Mapping <- Names
  Priority <- Ranks
  Model = main
  Fallbacks <- Chains
  Cheaper <- Downgrades
  Models = {main, f}
  Allowed = {main, f}
  Selected = {}
  Priced = {main, f}
  Prices = {1}
  Override <- Fixed
  NoPrice = NoPrice
  None = None
  Sweepers = {s1, s2}
  Callers = {d1}
  Scheduled <- Listed
  OnDemand = {lone}
  Longest <- Durations
  Broken = {}
  Rate = 1
  Interval = 2
  Limit = 2
  LockTTL = 3
  ClaimTTL = 1
  MaxMishaps = 0
  Quotes <- Offered
  Step = 4
  Texts <- Bodies
  BlobTokens = 2
  NoCap = NoCap
  Caps = {NoCap, 0, 3}
  DefaultCap = 2
  Units = {0, 1}
  Reported <- Seen
  Unknown = Unknown
  Admins = {u1, u2}
  Tenants = {}
  Handlers = {h1, h2}
  Passwords = {initial, default, chosen}
  Initial = initial
  Default = default
  NoPassword = NoPassword
  MaxVersion = 2
  Keys = {y1, y2}
  Selectable = {g1}
  Requests = {q1, q2}
  Adjustments = {o1, o2}
  Amounts = {1, 2}
  KeyLimits = {1, 2}
  NoAmount = NoAmount
  NoKey = NoKey
  Changes = {x1, x2}
  Readers = {l1, l2}
  At <- Located
  TTL = 2
  MaxRollbacks = 1
  TenantRows = {t1, t2}
  KeyRows = {k1, k2, k3}
  SettlementRows = {1, 2, 3}
  TenantOf <- KeyTenants
  KeyOf <- RowKeys
  Sessions = {c1, c2, c3}
INVARIANTS LimitsHold HoldCovers StaleBounded NoDeadlock
PROPERTIES RouteSound ChecksApart AccountsSound ChangesKept
CHECK_DEADLOCK FALSE
