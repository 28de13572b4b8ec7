SPECIFICATION SpecServices
CONSTANTS
  Protocols = {"chat", "responses", "messages"}
  ChoiceIds = {1, 2}
  MaxEvents = 5
  watcher1 = watcher1  watcher2 = watcher2
  Watchers = {watcher1, watcher2}
  Outcomes = {1, 2}
  Minute = 2
  MinRequests = 2
  ConfigTTL = 1
  Enabled <- Subscriptions
  MaxTime = 3
  Quiet <- QuietTime
  poolKey1 = poolKey1  poolKey2 = poolKey2
  create = create  remix = remix  user1 = user1  user2 = user2  video1 = video1  video2 = video2
  KeyPool <- TwoKeys
  Jobs = {create, remix}
  Remixes = {remix}
  Users = {user1, user2}
  UserOf <- SameUser
  Videos = {video1, video2}
  VideoOf <- NewVideos
  NoVideo = NoVideo
  NoUpstreamKey = NoUpstreamKey
  starter1 = starter1  starter2 = starter2  migrator = migrator  cred1 = cred1  cred2 = cred2
  Starters = {starter1, starter2}
  Migrator = migrator
  Credentials = {cred1, cred2}
  EnvKey = EnvKey  DefaultKey = DefaultKey  LegacyKey = LegacyKey
  NoFile = NoFile  Partial = Partial  Plain = Plain
  Requests <- SavedBodies
  MaxChars = 4
  StringChars = 4
  Turns = 2
  Limits <- Tightened
  LastPass = 2
  SecretChars = 3
  TailChars = 3
  MaxPiece = 2
  Spoken = {"chat", "responses"}
  MaxText = 5
  log1 = log1  log2 = log2  log3 = log3  log4 = log4  full = full  half = half  tiny = tiny
  admin1 = admin1  admin2 = admin2
  Reviewers = {admin1, admin2}
  Logs = {log1, log2, log3, log4}
  ExcerptOf <- Excerpted
  Short = {tiny}
  Chosen <- Picked
  Blocked = {half}
  MaxFaults = 1
  switch1 = switch1  switch2 = switch2  asker1 = asker1  asker2 = asker2  reset1 = reset1
  alpha = alpha  beta = beta  gamma = gamma  loose = loose  long = long  cut = cut  short = short
  Askers = {asker1, asker2}
  Resetters = {reset1}
  Switchers = {switch1, switch2}
  ValueOf <- Switched
  Forms <- Patches
  MaxFallbacks = 2
  NoName = NoName
  ModelNames <- Spelled
  NameOf <- Collapsed
  Orders <- BothWays
  StoreOrder <- Stored
  Low = 0
  High = 3
  Usual = 2
  NoToken = NoToken  NoSetting = NoSetting
  MaxBlocks = 2
  Allowance = 4
  client1 = client1  client2 = client2  limited = limited  unlimited = unlimited  firm = firm
  try1 = try1  try2 = try2  try3 = try3  near = near  far = far  root = root
  Clients = {client1, client2}
  Keys = {limited, unlimited}
  KeyOf <- Callers
  Tenant = firm
  Rate <- PerMinute
  Logins = {try1, try2, try3}
  AddressOf <- Addresses
  Username = root
  LoginMaxFailures = 2
  MaxChanges = 2
  MaxDeaths = 1
  settled1 = settled1  atOnce = atOnce  apiKey = apiKey  owner = owner  system = system
  route = route  noRoute = noRoute  talk = talk  noTalk = noTalk  worker = worker
  Calls = {settled1, atOnce}
  FactsOf <- Facts
  Settled = {settled1}
  NoChannel = noRoute
  NoTenant = NoTenant
  NoSession = noTalk
  Internal = {system}
  LastDay = 2
  Retention = 1
  Sweepers = {worker}
  MaxStops = 1
  shopA = shopA  shopB = shopB  upstreamName = upstreamName
  Shops = {shopA, shopB}
  Aliases = {alpha, beta}
  ActualOf <- Mapped
  Factor <- Multipliers
  Reference <- ReferencePrices
  SalePrices = {2, 5}
  AllNames = {alpha, beta, upstreamName}
  Unpriceable <- AbsentUsage
  Sizes = {0, 2}
  OutputCaps <- CapsAsked
  Numbers = {0, 1, 3}
  FullReply = 3
  Usages <- UsagesReported
  Absent <- AbsentUsage
  Unset = Unset
INVARIANTS
  StreamsAgree HomeReached CredentialsKept ExcerptKeepsLatest SecretSeen AskedOnce
  AccessSound TotalsOutliveLogs CatalogueAgrees BillFounded
PROPERTIES SettingsAgree AlertsFounded MarksBounded
CHECK_DEADLOCK FALSE
