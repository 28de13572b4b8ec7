SPECIFICATION SpecProbes
CONSTANTS
  r1 = r1  p1 = p1  p2 = p2  w1 = w1  w2 = w2  b = b  h = h
  Attempts = {r1}
  Probers = {p1, p2}
  Threshold = 2
  MaxAborts = 1
  Sweepers = {w1, w2}
  Callers = {}
  Scheduled <- Listed
  OnDemand = {}
  Longest <- Bounds
  Broken = {b}
  Rate = 0
  Interval = 2
  Limit = 2
  LockTTL = 3
  ClaimTTL = 1
  MaxMishaps = 1
PROPERTIES ChannelRecovers ChecksGoOn
CHECK_DEADLOCK FALSE
