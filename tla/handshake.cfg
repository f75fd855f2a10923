SPECIFICATION Spec
CONSTANTS
  Client <- MCClients
  NoProof = NoProof
  NoAsk = NoAsk
  Limit = 2
  RateWindow = 2
  MaxKeys = 1
  LoadWindow = 3
  RecomputeEvery = 2
  Threshold = 2
  LoadSpan = 1
  MinEffort = 1
  MaxEffort = 2
  BucketSecs = 2
  MaxTime = 6
  MaxPerTick = 2
  MaxRestarts = 1
  c1 = c1
  c2 = c2
CHECK_DEADLOCK FALSE
INVARIANT TypeOK
PROPERTY ImplementsLimiter
PROPERTY QuietIsFree
PROPERTY FloodIsCharged
PROPERTY WorkIsHonoured
