SPECIFICATION FairSpec
CONSTANTS
  Entry <- MCEntry
  Hash <- MCHash
  PerHour = 1
  FailLimit = 2
  Window = 1
  MaxRestarts = 1
  a = a
  b = b
  h1 = h1
  h2 = h2
INVARIANT TypeOK
PROPERTY MarkIsEarned
PROPERTY MarkIsServed
PROPERTY SilentIsMarked
PROPERTY HonestIsCleared
