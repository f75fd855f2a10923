SPECIFICATION FairSpec
CONSTANTS
  Node <- MCNode
  Daemon <- MCDaemon
  Readers <- MCNode
  Branch <- MCBranch
  Difficulty <- MCDifficulty
  NoView = NoView
  Idle = Idle
  StaleTip = 0
  MaxPast = 2
  MaxHeight = 2
  MaxReorgs = 1
  MaxRestarts = 1
  d1 = d1
  r1 = r1
  left = left
  right = right
INVARIANT TypeOK
INVARIANT ViewIsServed
PROPERTY TradedForLonger
PROPERTY ReaderCatchesUp
