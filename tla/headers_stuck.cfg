SPECIFICATION FairSpec
CONSTANTS
  Node <- MCNode
  Daemon <- MCDaemon
  Readers <- MCNode
  Branch <- MCBranch
  Difficulty <- MCDifficulty
  NoView = NoView
  Idle = Idle
  StaleTip = 1
  MaxPast = 4
  MaxHeight = 3
  MaxReorgs = 1
  MaxRestarts = 0
  d1 = d1
  r1 = r1
  left = left
  right = right
PROPERTY SourceFollows
