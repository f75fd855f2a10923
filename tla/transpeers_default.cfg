SPECIFICATION FairSpec
CONSTANTS
  Addr <- MCAddr3
  Bucket <- MCBucket
  BucketOf <- MCBucketOf
  Absent = Absent
  Bucketed = FALSE
  TriedTable = FALSE
  AnchorRead = FALSE
  MaxTracked = 2
  PerBucket = 1
  TriedThreshold = 1
  BatchSize = 1
  PruneAge = 0
  MaxAge = 1
  MaxRestarts = 1
  x1 = x1
  x2 = x2
  y1 = y1
  z1 = z1
  X = X
  Y = Y
  Z = Z
INVARIANT CapacityBound
INVARIANT DiskMirrors
PROPERTY RotationReaches
