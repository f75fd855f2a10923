SPECIFICATION Spec
CONSTANTS
  Addr <- MCAddr4
  Bucket <- MCBucket
  BucketOf <- MCBucketOf
  Absent = Absent
  Bucketed = TRUE
  TriedTable = TRUE
  AnchorRead = TRUE
  MaxTracked = 2
  PerBucket = 1
  TriedThreshold = 1
  BatchSize = 1
  PruneAge = 0
  MaxAge = 1
  MaxRestarts = 0
  x1 = x1
  x2 = x2
  y1 = y1
  z1 = z1
  X = X
  Y = Y
  Z = Z
SYMMETRY MCSymmetry
INVARIANT BucketBound
PROPERTY TriedOutlast
PROPERTY FaithfulOutlast
