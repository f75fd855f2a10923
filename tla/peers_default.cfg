SPECIFICATION FairSpec
CONSTANTS
  Key <- MCOneKey
  Net <- MCNet
  NetOf <- MCNetOf
  Source <- MCOneSource
  Bucket <- MCBucket
  BucketOf <- MCOwnBucket
  Absent = Absent
  Local = Local
  Reserved <- MCNone
  Odd <- MCNone
  Vouchers = FALSE
  NativeVouchers = FALSE
  AnchorRead = FALSE
  BaseCap = 1
  VerifyMin = 2
  AliveNum = 4
  AliveDen = 5
  NetCap = 2
  DeadMaxAge = 1
  Cooldown = 1
  PruneAge = 2
  MaxAge = 3
  MaxClaim = 2
  MaxCap = 2
  MaxRestarts = 1
  DbMayFail = FALSE
  k1 = k1
  k2 = k2
  s1 = s1
  s2 = s2
  b1 = b1
  b2 = b2
  n1 = n1
  n2 = n2
INVARIANT DiskMirrors
INVARIANT NotWhileCooling
INVARIANT ServedWasProven
PROPERTY DeadEventuallyUnserved
PROPERTY LiveEventuallyServed
