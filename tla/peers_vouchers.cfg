SPECIFICATION Spec
CONSTANTS
  Key <- MCKey
  Net <- MCTwoNets
  NetOf <- MCOwnNet
  Source <- MCSource
  Bucket <- MCBucket
  BucketOf <- MCSharedBucket
  Absent = Absent
  Local = Local
  Reserved <- MCNone
  Odd <- MCNone
  Vouchers = TRUE
  NativeVouchers = TRUE
  AnchorRead = FALSE
  BaseCap = 1
  VerifyMin = 1
  AliveNum = 4
  AliveDen = 5
  NetCap = 1
  DeadMaxAge = 0
  Cooldown = 0
  PruneAge = 0
  MaxAge = 1
  MaxClaim = 0
  MaxCap = 2
  MaxRestarts = 0
  DbMayFail = FALSE
  k1 = k1
  k2 = k2
  s1 = s1
  s2 = s2
  b1 = b1
  b2 = b2
  n1 = n1
  n2 = n2
SYMMETRY MCSharedSymmetry
INVARIANT FloodBound
INVARIANT CredibilityObserved
PROPERTY GrowthWithinCap
