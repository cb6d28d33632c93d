\* Three attempts on two accounts while the settings of pacer and limit change.
CONSTANTS
  a1 = a1 a2 = a2 b1 = b1 b2 = b2 r1 = r1 r2 = r2 r3 = r3
  Absent = Absent
  Cred = {a1, a2}
  Bucket = {b1, b2}
  PoolOf <- OwnPool
  BucketOf <- OwnBucket
  Caller = {r1, r2, r3}
  LeaseTTL = 1
  Limits = {0, 2}
  Paces <- AnyPace
  SwitchOnBusy = FALSE
  MaxLost = 1
SPECIFICATION FairCallsSpec
INVARIANT SlotsAreHeld
PROPERTIES ActsAsTurnstile TurnsCome
CHECK_DEADLOCK FALSE
