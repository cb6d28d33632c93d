\* Queue signals, downgrades, restrictions and clients that go away at any await.
CONSTANTS
  c1 = c1 c2 = c2 c3 = c3 p1 = p1 p2 = p2 r1 = r1 r2 = r2 r3 = r3 m1 = m1 m2 = m2
  None = None
  Cred = {c1, c2}
  Provider = {p1}
  ProviderOf <- OneProvider
  Model = {m1}
  Kinds = {"restricted"}
  RetryAts <- NoHeader
  BurstWindow = 0
  BurstCredentials = 2
  ProviderPause = 1
  SoftCooldown = 1
  PlanCooldown = 2
  OtherCooldown = 1
  ConcurrencyCooldown = 1
  RestrictedBase = 1
  RestrictedMax = 1
  ModelBase = 1
  ModelMax = 1
  BlockedBase = 1
  BlockedMax = 1
  BlockedShiftMax = 0
  Day = 2
  ResetHour = 1
  ErrThreshold = 1
  CountCap = 1
  Req = {r1, r2}
  Streaming = {r1}
  ModelOf <- SameModel
  Answers = {"queue", "effort", "request"}
  MaxRotate = 1
  MaxQueueRounds = 1
  InflightLimit = 0
  ShortWait = 0
  Impatient = TRUE
SPECIFICATION EngineFairSpec
INVARIANT RotationBudget
PROPERTY SlotsDrain
CHECK_DEADLOCK FALSE
