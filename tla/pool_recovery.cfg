\* One account, one model, every error kind, and time that keeps passing.
CONSTANTS
  c1 = c1 c2 = c2 c3 = c3 p1 = p1 p2 = p2
  Cred = {c1}
  Provider = {p1}
  ProviderOf <- OneProvider
  Model = {m1}
  Kinds <- SchedulerKinds
  RetryAts <- RetryChoices
  BurstWindow = 1
  BurstCredentials = 2
  ProviderPause = 3
  SoftCooldown = 1
  PlanCooldown = 2
  OtherCooldown = 1
  ConcurrencyCooldown = 1
  RestrictedBase = 1
  RestrictedMax = 4
  ModelBase = 1
  ModelMax = 2
  BlockedBase = 2
  BlockedMax = 3
  BlockedShiftMax = 1
  Day = 3
  ResetHour = 1
  ErrThreshold = 2
  CountCap = 2
SPECIFICATION FairSpec
PROPERTY PoolRecovers
