\* Two accounts of one provider, one model: restrictions, bursts and pauses
\* against administration, logins, purges and time.
CONSTANTS
  c1 = c1 c2 = c2 c3 = c3 p1 = p1 p2 = p2
  Cred = {c1, c2}
  Provider = {p1}
  ProviderOf <- OneProvider
  Model = {m1}
  Kinds = {"restricted", "soft", "dead"}
  RetryAts <- RetryChoices
  BurstWindow = 1
  BurstCredentials = 2
  ProviderPause = 3
  SoftCooldown = 1
  PlanCooldown = 2
  OtherCooldown = 1
  ConcurrencyCooldown = 1
  RestrictedBase = 1
  RestrictedMax = 4
  ModelBase = 1
  ModelMax = 2
  BlockedBase = 1
  BlockedMax = 2
  BlockedShiftMax = 1
  Day = 3
  ResetHour = 1
  ErrThreshold = 2
  CountCap = 2
SPECIFICATION Spec
SYMMETRY AlikeAccounts
INVARIANT PoolSound
PROPERTIES RecoveryInstantKept ErrorsStayHome BurstPausesProvider
