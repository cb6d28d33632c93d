\* Two requests on two credentials of two providers: rotation, limits, accounting.
CONSTANTS
  c1 = c1 c2 = c2 c3 = c3 p1 = p1 p2 = p2 r1 = r1 r2 = r2 r3 = r3 m1 = m1 m2 = m2
  None = None
  Cred = {c1, c2}
  Provider = {p1, p2}
  ProviderOf <- TwoProviders
  Model = {m1}
  Kinds = {"soft", "dead"}
  RetryAts <- NoHeader
  BurstWindow = 1
  BurstCredentials = 2
  ProviderPause = 2
  SoftCooldown = 1
  PlanCooldown = 2
  OtherCooldown = 1
  ConcurrencyCooldown = 1
  RestrictedBase = 1
  RestrictedMax = 1
  ModelBase = 1
  ModelMax = 1
  BlockedBase = 1
  BlockedMax = 1
  BlockedShiftMax = 0
  Day = 2
  ResetHour = 1
  ErrThreshold = 1
  CountCap = 1
  Req = {r1, r2}
  Streaming = {r1}
  ModelOf <- SameModel
  Answers = {"reject", "effort", "unknown"}
  MaxRotate = 2
  MaxQueueRounds = 1
  InflightLimit = 1
  ShortWait = 1
  Impatient = FALSE
SPECIFICATION EngineFairSpec
INVARIANTS SlotsComeBack CountedOnce
PROPERTIES OneVoice RequestsEnd
CHECK_DEADLOCK FALSE
