\* The runner with the rounds of its tasks, and the settings they read.
CONSTANTS
  c1 = c1 a1 = a1 a2 = a2 s1 = s1 admin = admin login = login
  Task = {"quota_probe", "refresh", "checkin", "growth", "alert", "retention"}
  FirstRounds <- ProbeThenRefresh
  MaxStreak = 2
  Cred = {c1}
  Job = {"start", "loop", "page"}
  Admin = {admin}
  Login = {login}
  Nobody = Nobody
  MaxToken = 3
  MaxWriters = 1
  Accounts <- InOrder
  Scope = {s1}
  ScopeOf <- OneScope
  Signer = {"loop", "page"}
  DayLength = 2
  CycleEnd = 1
  SlotPlans <- Plans
  Jitter = 1
  LongestBackoff = 2
  MaxSuspended = 1
  Seasons <- FewOffers
  MaxStock = 1
  MaxLost = 1
  MaxPressed = 1
  Topic = {"quota_probe"}
  ForTicks = 2
  ClearTicks = 2
  Silence = 1
  Keep = 1
  PerHour = 2
  Overlap = 2
  Retain = 4
  LastTick = 8
  MostEvents = 2
  Null = Null
  Samples <- Attempts
  Prices = {1}
  MaxScripts = 0
  Hot <- Bound
  Low = "pacer_min_seconds"
  High = "pacer_max_seconds"
  Strange = {"pacer"}
  Value = {0, 1, 2}
  LegalFor <- UpTo1
  Environments <- OnlyOrdered
  Reset = Reset
  Plain <- NoWait
  Threshold = 2
  MaxRestarts = 1
SPECIFICATION FairTasksSpec
INVARIANTS HardDisableDeserved RestartsLoseNothing
PROPERTIES NothingOverwritten SealsHold EveryAccountServed AlertsFollowTasks
