\* Conversations over three accounts of two channels.
CONSTANTS
  a = a b = b c = c c1 = c1 c2 = c2 c3 = c3 p1 = p1 p2 = p2
  m1 = m1 m2 = m2 m3 = m3 fast = fast u1 = u1 u2 = u2 id = id elsewhere = elsewhere
  Sticky = 2
  MaxEntries = 2
  Nobody = Nobody
  SnapshotTTL = 2
  NoSnapshot = NoSnapshot
  Unknown = Unknown
  Channel = {p1, p2}
  Anywhere = Anywhere
  Cred = {c1, c2, c3}
  ProviderOf <- TwoChannels
  Model = {m1, m2, m3, fast}
  Settings <- Instances
  MaxRotate = 2
  MaxTurns = 2
  MaxUse = 2
  Followable = {"turn", "ask", "tables", "list", "live"}
  PerHour = 2
  Overlap = 1
  Retain = 3
  Null = Null
  LastTick = 4
  MostEvents = 2
  Samples <- Attempts
  Prices = {1, 2}
  MaxScripts = 1
  Queries <- Pages
  ModelErrors = {"unavailable"}
  MinGen = 1
  MaxTps = 9
  MaxDense = 2
  Watcher = {w1, w2}
  w1 = w1 w2 = w2
  Wishes <- Wanted
  Shown <- Few
  MostShown = 4
  PageSize = 2
  MaxSubscribers = 1
  MaxBuffered = 2
  v1 = v1 v2 = v2 None = None
  Tried = {"codebuddy", "qoder", "intl", "trae", "zen"}
  Window <- Windows
  Floor <- Floors
  Reserve = 1
  MinKeep = 2
  Memories = 1
  Efforts <- EffortNamed
  EffortMap <- Maps
  Thresholds <- Budgets
  Cases <- AllCases
  MaxTries = 2
SPECIFICATION RequestLifeSpec
INVARIANTS ServedAsAsked LimitsFollowUse AsksWhole TablesAgree FeedsExact
PROPERTIES StaysHome PrefixKept
\* A client has said all that it will say.
CHECK_DEADLOCK FALSE
