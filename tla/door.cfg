\* The scenes of the front door, and logins to each kind of upstream.
CONSTANTS
  k1 = k1 u1 = u1 u2 = u2 q1 = q1 q2 = q2 b1 = b1 b2 = b2 h1 = h1 h2 = h2
  ip1 = ip1 ip2 = ip2 None = None Nobody = Nobody
  Scenes = {"quota", "guess", "govern", "shell",
            "codebuddy", "qoder", "officeace", "codearts", "trae"}
  Person = {u1, u2}
  Browser = {b1, b2}
  Address = {ip1, ip2}
  AddressOf <- Addresses
  InFile = {u1}
  Named = {u1}
  Passwords = {"a", "b"}
  SessionLife = 1
  ActivationLife = 0
  Slack = 0
  FailWindow = 2
  MaxGlobal = 3
  MaxPerIp = 2
  MaxPerUser = 1
  MaxKeys = 3
  Hashers = 1
  MaxEpoch = 1
  Key = {k1}
  User = {u1}
  Req = {q1, q2}
  KeyOf <- OneKeyOnePlayground
  UserOf <- SameUser
  TokensOf <- Tokens
  Quotas <- QuotaChoices
  Window = 2
  MaxEvents = 3
  Channel = {"codebuddy", "qoder", "officeace", "codearts", "trae"}
  Starters <- AdminsOf
  Handler = {h1, h2}
  Alias = {"uid", "name"}
  MaxLogins <- LoginsOf
  LoginTTL = 1
  MaxPending = 1
SPECIFICATION FairDoorSpec
INVARIANTS ThrottleHolds SlotsFollowRequests LoginsLandOnce
PROPERTIES AccountsGuarded AdmissionsWithinQuota NeverLockedOut
CHECK_DEADLOCK FALSE
