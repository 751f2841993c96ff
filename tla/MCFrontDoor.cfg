SPECIFICATION MCSpec
CONSTANTS
  r1 = r1
  r2 = r2
  v1 = v1
  v2 = v2
  b1 = b1
  b2 = b2
  b3 = b3
  a1 = a1
  a2 = a2
  k1 = k1
  learner = learner
  other = other
  receipt = receipt
  phone = phone
  p1 = p1
  p2 = p2
  Calls = {r1, r2}
  GroupLimit = 3
  TutorLimit = 2
  Window = 2
  MaxCount = 5
  LimitFaults = {"redis", "ttl"}
  Verifications = {v1, v2}
  LastKey = 4
  Hour = 2
  KeyFaults = {"fetch"}
  BillingCalls = {b1, b2, b3}
  Intents <- MCIntents
  NoKey = "none"
  Keys = {k1, "none"}
  Customers = {learner, other}
  Transactions = {receipt}
  Devices = {phone}
  Term = 1
  Kept = 1
  LastDay = 2
  BillingFaults = {"get", "set", "record", "save", "read", "push", "crash"}
  Identities = {p1, p2}
  Names = {"first", "second"}
  FirstName = "first"
  AccountCalls = {a1, a2}
  Asks = {"signin", "telegram", "guest", "refresh", "me", "delete", "admin", "publish", "patch", "save"}
  Opened <- MCOpened
  LastAccount = 3
  HandSigned <- MCHandSigned
  OlderRoutes = TRUE
  Defaults = {"user_preferences"}
  Settings = {"user_preferences", "user_onboardings"}
  AccountFaults = {"select", "insert", "defaults", "update", "write"}
SYMMETRY Symmetry
CHECK_DEADLOCK FALSE
INVARIANTS
  FrontDoorTypeOK
  LimitersHold
  KeyCacheIsSound
  OrderlyKeyRunsOnce
  TermsRunAndEnd
  DeletionIsFinal
  OrderlyAccounts
