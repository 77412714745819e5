SPECIFICATION ServicesSpec
CONSTANTS
  Calls = {"c1", "c2"}
  Requests <- ApiRequests
  References = {"r1", "r2"}
  FaultResponses <- ApiFaults
  Mode = "realistic"
  DefaultUrl <- HookUrl
  DefaultRedirect <- ShopUrl
  FaultLife = 1
  TicksOf <- ApiTicks
  MaxFaults = 1
  MaxTimes = 2
  ApiHorizon = 2
  MaxSafeInteger = 4
  Configured = {1, 2}
  WebhookAllowlist <- HookList
  AllowedOrigins <- ShopOrigins
  Spellings = {"shop", "other"}
  Canonical <- CanonicalName
  TokenLife = 1
  CacheLife = 1
  Snapshots = {"failed"}
  SimHorizon = 1
  WallHorizon = 1
  MaxLoads = 2
  MaxEvents = 2
  MaxSubmits = 2
  Tabs = {"t1", "t2"}
  SessionIdle = 1
  SessionAbsolute = 2
  MaxSessions = 2
  AdminHorizon = 3
  CounterKeys = {"transaction", "order"}
  Kinds = {"secret_key", "hmac_secret"}
  Secrets = {"k1", "k2"}
  Integrations = {1001, 1002}
  BuiltIns = {"s1"}
  Images = {"v1", "v2"}
  MaxIds = 2
  MaxStarts = 2
INVARIANTS
  ApiTablesSound
  OrderFollowsPayment
  RedirectsVerify
  PageShowsPayment
  
  StartsSound
PROPERTIES
  ClosedKeepTerms
  OrderEndsOnce
  PageCatchesUp
CHECK_DEADLOCK FALSE
