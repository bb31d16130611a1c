CONSTANTS
  A = A  B = B  x = x  y = y  n1 = n1  n2 = n2
  Tokens = {A, B}
  Passwords = {p}
  Factory = factory
  Absent = Absent
  MaxEntries = 5
  MaxSaves = 2
  MaxFaults = 1
  Deployments <- DeploymentsDef
  IPs = {i1, i2}
  Posts = {p1, p2, p3}
  LoginSlots = 2
  MaxFails = 2
  Lockout = 2
  FailsCap = 1
  GlobalFailMax = 3
  GlobalWindow = 3
  GlobalLockout = 1
  GlobalLockoutMax = 3
  Fingerprints = {p1, p2}
  Tabs = {i1, i2}
  MaxFlows = 3
  MaxLoginClock = 7
  Turns <- TurnsDef
  Shapes = {"flat"}
  MaxReasoning = 2
  ReasoningTTL = 1
  MaxPuts = 3
  Replays = {x}
  Schemas = {x, y, n1}
  SchemaMax = 2
  Normalizers = {n1, n2}
  MaxMisses = 5
  Clients = {x, y, n1}
  Rates <- RatesDef
  Token = 3
  MaxClients = 2
  StaleAfter = 3
  MaxCacheClock = 4
  Latest = 5
  Adding = {3, 5}
  MaxCrashes = 2
  Layouts <- LayoutsDef
  OldFiles <- OldFilesDef
  SessionFiles <- SessionFilesDef
  PersistTables <- PersistTablesDef
  HistoryTables <- HistoryTablesDef
  Hashes = {"h"}
  MaxBoots = 2
  MaxBusy = 1
  EnvKeys = {1, 2}
  EnvValues = {3, 4}
  RenameAttempts = 2
  MaxWrites = 3
  MaxDeaths = 2
  MetaBudget = 2
  AssetBudget = 3
  SwapTries = 2
  MaxRuns = 3
SPECIFICATION DeskSpec
INVARIANTS  LoginGuarded CachesHonest DiskKept
PROPERTY ConfiguredIsServed
CHECK_DEADLOCK FALSE
