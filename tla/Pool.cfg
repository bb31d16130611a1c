CONSTANTS
  a1 = a1
  a2 = a2
  Accts = {a1, a2}
  Walkers = {w1}
  Probers = {p1}
  Admins = {d1}
  NoAcct = NoAcct
  NoRow = NoRow
  MaxNow = 2
  MaxChats = 1
  MaxEdits = 1
  MaxDeaths = 1
  Settings <- SettingsDef
  FirstWeekday = 4
  MonthFirst <- Year2026
  Hours <- HoursDef
  Amounts = {2}
  MaxSpends = 2
  NoLedger = NoLedger
  Clients = {k1, k2}
  BridgeReqs = {q1, q2}
  Sweeper = sweeper
  maxBridgeEntries = 1
  createGate = 2
  MaxBuilt = 3
  Slots = {s1}
  Turns = {t1, t2, t3}
  Removals = {"last"}
  NoSlot = NoSlot
SPECIFICATION PoolSpec
INVARIANTS BanHeld  SpendExact EntriesSafe 
CHECK_DEADLOCK FALSE
