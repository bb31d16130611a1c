CONSTANTS
  Calls = {1}
  Retries = 2
  WaitingRoomRetries = 1
  Tokens = {1, 2, 3}
  Balances = {0, 1, 2}
  Unblocks = {1, 2}
  MaxTurns = 2
  DayHours = 3
  Prices = {1, 3}
  MaxHour = 4
  OfferedNames <- OfferedDef
  Official <- OfficialDef
  Signatures <- SignaturesDef
  Harness <- HarnessDef
  Unwireable <- UnwireableDef
  Marks <- MarksDef
  MaxTools = 4
  MaxQuirks = 3
  CallIds = {"b.", " :"}
  Cleaned <- CleanedDef
  UseKinds = {"server_tool_use"}
  Inputs = {"object", "none"}
  KeepLasts = {0, 1, 2}
  MaxParts = 4
  Ladders <- LaddersDef
  Rungs = 7
  Medium = 3
  High = 4
  Budgets = {512, 513, 8193, 30000}
  BudgetTops <- TopsDef
  MaxAsked = 4
SPECIFICATION RequestsSpec
INVARIANTS RepeatsCounted PassHonest  
CHECK_DEADLOCK FALSE
