SPECIFICATION FairSpec
CONSTANTS
  Clients <- OneClient
  Pollers <- Nobody
  Keepers <- OneKeeper
  Passes <- TouchPass
  Async = async
  Models <- OneModel
  NoModel = nomodel
  Fallback = m1
  Answers <- Refused
  MaxInst = 2
  MaxRefresh = 2
  MaxOuter = 2
  HasStore = FALSE
  MaxCrashes = 0
  c1 = c1
  c2 = c2
  p1 = p1
  k1 = k1
  m1 = m1
  m2 = m2
PROPERTY EnsureReturns
