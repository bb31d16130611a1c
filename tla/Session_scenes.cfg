SPECIFICATION ScenesSpec
CONSTANTS
  Clients <- TwoClients
  Pollers <- OnePoller
  Keepers <- OneKeeper
  Passes <- ScenePasses
  Async = async
  Models <- TwoModels
  NoModel = nomodel
  Fallback = m1
  Answers <- SceneAnswers
  MaxInst = 2
  MaxRefresh = 2
  MaxOuter = 2
  HasStore = TRUE
  MaxCrashes = 1
  c1 = c1
  c2 = c2
  p1 = p1
  k1 = k1
  m1 = m1
  m2 = m2
CONSTRAINT SceneBound
INVARIANTS SingleAdmission OncePerExpiry RecordTracksSession
PROPERTY SeatKept
