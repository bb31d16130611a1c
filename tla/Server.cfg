CONSTANTS
  Requests = {r1, r2, r3}
  r3 = r3
  Credentials = {k1, k2}
  k1 = k1
  k2 = k2
  NoCredential = none
  Configs <- ConfigsDef
  Answers <- AnswersDef
  TransientRetries = 1
  MaxWaits = 1
  MaxLive = 2
  MaxReloads = 1
  Chunks <- ChunksDef
  MaxChunks = 4
  Texts <- TextsDef
  Bounds = {5, 20}
SPECIFICATION ServerSpec
INVARIANTS  StreamFaithful 
PROPERTY LateOutcomeHarmless
CHECK_DEADLOCK FALSE
