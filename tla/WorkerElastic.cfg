SPECIFICATION FairSpec
CONSTANTS
  a = a
  b = b
  c = c
  d = d
  Jobs = {a, b, c}
  Prompt <- TightPrompt
  Requested <- TightRequest
  MaxSlots = 2
  BlockSize = 1
  TotalBlocks = 7
  Ctx = 5
  GenCap = 5
  ChunkSize = 0
  TokenBudget = 0
  Admission = "Elastic"
  UsizeMax = 99
  Env = {"stop", "cancel"}
  MaxChannel = 2
INVARIANTS
  TypeOK
  ReservationsFit
  RunnersCovered
  StreamSeamless
  OldestAdvances
PROPERTIES
  SeniorNeverEvicted
  ImplementsLedger
  EveryoneAnswered
CHECK_DEADLOCK FALSE
