SPECIFICATION Spec
CONSTANTS
  a = a
  b = b
  c = c
  d = d
  Jobs = {a, b, c}
  Prompt <- TightPrompt
  Requested <- TightRequest
  MaxSlots = 2
  BlockSize = 1
  TotalBlocks = 7
  Ctx = 12
  GenCap = 5
  ChunkSize = 0
  TokenBudget = 0
  Admission = "Elastic"
  UsizeMax = 99
  Env = {"Unload"}
  MaxChannel = 2
PROPERTIES
  UnloadOnlyWhenDrained
CHECK_DEADLOCK FALSE
