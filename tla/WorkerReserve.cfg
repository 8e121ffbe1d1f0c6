SPECIFICATION Spec
CONSTANTS
  a = a
  b = b
  c = c
  d = d
  Jobs = {a, b, d}
  Prompt <- OddPrompt
  Requested <- OddRequest
  MaxSlots = 2
  BlockSize = 1
  TotalBlocks = 5
  Ctx = 8
  GenCap = 4
  ChunkSize = 0
  TokenBudget = 0
  Admission = "Reserve"
  UsizeMax = 99
  Env = {"stop", "cancel", "tokenize", "Shutdown", "Load", "Unload", "ClearState"}
  MaxChannel = 2
INVARIANTS
  ReasonHonest
PROPERTIES
  UnloadOnlyWhenDrained
CHECK_DEADLOCK FALSE
