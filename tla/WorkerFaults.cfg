SPECIFICATION Spec
CONSTANTS
  a = a
  b = b
  c = c
  d = d
  Jobs = {a, b, c}
  Prompt <- LongPrompt
  Requested <- LongRequest
  MaxSlots = 3
  BlockSize = 1
  TotalBlocks = 10
  Ctx = 12
  GenCap = 6
  ChunkSize = 3
  TokenBudget = 2
  Admission = "Elastic"
  UsizeMax = 99
  Env = {"cancel", "forward", "decoder", "panic"}
  MaxChannel = 1
INVARIANTS
  LaneLockstep
  NobodyLost
  PromptsInOrder
PROPERTIES
  KeepsPort
CHECK_DEADLOCK FALSE
