SPECIFICATION Spec
CONSTANTS
  LaneCount = 3
  TotalBlocks = 4
  BlockSize = 2
  Ctx = 3
  MaxChunk = 2
  Planes = 2
INVARIANTS
  OwnedOnce
  AttendsOwnHistory
PROPERTIES
  HeldBlocksStay
  ImplementsLedger
