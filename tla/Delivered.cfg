CONSTANTS
  a = a
  b = b
  Jobs <- MCJobs
  Mortal <- MCMortal
  MaxTokens = 2
SPECIFICATION FairSpec
CHECK_DEADLOCK FALSE
INVARIANTS
  JoinReturnsEverything
  ReplyOnceAndAwaited
PROPERTIES
  RepliesReachCallers
