SPECIFICATION FairSpec
CONSTANTS
  B = B
  T = T
  s1 = s1
  s2 = s2
  p = p
  q = q
  o = o
  Requests = {s1, s2, p, q, o}
  Models = {B, T}
  Scenarios <- SomeRequests
  Batched = {B}
  Fragile = {B, T}
  QueueDepth = 1
  MaxText = 1
  Streams = {s1, s2}
  Threads = 1
  PipeSize = 1
  MaxBeats = 1
  Leavers = {s1}
  Dozers = {s1}
  Endless = {s1}
INVARIANTS
  LocksHeld
  SseWellFormed
  PanicsContained
  WeightsStay
PROPERTIES
  EveryoneServed
  DisconnectStops
CHECK_DEADLOCK FALSE
