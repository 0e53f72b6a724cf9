\* Three webhooks, two goroutines, a channel of one.
SPECIFICATION FairSpec
CONSTANTS
  Webhooks = {h1, h2, h3}
  Workers = {w1, w2}
  BufferSize = 1
INVARIANTS
  TypeOK
  NoneLost
  GaugeTracksQueue
PROPERTIES
  AcceptedIsProcessed
  IdleMissesOnlyTaken
  StopReturns
CHECK_DEADLOCK FALSE
