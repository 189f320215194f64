SPECIFICATION Spec
CONSTANTS
  A = A
  B = B
  MemoryRuns = {A, B}
  RedisRuns = {A}
  Clients = {1, 2}
  MaxFrames = 3
  MaxJoins = 2
  MaxTrouble = 1
  MaxFramesPerRun = 1
  MaxRetainedRuns = 1
  StreamMaxLen = 2
  SubscriberBufferFrames = 1
INVARIANT ClosedMeansComplete
INVARIANT ChannelsBounded
PROPERTY KeepsStreamContract
CHECK_DEADLOCK FALSE
