SPECIFICATION FairSpec
CONSTANTS
  A = A
  B = B
  MemoryRuns = {A, B}
  RedisRuns = {A}
  Clients = {1, 2}
  MaxFrames = 2
  MaxJoins = 2
  MaxTrouble = 1
  MaxFramesPerRun = 1
  MaxRetainedRuns = 1
  StreamMaxLen = 1
  SubscriberBufferFrames = 1
PROPERTY StreamsEnd
CHECK_DEADLOCK FALSE
