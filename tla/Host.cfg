CONSTANTS
  soloRoot = soloRoot
  coopRoot = coopRoot
  Namespace = {soloRoot, coopRoot}
  NoNamespace = NoNamespace
  Solo = soloRoot
  MaxStamp = 2
  MaxImages = 4
  ConnectTimeout = 2
  PeerTimeout = 1
  RenderEvery = 2
  HighWater = 1
  Deepest = 2
SPECIFICATION BenchSpec
INVARIANTS
  NoLostWakeup
  FramesOfTheMatch
  ConsumerMayRun
PROPERTIES
  StoreSpec
  StorageProgress
  SessionEnds
  WaitEnds
