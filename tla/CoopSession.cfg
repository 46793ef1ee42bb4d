CONSTANTS
  PlayerCount = 2
  Primary = 1
  NoPlayer = 9
  NoEntity = 9
  TicksPerSecond = 1
  InitialLives = 1
  Event <- MixedEvent
  Equipment <- Supplied
  Mount <- OneMount
  Object <- OneObject
  Unpluggable <- Second
  MaxEvents = 2
  Reportable <- FrameEvent
  Beginning <- Starts
  Actors = 3
  FirstActor = 2
  MaxDistance = 1
  MaxId = 2
SPECIFICATION BenchSpec
INVARIANTS
  SomeoneActive
  OneLifePerAttempt
  SessionInv
  LoopComputesResolve
  ContactsArbitrated
PROPERTIES
  NothingVanishes
