CONSTANTS
  PlayerCount = 2
  Primary = 1
  NoPlayer = 9
  NoEntity = 9
  TicksPerSecond = 1
  InitialLives = 2
  Event <- TeamEvent
  Equipment = {}
  Mount = {}
  Object = {}
  Unpluggable = {}
  MaxEvents = 9
  DeathTicks = 2
  MaxLives = 2
  Entrants = {0, 1}
  Tape = 1
  RoomSlots = 2
  CapSlots = 3
  TravelIds = 6
  TiedIds = 3
  CapIds = 4
SPECIFICATION RoomSpec
INVARIANTS
  TeamKept
  EntitiesKept
  YoshisBounded
PROPERTIES
  CheckpointKept
  AnimatedFailureReachesLoader
  IdentitiesSurviveRooms
