CONSTANTS
  PlayerCount = 2
  Primary = 1
  NoPlayer = 9
  NoEntity = 9
  TicksPerSecond = 1
  InitialLives = 1
  Event <- TeamEvent
  Equipment = {}
  Mount = {}
  Object = {}
  Unpluggable = {}
  MaxEvents = 9
  DeathTicks = 1
  MaxLives = 2
  Entrants = {0, 1}
  Tape = 1
SPECIFICATION FairTeamSpec
PROPERTIES
  FailureReachesLoader
