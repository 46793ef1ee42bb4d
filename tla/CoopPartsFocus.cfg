CONSTANTS
  Button = {"Right", "A", "B"}
  ActionButton = {"A", "B"}
  TicksPerSecond = 2
  SaveFrames = 1
  Machines <- MCMachines
  Values = {0, 1, 2, 3, 12}
  Versions = {2, 3, 4, 5, 6, 7, 8}
  Rooms <- MCRooms
  Anchors <- MCAnchors
  Others <- MCOthers
  Sprites <- MCSprites
  Viewers = 3
  Positions = {0, 1}
  Words = 16
  HalfBody = 1
  Limit = 1
  Widths = {4, 5}
  Far = 2
  Riders = 2
  MountSlots = 4
  Tiles = {1}
  Gulp = 2
  Touches = 2
  Shooters = 2
  Targets = 1
  MaxShots = 3
  MaxLife = 2
  Devices = {1, 2, 3}
  Enabled = {1, 2}
  QueueMax = 3
  MaxHeld = 2
  MaxLines = 4
  MaxFrames = 2
  Files <- MCFiles
  Locals <- MCLocals
  ClipSlots = 3
  Voices = 2
  MaxBytes = 5
  Cues = 2
  One = 2
  Shapes <- MCShapes
  CueShape <- MCCueShape
  Pool = 2
  MaxAge = 2
  Second = 3
  Rates = {0, 2, 4}
  Foes = {"foe"}
SPECIFICATION BenchSpec
VIEW View
INVARIANT FocusLoads
