CONSTANTS
  DoubleTap = 3
  Columns = 3
  SafetyNotes = 2
  MaxDelta = 1
  Field = 12
  Memory = 64
  PlayerX <- MCPlayerX
  PlayerY <- MCPlayerY
  Rows <- MCRows
  Stones <- MCStones
  FallFrames = 2
SPECIFICATION Spec
VIEW View
INVARIANTS
  PressesKept
  WallsHold
  BlocksProven
  PicturesAccounted
