SPECIFICATION Spec
CONSTANTS
  PlayerCount = 2
  Primary = 2
  SlotCount = 2
  Things = {}
  Castle = FALSE
  MaxId = 5
CHECK_DEADLOCK FALSE
INVARIANT SaveStatesSupported
