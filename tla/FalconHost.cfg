CONSTANTS
  NSlots = 2
  Spawns <- MCSpawns
  MaxDeparture = 1
  Starts <- MCStarts
  DiveGrace = 1
SPECIFICATION Spec
VIEW View
INVARIANTS
  ContactsAccounted
PROPERTIES
  GuardsSpareNative
  ThrowDefeatsTheCaught
