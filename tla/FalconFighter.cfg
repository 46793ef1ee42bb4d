CONSTANTS
  Inputs <- MCInputs
  Hits <- MCHits
  MaxJumps = 2
SPECIFICATION Spec
VIEW MCView
INVARIANTS
  FighterConsistent
  CuesLeadContact
PROPERTY
  MovesAbstracted
