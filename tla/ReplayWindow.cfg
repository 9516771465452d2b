CONSTANTS
  WordBits = 2
  REPLAY_WORDS = 3
  MaxCounter = 12
SPECIFICATION WindowSpec
INVARIANTS
  WindowInv
PROPERTIES
  ImplementsFilter
