SPECIFICATION FairSpec
CONSTANTS
  MaxThreads = 3
  Ceiling = 2
INVARIANTS
  JoinsSound
CHECK_DEADLOCK FALSE
PROPERTIES
  JoinsReturn
