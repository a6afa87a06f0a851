SPECIFICATION FairSpec
CONSTANTS
  MaxChunks = 4
  Cap = 2
PROPERTY VanishedClientEndsTask
CHECK_DEADLOCK FALSE
