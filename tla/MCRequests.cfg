SPECIFICATION RequestsSpec
CONSTANTS
  MaxChunks = 5
  Cap = 2
  Cols = 3
  Rows = 1
  SettleFrames = 2
  ChurnWindow = 4
  ChurnThreshold = 3
  Callers = {a1, a2}
  Points = {p1, p2}
  Threads = {"m1", "m2", "cli"}
  Home <- TwoProcesses
  MaxDaemons = 2
INVARIANTS
  HangUpStopsVm
  ChunksRight
  SettleSound
  ReportsTrue
  SpawnedOnce
PROPERTIES
  ImplementsRunStream
  RunReturns
\* A task whose client has gone may stay blocked for ever (MCRunLaneFull), and
\* a tool's call ends.
CHECK_DEADLOCK FALSE
