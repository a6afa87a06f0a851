SPECIFICATION ViewSpec
CONSTANTS
  Tiles = {t1, t2}
  MaxAsks = 2
  Conns = {c1, c2, c3}
  Columns = {0, 2, 9}
  Threshold = 3
INVARIANTS
  ConnsAccounted
  HandFaithful
  UpdateFaithful
PROPERTIES
  ShutdownReturns
  ServedByLaterFrame
  UpdateComes
  ConnEnds
