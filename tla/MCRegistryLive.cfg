SPECIFICATION FairSpec
CONSTANTS
  Boots = {b1, b2}
  Clients = {c1}
  Max = 1
  IdleTtl = 1
  ReqMax = 1
  MaxViewers = 1
  MaxRuns = 1
ACTION_CONSTRAINTS
  InOrder
  LateRuns
PROPERTIES
  TornDown
  ReservationReleased
  IdleEvicted
  ShutdownEnds
  NeverReapedInUse
