SPECIFICATION Spec
CONSTANTS
  Boots = {b1, b2, b3}
  Clients = {c1}
  Max = 2
  IdleTtl = 0
  ReqMax = 0
  MaxViewers = 0
  MaxRuns = 0
SYMMETRY Symmetry
INVARIANTS
  OneOwner
  NoOrphanVm
PROPERTY
  ImplementsPool
