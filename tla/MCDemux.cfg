SPECIFICATION FairSpec
CONSTANTS
  Requests = {r1, r2, r3}
  IdSpace = 3
  WireCap = 2
INVARIANTS
  OneReader
  NeverStranded
PROPERTIES
  ImplementsRpc
  RequestReturns
