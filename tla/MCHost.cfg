SPECIFICATION HostSpec
CONSTANTS
  Resolvers = {r1, r2}
  Pruning = TRUE
  MaxFaults = 1
  MaxCrashes = 1
  Digests = {d1, d2}
  NumLayers = 2
  Runs = {v1}
  MaxIds = 2
  Cap = 1
SYMMETRY Symmetry
INVARIANTS
  NeverPartial
  NoLeak
  PredecessorKept
  CachesSound
  LayerAsSpecified
  WorkspaceSound
