SPECIFICATION TarSpec
CONSTANTS
  Resolvers = {r1, r2}
  Pruning = FALSE
  MaxFaults = 0
  MaxCrashes = 0
SYMMETRY Symmetry
INVARIANT MarkerMeansComplete
