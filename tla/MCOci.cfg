SPECIFICATION Spec
CONSTANTS
  Pullers = {p1, p2}
  Digests = {d1}
  NumLayers = 2
  MaxFaults = 0
  MaxCrashes = 0
INVARIANT MarkedTreeIsImage
