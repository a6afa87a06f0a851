SPECIFICATION Spec
CONSTANTS
  Callers = {a1, a2}
  Points = {p1, p2}
INVARIANT ReconciledMeansPainted
\* A tool's call ends.
CHECK_DEADLOCK FALSE
