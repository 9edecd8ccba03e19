SPECIFICATION Spec
CONSTANTS
  owner = owner
  v1 = v1
  v2 = v2
  g1 = g1
  r1 = r1
  r2 = r2
  Collector <- MCCollector
  Grant <- MCGrant
  Request <- MCRequest
  Nobody = Nobody
  NoRow = NoRow
  Gone = Gone
  NoJob = NoJob
  Lifetime = 1
  MaxTime = 2
PROPERTY OthersUntouched
SYMMETRY Symmetry
\* Nothing happens any more when every account is deleted and the clock is at its bound.
CHECK_DEADLOCK FALSE
