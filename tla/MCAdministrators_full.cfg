SPECIFICATION Spec
CONSTANTS
  u1 = u1
  u2 = u2
  u3 = u3
  r1 = r1
  r2 = r2
  NoRequest = NoRequest
  NoJob = NoJob
  User <- MCUser
  Request <- MCRequest
  Operation <- LifecycleOperations
INVARIANT TypeOK
PROPERTIES OnlyAPhantomLosesTheLast PanelActorIsStillAdministrator
CHECK_DEADLOCK FALSE
SYMMETRY Symmetry
