SPECIFICATION Spec
CONSTANTS
  u1 = u1
  u2 = u2
  u3 = u3
  r1 = r1
  r2 = r2
  NoRequest = NoRequest
  NoJob = NoJob
  User <- TwoUsers
  Request <- MCRequest
  Operation <- LifecycleOperations
INVARIANT SomeActiveAdministrator
CHECK_DEADLOCK FALSE
