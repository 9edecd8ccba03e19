SPECIFICATION FairSpec
CONSTANTS
  u1 = u1
  u2 = u2
  u3 = u3
  r1 = r1
  r2 = r2
  NoRequest = NoRequest
  NoJob = NoJob
  User <- TwoUsers
  Request <- MCRequest
  Operation <- NoPromotion
INVARIANT SomeActiveAdministrator
PROPERTIES Serialized SomeRequestFinishes
CHECK_DEADLOCK FALSE
