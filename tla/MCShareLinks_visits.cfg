SPECIFICATION Spec
CONSTANTS
  L1 = L1
  V1 = V1
  E1 = E1
  Link = {L1}
  Visitor = {V1}
  NoLink = NoLink
  Gone = Gone
  NoRequest = NoRequest
  Elsewhere = {E1}
  Never = Never
  Keep = Keep
  Expirations = {1, Never}
  Scope = {"both", "missing"}
  MaxTime = 1
  Quantity = {0, 2}
INVARIANTS
  VisitorSeesOneMoment
  ToldRevokedNeverOpens
  ViewAgrees
PROPERTIES
  DeadLinksStayDead
