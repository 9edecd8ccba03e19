SPECIFICATION Spec
CONSTANTS
  p1 = p1
  p2 = p2
  e1 = e1
  e2 = e2
  s1 = s1
  s2 = s2
  a1 = a1
  r1 = r1
  r2 = r2
  Password = {p1, p2}
  Email = {e1, e2}
  Session = {s1, s2}
  Attempt = {a1}
  Request = {r1, r2}
INVARIANTS
  SessionsMatchTheAccount
  EffectsAreAuthorized
  OnlyDeletionsDeadlock
PROPERTIES
  ResetStands
SYMMETRY Symmetry
CHECK_DEADLOCK FALSE
