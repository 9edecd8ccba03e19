SPECIFICATION Spec
CONSTANTS
  i1 = i1
  j1 = j1
  j2 = j2
  b1 = b1
  b2 = b2
  Home = Home
  Forged = Forged
  Unknown = Unknown
  admin = admin
  ann = ann
  Invitation = {i1}
  Email = {admin, ann}
  AdminEmail = admin
  Job = {j1, j2}
  Boot = {b1, b2}
  Key = {Home, Unknown}
  SharedClientKey = Unknown
  Address = {Home, Forged}
  Expirations = {1}
  Maximum = 1
  Window = 1
  MaxEntries = 1
  NoInvitation = NoInvitation
  Nobody = Nobody
  Self = Self
  Managed = Managed
  MaxTime = 1
INVARIANTS
  OneAccountPerInvitation
  OneInitialAdministrator
  InvalidForGood
  NotBlockedBelowLimit
SYMMETRY Symmetry
