\* A port that changes hands: reserve, release, reserve again.
SPECIFICATION Spec
CONSTANTS
  u1 = u1
  u2 = u2
  k1 = k1
  h1 = h1
  hs = hs
  p1 = p1
  b1 = b1
  b2 = b2
  Users = {u1, u2}
  Keys = {k1}
  KeyOwner <- MCKeyOwner
  Hosts = {hs}
  Ports = {p1}
  SystemKey = ks
  SystemHost = hs
  Binds = {b1}
  None = None
  MaxGeneration = 4
INVARIANTS
  TypeOK
  RevokedIsPending
  GrantOutrunsRevocations
PROPERTY
  ImplementsTunnelAccess
CHECK_DEADLOCK FALSE
