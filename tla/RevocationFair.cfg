\* Liveness: one bind of a name, and the console's own tunnel.
SPECIFICATION FairSpec
CONSTANTS
  u1 = u1
  u2 = u2
  k1 = k1
  h1 = h1
  hs = hs
  p1 = p1
  b1 = b1
  b2 = b2
  Users = {u1}
  Keys = {k1}
  KeyOwner <- MCKeyOwner
  Hosts = {h1, hs}
  Ports = {}
  SystemKey = ks
  SystemHost = hs
  Binds = {b1}
  None = None
  MaxGeneration = 3
PROPERTY
  RevokedTunnelsEnd
CHECK_DEADLOCK FALSE
