\* No failures: two users with a key each.
SPECIFICATION FairSpec
CONSTANTS
  u1 = u1
  u2 = u2
  k1 = k1
  k2 = k2
  None = None
  Users = {u1, u2}
  Keys = {k1, k2}
  KeyOwner <- TwoOwners
  MaxOperations = 5
  MaxFailures = 0
CHECK_DEADLOCK FALSE
INVARIANTS TypeOK SettledFilesAreExact
PROPERTIES FilesConverge
