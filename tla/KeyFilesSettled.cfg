\* The late retry of a write after a suspension.
SPECIFICATION Spec
CONSTANTS
  u1 = u1
  u2 = u2
  k1 = k1
  k2 = k2
  None = None
  Users = {u1}
  Keys = {k1}
  KeyOwner <- OneOwner
  MaxOperations = 2
  MaxFailures = 1
CHECK_DEADLOCK FALSE
INVARIANTS SuspendedHasNoFile
