\* Three failures: one user with two keys.
SPECIFICATION Spec
CONSTANTS
  u1 = u1
  u2 = u2
  k1 = k1
  k2 = k2
  None = None
  Users = {u1}
  Keys = {k1, k2}
  KeyOwner <- OneOwner
  MaxOperations = 4
  MaxFailures = 3
CHECK_DEADLOCK FALSE
SYMMETRY Symmetry
INVARIANTS WithdrawnFileIsPending
