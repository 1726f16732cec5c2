\* An account becomes an administrator between the two halves of its suspension.
SPECIFICATION Spec
CONSTANTS
  Users = {u1, u2}
  States = {st1, st2}
  Tokens = {t1, t2}
  Browsers = {b1}
  Calls = {c1, c2}
  StateLife = 1
  SessionLife = 1
  MaxTime = 1
  None = None
SYMMETRY Symmetry
INVARIANT AdminsAreNotSuspended
