\* Three clients and a table of two for the web server; two addresses, one host
\* and a table of one for sish.
SPECIFICATION LimitersSpec
CONSTANTS
  Keys = {a, b, c}
  Requests = {q1, q2}
  Capacity = 1
  Refill = 1
  Block = 3
  Idle = 1
  Strikes = 2
  MaxEntries = 2
  MaxTime = 3
  None = None
  ConnKeys = {l1, l2}
  RequestKeys = {h1}
  Conns = {c1, c2}
  Burst = 2
  Rate = 1
  RequestBurst = 1
  RequestRate = 1
  MaxConn = 1
  Violations = 2
  RequestViolations = 2
  MaxTable = 1
  SishBlock = 3
  SishTime = 2
SYMMETRY Symmetry
INVARIANTS LimitersTypeOK TableBounded LimitersRateHolds ConnectionsCounted
PROPERTIES LimitersBlockStands
