\* Two users, two calls, names a and a-a of which the first may become the
\* label of the control plane.
SPECIFICATION Spec
CONSTANTS
  Users = {u1, u2}
  Calls = {c1, c2}
  MaxRaw = 4
  Others <- MCOthers
  Raws <- MCRaws
  Ports = {p1}
  SystemLabels <- MCSystemLabels
  ReservedSubdomains <- MCReserved
  Domain <- MCDomain
  MaxLabel = 3
  MaxPages = 2
  MaxId = 2
  None = None
SYMMETRY Symmetry
INVARIANTS TypeOK SystemLabelsUnowned ReservedCanBind
PROPERTIES ReleasesOwn NotOverDNS
