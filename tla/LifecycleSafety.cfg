\* Two tunnels, one restart of sish.
SPECIFICATION FairSpec
CONSTANTS
  t1 = t1
  t2 = t2
  Tunnels = {t1, t2}
  None = None
  MaxSequence = 3
  MaxSource = 2
INVARIANTS TypeOK NextSnapshotRepairs StaleMeansUnavailable WithdrawnIsNotActive EndedStaysEnded
PROPERTIES ViewConverges
