\* Retries across the retention period; two events of a kind make a batch that
\* is never accepted.
SPECIFICATION FairSpec
CONSTANTS
  k1 = k1
  k2 = k2
  Kinds = {k1, k2}
  MaxCount = 1
  Retention = 1
  MaxEvents = 3
  MaxTime = 2
INVARIANTS TypeOK CountedOnce NothingForgotten
PROPERTIES BatchesArrive CountersDrain
