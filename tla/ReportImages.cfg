SPECIFICATION FairSpec
CONSTANTS
  StagedKeys = {s1}
  DirectKeys = {d1, d2}
  Reports = {p1, p2}
  Requests = {t1, t2}
  NULL = NULL
  MaxImages = 1
  Setups <- FaultyOrQuiet
INVARIANTS TypeOK LinkedOnce CompleteAtRest
PROPERTY StagedOrphansGo
CHECK_DEADLOCK FALSE
