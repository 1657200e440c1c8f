SPECIFICATION FairSpec
CHECK_DEADLOCK FALSE
CONSTANTS
  Chunks = {c1, c2}
  Tokens = {t1, t2, t3, t4}
  None = None
  Workers = {w1, w2}
  Targets = {c1, None}
  MaxFaults = 2
INVARIANTS
  TargetNeverMissed
PROPERTIES
  LeasesEnd
  SearchSucceeds
