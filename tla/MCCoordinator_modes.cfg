SPECIFICATION Spec
CONSTANTS
  Total = 3
  Size <- MCSize
  Seeds <- MCSeeds
  Order <- MCOrder
  Workers = {w1}
  Tokens = {t1, t2, t3, t4}
  Keys <- MCKeys
  Home <- MCHome
  Target = "target"
  Null = Null
  LeaseTerms = {1}
  MaxTime = 1
  Lag = 0
INVARIANTS
  AllocationNeverCollides
  ExhaustedMeansCovered
PROPERTIES
  VerdictStands
