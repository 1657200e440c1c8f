SPECIFICATION Spec
CONSTANTS
  Total = 2
  Size <- MCSize
  Seeds <- OneSeed
  Order <- MCOrder
  Workers = {w1}
  Tokens = {t1, t2}
  Keys <- MCKeys
  Home <- MCHome
  Target = "target"
  Null = Null
  LeaseTerms = {1}
  MaxTime = 1
  Lag = 0
INVARIANT RepeatedCompletionIdempotent
