SPECIFICATION Spec
CONSTANTS
  Total = 2
  Size <- MCSize
  Seeds <- OneSeed
  Order <- MCOrder
  Workers = {w1, w2}
  Tokens = {t1, t2, t3, t4}
  Keys <- MCKeys
  Home <- MCHome
  Target = "target"
  Null = Null
  LeaseTerms = {1, 2}
  MaxTime = 3
  Lag = 1
SYMMETRY Symmetry
INVARIANTS
  CheckedKeysExact
  LeaseBalance
  FoundIsVerified
  ReplayAccepted
PROPERTIES
  CompletedIsFinal
  LeaseHonoured
  LateResultRejected
  ImplementsLedger
