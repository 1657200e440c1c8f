SPECIFICATION FairSpec
CONSTANTS
  Endpoints = {e1, e2}
  Vague = {e2}
  Dests = {d1, d2}
  Fees = {f1, f2}
  None = None
  Remotes = TRUE
  MaxCrashes = 2
  MaxEdits = 2
INVARIANTS
  WriteAhead
  AcceptanceTrue
  KeyKept
PROPERTIES
  RecordNeverReplaced
  FundsSwept
