SPECIFICATION FairSpec
CONSTANTS
  Endpoints = {e1, e2}
  Vague = {}
  Dests = {d1, d2}
  Fees = {f1, f2}
  None = None
  Remotes = FALSE
  MaxCrashes = 1
  MaxEdits = 0
PROPERTY BroadcastClearsKey
