CONSTANTS
  Procs = {p1, p2}
  None = None
  MaxCommands = 3
  MaxFaults = 2
SPECIFICATION FairSpec
INVARIANTS
  VersionTrue
  ProfileHasCampaign
  NoFalseClaim
PROPERTIES
  LaunchSucceeds
  LabComes
CHECK_DEADLOCK FALSE
