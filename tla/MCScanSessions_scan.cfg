SPECIFICATION FairSpec
CHECK_DEADLOCK FALSE
CONSTANTS
  FirstKey = 16
  LastKey = 31
  ChunkSize = 7
  ShardCount = 2
  Candidate = 3
  Offset = 1
  WorkerCount = 2
  BatchSize = 3
  FieldP = 31
  GroupN = 43
  Generator <- MCGenerator
  Targets <- MCTargets
  None = None
  MaxCrashes = 2
INVARIANTS
  TypeOK
  CheckpointHonest
  ShardsCoverAll
  NoKeyTwice
PROPERTIES
  AnswerSaved
