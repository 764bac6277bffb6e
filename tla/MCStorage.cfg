SPECIFICATION DiskSpec
CONSTANTS
  MaxTerm = 2
  MaxIndex = 3
  MaxRecords = 7
  MaxCrashes = 1
  Order <- MCOrder
  Unit = 6
  UnitsPerFile = 2
  HeaderSize = 1
  MaxBytes = 6
  MaxBatchEntries = 2
  MaxEntries = 4
  LeaderLog <- MCLeaderLog
  CommitLimit <- MCCommitLimit
INVARIANTS
  AppliedIsChosen
  
  AnsweredIsDurable
  AppliedInOrder
PROPERTIES
  RecoversWhatWasPromised
\* A node that failed to start, or one that has written all it may, stops.
CHECK_DEADLOCK FALSE
