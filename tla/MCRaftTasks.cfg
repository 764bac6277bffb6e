SPECIFICATION TasksSpec
CONSTANTS
  MaxLast = 3
  MaxPayload = 2
  MidStep = 2
  Capacity = 7
  MaxFaults = 1
  MaxSessions = 2
  SnapshotRpc = TRUE
  MaxLead = 3
  MaxLogIndex = 6
  Ids = {1, 2, 3}
  MaxValue = 3
  Voters = {1, 2, 3}
INVARIANTS
  MatchingIsHeld
  ListAnswersForLog
  
PROPERTIES
  QuorumsOverlap
  
CHECK_DEADLOCK FALSE
