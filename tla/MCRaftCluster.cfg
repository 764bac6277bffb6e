SPECIFICATION Spec
CONSTANTS
  Nodes = {1, 2, 3}
  Probe = 2
  MaxPayload = 2
  MaxTerm = 2
  MaxLog = 6
INVARIANTS
  CommittedAgree
  LeaderComplete
  
PROPERTY KeepsPromise
CHECK_DEADLOCK FALSE
