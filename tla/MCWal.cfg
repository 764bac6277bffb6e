SPECIFICATION WalSpec
CONSTANTS
  Slots = 2
  BlocksPerFile = 2
  Reader = {r1}
  MaxEntries = 4
  MaxBatch = 3
  MaxFailures = 1
  MaxRestarts = 2
  r1 = r1
INVARIANTS AckedStored
  
CHECK_DEADLOCK FALSE
