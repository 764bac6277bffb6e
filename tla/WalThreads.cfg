SPECIFICATION ThreadsSpec
CONSTANTS
  Slots = 1
  BlocksPerFile = 2
  Reader = {r1, r2}
  MaxEntries = 3
  MaxBatch = 1
  MaxFailures = 0
  MaxRestarts = 0
  r1 = r1
  r2 = r2
INVARIANTS ReclaimSafe
CHECK_DEADLOCK FALSE
SYMMETRY ReaderSymmetry
