SPECIFICATION ServicesSpec
CONSTANTS
  Pieces = {p, q}
  MaxSize = 2
  Joiners = {2, 3}
  JoinAttempts = 2
  PromoteAttempts = 2
  MaxUpsets = 1
  Markers = {a, b}
  MaxMarks = 4
  MaxMarkFaults = 1
  Builtin = {w}
  Contracts = {k}
  MaxDbOps = 3
  ReadLimit = 5
  r1 = r1
  r2 = r2
  Readers <- MCReaders
  Meta = 1
  Small = 2
  BlockCap = 8
  MaxBatchEntries = 3
  BatchLoads <- MCLoads
INVARIANTS
  SentIsStored
  
  QuietIsSaved
  
  
CHECK_DEADLOCK FALSE
