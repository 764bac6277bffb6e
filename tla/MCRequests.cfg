SPECIFICATION RequestsSpec
CONSTANTS
  Calls = {r1, r2, r3}
  MaxLinks = 2
  MaxBreaks = 2
  Generators = {g, h}
  Count = 2
  MaxConcurrent = 1
  ChannelSize = 2
  MaxBatchSize = 2
  MaxPutFailures = 1
  Tx <- MCTx
  Junk = Junk
  Funds = 3
  GasLimit = 2
  PoolMax = 2
  MaxMessages = 3
  MaxFailures = 1
  MaxRestarts = 1
INVARIANTS
  AnswersMatch
  AckedIsWritten
  ExecutedInOrder
PROPERTIES
  RequestsEnd
  
CHECK_DEADLOCK FALSE
