SPECIFICATION WriteSpec
CONSTANTS
  Node = {n1, n2}
  Topic = {t1}
  Slot = {s1, s2}
  Req = {r1, r2}
  MaxLog = 5
  MaxCount = 2
  MaxRestarts = 1
  MaxSegmentEntries = 1
INVARIANTS
  OnlyLeaderWrites
  
CHECK_DEADLOCK FALSE
