SPECIFICATION ReadSpec
CONSTANTS
  Node = {n1, n2}
  Topic = {t1}
  Slot = {s1}
  Req = {r1}
  MaxLog = 5
  MaxCount = 2
  MaxRestarts = 1
  MaxSegmentEntries = 1
INVARIANTS
  GetAsksTheWriter
  
PROPERTIES
  GetEnds
  MonitorRollsOver
