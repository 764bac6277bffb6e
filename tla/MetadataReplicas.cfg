SPECIFICATION ReplicaSpec
CONSTANTS
  Node = {n1, n2}
  Topic = {t1}
  Slot = {s1}
  MaxLog = 3
  MaxCount = 1
  MaxRestarts = 1
INVARIANTS
  SegmentsContiguous
  ReplicasAgree
PROPERTIES
  SealedForGood
  EventuallyCaughtUp
