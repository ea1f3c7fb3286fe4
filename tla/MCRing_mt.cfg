SPECIFICATION MCFairSpec
CONSTANTS
  Producers = {p1, p2}
  Consumers = {c1, c2}
  Size = 4
  Capacity = 3
  PosMod = 16
  Sync <- SyncRtsMt
  HtdMax <- Htd1
  MaxNum = 2
  UseC11Model = TRUE
  Bases = {14}
  MaxCalls = 1
  Nums = {1, 2}
  Peeks = {FALSE}
  ResetBelow = 0
INVARIANTS
  RingInv
  DequeuedIntact
PROPERTIES
  FailsOnlyWithoutRoom
  CallsReturn
  RefinesQueue
