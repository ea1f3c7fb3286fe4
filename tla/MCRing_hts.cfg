SPECIFICATION MCFairSpec
CONSTANTS
  Producers = {p1, p2}
  Consumers = {c1}
  Size = 4
  Capacity = 2
  PosMod = 16
  Sync <- SyncHtsSt
  HtdMax <- Htd1
  MaxNum = 2
  UseC11Model = TRUE
  Bases = {0, 14}
  MaxCalls = 1
  Nums = {0, 1, 2}
  Peeks = {TRUE, FALSE}
  ResetBelow = 16
PROPERTIES
  CallsReturn
  RefinesQueue
