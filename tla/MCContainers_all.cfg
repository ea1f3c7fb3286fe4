SPECIFICATION MCFairSpec
CONSTANTS
  Containers = {"stack", "soring", "pool", "dist"}
  Thread = {0, 1}
  Capacity = 3
  MaxNum = 2
  MaxCalls <- OneAgainstThree
  NbWorkers = 2
  Consumer = consumer
  StageCounts = {1, 2}
  SoSize = 4
  SoCapacity = 2
  SoMod = 16
  SoBase = 14
  SoMax <- Load
  SoReqs <- Requests
  Lcores = {l1, l2}
  LCORE_ID_ANY = any
  Handlers = {"ring", "bucket"}
  CacheSize = 3
  NumBuckets = 3
  ObjPerBucket = 2
  MaxReq = 4
  MaxPoolCalls = 3
  NumWorkers = 2
  Tags = {a, b}
  BacklogSize = 1
  ReturnsSize = 2
  MaxPkts = 3
  Bursts = {0, 1, 2}
INVARIANTS
  StackElements
  SoringOrder
  PoolObjects
  PoolCount
  FlowsApart
  ReturnsKept
PROPERTIES
  CallsReturn
  RefinesLifo
  SoFlows
  InputOrder
  FlushComplete
