SPECIFICATION MCSpec
CONSTANTS
  Containers = {"dist"}
  Thread = {0, 1}
  Capacity = 3
  MaxNum = 2
  MaxCalls <- OneAgainstThree
  NbWorkers = 2
  Consumer = consumer
  StageCounts = {1, 2}
  SoSize = 4
  SoCapacity = 2
  SoMod = 16
  SoBase = 14
  SoMax <- Load
  SoReqs <- Requests
  Lcores = {l1}
  LCORE_ID_ANY = any
  Handlers = {"bucket"}
  CacheSize = 6
  NumBuckets = 3
  ObjPerBucket = 2
  MaxReq = 6
  MaxPoolCalls = 3
  NumWorkers = 2
  Tags = {a, b}
  BacklogSize = 1
  ReturnsSize = 4
  MaxPkts = 3
  Bursts = {0, 1, 2}
INVARIANTS
  ReturnsAll
