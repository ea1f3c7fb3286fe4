SPECIFICATION MCFairSpec
CONSTANTS
  MaxThreads = 1
  ElmSize = 1
  Writers = {w1, w2}
  Self <- NoSelf
  Objects = {o1, o2}
  NoObject = NoObject
  Attached = TRUE
  OfflineFirst = TRUE
  DqSizes = {1, 2}
  TriggerLimit = 0
  MaxReclaim = 1
  Amounts = {1}
  MaxToken = 4
  HKeys <- FourKeys
  Prim <- PrimOf
  Sig <- SigOf
  ZeroKey = 0
  HashBuckets = 4
  Entries = 1
  NumExt = 1
  NumSlots = 5
  BfsMax = 5
  CacheSize = 1
  HWriters = {w1, w2}
  HReaders = {r1}
  Sought = {1, 4}
  FreedFirst = TRUE
  Uses <- UsesRight
INVARIANTS
  GracePeriod
  DqConserved
  LookupRight
  KeysOnce
PROPERTIES
  DqDrains
