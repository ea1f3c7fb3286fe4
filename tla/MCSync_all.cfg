SPECIFICATION MCFairSpec
CONSTANTS
  MaxThreads = 2
  ElmSize = 1
  Writers = {w1}
  Self <- OneSelf
  Objects = {o1, o2}
  NoObject = NoObject
  Attached = FALSE
  OfflineFirst = TRUE
  Threads = {t1, t2, t3}
  NULL = NULL
  TicketMod = 4
  MaxDepth = 2
  PfMod = 64
  WriterMod = 4
  SnMod = 6
  SnBase = 4
  MaxWrites = 2
INVARIANTS
  Exclusion
  InOrder
  LockWords
  PhaseFair
  ConsistentRead
  RcuInv
PROPERTIES
  WaitEnds
  LockGranted
