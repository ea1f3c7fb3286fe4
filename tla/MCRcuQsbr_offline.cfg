SPECIFICATION Spec
CONSTANTS
  MaxThreads = 2
  ElmSize = 2
  Writers = {w1, w2}
  Self <- NoSelf
  Objects = {o1, o2}
  NoObject = NoObject
  Attached = FALSE
  OfflineFirst = TRUE
INVARIANTS
  GracePeriod
CHECK_DEADLOCK FALSE
