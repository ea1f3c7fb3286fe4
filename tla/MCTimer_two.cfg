SPECIFICATION TimerFairSpec
CONSTANTS
  c0 = c0
  c1 = c1
  Lcores = {c0, c1}
  AltLcores = {c1}
  PollLcores <- MCPollLcores
  Others = {}
  Timers = {t1, t2}
  NoTimer = NoTimer
  NoOwner = NoOwner
  Ticks = {1}
  Periodic = {t2}
  MaxTime = 2
  MaxCalls = 3
INVARIANTS
  StoppedIsFree
  ListsSound
  RunsOnTime
CHECK_DEADLOCK FALSE
PROPERTIES
  TimerServed
  SyncReturns
