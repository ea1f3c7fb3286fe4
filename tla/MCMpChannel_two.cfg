SPECIFICATION MpFairSpec
CONSTANTS
  Peers = {p1, p2}
  Primary = p1
  Names = {"act"}
  MaxCalls = 2
  MaxFaults = 1
INVARIANTS
  Accounts
  NoDangling
CHECK_DEADLOCK FALSE
PROPERTIES
  RightReply
  RequestsEnd
