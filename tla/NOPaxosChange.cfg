SPECIFICATION Spec
CONSTANTS
  N = 3
  F = 1
  Clients = {c1}
  MaxReq = 2
  MaxMsg = 1
  MaxSess = 1
  MaxView = 1
  MaxTransfer = 10
  SyncAt = {}
  GapAt = {}
  Lost = {"GapRequest", "GapReply", "StateTransferRequest", "SyncCommit"}
CONSTRAINT BothChangesBound
INVARIANTS AcceptedStays LogsFollowLeader
CHECK_DEADLOCK FALSE
