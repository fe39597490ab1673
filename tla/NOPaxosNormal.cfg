SPECIFICATION Spec
CONSTANTS
  N = 3
  F = 1
  Clients = {c1}
  MaxReq = 1
  MaxMsg = 2
  MaxSess = 0
  MaxView = 0
  MaxTransfer = 10
  SyncAt = {1, 2}
  GapAt = {1}
  Lost = {"Reply"}
CONSTRAINT OneFollowerAsks
INVARIANTS TypeOK LogsFollowLeader GapInQuorum ExecutedOnce CommittedAgree SyncInQuorum NoAbort
CHECK_DEADLOCK FALSE
