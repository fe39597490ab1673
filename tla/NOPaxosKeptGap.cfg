SPECIFICATION Spec
CONSTANTS
  N = 3
  F = 1
  Clients = {c1}
  MaxReq = 1
  MaxMsg = 2
  MaxSess = 0
  MaxView = 1
  MaxTransfer = 10
  SyncAt = {}
  GapAt = {1}
  Lost = {"Reply", "SyncPrepareRequest", "GapRequest", "GapReply",
          "StateTransferRequest"}
INVARIANT CommittedAgree
CHECK_DEADLOCK FALSE
