SPECIFICATION Spec
CONSTANTS
  N = 3
  F = 1
  Clients = {c1}
  MaxReq = 1
  MaxMsg = 2
  MaxSess = 0
  MaxView = 1
  MaxTransfer = 10
  SyncAt = {1}
  GapAt = {}
  Lost = {"SyncPrepareRequest", "GapRequest", "GapReply",
          "StateTransferRequest", "Reply"}
INVARIANT CommittedInLog
CHECK_DEADLOCK FALSE
