SPECIFICATION Spec
CONSTANTS
  N = 3
  F = 1
  Clients = {c1}
  MaxReq = 1
  MaxView = 0
  MaxRestart = 1
  BatchSize = 1
  Declined = {}
  Lost = {"Reply"}
INVARIANT AcksHeld
CHECK_DEADLOCK FALSE
