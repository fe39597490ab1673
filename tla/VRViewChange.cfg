SPECIFICATION Spec
CONSTANTS
  N = 3
  F = 1
  Clients = {c1}
  MaxReq = 3
  MaxView = 2
  MaxRestart = 0
  BatchSize = 1
  Declined = {1}
  Lost = {"RequestStateTransfer", "Commit"}
CONSTRAINT SecondChangeBound
INVARIANTS ExecutedInQuorum AcksHeld ExecutedOnce
PROPERTY CommittedStable
CHECK_DEADLOCK FALSE
