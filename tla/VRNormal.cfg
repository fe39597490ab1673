SPECIFICATION Spec
CONSTANTS
  N = 3
  F = 1
  Clients = {c1, c2, c3}
  MaxReq = 1
  MaxView = 0
  MaxRestart = 0
  BatchSize = 2
  Declined = {}
  Lost = {"Reply"}
CONSTRAINTS TwoBatches OneFollowerAsks
INVARIANTS TypeOK ExecutionsAgree NoAbort ExecutedInQuorum LogsMatch
SYMMETRY ClientSymmetry
CHECK_DEADLOCK FALSE
