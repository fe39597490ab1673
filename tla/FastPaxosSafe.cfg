SPECIFICATION Spec
CONSTANTS
  Leader = r0
  Followers = {r1, r2}
  Correct = {r0, r1}
  F = 1
  Clients = {c1, c2}
  MaxReq = 1
  TransferAt = {0}
  UnloggedAt = {}
  Lost = {"Reply"}
INVARIANTS TypeOK SlowPathMatches ExecutionsFollowLeader ExecutedOnce LastInQuorum NoAbort
CHECK_DEADLOCK FALSE
SYMMETRY Symmetry
