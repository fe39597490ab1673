SPECIFICATION FairSpec
CONSTANTS
  Leader = r0
  Followers = {r1, r2}
  Correct = {r0, r1}
  F = 1
  Clients = {c1}
  MaxReq = 2
  TransferAt = {1, 2}
  UnloggedAt = {1}
  Lost = {"Commit"}
INVARIANT RepliesRight
PROPERTIES ClientServed ImplementsService
CHECK_DEADLOCK FALSE
