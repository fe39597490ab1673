SPECIFICATION Spec
CONSTANTS
  N = 3
  F = 1
  MaxSlot = 2
  MaxReq = 2
  ResendEnabled = TRUE
  Burst = 2
  GapEnabled = TRUE
  DropMod = 0
  NoopMod = 0
  Later = 0
  Timers = 1
CONSTRAINTS OneFollowerAsks OneFollowerSyncsAgain
INVARIANTS TypeOK NoOpComesFromLeader CommitDurable NoOpDurable CommitOnce NoHoleBehindFrontier LogsAgree IndInv
PROPERTIES LogIsStable ImplementsSlotLog
