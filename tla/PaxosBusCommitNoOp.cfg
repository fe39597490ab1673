SPECIFICATION Spec
CONSTANTS
  N = 3
  F = 1
  MaxSlot = 2
  MaxReq = 1
  ResendEnabled = TRUE
  Burst = 1
  GapEnabled = TRUE
  DropMod = 0
  NoopMod = 0
  Later = 0
  Timers = 1
INVARIANTS CommittedIsNotNoOp
