SPECIFICATION PausingSpec
CONSTANTS
  N = 2
  F = 1
  MaxSlot = 2
  MaxReq = 2
  ResendEnabled = FALSE
  Burst = 1
  GapEnabled = TRUE
  DropMod = 3
  NoopMod = 0
  Later = 1
  Timers = 2
PROPERTIES HolesAreFilled
CHECK_DEADLOCK FALSE
