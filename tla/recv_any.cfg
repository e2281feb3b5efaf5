SPECIFICATION SackSpec
CONSTANTS
  RcvBufSize = 4
  WndUnit = 2
  MaxSegmentsPerWake = 2
  AckCap = 0
  StreamLen = 4
  Resets = TRUE
  BlockLimits = {1, 2}
INVARIANTS
  SackIsSound
  InOrder
  AckMatchesData
  NothingLeftWaiting
  PendingCovered
  WindowReopens
CHECK_DEADLOCK FALSE
