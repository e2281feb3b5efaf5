SPECIFICATION Spec
CONSTANTS
  StreamBound = 3
  MaxWrite = 3
  PathPayloads = {}
  MaxTooBig = 0
  MaxPayload = 2
  SndBufSize = 3
  InitialWnd = 2
  InitialCwnd = 1
  InitialSsthresh = 100
  DupAckThreshold = 2
  MaxBackoff = 1
  RcvBufSize = 2
  WndUnit = 1
  MaxSegmentsPerWake = 1
  AckCap = 2
  MaxFaults = 1
  AckFaults = TRUE
  AckReorder = TRUE
  EarlyTimeouts = TRUE
INVARIANTS
  AckedIsReceived
  CloseIsComplete
  WindowRespected
PROPERTIES
  NeverBack
  StreamSpec
CHECK_DEADLOCK FALSE
