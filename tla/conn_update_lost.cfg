SPECIFICATION FairSpec
CONSTANTS
  StreamBound = 2
  MaxWrite = 2
  PathPayloads = {}
  MaxTooBig = 0
  MaxPayload = 1
  SndBufSize = 2
  InitialWnd = 1
  InitialCwnd = 2
  InitialSsthresh = 100
  DupAckThreshold = 2
  MaxBackoff = 2
  RcvBufSize = 1
  WndUnit = 1
  MaxSegmentsPerWake = 2
  AckCap = 6
  MaxFaults = 1
  AckFaults = TRUE
  AckReorder = FALSE
  EarlyTimeouts = FALSE
PROPERTIES
  Delivered
CHECK_DEADLOCK FALSE
