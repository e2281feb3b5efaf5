SPECIFICATION AnyPeerSpec
CONSTANTS
  StreamBound = 3
  MaxWrite = 3
  PathPayloads = {}
  MaxTooBig = 0
  MaxPayload = 2
  SndBufSize = 3
  InitialWnd = 1
  InitialCwnd = 2
  InitialSsthresh = 3
  DupAckThreshold = 2
  MaxBackoff = 1
  Windows = {0, 2}
  WholeAcks = FALSE
INVARIANTS
  WellLabelled
CHECK_DEADLOCK FALSE
