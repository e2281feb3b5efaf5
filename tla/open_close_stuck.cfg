SPECIFICATION Spec
CONSTANTS
  Ends = {"a", "b"}
  PeerOf <- MCPeerOf
  Isn <- MCIsn
  WireCap = 2
  Half = 8
  RcvWnd = 4
  Server = "b"
  Conns = {1, 2}
  SynRcvdCountThreshold = 1
  CookieHash <- MCCookieHash
  MaxTSDiff = 0
PROPERTIES
  CloseReturns
CHECK_DEADLOCK FALSE
