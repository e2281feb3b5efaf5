SPECIFICATION MCSpec
CONSTANTS
  Worker = worker
  Threads = {t1, t2}
  Procs = {worker, t1, t2}
  Asserters = {worker, t1, t2}
  Wakers = {"snd", "seg", "note"}
  Sleepers = {"handshake", "main"}
  Notifications = {n1, n2}
  MaxSegmentsPerWake = 1
  SegmentLimit = 2
  MaxCalls = 4
  Endpoints = {e1, e2}
  Ports = {1, 2}
  Ephemeral = {2}
  Peers <- MCPeers
  RcvMax = 1
SYMMETRY MCSymmetry
INVARIANTS
  MutualExclusion
  WaiterIsWoken
  QueuedOnce
  NoLostWakeup
  NothingLeftBehind
  TcpReservationsAreKept
  RegistrationsMatch
CHECK_DEADLOCK FALSE
