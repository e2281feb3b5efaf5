SPECIFICATION Spec
CONSTANTS
  Addrs = {"a", "b"}
  Answers <- MCAnswers
  CacheSize = 2
  Attempts = 2
  Clients = {"c"}
  Resolvers = {1, 2}
  Waiters = {u, v}
  Notifiers = {m, n}
  Events = {"in", "out"}
  Masks <- MCMasks
  MaxReady = 1
  Durations = {1, 2}
  MaxNow = 6
  IdleTime = 2
  Interval = 1
  Count = 2
INVARIANTS
  CacheIsSound
  KeepaliveIsSound
PROPERTIES
  WaitersAreTold
  WaitersWake
  DeadlineSpec
CHECK_DEADLOCK FALSE
