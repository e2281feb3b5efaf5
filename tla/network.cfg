SPECIFICATION Spec
CONSTANTS
  Locals = {a}
  Threads = {r, s, t}
  Objects = {1, 2, 3, 4}
  EchoQueue = 1
  OwnerOnly = TRUE
  Ids = {i, j}
  Length = 3
  Cuts <- MCCuts
  HighLimit = 3
  LowLimit = 1
  Dispatchers = {d, e}
  Pool = {1, 2, 3, 4}
SYMMETRY MCSymmetry
INVARIANTS
  ReferencesAreSound
  OwnedIsServed
  DatagramIntact
  MemoryIsBounded
  ReleasedOnce
CHECK_DEADLOCK FALSE
