SPECIFICATION SceneSpec
CONSTANTS
  i1 = i1 i2 = i2 p1 = p1 fp = fp w1 = w1 w2 = w2 q1 = q1 q2 = q2
  Handles = {i1, i2, p1, fp, w1, w2}
  Timers = {}
  Watchers = {i1, i2, p1}
  KindOf <- Kind
  Reqs = {}
  PendingRounds = 1
  MaxTime = 1
  IntMax = 1
  Timeouts = {0}
  Repeats = {0}
  poller = fp
  Contexts = {1, 2}
  Versions = {1, 2}
  Errors <- Errors1
  StartOver = FALSE
  Watching = {w1, w2}
  Paths = {"a", "b"}
  MaxKeys = 1
  MaxLines = 2
  ModeSwitches = TRUE
  CarefulStops = TRUE
  BuffersLacking = TRUE
  MaxWd = 3
  MaxEvents = 2
  MayFork = TRUE
  FsReqs = {q1, q2}
  RingKinds = {"open", "stat", "read", "write"}
  SqRoom = 1
  CqRoom = 1
  StatxLacking = FALSE
  Simultaneous = 2
  Incoming = 2
  TcpWrites = 2
  TcpUnits = 1
  ReadsInARow = 1
  AcceptAfterError = FALSE
INVARIANTS InotifyPromise FsRequestPromise
PROPERTIES
  WalksPromise
  FsPollPromise  WinTcpPromise 
