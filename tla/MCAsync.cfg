SPECIFICATION SceneSpec
CONSTANTS
  h1 = h1 wq = wq th = th t2 = t2 loop = loop w1 = w1 w2 = w2 r1 = r1 r2 = r2
  None = None
  Handles = {h1, wq}
  Internal = {wq}
  Senders = {th, t2, loop}
  LoopThread = loop
  ForkInCallback = FALSE
  FileSize = 3
  BadUnits = {}
  CloseFails = FALSE
  FsHandles = {w1, w2}
  NoHandle = NoHandle
  MaxPending = 1
  Sends = {r1, r2}
  SendBatch = 2
  ReadBudget = 2
  Chunks = 2
  MaxArrived = 2
  KeepsReading = TRUE
  SmallBuffers = FALSE
  Members = {1, 2, 3, 4}
  threshold = 3
  SemThreads = {1, 2}
  SemWaiters = 1
  MaxPosts = 2
INVARIANTS
  SendsSound BusyCount CopyIsExact StoppedIsForgotten UdpPromise
  BarrierSafe 
PROPERTIES ImplementsSignal SceneProgress
