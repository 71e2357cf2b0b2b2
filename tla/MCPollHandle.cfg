SPECIFICATION SceneSpec
CONSTANTS
  p1 = p1 p2 = p2 s1 = s1 ha = ha h1 = h1 qa = qa q1 = q1 q2 = q2
  NULL = NULL
  IoHandles = {p1, p2, s1}
  Streams = {s1}
  Fds = {0, 2}
  Events = {"in", "out"}
  MaxEvents = 2
  EarlyClose = FALSE
  RingFds = {1, 2, 3}
  Masks = {1, 2}
  NoMask = 0
  RingSize = 2
  WinHandles = {ha, h1}
  WinAsync = {ha}
  WinReqs = {qa, q1, q2}
  HandleOf <- WinHandleOf
  NoReq = NoReq
  Rounds = 1
  PortBatch = 1
  PollEvents = {"readable", "writable"}
  Conditions = {"send"}
  SocketCloses = TRUE
INVARIANTS PollSound MasksReachKernel
PROPERTIES  SceneProgress
