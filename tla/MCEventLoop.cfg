SPECIFICATION SceneSpec
CONSTANTS
  t1 = t1 i1 = i1 i2 = i2 p1 = p1 c1 = c1 q1 = q1
  Handles = {t1, i1}
  Timers = {t1}
  Watchers = {i1}
  KindOf <- Kind
  Reqs = {q1}
  PendingRounds = 1
  MaxTime = 2
  IntMax = 1
  Timeouts = {2}
  Repeats = {0}
  PipeWrites = 2
  DuplexWrites = 1
  PipeModes <- Modes
  PlainUnits = 1
  IpcFrames <- Frames
PROPERTIES LoopPromise 
