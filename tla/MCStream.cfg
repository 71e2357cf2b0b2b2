SPECIFICATION SceneSpec
CONSTANTS
  w1 = w1 w2 = w2 w3 = w3
  Writes = {w1, w2, w3}
  Lengths = {2}
  MaxWrites = 1
  MaxReads = 1
  Careful = TRUE
  MaxSent = 4
  MaxMessage = 2
  FdLimit = 4
  OtherFds = 1
  ListenAgain = FALSE
  LateFailures = FALSE
INVARIANT ListenerPromise
PROPERTIES StreamPromise RequestsComplete
