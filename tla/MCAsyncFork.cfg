SPECIFICATION Spec
CONSTANTS
  None = None
  Handles = {h1, wq}
  Internal = {wq}
  Senders = {th, loop}
  LoopThread = loop
  ForkInCallback = TRUE
INVARIANT BusyCount
