SPECIFICATION SceneSpec
CONSTANTS
  a = a b = b c = c l1 = l1 l2 = l2 usr1 = usr1 usr2 = usr2
  p1 = p1 p2 = p2
  Handles = {a, c}
  Loops = {l1, l2}
  Signums = {usr1}
  LoopOf <- HomeLoop
  PipeSize = 2
  BufSize = 1
  NoSignal = NoSignal
  Careful = TRUE
  Procs = {p1, p2}
  ListHead = ListHead
  PendingHead = PendingHead
  PipeRoom = 2
INVARIANTS SignalPromise ProcessQueues
 
