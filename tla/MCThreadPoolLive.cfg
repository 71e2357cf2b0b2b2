SPECIFICATION LiveSpec
CONSTANTS
  t1 = t1 t2 = t2 t3 = t3 l1 = l1 l2 = l2
  c1 = c1 s1 = s1 s2 = s2
  None = None RunSlow = RunSlow ExitMsg = ExitMsg
  Threads = {t1, t2}
  Loops <- Loops1
  Work <- Work1
  SlowWork <- Slow1
  LoopOf <- LoopOf1
PROPERTY PoolProgress
