SPECIFICATION Spec
CONSTANTS
  t1 = t1 t2 = t2 t3 = t3 l1 = l1 l2 = l2
  c1 = c1 s1 = s1 s2 = s2
  None = None RunSlow = RunSlow ExitMsg = ExitMsg
  Threads = {t1, t2, t3}
  Loops <- Loops2
  Work <- Work2
  SlowWork <- Slow2
  LoopOf <- LoopOf2
SYMMETRY Symmetry
INVARIANTS TypeOK SlowBound RequestsSafe NothingWaitsInVain
PROPERTIES CallbackTellsTruth ImplementsService
