--------------------------- MODULE ThreadPoolProofs ---------------------------
(***************************************************************************)
(* Safety of the thread pool for every set of threads, loops and requests. *)
(* TypeOK is not inductive: the counters are decremented, so their types   *)
(* rest on what they count, and a worker's lock and local variables follow *)
(* its place in the code.  IndInv joins those facts; one lemma per         *)
(* conjunct shows that every action preserves it.                          *)
(***************************************************************************)
EXTENDS ThreadPool, Lemmas, FunctionTheorems

\* What a thread's local variables hold at each place of its code.
Locals ==
  /\ \A t \in Threads : pc[t] \in {"run", "publish", "send"} => cur[t] \in Work
  /\ \A t \in Threads : is_slow_work[t] => pc[t] \in {"run", "publish", "send", "aborted", "lock"}
  /\ \A l \in Loops : lpc[l] \in {"once", "init", "cancel", "mark", "requeue"} => arg[l] \in Work
  /\ once = "init" => \A t \in Threads : pc[t] = "absent"

\* Who holds which lock at each place of the code.
Locks ==
  /\ \A t \in Threads : mutex = t <=> pc[t] = "scan"
  /\ \A l \in Loops : mutex = l <=> lpc[l] = "cancel"
  /\ \A l \in Loops, t \in Threads : wq_mutex[l] = t => pc[t] = "send" /\ LoopOf[cur[t]] = l

\* The inductive invariant.
IndInv == TypeOK /\ Locals /\ Locks /\ IdleCount /\ SlowBound

\* uv_cond_signal leaves every worker where it is, but may wake a parked one.
LEMMA SignalEffect ==
  ASSUME NEW q \in [Threads -> WorkerPlaces], NEW p,
         p \in Signal(q) \/ p \in SignalIfIdle(q)
  PROVE  /\ p \in [Threads -> WorkerPlaces]
         /\ \A t \in Threads : p[t] = q[t] \/ (q[t] = "parked" /\ p[t] = "woken")
BY DEF Signal, SignalIfIdle, WorkerPlaces

\* While a worker counts as slow the counter can be decremented.
LEMMA SlowPositive ==
  ASSUME SlowBound, NEW t \in Threads, is_slow_work[t]
  PROVE  slow_io_work_running # 0
<1> DEFINE S == {u \in Threads : is_slow_work[u]}
<1>1. IsFiniteSet(S)
  BY FS_Subset, ThreadsAssumption
<1>2. S # {}
  OBVIOUS
<1> QED BY <1>1, <1>2, FS_EmptySet DEF SlowBound

\* While a worker is inside uv_cond_wait the counter can be decremented.
LEMMA IdlePositive ==
  ASSUME IdleCount, NEW t \in Threads, pc[t] = "woken"
  PROVE  idle_threads # 0
<1> DEFINE S == {u \in Threads : pc[u] \in {"parked", "woken"}}
<1>1. IsFiniteSet(S)
  BY FS_Subset, ThreadsAssumption
<1>2. S # {}
  OBVIOUS
<1> QED BY <1>1, <1>2, FS_EmptySet DEF IdleCount

\* A step of worker t that may also wake one parked worker.
MovesTo(t, place) ==
  /\ pc' \in [Threads -> WorkerPlaces]
  /\ pc'[t] = place
  /\ \A u \in Threads : u = t \/ pc'[u] = pc[u] \/ (pc[u] = "parked" /\ pc'[u] = "woken")

\* A step of a loop's thread that may wake one parked worker.
WakesOne ==
  /\ pc' \in [Threads -> WorkerPlaces]
  /\ \A u \in Threads : pc'[u] = pc[u] \/ (pc[u] = "parked" /\ pc'[u] = "woken")

\* A worker that exits may wake another on its way.
LEMMA ExitWakes ==
  ASSUME TypeOK, NEW t \in Threads, WorkerExit(t)
  PROVE  MovesTo(t, "exited")
<1>1. [pc EXCEPT ![t] = "exited"] \in [Threads -> WorkerPlaces]
  BY DEF TypeOK, WorkerPlaces
<1> DEFINE after == [pc EXCEPT ![t] = "exited"]
<1>2. pc' \in Signal(after)
  BY DEF WorkerExit
<1> HIDE DEF after
<1>3. /\ pc' \in [Threads -> WorkerPlaces]
      /\ \A u \in Threads : pc'[u] = after[u] \/ (after[u] = "parked" /\ pc'[u] = "woken")
  BY <1>1, <1>2, SignalEffect DEF after
<1> QED BY <1>3 DEF after, MovesTo, TypeOK

\* So may a worker that takes a slow request and leaves more behind.
LEMMA TakeSlowWakes ==
  ASSUME TypeOK, NEW t \in Threads, TakeSlowWork(t)
  PROVE  MovesTo(t, "run")
<1>1. [pc EXCEPT ![t] = "run"] \in [Threads -> WorkerPlaces]
  BY DEF TypeOK, WorkerPlaces
<1> DEFINE after == [pc EXCEPT ![t] = "run"]
<1>2. pc' = after \/ pc' \in SignalIfIdle(after)
  BY DEF TakeSlowWork
<1> HIDE DEF after
<1>3. /\ pc' \in [Threads -> WorkerPlaces]
      /\ \A u \in Threads : pc'[u] = after[u] \/ (after[u] = "parked" /\ pc'[u] = "woken")
  <2>1. CASE pc' = after
    BY <1>1, <2>1 DEF after
  <2>2. CASE pc' \in SignalIfIdle(after)
    BY <1>1, <2>2, SignalEffect DEF after
  <2> QED BY <1>2, <2>1, <2>2
<1> QED BY <1>3 DEF after, MovesTo, TypeOK

\* A worker that leaves the scan gives up the mutex and no other lock.
LEMMA LeaveScan ==
  ASSUME Locks, NEW t \in Threads, NEW place, place # "scan",
         MovesTo(t, place), pc[t] = "scan", mutex' = None,
         UNCHANGED <<wq_mutex, lpc>>,
         \A u \in Threads : u = t \/ cur'[u] = cur[u]
  PROVE  Locks'
<1>1. /\ \A u \in Threads : u = t \/ pc[u] # "scan"
      /\ \A l \in Loops : lpc[l] # "cancel"
      /\ \A l \in Loops : wq_mutex[l] # t
  BY NamesAssumption DEF Locks
<1>2. ASSUME NEW u \in Threads PROVE pc'[u] # "scan"
  <2>1. CASE u = t
    BY <2>1 DEF MovesTo
  <2>2. CASE u # t
    BY <1>1, <2>2 DEF MovesTo
  <2> QED BY <2>1, <2>2
<1>3. ASSUME NEW l \in Loops, NEW u \in Threads, wq_mutex'[l] = u
      PROVE  pc'[u] = "send" /\ LoopOf[cur'[u]] = l
  <2>1. u # t /\ pc[u] = "send" /\ LoopOf[cur[u]] = l
    BY <1>1, <1>3 DEF Locks
  <2> QED BY <2>1 DEF MovesTo
<1>4. \A l \in Loops : lpc'[l] # "cancel"
  BY <1>1
<1>5. mutex' \notin Threads \cup Loops
  BY NamesAssumption
<1> QED BY <1>2, <1>3, <1>4, <1>5 DEF Locks

\* post() wakes at most one parked worker.
LEMMA PostWakes ==
  ASSUME TypeOK, (\E l \in Loops : Post(l)) \/ CleanupPost
  PROVE  WakesOne
<1>1. pc \in [Threads -> WorkerPlaces]
  BY DEF TypeOK
<1>2. CASE pc' = pc
  BY <1>1, <1>2 DEF WakesOne
<1>3. CASE pc' \in SignalIfIdle(pc)
  BY <1>1, <1>3, SignalEffect DEF WakesOne
<1> QED BY <1>2, <1>3 DEF Post, CleanupPost

\* A worker that need not wait finds a node at the head of wq.
LEMMA QueueReady ==
  ASSUME TypeOK, ~MustWait
  PROVE  /\ wq # <<>>
         /\ Head(wq) \in QueueNodes
         /\ Tail(wq) \in Seq(QueueNodes)
BY HeadTailProperties DEF TypeOK, MustWait


\* Every step preserves the types.
LEMMA TypeStep == IndInv /\ [Next]_vars => TypeOK'
<1> SUFFICES ASSUME IndInv, [Next]_vars PROVE TypeOK'
  OBVIOUS
<1> USE DEF IndInv, TypeOK, Locals, poolVars, workerVars, loopVars, reqVars, WorkerPlaces, LoopPlaces, QueueNodes
<1>1. ASSUME NEW t \in Threads, WorkerStart(t) PROVE TypeOK'
  BY <1>1 DEF WorkerStart
<1>2. ASSUME NEW t \in Threads, WorkerLock(t) PROVE TypeOK'
  BY <1>2, SlowPositive DEF WorkerLock, SlowGivenBack
<1>3. ASSUME NEW t \in Threads, WorkerPark(t) PROVE TypeOK'
  BY <1>3 DEF WorkerPark
<1>4. ASSUME NEW t \in Threads, SpuriousWakeup(t) PROVE TypeOK'
  BY <1>4 DEF SpuriousWakeup
<1>5. ASSUME NEW t \in Threads, WorkerWake(t) PROVE TypeOK'
  BY <1>5, IdlePositive DEF WorkerWake
<1>6. ASSUME NEW t \in Threads, WorkerExit(t) PROVE TypeOK'
  <2>1. pc' \in [Threads -> WorkerPlaces]
    BY <1>6, ExitWakes DEF MovesTo
  <2> QED BY <1>6, <2>1 DEF WorkerExit
<1>7. ASSUME NEW t \in Threads, TakeWork(t) PROVE TypeOK'
  <2>1. Tail(wq) \in Seq(QueueNodes)
    BY <1>7, QueueReady DEF TakeWork
  <2> QED BY <1>7, <2>1 DEF TakeWork
<1>8. ASSUME NEW t \in Threads, RescheduleSlow(t) PROVE TypeOK'
  <2>1. Append(Tail(wq), RunSlow) \in Seq(QueueNodes)
    BY <1>8, QueueReady, AppendProperties, RunSlow \in QueueNodes DEF RescheduleSlow
  <2> QED BY <1>8, <2>1 DEF RescheduleSlow
<1>9. ASSUME NEW t \in Threads, DropSlowMessage(t) PROVE TypeOK'
  <2>1. Tail(wq) \in Seq(QueueNodes)
    BY <1>9, QueueReady DEF DropSlowMessage
  <2> QED BY <1>9, <2>1 DEF DropSlowMessage
<1>10. ASSUME NEW t \in Threads, TakeSlowWork(t) PROVE TypeOK'
  <2> DEFINE w == Head(slow_io_pending_wq)
  <2>1. w \in Work /\ Tail(slow_io_pending_wq) \in Seq(Work)
    BY <1>10, HeadTailProperties DEF TakeSlowWork
  <2>2. Tail(wq) \in Seq(QueueNodes) /\ Append(Tail(wq), RunSlow) \in Seq(QueueNodes)
    BY <1>10, QueueReady, AppendProperties, RunSlow \in QueueNodes DEF TakeSlowWork
  <2>3. pc' \in [Threads -> WorkerPlaces]
    BY <1>10, TakeSlowWakes DEF MovesTo
  <2>4. wq' \in Seq(QueueNodes)
    BY <1>10, <2>2 DEF TakeSlowWork
  <2>5. /\ slow_io_pending_wq' = Tail(slow_io_pending_wq)
        /\ self_linked' = self_linked \cup {w}
        /\ cur' = [cur EXCEPT ![t] = w]
        /\ slow_io_work_running' = slow_io_work_running + 1
        /\ is_slow_work' = [is_slow_work EXCEPT ![t] = TRUE]
        /\ mutex' = None
        /\ UNCHANGED <<once, started, idle_threads, phase, loopVars,
                       work, active, ran, cancelOK>>
    BY <1>10 DEF TakeSlowWork
  <2> HIDE DEF w
  <2> QED BY <2>1, <2>3, <2>4, <2>5
<1>11. ASSUME NEW t \in Threads, RunWork(t) PROVE TypeOK'
  <2>1. CASE work[cur[t]] = "fn"
    <3>1. ran' \in [Work -> Nat]
      BY <1>11, <2>1 DEF RunWork
    <3> QED BY <1>11, <2>1, <3>1 DEF RunWork
  <2>2. CASE work[cur[t]] # "fn"
    BY <1>11, <2>2 DEF RunWork
  <2> QED BY <2>1, <2>2
<1>12. ASSUME NEW t \in Threads, Publish(t) PROVE TypeOK'
  <2>1. cur[t] \in Work /\ LoopOf[cur[t]] \in Loops
    BY <1>12, WorkAssumption DEF Publish
  <2>2. Append(loop_wq[LoopOf[cur[t]]], cur[t]) \in Seq(Work)
    BY <2>1, AppendProperties
  <2> QED BY <1>12, <2>1, <2>2 DEF Publish
<1>13. ASSUME NEW t \in Threads, Send(t) PROVE TypeOK'
  BY <1>13, WorkAssumption DEF Send, Wakeup
<1>14. ASSUME NEW l \in Loops, NEW w \in Work, QueueWork(l, w) PROVE TypeOK'
  BY <1>14 DEF QueueWork
<1>15. ASSUME NEW l \in Loops, NEW w \in Work, CancelLock(l, w) PROVE TypeOK'
  BY <1>15 DEF CancelLock
<1>16. ASSUME NEW l \in Loops, OnceBegin(l) PROVE TypeOK'
  BY <1>16 DEF OnceBegin
<1>17. ASSUME NEW l \in Loops, OnceEnd(l) PROVE TypeOK'
  BY <1>17 DEF OnceEnd
<1>18. ASSUME NEW l \in Loops, Post(l) PROVE TypeOK'
  <2> DEFINE w == arg[l]
  <2>1. w \in Work
    BY <1>18 DEF Post
  <2>2. slow_io_pending_wq' \in Seq(Work)
    BY <1>18, <2>1, AppendProperties DEF Post
  <2>3. wq' \in Seq(QueueNodes)
    <3> DEFINE node == IF w \in SlowWork THEN RunSlow ELSE w
    <3>1. node \in QueueNodes /\ (wq' = wq \/ wq' = Append(wq, node))
      BY <1>18, <2>1 DEF Post
    <3> HIDE DEF node
    <3>2. wq \in Seq(QueueNodes)
      OBVIOUS
    <3>3. Append(wq, node) \in Seq(QueueNodes)
      BY <3>1, <3>2, AppendProperties
    <3> QED BY <3>1, <3>2, <3>3
  <2>4. pc' \in [Threads -> WorkerPlaces]
    BY <1>18, PostWakes DEF WakesOne
  <2> QED BY <1>18, <2>1, <2>2, <2>3, <2>4 DEF Post
<1>19. ASSUME NEW l \in Loops, CancelDecide(l) PROVE TypeOK'
  <2>1. /\ Unlink(wq, arg[l]) \in Seq(QueueNodes)
        /\ Unlink(slow_io_pending_wq, arg[l]) \in Seq(Work)
        /\ Unlink(loop_wq[l], arg[l]) \in Seq(Work)
        /\ Unlink(done_wq[l], arg[l]) \in Seq(Work)
    BY UnlinkType
  <2>2. CASE Cancellable(arg[l])
    <3>1. /\ loop_wq' = [loop_wq EXCEPT ![l] = Unlink(loop_wq[l], arg[l])]
          /\ done_wq' = [done_wq EXCEPT ![l] = Unlink(done_wq[l], arg[l])]
      BY <1>19, <2>2 DEF CancelDecide
    <3>2. loop_wq' \in [Loops -> Seq(Work)] /\ done_wq' \in [Loops -> Seq(Work)]
      BY <2>1, <3>1
    <3>3. wq' \in Seq(QueueNodes) /\ slow_io_pending_wq' \in Seq(Work)
      BY <1>19, <2>1, <2>2 DEF CancelDecide
    <3> QED BY <1>19, <2>2, <3>2, <3>3 DEF CancelDecide
  <2>3. CASE ~Cancellable(arg[l])
    BY ZenonT(40), <1>19, <2>3 DEF CancelDecide
  <2> QED BY <2>2, <2>3
<1>20. ASSUME NEW l \in Loops, CancelMark(l) PROVE TypeOK'
  BY <1>20 DEF CancelMark
<1>21. ASSUME NEW l \in Loops, CancelRequeue(l) PROVE TypeOK'
  <2>1. Append(loop_wq[l], arg[l]) \in Seq(Work)
    BY <1>21, AppendProperties DEF CancelRequeue
  <2> QED BY <1>21, <2>1 DEF CancelRequeue, Wakeup
<1>22. ASSUME NEW l \in Loops, AsyncIo(l) PROVE TypeOK'
  BY <1>22 DEF AsyncIo
<1>23. ASSUME NEW l \in Loops, WorkDone(l) PROVE TypeOK'
  BY <1>23 DEF WorkDone
<1>24. ASSUME NEW l \in Loops, Callback(l) PROVE TypeOK'
  <2>1. Head(done_wq[l]) \in Work /\ Tail(done_wq[l]) \in Seq(Work)
    BY <1>24, HeadTailProperties DEF Callback
  <2> QED BY <1>24, <2>1 DEF Callback
<1>25. ASSUME NEW l \in Loops, LoopClose(l) PROVE TypeOK'
  BY <1>25 DEF LoopClose
<1>26. CASE CleanupPost
  <2>1. pc' \in [Threads -> WorkerPlaces]
    BY <1>26, PostWakes DEF WakesOne
  <2>2. wq' \in Seq(QueueNodes)
    <3>1. wq' = wq \/ wq' = Append(wq, ExitMsg)
      BY <1>26 DEF CleanupPost, ExitLast
    <3>2. wq \in Seq(QueueNodes)
      OBVIOUS
    <3>3. Append(wq, ExitMsg) \in Seq(QueueNodes)
      BY <3>2, AppendProperties
    <3> QED BY <3>1, <3>2, <3>3
  <2> QED BY <1>26, <2>1, <2>2 DEF CleanupPost
<1>27. CASE CleanupJoin
  BY <1>27 DEF CleanupJoin
<1>28. CASE UNCHANGED vars
  BY <1>28 DEF vars
<1> QED
  BY <1>1, <1>2, <1>3, <1>4, <1>5, <1>6, <1>7, <1>8, <1>9, <1>10,
     <1>11, <1>12, <1>13, <1>14, <1>15, <1>16, <1>17, <1>18, <1>19,
     <1>20, <1>21, <1>22, <1>23, <1>24, <1>25, <1>26, <1>27, <1>28
     DEF Next, Worker, LoopThread, Cleanup, Finished


\* Every step preserves what the threads' local variables hold.
LEMMA LocalsStep == IndInv /\ [Next]_vars => Locals'
<1> SUFFICES ASSUME IndInv, [Next]_vars PROVE Locals'
  OBVIOUS
<1> USE DEF IndInv, TypeOK, poolVars, workerVars, loopVars, reqVars, Locals, InUserCode
<1>1. ASSUME NEW t \in Threads, WorkerStart(t) PROVE Locals'
  BY <1>1 DEF WorkerStart
<1>2. ASSUME NEW t \in Threads, WorkerLock(t) PROVE Locals'
  BY <1>2 DEF WorkerLock
<1>3. ASSUME NEW t \in Threads, WorkerPark(t) PROVE Locals'
  BY <1>3 DEF WorkerPark
<1>4. ASSUME NEW t \in Threads, SpuriousWakeup(t) PROVE Locals'
  BY <1>4 DEF SpuriousWakeup
<1>5. ASSUME NEW t \in Threads, WorkerWake(t) PROVE Locals'
  BY <1>5 DEF WorkerWake
<1>6. ASSUME NEW t \in Threads, WorkerExit(t) PROVE Locals'
  BY <1>6, ExitWakes DEF WorkerExit, MovesTo
<1>7. ASSUME NEW t \in Threads, TakeWork(t) PROVE Locals'
  BY <1>7 DEF TakeWork
<1>8. ASSUME NEW t \in Threads, RescheduleSlow(t) PROVE Locals'
  BY <1>8 DEF RescheduleSlow
<1>9. ASSUME NEW t \in Threads, DropSlowMessage(t) PROVE Locals'
  BY <1>9 DEF DropSlowMessage
<1>10. ASSUME NEW t \in Threads, TakeSlowWork(t) PROVE Locals'
  <2>1. cur'[t] \in Work /\ cur' = [cur EXCEPT ![t] = Head(slow_io_pending_wq)]
    BY <1>10, HeadTailProperties DEF TakeSlowWork
  <2>2. MovesTo(t, "run")
    BY <1>10, TakeSlowWakes
  <2>3. is_slow_work' = [is_slow_work EXCEPT ![t] = TRUE]
        /\ UNCHANGED <<once, lpc, arg>>
    BY <1>10 DEF TakeSlowWork
  <2>4. pc[t] = "scan"
    BY <1>10 DEF TakeSlowWork
  <2> QED BY <2>1, <2>2, <2>3, <2>4 DEF MovesTo
<1>11. ASSUME NEW t \in Threads, RunWork(t) PROVE Locals'
  BY <1>11 DEF RunWork
<1>12. ASSUME NEW t \in Threads, Publish(t) PROVE Locals'
  BY <1>12 DEF Publish
<1>13. ASSUME NEW t \in Threads, Send(t) PROVE Locals'
  BY <1>13 DEF Send
<1>14. ASSUME NEW l \in Loops, NEW w \in Work, QueueWork(l, w) PROVE Locals'
  BY <1>14 DEF QueueWork
<1>15. ASSUME NEW l \in Loops, NEW w \in Work, CancelLock(l, w) PROVE Locals'
  BY <1>15 DEF CancelLock
<1>16. ASSUME NEW l \in Loops, OnceBegin(l) PROVE Locals'
  BY <1>16 DEF OnceBegin
<1>17. ASSUME NEW l \in Loops, OnceEnd(l) PROVE Locals'
  BY <1>17 DEF OnceEnd
<1>18. ASSUME NEW l \in Loops, Post(l) PROVE Locals'
  BY <1>18, PostWakes DEF Post, WakesOne
<1>19. ASSUME NEW l \in Loops, CancelDecide(l) PROVE Locals'
  BY <1>19 DEF CancelDecide
<1>20. ASSUME NEW l \in Loops, CancelMark(l) PROVE Locals'
  BY <1>20 DEF CancelMark
<1>21. ASSUME NEW l \in Loops, CancelRequeue(l) PROVE Locals'
  BY <1>21 DEF CancelRequeue
<1>22. ASSUME NEW l \in Loops, AsyncIo(l) PROVE Locals'
  BY <1>22 DEF AsyncIo
<1>23. ASSUME NEW l \in Loops, WorkDone(l) PROVE Locals'
  BY <1>23 DEF WorkDone
<1>24. ASSUME NEW l \in Loops, Callback(l) PROVE Locals'
  BY <1>24 DEF Callback
<1>25. ASSUME NEW l \in Loops, LoopClose(l) PROVE Locals'
  BY <1>25 DEF LoopClose
<1>26. CASE CleanupPost
  BY <1>26, PostWakes DEF CleanupPost, WakesOne
<1>27. CASE CleanupJoin
  BY <1>27 DEF CleanupJoin
<1>28. CASE UNCHANGED vars
  BY <1>28 DEF vars
<1> QED
  BY <1>1, <1>2, <1>3, <1>4, <1>5, <1>6, <1>7, <1>8, <1>9, <1>10,
     <1>11, <1>12, <1>13, <1>14, <1>15, <1>16, <1>17, <1>18, <1>19,
     <1>20, <1>21, <1>22, <1>23, <1>24, <1>25, <1>26, <1>27, <1>28
     DEF Next, Worker, LoopThread, Cleanup, Finished


\* Every step preserves who holds which lock.
LEMMA LocksStep == IndInv /\ [Next]_vars => Locks'
<1> SUFFICES ASSUME IndInv, [Next]_vars PROVE Locks'
  OBVIOUS
<1> USE NamesAssumption, WorkAssumption DEF IndInv, TypeOK, poolVars, workerVars, loopVars, reqVars, Locks, Locals, InUserCode
<1>1. ASSUME NEW t \in Threads, WorkerStart(t) PROVE Locks'
  BY <1>1 DEF WorkerStart
<1>2. ASSUME NEW t \in Threads, WorkerLock(t) PROVE Locks'
  BY <1>2 DEF WorkerLock
<1>3. ASSUME NEW t \in Threads, WorkerPark(t) PROVE Locks'
  BY <1>3 DEF WorkerPark
<1>4. ASSUME NEW t \in Threads, SpuriousWakeup(t) PROVE Locks'
  BY <1>4 DEF SpuriousWakeup
<1>5. ASSUME NEW t \in Threads, WorkerWake(t) PROVE Locks'
  BY <1>5 DEF WorkerWake
<1>6. ASSUME NEW t \in Threads, WorkerExit(t) PROVE Locks'
  <2>1. MovesTo(t, "exited")
    BY <1>6, ExitWakes
  <2>2. pc[t] = "scan" /\ mutex' = None /\ UNCHANGED <<wq_mutex, lpc, cur>>
    BY <1>6 DEF WorkerExit
  <2>3. \A u \in Threads : u = t \/ cur'[u] = cur[u]
    BY <2>2
  <2> QED BY <2>1, <2>2, <2>3, LeaveScan
<1>7. ASSUME NEW t \in Threads, TakeWork(t) PROVE Locks'
  BY <1>7 DEF TakeWork
<1>8. ASSUME NEW t \in Threads, RescheduleSlow(t) PROVE Locks'
  BY <1>8 DEF RescheduleSlow
<1>9. ASSUME NEW t \in Threads, DropSlowMessage(t) PROVE Locks'
  BY <1>9 DEF DropSlowMessage
<1>10. ASSUME NEW t \in Threads, TakeSlowWork(t) PROVE Locks'
  <2>1. MovesTo(t, "run")
    BY <1>10, TakeSlowWakes
  <2>2. /\ pc[t] = "scan" /\ mutex' = None /\ UNCHANGED <<wq_mutex, lpc>>
        /\ cur' = [cur EXCEPT ![t] = Head(slow_io_pending_wq)]
    BY <1>10 DEF TakeSlowWork
  <2>3. \A u \in Threads : u = t \/ cur'[u] = cur[u]
    BY <2>2
  <2> QED BY <2>1, <2>2, <2>3, LeaveScan
<1>11. ASSUME NEW t \in Threads, RunWork(t) PROVE Locks'
  BY <1>11 DEF RunWork
<1>12. ASSUME NEW t \in Threads, Publish(t) PROVE Locks'
  BY <1>12 DEF Publish
<1>13. ASSUME NEW t \in Threads, Send(t) PROVE Locks'
  BY <1>13 DEF Send
<1>14. ASSUME NEW l \in Loops, NEW w \in Work, QueueWork(l, w) PROVE Locks'
  BY <1>14 DEF QueueWork
<1>15. ASSUME NEW l \in Loops, NEW w \in Work, CancelLock(l, w) PROVE Locks'
  BY <1>15 DEF CancelLock
<1>16. ASSUME NEW l \in Loops, OnceBegin(l) PROVE Locks'
  BY <1>16 DEF OnceBegin
<1>17. ASSUME NEW l \in Loops, OnceEnd(l) PROVE Locks'
  BY <1>17 DEF OnceEnd
<1>18. ASSUME NEW l \in Loops, Post(l) PROVE Locks'
  <2>1. WakesOne /\ mutex = None
    BY <1>18, PostWakes DEF Post
  <2>2. lpc' = [lpc EXCEPT ![l] = "run"] /\ UNCHANGED <<mutex, wq_mutex, cur>>
    BY <1>18 DEF Post
  <2> QED BY <2>1, <2>2 DEF WakesOne
<1>19. ASSUME NEW l \in Loops, CancelDecide(l) PROVE Locks'
  <2>1. lpc[l] = "cancel" /\ mutex' = None /\ UNCHANGED <<wq_mutex, pc, cur>>
    BY <1>19 DEF CancelDecide
  <2>2. lpc' = [lpc EXCEPT ![l] = "mark"] \/ lpc' = [lpc EXCEPT ![l] = "run"]
    BY <1>19 DEF CancelDecide
  <2>3. \A u \in Threads : pc[u] # "scan"
    BY <2>1
  <2>4. \A k \in Loops : lpc'[k] # "cancel"
    <3> TAKE k \in Loops
    <3>1. CASE k = l
      BY <2>2, <3>1
    <3>2. CASE k # l
      <4>1. lpc[k] # "cancel"
        BY <2>1, <3>2
      <4> QED BY <2>2, <3>2, <4>1
    <3> QED BY <3>1, <3>2
  <2>5. mutex' \notin Threads \cup Loops
    BY <2>1
  <2> QED BY <2>1, <2>3, <2>4, <2>5
<1>20. ASSUME NEW l \in Loops, CancelMark(l) PROVE Locks'
  BY <1>20 DEF CancelMark
<1>21. ASSUME NEW l \in Loops, CancelRequeue(l) PROVE Locks'
  BY <1>21 DEF CancelRequeue
<1>22. ASSUME NEW l \in Loops, AsyncIo(l) PROVE Locks'
  BY <1>22 DEF AsyncIo
<1>23. ASSUME NEW l \in Loops, WorkDone(l) PROVE Locks'
  BY <1>23 DEF WorkDone
<1>24. ASSUME NEW l \in Loops, Callback(l) PROVE Locks'
  <2>1. lpc[l] # "cancel" /\ lpc' = [lpc EXCEPT ![l] = "run"]
    BY <1>24 DEF Callback
  <2>2. UNCHANGED <<mutex, wq_mutex, pc, cur>>
    BY <1>24 DEF Callback
  <2> QED BY <2>1, <2>2
<1>25. ASSUME NEW l \in Loops, LoopClose(l) PROVE Locks'
  BY <1>25 DEF LoopClose
<1>26. CASE CleanupPost
  BY <1>26, PostWakes DEF CleanupPost, WakesOne
<1>27. CASE CleanupJoin
  BY <1>27 DEF CleanupJoin
<1>28. CASE UNCHANGED vars
  BY <1>28 DEF vars
<1> QED
  BY <1>1, <1>2, <1>3, <1>4, <1>5, <1>6, <1>7, <1>8, <1>9, <1>10,
     <1>11, <1>12, <1>13, <1>14, <1>15, <1>16, <1>17, <1>18, <1>19,
     <1>20, <1>21, <1>22, <1>23, <1>24, <1>25, <1>26, <1>27, <1>28
     DEF Next, Worker, LoopThread, Cleanup, Finished


\* The workers the two counters count.
IdleThreads == {t \in Threads : pc[t] \in {"parked", "woken"}}
SlowThreads == {t \in Threads : is_slow_work[t]}

\* Steps that park and wake nobody preserve the idle count.
LEMMA SameIdle ==
  ASSUME IdleCount, UNCHANGED idle_threads,
         \A u \in Threads : pc'[u] \in {"parked", "woken"} <=> pc[u] \in {"parked", "woken"}
  PROVE  IdleCount'
<1>1. IdleThreads' = IdleThreads
  BY DEF IdleThreads
<1> QED BY <1>1 DEF IdleCount, IdleThreads

\* uv_cond_wait counts the thread that enters it.
LEMMA ParkCounts ==
  ASSUME TypeOK, IdleCount, NEW t \in Threads, WorkerPark(t)
  PROVE  IdleCount'
<1>1. IsFiniteSet(IdleThreads)
  BY FS_Subset, ThreadsAssumption DEF IdleThreads
<1>2. t \notin IdleThreads /\ IdleThreads' = IdleThreads \cup {t}
  BY DEF IdleThreads, WorkerPark, TypeOK
<1>3. Cardinality(IdleThreads') = Cardinality(IdleThreads) + 1
  BY <1>1, <1>2, FS_AddElement
<1> QED BY <1>3 DEF IdleCount, IdleThreads, WorkerPark

\* uv_cond_wait discounts the thread that leaves it.
LEMMA WakeCounts ==
  ASSUME TypeOK, IdleCount, NEW t \in Threads, WorkerWake(t)
  PROVE  IdleCount'
<1>1. IsFiniteSet(IdleThreads)
  BY FS_Subset, ThreadsAssumption DEF IdleThreads
<1>2. t \in IdleThreads /\ IdleThreads' = IdleThreads \ {t}
  BY DEF IdleThreads, WorkerWake, TypeOK
<1>3. Cardinality(IdleThreads') = Cardinality(IdleThreads) - 1
  BY <1>1, <1>2, FS_RemoveElement
<1> QED BY <1>3 DEF IdleCount, IdleThreads, WorkerWake

\* The threshold is a natural number for every size of the pool.
LEMMA ThresholdType == slow_work_thread_threshold \in Nat
<1>1. NThreads \in Nat
  BY ThreadsAssumption, FS_CardinalityType DEF NThreads
<1> QED BY <1>1 DEF slow_work_thread_threshold

\* A worker back under the mutex gives its slow count back exactly once.
LEMMA GiveBackCounts ==
  ASSUME TypeOK, SlowBound, NEW t \in Threads, WorkerLock(t)
  PROVE  SlowBound'
<1>1. IsFiniteSet(SlowThreads)
  BY FS_Subset, ThreadsAssumption DEF SlowThreads
<1>2. SlowThreads' = SlowThreads \ {t}
  BY DEF SlowThreads, WorkerLock, TypeOK
<1>3. Cardinality(SlowThreads') = IF is_slow_work[t] THEN Cardinality(SlowThreads) - 1
                                                  ELSE Cardinality(SlowThreads)
  BY <1>1, <1>2, FS_RemoveElement DEF SlowThreads
<1>4. slow_io_work_running' = IF is_slow_work[t] THEN slow_io_work_running - 1
                                                ELSE slow_io_work_running
  BY DEF WorkerLock, SlowGivenBack
<1>5. slow_io_work_running' <= slow_io_work_running
  BY <1>4 DEF TypeOK
<1>6. slow_io_work_running' \in Int /\ slow_io_work_running \in Int
  BY <1>4 DEF TypeOK
<1> QED BY <1>3, <1>4, <1>5, <1>6, ThresholdType DEF SlowBound, SlowThreads, TypeOK

\* Taking a slow request counts it, below the threshold.
LEMMA TakeCounts ==
  ASSUME TypeOK, Locals, SlowBound, NEW t \in Threads, TakeSlowWork(t)
  PROVE  SlowBound'
<1>1. IsFiniteSet(SlowThreads)
  BY FS_Subset, ThreadsAssumption DEF SlowThreads
<1>2. t \notin SlowThreads /\ SlowThreads' = SlowThreads \cup {t}
  BY DEF SlowThreads, TakeSlowWork, TypeOK, Locals
<1>3. Cardinality(SlowThreads') = Cardinality(SlowThreads) + 1
  BY <1>1, <1>2, FS_AddElement
<1>4. slow_io_work_running' = slow_io_work_running + 1
      /\ slow_io_work_running < slow_work_thread_threshold
  BY ThresholdType DEF TakeSlowWork, AtSlowThreshold, TypeOK
<1> QED BY <1>3, <1>4, ThresholdType DEF SlowBound, SlowThreads, TypeOK


\* Every step preserves the idle count.
LEMMA IdleStep == IndInv /\ [Next]_vars => IdleCount'
<1> SUFFICES ASSUME IndInv, [Next]_vars PROVE IdleCount'
  OBVIOUS
<1> USE DEF IndInv, TypeOK, Locals, poolVars, workerVars, loopVars, reqVars
<1>1. ASSUME NEW t \in Threads, WorkerStart(t) PROVE IdleCount'
  <2>1. /\ UNCHANGED idle_threads
        /\ \A u \in Threads : pc'[u] \in {"parked", "woken"} <=> pc[u] \in {"parked", "woken"}
    BY <1>1 DEF WorkerStart
  <2> QED BY <2>1, SameIdle
<1>2. ASSUME NEW t \in Threads, WorkerLock(t) PROVE IdleCount'
  <2>1. /\ UNCHANGED idle_threads
        /\ \A u \in Threads : pc'[u] \in {"parked", "woken"} <=> pc[u] \in {"parked", "woken"}
    BY <1>2 DEF WorkerLock
  <2> QED BY <2>1, SameIdle
<1>3. ASSUME NEW t \in Threads, WorkerPark(t) PROVE IdleCount'
  BY <1>3, ParkCounts
<1>4. ASSUME NEW t \in Threads, SpuriousWakeup(t) PROVE IdleCount'
  <2>1. /\ UNCHANGED idle_threads
        /\ \A u \in Threads : pc'[u] \in {"parked", "woken"} <=> pc[u] \in {"parked", "woken"}
    BY <1>4 DEF SpuriousWakeup
  <2> QED BY <2>1, SameIdle
<1>5. ASSUME NEW t \in Threads, WorkerWake(t) PROVE IdleCount'
  BY <1>5, WakeCounts
<1>6. ASSUME NEW t \in Threads, WorkerExit(t) PROVE IdleCount'
  <2>1. /\ UNCHANGED idle_threads
        /\ \A u \in Threads : pc'[u] \in {"parked", "woken"} <=> pc[u] \in {"parked", "woken"}
    BY <1>6, ExitWakes DEF WorkerExit, MovesTo
  <2> QED BY <2>1, SameIdle
<1>7. ASSUME NEW t \in Threads, TakeWork(t) PROVE IdleCount'
  <2>1. /\ UNCHANGED idle_threads
        /\ \A u \in Threads : pc'[u] \in {"parked", "woken"} <=> pc[u] \in {"parked", "woken"}
    BY <1>7 DEF TakeWork
  <2> QED BY <2>1, SameIdle
<1>8. ASSUME NEW t \in Threads, RescheduleSlow(t) PROVE IdleCount'
  <2>1. /\ UNCHANGED idle_threads
        /\ \A u \in Threads : pc'[u] \in {"parked", "woken"} <=> pc[u] \in {"parked", "woken"}
    BY <1>8 DEF RescheduleSlow
  <2> QED BY <2>1, SameIdle
<1>9. ASSUME NEW t \in Threads, DropSlowMessage(t) PROVE IdleCount'
  <2>1. /\ UNCHANGED idle_threads
        /\ \A u \in Threads : pc'[u] \in {"parked", "woken"} <=> pc[u] \in {"parked", "woken"}
    BY <1>9 DEF DropSlowMessage
  <2> QED BY <2>1, SameIdle
<1>10. ASSUME NEW t \in Threads, TakeSlowWork(t) PROVE IdleCount'
  <2>1. /\ UNCHANGED idle_threads
        /\ \A u \in Threads : pc'[u] \in {"parked", "woken"} <=> pc[u] \in {"parked", "woken"}
    BY <1>10, TakeSlowWakes DEF TakeSlowWork, MovesTo
  <2> QED BY <2>1, SameIdle
<1>11. ASSUME NEW t \in Threads, RunWork(t) PROVE IdleCount'
  <2>1. /\ UNCHANGED idle_threads
        /\ \A u \in Threads : pc'[u] \in {"parked", "woken"} <=> pc[u] \in {"parked", "woken"}
    BY <1>11 DEF RunWork
  <2> QED BY <2>1, SameIdle
<1>12. ASSUME NEW t \in Threads, Publish(t) PROVE IdleCount'
  <2>1. /\ UNCHANGED idle_threads
        /\ \A u \in Threads : pc'[u] \in {"parked", "woken"} <=> pc[u] \in {"parked", "woken"}
    BY <1>12 DEF Publish
  <2> QED BY <2>1, SameIdle
<1>13. ASSUME NEW t \in Threads, Send(t) PROVE IdleCount'
  <2>1. /\ UNCHANGED idle_threads
        /\ \A u \in Threads : pc'[u] \in {"parked", "woken"} <=> pc[u] \in {"parked", "woken"}
    BY <1>13 DEF Send
  <2> QED BY <2>1, SameIdle
<1>14. ASSUME NEW l \in Loops, NEW w \in Work, QueueWork(l, w) PROVE IdleCount'
  <2>1. /\ UNCHANGED idle_threads
        /\ \A u \in Threads : pc'[u] \in {"parked", "woken"} <=> pc[u] \in {"parked", "woken"}
    BY <1>14 DEF QueueWork
  <2> QED BY <2>1, SameIdle
<1>15. ASSUME NEW l \in Loops, NEW w \in Work, CancelLock(l, w) PROVE IdleCount'
  <2>1. /\ UNCHANGED idle_threads
        /\ \A u \in Threads : pc'[u] \in {"parked", "woken"} <=> pc[u] \in {"parked", "woken"}
    BY <1>15 DEF CancelLock
  <2> QED BY <2>1, SameIdle
<1>16. ASSUME NEW l \in Loops, OnceBegin(l) PROVE IdleCount'
  <2>1. /\ UNCHANGED idle_threads
        /\ \A u \in Threads : pc'[u] \in {"parked", "woken"} <=> pc[u] \in {"parked", "woken"}
    BY <1>16 DEF OnceBegin
  <2> QED BY <2>1, SameIdle
<1>17. ASSUME NEW l \in Loops, OnceEnd(l) PROVE IdleCount'
  <2>1. /\ UNCHANGED idle_threads
        /\ \A u \in Threads : pc'[u] \in {"parked", "woken"} <=> pc[u] \in {"parked", "woken"}
    BY <1>17 DEF OnceEnd
  <2> QED BY <2>1, SameIdle
<1>18. ASSUME NEW l \in Loops, Post(l) PROVE IdleCount'
  <2>1. /\ UNCHANGED idle_threads
        /\ \A u \in Threads : pc'[u] \in {"parked", "woken"} <=> pc[u] \in {"parked", "woken"}
    BY <1>18, PostWakes DEF Post, WakesOne
  <2> QED BY <2>1, SameIdle
<1>19. ASSUME NEW l \in Loops, CancelDecide(l) PROVE IdleCount'
  <2>1. /\ UNCHANGED idle_threads
        /\ \A u \in Threads : pc'[u] \in {"parked", "woken"} <=> pc[u] \in {"parked", "woken"}
    BY <1>19 DEF CancelDecide
  <2> QED BY <2>1, SameIdle
<1>20. ASSUME NEW l \in Loops, CancelMark(l) PROVE IdleCount'
  <2>1. /\ UNCHANGED idle_threads
        /\ \A u \in Threads : pc'[u] \in {"parked", "woken"} <=> pc[u] \in {"parked", "woken"}
    BY <1>20 DEF CancelMark
  <2> QED BY <2>1, SameIdle
<1>21. ASSUME NEW l \in Loops, CancelRequeue(l) PROVE IdleCount'
  <2>1. /\ UNCHANGED idle_threads
        /\ \A u \in Threads : pc'[u] \in {"parked", "woken"} <=> pc[u] \in {"parked", "woken"}
    BY <1>21 DEF CancelRequeue
  <2> QED BY <2>1, SameIdle
<1>22. ASSUME NEW l \in Loops, AsyncIo(l) PROVE IdleCount'
  <2>1. /\ UNCHANGED idle_threads
        /\ \A u \in Threads : pc'[u] \in {"parked", "woken"} <=> pc[u] \in {"parked", "woken"}
    BY <1>22 DEF AsyncIo
  <2> QED BY <2>1, SameIdle
<1>23. ASSUME NEW l \in Loops, WorkDone(l) PROVE IdleCount'
  <2>1. /\ UNCHANGED idle_threads
        /\ \A u \in Threads : pc'[u] \in {"parked", "woken"} <=> pc[u] \in {"parked", "woken"}
    BY <1>23 DEF WorkDone
  <2> QED BY <2>1, SameIdle
<1>24. ASSUME NEW l \in Loops, Callback(l) PROVE IdleCount'
  <2>1. /\ UNCHANGED idle_threads
        /\ \A u \in Threads : pc'[u] \in {"parked", "woken"} <=> pc[u] \in {"parked", "woken"}
    BY <1>24 DEF Callback
  <2> QED BY <2>1, SameIdle
<1>25. ASSUME NEW l \in Loops, LoopClose(l) PROVE IdleCount'
  <2>1. /\ UNCHANGED idle_threads
        /\ \A u \in Threads : pc'[u] \in {"parked", "woken"} <=> pc[u] \in {"parked", "woken"}
    BY <1>25 DEF LoopClose
  <2> QED BY <2>1, SameIdle
<1>26. CASE CleanupPost
  <2>1. /\ UNCHANGED idle_threads
        /\ \A u \in Threads : pc'[u] \in {"parked", "woken"} <=> pc[u] \in {"parked", "woken"}
    BY <1>26, PostWakes DEF CleanupPost, WakesOne
  <2> QED BY <2>1, SameIdle
<1>27. CASE CleanupJoin
  <2>1. /\ UNCHANGED idle_threads
        /\ \A u \in Threads : pc'[u] \in {"parked", "woken"} <=> pc[u] \in {"parked", "woken"}
    BY <1>27 DEF CleanupJoin
  <2> QED BY <2>1, SameIdle
<1>28. CASE UNCHANGED vars
  BY <1>28, SameIdle DEF vars
<1> QED
  BY <1>1, <1>2, <1>3, <1>4, <1>5, <1>6, <1>7, <1>8, <1>9, <1>10,
     <1>11, <1>12, <1>13, <1>14, <1>15, <1>16, <1>17, <1>18, <1>19,
     <1>20, <1>21, <1>22, <1>23, <1>24, <1>25, <1>26, <1>27, <1>28
     DEF Next, Worker, LoopThread, Cleanup, Finished


\* Every step preserves the slow count and its bound.
LEMMA SlowStep == IndInv /\ [Next]_vars => SlowBound'
<1> SUFFICES ASSUME IndInv, [Next]_vars PROVE SlowBound'
  OBVIOUS
<1> USE DEF IndInv, SlowBound, NThreads, slow_work_thread_threshold, poolVars, workerVars, loopVars, reqVars
<1>1. ASSUME NEW t \in Threads, WorkerStart(t) PROVE SlowBound'
  BY <1>1 DEF WorkerStart
<1>2. ASSUME NEW t \in Threads, WorkerLock(t) PROVE SlowBound'
  BY <1>2, GiveBackCounts
<1>3. ASSUME NEW t \in Threads, WorkerPark(t) PROVE SlowBound'
  BY <1>3 DEF WorkerPark
<1>4. ASSUME NEW t \in Threads, SpuriousWakeup(t) PROVE SlowBound'
  BY <1>4 DEF SpuriousWakeup
<1>5. ASSUME NEW t \in Threads, WorkerWake(t) PROVE SlowBound'
  BY <1>5 DEF WorkerWake
<1>6. ASSUME NEW t \in Threads, WorkerExit(t) PROVE SlowBound'
  BY <1>6 DEF WorkerExit
<1>7. ASSUME NEW t \in Threads, TakeWork(t) PROVE SlowBound'
  BY <1>7 DEF TakeWork
<1>8. ASSUME NEW t \in Threads, RescheduleSlow(t) PROVE SlowBound'
  BY <1>8 DEF RescheduleSlow
<1>9. ASSUME NEW t \in Threads, DropSlowMessage(t) PROVE SlowBound'
  BY <1>9 DEF DropSlowMessage
<1>10. ASSUME NEW t \in Threads, TakeSlowWork(t) PROVE SlowBound'
  BY <1>10, TakeCounts
<1>11. ASSUME NEW t \in Threads, RunWork(t) PROVE SlowBound'
  BY <1>11 DEF RunWork
<1>12. ASSUME NEW t \in Threads, Publish(t) PROVE SlowBound'
  BY <1>12 DEF Publish
<1>13. ASSUME NEW t \in Threads, Send(t) PROVE SlowBound'
  BY <1>13 DEF Send
<1>14. ASSUME NEW l \in Loops, NEW w \in Work, QueueWork(l, w) PROVE SlowBound'
  BY <1>14 DEF QueueWork
<1>15. ASSUME NEW l \in Loops, NEW w \in Work, CancelLock(l, w) PROVE SlowBound'
  BY <1>15 DEF CancelLock
<1>16. ASSUME NEW l \in Loops, OnceBegin(l) PROVE SlowBound'
  BY <1>16 DEF OnceBegin
<1>17. ASSUME NEW l \in Loops, OnceEnd(l) PROVE SlowBound'
  BY <1>17 DEF OnceEnd
<1>18. ASSUME NEW l \in Loops, Post(l) PROVE SlowBound'
  BY <1>18 DEF Post
<1>19. ASSUME NEW l \in Loops, CancelDecide(l) PROVE SlowBound'
  BY <1>19 DEF CancelDecide
<1>20. ASSUME NEW l \in Loops, CancelMark(l) PROVE SlowBound'
  BY <1>20 DEF CancelMark
<1>21. ASSUME NEW l \in Loops, CancelRequeue(l) PROVE SlowBound'
  BY <1>21 DEF CancelRequeue
<1>22. ASSUME NEW l \in Loops, AsyncIo(l) PROVE SlowBound'
  BY <1>22 DEF AsyncIo
<1>23. ASSUME NEW l \in Loops, WorkDone(l) PROVE SlowBound'
  BY <1>23 DEF WorkDone
<1>24. ASSUME NEW l \in Loops, Callback(l) PROVE SlowBound'
  BY <1>24 DEF Callback
<1>25. ASSUME NEW l \in Loops, LoopClose(l) PROVE SlowBound'
  BY <1>25 DEF LoopClose
<1>26. CASE CleanupPost
  BY <1>26 DEF CleanupPost
<1>27. CASE CleanupJoin
  BY <1>27 DEF CleanupJoin
<1>28. CASE UNCHANGED vars
  BY <1>28 DEF vars
<1> QED
  BY <1>1, <1>2, <1>3, <1>4, <1>5, <1>6, <1>7, <1>8, <1>9, <1>10,
     <1>11, <1>12, <1>13, <1>14, <1>15, <1>16, <1>17, <1>18, <1>19,
     <1>20, <1>21, <1>22, <1>23, <1>24, <1>25, <1>26, <1>27, <1>28
     DEF Next, Worker, LoopThread, Cleanup, Finished

\* The initial state, before uv_once has created any worker.
LEMMA InitInv == Init => IndInv
<1> SUFFICES ASSUME Init PROVE IndInv
  OBVIOUS
<1> USE DEF Init
<1>1. TypeOK
  BY DEF TypeOK, WorkerPlaces, LoopPlaces, QueueNodes
<1>2. Locals
  BY DEF Locals
<1>3. Locks
  BY NamesAssumption DEF Locks
<1>4. IdleCount
  <2>1. {t \in Threads : pc[t] \in {"parked", "woken"}} = {}
    OBVIOUS
  <2> QED BY <2>1, FS_EmptySet DEF IdleCount
<1>5. SlowBound
  <2>1. {t \in Threads : is_slow_work[t]} = {}
    OBVIOUS
  <2>2. slow_io_work_running = 0 /\ 0 <= slow_work_thread_threshold
    BY ThresholdType
  <2> QED BY <2>1, <2>2, FS_EmptySet DEF SlowBound
<1> QED BY <1>1, <1>2, <1>3, <1>4, <1>5 DEF IndInv

\* IndInv is inductive, hence holds in every reachable state.
LEMMA Invariance == Spec => []IndInv
<1>1. IndInv /\ [Next]_vars => IndInv'
  BY TypeStep, LocalsStep, LocksStep, IdleStep, SlowStep DEF IndInv
<1> QED BY InitInv, <1>1, PTL DEF Spec

\* Every variable keeps its type; in particular the unsigned counters
\* idle_threads and slow_io_work_running never wrap below zero.
THEOREM TypeCorrect == Spec => []TypeOK
<1>1. IndInv => TypeOK
  BY DEF IndInv
<1> QED BY Invariance, <1>1, PTL

\* For every number of threads: slow_io_work_running counts the workers
\* that hold a slow request, and at most the threshold do.
THEOREM SlowIOIsBounded == Spec => []SlowBound
<1>1. IndInv => SlowBound
  BY DEF IndInv
<1> QED BY Invariance, <1>1, PTL

\* idle_threads counts the threads inside uv_cond_wait, whatever wakes them.
THEOREM IdleIsCounted == Spec => []IdleCount
<1>1. IndInv => IdleCount
  BY DEF IndInv
<1> QED BY Invariance, <1>1, PTL

\* The comment above worker(): no worker ever holds the global mutex and a
\* loop's mutex at the same time, which uv_cancel needs in order to take both.
THEOREM OneLockAtATime == Spec => []WorkerHoldsOneLock
<1>1. IndInv => WorkerHoldsOneLock
  BY DEF IndInv, Locks, WorkerHoldsOneLock
<1> QED BY Invariance, <1>1, PTL


-----------------------------------------------------------------------------
(* What becomes of a request, for every set of threads, loops and requests: *)
(* it is in one place at a time and is told the truth about, no wakeup is   *)
(* lost, and the pool implements the work service.                          *)
(*                                                                          *)
(* None of this is inductive by itself.  The proof follows each request     *)
(* through its places (Tracked), which needs queues without duplicates      *)
(* (Sorted); what holds at the start and the end of the pool (Stages) and   *)
(* of a loop (LoopsSafe); and, in the place of "somebody is awake", that    *)
(* enough workers are awake for all that is queued (EnoughAwake).           *)

\* The places a request can be in.
InWq(w)         == Linked(wq, w)
InSlow(w)       == Linked(slow_io_pending_wq, w)
InLoopWq(w)     == Linked(loop_wq[LoopOf[w]], w)
InDoneWq(w)     == Linked(done_wq[LoopOf[w]], w)
RunBy(t, w)     == cur[t] = w /\ pc[t] = "run"
PublishBy(t, w) == cur[t] = w /\ pc[t] = "publish"
HeldBy(t, w)    == RunBy(t, w) \/ PublishBy(t, w)
Submitting(w)   == arg[LoopOf[w]] = w /\ lpc[LoopOf[w]] \in {"once", "init"}
Marking(w)      == arg[LoopOf[w]] = w /\ lpc[LoopOf[w]] = "mark"
Requeueing(w)   == arg[LoopOf[w]] = w /\ lpc[LoopOf[w]] = "requeue"
Cancelling(w)   == arg[LoopOf[w]] = w /\ lpc[LoopOf[w]] = "cancel"

\* The groups of places that a request moves through.
Waits(w)     == InWq(w) \/ InSlow(w)
Completed(w) == InLoopWq(w) \/ InDoneWq(w)
Held(w)      == \E t \in Threads : HeldBy(t, w)
InCall(w)    == Submitting(w) \/ Marking(w) \/ Requeueing(w)

\* A request is in at most one place, and registered exactly while in one.
AtMostOnce(w) ==
  /\ Waits(w) => ~Completed(w) /\ ~Held(w) /\ ~InCall(w)
  /\ Completed(w) => ~Held(w) /\ ~InCall(w)
  /\ Held(w) => ~InCall(w)
  /\ ~(InWq(w) /\ InSlow(w))
  /\ ~(InLoopWq(w) /\ InDoneWq(w))
  /\ \A t, u \in Threads : HeldBy(t, w) /\ HeldBy(u, w) => t = u

Registered(w) == w \in active <=> Waits(w) \/ Completed(w) \/ Held(w) \/ InCall(w)

\* The request has neither run nor been cancelled.
Fresh(w) == ran[w] = 0 /\ w \notin cancelOK

\* It was cancelled, and has not run.
Cancelled(w) == work[w] = "cancelled" /\ ran[w] = 0 /\ w \in cancelOK

\* What the fields and the history of a request say in each place.
Fields(w) ==
  /\ w \in self_linked <=> Held(w)
  /\ w \notin active => Fresh(w)
  /\ Submitting(w) => Fresh(w)
  /\ Waits(w) => work[w] = "fn" /\ Fresh(w)
  /\ \A t \in Threads : RunBy(t, w) => work[w] = "fn" /\ Fresh(w)
  /\ \A t \in Threads : PublishBy(t, w) => ran[w] = 1 /\ w \notin cancelOK
  /\ Completed(w) => \/ work[w] = "null" /\ ran[w] = 1 /\ w \notin cancelOK
                     \/ Cancelled(w)
  /\ Marking(w) => (work[w] = "fn" /\ Fresh(w)) \/ Cancelled(w)
  /\ Requeueing(w) => work[w] = "cancelled" /\ ran[w] = 0
  /\ Cancelling(w) => w \in active

Kept(w) == AtMostOnce(w) /\ Registered(w) /\ Fields(w)
Tracked == \A w \in Work : Kept(w)

\* No queue links a node twice, and each holds only the requests it is for.
Sorted ==
  /\ Distinct(wq) /\ Distinct(slow_io_pending_wq)
  /\ \A l \in Loops : Distinct(loop_wq[l]) /\ Distinct(done_wq[l])
  /\ \A l \in Loops, w \in Work :
       Linked(loop_wq[l], w) \/ Linked(done_wq[l], w) \/ arg[l] = w => LoopOf[w] = l
  /\ \A l \in Loops : lpc[l] = "work_done" => done_wq[l] = << >>
  /\ \A w \in SlowWork : ~InWq(w)
  /\ \A w \in Work : InSlow(w) => w \in SlowWork
  /\ \A t \in Threads : pc[t] \in {"run", "publish",
       "send"} => (is_slow_work[t] <=> cur[t] \in SlowWork)

\* A worker that has queued its request still has the loop's lock.
SendLocks == \A t \in Threads : pc[t] = "send" => wq_mutex[LoopOf[cur[t]]] = t

\* A loop that was closed has no request left, and nobody has its lock.
ClosedIsUnused == \A l \in Loops : ~open[l] =>
  wq_mutex[l] = None /\ \A w \in active : LoopOf[w] # l

\* init_threads returns when every worker has posted its semaphore.
Startup ==
  /\ \A t \in started : pc[t] \notin {"absent", "start"}
  /\ \A t \in Threads : pc[t] = "start" => once = "busy"
  /\ once = "init" => wq = <<>>

\* Nothing but the message for slow work is queued behind the exit message,
\* and a worker has left only once the exit message has reached the head.
Shutdown ==
  /\ phase # "up" => \A l \in Loops : lpc[l] = "run"
  /\ phase = "up" => ~Linked(wq, ExitMsg)
  /\ \A i, j \in 1..Len(wq) : wq[i] = ExitMsg /\ i < j => wq[j] = RunSlow
  /\ \A t \in Threads : pc[t] = "exited" => wq # <<>> /\ Head(wq) = ExitMsg

\* The workers under way to the queue.  One that comes back from slow work is not
\* counted before it has given its slow count back.
Awake == {t \in Threads : pc[t] \in {"woken", "scan"} \/ (pc[t] = "lock" /\ ~is_slow_work[t])}

\* The nodes of the queue that may be taken: all but the message for slow work while
\* the threshold is reached.
Due == Len(wq) - IF Linked(wq, RunSlow) /\ AtSlowThreshold THEN 1 ELSE 0

\* While a worker is parked there is a worker under way for every one of them.
EnoughAwake == (\E t \in Threads : pc[t] = "parked") => Cardinality(Awake) >= Due

-----------------------------------------------------------------------------
(* What a step does to a queue.                                             *)

\* r is q without n.
Less(q, r, n) == Distinct(r) /\ \A m : Linked(r, m) <=> Linked(q, m) /\ m # n

\* r is q and n.
More(q, r, n) == Distinct(r) /\ \A m : Linked(r, m) <=> Linked(q, m) \/ m = n

\* A worker takes the request at the head of the queue.
LEMMA TakeWorkQueue ==
  ASSUME TypeOK, Sorted, NEW t \in Threads, TakeWork(t)
  PROVE  /\ Head(wq) \in Work /\ InWq(Head(wq))
         /\ Less(wq, wq', Head(wq))
<1>1. wq # << >> /\ wq \in Seq(QueueNodes)
  BY QueueReady DEF TypeOK, TakeWork
<1> QED BY <1>1, TailDistinct DEF TakeWork, Sorted, InWq, Less

\* The message for slow work moves to the end of the queue ...
LEMMA RescheduleQueue ==
  ASSUME TypeOK, Sorted, NEW t \in Threads, RescheduleSlow(t)
  PROVE  Distinct(wq') /\ \A n : Linked(wq', n) <=> Linked(wq, n)
<1>1. wq # << >> /\ wq \in Seq(QueueNodes) /\ RunSlow \in QueueNodes
  BY QueueReady DEF TypeOK, RescheduleSlow, QueueNodes
<1>2. /\ Linked(wq, RunSlow) /\ Tail(wq) \in Seq(QueueNodes)
      /\ Less(wq, Tail(wq), RunSlow)
  BY <1>1, TailDistinct DEF RescheduleSlow, Sorted, Less
<1>3. More(Tail(wq), wq', RunSlow)
  BY <1>1, <1>2, AppendDistinct DEF RescheduleSlow, Less, More
<1> QED BY <1>2, <1>3 DEF Less, More

\* ... or leaves it ...
LEMMA DropQueue ==
  ASSUME TypeOK, Sorted, NEW t \in Threads, DropSlowMessage(t)
  PROVE  Less(wq, wq', RunSlow)
<1>1. wq # << >> /\ wq \in Seq(QueueNodes)
  BY QueueReady DEF TypeOK, DropSlowMessage
<1> QED BY <1>1, TailDistinct DEF DropSlowMessage, Sorted, Less

\* ... when a slow request is taken, it stays exactly if there are more.
LEMMA TakeSlowQueue ==
  ASSUME TypeOK, Sorted, NEW t \in Threads, TakeSlowWork(t)
  PROVE  /\ Head(slow_io_pending_wq) \in Work /\ InSlow(Head(slow_io_pending_wq))
         /\ Less(slow_io_pending_wq, slow_io_pending_wq', Head(slow_io_pending_wq))
         /\ Distinct(wq') /\ Linked(wq, RunSlow)
         /\ \A n : Linked(wq', n) <=> IF n = RunSlow THEN slow_io_pending_wq' # << >>
                                                    ELSE Linked(wq, n)
<1>1. /\ wq # << >> /\ wq \in Seq(QueueNodes) /\ RunSlow \in QueueNodes
      /\ slow_io_pending_wq # << >> /\ slow_io_pending_wq \in Seq(Work)
  BY QueueReady DEF TypeOK, TakeSlowWork, QueueNodes
<1>2. /\ Linked(wq, RunSlow) /\ Tail(wq) \in Seq(QueueNodes)
      /\ Less(wq, Tail(wq), RunSlow)
  BY <1>1, TailDistinct DEF TakeSlowWork, Sorted, Less
<1>3. More(Tail(wq), Append(Tail(wq), RunSlow), RunSlow)
  BY <1>1, <1>2, AppendDistinct DEF Less, More
<1>4. wq' = IF slow_io_pending_wq' # << >> THEN Append(Tail(wq), RunSlow) ELSE Tail(wq)
  BY DEF TakeSlowWork, MoreSlow
<1>5. /\ Head(slow_io_pending_wq) \in Work /\ InSlow(Head(slow_io_pending_wq))
      /\ Less(slow_io_pending_wq, slow_io_pending_wq', Head(slow_io_pending_wq))
  BY <1>1, TailDistinct DEF TakeSlowWork, Sorted, Less, InSlow
<1> QED BY <1>2, <1>3, <1>4, <1>5 DEF Less, More

\* A finished request joins the completed ones of its loop.
LEMMA PublishQueue ==
  ASSUME TypeOK, Locals, Sorted, NEW t \in Threads, Publish(t), ~InLoopWq(cur[t])
  PROVE  /\ cur[t] \in Work /\ LoopOf[cur[t]] \in Loops
         /\ More(loop_wq[LoopOf[cur[t]]], loop_wq'[LoopOf[cur[t]]], cur[t])
         /\ \A l \in Loops : l # LoopOf[cur[t]] => loop_wq'[l] = loop_wq[l]
<1>1. cur[t] \in Work /\ LoopOf[cur[t]] \in Loops
  BY WorkAssumption DEF Publish, Locals
<1>2. /\ loop_wq[LoopOf[cur[t]]] \in Seq(Work)
      /\ Distinct(loop_wq[LoopOf[cur[t]]])
      /\ ~Linked(loop_wq[LoopOf[cur[t]]], cur[t])
  BY <1>1 DEF TypeOK, Sorted, InLoopWq
<1>3. More(loop_wq[LoopOf[cur[t]]], Append(loop_wq[LoopOf[cur[t]]], cur[t]), cur[t])
  BY <1>1, <1>2, AppendDistinct DEF More
<1> QED BY <1>1, <1>3 DEF Publish, TypeOK

\* A submitted request joins the queue of its kind; a slow one brings the
\* message when it is not there.
LEMMA PostQueue ==
  ASSUME TypeOK, Locals, Sorted, NEW l \in Loops, Post(l), ~InWq(arg[l]), ~InSlow(arg[l])
  PROVE  /\ arg[l] \in Work
         /\ IF arg[l] \in SlowWork
              THEN More(slow_io_pending_wq, slow_io_pending_wq', arg[l]) /\ More(wq, wq',
                   RunSlow)
              ELSE slow_io_pending_wq' = slow_io_pending_wq /\ More(wq, wq', arg[l])
<1>1. arg[l] \in Work
  BY DEF Post, Locals
<1>2. /\ wq \in Seq(QueueNodes) /\ slow_io_pending_wq \in Seq(Work)
      /\ RunSlow \in QueueNodes /\ arg[l] \in QueueNodes
  BY <1>1 DEF TypeOK, QueueNodes
<1>3. CASE arg[l] \in SlowWork
  <2>1. More(slow_io_pending_wq, slow_io_pending_wq', arg[l])
    BY <1>1, <1>2, <1>3, AppendDistinct DEF Post, Sorted, InSlow, More
  <2>2. CASE Linked(wq, RunSlow)
    <3>1. wq' = wq
      BY <1>3, <2>2 DEF Post
    <3> QED BY <1>3, <2>1, <2>2, <3>1, <1>1 DEF More, Sorted
  <2>3. CASE ~Linked(wq, RunSlow)
    <3>1. wq' = Append(wq, RunSlow)
      BY <1>3, <2>3 DEF Post
    <3> QED BY <1>1, <1>2, <1>3, <2>1, <2>3, <3>1, AppendDistinct DEF More, Sorted
  <2> QED BY <2>2, <2>3
<1>4. CASE arg[l] \notin SlowWork
  <2>1. slow_io_pending_wq' = slow_io_pending_wq /\ wq' = Append(wq, arg[l])
    BY <1>4 DEF Post
  <2> QED BY <1>1, <1>2, <1>4, <2>1, AppendDistinct DEF More, Sorted, InWq
<1> QED BY <1>3, <1>4

\* uv_cancel unlinks a request from whatever queue it is in.
LEMMA CancelQueue ==
  ASSUME TypeOK, Sorted, NEW l \in Loops, CancelDecide(l), Cancellable(arg[l])
  PROVE  /\ Less(wq, wq', arg[l])
         /\ Less(slow_io_pending_wq, slow_io_pending_wq', arg[l])
         /\ Less(loop_wq[l], loop_wq'[l], arg[l])
         /\ Less(done_wq[l], done_wq'[l], arg[l])
         /\ \A k \in Loops : k # l => loop_wq'[k] = loop_wq[k] /\ done_wq'[k] = done_wq[k]
<1>1. /\ wq \in Seq(QueueNodes) /\ slow_io_pending_wq \in Seq(Work)
      /\ loop_wq[l] \in Seq(Work) /\ done_wq[l] \in Seq(Work)
  BY DEF TypeOK
<1>2. /\ Less(wq, Unlink(wq, arg[l]), arg[l])
      /\ Less(slow_io_pending_wq, Unlink(slow_io_pending_wq, arg[l]), arg[l])
      /\ Less(loop_wq[l], Unlink(loop_wq[l], arg[l]), arg[l])
      /\ Less(done_wq[l], Unlink(done_wq[l], arg[l]), arg[l])
  BY <1>1, UnlinkDistinct DEF Sorted, Less
<1> QED BY <1>2 DEF CancelDecide, TypeOK

\* A cancelled request joins the completed ones of its loop.
LEMMA RequeueQueue ==
  ASSUME TypeOK, Locals, Sorted, NEW l \in Loops, CancelRequeue(l), ~Linked(loop_wq[l], arg[l])
  PROVE  /\ More(loop_wq[l], loop_wq'[l], arg[l])
         /\ \A k \in Loops : k # l => loop_wq'[k] = loop_wq[k]
<1>1. arg[l] \in Work /\ loop_wq[l] \in Seq(Work) /\ Distinct(loop_wq[l])
  BY DEF TypeOK, Locals, Sorted, CancelRequeue
<1>2. More(loop_wq[l], Append(loop_wq[l], arg[l]), arg[l])
  BY <1>1, AppendDistinct DEF More
<1> QED BY <1>2 DEF CancelRequeue, TypeOK

\* A request leaves the loop's completed ones for its callback.
LEMMA CallbackQueue ==
  ASSUME TypeOK, Sorted, NEW l \in Loops, Callback(l)
  PROVE  /\ Head(done_wq[l]) \in Work /\ Linked(done_wq[l], Head(done_wq[l]))
         /\ Less(done_wq[l], done_wq'[l], Head(done_wq[l]))
         /\ \A k \in Loops : k # l => done_wq'[k] = done_wq[k]
<1>1. done_wq[l] # << >> /\ done_wq[l] \in Seq(Work) /\ Distinct(done_wq[l])
  BY DEF TypeOK, Sorted, Callback
<1>2. done_wq' = [done_wq EXCEPT ![l] = Tail(done_wq[l])]
  BY DEF Callback
<1> QED BY <1>1, <1>2, TailDistinct DEF TypeOK, Less

\* The exit message goes behind everything else.
LEMMA CleanupQueue ==
  ASSUME TypeOK, Sorted, Shutdown, CleanupPost, once # "init"
  PROVE  More(wq, wq', ExitMsg)
<1>1. wq \in Seq(QueueNodes) /\ ExitMsg \in QueueNodes /\ ~Linked(wq, ExitMsg)
  BY DEF TypeOK, QueueNodes, Shutdown, CleanupPost
<1>2. wq' = Append(wq, ExitMsg)
  BY DEF CleanupPost, ExitLast
<1> QED BY <1>1, <1>2, AppendDistinct DEF Sorted, More

-----------------------------------------------------------------------------
(* Where the requests are, step by step.                                    *)

\* The step leaves request w where it is, and as it is.
Untouched(w) ==
  /\ (w \in active') <=> (w \in active)
  /\ (w \in self_linked') <=> (w \in self_linked)
  /\ (w \in cancelOK') <=> (w \in cancelOK)
  /\ ran'[w] = ran[w] /\ work'[w] = work[w]
  /\ InWq(w)' <=> InWq(w)
  /\ InSlow(w)' <=> InSlow(w)
  /\ InLoopWq(w)' <=> InLoopWq(w)
  /\ InDoneWq(w)' <=> InDoneWq(w)
  /\ \A t \in Threads : (RunBy(t, w)' <=> RunBy(t, w)) /\ (PublishBy(t, w)' <=> PublishBy(t, w))
  /\ Submitting(w)' <=> Submitting(w)
  /\ Marking(w)' <=> Marking(w)
  /\ Requeueing(w)' <=> Requeueing(w)
  /\ Cancelling(w)' => Cancelling(w)

\* Then everything known of the request still holds.
LEMMA UntouchedKept ==
  ASSUME NEW w \in Work, Kept(w), Untouched(w)
  PROVE  Kept(w)'
<1>1. /\ Waits(w)' <=> Waits(w)
      /\ Completed(w)' <=> Completed(w)
      /\ Held(w)' <=> Held(w)
      /\ InCall(w)' <=> InCall(w)
      /\ Fresh(w)' <=> Fresh(w)
      /\ Cancelled(w)' <=> Cancelled(w)
      /\ \A t \in Threads : HeldBy(t, w)' <=> HeldBy(t, w)
  BY DEF Untouched, Waits, Completed, Held, HeldBy, InCall, Fresh, Cancelled
<1>2. AtMostOnce(w)'
  BY <1>1 DEF Kept, Untouched, AtMostOnce
<1>3. Registered(w)'
  BY <1>1 DEF Kept, Untouched, Registered
<1>4. Fields(w)'
  BY <1>1 DEF Kept, Untouched, Fields
<1> QED BY <1>2, <1>3, <1>4 DEF Kept

\* A request that waited in a queue and is now with worker t.
LEMMA BecomesRun ==
  ASSUME NEW w \in Work, NEW t \in Threads, Kept(w), Waits(w), ~Waits(w)', RunBy(t, w)',
         \A u \in Threads : (HeldBy(u, w)' => u = t) /\ ~PublishBy(u, w)',
         self_linked' = self_linked \cup {w},
         UNCHANGED <<work, active, ran, cancelOK, loop_wq, done_wq, lpc, arg>>
  PROVE  Kept(w)'
<1>1. ~Completed(w)' /\ ~InCall(w)' /\ Held(w)'
  BY DEF Kept, AtMostOnce, Completed, InLoopWq, InDoneWq, InCall, Submitting, Marking,
         Requeueing, Held, HeldBy
<1>2. w \in active /\ work[w] = "fn" /\ Fresh(w)
  BY DEF Kept, Registered, Fields
<1>3. AtMostOnce(w)'
  BY <1>1 DEF AtMostOnce, Waits, Completed
<1>4. Registered(w)'
  BY <1>1, <1>2 DEF Registered
<1>5. Fields(w)'
  BY <1>1, <1>2 DEF Fields, Fresh, InCall, RunBy, Kept, Cancelling
<1> QED BY <1>3, <1>4, <1>5 DEF Kept

\* Every step keeps track of every request.
LEMMA TrackedStep ==
  ASSUME IndInv, Sorted, Tracked, Shutdown, [Next]_vars
  PROVE  Tracked'
<1> SUFFICES ASSUME NEW w \in Work PROVE Kept(w)'
  BY DEF Tracked
<1> USE DEF poolVars, workerVars, loopVars, reqVars
<1>0. Kept(w) /\ LoopOf[w] \in Loops /\ w \in QueueNodes /\ w # RunSlow /\ w # ExitMsg
  BY WorkAssumption, NodesAssumption DEF Tracked, QueueNodes
<1>a. /\ pc \in [Threads -> WorkerPlaces] /\ cur \in [Threads -> Work \cup {None}]
      /\ lpc \in [Loops -> LoopPlaces] /\ arg \in [Loops -> Work \cup {None}]
      /\ work \in [Work -> {"fn", "null", "cancelled"}] /\ ran \in [Work -> Nat]
      /\ loop_wq \in [Loops -> Seq(Work)] /\ done_wq \in [Loops -> Seq(Work)]
  BY DEF IndInv, TypeOK
<1>1. ASSUME NEW t \in Threads, WorkerStart(t) PROVE Kept(w)'
  <2>1. Untouched(w)
    BY <1>1, <1>0, <1>a DEF WorkerStart, Untouched, InWq, InSlow, InLoopWq, InDoneWq, RunBy,
         PublishBy, Submitting, Marking, Requeueing, Cancelling
  <2> QED BY <1>0, <2>1, UntouchedKept
<1>2. ASSUME NEW t \in Threads, WorkerLock(t) PROVE Kept(w)'
  <2>1. Untouched(w)
    BY <1>2, <1>0, <1>a DEF WorkerLock, Untouched, InWq, InSlow, InLoopWq, InDoneWq, RunBy,
         PublishBy, Submitting, Marking, Requeueing, Cancelling
  <2> QED BY <1>0, <2>1, UntouchedKept
<1>3. ASSUME NEW t \in Threads, WorkerPark(t) PROVE Kept(w)'
  <2>1. Untouched(w)
    BY <1>3, <1>0, <1>a DEF WorkerPark, Untouched, InWq, InSlow, InLoopWq, InDoneWq, RunBy,
         PublishBy, Submitting, Marking, Requeueing, Cancelling
  <2> QED BY <1>0, <2>1, UntouchedKept
<1>4. ASSUME NEW t \in Threads, SpuriousWakeup(t) PROVE Kept(w)'
  <2>1. Untouched(w)
    BY <1>4, <1>0, <1>a DEF SpuriousWakeup, Untouched, InWq, InSlow, InLoopWq, InDoneWq,
         RunBy, PublishBy, Submitting, Marking, Requeueing, Cancelling
  <2> QED BY <1>0, <2>1, UntouchedKept
<1>5. ASSUME NEW t \in Threads, WorkerWake(t) PROVE Kept(w)'
  <2>1. Untouched(w)
    BY <1>5, <1>0, <1>a DEF WorkerWake, Untouched, InWq, InSlow, InLoopWq, InDoneWq, RunBy,
         PublishBy, Submitting, Marking, Requeueing, Cancelling
  <2> QED BY <1>0, <2>1, UntouchedKept
<1>6. ASSUME NEW t \in Threads, WorkerExit(t) PROVE Kept(w)'
  <2>1. MovesTo(t, "exited")
    BY <1>6, ExitWakes DEF IndInv
  <2>2. Untouched(w)
    BY <1>6, <1>a, <2>1 DEF WorkerExit, MovesTo, Untouched, InWq, InSlow, InLoopWq, InDoneWq,
         RunBy, PublishBy, Submitting, Marking, Requeueing, Cancelling
  <2> QED BY <1>0, <2>2, UntouchedKept
<1>7. ASSUME NEW t \in Threads, TakeWork(t) PROVE Kept(w)'
  <2>1. InWq(Head(wq)) /\ Less(wq, wq', Head(wq))
    BY <1>7, TakeWorkQueue DEF IndInv
  <2>2. CASE w # Head(wq)
    <3>1. InWq(w)' <=> InWq(w)
      BY <2>1, <2>2 DEF Less, InWq
    <3>2. Untouched(w)
      BY <1>7, <1>a, <2>2, <3>1 DEF TakeWork, Untouched, InWq, InSlow, InLoopWq, InDoneWq,
           RunBy, PublishBy, Submitting, Marking, Requeueing, Cancelling
    <3> QED BY <1>0, <3>2, UntouchedKept
  <2>3. CASE w = Head(wq)
    <3>1. InWq(w) /\ ~InWq(w)'
      BY <2>1, <2>3 DEF Less, InWq
    <3>2. /\ RunBy(t, w)'
          /\ \A u \in Threads : (HeldBy(u, w)' => u = t) /\ ~PublishBy(u, w)'
      BY <1>0, <1>7, <1>a, <2>3, <3>1 DEF TakeWork, RunBy, PublishBy, HeldBy, Kept,
           AtMostOnce, Waits, Held
    <3>3. Waits(w) /\ ~Waits(w)'
      BY <1>0, <1>7, <3>1 DEF TakeWork, Waits, InSlow, Kept, AtMostOnce
    <3> QED BY <1>0, <1>7, <2>3, <3>2, <3>3, BecomesRun DEF TakeWork
  <2> QED BY <2>2, <2>3
<1>8. ASSUME NEW t \in Threads, RescheduleSlow(t) PROVE Kept(w)'
  <2>1. InWq(w)' <=> InWq(w)
    BY <1>8, RescheduleQueue DEF IndInv, InWq
  <2>2. Untouched(w)
    BY <1>8, <1>a, <2>1 DEF RescheduleSlow, Untouched, InWq, InSlow, InLoopWq, InDoneWq,
         RunBy, PublishBy, Submitting, Marking, Requeueing, Cancelling
  <2> QED BY <1>0, <2>2, UntouchedKept
<1>9. ASSUME NEW t \in Threads, DropSlowMessage(t) PROVE Kept(w)'
  <2>1. InWq(w)' <=> InWq(w)
    BY <1>0, <1>9, DropQueue DEF IndInv, InWq, Less
  <2>2. Untouched(w)
    BY <1>9, <1>a, <2>1 DEF DropSlowMessage, Untouched, InWq, InSlow, InLoopWq, InDoneWq,
         RunBy, PublishBy, Submitting, Marking, Requeueing, Cancelling
  <2> QED BY <1>0, <2>2, UntouchedKept
<1>10. ASSUME NEW t \in Threads, TakeSlowWork(t) PROVE Kept(w)'
  <2> DEFINE v == Head(slow_io_pending_wq)
  <2>1. /\ InSlow(v) /\ Less(slow_io_pending_wq, slow_io_pending_wq', v)
        /\ InWq(w)' <=> InWq(w)
    BY <1>0, <1>10, TakeSlowQueue DEF IndInv, InWq
  <2>2. MovesTo(t, "run") /\ pc[t] = "scan"
    BY <1>10, TakeSlowWakes DEF IndInv, TakeSlowWork
  <2>3. /\ self_linked' = self_linked \cup {v}
        /\ cur' = [cur EXCEPT ![t] = v]
        /\ UNCHANGED <<work, active, ran, cancelOK, loop_wq, done_wq, lpc, arg>>
    BY <1>10 DEF TakeSlowWork
  <2> HIDE DEF v
  <2>4. CASE w # v
    <3>1. InSlow(w)' <=> InSlow(w)
      BY <2>1, <2>4 DEF Less, InSlow
    <3>2. Untouched(w)
      BY <1>a, <2>1, <2>2, <2>3, <2>4, <3>1 DEF MovesTo, Untouched, InWq, InSlow, InLoopWq,
           InDoneWq, RunBy, PublishBy, Submitting, Marking, Requeueing, Cancelling
    <3> QED BY <1>0, <3>2, UntouchedKept
  <2>5. CASE w = v
    <3>1. Waits(w) /\ ~Waits(w)'
      BY <1>0, <2>1, <2>5 DEF Less, InSlow, Waits, Kept, AtMostOnce
    <3>2. /\ RunBy(t, w)'
          /\ \A u \in Threads : (HeldBy(u, w)' => u = t) /\ ~PublishBy(u, w)'
      BY <1>0, <1>a, <2>2, <2>3, <2>5, <3>1 DEF MovesTo, RunBy, PublishBy, HeldBy, Kept,
           AtMostOnce, Held
    <3> QED BY <1>0, <2>3, <2>5, <3>1, <3>2, BecomesRun
  <2> QED BY <2>4, <2>5
<1>11. ASSUME NEW t \in Threads, RunWork(t) PROVE Kept(w)'
  <2>1. CASE w # cur[t]
    <3>1. Untouched(w)
      BY <1>11, <1>a, <2>1 DEF RunWork, Untouched, InWq, InSlow, InLoopWq, InDoneWq, RunBy,
           PublishBy, Submitting, Marking, Requeueing, Cancelling
    <3> QED BY <1>0, <3>1, UntouchedKept
  <2>2. CASE w = cur[t]
    <3>1. RunBy(t, w) /\ work[w] = "fn" /\ ran[w] = 0
      BY <1>0, <1>11, <2>2 DEF RunWork, RunBy, Kept, Fields, Fresh
    <3>2. /\ ran'[w] = 1 /\ pc' = [pc EXCEPT ![t] = "publish"]
          /\ UNCHANGED <<wq, slow_io_pending_wq, cur, work, self_linked, active, cancelOK,
               loop_wq,
                         done_wq, lpc, arg>>
      BY <1>11, <1>a, <2>2, <3>1 DEF RunWork
    <3>3. \A u \in Threads : /\ HeldBy(u, w)' <=> HeldBy(u, w)
                             /\ ~RunBy(u, w)'
      BY <1>0, <1>a, <3>1, <3>2 DEF RunBy, PublishBy, HeldBy, Kept, AtMostOnce
    <3>4. /\ Waits(w)' <=> Waits(w)
          /\ Completed(w)' <=> Completed(w)
          /\ Held(w)' <=> Held(w)
          /\ InCall(w)' <=> InCall(w)
          /\ Cancelling(w)' <=> Cancelling(w)
          /\ Held(w)
      BY <3>1, <3>2, <3>3 DEF Waits, Completed, InWq, InSlow, InLoopWq, InDoneWq, Held, HeldBy,
                              InCall, Submitting, Marking, Requeueing, Cancelling
    <3>5. AtMostOnce(w)'
      BY <1>0, <3>2, <3>3, <3>4 DEF Kept, AtMostOnce, InWq, InSlow, InLoopWq, InDoneWq
    <3>6. Registered(w)' /\ w \in active'
      BY <1>0, <3>2, <3>4 DEF Kept, Registered
    <3>7. Fields(w)'
      BY <1>0, <3>1, <3>2, <3>3, <3>4, <3>6 DEF Kept, AtMostOnce, Fields, InCall, Fresh
    <3> QED BY <3>5, <3>6, <3>7 DEF Kept
  <2> QED BY <2>1, <2>2
<1>12. ASSUME NEW t \in Threads, Publish(t) PROVE Kept(w)'
  <2> DEFINE v == cur[t]
             l == LoopOf[v]
  <2>0. v \in Work /\ PublishBy(t, v) /\ Kept(v)
    BY <1>12 DEF IndInv, Locals, Tracked, Publish, PublishBy
  <2>1. ~InLoopWq(v)
    BY <2>0 DEF Kept, AtMostOnce, Completed, Held, HeldBy
  <2>2. /\ l \in Loops /\ More(loop_wq[l], loop_wq'[l], v)
        /\ \A k \in Loops : k # l => loop_wq'[k] = loop_wq[k]
    BY <1>12, <2>1, PublishQueue DEF IndInv
  <2>3. /\ work' = [work EXCEPT ![v] = "null"]
        /\ self_linked' = self_linked \ {v}
        /\ pc' = [pc EXCEPT ![t] = "send"]
        /\ UNCHANGED <<wq, slow_io_pending_wq, cur, active, ran, cancelOK, done_wq, lpc, arg>>
    BY <1>12 DEF Publish
  <2>4. PublishBy(t, v)
    BY <2>0
  <2> HIDE DEF l
  <2>5. CASE w # v
    <3>1. InLoopWq(w)' <=> InLoopWq(w)
      BY <1>0, <2>2, <2>5 DEF More, InLoopWq
    <3>2. Untouched(w)
      BY <1>a, <2>3, <2>5, <3>1 DEF Untouched, InWq, InSlow, InLoopWq, InDoneWq, RunBy,
           PublishBy, Submitting, Marking, Requeueing, Cancelling
    <3> QED BY <1>0, <3>2, UntouchedKept
  <2>6. CASE w = v
    <3>1. InLoopWq(w)'
      BY <2>2, <2>6 DEF More, InLoopWq, l
    <3>2. \A u \in Threads : ~RunBy(u, w)' /\ ~PublishBy(u, w)'
      BY <1>0, <1>a, <2>3, <2>4, <2>6 DEF Kept, AtMostOnce, HeldBy, RunBy, PublishBy
    <3>3. ~Held(w)' /\ Held(w)
      BY <2>4, <2>6, <3>2 DEF Held, HeldBy
    <3>4. ~Waits(w)' /\ ~InCall(w)' /\ ~InDoneWq(w)'
      BY <1>0, <2>3, <3>3 DEF Kept, AtMostOnce, Completed, Waits, InWq, InSlow, InDoneWq,
           InCall,
                              Submitting, Marking, Requeueing
    <3>5. w \in active /\ work'[w] = "null" /\ ran[w] = 1 /\ w \notin cancelOK
      BY <1>0, <1>a, <2>3, <2>4, <2>6, <3>3 DEF Kept, Registered, Fields
    <3>6. AtMostOnce(w)'
      BY <3>2, <3>3, <3>4 DEF AtMostOnce, Waits, HeldBy
    <3>7. Registered(w)'
      BY <2>3, <3>1, <3>5 DEF Registered, Completed
    <3>8. Fields(w)'
      BY <2>3, <2>6, <3>2, <3>3, <3>4, <3>5 DEF Fields, InCall
    <3> QED BY <3>6, <3>7, <3>8 DEF Kept
  <2> QED BY <2>5, <2>6
<1>13. ASSUME NEW t \in Threads, Send(t) PROVE Kept(w)'
  <2>1. Untouched(w)
    BY <1>13, <1>0, <1>a DEF Send, Untouched, InWq, InSlow, InLoopWq, InDoneWq, RunBy,
         PublishBy, Submitting, Marking, Requeueing, Cancelling
  <2> QED BY <1>0, <2>1, UntouchedKept
<1>14. ASSUME NEW l \in Loops, NEW v \in Work, QueueWork(l, v) PROVE Kept(w)'
  <2>1. /\ lpc[l] = "run" /\ LoopOf[v] = l /\ v \notin active
        /\ lpc' = [lpc EXCEPT ![l] = "once"] /\ arg' = [arg EXCEPT ![l] = v]
        /\ active' = active \cup {v}
        /\ UNCHANGED <<wq, slow_io_pending_wq, pc, cur, loop_wq, done_wq, work, self_linked,
                       ran, cancelOK>>
    BY <1>14 DEF QueueWork, InUserCode
  <2>2. CASE w # v
    <3>1. Untouched(w)
      BY <1>0, <1>a, <2>1, <2>2 DEF Untouched, InWq, InSlow, InLoopWq, InDoneWq, RunBy,
           PublishBy, Submitting, Marking, Requeueing, Cancelling
    <3> QED BY <1>0, <3>1, UntouchedKept
  <2>3. CASE w = v
    <3>1. Submitting(w)' /\ ~Marking(w)' /\ ~Requeueing(w)' /\ ~Cancelling(w)'
      BY <1>a, <2>1, <2>3 DEF Submitting, Marking, Requeueing, Cancelling
    <3>2. ~Waits(w) /\ ~Completed(w) /\ ~Held(w) /\ Fresh(w)
      BY <1>0, <2>1, <2>3 DEF Kept, Registered, Fields
    <3>3. ~Waits(w)' /\ ~Completed(w)' /\ ~Held(w)' /\ Fresh(w)'
      BY <2>1, <3>2 DEF Waits, Completed, InWq, InSlow, InLoopWq, InDoneWq, Held, HeldBy,
                        RunBy, PublishBy, Fresh
    <3>4. AtMostOnce(w)' /\ Registered(w)' /\ Fields(w)'
      BY <1>0, <2>1, <2>3, <3>1, <3>2, <3>3
         DEF AtMostOnce, Registered, Fields, Kept, Waits, Completed, Held, HeldBy, InCall
    <3> QED BY <3>4 DEF Kept
  <2> QED BY <2>2, <2>3
<1>15. ASSUME NEW l \in Loops, NEW v \in Work, CancelLock(l, v) PROVE Kept(w)'
  <2>1. /\ lpc[l] = "run" /\ LoopOf[v] = l /\ v \in active
        /\ lpc' = [lpc EXCEPT ![l] = "cancel"] /\ arg' = [arg EXCEPT ![l] = v]
        /\ UNCHANGED <<wq, slow_io_pending_wq, pc, cur, loop_wq, done_wq, work, self_linked,
                       active, ran, cancelOK>>
    BY <1>15 DEF CancelLock, InUserCode
  <2>2. CASE w # v
    <3>1. Untouched(w)
      BY <1>0, <1>a, <2>1, <2>2 DEF Untouched, InWq, InSlow, InLoopWq, InDoneWq, RunBy,
           PublishBy, Submitting, Marking, Requeueing, Cancelling
    <3> QED BY <1>0, <3>1, UntouchedKept
  <2>3. CASE w = v
    <3>1. /\ Waits(w)' <=> Waits(w)
          /\ Completed(w)' <=> Completed(w)
          /\ Held(w)' <=> Held(w)
          /\ ~InCall(w)' /\ ~InCall(w)
      BY <1>a, <2>1, <2>3 DEF Waits, Completed, InWq, InSlow, InLoopWq, InDoneWq, Held, HeldBy,
                              RunBy, PublishBy, InCall, Submitting, Marking, Requeueing
    <3>2. AtMostOnce(w)' /\ Registered(w)' /\ Fields(w)'
      BY <1>0, <2>1, <2>3, <3>1
         DEF AtMostOnce, Registered, Fields, Kept, InCall, InWq, InSlow, InLoopWq, InDoneWq,
             HeldBy, RunBy, PublishBy, Fresh, Cancelled
    <3> QED BY <3>2 DEF Kept
  <2> QED BY <2>2, <2>3
<1>16. ASSUME NEW l \in Loops, OnceBegin(l) PROVE Kept(w)'
  <2>1. \A t \in Threads : pc[t] = "absent" /\ pc'[t] = "start"
    BY <1>16 DEF OnceBegin, IndInv, Locals
  <2>2. Untouched(w)
    BY <1>0, <1>16, <1>a, <2>1 DEF OnceBegin, Untouched, InWq, InSlow, InLoopWq, InDoneWq,
         RunBy, PublishBy, Submitting, Marking, Requeueing, Cancelling
  <2> QED BY <1>0, <2>2, UntouchedKept
<1>17. ASSUME NEW l \in Loops, OnceEnd(l) PROVE Kept(w)'
  <2>1. Untouched(w)
    BY <1>17, <1>0, <1>a DEF OnceEnd, Untouched, InWq, InSlow, InLoopWq, InDoneWq, RunBy,
         PublishBy, Submitting, Marking, Requeueing, Cancelling
  <2> QED BY <1>0, <2>1, UntouchedKept
<1>18. ASSUME NEW l \in Loops, Post(l) PROVE Kept(w)'
  <2> DEFINE v == arg[l]
  <2>0. /\ v \in Work /\ LoopOf[v] = l /\ lpc[l] = "once"
        /\ Submitting(v) /\ Kept(v)
    BY <1>18 DEF IndInv, Locals, Sorted, Tracked, Post, Submitting
  <2>1. /\ IF v \in SlowWork
             THEN More(slow_io_pending_wq, slow_io_pending_wq', v) /\ More(wq, wq', RunSlow)
             ELSE slow_io_pending_wq' = slow_io_pending_wq /\ More(wq, wq', v)
    <3>1. ~InWq(v) /\ ~InSlow(v)
      BY <2>0 DEF Kept, AtMostOnce, Waits, InCall
    <3> QED BY <1>18, <3>1, PostQueue DEF IndInv
  <2>2. WakesOne
    BY <1>18, PostWakes DEF IndInv
  <2>3. /\ work' = [work EXCEPT ![v] = "fn"]
        /\ self_linked' = self_linked \ {v}
        /\ lpc' = [lpc EXCEPT ![l] = "run"] /\ arg' = [arg EXCEPT ![l] = None]
        /\ UNCHANGED <<cur, loop_wq, done_wq, active, ran, cancelOK>>
    BY <1>18 DEF Post
  <2> HIDE DEF v
  <2>4. CASE w # v
    <3>1. (InWq(w)' <=> InWq(w)) /\ (InSlow(w)' <=> InSlow(w))
      BY <1>0, <2>1, <2>4 DEF More, InWq, InSlow
    <3>2. \A t \in Threads : /\ pc'[t] = "run" <=> pc[t] = "run"
                             /\ pc'[t] = "publish" <=> pc[t] = "publish"
      BY <2>2 DEF WakesOne
    <3>3. arg[l] # w
      BY <2>4 DEF v
    <3>4. Untouched(w)
      BY <1>0, <1>a, <2>3, <2>4, <3>1, <3>2, <3>3, NamesAssumption DEF Untouched, InWq,
           InSlow, InLoopWq, InDoneWq, RunBy, PublishBy, Submitting, Marking, Requeueing,
                Cancelling
    <3> QED BY <1>0, <3>4, UntouchedKept
  <2>5. CASE w = v
    <3>1. Waits(w)' /\ ~(InWq(w)' /\ InSlow(w)')
      BY <1>0, <2>0, <2>1, <2>5 DEF More, Waits, InWq, InSlow, Kept, AtMostOnce, InCall
    <3>2. ~InCall(w)' /\ ~Cancelling(w)' /\ InCall(w)
      BY <1>a, <2>0, <2>3, <2>5 DEF InCall, Submitting, Marking, Requeueing, Cancelling
    <3>3. \A t \in Threads : /\ pc'[t] = "run" <=> pc[t] = "run"
                             /\ pc'[t] = "publish" <=> pc[t] = "publish"
      BY <2>2 DEF WakesOne
    <3>4. ~Completed(w)' /\ ~Held(w)' /\ ~Held(w)
      BY <1>0, <2>3, <3>2, <3>3 DEF Kept, AtMostOnce, Completed, InLoopWq, InDoneWq, Held,
           HeldBy,
                                    RunBy, PublishBy
    <3>5. w \in active /\ Fresh(w) /\ work'[w] = "fn" /\ w \notin self_linked'
      BY <1>0, <1>a, <2>0, <2>3, <2>5, <3>2 DEF Kept, Registered, Fields
    <3>6. AtMostOnce(w)' /\ Registered(w)' /\ Fields(w)'
      BY <2>3, <3>1, <3>2, <3>4, <3>5
         DEF AtMostOnce, Registered, Fields, Fresh, Completed, Held, HeldBy, InCall
    <3> QED BY <3>6 DEF Kept
  <2> QED BY <2>4, <2>5
<1>19. ASSUME NEW l \in Loops, CancelDecide(l) PROVE Kept(w)'
  <2>1. CASE ~Cancellable(arg[l])
    <3>1. Untouched(w)
      BY <1>0, <1>19, <1>a, <2>1, NamesAssumption DEF CancelDecide, Untouched, InWq, InSlow,
           InLoopWq, InDoneWq, RunBy, PublishBy, Submitting, Marking, Requeueing, Cancelling
    <3> QED BY <1>0, <3>1, UntouchedKept
  <2>2. CASE Cancellable(arg[l])
    <3> DEFINE v == arg[l]
    <3>0. /\ v \in Work /\ LoopOf[v] = l /\ lpc[l] = "cancel" /\ Cancelling(v) /\ Kept(v)
          /\ v \notin self_linked /\ work[v] # "null"
      BY <1>19, <2>2 DEF IndInv, Locals, Sorted, Tracked, CancelDecide, Cancelling, Cancellable
    <3>1. /\ Less(wq, wq', v)
          /\ Less(slow_io_pending_wq, slow_io_pending_wq', v)
          /\ Less(loop_wq[l], loop_wq'[l], v)
          /\ Less(done_wq[l], done_wq'[l], v)
          /\ \A k \in Loops : k # l => loop_wq'[k] = loop_wq[k] /\ done_wq'[k] = done_wq[k]
      BY <1>19, <2>2, CancelQueue DEF IndInv
    <3>2. /\ lpc' = [lpc EXCEPT ![l] = "mark"]
          /\ UNCHANGED <<pc, cur, arg, work, self_linked, active, ran, cancelOK>>
      BY <1>19, <2>2 DEF CancelDecide
    <3>3. v = arg[l]
      OBVIOUS
    <3> HIDE DEF v
    <3>4. CASE w # v
      <4>1. /\ InWq(w)' <=> InWq(w)
            /\ InSlow(w)' <=> InSlow(w)
            /\ InLoopWq(w)' <=> InLoopWq(w)
            /\ InDoneWq(w)' <=> InDoneWq(w)
        BY <1>0, <3>1, <3>4 DEF Less, InWq, InSlow, InLoopWq, InDoneWq
      <4>2. Untouched(w)
        BY <1>0, <1>a, <3>2, <3>3, <3>4, <4>1 DEF Untouched, InWq, InSlow, InLoopWq, InDoneWq,
             RunBy, PublishBy, Submitting, Marking, Requeueing, Cancelling
      <4> QED BY <1>0, <4>2, UntouchedKept
    <3>5. CASE w = v
      <4>1. ~Waits(w)' /\ ~Completed(w)'
        BY <3>0, <3>1, <3>5 DEF Less, Waits, Completed, InWq, InSlow, InLoopWq, InDoneWq
      <4>2. /\ Marking(w)' /\ ~Submitting(w)' /\ ~Requeueing(w)' /\ ~Cancelling(w)'
            /\ ~InCall(w)
        BY <1>a, <3>0, <3>2, <3>3, <3>5 DEF InCall, Submitting, Marking, Requeueing, Cancelling
      <4>3. /\ w \in active /\ ~Held(w)
            /\ (work[w] = "fn" /\ Fresh(w)) \/ Cancelled(w)
        BY <3>0, <3>5, <4>2 DEF Kept, Registered, Fields
      <4>4. ~Held(w)'
        BY <3>2, <4>3 DEF Held, HeldBy, RunBy, PublishBy
      <4>5. AtMostOnce(w)' /\ Registered(w)' /\ Fields(w)'
        BY <3>0, <3>2, <3>5, <4>1, <4>2, <4>3, <4>4
           DEF AtMostOnce, Registered, Fields, Waits, Completed, Held, HeldBy, InCall, Fresh,
                Cancelled
      <4> QED BY <4>5 DEF Kept
    <3> QED BY <3>4, <3>5
  <2> QED BY <2>1, <2>2
<1>20. ASSUME NEW l \in Loops, CancelMark(l) PROVE Kept(w)'
  <2> DEFINE v == arg[l]
  <2>0. v \in Work /\ LoopOf[v] = l /\ lpc[l] = "mark" /\ Marking(v) /\ Kept(v)
    BY <1>20 DEF IndInv, Locals, Sorted, Tracked, CancelMark, Marking
  <2>1. /\ work' = [work EXCEPT ![v] = "cancelled"]
        /\ lpc' = [lpc EXCEPT ![l] = "requeue"]
        /\ UNCHANGED <<wq, slow_io_pending_wq, pc, cur, arg, loop_wq, done_wq, self_linked,
                       active, ran, cancelOK>>
    BY <1>20 DEF CancelMark
  <2>2. v = arg[l]
    OBVIOUS
  <2> HIDE DEF v
  <2>3. CASE w # v
    <3>1. Untouched(w)
      BY <1>0, <1>a, <2>1, <2>2, <2>3 DEF Untouched, InWq, InSlow, InLoopWq, InDoneWq, RunBy,
           PublishBy, Submitting, Marking, Requeueing, Cancelling
    <3> QED BY <1>0, <3>1, UntouchedKept
  <2>4. CASE w = v
    <3>1. /\ Requeueing(w)' /\ ~Submitting(w)' /\ ~Marking(w)' /\ ~Cancelling(w)'
          /\ InCall(w)
      BY <1>a, <2>0, <2>1, <2>2, <2>4 DEF InCall, Submitting, Marking, Requeueing, Cancelling
    <3>2. /\ w \in active /\ ~Waits(w) /\ ~Completed(w) /\ ~Held(w)
          /\ work'[w] = "cancelled" /\ ran[w] = 0
      BY <1>0, <1>a, <2>0, <2>1, <2>4, <3>1
         DEF Kept, AtMostOnce, Registered, Fields, Fresh, Cancelled
    <3>3. ~Waits(w)' /\ ~Completed(w)' /\ ~Held(w)'
      BY <2>1, <3>2 DEF Waits, Completed, InWq, InSlow, InLoopWq, InDoneWq, Held, HeldBy,
                        RunBy, PublishBy
    <3>4. AtMostOnce(w)' /\ Registered(w)' /\ Fields(w)'
      BY <1>0, <2>1, <3>1, <3>2, <3>3
         DEF AtMostOnce, Registered, Fields, Kept, Waits, Completed, Held, HeldBy, InCall
    <3> QED BY <3>4 DEF Kept
  <2> QED BY <2>3, <2>4
<1>21. ASSUME NEW l \in Loops, CancelRequeue(l) PROVE Kept(w)'
  <2> DEFINE v == arg[l]
  <2>0. v \in Work /\ LoopOf[v] = l /\ lpc[l] = "requeue" /\ Requeueing(v) /\ Kept(v)
    BY <1>21 DEF IndInv, Locals, Sorted, Tracked, CancelRequeue, Requeueing
  <2>1. /\ More(loop_wq[l], loop_wq'[l], v)
        /\ \A k \in Loops : k # l => loop_wq'[k] = loop_wq[k]
    <3>1. ~Linked(loop_wq[l], v)
      BY <2>0 DEF Kept, AtMostOnce, Completed, InLoopWq, InCall
    <3> QED BY <1>21, <3>1, RequeueQueue DEF IndInv
  <2>2. /\ cancelOK' = cancelOK \cup {v}
        /\ lpc' = [lpc EXCEPT ![l] = "run"] /\ arg' = [arg EXCEPT ![l] = None]
        /\ UNCHANGED <<wq, slow_io_pending_wq, pc, cur, done_wq, work, self_linked, active,
             ran>>
    BY <1>21 DEF CancelRequeue
  <2>3. v = arg[l]
    OBVIOUS
  <2> HIDE DEF v
  <2>4. CASE w # v
    <3>1. InLoopWq(w)' <=> InLoopWq(w)
      BY <1>0, <2>1, <2>4 DEF More, InLoopWq
    <3>2. Untouched(w)
      BY <1>0, <1>a, <2>2, <2>3, <2>4, <3>1, NamesAssumption DEF Untouched, InWq, InSlow,
           InLoopWq, InDoneWq, RunBy, PublishBy, Submitting, Marking, Requeueing, Cancelling
    <3> QED BY <1>0, <3>2, UntouchedKept
  <2>5. CASE w = v
    <3>1. InLoopWq(w)'
      BY <2>0, <2>1, <2>5 DEF More, InLoopWq
    <3>2. ~InCall(w)' /\ ~Cancelling(w)' /\ InCall(w)
      BY <1>a, <2>0, <2>2, <2>5 DEF InCall, Submitting, Marking, Requeueing, Cancelling
    <3>3. /\ w \in active /\ ~Waits(w) /\ ~Completed(w) /\ ~Held(w)
          /\ work[w] = "cancelled" /\ ran[w] = 0
      BY <1>0, <2>0, <2>5, <3>2 DEF Kept, AtMostOnce, Registered, Fields
    <3>4. ~Waits(w)' /\ ~InDoneWq(w)' /\ ~Held(w)'
      BY <2>2, <3>3 DEF Waits, Completed, InWq, InSlow, InDoneWq, Held, HeldBy, RunBy, PublishBy
    <3>5. Cancelled(w)'
      BY <2>2, <2>5, <3>3 DEF Cancelled
    <3>6. AtMostOnce(w)' /\ Registered(w)' /\ Fields(w)'
      BY <1>0, <2>2, <2>5, <3>1, <3>2, <3>3, <3>4, <3>5
         DEF AtMostOnce, Registered, Fields, Kept, Waits, Completed, Held, HeldBy, InCall
    <3> QED BY <3>6 DEF Kept
  <2> QED BY <2>4, <2>5
<1>22. ASSUME NEW l \in Loops, AsyncIo(l) PROVE Kept(w)'
  <2>1. Untouched(w)
    BY <1>22, <1>0, <1>a DEF AsyncIo, InUserCode, Untouched, InWq, InSlow, InLoopWq, InDoneWq,
         RunBy, PublishBy, Submitting, Marking, Requeueing, Cancelling
  <2> QED BY <1>0, <2>1, UntouchedKept
<1>23. ASSUME NEW l \in Loops, WorkDone(l) PROVE Kept(w)'
  <2>1. /\ done_wq[l] = << >>
        /\ done_wq' = [done_wq EXCEPT ![l] = loop_wq[l]]
        /\ loop_wq' = [loop_wq EXCEPT ![l] = << >>]
        /\ lpc[l] = "work_done"
        /\ lpc' = [lpc EXCEPT ![l] = IF loop_wq[l] = << >> THEN "run" ELSE "callback"]
        /\ UNCHANGED <<wq, slow_io_pending_wq, pc, cur, arg, work, self_linked, active, ran,
                       cancelOK>>
    BY <1>23 DEF WorkDone, Sorted
  <2>2. \A n : ~Linked(<< >>, n)
    BY DEF Linked
  <2>3. CASE LoopOf[w] # l
    <3>1. Untouched(w)
      BY <1>0, <1>a, <2>1, <2>3 DEF Untouched, InWq, InSlow, InLoopWq, InDoneWq, RunBy,
           PublishBy, Submitting, Marking, Requeueing, Cancelling
    <3> QED BY <1>0, <3>1, UntouchedKept
  <2>4. CASE LoopOf[w] = l
    <3>1. /\ ~InDoneWq(w) /\ ~InLoopWq(w)'
          /\ InDoneWq(w)' <=> InLoopWq(w)
      BY <1>0, <1>a, <2>1, <2>2, <2>4 DEF InLoopWq, InDoneWq
    <3>2. ~InCall(w)' /\ ~InCall(w) /\ ~Cancelling(w)'
      BY <1>0, <1>a, <2>1, <2>4 DEF InCall, Submitting, Marking, Requeueing, Cancelling
    <3>3. /\ Waits(w)' <=> Waits(w)
          /\ Completed(w)' <=> Completed(w)
          /\ Held(w)' <=> Held(w)
          /\ \A t \in Threads : (RunBy(t, w)' <=> RunBy(t, w)) /\ (PublishBy(t,
               w)' <=> PublishBy(t, w))
      BY <2>1, <3>1 DEF Waits, Completed, InWq, InSlow, Held, HeldBy, RunBy, PublishBy
    <3>4. AtMostOnce(w)' /\ Registered(w)' /\ Fields(w)'
      BY <1>0, <2>1, <3>1, <3>2, <3>3
         DEF AtMostOnce, Registered, Fields, Kept, InWq, InSlow, HeldBy, InCall, Fresh,
              Cancelled
    <3> QED BY <3>4 DEF Kept
  <2> QED BY <2>3, <2>4
<1>24. ASSUME NEW l \in Loops, Callback(l) PROVE Kept(w)'
  <2> DEFINE v == Head(done_wq[l])
  <2>0. /\ v \in Work /\ LoopOf[v] = l /\ InDoneWq(v) /\ Kept(v)
        /\ Less(done_wq[l], done_wq'[l], v)
        /\ \A k \in Loops : k # l => done_wq'[k] = done_wq[k]
    BY <1>24, CallbackQueue DEF IndInv, Sorted, Tracked, InDoneWq
  <2>1. /\ lpc[l] \in {"run", "callback"} /\ lpc' = [lpc EXCEPT ![l] = "run"]
        /\ active' = active \ {v} /\ cancelOK' = cancelOK \ {v}
        /\ ran' = [ran EXCEPT ![v] = 0]
        /\ UNCHANGED <<wq, slow_io_pending_wq, pc, cur, arg, loop_wq, work, self_linked>>
    BY <1>24 DEF Callback, InUserCode
  <2> HIDE DEF v
  <2>2. CASE w # v
    <3>1. InDoneWq(w)' <=> InDoneWq(w)
      BY <1>0, <2>0, <2>2 DEF Less, InDoneWq
    <3>2. Untouched(w)
      BY <1>0, <1>a, <2>1, <2>2, <3>1 DEF Untouched, InWq, InSlow, InLoopWq, InDoneWq, RunBy,
           PublishBy, Submitting, Marking, Requeueing, Cancelling
    <3> QED BY <1>0, <3>2, UntouchedKept
  <2>3. CASE w = v
    <3>1. ~InDoneWq(w)' /\ Completed(w)
      BY <2>0, <2>3 DEF Less, InDoneWq, Completed
    <3>2. ~Waits(w) /\ ~Held(w) /\ ~InLoopWq(w) /\ w \notin self_linked
      BY <1>0, <2>0, <2>3, <3>1 DEF Kept, AtMostOnce, Fields
    <3>3. ~InCall(w)' /\ ~Cancelling(w)'
      BY <1>a, <2>0, <2>1, <2>3 DEF InCall, Submitting, Marking, Requeueing, Cancelling
    <3>4. ~Waits(w)' /\ ~Held(w)' /\ ~Completed(w)'
      BY <2>1, <3>1, <3>2 DEF Waits, Completed, InWq, InSlow, InLoopWq, Held, HeldBy, RunBy,
           PublishBy
    <3>5. Fresh(w)' /\ w \notin active'
      BY <1>0, <1>a, <2>1, <2>3 DEF Fresh
    <3>6. AtMostOnce(w)' /\ Registered(w)' /\ Fields(w)'
      BY <2>1, <3>2, <3>3, <3>4, <3>5
         DEF AtMostOnce, Registered, Fields, Waits, Completed, Held, HeldBy, InCall
    <3> QED BY <3>6 DEF Kept
  <2> QED BY <2>2, <2>3
<1>25. ASSUME NEW l \in Loops, LoopClose(l) PROVE Kept(w)'
  <2>1. Untouched(w)
    BY <1>25, <1>0, <1>a DEF LoopClose, Untouched, InWq, InSlow, InLoopWq, InDoneWq, RunBy,
         PublishBy, Submitting, Marking, Requeueing, Cancelling
  <2> QED BY <1>0, <2>1, UntouchedKept
<1>26. CASE CleanupPost
  <2>1. InWq(w)' <=> InWq(w)
    <3>1. CASE once = "init"
      BY <1>26, <3>1 DEF CleanupPost, InWq
    <3>2. CASE once # "init"
      BY <1>0, <1>26, <3>2, CleanupQueue DEF IndInv, More, InWq
    <3> QED BY <3>1, <3>2
  <2>2. \A t \in Threads : /\ pc'[t] = "run" <=> pc[t] = "run"
                           /\ pc'[t] = "publish" <=> pc[t] = "publish"
    BY <1>26, PostWakes DEF IndInv, WakesOne
  <2>3. Untouched(w)
    BY <1>0, <1>26, <2>1, <2>2 DEF CleanupPost, Untouched, InWq, InSlow, InLoopWq, InDoneWq,
         RunBy, PublishBy, Submitting, Marking, Requeueing, Cancelling
  <2> QED BY <1>0, <2>3, UntouchedKept
<1>27. CASE CleanupJoin
  <2>1. Untouched(w)
    BY <1>27 DEF CleanupJoin, Untouched, InWq, InSlow, InLoopWq, InDoneWq, RunBy, PublishBy,
         Submitting, Marking, Requeueing, Cancelling
  <2> QED BY <1>0, <2>1, UntouchedKept
<1>28. CASE UNCHANGED vars
  <2>1. Untouched(w)
    BY <1>28 DEF vars, Untouched, InWq, InSlow, InLoopWq, InDoneWq, RunBy, PublishBy,
         Submitting, Marking, Requeueing, Cancelling
  <2> QED BY <1>0, <2>1, UntouchedKept
<1> QED
  BY <1>1, <1>2, <1>3, <1>4, <1>5, <1>6, <1>7, <1>8, <1>9, <1>10,
     <1>11, <1>12, <1>13, <1>14, <1>15, <1>16, <1>17, <1>18, <1>19,
     <1>20, <1>21, <1>22, <1>23, <1>24, <1>25, <1>26, <1>27, <1>28
     DEF Next, Worker, LoopThread, Cleanup, Finished

-----------------------------------------------------------------------------
(* The queues.                                                              *)

\* A step of the workers that changes no queue, and no slow worker's request.
LEMMA SameQueuesSorted ==
  ASSUME Sorted,
         UNCHANGED <<wq, slow_io_pending_wq, loop_wq, done_wq>>,
         \A l \in Loops : /\ lpc'[l] = "work_done" => lpc[l] = "work_done" \/ done_wq[l] = << >>
                          /\ arg'[l] # None => arg'[l] = arg[l] \/ LoopOf[arg'[l]] = l,
         \A t \in Threads : pc'[t] \in {"run", "publish", "send"} =>
           /\ pc[t] \in {"run", "publish", "send"}
           /\ is_slow_work'[t] = is_slow_work[t] /\ cur'[t] = cur[t]
  PROVE  Sorted'
BY NamesAssumption DEF Sorted, InWq, InSlow

\* Every step keeps the queues sorted.
LEMMA SortedStep ==
  ASSUME IndInv, Sorted, Tracked, Shutdown, [Next]_vars
  PROVE  Sorted'
<1> USE DEF poolVars, workerVars, loopVars, reqVars, InUserCode
<1>a. /\ pc \in [Threads -> WorkerPlaces] /\ cur \in [Threads -> Work \cup {None}]
      /\ is_slow_work \in [Threads -> BOOLEAN]
      /\ lpc \in [Loops -> LoopPlaces] /\ arg \in [Loops -> Work \cup {None}]
      /\ loop_wq \in [Loops -> Seq(Work)] /\ done_wq \in [Loops -> Seq(Work)]
  BY DEF IndInv, TypeOK
<1>b. /\ SlowWork \subseteq Work /\ LoopOf \in [Work -> Loops]
      /\ RunSlow \notin Work /\ ExitMsg \notin Work /\ None \notin Work
  BY WorkAssumption, NodesAssumption, NamesAssumption
<1>1. ASSUME NEW t \in Threads, WorkerStart(t) PROVE Sorted'
  BY <1>1, <1>a, SameQueuesSorted DEF WorkerStart
<1>2. ASSUME NEW t \in Threads, WorkerLock(t) PROVE Sorted'
  BY <1>2, <1>a, SameQueuesSorted DEF WorkerLock
<1>3. ASSUME NEW t \in Threads, WorkerPark(t) PROVE Sorted'
  BY <1>3, <1>a, SameQueuesSorted DEF WorkerPark
<1>4. ASSUME NEW t \in Threads, SpuriousWakeup(t) PROVE Sorted'
  BY <1>4, <1>a, SameQueuesSorted DEF SpuriousWakeup
<1>5. ASSUME NEW t \in Threads, WorkerWake(t) PROVE Sorted'
  BY <1>5, <1>a, SameQueuesSorted DEF WorkerWake
<1>6. ASSUME NEW t \in Threads, WorkerExit(t) PROVE Sorted'
  <2>1. MovesTo(t, "exited")
    BY <1>6, ExitWakes DEF IndInv
  <2> QED BY <1>6, <1>a, <2>1, SameQueuesSorted DEF WorkerExit, MovesTo
<1>7. ASSUME NEW t \in Threads, TakeWork(t) PROVE Sorted'
  <2>1. InWq(Head(wq)) /\ Less(wq, wq', Head(wq)) /\ Head(wq) \in Work
    BY <1>7, TakeWorkQueue DEF IndInv
  <2>2. pc[t] = "scan" /\ ~is_slow_work[t]
    BY <1>7 DEF TakeWork, IndInv, Locals
  <2> QED BY <1>7, <1>a, <1>b, <2>1, <2>2 DEF TakeWork, Sorted, Less, InWq, InSlow
<1>8. ASSUME NEW t \in Threads, RescheduleSlow(t) PROVE Sorted'
  BY <1>8, <1>b, RescheduleQueue DEF RescheduleSlow, IndInv, Sorted, InWq, InSlow
<1>9. ASSUME NEW t \in Threads, DropSlowMessage(t) PROVE Sorted'
  BY <1>9, <1>b, DropQueue DEF DropSlowMessage, IndInv, Sorted, InWq, InSlow, Less
<1>10. ASSUME NEW t \in Threads, TakeSlowWork(t) PROVE Sorted'
  <2> DEFINE v == Head(slow_io_pending_wq)
  <2>1. /\ v \in Work /\ InSlow(v) /\ Less(slow_io_pending_wq, slow_io_pending_wq', v)
        /\ Distinct(wq') /\ \A n \in Work : Linked(wq', n) <=> Linked(wq, n)
    BY <1>10, <1>b, TakeSlowQueue DEF IndInv
  <2>2. MovesTo(t, "run") /\ pc[t] = "scan"
    BY <1>10, TakeSlowWakes DEF IndInv, TakeSlowWork
  <2>3. /\ cur' = [cur EXCEPT ![t] = v]
        /\ is_slow_work' = [is_slow_work EXCEPT ![t] = TRUE]
        /\ UNCHANGED <<loop_wq, done_wq, lpc, arg>>
    BY <1>10 DEF TakeSlowWork
  <2> HIDE DEF v
  <2>4. v \in SlowWork
    BY <2>1 DEF Sorted
  <2>5. \A u \in Threads : pc'[u] \in {"run", "publish", "send"} =>
          (is_slow_work'[u] <=> cur'[u] \in SlowWork)
    BY <1>a, <2>2, <2>3, <2>4 DEF MovesTo, Sorted
  <2> QED BY <1>b, <2>1, <2>3, <2>5 DEF Sorted, Less, InWq, InSlow
<1>11. ASSUME NEW t \in Threads, RunWork(t) PROVE Sorted'
  BY <1>11, <1>a, SameQueuesSorted DEF RunWork
<1>12. ASSUME NEW t \in Threads, Publish(t) PROVE Sorted'
  <2> DEFINE v == cur[t]
             l == LoopOf[v]
  <2>0. v \in Work /\ PublishBy(t, v) /\ Kept(v)
    BY <1>12 DEF IndInv, Locals, Tracked, Publish, PublishBy
  <2>1. ~InLoopWq(v)
    BY <2>0 DEF Kept, AtMostOnce, Completed, Held, HeldBy
  <2>2. /\ l \in Loops /\ More(loop_wq[l], loop_wq'[l], v)
        /\ \A k \in Loops : k # l => loop_wq'[k] = loop_wq[k]
    BY <1>12, <2>1, PublishQueue DEF IndInv
  <2>3. /\ pc[t] = "publish" /\ pc' = [pc EXCEPT ![t] = "send"]
        /\ UNCHANGED <<wq, slow_io_pending_wq, cur, is_slow_work, done_wq, lpc, arg>>
    BY <1>12 DEF Publish
  <2>4. l = LoopOf[v]
    OBVIOUS
  <2> HIDE DEF v, l
  <2> QED BY ZenonT(40), <1>a, <2>2, <2>3, <2>4 DEF Sorted, More, InWq, InSlow
<1>13. ASSUME NEW t \in Threads, Send(t) PROVE Sorted'
  BY <1>13, <1>a, SameQueuesSorted DEF Send
<1>14. ASSUME NEW l \in Loops, NEW w \in Work, QueueWork(l, w) PROVE Sorted'
  BY <1>14, <1>a, SameQueuesSorted DEF QueueWork
<1>15. ASSUME NEW l \in Loops, NEW w \in Work, CancelLock(l, w) PROVE Sorted'
  BY <1>15, <1>a, SameQueuesSorted DEF CancelLock
<1>16. ASSUME NEW l \in Loops, OnceBegin(l) PROVE Sorted'
  BY <1>16, <1>a, SameQueuesSorted DEF OnceBegin
<1>17. ASSUME NEW l \in Loops, OnceEnd(l) PROVE Sorted'
  BY <1>17, <1>a, SameQueuesSorted DEF OnceEnd
<1>18. ASSUME NEW l \in Loops, Post(l) PROVE Sorted'
  <2> DEFINE v == arg[l]
  <2>0. /\ v \in Work /\ LoopOf[v] = l /\ lpc[l] = "once"
        /\ Submitting(v) /\ Kept(v)
    BY <1>18 DEF IndInv, Locals, Sorted, Tracked, Post, Submitting
  <2>1. /\ IF v \in SlowWork
             THEN More(slow_io_pending_wq, slow_io_pending_wq', v) /\ More(wq, wq', RunSlow)
             ELSE slow_io_pending_wq' = slow_io_pending_wq /\ More(wq, wq', v)
    <3>1. ~InWq(v) /\ ~InSlow(v)
      BY <2>0 DEF Kept, AtMostOnce, Waits, InCall
    <3> QED BY <1>18, <3>1, PostQueue DEF IndInv
  <2>2. WakesOne
    BY <1>18, PostWakes DEF IndInv
  <2>3. /\ lpc' = [lpc EXCEPT ![l] = "run"] /\ arg' = [arg EXCEPT ![l] = None]
        /\ UNCHANGED <<cur, is_slow_work, loop_wq, done_wq>>
    BY <1>18 DEF Post
  <2> HIDE DEF v
  <2>4. /\ Distinct(wq') /\ Distinct(slow_io_pending_wq')
        /\ \A w \in SlowWork : ~Linked(wq', w)
        /\ \A w \in Work : Linked(slow_io_pending_wq', w) => w \in SlowWork
    BY <1>b, <2>1 DEF Sorted, More, InWq, InSlow
  <2> QED BY <1>a, <1>b, <2>2, <2>3, <2>4 DEF Sorted, WakesOne, InWq, InSlow
<1>19. ASSUME NEW l \in Loops, CancelDecide(l) PROVE Sorted'
  <2>1. CASE ~Cancellable(arg[l])
    BY <1>19, <1>a, <2>1, SameQueuesSorted DEF CancelDecide
  <2>2. CASE Cancellable(arg[l])
    <3>1. /\ Less(wq, wq', arg[l])
          /\ Less(slow_io_pending_wq, slow_io_pending_wq', arg[l])
          /\ Less(loop_wq[l], loop_wq'[l], arg[l])
          /\ Less(done_wq[l], done_wq'[l], arg[l])
          /\ \A k \in Loops : k # l => loop_wq'[k] = loop_wq[k] /\ done_wq'[k] = done_wq[k]
      BY <1>19, <2>2, CancelQueue DEF IndInv
    <3>2. /\ lpc' = [lpc EXCEPT ![l] = "mark"]
          /\ UNCHANGED <<pc, cur, is_slow_work, arg>>
      BY <1>19, <2>2 DEF CancelDecide
    <3>3. \A k \in Loops : /\ Distinct(loop_wq'[k]) /\ Distinct(done_wq'[k])
                           /\ \A n : Linked(loop_wq'[k], n) => Linked(loop_wq[k], n)
                           /\ \A n : Linked(done_wq'[k], n) => Linked(done_wq[k], n)
      BY <3>1 DEF Sorted, Less
    <3>4. \A k \in Loops : lpc'[k] = "work_done" => done_wq'[k] = << >>
      BY <1>a, <3>1, <3>2 DEF Sorted
    <3>5. /\ Distinct(wq') /\ Distinct(slow_io_pending_wq')
          /\ \A w \in SlowWork : ~Linked(wq', w)
          /\ \A w \in Work : Linked(slow_io_pending_wq', w) => w \in SlowWork
      BY <1>b, <3>1 DEF Sorted, Less, InWq, InSlow
    <3> QED BY <3>2, <3>3, <3>4, <3>5 DEF Sorted, InWq, InSlow
  <2> QED BY <2>1, <2>2
<1>20. ASSUME NEW l \in Loops, CancelMark(l) PROVE Sorted'
  BY <1>20, <1>a, SameQueuesSorted DEF CancelMark
<1>21. ASSUME NEW l \in Loops, CancelRequeue(l) PROVE Sorted'
  <2> DEFINE v == arg[l]
  <2>0. v \in Work /\ LoopOf[v] = l /\ lpc[l] = "requeue" /\ Requeueing(v) /\ Kept(v)
    BY <1>21 DEF IndInv, Locals, Sorted, Tracked, CancelRequeue, Requeueing
  <2>1. /\ More(loop_wq[l], loop_wq'[l], v)
        /\ \A k \in Loops : k # l => loop_wq'[k] = loop_wq[k]
    <3>1. ~Linked(loop_wq[l], v)
      BY <2>0 DEF Kept, AtMostOnce, Completed, InLoopWq, InCall
    <3> QED BY <1>21, <3>1, RequeueQueue DEF IndInv
  <2>2. /\ lpc' = [lpc EXCEPT ![l] = "run"] /\ arg' = [arg EXCEPT ![l] = None]
        /\ UNCHANGED <<wq, slow_io_pending_wq, pc, cur, is_slow_work, done_wq>>
    BY <1>21 DEF CancelRequeue
  <2> HIDE DEF v
  <2> QED BY ZenonT(40), <1>a, <1>b, <2>0, <2>1, <2>2 DEF Sorted, More, InWq, InSlow
<1>22. ASSUME NEW l \in Loops, AsyncIo(l) PROVE Sorted'
  BY <1>22, <1>a, SameQueuesSorted DEF AsyncIo
<1>23. ASSUME NEW l \in Loops, WorkDone(l) PROVE Sorted'
  <2>1. /\ done_wq' = [done_wq EXCEPT ![l] = loop_wq[l]]
        /\ loop_wq' = [loop_wq EXCEPT ![l] = << >>]
        /\ lpc' = [lpc EXCEPT ![l] = IF loop_wq[l] = << >> THEN "run" ELSE "callback"]
        /\ UNCHANGED <<wq, slow_io_pending_wq, pc, cur, is_slow_work, arg>>
    BY <1>23 DEF WorkDone
  <2>2. Distinct(<< >>) /\ \A n : ~Linked(<< >>, n)
    BY DEF Linked, Distinct
  <2> QED BY <1>a, <2>1, <2>2 DEF Sorted, InWq, InSlow
<1>24. ASSUME NEW l \in Loops, Callback(l) PROVE Sorted'
  <2>1. /\ Less(done_wq[l], done_wq'[l], Head(done_wq[l]))
        /\ \A k \in Loops : k # l => done_wq'[k] = done_wq[k]
    BY <1>24, CallbackQueue DEF IndInv
  <2>2. /\ lpc' = [lpc EXCEPT ![l] = "run"]
        /\ UNCHANGED <<wq, slow_io_pending_wq, pc, cur, is_slow_work, arg, loop_wq>>
    BY <1>24 DEF Callback
  <2> QED BY ZenonT(40), <1>a, <2>1, <2>2 DEF Sorted, Less, InWq, InSlow
<1>25. ASSUME NEW l \in Loops, LoopClose(l) PROVE Sorted'
  BY <1>25, <1>a, SameQueuesSorted DEF LoopClose
<1>26. CASE CleanupPost
  <2>1. /\ Distinct(wq') /\ \A w \in Work : Linked(wq', w) <=> Linked(wq, w)
    <3>1. CASE once = "init"
      BY <1>26, <3>1 DEF CleanupPost, Sorted
    <3>2. CASE once # "init"
      BY <1>26, <1>b, <3>2, CleanupQueue DEF IndInv, More
    <3> QED BY <3>1, <3>2
  <2>2. \A t \in Threads : pc'[t] \in {"run", "publish", "send"} => pc'[t] = pc[t]
    BY <1>26, PostWakes DEF IndInv, WakesOne
  <2>3. UNCHANGED <<slow_io_pending_wq, cur, is_slow_work, loop_wq, done_wq, lpc, arg>>
    BY <1>26 DEF CleanupPost
  <2> QED BY <1>b, <2>1, <2>2, <2>3 DEF Sorted, InWq, InSlow
<1>27. CASE CleanupJoin
  BY <1>27, SameQueuesSorted DEF CleanupJoin
<1>28. CASE UNCHANGED vars
  BY <1>28, SameQueuesSorted DEF vars
<1> QED
  BY <1>1, <1>2, <1>3, <1>4, <1>5, <1>6, <1>7, <1>8, <1>9, <1>10,
     <1>11, <1>12, <1>13, <1>14, <1>15, <1>16, <1>17, <1>18, <1>19,
     <1>20, <1>21, <1>22, <1>23, <1>24, <1>25, <1>26, <1>27, <1>28
     DEF Next, Worker, LoopThread, Cleanup, Finished

-----------------------------------------------------------------------------
(* The beginning and the end.                                               *)

OnlyMessageBehind(q) == \A i, j \in 1..Len(q) : q[i] = ExitMsg /\ i < j => q[j] = RunSlow

\* Taking the head, or moving it to the end, brings nothing else behind the exit message.
LEMMA BehindExit ==
  ASSUME NEW q \in Seq(QueueNodes), q # << >>, OnlyMessageBehind(q)
  PROVE  OnlyMessageBehind(Tail(q)) /\ OnlyMessageBehind(Append(Tail(q), RunSlow))
<1>1. /\ Len(q) \in Nat /\ Len(q) > 0 /\ Tail(q) \in Seq(QueueNodes)
      /\ Len(Tail(q)) = Len(q) - 1
      /\ \A k \in 1..(Len(q) - 1) : Tail(q)[k] = q[k + 1]
  BY HeadTailProperties, LenProperties, EmptySeq
<1> DEFINE r == Tail(q)
<1> HIDE DEF r
<1>2. OnlyMessageBehind(r)
  BY <1>1 DEF OnlyMessageBehind, r
<1>3. /\ Len(Append(r, RunSlow)) = Len(r) + 1
      /\ \A k \in 1..Len(r) : Append(r, RunSlow)[k] = r[k]
      /\ Append(r, RunSlow)[Len(r) + 1] = RunSlow
  BY <1>1, RunSlow \in QueueNodes, AppendProperties DEF r, QueueNodes
<1>4. ASSUME NEW i \in 1..Len(Append(r, RunSlow)), NEW j \in 1..Len(Append(r, RunSlow)),
             Append(r, RunSlow)[i] = ExitMsg, i < j
      PROVE  Append(r, RunSlow)[j] = RunSlow
  <2>0. Len(r) \in Nat
    BY <1>1, LenProperties DEF r
  <2> DEFINE n == Len(r)
  <2>a. n \in Nat /\ i \in 1..(n + 1) /\ j \in 1..(n + 1) /\ i < j
    BY <1>3, <1>4, <2>0
  <2>b. i \in 1..n
    <3> HIDE DEF n
    <3> QED BY <2>a
  <2>1. Len(r) \in Nat /\ i \in 1..Len(r) /\ r[i] = ExitMsg
    BY <1>3, <1>4, <2>a, <2>b
  <2>2. CASE j = Len(r) + 1
    BY <1>3, <2>2
  <2>3. CASE j \in 1..Len(r)
    BY <1>2, <1>3, <1>4, <2>1, <2>3 DEF OnlyMessageBehind
  <2> QED BY <1>3, <2>1, <2>2, <2>3
<1> QED BY <1>2, <1>4 DEF OnlyMessageBehind, r

\* The exit message itself goes behind everything.
LEMMA ExitBehind ==
  ASSUME NEW q \in Seq(QueueNodes), ~Linked(q, ExitMsg)
  PROVE  OnlyMessageBehind(q) /\ OnlyMessageBehind(Append(q, ExitMsg))
<1>1. /\ Len(q) \in Nat /\ Len(Append(q, ExitMsg)) = Len(q) + 1
      /\ \A k \in 1..Len(q) : Append(q, ExitMsg)[k] = q[k]
  BY ExitMsg \in QueueNodes, AppendProperties, LenProperties DEF QueueNodes
<1> QED BY <1>1 DEF OnlyMessageBehind, Linked

\* When all workers have been created each has posted the semaphore.
LEMMA StartedAll ==
  ASSUME TypeOK, AllStarted
  PROVE  started = Threads
<1>1. started \in SUBSET Threads /\ Cardinality(Threads) = Cardinality(started)
  BY DEF TypeOK, AllStarted, NThreads
<1> QED BY <1>1, FS_Subset, ThreadsAssumption

\* A worker step that takes the head off the queue, or moves it to the end, finds
\* no worker that has left.
LEMMA HeadMoves ==
  ASSUME TypeOK, Shutdown, CleanupDrains, NEW t \in Threads, pc[t] = "scan", ~MustWait,
         Head(wq) # ExitMsg, \A u \in Threads : pc'[u] = "exited" => pc[u] = "exited",
         wq' = Tail(wq) \/ wq' = Append(Tail(wq), RunSlow),
         \A n : n # RunSlow => (Linked(wq', n) => Linked(wq, n)),
         UNCHANGED <<phase, lpc>>
  PROVE  Shutdown' /\ CleanupDrains'
<1>1. wq \in Seq(QueueNodes) /\ wq # << >>
  BY QueueReady DEF TypeOK
<1>2. \A u \in Threads : pc'[u] # "exited"
  BY DEF Shutdown
<1>3. OnlyMessageBehind(wq')
  <2>1. OnlyMessageBehind(wq)
    BY DEF Shutdown, OnlyMessageBehind
  <2> QED BY <1>1, <2>1, BehindExit
<1>4. phase' = "up" => ~Linked(wq', ExitMsg)
  BY NodesAssumption DEF Shutdown
<1>5. CleanupDrains'
  BY NodesAssumption DEF CleanupDrains, Linked
<1> QED BY <1>2, <1>3, <1>4, <1>5 DEF Shutdown, OnlyMessageBehind

Stages == Startup /\ Shutdown /\ CleanupDrains

\* Every step keeps the order of startup, work and shutdown.
LEMMA StagesStep ==
  ASSUME IndInv, Sorted, Tracked, Stages, [Next]_vars
  PROVE  Stages'
<1> USE DEF poolVars, workerVars, loopVars, reqVars, InUserCode, Stages
<1>a. /\ pc \in [Threads -> WorkerPlaces] /\ lpc \in [Loops -> LoopPlaces]
      /\ wq \in Seq(QueueNodes) /\ started \subseteq Threads
      /\ once = "init" => \A t \in Threads : pc[t] = "absent"
      /\ TypeOK
  BY DEF IndInv, TypeOK, Locals
<1>b. RunSlow # ExitMsg /\ RunSlow \notin Work /\ ExitMsg \notin Work
  BY NodesAssumption
<1>c. Startup /\ Shutdown /\ CleanupDrains
  OBVIOUS
<1>1. ASSUME NEW t \in Threads, WorkerStart(t) PROVE Stages'
  BY <1>1, <1>a, <1>c DEF WorkerStart, Startup, Shutdown, CleanupDrains
<1>2. ASSUME NEW t \in Threads, WorkerLock(t) PROVE Stages'
  BY <1>2, <1>a, <1>c DEF WorkerLock, Startup, Shutdown, CleanupDrains
<1>3. ASSUME NEW t \in Threads, WorkerPark(t) PROVE Stages'
  BY <1>3, <1>a, <1>c DEF WorkerPark, Startup, Shutdown, CleanupDrains
<1>4. ASSUME NEW t \in Threads, SpuriousWakeup(t) PROVE Stages'
  BY <1>4, <1>a, <1>c DEF SpuriousWakeup, Startup, Shutdown, CleanupDrains
<1>5. ASSUME NEW t \in Threads, WorkerWake(t) PROVE Stages'
  BY <1>5, <1>a, <1>c DEF WorkerWake, Startup, Shutdown, CleanupDrains
<1>6. ASSUME NEW t \in Threads, WorkerExit(t) PROVE Stages'
  <2>1. MovesTo(t, "exited")
    BY <1>6, ExitWakes DEF IndInv
  <2>2. wq # << >> /\ Head(wq) = ExitMsg
    BY <1>6, <1>a, QueueReady DEF WorkerExit
  <2>3. UNCHANGED <<once, started, wq, phase, lpc>>
    BY <1>6 DEF WorkerExit
  <2>4. \A u \in Threads : pc'[u] \in {"start", "absent"} => pc'[u] = pc[u]
    BY <2>1 DEF MovesTo
  <2>5. \A u \in started : pc'[u] \notin {"absent", "start"}
    BY <1>a, <1>c, <2>4 DEF Startup
  <2> QED BY <1>c, <2>2, <2>3, <2>4, <2>5 DEF Startup, Shutdown, CleanupDrains
<1>7. ASSUME NEW t \in Threads, TakeWork(t) PROVE Stages'
  <2>1. Less(wq, wq', Head(wq))
    BY <1>7, TakeWorkQueue DEF IndInv
  <2>2. Shutdown' /\ CleanupDrains'
    BY <1>7, <1>a, <1>b, <1>c, <2>1, HeadMoves DEF TakeWork, Less
  <2>3. Startup'
    BY <1>7, <1>a, <1>c, QueueReady DEF TakeWork, Startup
  <2> QED BY <2>2, <2>3
<1>8. ASSUME NEW t \in Threads, RescheduleSlow(t) PROVE Stages'
  <2>1. \A n : Linked(wq', n) <=> Linked(wq, n)
    BY <1>8, RescheduleQueue DEF IndInv
  <2>2. Shutdown' /\ CleanupDrains'
    BY <1>8, <1>a, <1>b, <1>c, <2>1, HeadMoves DEF RescheduleSlow
  <2>3. Startup'
    BY <1>8, <1>a, <1>c, QueueReady DEF RescheduleSlow, Startup
  <2> QED BY <2>2, <2>3
<1>9. ASSUME NEW t \in Threads, DropSlowMessage(t) PROVE Stages'
  <2>1. Less(wq, wq', RunSlow)
    BY <1>9, DropQueue DEF IndInv
  <2>2. Shutdown' /\ CleanupDrains'
    BY <1>9, <1>a, <1>b, <1>c, <2>1, HeadMoves DEF DropSlowMessage, Less
  <2>3. Startup'
    BY <1>9, <1>a, <1>c, QueueReady DEF DropSlowMessage, Startup
  <2> QED BY <2>2, <2>3
<1>10. ASSUME NEW t \in Threads, TakeSlowWork(t) PROVE Stages'
  <2>1. \A n : n # RunSlow => (Linked(wq', n) => Linked(wq, n))
    BY <1>10, TakeSlowQueue DEF IndInv
  <2>2. MovesTo(t, "run")
    BY <1>10, TakeSlowWakes DEF IndInv
  <2>3. /\ pc[t] = "scan" /\ ~MustWait /\ Head(wq) = RunSlow
        /\ wq' = Tail(wq) \/ wq' = Append(Tail(wq), RunSlow)
        /\ UNCHANGED <<once, started, phase, lpc>>
    BY <1>10 DEF TakeSlowWork
  <2>4. \A u \in Threads : pc'[u] \in {"exited", "start", "absent"} => pc'[u] = pc[u]
    BY <2>2 DEF MovesTo
  <2>5. Shutdown' /\ CleanupDrains'
    BY <1>a, <1>b, <1>c, <2>1, <2>3, <2>4, HeadMoves
  <2>6. Startup'
    BY <1>a, <1>c, <2>3, <2>4, QueueReady DEF Startup
  <2> QED BY <2>5, <2>6
<1>11. ASSUME NEW t \in Threads, RunWork(t) PROVE Stages'
  BY <1>11, <1>a, <1>c DEF RunWork, Startup, Shutdown, CleanupDrains
<1>12. ASSUME NEW t \in Threads, Publish(t) PROVE Stages'
  BY <1>12, <1>a, <1>c DEF Publish, Startup, Shutdown, CleanupDrains
<1>13. ASSUME NEW t \in Threads, Send(t) PROVE Stages'
  BY <1>13, <1>a, <1>c DEF Send, Startup, Shutdown, CleanupDrains
<1>14. ASSUME NEW l \in Loops, NEW w \in Work, QueueWork(l, w) PROVE Stages'
  BY <1>14, <1>a, <1>c DEF QueueWork, Startup, Shutdown, CleanupDrains
<1>15. ASSUME NEW l \in Loops, NEW w \in Work, CancelLock(l, w) PROVE Stages'
  BY <1>15, <1>a, <1>c DEF CancelLock, Startup, Shutdown, CleanupDrains
<1>16. ASSUME NEW l \in Loops, OnceBegin(l) PROVE Stages'
  BY <1>16, <1>a, <1>c DEF OnceBegin, Startup, Shutdown, CleanupDrains
<1>17. ASSUME NEW l \in Loops, OnceEnd(l) PROVE Stages'
  <2>1. \A t \in Threads : pc[t] # "start"
    BY <1>17, <1>a, <1>c, StartedAll DEF OnceEnd, Startup
  <2> QED BY <1>17, <1>c, <2>1 DEF OnceEnd, Startup, Shutdown, CleanupDrains
<1>18. ASSUME NEW l \in Loops, Post(l) PROVE Stages'
  <2>1. phase = "up" /\ once = "done"
    BY <1>18, <1>c DEF Post, Shutdown, IndInv, TypeOK
  <2>2. \A t \in Threads : pc[t] # "exited"
    <3>1. ~Linked(wq, ExitMsg) /\ (wq # << >> => Linked(wq, Head(wq)))
      BY <1>18, <1>a, <1>c, TailDistinct, <2>1 DEF Shutdown, Sorted
    <3> QED BY <1>c, <3>1 DEF Shutdown
  <2>3. wq' \in Seq(QueueNodes) /\ ~Linked(wq', ExitMsg)
    <3>1. \A n \in QueueNodes : Append(wq, n) \in Seq(QueueNodes)
                                /\ (n # ExitMsg /\ ~Linked(wq, ExitMsg) => ~Linked(Append(wq,
                                     n), ExitMsg))
      BY <1>a, AppendDistinct
    <3>2. \E n \in QueueNodes \ {ExitMsg} : wq' = wq \/ wq' = Append(wq, n)
      BY <1>18, <1>b DEF Post, QueueNodes, IndInv, Locals
    <3> QED BY <1>a, <1>c, <2>1, <3>1, <3>2 DEF Shutdown
  <2>4. OnlyMessageBehind(wq')
    BY <2>3, ExitBehind
  <2>5. /\ \A t \in Threads : pc'[t] \in {"exited", "start", "absent"} => pc'[t] = pc[t]
    BY <1>18, PostWakes DEF IndInv, WakesOne
  <2>6. UNCHANGED <<once, started, phase>>
    BY <1>18 DEF Post
  <2>7. Shutdown'
    BY <2>1, <2>2, <2>3, <2>4, <2>5, <2>6 DEF Shutdown, OnlyMessageBehind
  <2> QED BY <1>a, <1>c, <2>1, <2>5, <2>6, <2>7 DEF Startup, CleanupDrains
<1>19. ASSUME NEW l \in Loops, CancelDecide(l) PROVE Stages'
  <2>1. phase = "up"
    BY <1>19, <1>c DEF CancelDecide, Shutdown, IndInv, TypeOK
  <2>2. \A t \in Threads : pc[t] # "exited"
    <3>1. ~Linked(wq, ExitMsg) /\ (wq # << >> => Linked(wq, Head(wq)))
      BY <1>19, <1>a, <1>c, TailDistinct, <2>1 DEF Shutdown, Sorted
    <3> QED BY <1>c, <3>1 DEF Shutdown
  <2>3. wq' \in Seq(QueueNodes) /\ \A n : Linked(wq', n) => Linked(wq, n)
    <3>1. CASE Cancellable(arg[l])
      <4>1. Less(wq, wq', arg[l])
        BY <1>19, <3>1, CancelQueue DEF IndInv
      <4>2. wq' = Unlink(wq, arg[l])
        BY <1>19, <3>1 DEF CancelDecide
      <4> QED BY <1>a, <4>1, <4>2, UnlinkType DEF Less
    <3>2. CASE ~Cancellable(arg[l])
      BY <1>19, <1>a, <3>2 DEF CancelDecide
    <3> QED BY <3>1, <3>2
  <2>4. OnlyMessageBehind(wq') /\ ~Linked(wq', ExitMsg)
    BY <1>c, <2>1, <2>3, ExitBehind DEF Shutdown
  <2>5. UNCHANGED <<once, started, phase, pc>>
    BY <1>19 DEF CancelDecide
  <2>6. Shutdown'
    BY <2>1, <2>2, <2>4, <2>5 DEF Shutdown, OnlyMessageBehind
  <2>7. wq = << >> => wq' = << >>
    BY <1>a, <2>3, EmptyOrLinked
  <2> QED BY <1>c, <2>1, <2>5, <2>6, <2>7 DEF Startup, CleanupDrains
<1>20. ASSUME NEW l \in Loops, CancelMark(l) PROVE Stages'
  BY <1>20, <1>a, <1>c DEF CancelMark, Startup, Shutdown, CleanupDrains
<1>21. ASSUME NEW l \in Loops, CancelRequeue(l) PROVE Stages'
  BY <1>21, <1>a, <1>c DEF CancelRequeue, Startup, Shutdown, CleanupDrains
<1>22. ASSUME NEW l \in Loops, AsyncIo(l) PROVE Stages'
  BY <1>22, <1>a, <1>c DEF AsyncIo, Startup, Shutdown, CleanupDrains
<1>23. ASSUME NEW l \in Loops, WorkDone(l) PROVE Stages'
  BY <1>23, <1>a, <1>c DEF WorkDone, Startup, Shutdown, CleanupDrains
<1>24. ASSUME NEW l \in Loops, Callback(l) PROVE Stages'
  BY <1>24, <1>a, <1>c DEF Callback, Startup, Shutdown, CleanupDrains
<1>25. ASSUME NEW l \in Loops, LoopClose(l) PROVE Stages'
  BY <1>25, <1>a, <1>c DEF LoopClose, Startup, Shutdown, CleanupDrains
<1>26. CASE CleanupPost
  <2>1. phase = "up" /\ \A l \in Loops : lpc'[l] = "run"
    BY <1>26 DEF CleanupPost
  <2>2. \A t \in Threads : pc[t] # "exited"
    <3>1. ~Linked(wq, ExitMsg) /\ (wq # << >> => Linked(wq, Head(wq)))
      BY <1>26, <1>a, <1>c, TailDistinct, <2>1 DEF Shutdown, Sorted
    <3> QED BY <1>c, <3>1 DEF Shutdown
  <2>3. \A t \in Threads : pc'[t] \in {"exited", "start", "absent"} => pc'[t] = pc[t]
    BY <1>26, PostWakes DEF IndInv, WakesOne
  <2>4. UNCHANGED <<once, started>>
    BY <1>26 DEF CleanupPost
  <2>7. /\ \A t \in Threads : pc'[t] # "exited"
        /\ once = "init" => wq' = wq
        /\ Startup'
    <3>1. once = "init" => wq' = wq
      BY <1>26 DEF CleanupPost
    <3> QED BY <1>a, <1>c, <2>2, <2>3, <2>4, <3>1 DEF Startup
  <2>5. CASE once = "init"
    <3>1. wq' = << >> /\ wq = << >>
      BY <1>26, <1>c, <2>5 DEF CleanupPost, Startup
    <3>2. phase' = "down"
      BY <1>26, <2>5 DEF CleanupPost
    <3>3. \A i \in 1..Len(wq') : FALSE
      BY <3>1
    <3>4. \A n : ~Linked(wq', n)
      BY <3>3 DEF Linked
    <3> QED BY <2>1, <2>7, <3>1, <3>2, <3>3, <3>4 DEF Shutdown, CleanupDrains
  <2>6. CASE once # "init"
    <3>1. OnlyMessageBehind(wq')
      BY <1>26, <1>a, <1>c, <2>1, <2>6, ExitBehind DEF CleanupPost, ExitLast, Shutdown
    <3>2. phase' = "join"
      BY <1>26, <2>6 DEF CleanupPost
    <3> QED BY <2>1, <2>7, <3>1, <3>2 DEF Shutdown, CleanupDrains, OnlyMessageBehind
  <2> QED BY <2>5, <2>6
<1>27. CASE CleanupJoin
  <2>1. wq # << >> /\ Head(wq) = ExitMsg
    BY <1>27, <1>c, ThreadsAssumption DEF CleanupJoin, Shutdown
  <2>2. \A i \in 1..Len(wq) : wq[i] \notin Work
    <3>1. Len(wq) \in Nat /\ wq[1] = ExitMsg
      BY <1>a, <2>1, HeadTailProperties, LenProperties
    <3> QED BY <1>b, <1>c, <2>1, <3>1 DEF Shutdown
  <2> QED BY <1>27, <1>c, <2>2 DEF CleanupJoin, Startup, Shutdown, CleanupDrains
<1>28. CASE UNCHANGED vars
  BY <1>28, <1>c DEF vars, Startup, Shutdown, CleanupDrains
<1> QED
  BY <1>1, <1>2, <1>3, <1>4, <1>5, <1>6, <1>7, <1>8, <1>9, <1>10,
     <1>11, <1>12, <1>13, <1>14, <1>15, <1>16, <1>17, <1>18, <1>19,
     <1>20, <1>21, <1>22, <1>23, <1>24, <1>25, <1>26, <1>27, <1>28
     DEF Next, Worker, LoopThread, Cleanup, Finished

-----------------------------------------------------------------------------
(* The loops and the message for slow work.                                 *)

\* Completed work that waits for a loop has a wakeup of the loop under way.
Delivered == \A l \in Loops :
  loop_wq[l] # <<>> => async_pending[l] \/ lpc[l] = "work_done" \/ wq_mutex[l] # None

LoopsSafe == SendLocks /\ ClosedIsUnused /\ Delivered

\* A loop on which no request is registered has nothing left to do.
LEMMA NothingLeft ==
  ASSUME TypeOK, Locals, Sorted, Tracked, NEW l \in Loops, \A w \in active : LoopOf[w] # l
  PROVE  /\ loop_wq[l] = << >> /\ done_wq[l] = << >>
         /\ \A t \in Threads : pc[t] \in {"run", "publish"} => LoopOf[cur[t]] # l
<1>1. loop_wq[l] \in Seq(Work) /\ done_wq[l] \in Seq(Work)
  BY DEF TypeOK
<1>2. \A n : (Linked(loop_wq[l], n) \/ Linked(done_wq[l], n)) => n \in Work
  BY <1>1 DEF Linked
<1>3. ASSUME NEW n \in Work PROVE ~Linked(loop_wq[l], n) /\ ~Linked(done_wq[l], n)
  BY DEF Sorted, Tracked, Kept, Registered, Completed, InLoopWq, InDoneWq
<1>4. ASSUME NEW t \in Threads, pc[t] \in {"run", "publish"} PROVE LoopOf[cur[t]] # l
  <2>1. cur[t] \in Work /\ Held(cur[t])
    BY <1>4 DEF Locals, Held, HeldBy, RunBy, PublishBy
  <2> QED BY <2>1 DEF Tracked, Kept, Registered
<1> QED BY <1>1, <1>2, <1>3, <1>4, EmptyOrLinked

\* Every step keeps what the loops' locks and wakeups promise.
LEMMA LoopsStep ==
  ASSUME IndInv, Sorted, Tracked, LoopsSafe, [Next]_vars
  PROVE  LoopsSafe'
<1> USE DEF poolVars, workerVars, loopVars, reqVars, InUserCode, LoopsSafe, SendLocks,
     ClosedIsUnused, Delivered
<1>a. /\ pc \in [Threads -> WorkerPlaces] /\ cur \in [Threads -> Work \cup {None}]
      /\ lpc \in [Loops -> LoopPlaces] /\ wq_mutex \in [Loops -> Threads \cup {None}]
      /\ loop_wq \in [Loops -> Seq(Work)] /\ open \in [Loops -> BOOLEAN]
      /\ async_pending \in [Loops -> BOOLEAN]
      /\ \A t \in Threads : pc[t] \in {"run", "publish", "send"} => cur[t] \in Work
  BY DEF IndInv, TypeOK, Locals
<1>b. LoopOf \in [Work -> Loops] /\ None \notin Threads
  BY WorkAssumption, NamesAssumption
<1>1. ASSUME NEW t \in Threads, WorkerStart(t) PROVE LoopsSafe'
  BY <1>1, <1>a, <1>b DEF WorkerStart
<1>2. ASSUME NEW t \in Threads, WorkerLock(t) PROVE LoopsSafe'
  BY <1>2, <1>a, <1>b DEF WorkerLock
<1>3. ASSUME NEW t \in Threads, WorkerPark(t) PROVE LoopsSafe'
  BY <1>3, <1>a, <1>b DEF WorkerPark
<1>4. ASSUME NEW t \in Threads, SpuriousWakeup(t) PROVE LoopsSafe'
  BY <1>4, <1>a, <1>b DEF SpuriousWakeup
<1>5. ASSUME NEW t \in Threads, WorkerWake(t) PROVE LoopsSafe'
  BY <1>5, <1>a, <1>b DEF WorkerWake
<1>6. ASSUME NEW t \in Threads, WorkerExit(t) PROVE LoopsSafe'
  <2>1. MovesTo(t, "exited")
    BY <1>6, ExitWakes DEF IndInv
  <2>2. UNCHANGED <<cur, wq_mutex, loop_wq, async_pending, open, lpc, active>>
    BY <1>6 DEF WorkerExit
  <2> QED BY <1>a, <2>1, <2>2 DEF MovesTo
<1>7. ASSUME NEW t \in Threads, TakeWork(t) PROVE LoopsSafe'
  BY <1>7, <1>a, <1>b DEF TakeWork
<1>8. ASSUME NEW t \in Threads, RescheduleSlow(t) PROVE LoopsSafe'
  BY <1>8, <1>a, <1>b DEF RescheduleSlow
<1>9. ASSUME NEW t \in Threads, DropSlowMessage(t) PROVE LoopsSafe'
  BY <1>9, <1>a, <1>b DEF DropSlowMessage
<1>10. ASSUME NEW t \in Threads, TakeSlowWork(t) PROVE LoopsSafe'
  <2>1. MovesTo(t, "run")
    BY <1>10, TakeSlowWakes DEF IndInv
  <2>2. /\ cur' = [cur EXCEPT ![t] = Head(slow_io_pending_wq)]
        /\ UNCHANGED <<wq_mutex, loop_wq, async_pending, open, lpc, active>>
    BY <1>10 DEF TakeSlowWork
  <2> QED BY <1>a, <2>1, <2>2 DEF MovesTo
<1>11. ASSUME NEW t \in Threads, RunWork(t) PROVE LoopsSafe'
  BY <1>11, <1>a, <1>b DEF RunWork
<1>12. ASSUME NEW t \in Threads, Publish(t) PROVE LoopsSafe'
  <2>1. cur[t] \in Work /\ cur[t] \in active
    BY <1>12, <1>a DEF Publish, Tracked, Kept, Registered, Held, HeldBy, PublishBy
  <2> QED BY <1>12, <1>a, <1>b, <2>1 DEF Publish
<1>13. ASSUME NEW t \in Threads, Send(t) PROVE LoopsSafe'
  BY <1>13, <1>a, <1>b DEF Send, Wakeup
<1>14. ASSUME NEW l \in Loops, NEW w \in Work, QueueWork(l, w) PROVE LoopsSafe'
  BY <1>14, <1>a, <1>b DEF QueueWork
<1>15. ASSUME NEW l \in Loops, NEW w \in Work, CancelLock(l, w) PROVE LoopsSafe'
  BY <1>15, <1>a, <1>b DEF CancelLock
<1>16. ASSUME NEW l \in Loops, OnceBegin(l) PROVE LoopsSafe'
  BY <1>16, <1>a, <1>b DEF OnceBegin
<1>17. ASSUME NEW l \in Loops, OnceEnd(l) PROVE LoopsSafe'
  BY <1>17, <1>a, <1>b DEF OnceEnd
<1>18. ASSUME NEW l \in Loops, Post(l) PROVE LoopsSafe'
  <2>1. \A t \in Threads : pc'[t] = "send" => pc[t] = "send"
    BY <1>18, PostWakes DEF IndInv, WakesOne
  <2>2. /\ lpc[l] = "once" /\ lpc' = [lpc EXCEPT ![l] = "run"]
        /\ UNCHANGED <<cur, wq_mutex, loop_wq, async_pending, open, active>>
    BY <1>18 DEF Post
  <2> QED BY <1>a, <2>1, <2>2
<1>19. ASSUME NEW l \in Loops, CancelDecide(l) PROVE LoopsSafe'
  <2>1. CASE ~Cancellable(arg[l])
    BY <1>19, <1>a, <2>1 DEF CancelDecide
  <2>2. CASE Cancellable(arg[l])
    <3>1. loop_wq[l] = << >> => Unlink(loop_wq[l], arg[l]) = << >>
      BY DEF Unlink, Linked
    <3>2. /\ lpc[l] = "cancel" /\ lpc' = [lpc EXCEPT ![l] = "mark"]
          /\ loop_wq' = [loop_wq EXCEPT ![l] = Unlink(loop_wq[l], arg[l])]
          /\ UNCHANGED <<pc, cur, wq_mutex, async_pending, open, active>>
      BY <1>19, <2>2 DEF CancelDecide
    <3> QED BY <1>a, <3>1, <3>2
  <2> QED BY <2>1, <2>2
<1>20. ASSUME NEW l \in Loops, CancelMark(l) PROVE LoopsSafe'
  BY <1>20, <1>a, <1>b DEF CancelMark
<1>21. ASSUME NEW l \in Loops, CancelRequeue(l) PROVE LoopsSafe'
  BY <1>21, <1>a, <1>b DEF CancelRequeue, Wakeup
<1>22. ASSUME NEW l \in Loops, AsyncIo(l) PROVE LoopsSafe'
  BY <1>22, <1>a, <1>b DEF AsyncIo
<1>23. ASSUME NEW l \in Loops, WorkDone(l) PROVE LoopsSafe'
  BY <1>23, <1>a, <1>b DEF WorkDone
<1>24. ASSUME NEW l \in Loops, Callback(l) PROVE LoopsSafe'
  BY <1>24, <1>a, <1>b DEF Callback
<1>25. ASSUME NEW l \in Loops, LoopClose(l) PROVE LoopsSafe'
  <2>1. loop_wq[l] = << >>
    BY <1>25, NothingLeft DEF IndInv, LoopClose, HasActiveReqs
  <2> QED BY <1>25, <1>a, <2>1 DEF LoopClose, HasActiveReqs
<1>26. CASE CleanupPost
  <2>1. \A t \in Threads : pc'[t] = "send" => pc[t] = "send"
    BY <1>26, PostWakes DEF IndInv, WakesOne
  <2> QED BY <1>26, <1>a, <2>1 DEF CleanupPost
<1>27. CASE CleanupJoin
  BY <1>27, <1>a, <1>b DEF CleanupJoin
<1>28. CASE UNCHANGED vars
  BY <1>28, <1>a, <1>b DEF vars
<1> QED
  BY <1>1, <1>2, <1>3, <1>4, <1>5, <1>6, <1>7, <1>8, <1>9, <1>10,
     <1>11, <1>12, <1>13, <1>14, <1>15, <1>16, <1>17, <1>18, <1>19,
     <1>20, <1>21, <1>22, <1>23, <1>24, <1>25, <1>26, <1>27, <1>28
     DEF Next, Worker, LoopThread, Cleanup, Finished

\* Every step keeps the message for slow work queued while slow work waits.
LEMMA ScheduledStep ==
  ASSUME IndInv, Sorted, Tracked, Shutdown, SlowScheduled, [Next]_vars
  PROVE  SlowScheduled'
<1> USE DEF poolVars, workerVars, loopVars, reqVars, SlowScheduled
<1>a. RunSlow \notin Work
  BY NodesAssumption
<1>1. ASSUME NEW t \in Threads, WorkerStart(t) PROVE SlowScheduled'
  BY <1>1, <1>a DEF WorkerStart
<1>2. ASSUME NEW t \in Threads, WorkerLock(t) PROVE SlowScheduled'
  BY <1>2, <1>a DEF WorkerLock
<1>3. ASSUME NEW t \in Threads, WorkerPark(t) PROVE SlowScheduled'
  BY <1>3, <1>a DEF WorkerPark
<1>4. ASSUME NEW t \in Threads, SpuriousWakeup(t) PROVE SlowScheduled'
  BY <1>4, <1>a DEF SpuriousWakeup
<1>5. ASSUME NEW t \in Threads, WorkerWake(t) PROVE SlowScheduled'
  BY <1>5, <1>a DEF WorkerWake
<1>6. ASSUME NEW t \in Threads, WorkerExit(t) PROVE SlowScheduled'
  BY <1>6, <1>a DEF WorkerExit
<1>7. ASSUME NEW t \in Threads, TakeWork(t) PROVE SlowScheduled'
  BY <1>7, <1>a, TakeWorkQueue DEF TakeWork, IndInv, Less
<1>8. ASSUME NEW t \in Threads, RescheduleSlow(t) PROVE SlowScheduled'
  BY <1>8, <1>a, RescheduleQueue DEF RescheduleSlow, IndInv
<1>9. ASSUME NEW t \in Threads, DropSlowMessage(t) PROVE SlowScheduled'
  BY <1>9, <1>a DEF DropSlowMessage
<1>10. ASSUME NEW t \in Threads, TakeSlowWork(t) PROVE SlowScheduled'
  BY <1>10, TakeSlowQueue DEF IndInv
<1>11. ASSUME NEW t \in Threads, RunWork(t) PROVE SlowScheduled'
  BY <1>11, <1>a DEF RunWork
<1>12. ASSUME NEW t \in Threads, Publish(t) PROVE SlowScheduled'
  BY <1>12, <1>a DEF Publish
<1>13. ASSUME NEW t \in Threads, Send(t) PROVE SlowScheduled'
  BY <1>13, <1>a DEF Send
<1>14. ASSUME NEW l \in Loops, NEW w \in Work, QueueWork(l, w) PROVE SlowScheduled'
  BY <1>14, <1>a DEF QueueWork
<1>15. ASSUME NEW l \in Loops, NEW w \in Work, CancelLock(l, w) PROVE SlowScheduled'
  BY <1>15, <1>a DEF CancelLock
<1>16. ASSUME NEW l \in Loops, OnceBegin(l) PROVE SlowScheduled'
  BY <1>16, <1>a DEF OnceBegin
<1>17. ASSUME NEW l \in Loops, OnceEnd(l) PROVE SlowScheduled'
  BY <1>17, <1>a DEF OnceEnd
<1>18. ASSUME NEW l \in Loops, Post(l) PROVE SlowScheduled'
  <2>1. ~InWq(arg[l]) /\ ~InSlow(arg[l])
    BY <1>18 DEF IndInv, Locals, Sorted, Tracked, Post, Submitting, Kept, AtMostOnce, Waits,
         InCall
  <2> QED BY <1>18, <2>1, PostQueue DEF IndInv, More
<1>19. ASSUME NEW l \in Loops, CancelDecide(l) PROVE SlowScheduled'
  <2>1. CASE ~Cancellable(arg[l])
    BY <1>19, <2>1 DEF CancelDecide
  <2>2. CASE Cancellable(arg[l])
    <3>1. Less(wq, wq', arg[l]) /\ arg[l] # RunSlow
      BY <1>19, <1>a, <2>2, CancelQueue DEF IndInv, Locals, CancelDecide
    <3>2. slow_io_pending_wq = << >> => slow_io_pending_wq' = << >>
      BY <1>19, <2>2 DEF CancelDecide, Unlink, Linked
    <3> QED BY <3>1, <3>2 DEF Less
  <2> QED BY <2>1, <2>2
<1>20. ASSUME NEW l \in Loops, CancelMark(l) PROVE SlowScheduled'
  BY <1>20, <1>a DEF CancelMark
<1>21. ASSUME NEW l \in Loops, CancelRequeue(l) PROVE SlowScheduled'
  BY <1>21, <1>a DEF CancelRequeue
<1>22. ASSUME NEW l \in Loops, AsyncIo(l) PROVE SlowScheduled'
  BY <1>22, <1>a DEF AsyncIo
<1>23. ASSUME NEW l \in Loops, WorkDone(l) PROVE SlowScheduled'
  BY <1>23, <1>a DEF WorkDone
<1>24. ASSUME NEW l \in Loops, Callback(l) PROVE SlowScheduled'
  BY <1>24, <1>a DEF Callback
<1>25. ASSUME NEW l \in Loops, LoopClose(l) PROVE SlowScheduled'
  BY <1>25, <1>a DEF LoopClose
<1>26. CASE CleanupPost
  <2>1. CASE once = "init"
    BY <1>26, <2>1 DEF CleanupPost
  <2>2. CASE once # "init"
    BY <1>26, <2>2, CleanupQueue DEF IndInv, CleanupPost, More
  <2> QED BY <2>1, <2>2
<1>27. CASE CleanupJoin
  BY <1>27, <1>a DEF CleanupJoin
<1>28. CASE UNCHANGED vars
  BY <1>28, <1>a DEF vars
<1> QED
  BY <1>1, <1>2, <1>3, <1>4, <1>5, <1>6, <1>7, <1>8, <1>9, <1>10,
     <1>11, <1>12, <1>13, <1>14, <1>15, <1>16, <1>17, <1>18, <1>19,
     <1>20, <1>21, <1>22, <1>23, <1>24, <1>25, <1>26, <1>27, <1>28
     DEF Next, Worker, LoopThread, Cleanup, Finished

-----------------------------------------------------------------------------
(* The wakeups.                                                             *)

\* How the number of workers under way follows from who is among them.
LEMMA AwakeCount ==
  /\ Cardinality(Awake) \in Nat /\ Cardinality(Awake') \in Nat
  /\ Awake \subseteq Awake' => Cardinality(Awake') >= Cardinality(Awake)
  /\ \A t \in Threads : Awake \ {t} \subseteq Awake' => Cardinality(Awake') >= Cardinality(Awake) - 1
  /\ \A u \in Threads \ Awake :
       Awake \cup {u} \subseteq Awake' => Cardinality(Awake') >= Cardinality(Awake) + 1
  /\ \A t \in Threads, u \in Threads \ Awake :
       (Awake \ {t}) \cup {u} \subseteq Awake' => Cardinality(Awake') >= Cardinality(Awake)
<1>1. /\ IsFiniteSet(Awake) /\ Cardinality(Awake) \in Nat
      /\ IsFiniteSet(Awake') /\ Cardinality(Awake') \in Nat
  <2>1. Awake \in SUBSET Threads /\ Awake' \in SUBSET Threads
    BY DEF Awake
  <2> QED BY <2>1, ThreadsAssumption, FS_Subset, FS_CardinalityType
<1> DEFINE A == Awake
           B == Awake'
<1> HIDE DEF A, B
<1>2. IsFiniteSet(A) /\ IsFiniteSet(B) /\ Cardinality(A) \in Nat /\ Cardinality(B) \in Nat
  BY <1>1 DEF A, B
<1>3. \A S \in SUBSET B : Cardinality(S) <= Cardinality(B)
  BY <1>2, FS_Subset
<1>4. ASSUME NEW t, A \ {t} \subseteq B PROVE Cardinality(B) >= Cardinality(A) - 1
  <2>0. Cardinality(A \ {t}) = IF t \in A THEN Cardinality(A) - 1 ELSE Cardinality(A)
    BY <1>2, FS_RemoveElement
  <2>1. Cardinality(A \ {t}) >= Cardinality(A) - 1
    BY <1>2, <2>0
  <2>2. Cardinality(A \ {t}) <= Cardinality(B) /\ Cardinality(A \ {t}) \in Nat
    BY <1>2, <1>3, <1>4, FS_RemoveElement, FS_CardinalityType
  <2> QED BY <1>2, <2>1, <2>2
<1>5. ASSUME NEW u, u \notin A,
     A \cup {u} \subseteq B PROVE Cardinality(B) >= Cardinality(A) + 1
  <2>1. Cardinality(A \cup {u}) = Cardinality(A) + 1
    BY <1>2, <1>5, FS_AddElement
  <2> QED BY <1>2, <1>3, <1>5, <2>1
<1>6. ASSUME NEW t, NEW u, u \notin A, (A \ {t}) \cup {u} \subseteq B
      PROVE  Cardinality(B) >= Cardinality(A)
  <2>0. Cardinality(A \ {t}) = IF t \in A THEN Cardinality(A) - 1 ELSE Cardinality(A)
    BY <1>2, FS_RemoveElement
  <2>1. IsFiniteSet(A \ {t}) /\ Cardinality(A \ {t}) >= Cardinality(A) - 1 /\ Cardinality(A \ {t}) \in Nat
    BY <1>2, <2>0, FS_RemoveElement, FS_CardinalityType
  <2>2. Cardinality((A \ {t}) \cup {u}) = Cardinality(A \ {t}) + 1
    BY <1>6, <2>1, FS_AddElement
  <2>3. Cardinality((A \ {t}) \cup {u}) <= Cardinality(B)
    BY <1>3, <1>6
  <2> QED BY <1>2, <2>1, <2>2, <2>3
<1> QED BY <1>2, <1>3, <1>4, <1>5, <1>6 DEF A, B

\* What is due is a number, and only the queue and the slow count change it.
LEMMA DueType ==
  ASSUME TypeOK
  PROVE  /\ Due \in Int /\ Len(wq) \in Nat
         /\ UNCHANGED <<wq, slow_io_work_running>> => Due' = Due
BY LenProperties DEF TypeOK, Due, AtSlowThreshold

\* A step after which no more is due, and no worker under way is lost.
LEMMA StillEnough ==
  ASSUME TypeOK, EnoughAwake, Due' \in Int, Due' <= Due, Awake \subseteq Awake',
         \A t \in Threads : pc'[t] = "parked" => pc[t] = "parked"
  PROVE  EnoughAwake'
BY DueType, AwakeCount DEF EnoughAwake

\* uv_cond_signal wakes one of the parked workers.
LEMMA SignalWakes ==
  ASSUME NEW q \in [Threads -> WorkerPlaces], NEW p \in Signal(q), NEW v \in Threads,
       q[v] = "parked"
  PROVE  \E u \in Threads : q[u] = "parked" /\ p = [q EXCEPT ![u] = "woken"]
BY DEF Signal

\* A poster that finds idle_threads zero finds no parked worker.
LEMMA ParkedIsIdle ==
  ASSUME TypeOK, IdleCount, NEW t \in Threads, pc[t] = "parked"
  PROVE  idle_threads > 0
<1> DEFINE S == {u \in Threads : pc[u] \in {"parked", "woken"}}
<1>1. IsFiniteSet(S) /\ S # {}
  BY FS_Subset, ThreadsAssumption
<1>2. Cardinality(S) # 0
  BY <1>1, FS_EmptySet
<1> QED BY <1>2 DEF IdleCount, TypeOK

\* post() of one node wakes a worker for it if one is parked.
LEMMA PostEnough ==
  ASSUME TypeOK, IdleCount, EnoughAwake, pc' \in SignalIfIdle(pc), NEW n \in QueueNodes,
         wq' = Append(wq, n), UNCHANGED <<is_slow_work, slow_io_work_running>>
  PROVE  EnoughAwake'
<1>1. SUFFICES ASSUME NEW v \in Threads, pc'[v] = "parked" PROVE Cardinality(Awake') >= Due'
  BY DEF EnoughAwake
<1>2. pc \in [Threads -> WorkerPlaces] /\ pc[v] = "parked"
  BY <1>1, SignalEffect DEF TypeOK
<1>3. PICK u \in Threads : pc[u] = "parked" /\ pc' = [pc EXCEPT ![u] = "woken"]
  BY <1>2, ParkedIsIdle, SignalWakes DEF SignalIfIdle
<1>4. u \notin Awake /\ Awake \cup {u} \subseteq Awake'
  BY <1>2, <1>3 DEF Awake
<1>5. Due' \in Int /\ Due' <= Due + 1
  <2>1. /\ wq \in Seq(QueueNodes) /\ Len(wq') = Len(wq) + 1 /\ Len(wq) \in Nat
        /\ Linked(wq, RunSlow) => Linked(wq', RunSlow)
    BY AppendProperties, LenProperties DEF TypeOK, Linked
  <2> QED BY <2>1 DEF Due, AtSlowThreshold
<1> QED BY <1>2, <1>4, <1>5, AwakeCount, DueType DEF EnoughAwake

\* Every step leaves enough workers under way.
LEMMA AwakeStep ==
  ASSUME IndInv, Sorted, Tracked, Shutdown, EnoughAwake, [Next]_vars
  PROVE  EnoughAwake'
<1> USE DEF poolVars, workerVars, loopVars, reqVars
<1>a. /\ TypeOK /\ IdleCount /\ EnoughAwake
      /\ pc \in [Threads -> WorkerPlaces] /\ is_slow_work \in [Threads -> BOOLEAN]
      /\ wq \in Seq(QueueNodes) /\ Due \in Int /\ Len(wq) \in Nat
      /\ UNCHANGED <<wq, slow_io_work_running>> => Due' = Due
  BY DueType DEF IndInv, TypeOK
<1>1. ASSUME NEW t \in Threads, WorkerStart(t) PROVE EnoughAwake'
  <2>1. Due' = Due
    BY <1>1, <1>a DEF WorkerStart
  <2>2. Awake \subseteq Awake' /\ \A u \in Threads : pc'[u] = "parked" => pc[u] = "parked"
    BY <1>1, <1>a DEF WorkerStart, Awake
  <2> QED BY <1>a, <2>1, <2>2, StillEnough
<1>2. ASSUME NEW t \in Threads, WorkerLock(t) PROVE EnoughAwake'
  <2>1. CASE ~is_slow_work[t]
    <3>1. Due' = Due
      BY <1>2, <1>a, <2>1 DEF WorkerLock, SlowGivenBack
    <3>2. Awake \subseteq Awake' /\ \A u \in Threads : pc'[u] = "parked" => pc[u] = "parked"
      BY <1>2, <1>a DEF WorkerLock, Awake
    <3> QED BY <1>a, <3>1, <3>2, StillEnough
  <2>2. CASE is_slow_work[t]
    <3>1. Due' \in Int /\ Due' <= Due + 1
      BY <1>2, <1>a DEF WorkerLock, Due, AtSlowThreshold
    <3>2. t \notin Awake /\ Awake \cup {t} \subseteq Awake'
      BY <1>2, <1>a, <2>2 DEF WorkerLock, Awake
    <3>3. \A u \in Threads : pc'[u] = "parked" => pc[u] = "parked"
      BY <1>2, <1>a DEF WorkerLock
    <3> QED BY <1>a, <3>1, <3>2, <3>3, AwakeCount DEF EnoughAwake
  <2> QED BY <2>1, <2>2
<1>3. ASSUME NEW t \in Threads, WorkerPark(t) PROVE EnoughAwake'
  <2>1. UNCHANGED <<wq, slow_io_work_running>> /\ MustWait
    BY <1>3 DEF WorkerPark
  <2>2. Due = 0
    <3>1. CASE wq = << >>
      BY <3>1 DEF Due, Linked
    <3>2. CASE wq = <<RunSlow>> /\ AtSlowThreshold
      BY <3>2 DEF Due, Linked
    <3> QED BY <2>1, <3>1, <3>2 DEF MustWait
  <2> QED BY <1>a, <2>1, <2>2, AwakeCount DEF EnoughAwake
<1>4. ASSUME NEW t \in Threads, SpuriousWakeup(t) PROVE EnoughAwake'
  <2>1. Due' = Due
    BY <1>4, <1>a DEF SpuriousWakeup
  <2>2. Awake \subseteq Awake' /\ \A u \in Threads : pc'[u] = "parked" => pc[u] = "parked"
    BY <1>4, <1>a DEF SpuriousWakeup, Awake
  <2> QED BY <1>a, <2>1, <2>2, StillEnough
<1>5. ASSUME NEW t \in Threads, WorkerWake(t) PROVE EnoughAwake'
  <2>1. Due' = Due
    BY <1>5, <1>a DEF WorkerWake
  <2>2. Awake \subseteq Awake' /\ \A u \in Threads : pc'[u] = "parked" => pc[u] = "parked"
    BY <1>5, <1>a DEF WorkerWake, Awake
  <2> QED BY <1>a, <2>1, <2>2, StillEnough
<1>6. ASSUME NEW t \in Threads, WorkerExit(t) PROVE EnoughAwake'
  <2>1. SUFFICES ASSUME NEW v \in Threads, pc'[v] = "parked" PROVE Cardinality(Awake') >= Due'
    BY DEF EnoughAwake
  <2> DEFINE q == [pc EXCEPT ![t] = "exited"]
  <2>2. q \in [Threads -> WorkerPlaces] /\ pc' \in Signal(q) /\ Due' = Due
        /\ UNCHANGED is_slow_work /\ pc[t] = "scan"
    BY <1>6, <1>a DEF WorkerExit, WorkerPlaces
  <2> HIDE DEF q
  <2>3. q[v] = "parked"
    BY <2>1, <2>2, SignalEffect
  <2>4. PICK u \in Threads : q[u] = "parked" /\ pc' = [q EXCEPT ![u] = "woken"]
    BY <2>2, <2>3, SignalWakes
  <2>5. u \notin Awake /\ (Awake \ {t}) \cup {u} \subseteq Awake' /\ pc[v] = "parked"
    BY <1>a, <2>2, <2>3, <2>4 DEF Awake, q
  <2> QED BY <1>a, <2>2, <2>5, AwakeCount DEF EnoughAwake
<1>7. ASSUME NEW t \in Threads, TakeWork(t) PROVE EnoughAwake'
  <2>1. Less(wq, wq', Head(wq)) /\ Head(wq) # RunSlow /\ Len(wq') = Len(wq) - 1
    BY <1>7, <1>a, TakeWorkQueue, QueueReady, HeadTailProperties, NodesAssumption
       DEF TakeWork, IndInv
  <2>2. Due' = Due - 1
    <3>1. Linked(wq', RunSlow) <=> Linked(wq, RunSlow)
      BY <2>1 DEF Less
    <3>2. AtSlowThreshold' <=> AtSlowThreshold
      BY <1>7 DEF TakeWork, AtSlowThreshold
    <3> QED BY <1>a, <2>1, <3>1, <3>2 DEF Due
  <2>3. Awake \ {t} \subseteq Awake' /\ \A u \in Threads : pc'[u] = "parked" => pc[u] = "parked"
    BY <1>7, <1>a DEF TakeWork, Awake
  <2> QED BY <1>a, <1>7, <2>2, <2>3, AwakeCount DEF EnoughAwake
<1>8. ASSUME NEW t \in Threads, RescheduleSlow(t) PROVE EnoughAwake'
  <2>1. Len(wq') = Len(wq) /\ (Linked(wq', RunSlow) <=> Linked(wq, RunSlow))
    <3>1. Tail(wq) \in Seq(QueueNodes) /\ Len(Tail(wq)) = Len(wq) - 1
      BY <1>8, <1>a, QueueReady, HeadTailProperties DEF RescheduleSlow
    <3> QED BY <1>8, <1>a, <3>1, RunSlow \in QueueNodes, AppendProperties, RescheduleQueue
            DEF RescheduleSlow, IndInv, QueueNodes
  <2>2. Due' = Due
    BY <1>8, <1>a, <2>1 DEF RescheduleSlow, Due, AtSlowThreshold
  <2>3. Awake \subseteq Awake' /\ \A u \in Threads : pc'[u] = "parked" => pc[u] = "parked"
    BY <1>8 DEF RescheduleSlow, Awake
  <2> QED BY <1>a, <2>2, <2>3, StillEnough
<1>9. ASSUME NEW t \in Threads, DropSlowMessage(t) PROVE EnoughAwake'
  <2>1. Len(wq') = Len(wq) - 1
    BY <1>9, <1>a, QueueReady, HeadTailProperties DEF DropSlowMessage
  <2>2. Due' = Due - 1
    BY <1>9, <1>a, <2>1 DEF DropSlowMessage, Due, AtSlowThreshold
  <2>3. Awake \subseteq Awake' /\ \A u \in Threads : pc'[u] = "parked" => pc[u] = "parked"
    BY <1>9 DEF DropSlowMessage, Awake
  <2> QED BY <1>a, <2>2, <2>3, StillEnough
<1>10. ASSUME NEW t \in Threads, TakeSlowWork(t) PROVE EnoughAwake'
  <2> DEFINE q == [pc EXCEPT ![t] = "run"]
  <2>1. SUFFICES ASSUME NEW v \in Threads, pc'[v] = "parked" PROVE Cardinality(Awake') >= Due'
    BY DEF EnoughAwake
  <2>2. /\ pc[t] = "scan" /\ ~AtSlowThreshold
        /\ is_slow_work' = [is_slow_work EXCEPT ![t] = TRUE]
        /\ wq' = IF MoreSlow THEN Append(Tail(wq), RunSlow) ELSE Tail(wq)
        /\ pc' \in IF MoreSlow THEN SignalIfIdle(q) ELSE {q}
        /\ slow_io_work_running' = slow_io_work_running + 1
    BY <1>10 DEF TakeSlowWork
  <2>3. q \in [Threads -> WorkerPlaces] /\ q = [pc EXCEPT ![t] = "run"]
    BY <1>a DEF WorkerPlaces
  <2>4. Tail(wq) \in Seq(QueueNodes) /\ Len(Tail(wq)) = Len(wq) - 1
    BY <1>10, <1>a, QueueReady, HeadTailProperties DEF TakeSlowWork
  <2>5. Due = Len(wq)
    BY <1>a, <2>2 DEF Due
  <2> HIDE DEF q
  <2>6. CASE MoreSlow
    <3>1. Len(wq') = Len(wq)
      BY <1>a, <2>2, <2>4, <2>6, RunSlow \in QueueNodes, AppendProperties DEF QueueNodes
    <3>2. q[v] = "parked" /\ pc[v] = "parked"
      <4>1. pc' \in SignalIfIdle(q)
        BY <2>2, <2>6
      <4>2. q[v] = "parked"
        BY <2>1, <2>3, <4>1, SignalEffect
      <4> QED BY <1>a, <2>3, <4>2
    <3>3. PICK u \in Threads : q[u] = "parked" /\ pc' = [q EXCEPT ![u] = "woken"]
      BY <1>a, <2>2, <2>3, <2>6, <3>2, ParkedIsIdle, SignalWakes DEF SignalIfIdle
    <3>4. u \notin Awake /\ (Awake \ {t}) \cup {u} \subseteq Awake'
      BY <1>a, <2>2, <2>3, <3>3 DEF Awake
    <3>5. Due' \in Int /\ Due' <= Due
      BY <1>a, <2>5, <3>1 DEF Due
    <3> QED BY <1>a, <3>2, <3>4, <3>5, AwakeCount DEF EnoughAwake
  <2>7. CASE ~MoreSlow
    <3>0. Len(wq') = Len(wq) - 1
      BY <2>2, <2>4, <2>7
    <3>1. Due' \in Int /\ Due' <= Due - 1
      BY <1>a, <2>5, <3>0 DEF Due
    <3>2. pc[v] = "parked" /\ Awake \ {t} \subseteq Awake'
      BY <1>a, <2>1, <2>2, <2>3, <2>7 DEF Awake
    <3> QED BY <1>a, <3>1, <3>2, AwakeCount DEF EnoughAwake
  <2> QED BY <2>6, <2>7
<1>11. ASSUME NEW t \in Threads, RunWork(t) PROVE EnoughAwake'
  <2>1. Due' = Due
    BY <1>11, <1>a DEF RunWork
  <2>2. Awake \subseteq Awake' /\ \A u \in Threads : pc'[u] = "parked" => pc[u] = "parked"
    BY <1>11, <1>a DEF RunWork, Awake
  <2> QED BY <1>a, <2>1, <2>2, StillEnough
<1>12. ASSUME NEW t \in Threads, Publish(t) PROVE EnoughAwake'
  <2>1. Due' = Due
    BY <1>12, <1>a DEF Publish
  <2>2. Awake \subseteq Awake' /\ \A u \in Threads : pc'[u] = "parked" => pc[u] = "parked"
    BY <1>12, <1>a DEF Publish, Awake
  <2> QED BY <1>a, <2>1, <2>2, StillEnough
<1>13. ASSUME NEW t \in Threads, Send(t) PROVE EnoughAwake'
  <2>1. Due' = Due
    BY <1>13, <1>a DEF Send
  <2>2. Awake \subseteq Awake' /\ \A u \in Threads : pc'[u] = "parked" => pc[u] = "parked"
    BY <1>13, <1>a DEF Send, Awake
  <2> QED BY <1>a, <2>1, <2>2, StillEnough
<1>14. ASSUME NEW l \in Loops, NEW w \in Work, QueueWork(l, w) PROVE EnoughAwake'
  <2>1. Due' = Due
    BY <1>14, <1>a DEF QueueWork
  <2>2. Awake \subseteq Awake' /\ \A u \in Threads : pc'[u] = "parked" => pc[u] = "parked"
    BY <1>14, <1>a DEF QueueWork, Awake
  <2> QED BY <1>a, <2>1, <2>2, StillEnough
<1>15. ASSUME NEW l \in Loops, NEW w \in Work, CancelLock(l, w) PROVE EnoughAwake'
  <2>1. Due' = Due
    BY <1>15, <1>a DEF CancelLock
  <2>2. Awake \subseteq Awake' /\ \A u \in Threads : pc'[u] = "parked" => pc[u] = "parked"
    BY <1>15, <1>a DEF CancelLock, Awake
  <2> QED BY <1>a, <2>1, <2>2, StillEnough
<1>16. ASSUME NEW l \in Loops, OnceBegin(l) PROVE EnoughAwake'
  BY <1>16 DEF OnceBegin, EnoughAwake
<1>17. ASSUME NEW l \in Loops, OnceEnd(l) PROVE EnoughAwake'
  <2>1. Due' = Due
    BY <1>17, <1>a DEF OnceEnd
  <2>2. Awake \subseteq Awake' /\ \A u \in Threads : pc'[u] = "parked" => pc[u] = "parked"
    BY <1>17, <1>a DEF OnceEnd, Awake
  <2> QED BY <1>a, <2>1, <2>2, StillEnough
<1>18. ASSUME NEW l \in Loops, Post(l) PROVE EnoughAwake'
  <2> DEFINE node == IF arg[l] \in SlowWork THEN RunSlow ELSE arg[l]
  <2>1. UNCHANGED <<is_slow_work, slow_io_work_running>>
    BY <1>18 DEF Post
  <2>2. node \in QueueNodes
    BY <1>18 DEF Post, IndInv, Locals, QueueNodes
  <2>3. UNCHANGED <<wq, pc>> \/ (wq' = Append(wq, node) /\ pc' \in SignalIfIdle(pc))
    BY <1>18 DEF Post
  <2> HIDE DEF node
  <2>4. CASE UNCHANGED <<wq, pc>>
    BY <1>a, <2>1, <2>4 DEF EnoughAwake, Awake
  <2> QED BY <1>a, <2>1, <2>2, <2>3, <2>4, PostEnough
<1>19. ASSUME NEW l \in Loops, CancelDecide(l) PROVE EnoughAwake'
  <2>1. UNCHANGED <<pc, is_slow_work, slow_io_work_running>>
    BY <1>19 DEF CancelDecide
  <2>2. Due' \in Int /\ Due' <= Due
    <3>1. CASE ~Cancellable(arg[l])
      BY <1>19, <1>a, <3>1 DEF CancelDecide
    <3>2. CASE Cancellable(arg[l])
      <4>1. Less(wq, wq', arg[l]) /\ arg[l] # RunSlow
        BY <1>19, <3>2, CancelQueue, NodesAssumption DEF IndInv, Locals, CancelDecide
      <4>2. wq' = Unlink(wq, arg[l])
        BY <1>19, <3>2 DEF CancelDecide
      <4>3. Len(wq') = Len(wq) - 1 \/ wq' = wq
        BY <1>a, <4>2, UnlinkElements DEF Unlink
      <4> QED BY <1>a, <2>1, <4>1, <4>3 DEF Due, AtSlowThreshold, Less
    <3> QED BY <3>1, <3>2
  <2>3. Awake \subseteq Awake'
    BY <2>1 DEF Awake
  <2> QED BY <1>a, <2>1, <2>2, <2>3, StillEnough
<1>20. ASSUME NEW l \in Loops, CancelMark(l) PROVE EnoughAwake'
  <2>1. Due' = Due
    BY <1>20, <1>a DEF CancelMark
  <2>2. Awake \subseteq Awake' /\ \A u \in Threads : pc'[u] = "parked" => pc[u] = "parked"
    BY <1>20, <1>a DEF CancelMark, Awake
  <2> QED BY <1>a, <2>1, <2>2, StillEnough
<1>21. ASSUME NEW l \in Loops, CancelRequeue(l) PROVE EnoughAwake'
  <2>1. Due' = Due
    BY <1>21, <1>a DEF CancelRequeue
  <2>2. Awake \subseteq Awake' /\ \A u \in Threads : pc'[u] = "parked" => pc[u] = "parked"
    BY <1>21, <1>a DEF CancelRequeue, Awake
  <2> QED BY <1>a, <2>1, <2>2, StillEnough
<1>22. ASSUME NEW l \in Loops, AsyncIo(l) PROVE EnoughAwake'
  <2>1. Due' = Due
    BY <1>22, <1>a DEF AsyncIo
  <2>2. Awake \subseteq Awake' /\ \A u \in Threads : pc'[u] = "parked" => pc[u] = "parked"
    BY <1>22, <1>a DEF AsyncIo, Awake
  <2> QED BY <1>a, <2>1, <2>2, StillEnough
<1>23. ASSUME NEW l \in Loops, WorkDone(l) PROVE EnoughAwake'
  <2>1. Due' = Due
    BY <1>23, <1>a DEF WorkDone
  <2>2. Awake \subseteq Awake' /\ \A u \in Threads : pc'[u] = "parked" => pc[u] = "parked"
    BY <1>23, <1>a DEF WorkDone, Awake
  <2> QED BY <1>a, <2>1, <2>2, StillEnough
<1>24. ASSUME NEW l \in Loops, Callback(l) PROVE EnoughAwake'
  <2>1. Due' = Due
    BY <1>24, <1>a DEF Callback
  <2>2. Awake \subseteq Awake' /\ \A u \in Threads : pc'[u] = "parked" => pc[u] = "parked"
    BY <1>24, <1>a DEF Callback, Awake
  <2> QED BY <1>a, <2>1, <2>2, StillEnough
<1>25. ASSUME NEW l \in Loops, LoopClose(l) PROVE EnoughAwake'
  <2>1. Due' = Due
    BY <1>25, <1>a DEF LoopClose
  <2>2. Awake \subseteq Awake' /\ \A u \in Threads : pc'[u] = "parked" => pc[u] = "parked"
    BY <1>25, <1>a DEF LoopClose, Awake
  <2> QED BY <1>a, <2>1, <2>2, StillEnough
<1>26. CASE CleanupPost
  <2>1. UNCHANGED <<is_slow_work, slow_io_work_running>>
    BY <1>26 DEF CleanupPost
  <2>2. UNCHANGED <<wq, pc>> \/ (wq' = Append(wq, ExitMsg) /\ pc' \in SignalIfIdle(pc))
    BY <1>26 DEF CleanupPost, ExitLast
  <2>3. CASE UNCHANGED <<wq, pc>>
    BY <1>a, <2>1, <2>3 DEF EnoughAwake, Awake
  <2> QED BY <1>a, <2>1, <2>2, <2>3, ExitMsg \in QueueNodes, PostEnough DEF QueueNodes
<1>27. CASE CleanupJoin
  <2>1. Due' = Due
    BY <1>27, <1>a DEF CleanupJoin
  <2>2. Awake \subseteq Awake' /\ \A u \in Threads : pc'[u] = "parked" => pc[u] = "parked"
    BY <1>27, <1>a DEF CleanupJoin, Awake
  <2> QED BY <1>a, <2>1, <2>2, StillEnough
<1>28. CASE UNCHANGED vars
  BY <1>28 DEF vars, EnoughAwake, Awake, Due, AtSlowThreshold
<1> QED
  BY <1>1, <1>2, <1>3, <1>4, <1>5, <1>6, <1>7, <1>8, <1>9, <1>10,
     <1>11, <1>12, <1>13, <1>14, <1>15, <1>16, <1>17, <1>18, <1>19,
     <1>20, <1>21, <1>22, <1>23, <1>24, <1>25, <1>26, <1>27, <1>28
     DEF Next, Worker, LoopThread, Cleanup, Finished

-----------------------------------------------------------------------------
(* The invariant.                                                           *)

ReqInv == Sorted /\ Tracked /\ Stages /\ LoopsSafe /\ SlowScheduled /\ EnoughAwake

\* It holds when the library is loaded.
LEMMA ReqInit == Init => ReqInv
<1> SUFFICES ASSUME Init PROVE ReqInv
  OBVIOUS
<1>1. /\ wq = << >> /\ slow_io_pending_wq = << >>
      /\ \A l \in Loops : /\ loop_wq[l] = << >> /\ done_wq[l] = << >> /\ arg[l] = None
                          /\ lpc[l] = "run" /\ open[l]
      /\ \A t \in Threads : pc[t] = "absent" /\ cur[t] = None /\ ~is_slow_work[t]
      /\ active = {} /\ self_linked = {} /\ cancelOK = {} /\ started = {}
      /\ \A w \in Work : ran[w] = 0
      /\ phase = "up" /\ once = "init"
  BY DEF Init
<1>2. Distinct(<< >>) /\ \A n : ~Linked(<< >>, n)
  BY DEF Distinct, Linked
<1>3. Sorted
  BY <1>1, <1>2, NamesAssumption DEF Sorted, InWq, InSlow
<1>4. ASSUME NEW w \in Work PROVE Kept(w)
  <2>1. LoopOf[w] \in Loops
    BY WorkAssumption
  <2>2. ~Waits(w) /\ ~Completed(w) /\ ~Held(w) /\ ~InCall(w) /\ ~Cancelling(w)
    BY <1>1, <1>2, <2>1 DEF Waits, InWq, InSlow, Completed, InLoopWq, InDoneWq, Held, HeldBy,
         RunBy, PublishBy, InCall, Submitting, Marking, Requeueing, Cancelling
  <2>3. AtMostOnce(w) /\ Registered(w) /\ Fields(w)
    BY <1>1, <2>2 DEF AtMostOnce, Registered, Fields, Fresh, Waits, Completed, Held, HeldBy,
         InCall
  <2> QED BY <2>3 DEF Kept
<1>5. Stages
  BY <1>1, <1>2 DEF Stages, Startup, Shutdown, CleanupDrains
<1>6. LoopsSafe
  BY <1>1 DEF LoopsSafe, SendLocks, ClosedIsUnused, Delivered
<1>7. SlowScheduled /\ EnoughAwake
  BY <1>1 DEF SlowScheduled, EnoughAwake
<1> QED BY <1>3, <1>4, <1>5, <1>6, <1>7 DEF ReqInv, Tracked

\* IndInv and ReqInv together are inductive.
LEMMA ReqInvariance == Spec => [](IndInv /\ ReqInv)
<1>1. Init => IndInv /\ ReqInv
  BY InitInv, ReqInit
<1>2. ASSUME IndInv, ReqInv, [Next]_vars PROVE ReqInv'
  <2>1. Sorted /\ Tracked /\ Shutdown /\ Stages /\ LoopsSafe /\ SlowScheduled /\ EnoughAwake
    BY <1>2 DEF ReqInv, Stages
  <2> QED BY <1>2, <2>1, SortedStep, TrackedStep, StagesStep, LoopsStep, ScheduledStep,
       AwakeStep
          DEF ReqInv
<1>3. IndInv /\ [Next]_vars => IndInv'
  BY TypeStep, LocalsStep, LocksStep, IdleStep, SlowStep DEF IndInv
<1> QED BY <1>1, <1>2, <1>3, PTL DEF Spec

-----------------------------------------------------------------------------
(* What the invariant means for the requests.                               *)

\* A set with at most one member has its size.
LEMMA OneOrNone ==
  ASSUME NEW S, \A x, y \in S : x = y
  PROVE  Cardinality(S) = IF S = {} THEN 0 ELSE 1
<1>1. CASE S = {}
  BY <1>1, FS_EmptySet
<1>2. CASE S # {}
  <2>1. PICK x \in S : TRUE
    BY <1>2
  <2>2. S = {x}
    BY <2>1
  <2> QED BY <2>2, FS_Singleton
<1> QED BY <1>1, <1>2

\* Counting the places of a request counts where it is.
LEMMA PlacesCounted ==
  ASSUME Sorted, NEW w \in Work, Kept(w), \A l \in Loops : arg[l] = w => LoopOf[w] = l
  PROVE  Places(w) = IF w \in active THEN 1 ELSE 0
<1>0. LoopOf[w] \in Loops
  BY WorkAssumption
<1>1. /\ Occurrences(wq, w) = IF InWq(w) THEN 1 ELSE 0
      /\ Occurrences(slow_io_pending_wq, w) = IF InSlow(w) THEN 1 ELSE 0
      /\ Occurrences(loop_wq[LoopOf[w]], w) = IF InLoopWq(w) THEN 1 ELSE 0
      /\ Occurrences(done_wq[LoopOf[w]], w) = IF InDoneWq(w) THEN 1 ELSE 0
  BY <1>0, OccursOnce DEF Sorted, InWq, InSlow, InLoopWq, InDoneWq
<1> DEFINE T == {t \in Threads : cur[t] = w /\ pc[t] \in {"run", "publish"}}
           L == {l \in Loops : arg[l] = w /\ lpc[l] \in {"once", "init", "mark", "requeue"}}
<1>2. Cardinality(T) = IF Held(w) THEN 1 ELSE 0
  <2>1. \A t \in Threads : t \in T <=> HeldBy(t, w)
    BY DEF HeldBy, RunBy, PublishBy
  <2>2. (\A t, u \in T : t = u) /\ (T = {} <=> ~Held(w))
    BY <2>1 DEF Kept, AtMostOnce, Held
  <2> HIDE DEF T
  <2> QED BY <2>2, OneOrNone
<1>3. Cardinality(L) = IF InCall(w) THEN 1 ELSE 0
  <2>1. (\A k, l \in L : k = l) /\ (L = {} <=> ~InCall(w))
    BY <1>0 DEF InCall, Submitting, Marking, Requeueing
  <2> HIDE DEF L
  <2> QED BY <2>1, OneOrNone
<1>4. Places(w) = (IF InWq(w) THEN 1 ELSE 0) + (IF InSlow(w) THEN 1 ELSE 0)
                  + (IF InLoopWq(w) THEN 1 ELSE 0) + (IF InDoneWq(w) THEN 1 ELSE 0)
                  + (IF Held(w) THEN 1 ELSE 0) + (IF InCall(w) THEN 1 ELSE 0)
  <2> HIDE DEF T, L
  <2> QED BY <1>1, <1>2, <1>3 DEF Places, T, L
<1>5. /\ w \in active <=> InWq(w) \/ InSlow(w) \/ InLoopWq(w) \/ InDoneWq(w) \/ Held(w) \/ InCall(w)
      /\ InWq(w) => ~InSlow(w) /\ ~InLoopWq(w) /\ ~InDoneWq(w) /\ ~Held(w) /\ ~InCall(w)
      /\ InSlow(w) => ~InLoopWq(w) /\ ~InDoneWq(w) /\ ~Held(w) /\ ~InCall(w)
      /\ InLoopWq(w) => ~InDoneWq(w) /\ ~Held(w) /\ ~InCall(w)
      /\ InDoneWq(w) => ~Held(w) /\ ~InCall(w)
      /\ Held(w) => ~InCall(w)
  BY DEF Kept, AtMostOnce, Registered, Waits, Completed
<1> QED BY <1>4, <1>5

\* For all threads, loops and requests: a registered request is in exactly one place,
\* nothing is used that was given back, and the cleanup of the library leaves no work.
THEOREM RequestsAreSafe == Spec => []RequestsSafe
<1>1. ASSUME IndInv, ReqInv PROVE RequestsSafe
  <2>0. /\ TypeOK /\ Locals /\ Sorted /\ Tracked /\ Startup /\ CleanupDrains
        /\ SendLocks /\ ClosedIsUnused
    BY <1>1 DEF IndInv, ReqInv, Stages, LoopsSafe
  <2>1. OnePlace
    <3>1. ASSUME NEW w \in Work PROVE Places(w) = IF w \in active THEN 1 ELSE 0
      <4>1. Kept(w) /\ \A l \in Loops : arg[l] = w => LoopOf[w] = l
        BY <2>0 DEF Tracked, Sorted
      <4> QED BY <2>0, <4>1, PlacesCounted
    <3>2. Occurrences(wq, RunSlow) <= 1
      BY <2>0, OccursOnce DEF Sorted
    <3> QED BY <3>1, <3>2 DEF OnePlace
  <2>2. ASSUME NEW l \in Loops, ~open[l]
        PROVE  /\ loop_wq[l] = <<>> /\ done_wq[l] = <<>> /\ wq_mutex[l] = None
               /\ \A t \in Threads : pc[t] \in {"run", "publish", "send"} => LoopOf[cur[t]] # l
    <3>1. wq_mutex[l] = None /\ \A w \in active : LoopOf[w] # l
      BY <2>0, <2>2 DEF ClosedIsUnused
    <3>2. \A t \in Threads : pc[t] = "send" => LoopOf[cur[t]] # l
      BY <2>0, <3>1, NamesAssumption DEF SendLocks
    <3> QED BY <2>0, <3>1, <3>2, NothingLeft
  <2>3. NoUseAfterFree
    BY <2>0, <2>2 DEF NoUseAfterFree, Startup
  <2> QED BY <2>0, <2>1, <2>3 DEF RequestsSafe
<1> QED BY ReqInvariance, <1>1, PTL

\* A node of the queue that may be taken is due.
LEMMA SomethingDue ==
  ASSUME TypeOK, ~MustWait
  PROVE  Due >= 1
<1>1. wq \in Seq(QueueNodes) /\ Len(wq) \in Nat /\ Len(wq) # 0
  BY QueueReady, LenProperties, EmptySeq DEF TypeOK
<1>2. CASE Linked(wq, RunSlow) /\ AtSlowThreshold
  <2>1. Len(wq) # 1
    <3> SUFFICES ASSUME Len(wq) = 1 PROVE FALSE
      OBVIOUS
    <3>1. wq[1] = RunSlow
      BY <1>2 DEF Linked
    <3>2. <<RunSlow>> \in Seq(QueueNodes) /\ Len(<<RunSlow>>) = 1 /\ <<RunSlow>>[1] = RunSlow
      BY DEF QueueNodes
    <3>3. \A i \in 1..Len(wq) : wq[i] = <<RunSlow>>[i]
      BY <3>1, <3>2
    <3>4. wq = <<RunSlow>>
      BY <1>1, <3>2, <3>3, SeqEqual
    <3> QED BY <1>2, <3>4 DEF MustWait
  <2>2. Due = Len(wq) - 1
    BY <1>2 DEF Due
  <2> QED BY <1>1, <2>1, <2>2
<1>3. CASE ~(Linked(wq, RunSlow) /\ AtSlowThreshold)
  BY <1>1, <1>3 DEF Due
<1> QED BY <1>2, <1>3

\* For all threads, loops and requests: no wakeup of a worker or of a loop is lost,
\* though posters signal one worker, and only if idle_threads is positive.
THEOREM NobodyWaitsInVain == Spec => []NothingWaitsInVain
<1>1. ASSUME IndInv, ReqInv PROVE NothingWaitsInVain
  <2>1. TypeOK /\ SlowScheduled /\ Delivered /\ EnoughAwake
    BY <1>1 DEF IndInv, ReqInv, LoopsSafe
  <2>2. ASSUME ~MustWait, NEW v \in Threads, pc[v] = "parked"
        PROVE  \E t \in Threads : pc[t] \in {"lock", "woken", "scan"}
    <3>1. Cardinality(Awake) >= 1
      BY <2>1, <2>2, SomethingDue, AwakeCount, DueType DEF EnoughAwake
    <3>2. Awake # {}
      BY <3>1, FS_EmptySet
    <3> QED BY <3>2 DEF Awake
  <2> QED BY <2>1, <2>2 DEF NothingWaitsInVain, NoLostWakeup, Delivered
<1> QED BY ReqInvariance, <1>1, PTL

-----------------------------------------------------------------------------
(* What the user is told.                                                   *)

\* Whoever has its callback called has run or was cancelled, and was queued for it.
LEMMA Told ==
  ASSUME TypeOK, Sorted, Tracked, NEW l \in Loops, Callback(l)
  PROVE  LET v == Head(done_wq[l])
         IN  /\ v \in Work /\ v \in active /\ ~Held(v)
             /\ \/ Status(v) = "ok" /\ ran[v] = 1 /\ v \notin cancelOK
                \/ Status(v) = "ECANCELED" /\ ran[v] = 0 /\ v \in cancelOK
<1> DEFINE v == Head(done_wq[l])
<1>1. v \in Work /\ Linked(done_wq[l], v)
  BY CallbackQueue
<1> HIDE DEF v
<1>2. Completed(v)
  BY <1>1 DEF Sorted, Completed, InDoneWq
<1>3. v \in active /\ ~Held(v) /\ Fields(v)
  BY <1>1, <1>2 DEF Tracked, Kept, AtMostOnce, Registered
<1> QED BY <1>1, <1>2, <1>3 DEF Fields, Cancelled, Status, v

\* Only the callback of a request unregisters it.
LEMMA OnlyCallbackEnds ==
  ASSUME TypeOK, Next, NEW w \in active, w \notin active'
  PROVE  \E l \in Loops : Callback(l) /\ w = Head(done_wq[l])
<1> SUFFICES ASSUME \A l \in Loops : Callback(l) => w # Head(done_wq[l]) PROVE FALSE
  OBVIOUS
<1> USE DEF reqVars
<1>1. ASSUME NEW t \in Threads, Worker(t) PROVE FALSE
  BY <1>1 DEF Worker, WorkerStart, WorkerLock, WorkerPark, SpuriousWakeup, WorkerWake,
       WorkerExit,
       TakeWork, RescheduleSlow, DropSlowMessage, TakeSlowWork, RunWork, Publish, Send
<1>2. ASSUME NEW l \in Loops, LoopThread(l) PROVE FALSE
  BY <1>2 DEF LoopThread, QueueWork, CancelLock, OnceBegin, OnceEnd, Post, CancelDecide,
       CancelMark, CancelRequeue, AsyncIo, WorkDone, Callback, LoopClose
<1>3. Cleanup \/ Finished => FALSE
  BY DEF Cleanup, CleanupPost, CleanupJoin, Finished, vars
<1> QED BY <1>1, <1>2, <1>3 DEF Next

\* For all threads, loops and requests: the status of a callback is what happened to
\* the request.
THEOREM CallbacksTellTruth == Spec => CallbackTellsTruth
<1> DEFINE Truth == \A w \in active \ active' :
       \/ Status(w) = "ok" /\ ran[w] = 1 /\ w \notin cancelOK
       \/ Status(w) = "ECANCELED" /\ ran[w] = 0 /\ w \in cancelOK
<1>1. ASSUME IndInv, ReqInv, [Next]_vars PROVE [Truth]_vars
  <2> SUFFICES ASSUME Next PROVE Truth
    BY <1>1
  <2> SUFFICES ASSUME NEW w \in active, w \notin active'
               PROVE  \/ Status(w) = "ok" /\ ran[w] = 1 /\ w \notin cancelOK
                      \/ Status(w) = "ECANCELED" /\ ran[w] = 0 /\ w \in cancelOK
    OBVIOUS
  <2>1. TypeOK /\ Sorted /\ Tracked
    BY <1>1 DEF IndInv, ReqInv
  <2>2. PICK l \in Loops : Callback(l) /\ w = Head(done_wq[l])
    BY <2>1, OnlyCallbackEnds
  <2> QED BY <2>1, <2>2, Told
<1> HIDE DEF Truth
<1>2. Spec => [][Truth]_vars
  BY ReqInvariance, <1>1, PTL DEF Spec
<1> QED BY <1>2 DEF CallbackTellsTruth, Truth

-----------------------------------------------------------------------------
(* The refinement of the work service.                                      *)

\* What a request's state in the service depends on.
SameState(w) ==
  /\ (w \in active') <=> (w \in active)
  /\ (\E t \in Threads : RunBy(t, w))' <=> \E t \in Threads : RunBy(t, w)
  /\ ran'[w] = ran[w]
  /\ (w \in cancelOK') <=> (w \in cancelOK)

\* A request it leaves alone keeps its state ...
LEMMA StateKept ==
  ASSUME NEW w \in Work, SameState(w)
  PROVE  ServiceState'[w] = ServiceState[w]
BY DEF SameState, ServiceState, RunBy

\* ... so a step that leaves all of them alone is a stuttering step of the service ...
LEMMA Stutters ==
  ASSUME \A w \in Work : SameState(w)
  PROVE  UNCHANGED ServiceState
<1>1. \A w \in Work : ServiceState'[w] = ServiceState[w]
  BY StateKept
<1> QED BY <1>1 DEF ServiceState

\* ... and one that leaves all but one of them alone moves that one.
LEMMA Moves ==
  ASSUME NEW w \in Work, NEW to, \A v \in Work : v = w \/ SameState(v), ServiceState'[w] = to
  PROVE  Service!Move(w, ServiceState[w], to)
<1>1. \A v \in Work : ServiceState'[v] = IF v = w THEN to ELSE ServiceState[v]
  BY StateKept
<1>2. ServiceState' = [ServiceState EXCEPT ![w] = to]
  BY <1>1 DEF ServiceState
<1> QED BY <1>2 DEF Service!Move

\* A step of which the service sees nothing: no worker comes to w->work or leaves it.
Quiet ==
  /\ UNCHANGED <<active, ran, cancelOK>>
  /\ \A t \in Threads : /\ pc'[t] = "run" <=> pc[t] = "run"
                        /\ pc[t] = "run" => cur'[t] = cur[t]

\* Such a step is a stuttering step of the service.
LEMMA QuietStutters ==
  ASSUME Quiet
  PROVE  UNCHANGED ServiceState
<1>1. \A w \in Work : SameState(w)
  BY DEF Quiet, SameState, RunBy
<1> QED BY <1>1, Stutters

\* The state of a request that waits in a queue.
LEMMA WaitsQueued ==
  ASSUME NEW w \in Work, Kept(w), Waits(w)
  PROVE  ServiceState[w] = "queued" /\ w \in active
<1>1. w \in active /\ ran[w] = 0 /\ w \notin cancelOK /\ ~Held(w)
  BY DEF Kept, Registered, Fields, Fresh, AtMostOnce
<1>2. ~\E t \in Threads : cur[t] = w /\ pc[t] = "run"
  BY <1>1 DEF Held, HeldBy, RunBy
<1> QED BY <1>1, <1>2 DEF ServiceState

\* The requests that run, by the workers that run them.
LEMMA RunnersCounted ==
  ASSUME NEW U \in SUBSET Threads, NEW R \in SUBSET Work,
         \A w \in R : \E u \in U : RunBy(u, w)
  PROVE  Cardinality(R) <= Cardinality(U) /\ Cardinality(R) \in Nat /\ Cardinality(U) \in Nat
<1> DEFINE f == [w \in R |-> CHOOSE u \in U : RunBy(u, w)]
<1>1. \A w \in R : f[w] \in U /\ RunBy(f[w], w)
  OBVIOUS
<1>2. f \in [R -> U]
  BY <1>1
<1>3. \A v, w \in R : f[v] = f[w] => v = w
  BY <1>1 DEF RunBy
<1> HIDE DEF f
<1>4. f \in Injection(R, U)
  BY <1>2, <1>3, Fun_IsInj
<1>5. IsFiniteSet(U)
  BY FS_Subset, ThreadsAssumption
<1> QED BY <1>4, <1>5, FS_Injection, FS_CardinalityType

\* The service counts as the pool does.
LEMMA SameCardinality == \A S : Service!Cardinality(S) = Cardinality(S)
BY DEF Service!Cardinality, Service!IsFiniteSet, Cardinality, IsFiniteSet

\* A worker that takes a request at the head of a queue starts it.
LEMMA TakeStarts ==
  ASSUME IndInv, Sorted, Tracked, NEW t \in Threads, NEW w \in Work, pc[t] = "scan", Waits(w),
         MovesTo(t, "run"), cur' = [cur EXCEPT ![t] = w], UNCHANGED <<active, ran, cancelOK>>,
         w \in SlowWork => ~AtSlowThreshold
  PROVE  Service!Start(w)
<1>1. ServiceState[w] = "queued" /\ w \in active
  BY WaitsQueued DEF Tracked
<1>2. RunBy(t, w)' /\ \A u \in Threads : u = t \/ \A v : RunBy(u, v)' <=> RunBy(u, v)
  BY DEF RunBy, MovesTo, IndInv, TypeOK
<1>3. ServiceState'[w] = "running"
  BY <1>1, <1>2 DEF ServiceState, RunBy
<1>4. ASSUME NEW v \in Work, v # w PROVE SameState(v)
  BY <1>2, <1>4 DEF SameState, RunBy
<1>5. Service!Move(w, "queued", "running")
  BY <1>1, <1>3, <1>4, Moves
<1> DEFINE R == {v \in Work : ServiceState[v] = "running"}
<1>6. \A v \in R : \E u \in Threads : RunBy(u, v)
  BY DEF ServiceState, RunBy
<1>7. Cardinality(R) < NThreads
  <2>1. \A v \in R : \E u \in Threads \ {t} : RunBy(u, v)
    BY <1>6 DEF RunBy
  <2> HIDE DEF R
  <2>2. Cardinality(R) <= Cardinality(Threads \ {t}) /\ Cardinality(R) \in Nat
    BY <2>1, RunnersCounted DEF R
  <2>3. Cardinality(Threads \ {t}) = Cardinality(Threads) - 1 /\ Cardinality(Threads) \in Nat
    BY ThreadsAssumption, FS_RemoveElement, FS_CardinalityType
  <2> QED BY <2>2, <2>3 DEF NThreads
<1>8. ASSUME w \in SlowWork
      PROVE  Cardinality(R \cap SlowWork) < slow_work_thread_threshold
  <2> DEFINE U == {u \in Threads : is_slow_work[u]}
  <2>1. \A v \in R \cap SlowWork : \E u \in U : RunBy(u, v)
    BY <1>6 DEF RunBy, Sorted
  <2>2. R \cap SlowWork \in SUBSET Work /\ U \in SUBSET Threads
    OBVIOUS
  <2> HIDE DEF R, U
  <2>3. /\ Cardinality(R \cap SlowWork) <= Cardinality(U)
        /\ Cardinality(R \cap SlowWork) \in Nat /\ Cardinality(U) \in Nat
    BY <2>1, <2>2, RunnersCounted
  <2>4. Cardinality(U) = slow_io_work_running
    BY DEF IndInv, SlowBound, U
  <2>5. ~(slow_io_work_running >= slow_work_thread_threshold)
    BY <1>8 DEF AtSlowThreshold
  <2> QED BY <2>3, <2>4, <2>5, ThresholdType
<1> HIDE DEF R
<1>9. Service!Running = R
  BY DEF Service!Running, R
<1> QED BY <1>5, <1>7, <1>8, <1>9, SameCardinality DEF Service!Start

\* The steps of a worker of which the service sees nothing.
LEMMA WorkerQuiet ==
  ASSUME IndInv, NEW t \in Threads,
         \/ WorkerStart(t) \/ WorkerLock(t) \/ WorkerPark(t) \/ SpuriousWakeup(t) \/ WorkerWake(t)
         \/ WorkerExit(t) \/ RescheduleSlow(t) \/ DropSlowMessage(t) \/ Publish(t) \/ Send(t)
  PROVE  Quiet
<1> USE DEF poolVars, workerVars, loopVars, reqVars, Quiet
<1>1. pc \in [Threads -> WorkerPlaces] /\ cur \in [Threads -> Work \cup {None}]
  BY DEF IndInv, TypeOK
<1>2. CASE WorkerStart(t)
  BY <1>1, <1>2 DEF WorkerStart
<1>3. CASE WorkerLock(t) \/ WorkerPark(t) \/ SpuriousWakeup(t) \/ WorkerWake(t)
  BY <1>1, <1>3 DEF WorkerLock, WorkerPark, SpuriousWakeup, WorkerWake
<1>4. CASE WorkerExit(t)
  BY <1>4, ExitWakes DEF WorkerExit, MovesTo, IndInv
<1>5. CASE RescheduleSlow(t) \/ DropSlowMessage(t)
  BY <1>5 DEF RescheduleSlow, DropSlowMessage
<1>6. CASE Publish(t)
  BY <1>1, <1>6 DEF Publish
<1>7. CASE Send(t)
  BY <1>1, <1>7 DEF Send
<1> QED BY <1>2, <1>3, <1>4, <1>5, <1>6, <1>7

\* The steps of the loops and of the cleanup of which it sees nothing.
LEMMA LoopQuiet ==
  ASSUME IndInv, NEW l \in Loops,
         \/ OnceBegin(l) \/ OnceEnd(l) \/ Post(l) \/ (\E w \in Work : CancelLock(l, w))
         \/ CancelDecide(l) \/ CancelMark(l) \/ AsyncIo(l) \/ WorkDone(l) \/ LoopClose(l)
  PROVE  Quiet
<1> USE DEF poolVars, workerVars, loopVars, reqVars, Quiet
<1>1. CASE OnceBegin(l)
  BY <1>1 DEF OnceBegin, IndInv, Locals
<1>2. CASE Post(l)
  BY <1>2, PostWakes DEF Post, WakesOne, IndInv
<1>3. CASE OnceEnd(l) \/ (\E w \in Work : CancelLock(l, w)) \/ CancelDecide(l) \/ CancelMark(l)
  BY <1>3 DEF OnceEnd, CancelLock, CancelDecide, CancelMark
<1>4. CASE AsyncIo(l) \/ WorkDone(l) \/ LoopClose(l)
  BY <1>4 DEF AsyncIo, WorkDone, LoopClose
<1> QED BY <1>1, <1>2, <1>3, <1>4

\* Nor does it see the cleanup of the library.
LEMMA CleanupQuiet ==
  ASSUME IndInv, Cleanup \/ UNCHANGED vars
  PROVE  Quiet
<1> USE DEF poolVars, workerVars, loopVars, reqVars, Quiet
<1>1. CASE CleanupPost
  <2>1. pc' = pc \/ pc' \in SignalIfIdle(pc)
    BY <1>1 DEF CleanupPost
  <2>2. pc \in [Threads -> WorkerPlaces]
    BY DEF IndInv, TypeOK
  <2>3. \A t \in Threads : pc'[t] = pc[t] \/ (pc[t] = "parked" /\ pc'[t] = "woken")
    BY <2>1, <2>2, SignalEffect
  <2> QED BY <1>1, <2>3 DEF CleanupPost
<1>2. CASE CleanupJoin \/ UNCHANGED vars
  BY <1>2 DEF CleanupJoin, vars
<1> QED BY <1>1, <1>2 DEF Cleanup

\* The steps that the service sees, each as one step of its own.
LEMMA SubmitStep ==
  ASSUME IndInv, Tracked, NEW l \in Loops, NEW w \in Work, QueueWork(l, w)
  PROVE  Service!Submit(w)
<1> USE DEF poolVars, workerVars, loopVars, reqVars
<1>1. w \notin active /\ active' = active \cup {w} /\ UNCHANGED <<pc, cur, ran, cancelOK>>
  BY DEF QueueWork
<1>2. ran[w] = 0 /\ w \notin cancelOK /\ ~Held(w)
  BY <1>1 DEF Tracked, Kept, Fields, Fresh, Registered
<1>3. ServiceState[w] = "idle" /\ ServiceState'[w] = "queued"
  BY <1>1, <1>2 DEF ServiceState, Held, HeldBy, RunBy
<1>4. \A v \in Work : v = w \/ SameState(v)
  BY <1>1 DEF SameState, RunBy
<1> QED BY <1>3, <1>4, Moves DEF Service!Submit

\* A worker takes a request: the service starts it.
LEMMA StartStep ==
  ASSUME IndInv, Sorted, Tracked, NEW t \in Threads, TakeWork(t) \/ TakeSlowWork(t)
  PROVE  \E w \in Work : Service!Start(w)
<1> USE DEF poolVars, workerVars, loopVars, reqVars
<1>1. CASE TakeWork(t)
  <2>1. Head(wq) \in Work /\ InWq(Head(wq))
    BY <1>1, TakeWorkQueue DEF IndInv
  <2>2. Head(wq) \notin SlowWork /\ Waits(Head(wq))
    BY <2>1 DEF Sorted, Waits
  <2>3. MovesTo(t, "run")
    BY <1>1 DEF TakeWork, MovesTo, IndInv, TypeOK, WorkerPlaces
  <2> QED BY <1>1, <2>1, <2>2, <2>3, TakeStarts DEF TakeWork
<1>2. CASE TakeSlowWork(t)
  <2>1. Head(slow_io_pending_wq) \in Work /\ Waits(Head(slow_io_pending_wq))
    BY <1>2, TakeSlowQueue DEF IndInv, Waits
  <2>2. MovesTo(t, "run")
    BY <1>2, TakeSlowWakes DEF IndInv
  <2>3. /\ cur' = [cur EXCEPT ![t] = Head(slow_io_pending_wq)] /\ pc[t] = "scan"
        /\ ~AtSlowThreshold /\ UNCHANGED <<active, ran, cancelOK>>
    BY <1>2 DEF TakeSlowWork
  <2> QED BY <2>1, <2>2, <2>3, TakeStarts
<1> QED BY <1>1, <1>2

\* The work function returns: the service finishes the request.
LEMMA FinishStep ==
  ASSUME IndInv, Tracked, NEW t \in Threads, RunWork(t)
  PROVE  Service!Finish(cur[t])
<1> USE DEF poolVars, workerVars, loopVars, reqVars
<1> DEFINE w == cur[t]
<1>1. w \in Work /\ RunBy(t, w)
  BY DEF RunWork, IndInv, Locals, RunBy
<1>2. /\ w \in active /\ work[w] = "fn" /\ ran[w] = 0
      /\ \A u \in Threads : RunBy(u, w) => u = t
  <2> HIDE DEF w
  <2> QED BY <1>1 DEF Tracked, Kept, Fields, Fresh, Registered, Held, HeldBy, AtMostOnce
<1>3. /\ ran' = [ran EXCEPT ![w] = @ + 1] /\ pc' = [pc EXCEPT ![t] = "publish"]
      /\ UNCHANGED <<cur, active, cancelOK>>
  BY <1>2 DEF RunWork
<1>4. /\ pc \in [Threads -> WorkerPlaces] /\ ran \in [Work -> Nat]
  BY DEF IndInv, TypeOK
<1>5. \A u \in Threads : \A v : RunBy(u, v)' <=> RunBy(u, v) /\ v # w
  BY <1>2, <1>3, <1>4 DEF RunBy
<1>6. ServiceState[w] = "running"
  BY <1>1, <1>2 DEF ServiceState, RunBy
<1>7. ServiceState'[w] = "ran"
  <2>1. ran'[w] = 1 /\ w \in active' /\ ~\E u \in Threads : cur'[u] = w /\ pc'[u] = "run"
    BY <1>1, <1>2, <1>3, <1>4, <1>5 DEF RunBy
  <2> HIDE DEF w
  <2> QED BY <1>1, <2>1 DEF ServiceState
<1>8. ASSUME NEW v \in Work, v # w PROVE SameState(v)
  <2>1. ran'[v] = ran[v] /\ (w \in Work)
    BY <1>1, <1>3, <1>4, <1>8
  <2>2. (\E u \in Threads : RunBy(u, v))' <=> \E u \in Threads : RunBy(u, v)
    BY <1>5, <1>8
  <2> HIDE DEF w
  <2> QED BY <1>3, <2>1, <2>2 DEF SameState
<1> HIDE DEF w
<1>9. Service!Move(w, ServiceState[w], "ran")
  BY <1>1, <1>7, <1>8, Moves
<1> QED BY <1>6, <1>9 DEF Service!Finish, w

\* uv_cancel of a request that is cancelled already changes nothing for the service.
LEMMA CancelStep ==
  ASSUME IndInv, Sorted, Tracked, NEW l \in Loops, CancelRequeue(l)
  PROVE  (arg[l] \in Work /\ Service!Cancel(arg[l])) \/ UNCHANGED ServiceState
<1> USE DEF poolVars, workerVars, loopVars, reqVars
<1> DEFINE w == arg[l]
<1>1. w \in Work /\ lpc[l] = "requeue" /\ LoopOf[w] = l
  BY DEF CancelRequeue, IndInv, Locals, Sorted
<1>2. cancelOK' = cancelOK \cup {w} /\ UNCHANGED <<pc, cur, ran, active>>
  BY DEF CancelRequeue
<1> HIDE DEF w
<1>3. w \in active /\ ~Held(w) /\ ran[w] = 0
  <2>1. Requeueing(w)
    BY <1>1 DEF Requeueing, w
  <2> QED BY <1>1, <2>1 DEF Tracked, Kept, AtMostOnce, Registered, Fields, InCall
<1>4. ServiceState'[w] = "cancelled"
  BY <1>1, <1>2, <1>3 DEF ServiceState, Held, HeldBy, RunBy
<1>5. CASE w \in cancelOK
  <2>1. \A v \in Work : SameState(v)
    BY <1>2, <1>5 DEF SameState, RunBy
  <2> QED BY <2>1, Stutters
<1>6. CASE w \notin cancelOK
  <2>1. ServiceState[w] = "queued"
    BY <1>1, <1>3, <1>6 DEF ServiceState, Held, HeldBy, RunBy
  <2>2. \A v \in Work : v = w \/ SameState(v)
    BY <1>2 DEF SameState, RunBy
  <2> QED BY <1>1, <1>4, <2>1, <2>2, Moves DEF Service!Cancel, w
<1> QED BY <1>5, <1>6

\* The callback is called: the service delivers the request's end.
LEMMA DeliverStep ==
  ASSUME IndInv, Sorted, Tracked, NEW l \in Loops, Callback(l)
  PROVE  \E w \in Work : Service!Deliver(w)
<1> USE DEF poolVars, workerVars, loopVars, reqVars
<1> DEFINE w == Head(done_wq[l])
<1>1. /\ w \in Work /\ w \in active /\ ~Held(w)
      /\ (ran[w] = 1 /\ w \notin cancelOK) \/ (ran[w] = 0 /\ w \in cancelOK)
  BY Told DEF IndInv
<1>2. /\ active' = active \ {w} /\ ran' = [ran EXCEPT ![w] = 0] /\ cancelOK' = cancelOK \ {w}
      /\ UNCHANGED <<pc, cur>> /\ ran \in [Work -> Nat]
  BY DEF Callback, IndInv, TypeOK
<1> HIDE DEF w
<1>3. ServiceState[w] \in {"ran", "cancelled"}
  BY <1>1 DEF ServiceState, Held, HeldBy, RunBy
<1>4. ServiceState'[w] = "idle"
  BY <1>1, <1>2 DEF ServiceState
<1>5. \A v \in Work : v = w \/ SameState(v)
  BY <1>2 DEF SameState, RunBy
<1>6. Service!Move(w, ServiceState[w], "idle")
  BY <1>1, <1>4, <1>5, Moves
<1> QED BY <1>1, <1>3, <1>6 DEF Service!Deliver

\* For all threads, loops and requests: the pool implements the work service.  A
\* request is run or cancelled, not both, and then called back, once; NThreads run at
\* a time, and no more slow ones than the threshold.
THEOREM PoolImplementsService == Spec => ImplementsService
<1>1. Init => Service!Init
  BY DEF Init, Service!Init, ServiceState
<1>2. ASSUME IndInv, ReqInv, [Next]_vars PROVE [Service!Next]_ServiceState
  <2>0. Sorted /\ Tracked
    BY <1>2 DEF ReqInv
  <2>1. ASSUME NEW t \in Threads, Worker(t) PROVE [Service!Next]_ServiceState
    <3>1. CASE TakeWork(t) \/ TakeSlowWork(t)
      BY <1>2, <2>0, <3>1, StartStep DEF Service!Next
    <3>2. CASE RunWork(t)
      <4>1. cur[t] \in Work
        BY <1>2, <3>2 DEF IndInv, Locals, RunWork
      <4> QED BY <1>2, <2>0, <3>2, <4>1, FinishStep DEF Service!Next
    <3>3. CASE ~(TakeWork(t) \/ TakeSlowWork(t) \/ RunWork(t))
      BY <1>2, <2>1, <3>3, WorkerQuiet, QuietStutters DEF Worker
    <3> QED BY <3>1, <3>2, <3>3
  <2>2. ASSUME NEW l \in Loops, LoopThread(l) PROVE [Service!Next]_ServiceState
    <3>1. ASSUME NEW w \in Work, QueueWork(l, w) PROVE [Service!Next]_ServiceState
      BY <1>2, <2>0, <3>1, SubmitStep DEF Service!Next
    <3>2. CASE CancelRequeue(l)
      BY <1>2, <2>0, <3>2, CancelStep DEF Service!Next
    <3>3. CASE Callback(l)
      BY <1>2, <2>0, <3>3, DeliverStep DEF Service!Next
    <3>4. CASE \/ OnceBegin(l) \/ OnceEnd(l) \/ Post(l) \/ (\E w \in Work : CancelLock(l, w))
               \/ CancelDecide(l) \/ CancelMark(l) \/ AsyncIo(l) \/ WorkDone(l) \/ LoopClose(l)
      BY <1>2, <3>4, LoopQuiet, QuietStutters
    <3> QED BY <2>2, <3>1, <3>2, <3>3, <3>4 DEF LoopThread
  <2>3. CASE Cleanup \/ UNCHANGED vars
    BY <1>2, <2>3, CleanupQuiet, QuietStutters
  <2> QED BY <1>2, <2>1, <2>2, <2>3 DEF Next, Finished
<1> QED BY ReqInvariance, <1>1, <1>2, PTL DEF Spec, ImplementsService, Service!Spec
=============================================================================
