------------------------------ MODULE ThreadPool ------------------------------
(***************************************************************************)
(* The work-queue thread pool of libuv, threadpool.c: worker threads fed   *)
(* by one global queue, a second queue that throttles slow I/O, and one    *)
(* completion queue per event loop.                                        *)
(*                                                                         *)
(* Every lock is explicit, so the order in which the code takes `mutex`    *)
(* and a loop's wq_mutex is part of the model.  uv_async_send is used here *)
(* through what it promises: it raises the loop's wakeup (async_pending),  *)
(* the loop lowers it and then calls uv__work_done.  Module Async models   *)
(* how unix/async.c keeps that promise.                                    *)
(***************************************************************************)
EXTENDS Integers, Sequences, FiniteSets, SequencesExt, Queue

CONSTANTS
  Threads,        \* the worker threads; nthreads is their number
  Loops,          \* the event loops, each run by a thread of its own
  Work,           \* the struct uv__work embedded in the requests
  SlowWork,       \* the requests submitted as UV__WORK_SLOW_IO
  LoopOf,         \* the loop a request is submitted on
  RunSlow,        \* &run_slow_work_message
  ExitMsg,        \* &exit_message
  None

ASSUME ThreadsAssumption == IsFiniteSet(Threads) /\ Threads # {}
ASSUME WorkAssumption == SlowWork \subseteq Work /\ LoopOf \in [Work -> Loops]
ASSUME NodesAssumption == /\ RunSlow \notin Work /\ ExitMsg \notin Work
                          /\ RunSlow # ExitMsg
ASSUME NamesAssumption == /\ None \notin Work \cup Threads \cup Loops
                          /\ Threads \cap Loops = {}

VARIABLES
  once,                   \* uv_once: "init", "busy" or "done"
  started,                \* the workers that have posted init's semaphore
  mutex,                  \* holder of the global mutex, or None
  wq,                     \* the global queue: work and the two messages
  slow_io_pending_wq,     \* slow work not yet picked up
  idle_threads,
  slow_io_work_running,
  phase,                  \* "up", "join" inside uv__threadpool_cleanup, "down"
  pc,                     \* where each worker is
  cur,                    \* worker's local w, or None
  is_slow_work,           \* worker's local
  work,                   \* w->work: "fn", "cancelled" (uv__cancelled) or "null"
  self_linked,            \* the work whose queue node was re-initialised
  wq_mutex,               \* per loop: holder of loop->wq_mutex, or None
  loop_wq,                \* per loop: loop->wq
  async_pending,          \* per loop: wq_async was sent and not yet handled
  done_wq,                \* per loop: uv__work_done's local wq
  open,                   \* per loop: between uv_loop_init and uv_loop_close
  lpc,                    \* where each loop's thread is
  arg,                    \* the request the loop's thread is submitting or cancelling
  active,                 \* the registered requests (uv__req_register)
  ran,                    \* history: times the work function of a request ran
  cancelOK                \* history: uv_cancel returned 0 for the request

poolVars == <<once, started, mutex, wq, slow_io_pending_wq, idle_threads,
              slow_io_work_running, phase>>
workerVars == <<pc, cur, is_slow_work>>
loopVars == <<wq_mutex, loop_wq, async_pending, done_wq, open, lpc, arg>>
reqVars == <<work, self_linked, active, ran, cancelOK>>
vars == <<poolVars, workerVars, loopVars, reqVars>>

-----------------------------------------------------------------------------
NThreads == Cardinality(Threads)
slow_work_thread_threshold == (NThreads + 1) \div 2

AtSlowThresholdOffByOne == slow_io_work_running > slow_work_thread_threshold
AtSlowThreshold == slow_io_work_running >= slow_work_thread_threshold

\* uv_cond_signal: wakes a waiter when there is one.
SignalLost(p) == {p}
Signal(p) == IF \E t \in Threads : p[t] = "parked"
             THEN {[p EXCEPT ![t] = "woken"] : t \in {u \in Threads : p[u] = "parked"}}
             ELSE {p}

SignalIfIdle(p) == IF idle_threads > 0 THEN Signal(p) ELSE {p}

Init ==
  /\ once = "init"
  /\ started = {}
  /\ mutex = None
  /\ wq = <<>>
  /\ slow_io_pending_wq = <<>>
  /\ idle_threads = 0
  /\ slow_io_work_running = 0
  /\ phase = "up"
  /\ pc = [t \in Threads |-> "absent"]
  /\ cur = [t \in Threads |-> None]
  /\ is_slow_work = [t \in Threads |-> FALSE]
  /\ work = [w \in Work |-> "null"]
  /\ self_linked = {}
  /\ wq_mutex = [l \in Loops |-> None]
  /\ loop_wq = [l \in Loops |-> <<>>]
  /\ async_pending = [l \in Loops |-> FALSE]
  /\ done_wq = [l \in Loops |-> <<>>]
  /\ open = [l \in Loops |-> TRUE]
  /\ lpc = [l \in Loops |-> "run"]
  /\ arg = [l \in Loops |-> None]
  /\ active = {}
  /\ ran = [w \in Work |-> 0]
  /\ cancelOK = {}

\* uv_async_send(&loop->wq_async).
Wakeup(l) == [async_pending EXCEPT ![l] = TRUE]

-----------------------------------------------------------------------------
(* worker().  The operators named for a slip (..Forgotten, ..OffByOne and   *)
(* the like) are mistakes the properties must catch; no action uses them.   *)

\* uv_sem_post, the last use of the semaphore on init_threads' stack.
WorkerStart(t) ==
  /\ pc[t] = "start"
  /\ started' = started \cup {t}
  /\ pc' = [pc EXCEPT ![t] = "lock"]
  /\ UNCHANGED <<once, mutex, wq, slow_io_pending_wq, idle_threads,
                 slow_io_work_running, phase, cur, is_slow_work, loopVars, reqVars>>

\* The slow count once a worker is back under the mutex.
SlowGivenBackTwice(t) == slow_io_work_running - 1
SlowGivenBack(t) ==
  IF is_slow_work[t] THEN slow_io_work_running - 1 ELSE slow_io_work_running

\* uv_mutex_lock(&mutex), first time or after a work item, when the slow
\* count is given back.
WorkerLock(t) ==
  /\ pc[t] = "lock"
  /\ mutex = None
  /\ mutex' = t
  /\ pc' = [pc EXCEPT ![t] = "scan"]
  /\ slow_io_work_running' = SlowGivenBack(t)
  /\ is_slow_work' = [is_slow_work EXCEPT ![t] = FALSE]
  /\ UNCHANGED <<once, started, wq, slow_io_pending_wq, idle_threads, phase,
                 cur, loopVars, reqVars>>

\* The condition of the wait loop: nothing to do, or only slow work above
\* the threshold.
MustWait == \/ wq = <<>>
            \/ wq = <<RunSlow>> /\ AtSlowThreshold

\* uv_cond_wait releases the mutex and blocks in one step.
WorkerPark(t) ==
  /\ pc[t] = "scan"
  /\ MustWait
  /\ idle_threads' = idle_threads + 1
  /\ mutex' = None
  /\ pc' = [pc EXCEPT ![t] = "parked"]
  /\ UNCHANGED <<once, started, wq, slow_io_pending_wq, slow_io_work_running,
                 phase, cur, is_slow_work, loopVars, reqVars>>

\* A condition variable may wake a thread that nobody signalled.
SpuriousWakeup(t) ==
  /\ pc[t] = "parked"
  /\ pc' = [pc EXCEPT ![t] = "woken"]
  /\ UNCHANGED <<poolVars, cur, is_slow_work, loopVars, reqVars>>


\* uv_cond_wait returns with the mutex held again.
WorkerWake(t) ==
  /\ pc[t] = "woken"
  /\ mutex = None
  /\ mutex' = t
  /\ idle_threads' = idle_threads - 1
  /\ pc' = [pc EXCEPT ![t] = "scan"]
  /\ UNCHANGED <<once, started, wq, slow_io_pending_wq, slow_io_work_running,
                 phase, cur, is_slow_work, loopVars, reqVars>>

\* The exit message stays in the queue for the next worker.
WorkerExit(t) ==
  /\ pc[t] = "scan"
  /\ ~MustWait
  /\ Head(wq) = ExitMsg
  /\ mutex' = None
  /\ pc' \in Signal([pc EXCEPT ![t] = "exited"])
  /\ UNCHANGED <<once, started, wq, slow_io_pending_wq, idle_threads,
                 slow_io_work_running, phase, cur, is_slow_work, loopVars, reqVars>>

TakeWork(t) ==
  /\ pc[t] = "scan"
  /\ ~MustWait
  /\ Head(wq) \in Work
  /\ wq' = Tail(wq)
  /\ self_linked' = self_linked \cup {Head(wq)}
  /\ cur' = [cur EXCEPT ![t] = Head(wq)]
  /\ mutex' = None
  /\ pc' = [pc EXCEPT ![t] = "run"]
  /\ UNCHANGED <<once, started, slow_io_pending_wq, idle_threads,
                 slow_io_work_running, phase, is_slow_work, loopVars,
                 work, active, ran, cancelOK>>

\* At the slow threshold the message goes behind all other work.
RescheduleSlow(t) ==
  /\ pc[t] = "scan"
  /\ ~MustWait
  /\ Head(wq) = RunSlow
  /\ AtSlowThreshold
  /\ wq' = Append(Tail(wq), RunSlow)
  /\ UNCHANGED <<once, started, mutex, slow_io_pending_wq, idle_threads,
                 slow_io_work_running, phase, workerVars, loopVars, reqVars>>

\* Every slow request the message stood for was cancelled.
DropSlowMessage(t) ==
  /\ pc[t] = "scan"
  /\ ~MustWait
  /\ Head(wq) = RunSlow
  /\ ~AtSlowThreshold
  /\ slow_io_pending_wq = <<>>
  /\ wq' = Tail(wq)
  /\ UNCHANGED <<once, started, mutex, slow_io_pending_wq, idle_threads,
                 slow_io_work_running, phase, workerVars, loopVars, reqVars>>

\* What is left after the head of slow_io_pending_wq.
MoreSlowForgotten == FALSE
MoreSlow == Tail(slow_io_pending_wq) # <<>>

\* Take one slow request; the message goes back if there are more.
TakeSlowWork(t) ==
  /\ pc[t] = "scan"
  /\ ~MustWait
  /\ Head(wq) = RunSlow
  /\ ~AtSlowThreshold
  /\ slow_io_pending_wq # <<>>
  /\ LET w == Head(slow_io_pending_wq)
         p == [pc EXCEPT ![t] = "run"]
     IN /\ slow_io_pending_wq' = Tail(slow_io_pending_wq)
        /\ self_linked' = self_linked \cup {w}
        /\ cur' = [cur EXCEPT ![t] = w]
        /\ wq' = IF MoreSlow THEN Append(Tail(wq), RunSlow) ELSE Tail(wq)
        /\ pc' \in IF MoreSlow THEN SignalIfIdle(p) ELSE {p}
  /\ slow_io_work_running' = slow_io_work_running + 1
  /\ is_slow_work' = [is_slow_work EXCEPT ![t] = TRUE]
  /\ mutex' = None
  /\ UNCHANGED <<once, started, idle_threads, phase, loopVars,
                 work, active, ran, cancelOK>>

\* w->work(w), with no lock held.  uv__cancelled calls abort(), and so would
\* the call of a null pointer.
RunWork(t) ==
  /\ pc[t] = "run"
  /\ IF work[cur[t]] = "fn"
       THEN /\ ran' = [ran EXCEPT ![cur[t]] = @ + 1]
            /\ pc' = [pc EXCEPT ![t] = "publish"]
       ELSE /\ pc' = [pc EXCEPT ![t] = "aborted"]
            /\ UNCHANGED ran
  /\ UNCHANGED <<poolVars, cur, is_slow_work, loopVars,
                 work, self_linked, active, cancelOK>>

\* Under the loop's lock: clear w->work and queue w as completed ...
Publish(t) ==
  LET w == cur[t]
      l == LoopOf[w]
  IN /\ pc[t] = "publish"
     /\ wq_mutex[l] = None
     /\ wq_mutex' = [wq_mutex EXCEPT ![l] = t]
     /\ work' = [work EXCEPT ![w] = "null"]
     /\ self_linked' = self_linked \ {w}
     /\ loop_wq' = [loop_wq EXCEPT ![l] = Append(@, w)]
     /\ pc' = [pc EXCEPT ![t] = "send"]
     /\ UNCHANGED <<poolVars, cur, is_slow_work, async_pending, done_wq, open,
                    lpc, arg, active, ran, cancelOK>>


\* ... and wake the loop before the lock is released.
Send(t) ==
  LET l == LoopOf[cur[t]]
  IN /\ pc[t] = "send"
     /\ async_pending' = Wakeup(l)
     /\ wq_mutex' = [wq_mutex EXCEPT ![l] = None]
     /\ cur' = [cur EXCEPT ![t] = None]
     /\ pc' = [pc EXCEPT ![t] = "lock"]
     /\ UNCHANGED <<poolVars, is_slow_work, loop_wq, done_wq, open, lpc, arg,
                    reqVars>>

-----------------------------------------------------------------------------
(* The loop's thread: uv_queue_work and the other submitters, uv_cancel,   *)
(* the wq_async callback uv__work_done, uv_loop_close.                     *)

\* The thread is in user code of an open loop: outside uv_run, or in the
\* callback of the request last taken from done_wq.
InUserCode(l) == phase = "up" /\ open[l] /\ lpc[l] = "run"

\* uv_queue_work: register the request and enter uv__work_submit.
QueueWork(l, w) ==
  /\ InUserCode(l)
  /\ LoopOf[w] = l
  /\ w \notin active
  /\ active' = active \cup {w}
  /\ arg' = [arg EXCEPT ![l] = w]
  /\ lpc' = [lpc EXCEPT ![l] = "once"]
  /\ UNCHANGED <<poolVars, workerVars, wq_mutex, loop_wq, async_pending,
                 done_wq, open, work, self_linked, ran, cancelOK>>

\* uv_once: the first caller runs init_threads, which creates the workers ...
OnceBegin(l) ==
  /\ lpc[l] = "once"
  /\ once = "init"
  /\ once' = "busy"
  /\ pc' = [t \in Threads |-> "start"]
  /\ lpc' = [lpc EXCEPT ![l] = "init"]
  /\ UNCHANGED <<started, mutex, wq, slow_io_pending_wq, idle_threads,
                 slow_io_work_running, phase, cur, is_slow_work, wq_mutex,
                 loop_wq, async_pending, done_wq, open, arg, reqVars>>

AllStarted == Cardinality(started) = NThreads

\* ... and waits for every one of them before it destroys the semaphore.
OnceEnd(l) ==
  /\ lpc[l] = "init"
  /\ AllStarted
  /\ once' = "done"
  /\ lpc' = [lpc EXCEPT ![l] = "once"]
  /\ UNCHANGED <<started, mutex, wq, slow_io_pending_wq, idle_threads,
                 slow_io_work_running, phase, workerVars, wq_mutex,
                 loop_wq, async_pending, done_wq, open, arg, reqVars>>

\* The rest of uv__work_submit and post().
Post(l) ==
  LET w == arg[l]
      node == IF w \in SlowWork THEN RunSlow ELSE w
      scheduled == w \in SlowWork /\ Linked(wq, RunSlow)
  IN /\ lpc[l] = "once"
     /\ once = "done"
     /\ mutex = None
     /\ work' = [work EXCEPT ![w] = "fn"]
     /\ self_linked' = self_linked \ {w}
     /\ slow_io_pending_wq' = IF w \in SlowWork THEN Append(slow_io_pending_wq, w)
                                                ELSE slow_io_pending_wq
     /\ IF scheduled THEN UNCHANGED <<wq, pc>>
                     ELSE wq' = Append(wq, node) /\ pc' \in SignalIfIdle(pc)
     /\ lpc' = [lpc EXCEPT ![l] = "run"]
     /\ arg' = [arg EXCEPT ![l] = None]
     /\ UNCHANGED <<once, started, mutex, idle_threads, slow_io_work_running,
                    phase, cur, is_slow_work, wq_mutex, loop_wq,
                    async_pending, done_wq, open, active, ran, cancelOK>>

\* uv_cancel of a request whose callback has not been called; the global
\* mutex first ...
CancelLock(l, w) ==
  /\ InUserCode(l)
  /\ LoopOf[w] = l
  /\ w \in active
  /\ mutex = None
  /\ mutex' = l
  /\ arg' = [arg EXCEPT ![l] = w]
  /\ lpc' = [lpc EXCEPT ![l] = "cancel"]
  /\ UNCHANGED <<once, started, wq, slow_io_pending_wq, idle_threads,
                 slow_io_work_running, phase, workerVars, wq_mutex, loop_wq,
                 async_pending, done_wq, open, reqVars>>

\* The request is linked in a queue, and no worker is done with it.
CancellableWhenRunning(w) == work[w] # "null"
CancellableWhenDone(w) == w \notin self_linked
Cancellable(w) == w \notin self_linked /\ work[w] # "null"

\* ... then the loop's, to decide and unlink with both held.
CancelDecide(l) ==
  LET w == arg[l]
  IN /\ lpc[l] = "cancel"
     /\ wq_mutex[l] = None
     /\ mutex' = None
     /\ IF Cancellable(w)
          THEN /\ wq' = Unlink(wq, w)
               /\ slow_io_pending_wq' = Unlink(slow_io_pending_wq, w)
               /\ loop_wq' = [loop_wq EXCEPT ![l] = Unlink(@, w)]
               /\ done_wq' = [done_wq EXCEPT ![l] = Unlink(@, w)]
               /\ lpc' = [lpc EXCEPT ![l] = "mark"]
               /\ UNCHANGED arg
          ELSE /\ lpc' = [lpc EXCEPT ![l] = "run"]
               /\ arg' = [arg EXCEPT ![l] = None]
               /\ UNCHANGED <<wq, slow_io_pending_wq, loop_wq, done_wq>>
     /\ UNCHANGED <<once, started, idle_threads, slow_io_work_running, phase,
                    workerVars, wq_mutex, async_pending, open, reqVars>>

\* w->work = uv__cancelled, with no lock held.
CancelMark(l) ==
  /\ lpc[l] = "mark"
  /\ work' = [work EXCEPT ![arg[l]] = "cancelled"]
  /\ lpc' = [lpc EXCEPT ![l] = "requeue"]
  /\ UNCHANGED <<poolVars, workerVars, wq_mutex, loop_wq, async_pending,
                 done_wq, open, arg, self_linked, active, ran, cancelOK>>

\* Hand the cancelled request to uv__work_done through the loop's own queue.
CancelRequeue(l) ==
  /\ lpc[l] = "requeue"
  /\ wq_mutex[l] = None
  /\ loop_wq' = [loop_wq EXCEPT ![l] = Append(@, arg[l])]
  /\ async_pending' = Wakeup(l)
  /\ cancelOK' = cancelOK \cup {arg[l]}
  /\ lpc' = [lpc EXCEPT ![l] = "run"]
  /\ arg' = [arg EXCEPT ![l] = None]
  /\ UNCHANGED <<poolVars, workerVars, wq_mutex, done_wq, open,
                 work, self_linked, active, ran>>

\* The event loop sees wq_async: the wakeup is lowered before the callback.
AsyncIo(l) ==
  /\ InUserCode(l)
  /\ done_wq[l] = <<>>
  /\ async_pending[l]
  /\ async_pending' = [async_pending EXCEPT ![l] = FALSE]
  /\ lpc' = [lpc EXCEPT ![l] = "work_done"]
  /\ UNCHANGED <<poolVars, workerVars, wq_mutex, loop_wq, done_wq, open, arg, reqVars>>

\* uv__work_done moves the whole queue into a local one under the lock ...
WorkDone(l) ==
  /\ lpc[l] = "work_done"
  /\ wq_mutex[l] = None
  /\ done_wq' = [done_wq EXCEPT ![l] = loop_wq[l]]
  /\ loop_wq' = [loop_wq EXCEPT ![l] = <<>>]
  /\ lpc' = [lpc EXCEPT ![l] = IF loop_wq[l] = <<>> THEN "run" ELSE "callback"]
  /\ UNCHANGED <<poolVars, workerVars, wq_mutex, async_pending, open, arg, reqVars>>

\* The status w->done is called with.
Status(w) == IF work[w] = "cancelled" THEN "ECANCELED" ELSE "ok"

\* ... and calls w->done for each: uv__queue_done unregisters the request
\* and runs the user's callback, which may submit and cancel.  The history
\* of the request starts afresh.
Callback(l) ==
  LET w == Head(done_wq[l])
  IN /\ InUserCode(l) \/ lpc[l] = "callback"
     /\ done_wq[l] # <<>>
     /\ done_wq' = [done_wq EXCEPT ![l] = Tail(@)]
     /\ lpc' = [lpc EXCEPT ![l] = "run"]
     /\ active' = active \ {w}
     /\ ran' = [ran EXCEPT ![w] = 0]
     /\ cancelOK' = cancelOK \ {w}
     /\ UNCHANGED <<poolVars, workerVars, wq_mutex, loop_wq, async_pending,
                    open, arg, work, self_linked>>

\* uv__has_active_reqs.
HasActiveReqs(l) == \E w \in active : LoopOf[w] = l

\* uv_loop_close succeeds once no request is registered; it locks, asserts
\* that loop->wq is empty, and destroys wq_mutex.
LoopClose(l) ==
  /\ InUserCode(l)
  /\ done_wq[l] = <<>>
  /\ ~HasActiveReqs(l)
  /\ wq_mutex[l] = None
  /\ open' = [open EXCEPT ![l] = FALSE]
  /\ async_pending' = [async_pending EXCEPT ![l] = FALSE]
  /\ UNCHANGED <<poolVars, workerVars, wq_mutex, loop_wq, done_wq, lpc, arg, reqVars>>

-----------------------------------------------------------------------------
(* uv_library_shutdown -> uv__threadpool_cleanup, run by the last thread    *)
(* that still uses the library.                                             *)

\* post(&exit_message, UV__WORK_CPU).
ExitFirst(q) == <<ExitMsg>> \o q
ExitLast(q) == Append(q, ExitMsg)

CleanupPost ==
  /\ phase = "up"
  /\ \A l \in Loops : lpc[l] = "run"
  /\ IF once = "init"
       THEN phase' = "down" /\ UNCHANGED <<wq, pc>>
       ELSE /\ mutex = None
            /\ wq' = ExitLast(wq)
            /\ pc' \in SignalIfIdle(pc)
            /\ phase' = "join"
  /\ UNCHANGED <<once, started, mutex, slow_io_pending_wq, idle_threads,
                 slow_io_work_running, cur, is_slow_work, loopVars, reqVars>>

CleanupJoin ==
  /\ phase = "join"
  /\ \A t \in Threads : pc[t] = "exited"
  /\ phase' = "down"
  /\ UNCHANGED <<once, started, mutex, wq, slow_io_pending_wq, idle_threads,
                 slow_io_work_running, workerVars, loopVars, reqVars>>

Finished == phase = "down" /\ UNCHANGED vars

-----------------------------------------------------------------------------
Worker(t) ==
  \/ WorkerStart(t) \/ WorkerLock(t) \/ WorkerPark(t) \/ SpuriousWakeup(t)
  \/ WorkerWake(t) \/ WorkerExit(t) \/ TakeWork(t) \/ RescheduleSlow(t)
  \/ DropSlowMessage(t) \/ TakeSlowWork(t) \/ RunWork(t) \/ Publish(t) \/ Send(t)

LoopThread(l) ==
  \/ \E w \in Work : QueueWork(l, w) \/ CancelLock(l, w)
  \/ OnceBegin(l) \/ OnceEnd(l) \/ Post(l)
  \/ CancelDecide(l) \/ CancelMark(l) \/ CancelRequeue(l)
  \/ AsyncIo(l) \/ WorkDone(l) \/ Callback(l) \/ LoopClose(l)

Cleanup == CleanupPost \/ CleanupJoin

Next == \/ \E t \in Threads : Worker(t)
        \/ \E l \in Loops : LoopThread(l)
        \/ Cleanup
        \/ Finished

Spec == Init /\ [][Next]_vars

-----------------------------------------------------------------------------
(* Fairness.  A thread that can run does run; both mutexes are assumed to   *)
(* be starvation free, hence strong fairness.  The user's loop keeps        *)
(* calling uv_run, and nothing obliges the user to submit, cancel or close. *)

ThreadStep(t) ==
  \/ WorkerStart(t) \/ WorkerLock(t) \/ WorkerPark(t) \/ WorkerWake(t)
  \/ WorkerExit(t) \/ TakeWork(t) \/ RescheduleSlow(t) \/ DropSlowMessage(t)
  \/ TakeSlowWork(t) \/ Publish(t) \/ Send(t)

CallStep(l) == \/ OnceBegin(l) \/ OnceEnd(l) \/ Post(l) \/ CancelDecide(l)
               \/ CancelMark(l) \/ CancelRequeue(l) \/ WorkDone(l)

\* Work functions on the CPU return; slow I/O may block for ever.
Fairness == /\ \A t \in Threads : SF_vars(ThreadStep(t))
            /\ \A l \in Loops : SF_vars(CallStep(l)) /\ SF_vars(AsyncIo(l) \/ Callback(l))
            /\ WF_vars(CleanupJoin)
            /\ \A t \in Threads : WF_vars(RunWork(t) /\ cur[t] \notin SlowWork)

\* uv_cancel succeeds again on a request it has already cancelled and moves it
\* to the end of loop->wq.  A user who does that in the callbacks of other
\* requests, for ever, postpones the callback for ever; the liveness
\* specification leaves that user out.
NoRecancel == \A l \in Loops : lpc[l] = "run" /\ lpc'[l] = "cancel" => arg'[l] \notin cancelOK
FairSpec == Init /\ [][Next /\ NoRecancel]_vars /\ Fairness

-----------------------------------------------------------------------------
(* Properties *)

QueueNodes == Work \cup {RunSlow, ExitMsg}
WorkerPlaces == {"absent", "start", "lock", "scan", "parked", "woken", "run",
                 "publish", "send", "exited", "aborted"}
LoopPlaces == {"run", "once", "init", "cancel", "mark", "requeue", "work_done",
               "callback"}

TypeOK ==
  /\ once \in {"init", "busy", "done"}
  /\ started \subseteq Threads
  /\ mutex \in Threads \cup Loops \cup {None}
  /\ wq \in Seq(QueueNodes)
  /\ slow_io_pending_wq \in Seq(Work)
  /\ idle_threads \in Nat
  /\ slow_io_work_running \in Nat
  /\ phase \in {"up", "join", "down"}
  /\ pc \in [Threads -> WorkerPlaces]
  /\ cur \in [Threads -> Work \cup {None}]
  /\ is_slow_work \in [Threads -> BOOLEAN]
  /\ work \in [Work -> {"fn", "null", "cancelled"}]
  /\ self_linked \subseteq Work
  /\ wq_mutex \in [Loops -> Threads \cup {None}]
  /\ loop_wq \in [Loops -> Seq(Work)]
  /\ async_pending \in [Loops -> BOOLEAN]
  /\ done_wq \in [Loops -> Seq(Work)]
  /\ open \in [Loops -> BOOLEAN]
  /\ lpc \in [Loops -> LoopPlaces]
  /\ arg \in [Loops -> Work \cup {None}]
  /\ active \subseteq Work
  /\ ran \in [Work -> Nat]
  /\ cancelOK \subseteq Work

\* slow_io_work_running counts exactly the workers that hold a slow request,
\* whatever the order in which they take, finish and give it back, and never
\* exceeds the threshold: slow I/O cannot occupy the whole pool.
SlowBound ==
  /\ slow_io_work_running = Cardinality({t \in Threads : is_slow_work[t]})
  /\ slow_io_work_running <= slow_work_thread_threshold

\* idle_threads counts the threads inside uv_cond_wait; posters rely on it to
\* decide whether to signal.
IdleCount ==
  idle_threads = Cardinality({t \in Threads : pc[t] \in {"parked", "woken"}})

\* The places a request can be: a queue, a worker, or a call in progress.
Places(w) ==
  Occurrences(wq, w) + Occurrences(slow_io_pending_wq, w)
  + Occurrences(loop_wq[LoopOf[w]], w) + Occurrences(done_wq[LoopOf[w]], w)
  + Cardinality({t \in Threads : cur[t] = w /\ pc[t] \in {"run", "publish"}})
  + Cardinality({l \in Loops : arg[l] = w /\ lpc[l] \in {"once", "init", "mark", "requeue"}})

\* A registered request is in exactly one place and an unregistered one in
\* none, so no interleaving of worker, uv_cancel and uv__work_done loses a
\* request, runs its callback twice, links its intrusive node twice, or lets
\* a worker call uv__cancelled, which aborts.
OnePlace ==
  /\ \A w \in Work : Places(w) = IF w \in active THEN 1 ELSE 0
  /\ Occurrences(wq, RunSlow) <= 1

\* Slow work that waits always has its message in the queue, or it would
\* wait for ever.
SlowScheduled ==
  slow_io_pending_wq # <<>> => Linked(wq, RunSlow)

\* While the queue holds something a worker may take, a parked worker implies
\* that another thread is already on its way to the queue: signalling only if
\* idle_threads > 0, and only one thread, loses no wakeup.  Completed work
\* that waits in loop->wq has a wakeup of the loop under way.
NoLostWakeup ==
  /\ ~MustWait /\ (\E t \in Threads : pc[t] = "parked")
       => \E t \in Threads : pc[t] \in {"lock", "woken", "scan"}
  /\ \A l \in Loops : loop_wq[l] # <<>> =>
       async_pending[l] \/ lpc[l] = "work_done" \/ wq_mutex[l] # None

\* What goes away is not used any more.  uv_loop_close asserts that loop->wq
\* is empty and destroys wq_mutex: no worker is about to lock it, holds it, or
\* is inside uv_async_send on the loop.  init_threads' semaphore lives on its
\* stack: no worker has yet to post it when uv_once returns.
NoUseAfterFree ==
  /\ \A l \in Loops : ~open[l] =>
       /\ loop_wq[l] = <<>> /\ done_wq[l] = <<>> /\ wq_mutex[l] = None
       /\ \A t \in Threads : pc[t] \in {"run", "publish", "send"} => LoopOf[cur[t]] # l
  /\ \A t \in Threads : pc[t] = "start" => once = "busy"

\* The comment above worker(): it never holds the global mutex and the
\* loop-local mutex at the same time.
WorkerHoldsOneLock ==
  \A t \in Threads : mutex = t => \A l \in Loops : wq_mutex[l] # t

\* uv__threadpool_cleanup joins the workers only after all CPU work submitted
\* before it has been run.
CleanupDrains ==
  phase = "down" => \A i \in 1..Len(wq) : wq[i] \notin Work

\* A callback reports what happened: "ok" after the work ran exactly once and
\* no uv_cancel succeeded, "ECANCELED" when one did and the work never ran.
CallbackTellsTruth ==
  [][\A w \in active \ active' :
       \/ Status(w) = "ok" /\ ran[w] = 1 /\ w \notin cancelOK
       \/ Status(w) = "ECANCELED" /\ ran[w] = 0 /\ w \in cancelOK]_vars

Completes(w) == (w \in active /\ phase = "up") ~> (w \notin active \/ phase # "up")

\* Even when slow I/O never returns, every CPU request submitted to a running
\* pool gets its callback: the threshold leaves it a thread.
CpuWorkCompletes == \A w \in Work \ SlowWork : Completes(w)

\* If slow I/O does return, all requests get their callbacks and the library's
\* cleanup comes to its end: one exit message, passed on from worker to
\* worker, stops them all.
SlowWorkReturns == \A t \in Threads : []<>(pc[t] # "run")
EveryRequestCompletes == SlowWorkReturns => \A w \in SlowWork : Completes(w)
CleanupEnds == SlowWorkReturns => (phase = "join" ~> phase = "down")

\* What is safe at any time: requests are in one place, nothing is used that
\* was given back, and the library's cleanup leaves no work behind.
RequestsSafe == OnePlace /\ NoUseAfterFree /\ CleanupDrains

\* Nothing that can be worked on waits while a thread could work on it.
NothingWaitsInVain == SlowScheduled /\ NoLostWakeup

\* What goes on: both kinds of requests, and the cleanup.
PoolProgress == CpuWorkCompletes /\ EveryRequestCompletes /\ CleanupEnds

-----------------------------------------------------------------------------
(* The thread pool implements the work service.                             *)

\* A cancelled request counts as cancelled from the moment uv_cancel returns
\* 0; a request counts as running while a worker is about to call w->work.
ServiceState ==
  [w \in Work |->
     IF w \notin active THEN "idle"
     ELSE IF \E t \in Threads : cur[t] = w /\ pc[t] = "run" THEN "running"
     ELSE IF ran[w] > 0 THEN "ran"
     ELSE IF w \in cancelOK THEN "cancelled"
     ELSE "queued"]

Service == INSTANCE WorkService WITH
             state <- ServiceState,
             MaxRunning <- NThreads,
             MaxSlow <- slow_work_thread_threshold

\* Every behaviour of the workers, the loops and uv_cancel is one the work
\* service allows: at most once, cancelled or run but not both, bounded.
ImplementsService == Service!Spec
=============================================================================
