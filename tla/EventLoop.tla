------------------------------- MODULE EventLoop -------------------------------
(***************************************************************************)
(* uv_run and the life of handles: unix/core.c, unix/loop.c and            *)
(* uv-common.c, with timers and loop watchers as the handles.  The loop is *)
(* single-threaded; what makes it hard is that every callback may call     *)
(* anything.  I/O is seen as requests that complete, either while the loop *)
(* polls or through loop->pending_queue (uv__io_feed).  A wakeup from      *)
(* another thread (uv_async_send) may end a poll at any time.              *)
(* Idle, prepare and check handles are unix/loop-watcher.c, one macro that *)
(* defines the three kinds alike.                                          *)
(***************************************************************************)
EXTENDS Timer

CONSTANTS
  Watchers,       \* the idle, prepare and check handles
  KindOf,         \* the kind of each
  Reqs,           \* requests the user can start
  PendingRounds   \* how often pending callbacks are run after a poll: 8

Kinds == {"idle", "prepare", "check"}

ASSUME WatchersAssumption == Watchers \subseteq Handles /\ KindOf \in [Watchers -> Kinds]
ASSUME KindsAssumption == Timers \cup Watchers \subseteq Handles /\ Timers \cap Watchers = {}
ASSUME RoundsAssumption == PendingRounds \in Nat \ {0}

VARIABLES
  watchers,         \* loop->idle_handles, loop->prepare_handles, loop->check_handles
  walk,             \* the local queue of uv__run_idle, uv__run_prepare, uv__run_check
  visited,          \* history: the watchers called in this walk
  at,               \* where the loop's thread is in uv_run; "out" of it
  in_cb,            \* ... and whether it is in a callback (timers: tpc = "cb")
  mode,             \* UV_RUN_DEFAULT, UV_RUN_ONCE or UV_RUN_NOWAIT
  r,                \* uv_run's r: the loop was alive
  can_sleep,        \* uv_run's can_sleep
  poll_timeout,     \* the timeout uv__io_poll is called with
  rounds,           \* runs of the pending queue since the poll
  stop_flag,        \* loop->stop_flag
  reqs,             \* the active requests; loop->active_reqs counts them
  pending_queue,    \* loop->pending_queue, by the request to complete
  pq,               \* uv__run_pending's local queue
  closing_handles,  \* loop->closing_handles, a stack
  finishing,        \* what uv__run_closing_handles has still to visit
  loop_closed       \* uv_loop_close has succeeded

watcherVars == <<watchers, walk, visited>>
runVars == <<at, in_cb, mode, r, can_sleep, poll_timeout, rounds>>
ioVars == <<reqs, pending_queue, pq>>
closeVars == <<closing_handles, finishing, loop_closed>>
loopVars == <<runVars, stop_flag, ioVars, closeVars>>
vars == <<handleVars, timerVars, watcherVars, loopVars>>

WatcherInit ==
  /\ watchers = [k \in Kinds |-> <<>>]
  /\ walk = <<>>
  /\ visited = {}

Init ==
  /\ NoHandles /\ TimerInit /\ WatcherInit
  /\ at = "out" /\ in_cb = FALSE /\ mode = "default"
  /\ r = FALSE /\ can_sleep = FALSE /\ poll_timeout = 0 /\ rounds = 0
  /\ stop_flag = FALSE
  /\ reqs = {} /\ pending_queue = <<>> /\ pq = <<>>
  /\ closing_handles = <<>> /\ finishing = <<>> /\ loop_closed = FALSE

-----------------------------------------------------------------------------
(* Idle, prepare and check watchers.                                        *)

\* uv_idle_init, uv_prepare_init, uv_check_init.
watcher_init(h) == HandleInit(h) /\ UNCHANGED watcherVars

\* uv__queue_insert_head: a watcher started in a callback waits for the next
\* walk.
InsertHead(h) ==
  watchers' = [watchers EXCEPT ![KindOf[h]] = <<h>> \o @] /\ UNCHANGED walk

\* uv_idle_start, uv_prepare_start, uv_check_start; the user does not start a
\* handle he has closed.
watcher_start(h) ==
  /\ life[h] = "open"
  /\ h \notin active
  /\ InsertHead(h)
  /\ HandleStart(h)
  /\ UNCHANGED <<visited, life, ref>>

\* uv__queue_remove, from whichever of the two queues the node is in.
UnlinkedFromLoop(h) ==
  /\ watchers' = [watchers EXCEPT ![KindOf[h]] = Unlink(@, h)]
  /\ UNCHANGED walk

WatcherUnlinked(h) ==
  /\ watchers' = [watchers EXCEPT ![KindOf[h]] = Unlink(@, h)]
  /\ walk' = Unlink(walk, h)

\* uv_idle_stop, uv_prepare_stop, uv_check_stop.
watcher_stop(h) ==
  /\ h \in active
  /\ WatcherUnlinked(h)
  /\ HandleStop(h)
  /\ UNCHANGED <<visited, life, ref>>

\* What uv__idle_close and the other two do for uv_close.
WatcherClose(h) ==
  /\ IF h \in active THEN WatcherUnlinked(h) ELSE UNCHANGED <<watchers, walk>>
  /\ UNCHANGED visited

\* uv__run_idle, uv__run_prepare, uv__run_check: take the whole queue ...
RunWatchers(k) ==
  /\ walk' = watchers[k]
  /\ watchers' = [watchers EXCEPT ![k] = <<>>]
  /\ visited' = {}

\* ... and put the watchers back one by one, calling each.
Visit(k) ==
  /\ walk # <<>>
  /\ walk' = Tail(walk)
  /\ watchers' = [watchers EXCEPT ![k] = Append(@, Head(walk))]
  /\ visited' = visited \cup {Head(walk)}

-----------------------------------------------------------------------------
(* User code, outside uv_run or in a callback.                              *)

UserCode == ~loop_closed /\ (at = "out" \/ in_cb \/ tpc = "cb")

UserTimer == /\ \E t \in Timers : TimerUser(t)
             /\ UNCHANGED <<watcherVars, loopVars>>

UserWatcher == /\ \E h \in Watchers : watcher_init(h) \/ watcher_start(h) \/ watcher_stop(h)
               /\ UNCHANGED <<timerVars, loopVars>>

\* uv_ref and uv_unref of a handle whose memory the user still owns.
UserRef == /\ \E h \in Handles : life[h] \in {"open", "closing"} /\ (HandleRef(h) \/ HandleUnref(h))
           /\ UNCHANGED <<life, active, timerVars, watcherVars, loopVars>>

\* uv_close; uv__make_close_pending pushes the handle on the closing list.
uv_close(h) ==
  /\ life[h] = "open"
  /\ life' = [life EXCEPT ![h] = "closing"]
  /\ IF h \in Timers THEN TimerClose(h) /\ UNCHANGED watcherVars
                     ELSE WatcherClose(h) /\ UNCHANGED timerVars
  /\ HandleStop(h)
  /\ closing_handles' = <<h>> \o closing_handles
  /\ UNCHANGED <<ref, finishing, loop_closed, runVars, stop_flag, ioVars>>

uv_stop == /\ stop_flag' = TRUE
           /\ UNCHANGED <<handleVars, timerVars, watcherVars, runVars, ioVars, closeVars>>

\* Start a request; one that is done at once is fed to the pending queue.
StartReq(q) ==
  /\ q \notin reqs
  /\ reqs' = reqs \cup {q}
  /\ pending_queue' \in {pending_queue, Append(pending_queue, q)}
  /\ UNCHANGED <<pq, handleVars, timerVars, watcherVars, runVars, stop_flag, closeVars>>

User == /\ UserCode
        /\ \/ UserTimer \/ UserWatcher \/ UserRef \/ uv_stop
           \/ \E h \in Handles : uv_close(h)
           \/ \E q \in Reqs : StartReq(q)

-----------------------------------------------------------------------------
(* uv_run.  Its locals, and the histories of a walk, are reset as soon as   *)
(* they are dead, which keeps the state space small.                        *)

\* uv__loop_alive.
Alive == active_handles > 0 \/ reqs # {} \/ pending_queue # <<>> \/ closing_handles # <<>>

\* uv__backend_timeout.
TimeoutForgetsClosing ==
  IF /\ ~stop_flag
     /\ active_handles > 0 \/ reqs # {}
     /\ pending_queue = <<>>
     /\ watchers["idle"] = <<>>
  THEN NextTimeout ELSE 0
BackendTimeout ==
  IF /\ ~stop_flag
     /\ active_handles > 0 \/ reqs # {}
     /\ pending_queue = <<>>
     /\ watchers["idle"] = <<>>
     /\ closing_handles = <<>>
  THEN NextTimeout ELSE 0

\* The timers run before the first iteration of UV_RUN_DEFAULT.
Run ==
  /\ at = "out" /\ ~loop_closed
  /\ mode' \in {"default", "once", "nowait"}
  /\ r' = Alive
  /\ IF Alive /\ mode' = "default" /\ ~stop_flag
       THEN at' = "timers0" /\ tpc' = "collect" /\ UpdateTime
       ELSE at' = "while" /\ UNCHANGED tpc
            /\ IF Alive THEN UNCHANGED time ELSE UpdateTime
  /\ UNCHANGED <<in_cb, can_sleep, poll_timeout, rounds, stop_flag, ioVars, closeVars,
                 called, timer_heap, ready, timerTypeVars, handleVars, watcherVars>>

FirstTimersRun ==
  /\ at = "timers0" /\ tpc = "out"
  /\ at' = "while"
  /\ UNCHANGED <<handleVars, timerVars, watcherVars, in_cb, mode, r, can_sleep,
                 poll_timeout, rounds, stop_flag, ioVars, closeVars>>

\* The head of the while loop, and the run of the pending queue it begins with.
While ==
  /\ at = "while" /\ r /\ ~stop_flag
  /\ at' = "pending"
  /\ can_sleep' = (pending_queue = <<>> /\ watchers["idle"] = <<>>)
  /\ pq' = pending_queue
  /\ pending_queue' = <<>>
  /\ UNCHANGED <<handleVars, timerVars, watcherVars, in_cb, mode, r, poll_timeout,
                 rounds, stop_flag, reqs, closeVars>>

\* uv_run returns; the next call starts with its own locals.
Return ==
  /\ at = "while" /\ (~r \/ stop_flag)
  /\ at' = "out"
  /\ stop_flag' = FALSE
  /\ r' = FALSE /\ mode' = "default"
  /\ UNCHANGED <<handleVars, timerVars, watcherVars, in_cb, can_sleep, poll_timeout, rounds,
                 ioVars, closeVars>>

\* One request of the local pending queue is completed: its callback runs.
Pending ==
  /\ at \in {"pending", "repending"} /\ ~in_cb /\ pq # <<>>
  /\ pq' = Tail(pq)
  /\ reqs' = reqs \ {Head(pq)}
  /\ in_cb' = TRUE
  /\ UNCHANGED <<handleVars, timerVars, watcherVars, at, mode, r, can_sleep, poll_timeout,
                 rounds, stop_flag, pending_queue, closeVars>>

CallbackReturns ==
  /\ in_cb
  /\ in_cb' = FALSE
  /\ UNCHANGED <<handleVars, timerVars, watcherVars, at, mode, r, can_sleep,
                 poll_timeout, rounds, stop_flag, ioVars, closeVars>>

PendingDone ==
  /\ at = "pending" /\ ~in_cb /\ pq = <<>>
  /\ at' = "idle"
  /\ RunWatchers("idle")
  /\ UNCHANGED <<handleVars, timerVars, in_cb, mode, r, can_sleep, poll_timeout,
                 rounds, stop_flag, ioVars, closeVars>>

Watcher ==
  /\ at \in Kinds /\ ~in_cb
  /\ Visit(at)
  /\ in_cb' = TRUE
  /\ UNCHANGED <<handleVars, timerVars, at, mode, r, can_sleep, poll_timeout, rounds,
                 stop_flag, ioVars, closeVars>>

IdleDone ==
  /\ at = "idle" /\ ~in_cb /\ walk = <<>>
  /\ at' = "prepare"
  /\ RunWatchers("prepare")
  /\ UNCHANGED <<handleVars, timerVars, in_cb, mode, r, can_sleep, poll_timeout,
                 rounds, stop_flag, ioVars, closeVars>>

\* The timeout is computed once, after the prepare callbacks.
PrepareDone ==
  /\ at = "prepare" /\ ~in_cb /\ walk = <<>>
  /\ at' = "poll"
  /\ poll_timeout' = IF mode = "default" \/ (mode = "once" /\ can_sleep)
                     THEN BackendTimeout ELSE 0
  /\ can_sleep' = FALSE
  /\ visited' = {}
  /\ UNCHANGED <<handleVars, timerVars, watchers, walk, in_cb, mode, r, rounds,
                 stop_flag, ioVars, closeVars>>

\* uv__io_poll calls back for requests that complete and for wakeups; after
\* the first it no longer blocks ...
PollEvent ==
  /\ at = "poll" /\ ~in_cb
  /\ \/ \E q \in reqs : ~Linked(pending_queue, q) /\ reqs' = reqs \ {q}
     \/ UNCHANGED reqs
  /\ poll_timeout' = 0
  /\ UpdateTime
  /\ in_cb' = TRUE
  /\ UNCHANGED <<tpc, called, timer_heap, ready, timerTypeVars, handleVars, watcherVars,
                 at, mode, r, can_sleep, rounds, stop_flag, pending_queue, pq, closeVars>>

\* ... and returns once the timeout has passed; -1 is no timeout.
PollDone ==
  /\ at = "poll" /\ ~in_cb /\ poll_timeout # -1
  /\ UpdateTime
  /\ time' >= time + poll_timeout
  /\ at' = "repending"
  /\ poll_timeout' = 0
  /\ UNCHANGED <<tpc, called, timer_heap, ready, timerTypeVars, handleVars, watcherVars,
                 in_cb, mode, r, can_sleep, rounds, stop_flag, ioVars, closeVars>>

\* Pending callbacks run again, a bounded number of times.
RunPendingAgain ==
  /\ at = "repending" /\ ~in_cb /\ pq = <<>>
  /\ rounds < PendingRounds /\ pending_queue # <<>>
  /\ rounds' = rounds + 1
  /\ pq' = pending_queue
  /\ pending_queue' = <<>>
  /\ UNCHANGED <<handleVars, timerVars, watcherVars, at, in_cb, mode, r, can_sleep,
                 poll_timeout, stop_flag, reqs, closeVars>>

PendingAgainDone ==
  /\ at = "repending" /\ ~in_cb /\ pq = <<>>
  /\ rounds = PendingRounds \/ pending_queue = <<>>
  /\ at' = "check"
  /\ rounds' = 0
  /\ RunWatchers("check")
  /\ UNCHANGED <<handleVars, timerVars, in_cb, mode, r, can_sleep, poll_timeout,
                 stop_flag, ioVars, closeVars>>

\* uv__run_closing_handles takes the list ...
ClosingTaken == <<>>

CheckDone ==
  /\ at = "check" /\ ~in_cb /\ walk = <<>>
  /\ at' = "closing"
  /\ finishing' = closing_handles
  /\ closing_handles' = ClosingTaken
  /\ visited' = {}
  /\ UNCHANGED <<handleVars, timerVars, watchers, walk, in_cb, mode, r, can_sleep,
                 poll_timeout, rounds, stop_flag, ioVars, loop_closed>>

\* ... and finishes one handle after the other: uv__finish_close unrefs it,
\* takes it off loop->handle_queue and calls close_cb.
FinishClose ==
  /\ at = "closing" /\ ~in_cb /\ finishing # <<>>
  /\ LET h == Head(finishing)
     IN /\ life' = [life EXCEPT ![h] = "closed"]
        /\ HandleUnref(h)
  /\ finishing' = Tail(finishing)
  /\ in_cb' = TRUE
  /\ UNCHANGED <<active, timerVars, watcherVars, at, mode, r, can_sleep, poll_timeout,
                 rounds, stop_flag, ioVars, closing_handles, loop_closed>>

ClosingDone ==
  /\ at = "closing" /\ ~in_cb /\ finishing = <<>>
  /\ at' = "timers"
  /\ tpc' = "collect"
  /\ UpdateTime
  /\ UNCHANGED <<called, timer_heap, ready, timerTypeVars, handleVars, watcherVars, in_cb,
                 mode, r, can_sleep, poll_timeout, rounds, stop_flag, ioVars, closeVars>>

TimerStep == TimerPass /\ UNCHANGED <<watcherVars, loopVars>>

\* The end of an iteration; UV_RUN_ONCE and UV_RUN_NOWAIT break out of the loop.
IterationDone ==
  /\ at = "timers" /\ tpc = "out"
  /\ IF mode = "default"
       THEN at' = "while" /\ r' = Alive /\ UNCHANGED <<stop_flag, mode>>
       ELSE at' = "out" /\ stop_flag' = FALSE /\ r' = FALSE /\ mode' = "default"
  /\ UNCHANGED <<handleVars, timerVars, watcherVars, in_cb, can_sleep, poll_timeout,
                 rounds, ioVars, closeVars>>

\* uv_loop_close: UV_EBUSY while a request is active or a handle is on
\* loop->handle_queue.
MayClose == reqs = {} /\ \A h \in Handles : life[h] \in {"none", "closed"}

uv_loop_close ==
  /\ at = "out" /\ ~loop_closed
  /\ MayClose
  /\ loop_closed' = TRUE
  /\ UNCHANGED <<handleVars, timerVars, watcherVars, runVars, stop_flag, ioVars,
                 closing_handles, finishing>>

LoopStep ==
  \/ FirstTimersRun \/ While \/ Return \/ Pending \/ CallbackReturns \/ PendingDone
  \/ Watcher \/ IdleDone \/ PrepareDone \/ PollDone \/ RunPendingAgain
  \/ PendingAgainDone \/ CheckDone \/ FinishClose \/ ClosingDone \/ TimerStep \/ IterationDone

Finished == loop_closed /\ UNCHANGED vars

Next == User \/ Run \/ LoopStep \/ PollEvent \/ uv_loop_close \/ Finished

Spec == Init /\ [][Next]_vars

-----------------------------------------------------------------------------
(* Fairness.  The loop's thread goes on, callbacks return, the user calls   *)
(* uv_run again and again, the clock advances, and one call of uv__io_poll  *)
(* handles a bounded number of events.                                      *)

Fairness == /\ WF_vars(LoopStep) /\ WF_vars(Run)
            /\ SF_vars(PollDone) /\ SF_vars(PollDone /\ time' > time)

FairSpec == Spec /\ Fairness

-----------------------------------------------------------------------------
(* Properties *)

WatcherTypeOK ==
  /\ watchers \in [Kinds -> Seq(Watchers)]
  /\ walk \in Seq(Watchers)
  /\ visited \subseteq Watchers

\* A watcher is linked once while it is active and not at all otherwise, even
\* when callbacks stop, close and restart the watchers of the running walk: a
\* walk neither skips an active watcher nor touches one that was stopped.  It
\* calls each at most once, so it ends whatever the callbacks start.
WalkIsSound ==
  /\ \A h \in Watchers : Occurrences(watchers[KindOf[h]], h) + Occurrences(walk, h)
                           = IF h \in active THEN 1 ELSE 0
  /\ \A i \in 1..Len(walk) : walk[i] \notin visited

\* The count that keeps uv_run alive and the lists it walks are both right.
WatchersSound == ActiveCount /\ WalkIsSound

TypeOK ==
  /\ TimerTypeOK /\ WatcherTypeOK
  /\ at \in {"out", "timers0", "while", "pending", "poll", "repending", "closing", "timers"} \cup Kinds
  /\ in_cb \in BOOLEAN
  /\ mode \in {"default", "once", "nowait"}
  /\ r \in BOOLEAN /\ can_sleep \in BOOLEAN
  /\ poll_timeout \in -1..IntMax
  /\ rounds \in 0..PendingRounds
  /\ stop_flag \in BOOLEAN
  /\ reqs \subseteq Reqs
  /\ pending_queue \in Seq(Reqs) /\ pq \in Seq(Reqs)
  /\ closing_handles \in Seq(Handles) /\ finishing \in Seq(Handles)
  /\ loop_closed \in BOOLEAN

\* A handle waits for its close callback exactly once from uv_close on, even
\* if close callbacks close other handles: each close_cb is called once.  A
\* loop that uv_loop_close accepts waits for nothing any more.
ClosingOnce ==
  /\ \A h \in Handles :
       Occurrences(closing_handles, h) + Occurrences(finishing, h)
         = IF life[h] = "closing" THEN 1 ELSE 0
  /\ loop_closed => /\ closing_handles = <<>> /\ pending_queue = <<>>
                    /\ timer_heap = {} /\ \A k \in Kinds : watchers[k] = <<>>
                    /\ active_handles = 0

\* The loop blocks only when that delays nothing: no handle waits to be
\* closed, no idle handle or stop request asks for another turn, nothing is
\* pending, something may still happen, and no timer is due before it wakes.
\* UV_RUN_ONCE and the timers of the first pass make uv_run's own r and
\* can_sleep stale by then.
BlocksOnlyWhenIdle ==
  at = "poll" /\ ~in_cb /\ poll_timeout # 0 =>
    /\ active_handles > 0 \/ reqs # {}
    /\ closing_handles = <<>> /\ pending_queue = <<>> /\ ~stop_flag
    /\ \A h \in active \cap Watchers : KindOf[h] # "idle"
    /\ \A t \in active \cap Timers :
         poll_timeout # -1 /\ time + poll_timeout <= timeout[t]

\* No callback of a timer or watcher runs after uv_close: what is called is
\* open at that moment.
NoCallbackAfterClose ==
  [][/\ tpc = "fire" /\ tpc' = "cb" => life[Head(ready)] = "open"
     /\ at \in Kinds /\ ~in_cb /\ in_cb' => life[Head(walk)] = "open"]_vars

\* What a user of watchers relies on, whatever the callbacks do: both of the two.
WalksPromise == [](ActiveCount /\ WalkIsSound) /\ NoCallbackAfterClose

\* A user who stops the loop before its first iteration, every time, gets
\* nothing done; the properties below leave that user out.
LoopTurns == <>[][stop_flag' /\ ~stop_flag => at \notin {"out", "timers0"}]_vars

\* Every closed handle gets its close callback.
ClosingEnds == LoopTurns => \A h \in Handles : []<>(life[h] # "closing")

\* uv_stop ends uv_run.
StopEnds == []<>~(stop_flag /\ at # "out")

\* An armed timer that keeps the loop alive goes off, or the user stops it,
\* arms it anew or unrefs it.
Waits(t, d) == t \in timer_heap \cap ref /\ timeout[t] = d
TimersGoOff ==
  LoopTurns => \A t \in Timers, d \in 0..MaxTime : []<>~Waits(t, d)

\* What the loop promises: all of the above, but for the callbacks.
LoopPromise ==
  [](TypeOK /\ ClosingOnce /\ BlocksOnlyWhenIdle) /\ ClosingEnds /\ StopEnds /\ TimersGoOff
=============================================================================
