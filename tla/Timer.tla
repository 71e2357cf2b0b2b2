--------------------------------- MODULE Timer ---------------------------------
(***************************************************************************)
(* Timers: timer.c.  The heap is the set of its nodes; what timer.c asks   *)
(* of it is the least of them by timer_less_than.  start_id is kept as the *)
(* rank of a timer among all timers by its last uv_timer_start, because    *)
(* the 64-bit counter it is drawn from only serves to compare.             *)
(***************************************************************************)
EXTENDS Handle, Queue

CONSTANTS
  Timers,     \* the timer handles
  MaxTime,    \* (uint64_t) -1
  IntMax,     \* INT_MAX
  Timeouts,   \* what the user passes as timeout ...
  Repeats     \* ... and as repeat

ASSUME TimersAssumption == Timers \subseteq Handles
ASSUME TimesAssumption ==
  /\ MaxTime \in Nat \ {0} /\ IntMax \in Nat \ {0}
  /\ Timeouts \subseteq 0..MaxTime /\ Repeats \subseteq 0..MaxTime

VARIABLES
  time,        \* loop->time
  timer_heap,  \* loop->timer_heap
  ready,       \* uv__run_timers' local ready_queue
  tpc,         \* uv__run_timers: "out", "collect", "fire", or "cb" in a callback
  timeout,     \* handle->timeout
  repeat,      \* handle->repeat
  start_id,    \* handle->start_id
  has_cb,      \* handle->timer_cb is set
  called       \* history: the timers called in this pass of uv__run_timers

timerVars == <<time, timer_heap, ready, tpc, timeout, repeat, start_id, has_cb, called>>
timerTypeVars == <<timeout, repeat, start_id, has_cb>>

-----------------------------------------------------------------------------
\* timer_less_than.
Less(a, b) == \/ timeout[a] < timeout[b]
              \/ timeout[a] = timeout[b] /\ start_id[a] < start_id[b]

\* heap_min.
HeapMin == CHOOSE t \in timer_heap : \A u \in timer_heap : ~Less(u, t)

\* loop->time + timeout, which wraps, and the clamp that undoes the wrap.
Unclamped(to) == (time + to) % (MaxTime + 1)
ClampForgotten(to) == Unclamped(to)
Clamped(to) == IF Unclamped(to) < to THEN MaxTime ELSE Unclamped(to)

\* The ranks after t is started last.
Restarted(t) == [u \in Timers |-> IF u = t THEN Cardinality(Timers)
                                  ELSE IF start_id[u] > start_id[t] THEN start_id[u] - 1
                                  ELSE start_id[u]]

TimerInit ==
  /\ time \in 0..MaxTime
  /\ timer_heap = {}
  /\ ready = <<>>
  /\ tpc = "out"
  /\ timeout = [t \in Timers |-> 0]
  /\ repeat = [t \in Timers |-> 0]
  /\ start_id \in {f \in [Timers -> 1..Cardinality(Timers)] : IsInjective(f)}
  /\ has_cb = [t \in Timers |-> FALSE]
  /\ called = {}

-----------------------------------------------------------------------------
(* What the user may call.                                                  *)

\* uv_timer_init.
uv_timer_init(t) ==
  /\ HandleInit(t)
  /\ timeout' = [timeout EXCEPT ![t] = 0]
  /\ repeat' = [repeat EXCEPT ![t] = 0]
  /\ has_cb' = [has_cb EXCEPT ![t] = FALSE]
  /\ UNCHANGED <<time, called, timer_heap, ready, tpc, start_id>>

\* The node is in the heap or in the ready queue, and the ACTIVE flag tells
\* which: uv_timer_stop takes it out.
ReadyUnlinkForgotten(t) == ready
ReadyUnlinked(t) == IF t \in active THEN ready ELSE Unlink(ready, t)
HeapUnlinked(t) == IF t \in active THEN timer_heap \ {t} ELSE timer_heap

\* The rest of uv_timer_start, when the handle is not closing.
Arm(t, to, rp) ==
  /\ timer_heap' = HeapUnlinked(t) \cup {t}
  /\ timeout' = [timeout EXCEPT ![t] = Clamped(to)]
  /\ repeat' = [repeat EXCEPT ![t] = rp]
  /\ start_id' = Restarted(t)
  /\ HandleStart(t)

uv_timer_start(t, to, rp) ==
  /\ life[t] = "open"
  /\ ready' = ReadyUnlinked(t)
  /\ Arm(t, to, rp)
  /\ has_cb' = [has_cb EXCEPT ![t] = TRUE]
  /\ UNCHANGED <<time, called, tpc, life, ref>>

uv_timer_stop(t) ==
  /\ life[t] = "open"
  /\ ready' = ReadyUnlinked(t)
  /\ timer_heap' = HeapUnlinked(t)
  /\ HandleStop(t)
  /\ UNCHANGED <<time, called, tpc, timerTypeVars, life, ref>>

uv_timer_again(t) ==
  /\ life[t] = "open"
  /\ has_cb[t]
  /\ repeat[t] # 0
  /\ ready' = ReadyUnlinked(t)
  /\ Arm(t, repeat[t], repeat[t])
  /\ UNCHANGED <<time, called, tpc, has_cb, life, ref>>

uv_timer_set_repeat(t, rp) ==
  /\ life[t] = "open"
  /\ repeat' = [repeat EXCEPT ![t] = rp]
  /\ UNCHANGED <<time, called, timer_heap, ready, tpc, timeout, start_id, has_cb, handleVars>>

\* What uv__timer_close does for uv_close.
TimerClose(t) ==
  /\ ready' = ReadyUnlinked(t)
  /\ timer_heap' = HeapUnlinked(t)
  /\ UNCHANGED <<time, called, tpc, timerTypeVars>>

-----------------------------------------------------------------------------
(* uv__next_timeout and uv__run_timers, by the loop.                        *)

NextTimeout ==
  IF timer_heap = {} THEN -1
  ELSE IF timeout[HeapMin] <= time THEN 0
  ELSE LET diff == timeout[HeapMin] - time IN IF diff > IntMax THEN IntMax ELSE diff

\* uv__update_time: the clock is monotonic.
UpdateTime == time' \in time..MaxTime

RunTimers ==
  /\ tpc = "out"
  /\ tpc' = "collect"
  /\ UNCHANGED <<time, called, timer_heap, ready, timerTypeVars>>

\* First all timers that are due move to the ready queue ...
Due == timer_heap # {} /\ timeout[HeapMin] <= time

Collect ==
  /\ tpc = "collect"
  /\ Due
  /\ timer_heap' = timer_heap \ {HeapMin}
  /\ ready' = Append(ready, HeapMin)
  /\ HandleStop(HeapMin)
  /\ UNCHANGED <<time, called, tpc, timerTypeVars, life, ref>>

Collected ==
  /\ tpc = "collect"
  /\ ~Due
  /\ tpc' = "fire"
  /\ UNCHANGED <<time, called, timer_heap, ready, timerTypeVars, handleVars>>

\* ... then each is taken out of it, re-armed if it repeats, and called.
Fire ==
  /\ tpc = "fire"
  /\ ready # <<>>
  /\ tpc' = "cb"
  /\ ready' = Tail(ready)
  /\ called' = called \cup {Head(ready)}
  /\ LET t == Head(ready)
     IN IF repeat[t] # 0
          THEN Arm(t, repeat[t], repeat[t]) /\ UNCHANGED has_cb
          ELSE UNCHANGED <<timer_heap, timerTypeVars, active, active_handles>>
  /\ UNCHANGED <<time, life, ref>>

TimerCallbackReturns ==
  /\ tpc = "cb"
  /\ tpc' = "fire"
  /\ UNCHANGED <<time, called, timer_heap, ready, timerTypeVars, handleVars>>

TimersRun ==
  /\ tpc = "fire"
  /\ ready = <<>>
  /\ tpc' = "out"
  /\ called' = {}
  /\ UNCHANGED <<time, timer_heap, ready, timerTypeVars, handleVars>>

-----------------------------------------------------------------------------
(* Timers alone, with a loop that does nothing but run them.                *)

TimerUser(t) ==
  \/ uv_timer_init(t) \/ uv_timer_stop(t) \/ uv_timer_again(t)
  \/ \E to \in Timeouts, rp \in Repeats : uv_timer_start(t, to, rp)
  \/ \E rp \in Repeats : uv_timer_set_repeat(t, rp)

TimerPass == Collect \/ Collected \/ Fire \/ TimerCallbackReturns \/ TimersRun

CloseTimer(t) ==
  /\ life[t] = "open"
  /\ life' = [life EXCEPT ![t] = "closing"]
  /\ HandleStop(t)
  /\ TimerClose(t)
  /\ UNCHANGED ref

FinishCloseTimer(t) ==
  /\ life[t] = "closing"
  /\ life' = [life EXCEPT ![t] = "closed"]
  /\ HandleUnref(t)
  /\ UNCHANGED <<active, timerVars>>

TimerNext ==
  \/ tpc \in {"out", "cb"} /\ \E t \in Timers : TimerUser(t) \/ CloseTimer(t)
  \/ tpc = "out" /\ \E t \in Timers : FinishCloseTimer(t)
  \/ tpc = "out" /\ UpdateTime /\ UNCHANGED <<called, timer_heap, ready, tpc, timerTypeVars,
                                              handleVars>>
  \/ RunTimers /\ UNCHANGED handleVars
  \/ TimerPass

timersVars == <<timerVars, handleVars>>
TimersInit == NoHandles /\ TimerInit

-----------------------------------------------------------------------------
(* Properties *)

TimerTypeOK ==
  /\ HandleTypeOK
  /\ time \in 0..MaxTime
  /\ timer_heap \subseteq Timers
  /\ ready \in Seq(Timers)
  /\ tpc \in {"out", "collect", "fire", "cb"}
  /\ timeout \in [Timers -> 0..MaxTime]
  /\ repeat \in [Timers -> 0..MaxTime]
  /\ start_id \in [Timers -> 1..Cardinality(Timers)]
  /\ has_cb \in [Timers -> BOOLEAN]
  /\ called \subseteq Timers

\* The heap node and the queue node of a timer share memory (a union), and
\* uv_timer_stop decides by the ACTIVE flag which of the two it unlinks: a
\* timer is in the heap exactly while it is active, and in the ready queue
\* at most once, only while it is inactive and open.
NodeInOnePlace ==
  /\ timer_heap = active \cap Timers
  /\ Distinct(ready)
  /\ \A t \in Timers : Linked(ready, t) => t \notin active /\ life[t] = "open" /\ has_cb[t]

\* No callback of a pass can make the pass call a timer twice: whatever the
\* callbacks start, a pass ends.
OncePerPass ==
  [][tpc = "fire" /\ tpc' = "cb" => Head(ready) \notin called]_timersVars

\* What holds of timers in every pass.
TimersPromise == [](TimerTypeOK /\ NodeInOnePlace) /\ OncePerPass

-----------------------------------------------------------------------------
(* timer.c implements the agenda.                                          *)

\* The timers of the ready queue, then those of the heap in their order.
HeapOrder == CHOOSE s \in [1..Cardinality(timer_heap) -> timer_heap] :
               \A i, j \in 1..Cardinality(timer_heap) : i < j => Less(s[i], s[j])

Clock == INSTANCE Agenda WITH
           now <- time,
           agenda <- ready \o HeapOrder,
           at <- timeout,
           calling <- tpc = "cb"

\* Each callback is that of the armed timer that is first in order and whose
\* time has come, even when callbacks start, stop and close other timers of
\* the same pass, and even when time + timeout wraps.
ImplementsAgenda == Clock!Spec
=============================================================================
