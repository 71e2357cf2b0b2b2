-------------------------------- MODULE FsPoll --------------------------------
(***************************************************************************)
(* uv_fs_poll_t: fs-poll.c.  Each uv_fs_poll_start allocates a context with*)
(* a timer and a stat request of its own; contexts of earlier periods stay *)
(* on a chain until their stat has come back and their timer is closed.    *)
(* One handle, one path; what stat sees is a version, or an error, and any *)
(* may follow any.  A context is known by its number, the least one free.  *)
(***************************************************************************)
EXTENDS Handle, Queue

CONSTANTS
  poller,      \* the handle
  Contexts,    \* the contexts there is memory for
  Versions,    \* the versions of the file stat may see, positive
  Errors,      \* the errors of stat, negative
  StartOver    \* the user may start the handle again while a stat is in flight

ASSUME PollAssumption ==
  /\ poller \in Handles /\ Contexts \subseteq Nat \ {0}
  /\ Versions \subseteq Nat \ {0} /\ \A e \in Errors : e \in Int /\ e < 0
  /\ StartOver \in BOOLEAN

VARIABLES
  poll_ctx,    \* handle->poll_ctx and its previous ones, newest first
  fs_req,      \* per context: "none", "stat" in the pool, "done", and in poll_cb "told"
               \* if it calls the user and "quiet" if not
  result,      \* ... the outcome of that stat
  timer,       \* ... its timer: "idle", "armed" or "closing"
  busy_polling,\* ... 0 at first, 1 after a success, or the last error reported
  statbuf,     \* ... the version last seen, 0 for none
  polling,     \* the context whose poll_cb calls the user, or 0
  close_ready, \* uv__make_close_pending was called for the handle
  reported     \* history: the outcome the user of the context knows of, 0 for none

ctxVars == <<fs_req, result, timer, busy_polling, statbuf, reported>>
fsPollVars == <<poll_ctx, ctxVars, polling, close_ready>>  \* beside the handle's

Busy(c) == fs_req[c] # "none"
NotPolling == poller \notin active \/ IsClosing(poller)

FsPollInit ==
  /\ poll_ctx = <<>>
  /\ fs_req = [c \in Contexts |-> "none"]
  /\ result = [c \in Contexts |-> 0]
  /\ timer = [c \in Contexts |-> "idle"]
  /\ busy_polling = [c \in Contexts |-> 0]
  /\ statbuf = [c \in Contexts |-> 0]
  /\ reported = [c \in Contexts |-> 0]
  /\ polling = 0
  /\ close_ready = FALSE

-----------------------------------------------------------------------------
(* The user's calls, in poll_cb or in another callback.                     *)

uv_fs_poll_init ==
  /\ HandleInit(poller)
  /\ UNCHANGED fsPollVars

\* uv__calloc; freed memory is wiped at once, which saves states.
Fresh(c) ==
  /\ busy_polling' = [busy_polling EXCEPT ![c] = 0]
  /\ statbuf' = [statbuf EXCEPT ![c] = 0]
  /\ reported' = [reported EXCEPT ![c] = 0]

uv_fs_poll_start(c) ==
  /\ life[poller] = "open" /\ poller \notin active
  /\ ~Linked(poll_ctx, c) /\ \A b \in Contexts : b < c => Linked(poll_ctx, b)
  /\ StartOver \/ \A b \in Contexts : ~Busy(b) /\ polling # b
  /\ poll_ctx' = <<c>> \o poll_ctx
  /\ fs_req' = [fs_req EXCEPT ![c] = "stat"]
  /\ Fresh(c)
  /\ HandleStart(poller)
  /\ UNCHANGED <<timer, result, polling, close_ready, life, ref>>

\* Closes the timer of the newest context unless its stat is in flight.
TimerStopped == IF timer[Head(poll_ctx)] = "armed"
                  THEN [timer EXCEPT ![Head(poll_ctx)] = "closing"] ELSE timer

uv_fs_poll_stop ==
  /\ poller \in active
  /\ timer' = TimerStopped
  /\ HandleStop(poller)
  /\ UNCHANGED <<poll_ctx, fs_req, result, busy_polling, statbuf, reported, polling,
                 close_ready, life, ref>>

\* uv_close of the handle: it waits for the contexts.
ReadyByContextOnly == FALSE
ReadyIfNoContext == poll_ctx = <<>>

uv__fs_poll_close ==
  /\ life[poller] = "open"
  /\ life' = [life EXCEPT ![poller] = "closing"]
  /\ timer' = IF poller \in active THEN TimerStopped ELSE timer
  /\ HandleStop(poller)
  /\ close_ready' = ReadyIfNoContext
  /\ UNCHANGED <<poll_ctx, fs_req, result, busy_polling, statbuf, reported, polling, ref>>

FsPollUser ==
  /\ polling # 0 => fs_req[polling] = "told"
  /\ \/ uv_fs_poll_init \/ uv_fs_poll_stop \/ uv__fs_poll_close
     \/ \E c \in Contexts : uv_fs_poll_start(c)

-----------------------------------------------------------------------------
(* The worker, the timer and the callbacks.                                 *)

Stat(c, outcome) ==
  /\ fs_req[c] = "stat"
  /\ fs_req' = [fs_req EXCEPT ![c] = "done"]
  /\ result' = [result EXCEPT ![c] = outcome]
  /\ UNCHANGED <<poll_ctx, timer, busy_polling, statbuf, reported, polling, close_ready,
                 handleVars>>

timer_cb(c) ==
  /\ timer[c] = "armed" /\ polling = 0
  /\ timer' = [timer EXCEPT ![c] = "idle"]
  /\ fs_req' = [fs_req EXCEPT ![c] = "stat"]
  /\ UNCHANGED <<poll_ctx, result, busy_polling, statbuf, reported, polling, close_ready,
                 handleVars>>

NewsIfDifferent(c) ==
  IF result[c] < 0 THEN busy_polling[c] # result[c]
  ELSE busy_polling[c] # 0 /\ statbuf[c] # result[c]

\* poll_cb up to its label out: the user is called about a new error, and
\* about a version that follows an error or differs from the last one.
News(c) ==
  IF result[c] < 0 THEN busy_polling[c] # result[c]
  ELSE busy_polling[c] # 0 /\ (busy_polling[c] < 0 \/ statbuf[c] # result[c])

poll_cb(c) ==
  /\ fs_req[c] = "done" /\ polling = 0
  /\ fs_req' = [fs_req EXCEPT ![c] = IF ~NotPolling /\ News(c) THEN "told" ELSE "quiet"]
  /\ polling' = c
  /\ IF NotPolling
       THEN UNCHANGED <<busy_polling, statbuf, reported>>
       ELSE /\ busy_polling' = [busy_polling EXCEPT ![c] = IF result[c] < 0 THEN result[c] ELSE 1]
            /\ statbuf' = [statbuf EXCEPT ![c] = IF result[c] < 0 THEN @ ELSE result[c]]
            /\ reported' = [reported EXCEPT ![c] =
                 IF News(c) \/ busy_polling[c] = 0 THEN result[c] ELSE @]
  /\ UNCHANGED <<poll_ctx, result, timer, close_ready, handleVars>>

\* From out on, once the user's callback has returned: what it did decides.
Rearm(c) == timer' = [timer EXCEPT ![c] = IF NotPolling THEN "closing" ELSE "armed"]

PollCbReturns ==
  /\ polling # 0
  /\ Rearm(polling)
  /\ fs_req' = [fs_req EXCEPT ![polling] = "none"]
  /\ polling' = 0
  /\ result' = [result EXCEPT ![polling] = 0]
  /\ UNCHANGED <<poll_ctx, busy_polling, statbuf, reported, close_ready, handleVars>>

\* The context leaves the chain; the last one lets the handle be closed.
timer_close_cb(c) ==
  /\ timer[c] = "closing" /\ polling = 0
  /\ poll_ctx' = Unlink(poll_ctx, c)
  /\ timer' = [timer EXCEPT ![c] = "idle"]
  /\ close_ready' = (close_ready \/ (poll_ctx = <<c>> /\ IsClosing(poller)))
  /\ Fresh(c)
  /\ UNCHANGED <<fs_req, result, polling, handleVars>>

FinishFsPoll ==
  /\ close_ready /\ polling = 0
  /\ life' = [life EXCEPT ![poller] = "closed"]
  /\ HandleUnref(poller)
  /\ close_ready' = FALSE
  /\ UNCHANGED <<poll_ctx, ctxVars, polling, active>>

FsPollLoop ==
  \/ PollCbReturns \/ FinishFsPoll
  \/ \E c \in Contexts : timer_cb(c) \/ poll_cb(c) \/ timer_close_cb(c)
                         \/ \E outcome \in Versions \cup Errors : Stat(c, outcome)

FsPollNext == FsPollUser \/ FsPollLoop

FsPollSpec == NoHandles /\ FsPollInit /\ [][FsPollNext]_<<fsPollVars, handleVars>>

-----------------------------------------------------------------------------
(* Properties *)

\* A context is on the chain exactly while its stat is in flight, its callback
\* runs or its timer is armed or closing: it is freed once, and not before.
\* The handle is not finished while one is left: they point to it.
ContextsHeld ==
  /\ Distinct(poll_ctx)
  /\ \A c \in Contexts : Linked(poll_ctx, c) <=> (Busy(c) \/ timer[c] # "idle")
  /\ close_ready \/ life[poller] \in {"none", "closed"} => poll_ctx = <<>>
  /\ poller \in active => poll_ctx # <<>> /\ timer[Head(poll_ctx)] # "closing"

\* What the user was told last is what the context knows: no change of the
\* file that a stat has seen goes unreported, in particular when the file
\* comes back after an error as it was before.
NothingMissed ==
  \A c \in Contexts : Linked(poll_ctx, c) =>
    reported[c] = IF busy_polling[c] = 1 THEN statbuf[c] ELSE busy_polling[c]

\* The assertion of timer_cb: only the newest context goes on polling.
TimerOfNewest == [][\A c \in Contexts : timer_cb(c) => Head(poll_ctx) = c]_fsPollVars

\* What polling a file promises, but for its end.
FsPollPromise == [](ContextsHeld /\ NothingMissed) /\ TimerOfNewest

\* Once the user has closed the handle, all its contexts and it are closed.
FsPollCloses == []<>(life[poller] # "closing")
=============================================================================
