--------------------------------- MODULE Async ---------------------------------
(***************************************************************************)
(* Waking an event loop from other threads: unix/async.c.  Any number of   *)
(* threads call uv_async_send while the loop's thread polls the eventfd,   *)
(* runs callbacks, opens and closes handles, forks, and finally closes the *)
(* loop.  One step is one atomic operation of the C code.  The atomics are *)
(* interleaved in one global order; the relaxed load that opens            *)
(* uv_async_send is treated like the others.                               *)
(***************************************************************************)
EXTENDS Integers, Sequences, FiniteSets, SequencesExt, Functions, Queue

CONSTANTS
  Handles,        \* the uv_async_t structures
  Internal,       \* those the loop owns: wq_async
  Senders,        \* threads that call uv_async_send
  LoopThread,     \* the loop's own thread, one of the senders
  ForkInCallback, \* whether the user forks inside an async callback too
  None

ASSUME HandlesAssumption ==
  Internal \subseteq Handles /\ IsFiniteSet(Internal) /\ None \notin Handles
ASSUME SendersAssumption == IsFiniteSet(Senders) /\ LoopThread \in Senders
ASSUME ForkAssumption == ForkInCallback \in BOOLEAN

VARIABLES
  hs,             \* life of a handle
  pending,        \* handle->pending
  busy,           \* handle->u.fd
  async_handles,  \* loop->async_handles
  queue,          \* the local queue of uv__async_io and uv__async_stop
  efd,            \* the eventfd: "empty", "set" (readable) or "closed"
  lpc,            \* the loop's thread
  in_cb,          \* the handle whose async callback is running, or None
  target,         \* the handle the loop's thread is closing
  spc,            \* each sender: the next operation of uv_async_send
  tgt,            \* ... and the handle it was called with
  owed            \* history: sent to, and the callback has not begun since

handleVars == <<hs, pending, busy>>
loopVars == <<async_handles, queue, lpc, in_cb, target>>
senderVars == <<spc, tgt>>
vars == <<handleVars, loopVars, senderVars, efd, owed>>

-----------------------------------------------------------------------------
\* A loop that uv_loop_init has just set up.
Init ==
  /\ hs = [h \in Handles |-> IF h \in Internal THEN "active" ELSE "unused"]
  /\ pending = [h \in Handles |-> 0]
  /\ busy = [h \in Handles |-> 0]
  /\ async_handles \in Bijection(1..Cardinality(Internal), Internal)
  /\ queue = <<>>
  /\ efd = "empty"
  /\ lpc = "user"
  /\ in_cb = None
  /\ target = None
  /\ spc = [s \in Senders |-> "idle"]
  /\ tgt = [s \in Senders |-> None]
  /\ owed = {}

-----------------------------------------------------------------------------
(* uv_async_send, by any thread.  The loop's own thread can call it only    *)
(* from user code.  As in ThreadPool, the operators named for a slip        *)
(* (..Forgotten, ..Anyway, ..WithoutBusy and the like) are mistakes the properties must  *)
(* catch; no action uses them.                                              *)

CanRun(s) == s = LoopThread => lpc = "user"

\* The cheap read; a send that finds the flag up has nothing to do.
SendRead(s, h) ==
  /\ spc[s] = "idle"
  /\ CanRun(s)
  /\ hs[h] = "active"
  /\ lpc # "down"
  /\ IF pending[h] # 0
       THEN owed' = owed \cup {h} /\ UNCHANGED senderVars
       ELSE /\ spc' = [spc EXCEPT ![s] = "busy"]
            /\ tgt' = [tgt EXCEPT ![s] = h]
            /\ UNCHANGED owed
  /\ UNCHANGED <<handleVars, loopVars, efd>>

\* atomic_fetch_add(busy, 1)
SendBusy(s) ==
  /\ spc[s] = "busy"
  /\ busy' = [busy EXCEPT ![tgt[s]] = @ + 1]
  /\ spc' = [spc EXCEPT ![s] = "exchange"]
  /\ UNCHANGED <<hs, pending, loopVars, tgt, efd, owed>>

\* atomic_exchange(pending, 1): only the thread that raised the flag writes.
SendExchange(s) ==
  /\ spc[s] = "exchange"
  /\ pending' = [pending EXCEPT ![tgt[s]] = 1]
  /\ spc' = [spc EXCEPT ![s] = IF pending[tgt[s]] = 0 THEN "write" ELSE "done"]
  /\ owed' = IF hs[tgt[s]] = "active" THEN owed \cup {tgt[s]} ELSE owed
  /\ UNCHANGED <<hs, busy, loopVars, tgt, efd>>

\* write(2) on the eventfd; one that is full already is readable already.
SendWrite(s) ==
  /\ spc[s] = "write"
  /\ efd' = "set"
  /\ spc' = [spc EXCEPT ![s] = "done"]
  /\ UNCHANGED <<handleVars, loopVars, tgt, owed>>

\* atomic_fetch_add(busy, -1)
SendDone(s) ==
  /\ spc[s] = "done"
  /\ busy' = [busy EXCEPT ![tgt[s]] = @ - 1]
  /\ spc' = [spc EXCEPT ![s] = "idle"]
  /\ tgt' = [tgt EXCEPT ![s] = None]
  /\ UNCHANGED <<hs, pending, loopVars, efd, owed>>

-----------------------------------------------------------------------------
(* The loop's thread.                                                       *)

UserCode == lpc = "user" /\ spc[LoopThread] = "idle"

\* uv_async_init; memory of a closed handle is reused only when no thread is
\* still inside uv_async_send with it.
AsyncInit(h) ==
  /\ UserCode
  /\ hs[h] \in {"unused", "closed"}
  /\ \A s \in Senders : tgt[s] # h
  /\ hs' = [hs EXCEPT ![h] = "active"]
  /\ pending' = [pending EXCEPT ![h] = 0]
  /\ busy' = [busy EXCEPT ![h] = 0]
  /\ async_handles' = Append(async_handles, h)
  /\ UNCHANGED <<queue, lpc, in_cb, target, senderVars, efd, owed>>

\* uv__async_io drains the eventfd ...
IoRead ==
  /\ UserCode
  /\ in_cb = None
  /\ efd = "set"
  /\ efd' = "empty"
  /\ lpc' = "move"
  /\ UNCHANGED <<handleVars, async_handles, queue, in_cb, target, senderVars, owed>>

\* ... takes all handles off the list ...
IoMove ==
  /\ lpc = "move"
  /\ queue' = async_handles
  /\ async_handles' = <<>>
  /\ lpc' = "io"
  /\ UNCHANGED <<handleVars, in_cb, target, senderVars, efd, owed>>

\* ... and puts them back one by one, calling back those it finds pending.
\* The exchange fetches and clears the flag in one step.
ClearedAll(h) == [g \in Handles |-> IF hs[g] = "active" THEN 0 ELSE pending[g]]
Cleared(h) == [pending EXCEPT ![h] = 0]

IoVisit ==
  LET h == Head(queue)
  IN /\ lpc = "io"
     /\ queue # <<>>
     /\ queue' = Tail(queue)
     /\ async_handles' = Append(async_handles, h)
     /\ pending' = Cleared(h)
     /\ IF pending[h] # 0
          THEN lpc' = "user" /\ in_cb' = h /\ owed' = owed \ {h}
          ELSE UNCHANGED <<lpc, in_cb, owed>>
     /\ UNCHANGED <<hs, busy, target, senderVars, efd>>

CallbackReturns ==
  /\ UserCode
  /\ in_cb # None
  /\ in_cb' = None
  /\ lpc' = "io"
  /\ UNCHANGED <<handleVars, async_handles, queue, target, senderVars, efd, owed>>

IoEnd ==
  /\ lpc = "io"
  /\ queue = <<>>
  /\ lpc' = "user"
  /\ UNCHANGED <<handleVars, async_handles, queue, in_cb, target, senderVars, efd, owed>>

\* The value uv__async_spin leaves in handle->pending while it waits.
SpinPending(h) == [pending EXCEPT ![h] = 1]

\* uv_close: the handle is closing, and uv__async_spin raises its flag ...
Close(h) ==
  /\ UserCode
  /\ hs[h] = "active"
  /\ h \notin Internal
  /\ hs' = [hs EXCEPT ![h] = "closing"]
  /\ pending' = SpinPending(h)
  /\ target' = h
  /\ lpc' = "spin"
  /\ owed' = owed \ {h}
  /\ UNCHANGED <<busy, async_handles, queue, in_cb, senderVars, efd>>

\* A mutant: it does not wait.
SpinsNever(h) == pending[h] = 1

\* uv__async_spin returns once the busy count is seen at zero.
SpinEnds(h) == busy[h] = 0

\* ... spins while a sender is busy, and takes the handle off its list.
CloseSpun ==
  /\ lpc = "spin"
  /\ SpinEnds(target)
  /\ hs' = [hs EXCEPT ![target] = "spun"]
  /\ async_handles' = Unlink(async_handles, target)
  /\ queue' = Unlink(queue, target)
  /\ target' = None
  /\ lpc' = "user"
  /\ UNCHANGED <<pending, busy, in_cb, senderVars, efd, owed>>

\* uv__finish_close at the end of an iteration: the memory is the user's.
FinishClose(h) ==
  /\ UserCode
  /\ in_cb = None
  /\ hs[h] = "spun"
  /\ hs' = [hs EXCEPT ![h] = "closed"]
  /\ UNCHANGED <<pending, busy, loopVars, senderVars, efd, owed>>

\* uv_loop_close, when no handle but the internal ones is left:
\* uv__async_stop spins on each handle that is still on the list ...
Stop ==
  /\ UserCode
  /\ in_cb = None
  /\ \A h \in Handles \ Internal : hs[h] \in {"unused", "closed"}
  /\ queue' = async_handles
  /\ async_handles' = <<>>
  /\ lpc' = "stop"
  /\ UNCHANGED <<handleVars, in_cb, target, senderVars, efd, owed>>

StopVisit ==
  LET h == Head(queue)
  IN /\ lpc = "stop"
     /\ queue # <<>>
     /\ queue' = Tail(queue)
     /\ async_handles' = Append(async_handles, h)
     /\ pending' = SpinPending(h)
     /\ hs' = [hs EXCEPT ![h] = "closing"]
     /\ target' = h
     /\ lpc' = "stop_spin"
     /\ owed' = owed \ {h}
     /\ UNCHANGED <<busy, in_cb, senderVars, efd>>

StopSpun ==
  /\ lpc = "stop_spin"
  /\ SpinEnds(target)
  /\ hs' = [hs EXCEPT ![target] = "closed"]
  /\ target' = None
  /\ lpc' = "stop"
  /\ UNCHANGED <<pending, busy, async_handles, queue, in_cb, senderVars, efd, owed>>

\* ... and closes the eventfd.
StopEnd ==
  /\ lpc = "stop"
  /\ queue = <<>>
  /\ efd' = "closed"
  /\ lpc' = "down"
  /\ UNCHANGED <<handleVars, async_handles, queue, in_cb, target, senderVars, owed>>

\* fork() by the loop's thread and uv__async_fork in the child: the other
\* threads are gone, the flags of the handles on the list are cleared, the
\* eventfd is a new one.  Handles that are not on the list keep theirs: those
\* that were closed, and, when an async callback forks, those uv__async_io has
\* moved to its local queue.
OnList(h) == Linked(async_handles, h)
ForkedBusyForgotten == busy
ForkedBusy == [h \in Handles |-> IF OnList(h) THEN 0 ELSE busy[h]]

Fork ==
  /\ UserCode
  /\ in_cb = None \/ ForkInCallback
  /\ pending' = [h \in Handles |-> IF OnList(h) THEN 0 ELSE pending[h]]
  /\ busy' = ForkedBusy
  /\ efd' = "empty"
  /\ spc' = [s \in Senders |-> "idle"]
  /\ tgt' = [s \in Senders |-> None]
  /\ owed' = {}
  /\ UNCHANGED <<hs, loopVars>>

-----------------------------------------------------------------------------
SendStep(s) == SendBusy(s) \/ SendExchange(s) \/ SendWrite(s) \/ SendDone(s)

LoopStep == \/ IoMove \/ IoVisit \/ IoEnd \/ CallbackReturns \/ CloseSpun
            \/ StopVisit \/ StopSpun \/ StopEnd

Finished == lpc = "down" /\ (\A s \in Senders : spc[s] = "idle") /\ UNCHANGED vars

Next == \/ \E s \in Senders : SendStep(s) \/ \E h \in Handles : SendRead(s, h)
        \/ \E h \in Handles : AsyncInit(h) \/ Close(h) \/ FinishClose(h)
        \/ IoRead \/ LoopStep \/ Stop \/ Fork
        \/ Finished

Spec == Init /\ [][Next]_vars

-----------------------------------------------------------------------------
(* Properties *)

TypeOK ==
  /\ hs \in [Handles -> {"unused", "active", "closing", "spun", "closed"}]
  /\ pending \in [Handles -> {0, 1}]
  /\ busy \in [Handles -> Nat]
  /\ async_handles \in Seq(Handles)
  /\ queue \in Seq(Handles)
  /\ efd \in {"empty", "set", "closed"}
  /\ lpc \in {"user", "move", "io", "spin", "stop", "stop_spin", "down"}
  /\ in_cb \in Handles \cup {None}
  /\ target \in Handles \cup {None}
  /\ spc \in [Senders -> {"idle", "busy", "exchange", "write", "done"}]
  /\ tgt \in [Senders -> Handles \cup {None}]
  /\ owed \subseteq Handles

\* A send is never forgotten.  Whoever sent to an open handle is owed a
\* callback that begins later, and until then the flag is up; while it is up
\* the eventfd is readable, or the thread that must write it is about to, or
\* the loop is in uv__async_io and has yet to visit the handle.  A send that
\* returns early because the flag was up relies on it.
NoLostSend ==
  \A h \in Handles : hs[h] = "active" =>
    /\ h \in owed => pending[h] = 1
    /\ pending[h] = 1 => \/ efd = "set"
                         \/ \E s \in Senders : spc[s] = "write"
                         \/ lpc = "move"
                         \/ Linked(queue, h)

\* The comments in uv__async_spin and uv__async_stop: no other thread adds an
\* event for a handle that was spun on, or touches the descriptor once the
\* loop has been cleaned up.
NoWriteAfterSpin ==
  \A s \in Senders : spc[s] = "write" =>
    efd # "closed" /\ hs[tgt[s]] \in {"active", "closing"}

\* The busy count of a handle is the number of threads between its two
\* updates; it returns to zero, or the next close would spin for ever.
BusyCount ==
  \A h \in Handles : hs[h] \in {"active", "closing"} => busy[h] =
    Cardinality({s \in Senders : tgt[s] = h /\ spc[s] \in {"exchange", "write", "done"}})

\* Every send to a handle that stays open in the same process is followed by
\* a callback.
SendReachesCallback ==
  \A h \in Handles : []<>(h \notin owed)

\* uv_close does not spin for ever.
SpinTerminates == []<>(lpc \notin {"spin", "stop_spin"})

\* What uv_async_send promises at any time: no send is lost, none touches a closed
\* handle or descriptor.
SendsSound == TypeOK /\ NoLostSend /\ NoWriteAfterSpin


-----------------------------------------------------------------------------
(* async.c implements the coalescing signal.                               *)

Signal == INSTANCE AsyncSignal WITH
            open <- {h \in Handles : hs[h] = "active"},
            running <- in_cb,
            signalled <- {h \in Handles : hs[h] = "active" /\ pending[h] = 1}

\* The flag of an open handle is the signal: each step of the senders, the
\* loop, uv_close and fork is a step of AsyncSignal or leaves it alone.
ImplementsSignal == Signal!Spec
=============================================================================
