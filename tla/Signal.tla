--------------------------------- MODULE Signal ---------------------------------
(***************************************************************************)
(* Signal handles, unix/signal.c, and what uv__finish_close does for them.  *)
(* All loops share one tree of watchers, protected by a lock that a signal  *)
(* handler can take as well: a pipe with one byte in it.  The handler, on   *)
(* whatever thread it runs, writes one message for each watcher into the    *)
(* pipe of the watcher's loop, and the loop calls the watchers back.        *)
(*                                                                         *)
(* uv_signal_start and uv__signal_stop hold the lock with all signals       *)
(* blocked and are single steps here; the handler is not.  A start with the *)
(* handle's own signum changes nothing but signal_cb, one with another      *)
(* begins with a stop: neither needs an action of its own.  Loop fork and   *)
(* loop close are left out.                                                 *)
(***************************************************************************)
EXTENDS Integers, Sequences, FiniteSets, SequencesExt

CONSTANTS
  Handles, Loops, Signums,
  LoopOf,         \* the loop of a handle
  PipeSize,       \* messages that fit into a signal pipe
  BufSize,        \* messages uv__signal_event reads at once: 32
  NoSignal,       \* signum 0: the handle watches nothing
  Careful         \* the user has one one-shot watcher for a signal at a time

ASSUME LoopsAssumption == IsFiniteSet(Handles) /\ LoopOf \in [Handles -> Loops]
ASSUME SizesAssumption == PipeSize \in Nat \ {0} /\ BufSize \in Nat \ {0}
ASSUME SignumsAssumption == NoSignal \notin Signums
ASSUME CarefulAssumption == Careful \in BOOLEAN

VARIABLES
  life,           \* of a handle: "none", "open", "closing"
  signum,         \* handle->signum; the handle is in the tree unless NoSignal
  oneshot,        \* the handles flagged UV_SIGNAL_ONE_SHOT
  trapped,        \* caught_signals - dispatched_signals
  lost,           \* history: the one-shot watchers a full pipe has cost their
                  \* signal
  disposition,    \* of a signal: "default", "handler", or "reset" (SA_RESETHAND)
  raised,         \* signals whose handler has been entered
  lock,           \* the signal whose handler holds the lock, or NoSignal
  walk,           \* the watchers that handler has still to visit
  written,        \* it has written, but not counted, the message for the first
  pipe,           \* per loop: the messages in signal_pipefd
  buf,            \* per loop: uv__signal_event's messages
  full,           \* per loop: its last read filled the buffer
  pc              \* per loop: "loop", in uv__signal_event "next", "cb", "after"

handleVars == <<life, signum, oneshot, trapped>>
handlerVars == <<raised, lock, walk, written>>
loopVars == <<buf, full, pc>>
vars == <<handleVars, lost, disposition, handlerVars, pipe, loopVars>>

Init ==
  /\ life = [h \in Handles |-> "none"]
  /\ signum = [h \in Handles |-> NoSignal]
  /\ oneshot = {}
  /\ trapped = [h \in Handles |-> 0]
  /\ lost = {}
  /\ disposition = [s \in Signums |-> "default"]
  /\ raised = {} /\ lock = NoSignal /\ walk = <<>> /\ written = FALSE
  /\ pipe = [l \in Loops |-> <<>>]
  /\ buf = [l \in Loops |-> <<>>]
  /\ full = [l \in Loops |-> FALSE]
  /\ pc = [l \in Loops |-> "loop"]

-----------------------------------------------------------------------------
(* The tree.  Regular watchers come first: if the first watcher of a signal *)
(* is one-shot, all are.                                                    *)

Watchers(s) == {h \in Handles : signum[h] = s}
FirstIsOneshot(others) == others # {} /\ others \subseteq oneshot
InOrder(s) == SetToSeq(Watchers(s) \ oneshot) \o SetToSeq(Watchers(s) \cap oneshot)

\* uv__signal_stop, with the lock: what is left decides on the disposition.
DispositionWithout(h) ==
  LET others == Watchers(signum[h]) \ {h}
  IN IF others = {} THEN "default"
     ELSE IF FirstIsOneshot(others) /\ h \notin oneshot THEN "reset"
     ELSE disposition[signum[h]]

StopWatcher(h) ==
  IF signum[h] = NoSignal
    THEN UNCHANGED <<signum, lost, disposition>>
    ELSE /\ lock = NoSignal
         /\ lost' = lost \ {h}
         /\ disposition' = [disposition EXCEPT ![signum[h]] = DispositionWithout(h)]
         /\ signum' = [signum EXCEPT ![h] = NoSignal]

-----------------------------------------------------------------------------
(* The user, on the thread of the handle's loop.                            *)

UserCode(l) == pc[l] \in {"loop", "cb"}
Mine(h) == UserCode(LoopOf[h]) /\ life[h] = "open"

\* uv_signal_init, on memory that was never used or that was given back.
uv_signal_init(h) ==
  /\ UserCode(LoopOf[h]) /\ life[h] = "none"
  /\ life' = [life EXCEPT ![h] = "open"]
  /\ signum' = [signum EXCEPT ![h] = NoSignal]
  /\ oneshot' = oneshot \ {h}
  /\ trapped' = [trapped EXCEPT ![h] = 0]
  /\ UNCHANGED <<lost, disposition, handlerVars, pipe, loopVars>>

\* uv__signal_start registers the handler for the first watcher, and for a
\* regular one among one-shot ones.  The one-shot flag is never cleared.
Registers(s, once) == Watchers(s) = {} \/ (~once /\ FirstIsOneshot(Watchers(s)))

uv_signal_start(h, s, once) ==
  /\ Mine(h) /\ signum[h] = NoSignal
  /\ lock = NoSignal
  /\ Careful /\ once => Watchers(s) \cap oneshot = {}
  /\ disposition' = IF Registers(s, once)
                    THEN [disposition EXCEPT ![s] = IF once THEN "reset" ELSE "handler"]
                    ELSE disposition
  /\ signum' = [signum EXCEPT ![h] = s]
  /\ oneshot' = IF once THEN oneshot \cup {h} ELSE oneshot
  /\ UNCHANGED <<life, trapped, lost, handlerVars, pipe, loopVars>>

uv_signal_stop(h) ==
  /\ Mine(h) /\ signum[h] # NoSignal
  /\ StopWatcher(h)
  /\ UNCHANGED <<life, oneshot, trapped, handlerVars, pipe, loopVars>>

uv_close(h) ==
  /\ Mine(h)
  /\ StopWatcher(h)
  /\ life' = [life EXCEPT ![h] = "closing"]
  /\ UNCHANGED <<oneshot, trapped, handlerVars, pipe, loopVars>>

\* uv__finish_close puts the handle back on the closing list as long as it has
\* signals that were caught and not dispatched.
AnyDispatched(h) == TRUE
AllDispatched(h) == trapped[h] <= 0

FinishClose(h) ==
  /\ pc[LoopOf[h]] = "loop"
  /\ life[h] = "closing"
  /\ AllDispatched(h)
  /\ life' = [life EXCEPT ![h] = "none"]
  /\ UNCHANGED <<signum, oneshot, trapped, lost, disposition, handlerVars, pipe, loopVars>>

-----------------------------------------------------------------------------
(* uv__signal_handler.  The kernel resets the disposition when it calls a   *)
(* handler installed with SA_RESETHAND, before the handler has the lock.    *)

Raise(s) ==
  /\ disposition[s] # "default" /\ s \notin raised
  /\ raised' = raised \cup {s}
  /\ disposition' = [disposition EXCEPT ![s] = IF @ = "reset" THEN "default" ELSE @]
  /\ UNCHANGED <<handleVars, lost, lock, walk, written, pipe, loopVars>>

HandlerLock(s) ==
  /\ s \in raised /\ lock = NoSignal
  /\ lock' = s
  /\ walk' = InOrder(s)
  /\ UNCHANGED <<handleVars, lost, disposition, raised, written, pipe, loopVars>>

\* One message; what a full pipe swallows is not counted as caught.
HandlerWrite ==
  /\ walk # <<>> /\ ~written
  /\ LET h == Head(walk)
         l == LoopOf[h]
     IN IF Len(pipe[l]) < PipeSize
          THEN /\ pipe' = [pipe EXCEPT ![l] = Append(@, [handle |-> h, signum |-> lock])]
               /\ written' = TRUE
               /\ UNCHANGED <<walk, lost>>
          ELSE /\ walk' = Tail(walk)
               /\ lost' = lost \cup ({h} \cap oneshot)
               /\ UNCHANGED <<pipe, written>>
  /\ UNCHANGED <<handleVars, disposition, raised, lock, loopVars>>

HandlerCount ==
  /\ written
  /\ written' = FALSE
  /\ trapped' = [trapped EXCEPT ![Head(walk)] = @ + 1]
  /\ walk' = Tail(walk)
  /\ UNCHANGED <<life, signum, oneshot, lost, disposition, raised, lock, pipe, loopVars>>

HandlerUnlock ==
  /\ lock # NoSignal /\ walk = <<>>
  /\ lock' = NoSignal
  /\ raised' = raised \ {lock}
  /\ UNCHANGED <<handleVars, lost, disposition, walk, written, pipe, loopVars>>

-----------------------------------------------------------------------------
(* uv__signal_event *)

\* read(2): as many messages as fit.
Least(a, b) == IF a < b THEN a ELSE b
Batch(l) == Least(Len(pipe[l]), BufSize)

Read(l) ==
  /\ \/ pc[l] = "loop"
     \/ pc[l] = "next" /\ buf[l] = <<>> /\ full[l]
  /\ pipe[l] # <<>>
  /\ buf' = [buf EXCEPT ![l] = SubSeq(pipe[l], 1, Batch(l))]
  /\ pipe' = [pipe EXCEPT ![l] = SubSeq(@, Batch(l) + 1, Len(@))]
  /\ full' = [full EXCEPT ![l] = Batch(l) = BufSize]
  /\ pc' = [pc EXCEPT ![l] = "next"]
  /\ UNCHANGED <<handleVars, lost, disposition, handlerVars>>

\* The user is called if the handle still watches the signal of the message.
Due(m) == m.signum = signum[m.handle]

Dispatch(l) ==
  /\ pc[l] = "next" /\ buf[l] # <<>>
  /\ pc' = [pc EXCEPT ![l] = IF Due(Head(buf[l])) THEN "cb" ELSE "after"]
  /\ UNCHANGED <<handleVars, lost, disposition, handlerVars, pipe, buf, full>>

CallbackReturns(l) ==
  /\ pc[l] = "cb"
  /\ pc' = [pc EXCEPT ![l] = "after"]
  /\ UNCHANGED <<handleVars, lost, disposition, handlerVars, pipe, buf, full>>

\* dispatched_signals++, and the end of a one-shot watcher.
Dispatched(l) ==
  LET h == Head(buf[l]).handle
  IN /\ pc[l] = "after"
     /\ trapped' = [trapped EXCEPT ![h] = @ - 1]
     /\ IF h \in oneshot THEN StopWatcher(h) ELSE UNCHANGED <<signum, lost, disposition>>
     /\ buf' = [buf EXCEPT ![l] = Tail(@)]
     /\ pc' = [pc EXCEPT ![l] = "next"]
     /\ UNCHANGED <<life, oneshot, handlerVars, pipe, full>>

EventDone(l) ==
  /\ pc[l] = "next" /\ buf[l] = <<>>
  /\ ~full[l] \/ pipe[l] = <<>>
  /\ full' = [full EXCEPT ![l] = FALSE]
  /\ pc' = [pc EXCEPT ![l] = "loop"]
  /\ UNCHANGED <<handleVars, lost, disposition, handlerVars, pipe, buf>>

-----------------------------------------------------------------------------
User(h) == \/ uv_signal_init(h) \/ uv_signal_stop(h) \/ uv_close(h)
           \/ \E s \in Signums, once \in BOOLEAN : uv_signal_start(h, s, once)

HandlerStep == (\E s \in Signums : HandlerLock(s)) \/ HandlerWrite \/ HandlerCount \/ HandlerUnlock

EventStep(l) == Read(l) \/ Dispatch(l) \/ CallbackReturns(l) \/ Dispatched(l) \/ EventDone(l)

Next == \/ \E h \in Handles : User(h) \/ FinishClose(h)
        \/ \E s \in Signums : Raise(s)
        \/ HandlerStep
        \/ \E l \in Loops : EventStep(l)

Spec == Init /\ [][Next]_vars

-----------------------------------------------------------------------------
(* Properties *)

\* The messages on their way through a loop, and those of them to a handle, by
\* their places.
Caught(l) == buf[l] \o pipe[l]
MessagesTo(h) == {i \in 1..Len(Caught(LoopOf[h])) : Caught(LoopOf[h])[i].handle = h}

\* The comment in uv__finish_close: a handle is not given back while a message
\* that points to it is in a pipe or in uv__signal_event's buffer, or while a
\* signal handler on another thread is about to count one; the two counters
\* that decide this are exact although the handler counts after it writes and
\* the loop may dispatch in between.
NoStaleHandle ==
  \A h \in Handles :
    /\ trapped[h] = Cardinality(MessagesTo(h)) - IF written /\ Head(walk) = h THEN 1 ELSE 0
    /\ life[h] = "none" => MessagesTo(h) = {} /\ ~Contains(walk, h)

\* A signal that is watched has its handler, in any loop and whatever mixture
\* of regular and one-shot watchers come and go: a signal is not lost, and does
\* not kill the process, because the last of the others has gone.  While a
\* one-shot signal is on its way there may be none, and none is left for a
\* one-shot watcher whose signal a full pipe has swallowed.
HandlerInstalled ==
  \A s \in Signums : \A h \in Watchers(s) :
    \/ disposition[s] # "default"
    \/ s \in raised
    \/ \E i \in MessagesTo(h) : Caught(LoopOf[h])[i].signum = s
    \/ h \in lost

\* What signal handles promise at any time: both of the above.
SignalPromise == NoStaleHandle /\ HandlerInstalled

\* Once signals stop coming, all that were caught reach their loops and every
\* closed handle is given back.
SignalsDrain ==
  <>[](raised = {}) =>
    /\ \A l \in Loops : []<>(pc[l] = "loop" /\ pipe[l] = <<>>)
    /\ \A h \in Handles : []<>(life[h] # "closing")
=============================================================================
