------------------------------ MODULE PollHandle ------------------------------
(***************************************************************************)
(* Two kinds of handles that watch descriptors: uv_poll_t, whose descriptor*)
(* belongs to the user (poll.c), and streams, which own theirs and start   *)
(* and stop watching for one event at a time (stream.c, seen from epoll).  *)
(***************************************************************************)
EXTENDS IoPoll

CONSTANTS
  Streams,     \* the handles that are streams; the others are uv_poll_t
  EarlyClose   \* the user closes a descriptor after uv_poll_stop already,
               \* and not only after uv_close

ASSUME StreamsAssumption == Streams \subseteq IoHandles /\ EarlyClose \in BOOLEAN

VARIABLES
  life,    \* "none", "open", "closing"; "idle" if its descriptor is closed
  active,  \* the uv_poll_t that are active
  in_cb    \* a callback of uv__io_poll runs

vars == <<ioVars, life, active, in_cb>>

Polls == IoHandles \ Streams

Init == /\ IoInit
        /\ life = [w \in IoHandles |-> "none"]
        /\ active = {}
        /\ in_cb = FALSE

UserCode == pollpc = "out" \/ in_cb

\* The descriptor of a stream, or of a handle that is going to be started.
Used(f) == \E w \in IoHandles : life[w] = "open" /\ fd[w] = f

-----------------------------------------------------------------------------
(* uv_poll_t                                                                *)

\* The user opens a descriptor: it gets a number that is free.
Open(f) == /\ f \notin files
           /\ files' = files \cup {f}
           /\ UNCHANGED <<fd, events, pevents, tableVars, pollVars, epoll, junk, life, active>>

\* uv_poll_init: uv__io_check_fd adds the descriptor to epoll and removes it.
uv_poll_init(w, f) ==
  /\ life[w] = "none"
  /\ f \in files /\ ~Used(f)
  /\ ~fd_exists(f)
  /\ life' = [life EXCEPT ![w] = "open"]
  /\ fd' = [fd EXCEPT ![w] = f]
  /\ events' = [events EXCEPT ![w] = {}]
  /\ pevents' = [pevents EXCEPT ![w] = {}]
  /\ epoll' = Deleted(f)
  /\ UNCHANGED <<tableVars, pollVars, files, junk, active>>

\* uv__poll_stop, for uv_poll_stop and uv_close.
StopPoll(w) ==
  /\ uv__io_stop(w, Events)
  /\ active' = active \ {w}
  /\ invalidate_fd(fd[w])
  /\ UNCHANGED <<fd, pollpc, full, files, junk>>

uv_poll_stop(w) == life[w] = "open" /\ StopPoll(w) /\ UNCHANGED life

\* uv_poll_start: UV_EEXIST if another handle watches the descriptor; else
\* uv__poll_stop, which leaves empty masks and an unlinked node, and
\* uv__io_start.
uv_poll_start(w, mask) ==
  /\ life[w] = "open"
  /\ fd_exists(fd[w]) => watchers[fd[w]] = w
  /\ pevents' = [pevents EXCEPT ![w] = mask]
  /\ events' = [events EXCEPT ![w] = {}]
  /\ watcher_queue' = Append(Unlink(watcher_queue, w), w)
  /\ watchers' = [watchers EXCEPT ![fd[w]] = w]
  /\ nfds' = IF watchers[fd[w]] = w THEN nfds ELSE nfds + 1
  /\ nwatchers' = Resized(fd[w])
  /\ invalidate_fd(fd[w])
  /\ active' = active \cup {w}
  /\ UNCHANGED <<fd, pollpc, full, files, junk, life>>

ClosePoll(w) ==
  /\ life[w] \in {"open", "idle"}
  /\ life' = [life EXCEPT ![w] = "closing"]
  /\ StopPoll(w)

\* The user closes a descriptor that no handle uses any more; a uv_poll_t that
\* was on it can only be closed.
Close(f) ==
  /\ f \in files
  /\ \A w \in IoHandles : life[w] = "open" /\ fd[w] = f =>
       EarlyClose /\ w \in Polls \ active
  /\ CloseFile(f, epoll, batch)
  /\ life' = [w \in IoHandles |-> IF life[w] = "open" /\ fd[w] = f THEN "idle" ELSE life[w]]
  /\ UNCHANGED <<fd, events, pevents, tableVars, pollpc, full, active>>

-----------------------------------------------------------------------------
(* Streams                                                                  *)

\* A connection is accepted or made, on a number that is free.
uv__stream_open(w, f) ==
  /\ life[w] = "none"
  /\ f \notin files
  /\ files' = files \cup {f}
  /\ life' = [life EXCEPT ![w] = "open"]
  /\ fd' = [fd EXCEPT ![w] = f]
  /\ events' = [events EXCEPT ![w] = {}]
  /\ pevents' = [pevents EXCEPT ![w] = {}]
  /\ UNCHANGED <<tableVars, pollVars, epoll, junk, active>>

\* uv_read_start and uv_read_stop, and the same for writing.
StartStream(w, e) ==
  /\ life[w] = "open"
  /\ e \notin pevents[w]
  /\ uv__io_start(w, {e})
  /\ UNCHANGED <<fd, pollVars, kernelVars, life, active>>

StopStream(w, e) ==
  /\ life[w] = "open"
  /\ e \in pevents[w]
  /\ uv__io_stop(w, {e})
  /\ UNCHANGED <<fd, pollVars, kernelVars, life, active>>

\* uv__stream_close: uv__io_close, then close(2).
uv__stream_close(w) ==
  /\ life[w] = "open"
  /\ life' = [life EXCEPT ![w] = "closing"]
  /\ uv__io_stop(w, Events)
  /\ CloseFile(fd[w], Deleted(fd[w]), Invalidated(fd[w]))
  /\ fd' = [fd EXCEPT ![w] = -1]
  /\ UNCHANGED <<pollpc, full, active>>

-----------------------------------------------------------------------------
User ==
  /\ UserCode
  /\ \/ \E f \in Fds : Open(f) \/ Close(f)
     \/ \E w \in Polls : \/ uv_poll_stop(w) \/ ClosePoll(w)
                         \/ \E f \in Fds : uv_poll_init(w, f)
                         \/ \E mask \in (SUBSET Events) \ {{}} : uv_poll_start(w, mask)
     \/ \E w \in Streams : \/ uv__stream_close(w)
                           \/ \E f \in Fds : uv__stream_open(w, f)
                           \/ \E e \in Events : StartStream(w, e) \/ StopStream(w, e)
  /\ UNCHANGED in_cb

\* The close callbacks run outside uv__io_poll; the memory is free again.
FinishClose(w) ==
  /\ pollpc = "out"
  /\ life[w] = "closing"
  /\ life' = [life EXCEPT ![w] = "none"]
  /\ fd' = [fd EXCEPT ![w] = -1]
  /\ UNCHANGED <<events, pevents, tableVars, pollVars, kernelVars, active, in_cb>>

\* uv__io_poll calls w->cb.  uv__poll_io stops the handle on an error before
\* it calls the user.
Callback ==
  /\ Due /\ ~in_cb
  /\ in_cb' = TRUE
  /\ batch' = Tail(batch)
  /\ LET w == watchers[Head(batch).fd]
         m == Given(Head(batch))
     IN IF w \in Polls /\ "err" \in m /\ "pri" \notin m
          THEN uv__io_stop(w, Events) /\ active' = active \ {w}
          ELSE UNCHANGED <<events, pevents, tableVars, active>>
  /\ UNCHANGED <<fd, pollpc, full, kernelVars, life>>

CallbackReturns == in_cb /\ in_cb' = FALSE /\ UNCHANGED <<ioVars, life, active>>

IoStep ==
  /\ ~in_cb
  /\ Poll \/ Register \/ Registered \/ Harvest \/ Timeout \/ Skip \/ BatchDone
  /\ UNCHANGED <<life, active, in_cb>>

Next == User \/ (\E w \in IoHandles : FinishClose(w)) \/ Callback \/ CallbackReturns \/ IoStep

Spec == Init /\ [][Next]_vars

-----------------------------------------------------------------------------
(* Properties *)

\* No handle is called for an event of a file that was closed before the
\* event was handled, although callbacks close descriptors and open others
\* with the same numbers while uv__io_poll walks its array, and although other
\* processes may share the files.
NoStaleEvent ==
  /\ junk = {}
  /\ Due /\ ~in_cb => ~Head(batch).stale

\* Whenever the loop waits, the kernel knows the masks the handles asked for
\* and the loop's table agrees: no event that someone waits for is lost, and
\* the loop does not wait with nothing to wait for.
WaitsForWhatIsAsked ==
  /\ nfds = Cardinality({f \in Fds : watchers[f] # NULL})
  /\ \A w \in Polls : w \in active <=> pevents[w] # {}
  /\ \A w \in IoHandles : pevents[w] # {} => watchers[fd[w]] = w
  /\ pollpc = "wait" /\ ~full =>
       \A f \in Fds : watchers[f] # NULL => epoll[f] = pevents[watchers[f]]

\* What polling promises.
PollSound == NoStaleEvent /\ WaitsForWhatIsAsked

\* assert(op == EPOLL_CTL_ADD) in uv__io_poll: what the loop believes to be
\* registered is.
RegistrationSucceeds == pollpc # "aborted"
=============================================================================
