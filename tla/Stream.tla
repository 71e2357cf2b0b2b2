--------------------------------- MODULE Stream ---------------------------------
(***************************************************************************)
(* One connected stream, unix/stream.c with uv_tcp_connect of unix/tcp.c:   *)
(* connecting, writing, reading, shutting down and closing.  The thread is  *)
(* in user code (pc = "user") or at a step of a function of the stream      *)
(* (fn), and every callback on the way may call the stream again.           *)
(*                                                                         *)
(* A request's data is its number of bytes.  The kernel takes any part of   *)
(* it, none for now, or fails.  The handle is active exactly while it reads *)
(* (uv__handle_start and uv__handle_stop go with UV_HANDLE_READING), and    *)
(* alloc_cb makes no calls on the stream.  Listening, descriptors sent over *)
(* IPC pipes, blocking writes and the Apple select thread are left out.     *)
(***************************************************************************)
EXTENDS Integers, Sequences, FiniteSets, SequencesExt, Queue

CONSTANTS
  Writes,         \* the write requests the user has
  Lengths,        \* the bytes a write may have
  MaxWrites,      \* uv__write goes on to another request this often: 32
  MaxReads,       \* uv__read calls read this often: 32
  Careful         \* the user does not call uv_shutdown before connect_cb, nor
                  \* uv_tcp_connect again after a refusal

ASSUME LengthsAssumption == Lengths \subseteq Nat /\ Lengths # {} /\ IsFiniteSet(Lengths)
ASSUME CountsAssumption == MaxWrites \in Nat /\ MaxReads \in Nat \ {0}
ASSUME CarefulAssumption == Careful \in BOOLEAN

VARIABLES
  stream_life,            \* "open", "closing" (fd is -1), "closed"
  sys,                    \* the kernel's socket: "none", "connecting", "up",
                          \* "refused", "reset"
  readable, writable, reading, read_eof, read_partial, shut,  \* handle->flags
  connect_req,            \* connect_req is not NULL
  delayed_error,
  shutdown_req,           \* shutdown_req is not NULL
  write_queue, write_completed_queue,
  pq,                     \* uv__write_callbacks' local queue
  left,                   \* bytes of a request that are not written
  error,                  \* req->error: "ok", "failed" or "ECANCELED"
  write_queue_size,
  stream_reqs,            \* the stream's share of loop->active_reqs
  pevents,                \* io_watcher.pevents
  fed,                    \* io_watcher is on loop->pending_queue
  pc, fn, ret,            \* the next step, the function of the stream the loop
                          \* called, the step after the current callback
  stream_events, count    \* locals of uv__stream_io, uv__read and uv__write

flagVars == <<readable, writable, reading, read_eof, read_partial, shut>>
connVars == <<sys, connect_req, delayed_error>>
queueVars == <<write_queue, write_completed_queue, pq, left, error, write_queue_size>>
ioVars == <<pevents, fed>>
vars == <<stream_life, flagVars, connVars, shutdown_req, queueVars, stream_reqs, ioVars,
          pc, fn, ret, stream_events, count>>

\* uv__stream_init, or a stream uv_accept has opened; uv_tcp_bind may have
\* left a delayed error.
Init ==
  /\ stream_life = "open"
  /\ sys \in {"none", "up"}
  /\ readable = (sys = "up") /\ writable = (sys = "up")
  /\ reading = FALSE /\ read_eof = FALSE /\ read_partial = FALSE /\ shut = FALSE
  /\ connect_req = FALSE
  /\ delayed_error \in {FALSE, sys = "none"}
  /\ shutdown_req = FALSE
  /\ write_queue = <<>> /\ write_completed_queue = <<>> /\ pq = <<>>
  /\ left = [w \in Writes |-> 0]
  /\ error = [w \in Writes |-> "ok"]
  /\ write_queue_size = 0
  /\ stream_reqs = 0
  /\ pevents = {} /\ fed = FALSE
  /\ pc = "user" /\ fn = "none" /\ ret = "none" /\ stream_events = {} /\ count = 0

-----------------------------------------------------------------------------
Waiting == pq \o write_completed_queue \o write_queue
InUse(w) == Linked(Waiting, w)

\* A callback runs; when it returns the thread goes on at step s.
CallThen(s) == pc' = "user" /\ ret' = s

Goto(s) == pc' = s /\ UNCHANGED ret

\* The fd is -1 from uv_close on.
FdClosed == stream_life # "open"

-----------------------------------------------------------------------------
(* The calls of the user, from a callback of the stream or from elsewhere.  *)

\* uv_tcp_connect; a refusal that connect(2) reports at once is delayed.  A
\* user who connects again in a write callback may wait for ever: uv__drain
\* then takes POLLOUT away.
Connect ==
  /\ pc = "user" /\ stream_life = "open"
  /\ ~connect_req
  /\ sys = "none" \/ (sys = "refused" /\ ~Careful)
  /\ IF delayed_error
       THEN UNCHANGED <<sys, delayed_error, readable, writable>>
       ELSE /\ readable' = TRUE /\ writable' = TRUE
            /\ \/ sys' = "connecting" /\ UNCHANGED delayed_error
               \/ sys' = "refused" /\ delayed_error' = TRUE
  /\ connect_req' = TRUE
  /\ stream_reqs' = stream_reqs + 1
  /\ pevents' = pevents \cup {"out"}
  /\ fed' = (fed \/ delayed_error')
  /\ UNCHANGED <<stream_life, reading, read_eof, read_partial, shut, shutdown_req, queueVars,
                 pc, fn, ret, stream_events, count>>

\* uv_write2: the request is queued; it is written at once if nothing waits,
\* which write_queue_size tells.
NothingToWrite == write_queue_size = 0

uv_write(w, n) ==
  /\ pc = "user" /\ stream_life = "open" /\ writable
  /\ ~InUse(w)
  /\ left' = [left EXCEPT ![w] = n]
  /\ error' = [error EXCEPT ![w] = "ok"]
  /\ write_queue_size' = write_queue_size + n
  /\ write_queue' = Append(write_queue, w)
  /\ stream_reqs' = stream_reqs + 1
  /\ IF connect_req
       THEN UNCHANGED <<pevents, pc, count>>
       ELSE IF NothingToWrite
            THEN pc' = "uv_write" /\ count' = MaxWrites /\ UNCHANGED pevents
            ELSE pevents' = pevents \cup {"out"} /\ UNCHANGED <<pc, count>>
  /\ UNCHANGED <<stream_life, flagVars, connVars, shutdown_req, write_completed_queue, pq,
                 fed, fn, ret, stream_events>>

\* uv_shutdown waits for uv__drain; if there is nothing to write it has the
\* watcher run again.  A user who calls it before connect_cb, or after a
\* refused connection, may wait for ever: uv__stream_connect does not drain.
NoFeedForShutdown == fed
FeedForShutdown == fed \/ write_queue = <<>>

uv_shutdown ==
  /\ pc = "user" /\ stream_life = "open" /\ writable
  /\ ~shut /\ ~shutdown_req
  /\ ~Careful \/ (~connect_req /\ sys # "refused")
  /\ shutdown_req' = TRUE
  /\ writable' = FALSE
  /\ stream_reqs' = stream_reqs + 1
  /\ fed' = FeedForShutdown
  /\ UNCHANGED <<stream_life, readable, reading, read_eof, read_partial, shut, connVars, queueVars,
                 pevents, pc, fn, ret, stream_events, count>>

uv_read_start ==
  /\ pc = "user" /\ stream_life = "open"
  /\ ~reading /\ readable
  /\ reading' = TRUE /\ read_eof' = FALSE
  /\ pevents' = pevents \cup {"in"}
  /\ UNCHANGED <<stream_life, readable, writable, read_partial, shut, connVars, shutdown_req,
                 queueVars, stream_reqs, fed, pc, fn, ret, stream_events, count>>

\* What stops reading: the flag and the interest in POLLIN.
StopReading == reading' = FALSE /\ pevents' = pevents \ {"in"}

uv_read_stop ==
  /\ pc = "user" /\ reading
  /\ StopReading
  /\ UNCHANGED <<stream_life, readable, writable, read_eof, read_partial, shut, connVars,
                 shutdown_req, queueVars, stream_reqs, fed, pc, fn, ret, stream_events, count>>

\* uv_close -> uv__stream_close -> uv__io_close: whatever was fed is dropped.
uv_close ==
  /\ pc = "user" /\ stream_life = "open"
  /\ stream_life' = "closing"
  /\ reading' = FALSE /\ readable' = FALSE /\ writable' = FALSE
  /\ pevents' = {} /\ fed' = FALSE
  /\ sys' = "none"
  /\ UNCHANGED <<read_eof, read_partial, shut, connect_req, delayed_error, shutdown_req, queueVars,
                 stream_reqs, pc, fn, ret, stream_events, count>>

User == \/ Connect \/ uv_shutdown \/ uv_read_start \/ uv_read_stop \/ uv_close
        \/ \E w \in Writes, n \in Lengths : uv_write(w, n)

-----------------------------------------------------------------------------
(* The loop calls the stream: uv__stream_io for what uv__io_poll reports,   *)
(* or with POLLOUT for a watcher that was fed.                              *)

AtLoop == pc = "user" /\ fn = "none"

\* uv__stream_connect.  SO_ERROR is 0 as long as the connection is not made.
ConnectError == delayed_error \/ sys = "refused"

StreamConnect ==
  /\ connect_req' = FALSE
  /\ delayed_error' = FALSE
  /\ stream_reqs' = stream_reqs - 1
  /\ pevents' = IF ConnectError \/ write_queue = <<>> THEN pevents \ {"out"} ELSE pevents
  /\ fn' = "connect"
  /\ CallThen(IF ConnectError THEN "flush" ELSE "done")
  /\ UNCHANGED <<stream_life, flagVars, sys, shutdown_req, queueVars, stream_events, count>>

\* uv__stream_io's first branch: uv__read, with the counter of its loop.
Reads(e) == e \cap {"in", "err", "hup"} # {}
StreamIo(e) ==
  /\ fn' = "io" /\ stream_events' = e
  /\ IF Reads(e)
       THEN read_partial' = FALSE /\ count' = MaxReads /\ Goto("read")
       ELSE UNCHANGED <<read_partial, count>> /\ Goto("write_check")
  /\ UNCHANGED <<stream_life, readable, writable, reading, read_eof, shut, connVars, shutdown_req,
                 queueVars, stream_reqs, pevents>>

\* uv__io_poll.  The kernel adds POLLERR and POLLHUP to what was asked for;
\* a socket that is being connected has no events.
PollEvent(e) ==
  /\ AtLoop
  /\ pevents # {}
  /\ e # {} /\ e \cap {"in", "out"} \subseteq pevents
  /\ sys # "connecting"
  /\ IF connect_req THEN StreamConnect ELSE StreamIo(e)
  /\ UNCHANGED fed

\* uv__run_pending.
RunPending ==
  /\ AtLoop /\ fed
  /\ fed' = FALSE
  /\ IF connect_req THEN StreamConnect ELSE StreamIo({"out"})

\* uv__stream_flush_write_queue: what is not written fails, in order.
Flushed == write_completed_queue \o write_queue

Flush ==
  /\ error' = [w \in Writes |-> IF Linked(write_queue, w) THEN "ECANCELED" ELSE error[w]]
  /\ write_completed_queue' = Flushed
  /\ write_queue' = <<>>
  /\ UNCHANGED <<pq, left, write_queue_size>>

\* The end of uv__stream_connect after an error, unless the callback closed.
ConnectFailed ==
  /\ pc = "flush"
  /\ IF FdClosed THEN Goto("done") /\ UNCHANGED queueVars
                 ELSE Goto("callbacks") /\ Flush
  /\ UNCHANGED <<stream_life, flagVars, connVars, shutdown_req, stream_reqs, ioVars, fn,
                 stream_events, count>>

-----------------------------------------------------------------------------
(* uv__read *)

ReadLoop == pc = "read" /\ reading /\ count > 0
ReadStep == /\ count' = count - 1
            /\ UNCHANGED <<stream_life, writable, readable, shut, connVars, shutdown_req, queueVars,
                           stream_reqs, fed, fn, stream_events>>

\* uv__stream_eof.
StreamEof == StopReading /\ read_eof' = TRUE

\* A full buffer: go on.  A short one: remember it, once the callback is over.
ReadData ==
  /\ ReadLoop /\ ReadStep
  /\ CallThen("read") \/ CallThen("read_short")
  /\ UNCHANGED <<reading, read_eof, read_partial, pevents>>

\* UV_ENOBUFS from alloc_cb, or EAGAIN.
ReadNothing ==
  /\ ReadLoop /\ ReadStep
  /\ CallThen("read_done")
  /\ pevents' = pevents \cup {"in"}
  /\ UNCHANGED <<reading, read_eof, read_partial>>

ReadEof == ReadLoop /\ ReadStep /\ StreamEof /\ CallThen("read_done") /\ UNCHANGED read_partial

\* An error; the flag is cleared after the callback, if the user left it.
ReadError ==
  /\ ReadLoop
  /\ readable' = FALSE /\ writable' = FALSE
  /\ CallThen("read_error")
  /\ count' = count - 1
  /\ UNCHANGED <<stream_life, reading, read_eof, read_partial, shut, connVars, shutdown_req,
                 queueVars, stream_reqs, ioVars, fn, stream_events>>

AfterReadCallback ==
  /\ \/ pc = "read_short" /\ read_partial' = TRUE /\ UNCHANGED <<reading, pevents>>
     \/ pc = "read_error" /\ UNCHANGED read_partial
        /\ IF reading THEN StopReading ELSE UNCHANGED <<reading, pevents>>
     \/ pc = "read" /\ ~ReadLoop /\ UNCHANGED <<read_partial, reading, pevents>>
  /\ Goto("read_done")
  /\ UNCHANGED <<stream_life, readable, writable, read_eof, shut, connVars, shutdown_req, queueVars,
                 stream_reqs, fed, fn, stream_events, count>>

\* Back in uv__stream_io: a hangup after a short read is the end of the file.
ReadDone ==
  /\ pc = "read_done"
  /\ IF FdClosed
       THEN Goto("done") /\ UNCHANGED <<reading, read_eof, pevents>>
       ELSE IF "hup" \in stream_events /\ reading /\ read_partial /\ ~read_eof
            THEN StreamEof /\ CallThen("write_check")
            ELSE Goto("write_check") /\ UNCHANGED <<reading, read_eof, pevents>>
  /\ UNCHANGED <<stream_life, readable, writable, read_partial, shut, connVars, shutdown_req,
                 queueVars, stream_reqs, fed, fn, stream_events, count>>

-----------------------------------------------------------------------------
(* uv__write, called by uv_write2 or by uv__stream_io.                      *)

Writing == pc \in {"uv_write", "io_write"}
WriteReturns == Goto(IF pc = "uv_write" THEN "user" ELSE "callbacks")
WriteUnchanged ==
  UNCHANGED <<stream_life, flagVars, connVars, shutdown_req, stream_reqs, fn, stream_events>>

WriteCheck ==
  /\ pc = "write_check"
  /\ IF ~FdClosed /\ stream_events \cap {"out", "err", "hup"} # {}
       THEN Goto("io_write") /\ count' = MaxWrites
       ELSE Goto("done") /\ UNCHANGED count
  /\ WriteUnchanged /\ UNCHANGED <<queueVars, ioVars>>

WriteEmpty ==
  /\ Writing /\ write_queue = <<>>
  /\ WriteReturns
  /\ WriteUnchanged /\ UNCHANGED <<queueVars, ioVars, count>>

\* uv__write_req_finish: the request moves to the completed ones, and the
\* watcher is fed, or nobody would call its callback.
Finish == /\ write_queue' = Tail(write_queue)
          /\ write_completed_queue' = Append(write_completed_queue, Head(write_queue))
          /\ fed' = TRUE

\* The kernel takes n bytes: the request is done, or POLLOUT tells when to
\* go on.
WriteSent(n) ==
  /\ Writing /\ write_queue # <<>>
  /\ sys = "up"
  /\ LET w == Head(write_queue)
     IN /\ n <= left[w] /\ (n = 0 => left[w] = 0)
        /\ left' = [left EXCEPT ![w] = @ - n]
        /\ write_queue_size' = write_queue_size - n
        /\ IF n = left[w]
             THEN /\ Finish /\ UNCHANGED pevents
                  /\ IF count > 0 THEN count' = count - 1 /\ UNCHANGED <<pc, ret>>
                                  ELSE WriteReturns /\ UNCHANGED count
             ELSE /\ pevents' = pevents \cup {"out"} /\ WriteReturns
                  /\ UNCHANGED <<write_queue, write_completed_queue, fed, count>>
  /\ WriteUnchanged /\ UNCHANGED <<pq, error>>

\* EAGAIN.
WriteAgain ==
  /\ Writing /\ write_queue # <<>>
  /\ sys \in {"up", "connecting"}
  /\ pevents' = pevents \cup {"out"}
  /\ WriteReturns
  /\ WriteUnchanged /\ UNCHANGED <<queueVars, fed, count>>

WriteError ==
  /\ Writing /\ write_queue # <<>>
  /\ sys # "connecting"
  /\ sys' = IF sys = "up" THEN "reset" ELSE sys
  /\ error' = [error EXCEPT ![Head(write_queue)] = "failed"]
  /\ Finish
  /\ pevents' = pevents \ {"out"}
  /\ WriteReturns
  /\ UNCHANGED <<stream_life, flagVars, connect_req, delayed_error, shutdown_req, stream_reqs, fn,
                 stream_events, pq, left, write_queue_size, count>>

-----------------------------------------------------------------------------
(* uv__write_callbacks and uv__drain *)

WriteCallbacks ==
  /\ pc = "callbacks"
  /\ pq' = write_completed_queue
  /\ write_completed_queue' = <<>>
  /\ Goto("next_callback")
  /\ UNCHANGED <<stream_life, flagVars, connVars, shutdown_req, write_queue, left, error,
                 write_queue_size, stream_reqs, ioVars, fn, stream_events, count>>

\* A failed request gives its bytes back only now; its memory is the user's
\* again when the callback is called.
GivenBackForgotten(w) == write_queue_size
GivenBack(w) == write_queue_size - left[w]

NextCallback ==
  /\ pc = "next_callback" /\ pq # <<>>
  /\ pq' = Tail(pq)
  /\ stream_reqs' = stream_reqs - 1
  /\ write_queue_size' = GivenBack(Head(pq))
  /\ left' = [left EXCEPT ![Head(pq)] = 0]
  /\ error' = [error EXCEPT ![Head(pq)] = "ok"]
  /\ CallThen("next_callback")
  /\ UNCHANGED <<stream_life, flagVars, connVars, shutdown_req, write_queue, write_completed_queue,
                 ioVars, fn, stream_events, count>>

\* uv__stream_io drains if callbacks have queued nothing, uv__stream_destroy
\* always, uv__stream_connect never.
CallbacksDone ==
  /\ pc = "next_callback" /\ pq = <<>>
  /\ Goto(IF fn = "destroy" \/ (fn = "io" /\ write_queue = <<>>) THEN "drain" ELSE "done")
  /\ UNCHANGED <<stream_life, flagVars, connVars, shutdown_req, queueVars, stream_reqs, ioVars, fn,
                 stream_events, count>>

\* shutdown(2) happens here, after the last byte, unless the stream is closed.
uv__drain ==
  /\ pc = "drain"
  /\ pevents' = IF stream_life = "open" THEN pevents \ {"out"} ELSE pevents
  /\ IF shutdown_req
       THEN /\ shutdown_req' = FALSE
            /\ stream_reqs' = stream_reqs - 1
            /\ IF stream_life = "open" THEN shut' \in BOOLEAN ELSE UNCHANGED shut
            /\ CallThen("done")
       ELSE Goto("done") /\ UNCHANGED <<shutdown_req, stream_reqs, shut>>
  /\ UNCHANGED <<stream_life, readable, writable, reading, read_eof, read_partial, connVars,
                 queueVars, fed, fn, stream_events, count>>

-----------------------------------------------------------------------------
(* uv__finish_close -> uv__stream_destroy, when the loop runs the closing   *)
(* handles.                                                                 *)

StreamDestroy ==
  /\ AtLoop /\ stream_life = "closing"
  /\ stream_life' = "closed"
  /\ fn' = "destroy"
  /\ IF connect_req
       THEN stream_reqs' = stream_reqs - 1 /\ CallThen("destroy")
       ELSE UNCHANGED stream_reqs /\ Goto("destroy")
  /\ UNCHANGED <<flagVars, connVars, shutdown_req, queueVars, ioVars, stream_events, count>>

DestroyFlush ==
  /\ pc = "destroy"
  /\ connect_req' = FALSE
  /\ Flush
  /\ Goto("callbacks")
  /\ UNCHANGED <<stream_life, flagVars, sys, delayed_error, shutdown_req, stream_reqs, ioVars, fn,
                 stream_events, count>>

-----------------------------------------------------------------------------
CallbackReturns ==
  /\ pc = "user" /\ fn # "none"
  /\ pc' = ret /\ ret' = "none"
  /\ UNCHANGED <<stream_life, flagVars, connVars, shutdown_req, queueVars, stream_reqs, ioVars, fn,
                 stream_events, count>>

\* Back in the loop.  The locals are dead, and so are the two flags that only
\* a call of uv__stream_io reads after it has read from the socket.
Done ==
  /\ pc = "done"
  /\ pc' = "user" /\ fn' = "none" /\ stream_events' = {} /\ count' = 0
  /\ read_partial' = FALSE /\ read_eof' = FALSE
  /\ UNCHANGED <<stream_life, readable, writable, reading, shut, connVars, shutdown_req, queueVars,
                 stream_reqs, ioVars, ret>>

\* The kernel makes or refuses the connection; a connection may be reset.
Kernel ==
  /\ sys = "connecting" /\ sys' \in {"up", "refused"}
  /\ UNCHANGED <<stream_life, flagVars, connect_req, delayed_error, shutdown_req, queueVars,
                 stream_reqs, ioVars, pc, fn, ret, stream_events, count>>

StreamStep ==
  \/ ConnectFailed \/ ReadData \/ ReadNothing \/ ReadEof \/ ReadError \/ AfterReadCallback
  \/ ReadDone \/ WriteCheck \/ WriteEmpty \/ WriteAgain \/ WriteError
  \/ (\E n \in 0..Max(Lengths) : WriteSent(n))
  \/ WriteCallbacks \/ NextCallback \/ CallbacksDone \/ uv__drain \/ DestroyFlush
  \/ CallbackReturns \/ Done

\* The sets of events uv__stream_io tells apart; others act like one of them.
EventSets == {{"in"}, {"out"}, {"in", "out"}, {"err"}, {"hup"}}
Finished == AtLoop /\ stream_life = "closed" /\ UNCHANGED vars

Next == \/ User \/ StreamStep \/ RunPending \/ StreamDestroy \/ Kernel
        \/ \E e \in EventSets : PollEvent(e)
        \/ Finished

Spec == Init /\ [][Next]_vars

-----------------------------------------------------------------------------
(* Properties *)

TypeOK ==
  /\ stream_life \in {"open", "closing", "closed"}
  /\ sys \in {"none", "connecting", "up", "refused", "reset"}
  /\ {readable, writable, reading, read_eof, read_partial, shut, connect_req,
      delayed_error, shutdown_req, fed} \subseteq BOOLEAN
  /\ {write_queue, write_completed_queue, pq} \subseteq Seq(Writes)
  /\ left \in [Writes -> 0..Max(Lengths)]
  /\ error \in [Writes -> {"ok", "failed", "ECANCELED"}]
  /\ write_queue_size \in Nat /\ stream_reqs \in Nat
  /\ pevents \subseteq {"in", "out"}
  /\ fn \in {"none", "io", "connect", "destroy"}
  /\ count \in 0..Max({MaxReads, MaxWrites})
  /\ AtLoop => ret = "none" /\ pq = <<>>

\* The assertions of uv__write_req_size and uv__stream_destroy: whatever order
\* of partial writes, errors, cancellations and closing, write_queue_size is
\* what the requests that wait have left, so that it comes back to zero and
\* uv_write2 writes at once again; and the loop's count of active requests is
\* theirs, so that uv_run ends.
Accounting ==
  /\ write_queue_size =
       FoldFunctionOnSet(+, 0, left, {w \in Writes : InUse(w)})
  /\ \A w \in Writes : Occurrences(Waiting, w) <= 1
  /\ stream_reqs = Len(Waiting) + Cardinality({x \in {"shutdown"} : shutdown_req})
                    + Cardinality({x \in {"connect"} : connect_req /\ stream_life # "closed"})
  /\ stream_life = "closed" /\ fn = "none" => stream_reqs = 0 /\ pevents = {} /\ ~fed

\* Callbacks of write requests come in the order of the calls, although
\* requests go through three queues and callbacks write again, and a request
\* is reported written if and only if all its bytes were taken.
CallbacksInOrder ==
  [][\/ Waiting' = Waiting
     \/ \E w \in Writes : Waiting' = Append(Waiting, w)
     \/ /\ Waiting' = Tail(Waiting) /\ pc = "next_callback"
        /\ error[Head(Waiting)] = "ok" => left[Head(Waiting)] = 0
        /\ left[Head(Waiting)] = 0 => 
             error[Head(Waiting)] = "ok" \/ 0 \in Lengths]_vars

\* What a stream promises, but for the end of its requests.
StreamPromise == [](TypeOK /\ Accounting) /\ CallbacksInOrder

\* Every connect and shutdown request gets its callback, and while writes wait
\* another write callback comes: being in order, every write gets its own.
RequestsComplete ==
  /\ []<>(Waiting = <<>> \/ (pc = "next_callback" /\ pq # <<>>))
  /\ []<>~shutdown_req
  /\ []<>~connect_req
=============================================================================
