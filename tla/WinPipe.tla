-------------------------------- MODULE WinPipe --------------------------------
(***************************************************************************)
(* A connected pipe on Windows (win/pipe.c).  To learn of data it reads    *)
(* zero bytes: an overlapped pipe in the kernel, another in a thread that  *)
(* is stopped by cancelling what it blocks in.  Writes of the latter are   *)
(* made by threads, one at a time.  A shutdown waits for the writes, and   *)
(* then some time for the other end to finish.  IPC pipes carry frames of  *)
(* a header, perhaps a socket, and data.                                   *)
(***************************************************************************)
EXTENDS Integers, Sequences, SequencesExt, FiniteSets

CONSTANTS
  PipeWrites,  \* the number of write requests,
  DuplexWrites,\* and how many of them the user makes on a pipe that is read, too
  PipeModes,   \* <<kind, ipc>>: "overlapped" or "threads", and whether it is an IPC pipe
  PlainUnits,  \* how much the other end writes into a pipe that is not IPC
  IpcFrames    \* what it writes into an IPC pipe: [socket : BOOLEAN, len : Nat], in order

ASSUME WinPipeAssumption ==
  /\ PipeModes \subseteq {"overlapped", "threads"} \X BOOLEAN /\ PlainUnits \in Nat
  /\ PipeWrites \in Nat /\ DuplexWrites \in 0..PipeWrites
  /\ IpcFrames \in Seq([socket : BOOLEAN, len : Nat])

\* The write requests, in the order in which the user makes them.
Writes == 1..PipeWrites

VARIABLES
  pipe_kind, ipc,
  pipe_life,     \* "open", "closing", "endgame" (wanted) or "closed"
  pipe_handle,   \* handle->handle: "open" or "closed"
  pipe_flags,    \* of "reading", "read_pending", "cancellation_pending", "readable", "writable"
  pipe_reqs,     \* reqs_pending
  pipe_active,   \* activecnt
  read_at,       \* the read request: "idle", "queued" (no thread yet), "marked" (before
                 \* ReadFile), "blocked", "past" ReadFile, "acked" or "port"
  read_result,   \* "data", "broken", "aborted" or "error"
  thread_handle, \* readfile_thread_handle: "NULL", "thread" or "INVALID"
  write_at,      \* of each write: "new", "list", "kernel", "port", "callback" or "done"
  write_list,    \* non_overlapped_writes_tail, the first one first
  write_pending, \* write_reqs_pending
  shutdown_at,   \* the shutdown request: "none", "waiting", "flush", "port", "callback"
                 \* or "done"
  shutdown_error,
  eof_timer,     \* "NULL", "stopped" or "running"
  remaining,     \* ipc_data_frame.payload_remaining
  xfer_queue,    \* ipc_xfer_queue_length
  port_reqs,     \* completed requests, the first one first
  pipe_at,       \* where the loop is: "idle", "reading", "callback", "interrupt",
                 \* "cancel" or "look" (in uv__pipe_interrupt_read)
  pipe_cb,       \* the callback that runs: "read", "write", "shutdown", "timer" or "none"
  avail,         \* of uv__process_pipe_read_req
  for_close,     \* uv__pipe_interrupt_read is called by uv__pipe_close
  peer,          \* the other end: "open" or "closed"
  peer_sent, been_read, \* units in and out of the pipe
  out_order, out_taken, \* writes that are in the pipe, and how many the other end has read
  told_eof       \* history: read_cb was called with UV_EOF

readVars == <<read_at, read_result, thread_handle, eof_timer, remaining, xfer_queue, avail>>
writeVars == <<write_at, write_list, write_pending>>
shutdownVars == <<shutdown_at, shutdown_error>>
peerVars == <<peer, peer_sent, been_read, out_order, out_taken>>
fixedVars == <<pipe_kind, ipc>>
countVars == <<pipe_flags, pipe_reqs, pipe_active>>
loopAtVars == <<pipe_at, pipe_cb, for_close>>
winPipeVars == <<fixedVars, pipe_life, pipe_handle, countVars, readVars, writeVars, shutdownVars,
                 port_reqs, loopAtVars, peerVars, told_eof>>

\* What the other end writes, unit by unit.
Unit(what, f) == [is |-> what, of |-> f]
FrameUnits(f) ==
  <<Unit("header", f)>> \o (IF f.socket THEN <<Unit("socket", f)>> ELSE <<>>) \o [i \in 1..f.len |-> Unit("data", f)]
Incoming == IF ipc THEN FoldLeft(LAMBDA s, f : s \o FrameUnits(f), <<>>, IpcFrames)
                   ELSE [i \in 1..PlainUnits |-> Unit("data", [socket |-> FALSE, len |-> PlainUnits])]

\* uv__pipe_connection_init, uv__set_pipe_handle.
WinPipeInit ==
  /\ \E m \in PipeModes : pipe_kind = m[1] /\ ipc = m[2]
  /\ pipe_life = "open" /\ pipe_handle = "open"
  /\ pipe_flags \in {{"readable", "writable"}} \cup (IF ipc THEN {} ELSE {{"writable"}})
  /\ pipe_reqs = 0 /\ pipe_active = 0
  /\ read_at = "idle" /\ read_result = "data" /\ thread_handle = "NULL"
  /\ write_at = [w \in Writes |-> "new"] /\ write_list = <<>> /\ write_pending = 0
  /\ shutdown_at = "none" /\ shutdown_error = FALSE /\ eof_timer = "NULL"
  /\ remaining = 0 /\ xfer_queue = 0 /\ port_reqs = <<>>
  /\ pipe_at = "idle" /\ pipe_cb = "none" /\ avail = 0 /\ for_close = FALSE
  /\ peer = "open" /\ peer_sent = 0 /\ been_read = 0 /\ out_order = <<>> /\ out_taken = 0
  /\ told_eof = FALSE

\* The requests, as they are in the port.
ReadReq == [of |-> "read", nr |-> 0]
ShutdownReq == [of |-> "shutdown", nr |-> 0]
WriteReq(w) == [of |-> "write", nr |-> w]

InPipe == peer_sent - been_read
Posted(q) == port_reqs' = Append(port_reqs, q)
\* uv__insert_pending_req, of a shutdown: it may be processed before what is in the port.
PendingInserted(q) == port_reqs' \in {<<q>> \o port_reqs, Append(port_reqs, q)}

PipeUser == pipe_at \in {"idle", "callback"} /\ pipe_life = "open"

-----------------------------------------------------------------------------
(* Reading                                                                  *)

\* uv__pipe_queue_read: it may fail at once, and then the error is pending.
\* flags, active and reqs are those of the caller.
QueueRead(flags) ==
  /\ pipe_flags' = flags \cup {"read_pending"}
  /\ pipe_reqs' = pipe_reqs + 1
  /\ thread_handle' = IF pipe_kind = "threads" THEN "NULL" ELSE thread_handle
  /\ \/ /\ read_at' = IF pipe_kind = "threads" THEN "queued" ELSE "blocked"
        /\ eof_timer' = IF eof_timer = "NULL" THEN "NULL" ELSE "running"
        /\ UNCHANGED <<read_result, port_reqs>>
     \/ /\ read_at' = "port" /\ Posted(ReadReq)
        /\ read_result' = IF peer = "closed" /\ InPipe = 0 THEN "broken" ELSE "error"
        /\ UNCHANGED eof_timer

NoQueueRead(flags) ==
  pipe_flags' = flags /\ UNCHANGED <<pipe_reqs, thread_handle, read_at, eof_timer, read_result, port_reqs>>

\* uv_read_start.  (The user does not read again after the end.)
uv__pipe_read_start ==
  /\ PipeUser /\ ~told_eof
  /\ "readable" \in pipe_flags /\ "reading" \notin pipe_flags
  /\ pipe_active' = pipe_active + 1
  /\ IF "read_pending" \notin pipe_flags THEN QueueRead(pipe_flags \cup {"reading"})
                                         ELSE NoQueueRead(pipe_flags \cup {"reading"})
  /\ UNCHANGED <<fixedVars, pipe_life, pipe_handle, remaining, xfer_queue, avail, writeVars, shutdownVars,
                 loopAtVars, peerVars, told_eof>>

\* A cancelled read of the kernel comes back at once.
CancelRead ==
  IF read_at = "blocked" THEN read_at' = "port" /\ read_result' = "aborted" /\ Posted(ReadReq)
                         ELSE UNCHANGED <<read_at, read_result, port_reqs>>

MustInterrupt ==
  "read_pending" \in pipe_flags /\ "cancellation_pending" \notin pipe_flags /\ pipe_handle = "open"

\* uv__pipe_read_stop
uv__pipe_read_stop ==
  /\ PipeUser /\ "reading" \in pipe_flags
  /\ pipe_active' = pipe_active - 1
  /\ IF MustInterrupt /\ pipe_kind = "overlapped"
       THEN /\ pipe_flags' = (pipe_flags \ {"reading"}) \cup {"cancellation_pending"}
            /\ CancelRead /\ UNCHANGED loopAtVars
       ELSE /\ pipe_flags' = pipe_flags \ {"reading"}
            /\ pipe_at' = IF MustInterrupt THEN "interrupt" ELSE pipe_at
            /\ for_close' = FALSE
            /\ UNCHANGED <<read_at, read_result, port_reqs, pipe_cb>>
  /\ UNCHANGED <<fixedVars, pipe_life, pipe_handle, pipe_reqs, thread_handle, eof_timer, remaining, xfer_queue,
                 avail, writeVars, shutdownVars, peerVars, told_eof>>

\* The rest of uv__pipe_close.
CloseRest ==
  /\ eof_timer' = "NULL"
  /\ pipe_handle' = "closed"
  /\ pipe_life' = IF pipe_reqs = 0 THEN "endgame" ELSE "closing"

CloseFlags == pipe_flags \ {"reading", "readable", "writable"}

uv__pipe_close ==
  /\ PipeUser
  /\ pipe_active' = IF "reading" \in pipe_flags THEN pipe_active - 1 ELSE pipe_active
  /\ IF MustInterrupt /\ pipe_kind = "threads"
       THEN /\ pipe_flags' = CloseFlags
            /\ pipe_life' = "closing" /\ pipe_at' = "interrupt" /\ for_close' = TRUE
            /\ UNCHANGED <<pipe_handle, eof_timer, read_at, read_result, port_reqs, pipe_cb>>
       ELSE /\ pipe_flags' = CloseFlags \cup (IF MustInterrupt THEN {"cancellation_pending"} ELSE {})
            /\ IF MustInterrupt THEN CancelRead ELSE UNCHANGED <<read_at, read_result, port_reqs>>
            /\ CloseRest /\ UNCHANGED loopAtVars
  /\ UNCHANGED <<fixedVars, pipe_reqs, thread_handle, remaining, xfer_queue, avail, writeVars, shutdownVars,
                 peerVars, told_eof>>

-----------------------------------------------------------------------------
(* uv__pipe_interrupt_read, of a read in a thread.  The loop holds the lock *)
(* at "cancel" and "look".                                                  *)

InterruptDone ==
  /\ pipe_flags' = pipe_flags \cup {"cancellation_pending"}
  /\ pipe_at' = IF pipe_cb = "none" THEN "idle" ELSE "callback"
  /\ for_close' = FALSE
  /\ IF for_close THEN CloseRest ELSE UNCHANGED <<eof_timer, pipe_handle, pipe_life>>

InterruptOthers ==
  UNCHANGED <<fixedVars, pipe_reqs, pipe_active, remaining, xfer_queue, avail, writeVars, shutdownVars, pipe_cb,
              peerVars, told_eof>>

EnterAndLook ==
  /\ pipe_at = "interrupt"
  /\ thread_handle' = IF thread_handle = "NULL" THEN "INVALID" ELSE thread_handle
  /\ IF thread_handle = "thread"
       THEN pipe_at' = "cancel" /\ UNCHANGED <<pipe_flags, for_close, eof_timer, pipe_handle, pipe_life>>
       ELSE InterruptDone
  /\ InterruptOthers /\ UNCHANGED <<read_at, read_result, port_reqs>>

\* CancelSynchronousIo; the thread may not be in ReadFile yet, or no longer.
Cancel ==
  /\ pipe_at = "cancel" /\ pipe_at' = "look"
  /\ read_at' = IF read_at = "blocked" THEN "past" ELSE read_at
  /\ read_result' = IF read_at = "blocked" THEN "aborted" ELSE read_result
  /\ InterruptOthers
  /\ UNCHANGED <<thread_handle, port_reqs, pipe_flags, for_close, eof_timer, pipe_handle, pipe_life>>

LookAgain ==
  /\ pipe_at = "look"
  /\ IF thread_handle = "INVALID"
       THEN InterruptDone
       ELSE pipe_at' = "cancel" /\ UNCHANGED <<pipe_flags, for_close, eof_timer, pipe_handle, pipe_life>>
  /\ InterruptOthers /\ UNCHANGED <<read_at, read_result, thread_handle, port_reqs>>

\* readfile_thread_lock is not held by the loop.
LockFree == pipe_at \notin {"cancel", "look"}

ReaderOthers ==
  UNCHANGED <<fixedVars, pipe_life, pipe_handle, countVars, eof_timer, remaining, xfer_queue, avail, writeVars,
              shutdownVars, loopAtVars, peerVars, told_eof>>

\* uv_pipe_zero_readfile_thread_proc, up to ReadFile.
ThreadStarts ==
  /\ read_at = "queued" /\ LockFree
  /\ \/ /\ thread_handle = "INVALID"
        /\ read_at' = "port" /\ read_result' = "aborted" /\ Posted(ReadReq)
        /\ UNCHANGED thread_handle
     \/ /\ thread_handle # "INVALID"
        /\ read_at' = "marked" /\ thread_handle' = "thread"
        /\ UNCHANGED <<read_result, port_reqs>>
     \/ /\ read_at' = "port" /\ read_result' = "error" /\ Posted(ReadReq)   \* no handle of the thread
        /\ UNCHANGED thread_handle
  /\ ReaderOthers

ThreadBlocks ==
  /\ read_at = "marked" /\ read_at' = "blocked"
  /\ ReaderOthers /\ UNCHANGED <<read_result, thread_handle, port_reqs>>

\* ReadFile returns, in the kernel or in the thread.
ReadReturns ==
  /\ read_at = "blocked"
  /\ \/ InPipe > 0 /\ read_result' = "data"
     \/ InPipe = 0 /\ peer = "closed" /\ read_result' = "broken"
     \/ pipe_handle = "closed" /\ read_result' \in {"broken", "aborted", "error"}
  /\ IF pipe_kind = "threads" THEN read_at' = "past" /\ UNCHANGED port_reqs
                              ELSE read_at' = "port" /\ Posted(ReadReq)
  /\ ReaderOthers /\ UNCHANGED thread_handle

ThreadAcks ==
  /\ read_at = "past"
  /\ read_at' = "acked" /\ thread_handle' = "INVALID"
  /\ ReaderOthers /\ UNCHANGED <<read_result, port_reqs>>

\* It takes the lock once more before it leaves.
ThreadEnds ==
  /\ read_at = "acked" /\ LockFree
  /\ read_at' = "port" /\ Posted(ReadReq)
  /\ ReaderOthers /\ UNCHANGED <<read_result, thread_handle>>

Reader == ThreadStarts \/ ThreadBlocks \/ ReadReturns \/ ThreadAcks \/ ThreadEnds

-----------------------------------------------------------------------------
(* uv__process_pipe_read_req                                                *)

\* DECREASE_PENDING_REQ_COUNT
Decreased ==
  /\ pipe_reqs' = pipe_reqs - 1
  /\ pipe_life' = IF pipe_life = "closing" /\ pipe_reqs = 1 THEN "endgame" ELSE pipe_life

\* uv__pipe_read_error_or_eof, where no read is pending.
ReadErrorOrEof(flags, eof) ==
  /\ eof_timer' = "NULL"
  /\ pipe_flags' = flags \ {"reading"}
  /\ pipe_active' = pipe_active - 1
  /\ told_eof' = (told_eof \/ eof)
  /\ pipe_at' = "callback" /\ pipe_cb' = "read" /\ avail' = 0

uv__process_pipe_read_req ==
  /\ pipe_at = "idle" /\ port_reqs # <<>> /\ Head(port_reqs) = ReadReq
  /\ port_reqs' = Tail(port_reqs)
  /\ read_at' = "idle"
  /\ Decreased
  /\ LET flags == pipe_flags \ {"read_pending", "cancellation_pending"}
         goOn == /\ pipe_flags' = flags /\ UNCHANGED <<pipe_active, told_eof, pipe_cb>>
                 /\ eof_timer' = IF eof_timer = "NULL" THEN "NULL" ELSE "stopped"
     IN CASE "reading" \notin flags -> goOn /\ UNCHANGED <<pipe_at, avail>>
          [] "reading" \in flags /\ read_result = "aborted" -> goOn /\ pipe_at' = "reading" /\ avail' = 0
          [] "reading" \in flags /\ read_result \in {"broken", "error"} ->
               ReadErrorOrEof(flags, read_result = "broken")
          [] "reading" \in flags /\ read_result = "data" ->
               IF InPipe = 0 /\ peer = "closed" THEN ReadErrorOrEof(flags, TRUE)   \* PeekNamedPipe
                                                ELSE goOn /\ pipe_at' = "reading" /\ avail' = InPipe
  /\ UNCHANGED <<fixedVars, pipe_handle, read_result, thread_handle, remaining, xfer_queue, writeVars,
                 shutdownVars, for_close, peerVars>>

ReadLoopOthers ==
  UNCHANGED <<fixedVars, pipe_life, pipe_handle, writeVars, shutdownVars, for_close, peer, peer_sent,
              out_order, out_taken>>

MinOf(a, b) == IF a < b THEN a ELSE b
AvailLess(n) == avail' = IF n > avail THEN 0 ELSE avail - n

\* uv__pipe_read_data, into a buffer for one unit or for many; n is 0 if alloc_cb
\* has none.  What remains of an IPC frame limits it.
uv__pipe_read_data(n) ==
  /\ pipe_at = "reading" /\ avail > 0 /\ "reading" \in pipe_flags
  /\ ~ipc \/ remaining > 0
  /\ n \in {0, 1, MinOf(InPipe, IF ipc THEN remaining ELSE InPipe)}
  /\ been_read' = been_read + n
  /\ remaining' = IF ipc THEN remaining - n ELSE remaining
  /\ IF n = 0 THEN avail' = 0 ELSE AvailLess(n)
  /\ pipe_at' = "callback" /\ pipe_cb' = "read"
  /\ ReadLoopOthers
  /\ UNCHANGED <<countVars, read_at, read_result, thread_handle, eof_timer, xfer_queue, port_reqs, told_eof>>

\* uv__pipe_read_ipc at the start of a frame.  It waits for all of the header
\* and of the socket's description.
NextHeader == Incoming[been_read + 1].of
HeaderUnits == IF NextHeader.socket THEN 2 ELSE 1

uv__pipe_read_ipc ==
  /\ pipe_at = "reading" /\ avail > 0 /\ "reading" \in pipe_flags
  /\ ipc /\ remaining = 0
  /\ remaining' = NextHeader.len
  /\ \/ /\ InPipe >= HeaderUnits
        /\ been_read' = been_read + HeaderUnits
        /\ xfer_queue' = xfer_queue + HeaderUnits - 1
        /\ AvailLess(HeaderUnits)
        /\ UNCHANGED <<countVars, eof_timer, told_eof, pipe_at, pipe_cb>>
     \/ /\ InPipe < HeaderUnits /\ peer = "closed"
        /\ been_read' = been_read + InPipe
        /\ ReadErrorOrEof(pipe_flags, TRUE)
        /\ UNCHANGED <<pipe_reqs, xfer_queue>>
  /\ ReadLoopOthers /\ UNCHANGED <<read_at, read_result, thread_handle, port_reqs>>

\* A mutant: a cancelled read is not repeated.
RepeatsIfRead ==
  "reading" \in pipe_flags /\ "read_pending" \notin pipe_flags /\ read_result # "aborted"

\* The user may have stopped, and started again, or closed.
ReadsOn == "reading" \in pipe_flags /\ "read_pending" \notin pipe_flags

\* The end of uv__process_pipe_read_req.
PipeReadDone ==
  /\ pipe_at = "reading" /\ (avail = 0 \/ "reading" \notin pipe_flags)
  /\ pipe_at' = "idle" /\ avail' = 0
  /\ IF ReadsOn THEN QueueRead(pipe_flags) ELSE NoQueueRead(pipe_flags)
  /\ ReadLoopOthers
  /\ UNCHANGED <<pipe_active, remaining, xfer_queue, been_read, pipe_cb, told_eof>>

\* uv__pipe_accept of an IPC pipe.
AcceptsSocket ==
  /\ PipeUser /\ xfer_queue > 0
  /\ xfer_queue' = xfer_queue - 1
  /\ UNCHANGED <<fixedVars, pipe_life, pipe_handle, countVars, read_at, read_result, thread_handle, eof_timer,
                 remaining, avail, writeVars, shutdownVars, port_reqs, loopAtVars, peerVars, told_eof>>

-----------------------------------------------------------------------------
(* Writing and shutdown                                                     *)

\* uv__pipe_shutdown
PipeShutdown ==
  \/ /\ pipe_life # "open" /\ shutdown_at' = "port" /\ shutdown_error' = FALSE
     /\ PendingInserted(ShutdownReq) /\ UNCHANGED pipe_flags
  \/ /\ pipe_life = "open" /\ shutdown_at' = "port" /\ shutdown_error' = TRUE
     /\ PendingInserted(ShutdownReq) /\ pipe_flags' = pipe_flags \cup {"writable"}
  \/ /\ pipe_life = "open" /\ out_taken = Len(out_order)
     /\ shutdown_at' = "port" /\ shutdown_error' = FALSE
     /\ PendingInserted(ShutdownReq) /\ pipe_flags' = pipe_flags \ {"writable"}
  \/ /\ pipe_life = "open" /\ out_taken # Len(out_order)
     /\ shutdown_at' = "flush" /\ shutdown_error' = FALSE
     /\ pipe_flags' = pipe_flags \ {"writable"} /\ UNCHANGED port_reqs

\* uv__pipe_write_data, not of a blocking pipe.
uv__pipe_write(w) ==
  /\ PipeUser /\ "writable" \in pipe_flags
  /\ "readable" \in pipe_flags => w <= DuplexWrites
  /\ write_at[w] = "new" /\ (w > 1 => write_at[w - 1] # "new")
  /\ write_pending' = write_pending + 1
  /\ pipe_reqs' = pipe_reqs + 1 /\ pipe_active' = pipe_active + 1
  /\ IF pipe_kind = "threads" /\ write_pending > 0
       THEN write_at' = [write_at EXCEPT ![w] = "list"] /\ write_list' = Append(write_list, w)
       ELSE write_at' = [write_at EXCEPT ![w] = "kernel"] /\ UNCHANGED write_list
  /\ UNCHANGED <<fixedVars, pipe_life, pipe_handle, pipe_flags, readVars, shutdownVars, port_reqs,
                 loopAtVars, peerVars, told_eof>>

\* The kernel writes in order; WriteFile in a thread writes, or fails.
InKernel == SelectSeq([w \in Writes |-> w], LAMBDA w : write_at[w] = "kernel")

KernelWrites ==
  /\ InKernel # <<>>
  /\ LET w == Head(InKernel)
     IN /\ write_at' = [write_at EXCEPT ![w] = "port"] /\ Posted(WriteReq(w))
        /\ out_order' = IF peer = "open" /\ pipe_handle = "open" THEN Append(out_order, w) ELSE out_order
  /\ UNCHANGED <<fixedVars, pipe_life, pipe_handle, countVars, readVars, write_list, write_pending,
                 shutdownVars, loopAtVars, peer, peer_sent, been_read, out_taken, told_eof>>

uv__process_pipe_write_req ==
  /\ pipe_at = "idle" /\ port_reqs # <<>> /\ Head(port_reqs).of = "write"
  /\ port_reqs' = Tail(port_reqs)
  /\ write_at' = [write_at EXCEPT ![Head(port_reqs).nr] = "callback"]
  /\ pipe_active' = pipe_active - 1
  /\ pipe_at' = "callback" /\ pipe_cb' = "write"
  /\ UNCHANGED <<fixedVars, pipe_life, pipe_handle, pipe_flags, pipe_reqs, readVars, write_list, write_pending,
                 shutdownVars, for_close, peerVars, told_eof>>

\* The next write is started, or the shutdown that waits for the writes.
WriteCbReturns ==
  /\ pipe_at = "callback" /\ pipe_cb = "write"
  /\ write_pending' = write_pending - 1
  /\ LET ended == [w \in Writes |-> IF write_at[w] = "callback" THEN "done" ELSE write_at[w]]
     IN IF pipe_kind = "threads" /\ write_list # <<>>
          THEN write_at' = [ended EXCEPT ![Head(write_list)] = "kernel"] /\ write_list' = Tail(write_list)
          ELSE write_at' = ended /\ UNCHANGED write_list
  /\ IF write_pending = 1 /\ shutdown_at = "waiting" THEN PipeShutdown
     ELSE UNCHANGED <<shutdownVars, pipe_flags, port_reqs>>
  /\ Decreased
  /\ pipe_at' = "idle" /\ pipe_cb' = "none"
  /\ UNCHANGED <<fixedVars, pipe_handle, pipe_active, readVars, for_close, peerVars, told_eof>>

uv_shutdown_pipe ==
  /\ PipeUser /\ "writable" \in pipe_flags /\ shutdown_at = "none"
  /\ pipe_reqs' = pipe_reqs + 1 /\ pipe_active' = pipe_active + 1
  /\ IF write_pending = 0 THEN PipeShutdown
     ELSE /\ shutdown_at' = "waiting" /\ pipe_flags' = pipe_flags \ {"writable"}
          /\ UNCHANGED <<shutdown_error, port_reqs>>
  /\ UNCHANGED <<fixedVars, pipe_life, pipe_handle, readVars, writeVars, loopAtVars, peerVars, told_eof>>

\* pipe_shutdown_thread_proc
FlushEnds ==
  /\ shutdown_at = "flush"
  /\ out_taken = Len(out_order) \/ peer = "closed" \/ pipe_handle = "closed"
  /\ shutdown_at' = "port" /\ Posted(ShutdownReq)
  /\ UNCHANGED <<fixedVars, pipe_life, pipe_handle, countVars, readVars, writeVars, shutdown_error,
                 loopAtVars, peerVars, told_eof>>

uv__process_pipe_shutdown_req ==
  /\ pipe_at = "idle" /\ port_reqs # <<>> /\ Head(port_reqs) = ShutdownReq
  /\ port_reqs' = Tail(port_reqs)
  /\ shutdown_at' = "callback"
  /\ pipe_active' = pipe_active - 1
  /\ LET well == pipe_life = "open" /\ ~shutdown_error
     IN /\ eof_timer' = IF well /\ "readable" \in pipe_flags
                          THEN IF "read_pending" \in pipe_flags THEN "running" ELSE "stopped"
                          ELSE eof_timer
        /\ pipe_handle' = IF well /\ "readable" \notin pipe_flags THEN "closed" ELSE pipe_handle
  /\ pipe_at' = "callback" /\ pipe_cb' = "shutdown"
  /\ UNCHANGED <<fixedVars, pipe_life, pipe_flags, pipe_reqs, read_at, read_result, thread_handle, remaining,
                 xfer_queue, avail, writeVars, shutdown_error, for_close, peerVars, told_eof>>

\* (The user does not shut down again after a failure.)
ShutdownCbReturns ==
  /\ pipe_at = "callback" /\ pipe_cb = "shutdown"
  /\ shutdown_at' = "done"
  /\ Decreased
  /\ pipe_at' = "idle" /\ pipe_cb' = "none"
  /\ UNCHANGED <<fixedVars, pipe_handle, pipe_flags, pipe_active, readVars, writeVars, shutdown_error, port_reqs,
                 for_close, peerVars, told_eof>>

-----------------------------------------------------------------------------
(* The timer, other callbacks, the end, and the other side                  *)

\* HasOverlappedIoCompleted: the overlapped structure is that of a request in the
\* kernel only if the pipe is overlapped.
ReadCompleted == pipe_kind = "threads" \/ read_at = "port"

eof_timer_cb ==
  /\ pipe_at = "idle" /\ eof_timer = "running"
  /\ IF ReadCompleted
       THEN /\ eof_timer' = "stopped"
            /\ UNCHANGED <<pipe_handle, pipe_flags, pipe_active, told_eof, pipe_at, pipe_cb>>
       ELSE /\ pipe_handle' = "closed" /\ eof_timer' = "NULL" /\ told_eof' = TRUE
            /\ pipe_flags' = pipe_flags \ {"reading"}
            /\ pipe_active' = IF "reading" \in pipe_flags THEN pipe_active - 1 ELSE pipe_active
            /\ pipe_at' = "callback" /\ pipe_cb' = "timer"
  /\ UNCHANGED <<fixedVars, pipe_life, pipe_reqs, read_at, read_result, thread_handle, remaining, xfer_queue,
                 avail, writeVars, shutdownVars, port_reqs, for_close, peerVars>>

ReadCbReturns ==
  /\ pipe_at = "callback" /\ pipe_cb \in {"read", "timer"}
  /\ pipe_at' = (IF pipe_cb = "read" THEN "reading" ELSE "idle") /\ pipe_cb' = "none"
  /\ UNCHANGED <<fixedVars, pipe_life, pipe_handle, countVars, readVars, writeVars, shutdownVars, port_reqs,
                 for_close, peerVars, told_eof>>

\* uv__pipe_endgame: sockets that were not accepted are closed.
uv__pipe_endgame ==
  /\ pipe_at = "idle" /\ pipe_life = "endgame"
  /\ pipe_life' = "closed" /\ xfer_queue' = 0
  /\ UNCHANGED <<fixedVars, pipe_handle, countVars, read_at, read_result, thread_handle, eof_timer, remaining,
                 avail, writeVars, shutdownVars, port_reqs, loopAtVars, peerVars, told_eof>>

PeerOthers ==
  UNCHANGED <<fixedVars, pipe_life, pipe_handle, countVars, readVars, writeVars, shutdownVars, port_reqs,
              loopAtVars, told_eof>>

PeerSends ==
  /\ peer = "open" /\ peer_sent < Len(Incoming) /\ pipe_handle = "open"
  /\ peer_sent' = peer_sent + 1
  /\ PeerOthers /\ UNCHANGED <<peer, been_read, out_order, out_taken>>

PeerReads ==
  /\ peer = "open" /\ out_taken < Len(out_order)
  /\ out_taken' = out_taken + 1
  /\ PeerOthers /\ UNCHANGED <<peer, peer_sent, been_read, out_order>>

PeerCloses ==
  /\ peer = "open" /\ peer' = "closed"
  /\ PeerOthers /\ UNCHANGED <<peer_sent, been_read, out_order, out_taken>>

PipeLoop ==
  \/ EnterAndLook \/ Cancel \/ LookAgain
  \/ uv__process_pipe_read_req \/ uv__pipe_read_ipc \/ PipeReadDone
  \/ \E n \in 0..Len(Incoming) : uv__pipe_read_data(n)
  \/ uv__process_pipe_write_req \/ WriteCbReturns
  \/ uv__process_pipe_shutdown_req \/ ShutdownCbReturns
  \/ ReadCbReturns \/ uv__pipe_endgame

PipeOver == pipe_life = "closed" /\ UNCHANGED winPipeVars

WinPipeNext ==
  \/ PipeOver \/ PipeLoop \/ Reader \/ KernelWrites \/ FlushEnds \/ eof_timer_cb
  \/ uv__pipe_read_start \/ uv__pipe_read_stop \/ uv__pipe_close \/ AcceptsSocket
  \/ uv_shutdown_pipe
  \/ \E w \in Writes : uv__pipe_write(w)
  \/ PeerSends \/ PeerReads \/ PeerCloses

-----------------------------------------------------------------------------
(* Properties *)

\* Each request is counted from the call until its callback has returned, so a
\* closing pipe comes to its end neither while a thread or the kernel uses it nor
\* never; and what keeps the loop alive is what is under way.
WritesAt(S) == {w \in Writes : write_at[w] \in S}
RequestsCounted ==
  /\ pipe_reqs = Cardinality(WritesAt({"list", "kernel", "port", "callback"}))
                 + (IF shutdown_at \in {"none", "done"} THEN 0 ELSE 1) + (IF read_at = "idle" THEN 0 ELSE 1)
  /\ pipe_active = Cardinality(WritesAt({"list", "kernel", "port"}))
                   + (IF shutdown_at \in {"none", "callback", "done"} THEN 0 ELSE 1)
                   + (IF "reading" \in pipe_flags THEN 1 ELSE 0)
  /\ read_at # "idle" <=> "read_pending" \in pipe_flags
  /\ pipe_life \in {"endgame", "closed"} => pipe_reqs = 0 /\ pipe_handle = "closed"

\* A thread of the system's pool is cancelled only while it runs this read: not
\* after it has closed its handle and gone on to other work.
CancelsTheReader ==
  pipe_at = "cancel" => read_at \in {"marked", "blocked", "past", "acked"}

\* However the writes are queued they reach the pipe in the order of the calls,
\* and the shutdown begins after the last of them.
WritesInOrder ==
  /\ IsPrefix(out_order, [w \in Writes |-> w])
  /\ shutdown_at \in {"flush", "port"} /\ ~shutdown_error => WritesAt({"list", "kernel", "port"}) = {}

\* Wherever reading was stopped, what is read next is taken for what it is.
FramesInStep ==
  ipc /\ ~told_eof /\ been_read < Len(Incoming) => (remaining > 0 <=> Incoming[been_read + 1].is = "data")

\* Nothing is read after the end was told.
EofIsLast == [][told_eof => been_read' = been_read]_winPipeVars

\* A closing pipe is closed, and what is there is read if the user is reading and
\* has buffers.
PipeProgress ==
  /\ []<>(pipe_life \notin {"closing", "endgame"})
  /\ \/ []<><<uv__pipe_read_data(0)>>_winPipeVars
     \/ []<>(InPipe = 0 \/ "reading" \notin pipe_flags)

\* What holds of a pipe on Windows at any time: the first four.
WinPipeSound == RequestsCounted /\ CancelsTheReader /\ WritesInOrder /\ FramesInStep

\* What a pipe on Windows promises: all of the above.
WinPipePromise == []WinPipeSound /\ EofIsLast /\ PipeProgress
=============================================================================
