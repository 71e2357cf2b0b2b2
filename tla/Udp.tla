---------------------------------- MODULE Udp ----------------------------------
(***************************************************************************)
(* A UDP handle on Unix (unix/udp.c): datagrams to send wait in            *)
(* write_queue, and sent ones in write_completed_queue for their callback; *)
(* received ones are read singly or, with recvmmsg, several into one       *)
(* buffer that is given back by a callback of its own.  The user may call  *)
(* anything from any callback.  Addresses and socket options are left out. *)
(***************************************************************************)
EXTENDS Integers, Sequences, SequencesExt

CONSTANTS
  Sends,        \* the uv_udp_send_t requests; each is used once
  SendBatch,    \* datagrams sendmmsg takes at a time (20)
  ReadBudget,   \* reads per poll event (32)
  Chunks,       \* datagrams recvmmsg reads at a time (20)
  SmallBuffers, \* with recvmmsg, alloc_cb may give a buffer too small for one datagram
  MaxArrived,   \* bound: datagrams that wait in the kernel
  KeepsReading  \* the user does not stop reading, or close, in a recvmmsg chunk's callback

ASSUME UdpAssumption ==
  /\ SendBatch \in Nat \ {0} /\ ReadBudget \in Nat \ {0} /\ Chunks \in Nat \ {0}
  /\ MaxArrived \in Nat /\ KeepsReading \in BOOLEAN /\ SmallBuffers \in BOOLEAN

VARIABLES
  recvmmsg,         \* UV_HANDLE_UDP_RECVMMSG, of uv_udp_init_ex
  udp_life,         \* "open", "closing", "finishing" (in uv__udp_finish_close) or "closed"
  udp_socket,       \* io_watcher.fd # -1
  udp_active,       \* UV_HANDLE_ACTIVE
  recv_cb,          \* handle->recv_cb # NULL
  udp_pevents,      \* the watched part of {"in", "out"}
  udp_fed,          \* the watcher is in loop->pending_queue
  udp_queue, udp_completed,  \* write_queue, write_completed_queue
  send_status,      \* of each request: "none", "sent", "failed" or "cancelled"
  send_queue_count,
  udp_reqs,         \* its part of loop->active_reqs
  udp_processing,   \* UV_HANDLE_UDP_PROCESSING
  udp_at,           \* "idle", "recv", "chunks", "send", "completed", or a callback:
                    \* "recv_cb", "chunk_cb", "free_cb", "last_cb", "send_cb"
  revents,          \* the event that is handled
  recv_left, chunks_left,  \* uv__udp_recvmsg: count; uv__udp_recvmmsg: nread - k
  recv_buf,         \* a buffer from alloc_cb that was not given back
  arrived,          \* datagrams in the kernel
  sent_order, called_back  \* history: requests in the order of uv_udp_send and of send_cb

recvVars == <<recv_left, chunks_left, recv_buf, arrived>>
sendVars == <<udp_queue, udp_completed, send_status, send_queue_count, udp_reqs, udp_fed>>
historyVars == <<sent_order, called_back>>
udpVars == <<recvmmsg, udp_life, udp_socket, udp_active, recv_cb, udp_pevents, sendVars,
             udp_processing, udp_at, revents, recvVars, historyVars>>

UdpInit ==
  /\ recvmmsg \in BOOLEAN
  /\ udp_life = "open" /\ udp_socket = FALSE /\ udp_active = FALSE
  /\ recv_cb = FALSE /\ udp_pevents = {}
  /\ udp_fed = FALSE /\ udp_queue = <<>> /\ udp_completed = <<>>
  /\ send_status = [r \in Sends |-> "none"]
  /\ send_queue_count = 0 /\ udp_reqs = 0
  /\ udp_processing = FALSE /\ udp_at = "idle" /\ revents = {}
  /\ recv_left = 0 /\ chunks_left = 0 /\ recv_buf = FALSE /\ arrived = 0
  /\ sent_order = <<>> /\ called_back = <<>>

UdpUserCode == udp_at \in {"idle", "recv_cb", "chunk_cb", "free_cb", "last_cb", "send_cb"}
MayPause == KeepsReading => udp_at # "chunk_cb"

-----------------------------------------------------------------------------
(* Sending                                                                  *)

\* What uv__udp_sendmsg may do to the queue: batches are sent until all is, or
\* the kernel has no room, or it reports an error, which fails a whole batch.
SendOutcomes(n) ==
  {[sent |-> k, failed |-> e] : k \in 0..n, e \in {0, SendBatch, 1}} \cap
  {o \in [sent : 0..n, failed : 0..n] :
     o.failed = 0 \/ o.failed = (IF n - o.sent < SendBatch THEN n - o.sent ELSE SendBatch)}

SendsMove(queue, completed, o) ==
  LET k == o.sent + o.failed
  IN /\ udp_queue' = SubSeq(queue, k + 1, Len(queue))
     /\ udp_completed' = completed \o SubSeq(queue, 1, k)
     /\ send_status' = [r \in Sends |->
          IF r \in {queue[i] : i \in 1..o.sent} THEN "sent"
          ELSE IF r \in {queue[i] : i \in (o.sent + 1)..k} THEN "failed" ELSE send_status[r]]
     /\ udp_fed' = (udp_fed \/ o.failed > 0 \/ (queue # <<>> /\ k = Len(queue)))

\* uv_udp_send: sent at once if nothing is queued and no send_cb runs.
SendsAtOnce == send_queue_count = 0 /\ ~udp_processing

uv_udp_send(r) ==
  /\ UdpUserCode /\ udp_life = "open"
  /\ r \notin {sent_order[i] : i \in 1..Len(sent_order)}
  /\ udp_socket' = TRUE
  /\ send_queue_count' = send_queue_count + 1
  /\ udp_reqs' = udp_reqs + 1
  /\ udp_active' = TRUE
  /\ sent_order' = Append(sent_order, r)
  /\ IF SendsAtOnce
       THEN \E o \in SendOutcomes(Len(udp_queue) + 1) :
              /\ SendsMove(Append(udp_queue, r), udp_completed, o)
              /\ udp_pevents' = IF udp_queue' = <<>> THEN udp_pevents ELSE udp_pevents \cup {"out"}
       ELSE /\ udp_queue' = Append(udp_queue, r)
            /\ udp_pevents' = udp_pevents \cup {"out"}
            /\ UNCHANGED <<udp_completed, send_status, udp_fed>>
  /\ UNCHANGED <<recvmmsg, udp_life, recv_cb, udp_processing, udp_at, revents, recvVars,
                 called_back>>

-----------------------------------------------------------------------------
(* The other calls                                                          *)

\* uv_udp_bind, uv_udp_connect and uv_udp_open make the socket.
UdpOpen ==
  /\ UdpUserCode /\ udp_life = "open" /\ ~udp_socket
  /\ udp_socket' = TRUE
  /\ UNCHANGED <<recvmmsg, udp_life, udp_active, recv_cb, udp_pevents, sendVars, udp_processing,
                 udp_at,
                 revents, recvVars, historyVars>>

uv_udp_recv_start ==
  /\ UdpUserCode /\ udp_life = "open" /\ "in" \notin udp_pevents
  /\ udp_socket' = TRUE
  /\ recv_cb' = TRUE
  /\ udp_pevents' = udp_pevents \cup {"in"}
  /\ udp_active' = TRUE
  /\ UNCHANGED <<recvmmsg, udp_life, sendVars, udp_processing, udp_at, revents, recvVars,
                 historyVars>>

uv_udp_recv_stop ==
  /\ UdpUserCode /\ MayPause /\ udp_life = "open"
  /\ udp_pevents' = udp_pevents \ {"in"}
  /\ udp_active' = (udp_active /\ "out" \in udp_pevents)
  /\ recv_cb' = FALSE
  /\ UNCHANGED <<recvmmsg, udp_life, udp_socket, sendVars, udp_processing, udp_at, revents,
                 recvVars,
                 historyVars>>

\* uv_close; recv_cb stays until the close is finished.
uv__udp_close ==
  /\ UdpUserCode /\ MayPause /\ udp_life = "open"
  /\ udp_life' = "closing"
  /\ udp_pevents' = {} /\ udp_fed' = FALSE
  /\ udp_active' = FALSE
  /\ udp_socket' = FALSE
  /\ UNCHANGED <<recvmmsg, recv_cb, udp_queue, udp_completed, send_status, send_queue_count,
                 udp_reqs,
                 udp_processing, udp_at, revents, recvVars, historyVars>>

UdpUser == \/ UdpOpen \/ uv_udp_recv_start \/ uv_udp_recv_stop \/ uv__udp_close
           \/ \E r \in Sends : uv_udp_send(r)

-----------------------------------------------------------------------------
(* The loop                                                                 *)

Arrive ==
  /\ udp_socket /\ arrived < MaxArrived
  /\ arrived' = arrived + 1
  /\ UNCHANGED <<recvmmsg, udp_life, udp_socket, udp_active, recv_cb, udp_pevents, sendVars,
                 udp_processing,
                 udp_at, revents, recv_left, chunks_left, recv_buf, historyVars>>

\* uv__udp_io, for a poll event or because the watcher was fed.
UdpIo(ev) ==
  /\ udp_at = "idle"
  /\ revents' = ev
  /\ udp_at' = IF "in" \in ev THEN "recv" ELSE "send"
  /\ recv_left' = ReadBudget
  /\ UNCHANGED <<recvmmsg, udp_life, udp_socket, udp_active, recv_cb, udp_pevents, udp_queue,
                 udp_completed,
                 send_status, send_queue_count, udp_reqs, udp_processing, chunks_left, recv_buf,
                 arrived, historyVars>>

UdpPollEvent(ev) == ev # {} /\ ev \subseteq udp_pevents /\ UdpIo(ev) /\ UNCHANGED udp_fed
UdpRunPending == udp_fed /\ UdpIo({"out"}) /\ udp_fed' = FALSE

\* One turn of uv__udp_recvmsg: alloc_cb has no buffer, or nothing is there, or
\* an error; a datagram; several of recvmmsg; or none, asked for none.
RecvTurn ==
  /\ udp_at = "recv"
  /\ \/ udp_at' = "last_cb" /\ UNCHANGED recvVars
     \/ SmallBuffers /\ recvmmsg /\ udp_at' = "recv_cb" /\ UNCHANGED recvVars
     \/ /\ ~recvmmsg /\ arrived > 0
        /\ arrived' = arrived - 1 /\ recv_left' = recv_left - 1
        /\ udp_at' = "recv_cb"
        /\ UNCHANGED <<chunks_left, recv_buf>>
     \/ /\ recvmmsg /\ arrived > 0
        /\ \E k \in 1..Chunks : /\ k <= arrived
                                /\ arrived' = arrived - k /\ recv_left' = recv_left - k
                                /\ chunks_left' = k
        /\ recv_buf' = TRUE
        /\ udp_at' = "chunks"
  /\ UNCHANGED <<recvmmsg, udp_life, udp_socket, udp_active, recv_cb, udp_pevents, sendVars,
                 udp_processing,
                 revents, historyVars>>

\* What uv__udp_io does once it has read.
AfterRecv == IF "out" \in revents /\ udp_life = "open" THEN "send" ELSE "idle"

\* uv__udp_recvmmsg: the chunks one by one, then the buffer.
ChunkTurn ==
  /\ udp_at = "chunks"
  /\ IF chunks_left > 0 /\ recv_cb
       THEN udp_at' = "chunk_cb" /\ chunks_left' = chunks_left - 1 /\ UNCHANGED recv_buf
       ELSE /\ udp_at' = (IF recv_cb THEN "free_cb" ELSE AfterRecv) /\ chunks_left' = 0
            /\ recv_buf' = (recv_buf /\ ~recv_cb)
  /\ UNCHANGED <<recvmmsg, udp_life, udp_socket, udp_active, recv_cb, udp_pevents, sendVars,
                 udp_processing,
                 revents, recv_left, arrived, historyVars>>

ReadsOn == recv_left > 0 /\ udp_socket /\ recv_cb

RecvCallbackReturns ==
  /\ udp_at' = CASE udp_at = "chunk_cb" -> "chunks"
                 [] udp_at \in {"recv_cb", "free_cb"} /\ ReadsOn -> "recv"
                 [] udp_at \in {"recv_cb", "free_cb"} /\ ~ReadsOn -> AfterRecv
                 [] udp_at = "last_cb" -> AfterRecv
  /\ UNCHANGED <<recvmmsg, udp_life, udp_socket, udp_active, recv_cb, udp_pevents, sendVars,
                 udp_processing,
                 revents, recvVars, historyVars>>

RecvReturns == udp_at \in {"recv_cb", "chunk_cb", "free_cb", "last_cb"} /\ RecvCallbackReturns

uv__udp_sendmsg ==
  /\ udp_at = "send"
  /\ \E o \in SendOutcomes(Len(udp_queue)) : SendsMove(udp_queue, udp_completed, o)
  /\ udp_at' = "completed"
  /\ udp_processing' = TRUE
  /\ UNCHANGED <<recvmmsg, udp_life, udp_socket, udp_active, recv_cb, udp_pevents, send_queue_count,
                 udp_reqs, revents, recvVars, historyVars>>

\* uv__udp_run_completed: the callbacks, then the watcher is stopped if nothing
\* is left to send.
RunOneCompleted ==
  /\ udp_at = "completed" /\ udp_completed # <<>>
  /\ udp_completed' = Tail(udp_completed)
  /\ send_queue_count' = send_queue_count - 1
  /\ udp_reqs' = udp_reqs - 1
  /\ called_back' = Append(called_back, Head(udp_completed))
  /\ udp_at' = "send_cb"
  /\ UNCHANGED <<recvmmsg, udp_life, udp_socket, udp_active, recv_cb, udp_pevents, udp_queue,
                 send_status,
                 udp_fed, udp_processing, revents, recvVars, sent_order>>

SendCbReturns ==
  /\ udp_at = "send_cb"
  /\ udp_at' = "completed"
  /\ UNCHANGED <<recvmmsg, udp_life, udp_socket, udp_active, recv_cb, udp_pevents, sendVars,
                 udp_processing,
                 revents, recvVars, historyVars>>

StopsPollingAlways == TRUE
StopsPolling == udp_queue = <<>>

CompletedDone ==
  /\ udp_at = "completed" /\ udp_completed = <<>>
  /\ udp_at' = "idle"
  /\ udp_processing' = FALSE
  /\ IF StopsPolling
       THEN /\ udp_pevents' = udp_pevents \ {"out"}
            /\ udp_active' = (udp_active /\ "in" \in udp_pevents)
       ELSE UNCHANGED <<udp_pevents, udp_active>>
  /\ udp_life' = IF udp_life = "finishing" THEN "closed" ELSE udp_life
  /\ recv_cb' = (recv_cb /\ udp_life # "finishing")
  /\ UNCHANGED <<recvmmsg, udp_socket, sendVars, revents, recvVars, historyVars>>

\* uv__udp_finish_close: what is left is cancelled and called back.
uv__udp_finish_close ==
  /\ udp_at = "idle" /\ udp_life = "closing"
  /\ udp_life' = "finishing"
  /\ udp_queue' = <<>>
  /\ udp_completed' = udp_completed \o udp_queue
  /\ send_status' = [r \in Sends |-> IF Contains(udp_queue, r) THEN "cancelled" ELSE send_status[r]]
  /\ udp_at' = "completed"
  /\ udp_processing' = TRUE
  /\ UNCHANGED <<recvmmsg, udp_socket, udp_active, recv_cb, udp_pevents, udp_fed,
                 send_queue_count, udp_reqs,
                 revents, recvVars, historyVars>>

UdpLoop ==
  \/ UdpRunPending \/ RecvTurn \/ ChunkTurn \/ RecvReturns
  \/ uv__udp_sendmsg \/ RunOneCompleted \/ SendCbReturns \/ CompletedDone \/ uv__udp_finish_close

UdpOver == udp_life = "closed" /\ udp_at = "idle" /\ UNCHANGED udpVars

UdpNext == UdpOver \/ UdpUser \/ Arrive \/ UdpLoop \/ \E ev \in SUBSET {"in", "out"} : UdpPollEvent(ev)

UdpSpec == UdpInit /\ [][UdpNext]_udpVars

-----------------------------------------------------------------------------
(* Properties *)

\* Send callbacks run in the order of the uv_udp_send calls, each once, also
\* if they send or close themselves, and the two counters say how many are
\* still to run: none once the handle is closed.
SendsInOrder ==
  /\ IsPrefix(called_back, sent_order)
  /\ called_back \o udp_completed \o udp_queue = sent_order
  /\ send_queue_count = Len(udp_completed) + Len(udp_queue)
  /\ udp_reqs = send_queue_count
  /\ udp_life = "closed" => called_back = sent_order
  /\ \A i \in 1..Len(udp_completed) : send_status[udp_completed[i]] # "none"

\* Outside callbacks whatever waits to be sent is watched for, whatever waits
\* for its callback will be looked at, and the handle is active while it
\* watches; it reads exactly while it has a recv_cb.
NothingStalls ==
  udp_at = "idle" /\ udp_life = "open" =>
    /\ udp_queue # <<>> => "out" \in udp_pevents
    /\ udp_completed # <<>> => udp_fed \/ "out" \in udp_pevents
    /\ udp_pevents # {} => udp_active
    /\ udp_active => udp_pevents # {} \/ udp_fed
    /\ recv_cb <=> "in" \in udp_pevents
    /\ ~udp_processing

\* uv.h of UV_UDP_MMSG_CHUNK and _FREE: a buffer shared by chunks is given back.
BufferGivenBack == udp_at = "idle" => ~recv_buf

\* What a UDP handle promises at any time: all of the above.
UdpPromise == SendsInOrder /\ NothingStalls /\ BufferGivenBack

\* Every datagram handed over is sent, failed or cancelled, and its callback run.
SendsComplete ==
  \A r \in Sends : []<>(Contains(sent_order, r) => Contains(called_back, r))

\* uv__udp_recvmsg: "Prevent loop starvation": a poll event is done with at last.
NoStarvation == []<>(udp_at = "idle")
=============================================================================
