--------------------------------- MODULE WinTcp ---------------------------------
(***************************************************************************)
(* A TCP handle on Windows (win/tcp.c, win/stream.c).  A server keeps      *)
(* several AcceptEx requests under way, each with a socket made before;    *)
(* the user takes connections from a stack, and may reduce the requests to *)
(* one.  A connection waits for data with a zero read and then reads what  *)
(* is there.  uv_close cancels, but keeps the socket until all writes have *)
(* come back.                                                              *)
(***************************************************************************)
EXTENDS Integers, Sequences, FiniteSets, FiniteSetsExt

CONSTANTS
  Simultaneous,    \* uv_simultaneous_server_accepts, in the code 32
  Incoming,        \* a bound: the connections that come in
  TcpWrites,       \* the number of write requests
  TcpUnits,        \* how much the other end sends
  ReadsInARow,     \* in the code 32
  AcceptAfterError \* the user accepts although connection_cb was told of an error

ASSUME WinTcpAssumption ==
  /\ Simultaneous \in Nat \ {0} /\ ReadsInARow \in Nat \ {0}
  /\ Incoming \in Nat /\ TcpWrites \in Nat /\ TcpUnits \in Nat
  /\ AcceptAfterError \in BOOLEAN

ReadReq == [of |-> "read", nr |-> 0]
ConnectReq == [of |-> "connect", nr |-> 0]
ShutdownReq == [of |-> "shutdown", nr |-> 0]
WriteReqs == [of : {"write"}, nr : 1..TcpWrites]
AcceptReqs == [of : {"accept"}, nr : 1..Simultaneous]
TcpReqs == {ReadReq, ConnectReq, ShutdownReq} \cup WriteReqs \cup AcceptReqs
FirstAccept == [of |-> "accept", nr |-> 1]

VARIABLES
  tcp_role,      \* what the user makes of the handle: "server" or "client"
  tcp_life,      \* "open", "closing", "endgame" (wanted) or "closed"
  tcp_socket,    \* handle->socket: "open" or "INVALID"
  tcp_flags,     \* of "connection", "listening", "reading", "read_pending", "readable",
                 \* "writable", "shut", "single" and "changing"
  delayed_error, \* an error of bind waits for connect or listen
  tcp_reqs,      \* reqs_pending
  tcp_active,    \* activecnt
  tcp_at,        \* of each request: "new", "waiting" (a shutdown, for writes), "kernel",
                 \* "pending" or "done"
  tcp_failed,    \* the requests, other than writes, that come back with an error
  tcp_pending,   \* pending_reqs_tail: what the port has given, and what was inserted
  tcp_writes,    \* write_reqs_pending
  cancelled,     \* requests that CancelIo has reached in the kernel
  accept_socket, \* of each accept request: "INVALID", "fresh" or "connected"
  pending_accepts, processed_accepts,
  tcp_pc,        \* where the loop is: "idle", "reading", or "callback" of
  tcp_cb,        \* this request,
  tcp_owed,      \* which owes so many DECREASE_PENDING_REQ_COUNT
  reads_left,    \* count of uv__process_tcp_read_req; 0 if it does not read again
  tcp_avail,     \* units that can be read,
  tcp_unsent,    \* and those the other end will still send,
  tcp_end,       \* before it ends: "none", "eof" or "reset"
  coming,        \* connections still to come
  made           \* history: sockets made for connections, and neither closed nor given away

acceptVars == <<accept_socket, pending_accepts, processed_accepts, made>>
tcpReqVars == <<tcp_at, tcp_failed, tcp_pending, tcp_reqs, cancelled>>
otherEnd == <<tcp_avail, tcp_unsent, tcp_end, coming>>
tcpLoopVars == <<tcp_pc, tcp_cb, tcp_owed, reads_left>>
tcpHandleVars == <<tcp_role, tcp_life, tcp_socket, tcp_flags, delayed_error, tcp_active, tcp_writes>>
winTcpVars == <<tcpHandleVars, tcpReqVars, acceptVars, tcpLoopVars, otherEnd>>

\* A handle with a socket that is bound; a client may be connected (uv_tcp_open).
WinTcpInit ==
  /\ tcp_role \in {"server", "client"}
  /\ tcp_life = "open" /\ tcp_socket = "open"
  /\ tcp_flags \in {{}} \cup (IF tcp_role = "client" THEN {{"connection", "readable", "writable"}} ELSE {})
  /\ delayed_error \in (IF tcp_flags = {} THEN BOOLEAN ELSE {FALSE})
  /\ tcp_reqs = 0 /\ tcp_active = 0 /\ tcp_writes = 0
  /\ tcp_at = [q \in TcpReqs |-> "new"] /\ tcp_failed = {} /\ tcp_pending = <<>> /\ cancelled = {}
  /\ accept_socket = [a \in AcceptReqs |-> "INVALID"]
  /\ pending_accepts = <<>> /\ processed_accepts = 0 /\ made = 0
  /\ tcp_pc = "idle" /\ tcp_cb = ReadReq /\ tcp_owed = 0 /\ reads_left = 0
  /\ tcp_avail = 0 /\ tcp_unsent = (IF tcp_role = "client" THEN TcpUnits ELSE 0) /\ tcp_end = "none"
  /\ coming = IF tcp_role = "server" THEN Incoming ELSE 0

TcpHas(f) == f \in tcp_flags
Outstanding == {q \in TcpReqs : tcp_at[q] \in {"kernel", "pending"}}

TcpUser == tcp_pc \in {"idle", "callback"} /\ tcp_life = "open"

-----------------------------------------------------------------------------
(* The server                                                               *)

\* uv__tcp_queue_accept, for all of these: some of them fail, and an error is
\* pending.  Each of the others has its socket.  The caller may have changed what
\* it passes.
QueueAccepts(as, sockets, count, flags, port, reqs) ==
  \E bad \in SUBSET as :
    /\ accept_socket' = [a \in AcceptReqs |-> IF a \in as \ bad THEN "fresh" ELSE sockets[a]]
    /\ made' = count + Cardinality(as \ bad)
    /\ tcp_at' = [q \in TcpReqs |-> IF q \in bad THEN "pending" ELSE IF q \in as THEN "kernel" ELSE tcp_at[q]]
    /\ tcp_failed' = (tcp_failed \ as) \cup bad
    /\ tcp_reqs' = reqs + Cardinality(as)
    /\ \E order \in [1..Cardinality(bad) -> bad] :
         /\ {order[i] : i \in DOMAIN order} = bad
         /\ tcp_pending' = port \o order
    /\ tcp_flags' = flags
    /\ UNCHANGED cancelled

\* The user listens once.
uv__tcp_listen ==
  /\ TcpUser /\ tcp_role = "server" /\ ~TcpHas("listening") /\ ~delayed_error
  /\ \A a \in AcceptReqs : tcp_at[a] = "new"
  /\ tcp_active' = tcp_active + 1
  /\ QueueAccepts(IF TcpHas("single") THEN {FirstAccept} ELSE AcceptReqs, accept_socket, made,
                  tcp_flags \cup {"listening"}, tcp_pending, tcp_reqs)
  /\ UNCHANGED <<tcp_role, tcp_life, tcp_socket, delayed_error, tcp_writes, pending_accepts, processed_accepts,
                 tcpLoopVars, otherEnd>>

\* uv_tcp_simultaneous_accepts, with 0.
uv_tcp_simultaneous_accepts ==
  /\ TcpUser /\ tcp_role = "server" /\ ~TcpHas("single")
  /\ tcp_flags' = tcp_flags \cup {"single"} \cup (IF TcpHas("listening") THEN {"changing"} ELSE {})
  /\ UNCHANGED <<tcp_role, tcp_life, tcp_socket, delayed_error, tcp_active, tcp_writes, tcpReqVars, acceptVars,
                 tcpLoopVars, otherEnd>>

\* The mutant forgets that requests come back one more time.
AllProcessedEarly == processed_accepts + 1 > Simultaneous

AllProcessed == processed_accepts + 1 >= Simultaneous

\* The socket goes to the client, or is closed because the client has one.  (On a
\* closing server the socket is INVALID.)
uv__tcp_accept ==
  /\ TcpUser /\ pending_accepts # <<>>
  /\ TcpHas("listening") \/ AcceptAfterError
  /\ LET req == Head(pending_accepts)
         sockets == [accept_socket EXCEPT ![req] = "INVALID"]
     IN /\ pending_accepts' = Tail(pending_accepts)
        /\ IF ~TcpHas("changing")
             THEN QueueAccepts({req}, sockets, made - 1, tcp_flags, tcp_pending, tcp_reqs) /\ UNCHANGED processed_accepts
           ELSE IF AllProcessed
             THEN /\ processed_accepts' = 0
                  /\ QueueAccepts({FirstAccept}, sockets, made - 1, tcp_flags \ {"changing"}, tcp_pending, tcp_reqs)
           ELSE /\ processed_accepts' = processed_accepts + 1
                /\ accept_socket' = sockets /\ made' = made - 1
                /\ UNCHANGED <<tcp_flags, tcpReqVars>>
  /\ UNCHANGED <<tcp_role, tcp_life, tcp_socket, delayed_error, tcp_active, tcp_writes, tcpLoopVars, otherEnd>>

-----------------------------------------------------------------------------
(* The connection                                                           *)

\* uv__tcp_try_connect; or it fails at once.
uv__tcp_connect ==
  /\ TcpUser /\ tcp_role = "client" /\ ~TcpHas("connection") /\ tcp_at[ConnectReq] = "new"
  /\ tcp_at' = [tcp_at EXCEPT ![ConnectReq] = IF delayed_error THEN "pending" ELSE "kernel"]
  /\ tcp_pending' = IF delayed_error THEN Append(tcp_pending, ConnectReq) ELSE tcp_pending
  /\ tcp_reqs' = tcp_reqs + 1
  /\ tcp_active' = tcp_active + 1
  /\ UNCHANGED <<tcp_role, tcp_life, tcp_socket, tcp_flags, delayed_error, tcp_writes, tcp_failed, cancelled,
                 acceptVars, tcpLoopVars, otherEnd>>

\* uv__tcp_queue_read, with these flags: it waits, or an error is pending.
QueueZeroRead(flags, reqs) ==
  /\ tcp_flags' = flags \cup {"read_pending"}
  /\ tcp_reqs' = reqs + 1
  /\ \/ /\ tcp_at' = [tcp_at EXCEPT ![ReadReq] = "kernel"]
        /\ tcp_failed' = tcp_failed \ {ReadReq}
        /\ UNCHANGED tcp_pending
     \/ /\ tcp_at' = [tcp_at EXCEPT ![ReadReq] = "pending"]
        /\ tcp_failed' = tcp_failed \cup {ReadReq}
        /\ tcp_pending' = Append(tcp_pending, ReadReq)

NoZeroRead(flags, reqs) == tcp_flags' = flags /\ tcp_reqs' = reqs /\ UNCHANGED <<tcp_at, tcp_failed, tcp_pending>>

\* uv_read_start; a read may be pending from before uv_read_stop.
uv__tcp_read_start ==
  /\ TcpUser /\ TcpHas("readable") /\ ~TcpHas("reading")
  /\ tcp_active' = tcp_active + 1
  /\ IF TcpHas("read_pending") THEN NoZeroRead(tcp_flags \cup {"reading"}, tcp_reqs)
                            ELSE QueueZeroRead(tcp_flags \cup {"reading"}, tcp_reqs)
  /\ UNCHANGED <<tcp_role, tcp_life, tcp_socket, delayed_error, tcp_writes, cancelled, acceptVars, tcpLoopVars,
                 otherEnd>>

uv_read_stop_tcp ==
  /\ TcpUser /\ TcpHas("reading")
  /\ tcp_flags' = tcp_flags \ {"reading"}
  /\ tcp_active' = tcp_active - 1
  /\ UNCHANGED <<tcp_role, tcp_life, tcp_socket, delayed_error, tcp_writes, tcpReqVars, acceptVars, tcpLoopVars,
                 otherEnd>>

\* The data is sent at once, later, or never: the request is pending or in the kernel.
uv__tcp_write(w) ==
  /\ TcpUser /\ TcpHas("writable") /\ tcp_at[w] = "new"
  /\ \A v \in WriteReqs : v.nr < w.nr => tcp_at[v] # "new"
  /\ tcp_reqs' = tcp_reqs + 1
  /\ tcp_active' = tcp_active + 1
  /\ tcp_writes' = tcp_writes + 1
  /\ \/ tcp_at' = [tcp_at EXCEPT ![w] = "kernel"] /\ UNCHANGED tcp_pending
     \/ /\ tcp_at' = [tcp_at EXCEPT ![w] = "pending"]
        /\ tcp_pending' = Append(tcp_pending, w)
  /\ UNCHANGED <<tcp_role, tcp_life, tcp_socket, tcp_flags, delayed_error, tcp_failed, cancelled, acceptVars,
                 tcpLoopVars, otherEnd>>

\* Writes that are under way come first.
uv_shutdown_tcp ==
  /\ TcpUser /\ TcpHas("writable")
  /\ tcp_at[ShutdownReq] \notin {"waiting", "pending"}
  /\ tcp_flags' = tcp_flags \ {"writable"}
  /\ tcp_reqs' = tcp_reqs + 1
  /\ tcp_active' = tcp_active + 1
  /\ tcp_at' = [tcp_at EXCEPT ![ShutdownReq] = IF tcp_writes = 0 THEN "pending" ELSE "waiting"]
  /\ tcp_pending' = IF tcp_writes = 0 THEN Append(tcp_pending, ShutdownReq) ELSE tcp_pending
  /\ UNCHANGED <<tcp_role, tcp_life, tcp_socket, delayed_error, tcp_writes, tcp_failed, cancelled, acceptVars,
                 tcpLoopVars, otherEnd>>

-----------------------------------------------------------------------------
(* Closing                                                                  *)

ClosesSocket == ~TcpHas("connection") \/ tcp_writes = 0

\* uv__tcp_try_cancel_reqs
CancelReqs ==
  cancelled' = IF TcpHas("connection") THEN {q \in {ReadReq} \cup WriteReqs : tcp_at[q] = "kernel"} ELSE cancelled

uv__tcp_close ==
  /\ TcpUser
  /\ CancelReqs
  /\ accept_socket' = [a \in AcceptReqs |-> "INVALID"]
  /\ made' = made - Cardinality({a \in AcceptReqs : accept_socket[a] # "INVALID"})
  /\ tcp_flags' = tcp_flags \ {"reading", "listening", "readable", "writable"}
  /\ tcp_active' = tcp_active - Cardinality(tcp_flags \cap {"reading", "listening"})
  /\ tcp_socket' = IF ClosesSocket THEN "INVALID" ELSE tcp_socket
  /\ tcp_life' = IF tcp_reqs = 0 THEN "endgame" ELSE "closing"
  /\ UNCHANGED <<tcp_role, delayed_error, tcp_writes, tcp_at, tcp_failed, tcp_pending, tcp_reqs, pending_accepts,
                 processed_accepts, tcpLoopVars, otherEnd>>

uv__tcp_endgame ==
  /\ tcp_pc = "idle" /\ tcp_life = "endgame"
  /\ tcp_life' = "closed"
  /\ UNCHANGED <<tcp_role, tcp_socket, tcp_flags, delayed_error, tcp_active, tcp_writes, tcpReqVars, acceptVars,
                 tcpLoopVars, otherEnd>>

\* DECREASE_PENDING_REQ_COUNT, as often as it is owed.
Decreased(reqs) ==
  /\ tcp_reqs' = reqs
  /\ tcp_life' = IF tcp_life = "closing" /\ reqs = 0 THEN "endgame" ELSE tcp_life

-----------------------------------------------------------------------------
(* The system                                                               *)

Completes(q, failed) ==
  /\ tcp_at' = [tcp_at EXCEPT ![q] = "pending"]
  /\ tcp_failed' = IF failed /\ q \notin WriteReqs THEN tcp_failed \cup {q} ELSE tcp_failed
  /\ tcp_pending' = Append(tcp_pending, q)
  /\ UNCHANGED <<tcp_reqs, cancelled>>

\* What was cancelled, or lost its socket, ends.
Aborted(q) ==
  /\ tcp_at[q] = "kernel"
  /\ q \in cancelled \/ tcp_socket = "INVALID"
  /\ Completes(q, TRUE)
  /\ UNCHANGED <<tcpHandleVars, acceptVars, tcpLoopVars, otherEnd>>

\* A write that could not be cancelled, or a connection: it may fail, too.
KernelAnswers(q) ==
  /\ q \in WriteReqs \cup {ConnectReq}
  /\ tcp_at[q] = "kernel" /\ tcp_socket = "open"
  /\ \E failed \in (IF q = ConnectReq THEN BOOLEAN ELSE {FALSE}) : Completes(q, failed)
  /\ UNCHANGED <<tcpHandleVars, acceptVars, tcpLoopVars, otherEnd>>

ZeroReadEnds ==
  /\ tcp_at[ReadReq] = "kernel" /\ tcp_socket = "open" /\ ReadReq \notin cancelled
  /\ tcp_avail > 0 \/ tcp_end # "none"
  /\ Completes(ReadReq, tcp_end = "reset")
  /\ UNCHANGED <<tcpHandleVars, acceptVars, tcpLoopVars, otherEnd>>

\* AcceptEx takes a connection, which may be gone again.
ConnectionComes(a) ==
  /\ coming > 0 /\ tcp_at[a] = "kernel" /\ accept_socket[a] = "fresh"
  /\ coming' = coming - 1
  /\ accept_socket' = [accept_socket EXCEPT ![a] = "connected"]
  /\ \E failed \in BOOLEAN : Completes(a, failed)
  /\ UNCHANGED <<tcpHandleVars, pending_accepts, processed_accepts, made, tcpLoopVars, tcp_avail, tcp_unsent,
                 tcp_end>>

OtherEndSends ==
  /\ TcpHas("connection") /\ tcp_end = "none"
  /\ \/ /\ tcp_unsent > 0
        /\ tcp_unsent' = tcp_unsent - 1 /\ tcp_avail' = tcp_avail + 1
        /\ UNCHANGED tcp_end
     \/ tcp_end' \in {"eof", "reset"} /\ UNCHANGED <<tcp_unsent, tcp_avail>>
  /\ UNCHANGED <<tcpHandleVars, tcpReqVars, acceptVars, tcpLoopVars, coming>>

-----------------------------------------------------------------------------
(* The loop processes a request                                             *)

Takes(q) ==
  /\ tcp_pc = "idle" /\ tcp_pending # <<>> /\ q = Head(tcp_pending)
  /\ tcp_pending' = Tail(tcp_pending)
  /\ tcp_at' = [tcp_at EXCEPT ![q] = "done"]
  /\ tcp_failed' = tcp_failed \ {q}
  /\ UNCHANGED cancelled

Calls(q, owed, reads) == tcp_pc' = "callback" /\ tcp_cb' = q /\ tcp_owed' = owed /\ reads_left' = reads
NoCall == UNCHANGED tcpLoopVars
LoopGoesOn == tcp_pc' = "idle" /\ tcp_cb' = ReadReq /\ tcp_owed' = 0 /\ reads_left' = 0

\* uv__process_tcp_read_req, its first part: after a zero read it will read.
uv__process_tcp_read_req ==
  /\ Takes(ReadReq)
  /\ LET flags == tcp_flags \ {"read_pending"}
     IN IF ReadReq \notin tcp_failed
          THEN /\ tcp_pc' = "reading" /\ tcp_cb' = ReadReq /\ tcp_owed' = 1 /\ reads_left' = ReadsInARow
               /\ tcp_flags' = flags
               /\ UNCHANGED <<tcp_active, tcp_reqs, tcp_life>>
        ELSE IF TcpHas("reading")
          THEN /\ tcp_flags' = flags \ {"reading", "readable", "writable"}
               /\ tcp_active' = tcp_active - 1
               /\ Calls(ReadReq, 1, 0)
               /\ UNCHANGED <<tcp_reqs, tcp_life>>
          ELSE tcp_flags' = flags /\ Decreased(tcp_reqs - 1) /\ NoCall /\ UNCHANGED tcp_active
  /\ UNCHANGED <<tcp_role, tcp_socket, delayed_error, tcp_writes, acceptVars, otherEnd>>

\* WSARecv, and the callback: with data, which may have filled the buffer; with
\* nothing, as there is none; with the end; or with an error.
ReadsNow ==
  /\ tcp_pc = "reading" /\ TcpHas("reading") /\ reads_left > 0
  /\ tcp_pc' = "callback"
  /\ \/ /\ tcp_avail > 0 /\ tcp_end # "reset"
        /\ tcp_avail' = tcp_avail - 1
        /\ reads_left' \in {0, reads_left - 1}
        /\ UNCHANGED <<tcp_flags, tcp_active>>
     \/ /\ tcp_avail = 0 /\ tcp_end = "none"
        /\ reads_left' = 0
        /\ UNCHANGED <<tcp_flags, tcp_active, tcp_avail>>
     \/ /\ tcp_end = "reset" \/ (tcp_avail = 0 /\ tcp_end = "eof")
        /\ tcp_flags' = tcp_flags \ ({"reading"} \cup IF tcp_end = "eof" THEN {} ELSE {"readable", "writable"})
        /\ tcp_active' = tcp_active - 1
        /\ reads_left' = 0
        /\ UNCHANGED tcp_avail
  /\ UNCHANGED <<tcp_role, tcp_life, tcp_socket, delayed_error, tcp_writes, tcpReqVars, acceptVars, tcp_cb, tcp_owed,
                 tcp_unsent, tcp_end, coming>>

\* No buffer: read_cb is told so, and the loop ends.
NoReadBuffer ==
  /\ tcp_pc = "reading" /\ TcpHas("reading") /\ reads_left > 0
  /\ tcp_pc' = "callback" /\ reads_left' = 0
  /\ UNCHANGED <<tcpHandleVars, tcpReqVars, acceptVars, tcp_cb, tcp_owed, otherEnd>>

\* done: another zero read, unless a callback has started one.
ReadsDone ==
  /\ tcp_pc = "reading" /\ ~(TcpHas("reading") /\ reads_left > 0)
  /\ LoopGoesOn
  /\ IF TcpHas("reading") /\ ~TcpHas("read_pending")
       THEN QueueZeroRead(tcp_flags, tcp_reqs - 1) /\ UNCHANGED tcp_life
       ELSE Decreased(tcp_reqs - 1) /\ UNCHANGED <<tcp_flags, tcp_at, tcp_failed, tcp_pending>>
  /\ UNCHANGED <<tcp_role, tcp_socket, delayed_error, tcp_active, tcp_writes, cancelled, acceptVars, otherEnd>>

\* uv__process_tcp_connect_req; SO_UPDATE_CONNECT_CONTEXT may fail.
uv__process_tcp_connect_req ==
  /\ Takes(ConnectReq)
  /\ tcp_active' = tcp_active - 1
  /\ delayed_error' = FALSE
  /\ tcp_flags' \in {tcp_flags} \cup IF delayed_error \/ ConnectReq \in tcp_failed \/ tcp_life # "open" THEN {}
                                     ELSE {tcp_flags \cup {"connection", "readable", "writable"}}
  /\ Calls(ConnectReq, 1, 0)
  /\ UNCHANGED <<tcp_role, tcp_life, tcp_socket, tcp_writes, tcp_reqs, acceptVars, otherEnd>>

\* uv__process_tcp_write_req, up to the callback.
uv__process_tcp_write_req(w) ==
  /\ Takes(w)
  /\ tcp_active' = tcp_active - 1
  /\ Calls(w, 1, 0)
  /\ UNCHANGED <<tcp_role, tcp_life, tcp_socket, tcp_flags, delayed_error, tcp_writes, tcp_reqs, acceptVars, otherEnd>>

\* uv__process_tcp_shutdown_req: a handle that closes is not shut down.
ShutsDown ==
  /\ tcp_active' = tcp_active - 1
  /\ tcp_flags' \in {tcp_flags} \cup IF tcp_life = "open" THEN {tcp_flags \cup {"shut"}} ELSE {}

ProcessShutdown ==
  /\ Takes(ShutdownReq)
  /\ ShutsDown
  /\ Calls(ShutdownReq, 1, 0)
  /\ UNCHANGED <<tcp_role, tcp_life, tcp_socket, delayed_error, tcp_writes, tcp_reqs, acceptVars, otherEnd>>

\* The callback of a write returns: after the last one the socket of a closing
\* handle is closed, and a shutdown takes place, within the processing of the write.
WriteCbReturns ==
  /\ tcp_pc = "callback" /\ tcp_cb \in WriteReqs
  /\ tcp_writes' = tcp_writes - 1
  /\ tcp_socket' = IF tcp_writes = 1 /\ tcp_life # "open" THEN "INVALID" ELSE tcp_socket
  /\ IF tcp_writes = 1 /\ tcp_at[ShutdownReq] = "waiting"
       THEN /\ ShutsDown
            /\ tcp_at' = [tcp_at EXCEPT ![ShutdownReq] = "done"]
            /\ Calls(ShutdownReq, 2, 0)
            /\ UNCHANGED <<tcp_reqs, tcp_life>>
       ELSE /\ Decreased(tcp_reqs - 1)
            /\ LoopGoesOn
            /\ UNCHANGED <<tcp_at, tcp_flags, tcp_active>>
  /\ UNCHANGED <<tcp_role, delayed_error, tcp_failed, tcp_pending, cancelled, acceptVars, otherEnd>>

\* uv__process_tcp_accept_req: an error of uv__tcp_queue_accept ends the listening,
\* one of the connection only means another request.
uv__process_tcp_accept_req(a) ==
  /\ tcp_pc = "idle" /\ tcp_pending # <<>> /\ a = Head(tcp_pending)
  /\ IF accept_socket[a] = "INVALID"
       THEN /\ Takes(a)
            /\ UNCHANGED acceptVars
            /\ IF TcpHas("listening")
                 THEN /\ tcp_flags' = tcp_flags \ {"listening"}
                      /\ tcp_active' = tcp_active - 1
                      /\ Calls(a, 1, 0)
                      /\ UNCHANGED <<tcp_reqs, tcp_life>>
                 ELSE Decreased(tcp_reqs - 1) /\ NoCall /\ UNCHANGED <<tcp_flags, tcp_active>>
     ELSE IF a \notin tcp_failed
       THEN /\ Takes(a)
            /\ pending_accepts' = <<a>> \o pending_accepts
            /\ Calls(a, 1, 0)
            /\ UNCHANGED <<accept_socket, processed_accepts, made, tcp_flags, tcp_active, tcp_reqs, tcp_life>>
     ELSE LET sockets == [accept_socket EXCEPT ![a] = "INVALID"]
          IN /\ NoCall
             /\ UNCHANGED <<pending_accepts, processed_accepts, tcp_active>>
             /\ IF TcpHas("listening")
                  THEN QueueAccepts({a}, sockets, made - 1, tcp_flags, Tail(tcp_pending), tcp_reqs - 1) /\ UNCHANGED tcp_life
                  ELSE /\ Takes(a) /\ Decreased(tcp_reqs - 1) /\ UNCHANGED tcp_flags
                       /\ accept_socket' = sockets /\ made' = made - 1
  /\ UNCHANGED <<tcp_role, tcp_socket, delayed_error, tcp_writes, otherEnd>>

TcpCbReturns ==
  /\ tcp_pc = "callback"
  /\ IF tcp_cb = ReadReq
       THEN tcp_pc' = "reading" /\ UNCHANGED <<tcp_reqs, tcp_life, tcp_cb, tcp_owed, reads_left>>
       ELSE tcp_cb \notin WriteReqs /\ LoopGoesOn /\ Decreased(tcp_reqs - tcp_owed)
  /\ UNCHANGED <<tcp_role, tcp_socket, tcp_flags, delayed_error, tcp_active, tcp_writes, tcp_at, tcp_failed, tcp_pending,
                 cancelled, acceptVars, otherEnd>>

TcpLoop ==
  \/ uv__process_tcp_read_req \/ ReadsNow \/ NoReadBuffer \/ ReadsDone \/ uv__process_tcp_connect_req
  \/ ProcessShutdown \/ WriteCbReturns \/ TcpCbReturns \/ uv__tcp_endgame
  \/ \E w \in WriteReqs : uv__process_tcp_write_req(w)
  \/ \E a \in AcceptReqs : uv__process_tcp_accept_req(a)

TcpUserCode ==
  \/ uv__tcp_listen \/ uv_tcp_simultaneous_accepts \/ uv__tcp_accept
  \/ uv__tcp_connect \/ uv__tcp_read_start \/ uv_read_stop_tcp \/ uv_shutdown_tcp \/ uv__tcp_close
  \/ \E w \in WriteReqs : uv__tcp_write(w)

TcpOver == tcp_life = "closed" /\ UNCHANGED winTcpVars

WinTcpNext ==
  \/ TcpOver \/ TcpLoop \/ TcpUserCode \/ ZeroReadEnds \/ OtherEndSends
  \/ \E q \in TcpReqs : Aborted(q) \/ KernelAnswers(q)
  \/ \E a \in AcceptReqs : ConnectionComes(a)

-----------------------------------------------------------------------------
(* Properties *)

CallbackOf(q) == IF tcp_pc # "idle" /\ tcp_cb = q THEN 1 ELSE 0

\* The three counts that decide when a handle may be closed, and whether the loop
\* may end, are exact at every moment a callback can look: each request that was
\* started and has not been processed to its end, what keeps the loop alive, and
\* the writes for which the socket is kept.
CountsExact ==
  LET waiting == {q \in TcpReqs : tcp_at[q] \in {"waiting", "kernel", "pending"}}
  IN /\ tcp_reqs = Cardinality(waiting) + tcp_owed
     /\ tcp_active = Cardinality(tcp_flags \cap {"reading", "listening"})
                       + Cardinality(waiting \ ({ReadReq} \cup AcceptReqs))
     /\ tcp_writes = Cardinality(waiting \cap WriteReqs)
                       + (IF tcp_pc = "callback" /\ tcp_cb \in WriteReqs THEN 1 ELSE 0)
     /\ TcpHas("read_pending") <=> ReadReq \in waiting

\* When the last request has come back nothing is left: no request in the kernel,
\* no socket, neither the handle's nor one made for a connection.
NothingLeft ==
  /\ made = Cardinality({a \in AcceptReqs : accept_socket[a] # "INVALID"})
  /\ tcp_life \in {"endgame", "closed"} =>
       Outstanding = {} /\ tcp_socket = "INVALID" /\ made = 0 /\ tcp_active = 0

\* A server that listens is never deaf: a request waits in the kernel or comes
\* back, or the user holds a connection whose acceptance will start another,
\* also while the number of requests is being reduced.
NeverDeaf ==
  TcpHas("listening") => pending_accepts # <<>> \/ \E a \in AcceptReqs : a \in Outstanding \/ CallbackOf(a) = 1

\* Accepts are only asked for while the server listens: the assertion of
\* uv__tcp_queue_accept.
AcceptsWhileListening ==
  [][\A a \in AcceptReqs : tcp_reqs' > tcp_reqs /\ tcp_at'[a] # tcp_at[a] => "listening" \in tcp_flags']_winTcpVars

\* No write is in the kernel when the socket of a connection is closed, which would
\* reset the connection, or when its end is sent.
WritesComeFirst ==
  [][(tcp_socket' # tcp_socket /\ TcpHas("connection")) \/ "shut" \in tcp_flags' \ tcp_flags
       => \A w \in WriteReqs : tcp_at[w] \notin {"kernel", "pending"}]_winTcpVars

\* A handle that closes is closed; data, or the end, does not wait for ever while
\* the user reads; a shutdown waits for nothing but writes.
TcpProgress ==
  /\ []<>(tcp_life \notin {"closing", "endgame"})
  /\ []<>~(TcpHas("reading") /\ tcp_pc = "idle" /\ (tcp_avail > 0 \/ tcp_end # "none"))
  /\ []<>(tcp_at[ShutdownReq] # "waiting" \/ \E w \in WriteReqs : tcp_at[w] = "kernel")

\* What a TCP handle promises on Windows: all of the above.
WinTcpPromise ==
  [](CountsExact /\ NothingLeft /\ NeverDeaf) /\ AcceptsWhileListening /\ WritesComeFirst /\ TcpProgress
=============================================================================
