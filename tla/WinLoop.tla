-------------------------------- MODULE WinLoop --------------------------------
(***************************************************************************)
(* The event loop on Windows (win/core.c, req-inl.h, handle-inl.h,         *)
(* win/async.c): completed operations come out of a completion port into a *)
(* circular list of requests, which is walked while callbacks put requests *)
(* into its successor; a closing handle waits for its requests and then on *)
(* the endgame list.  Handles other than async handles are alike here:     *)
(* each has requests of its own that the user may start.                   *)
(***************************************************************************)
EXTENDS Integers, Sequences, FiniteSets, SequencesExt

CONSTANTS
  WinHandles,   \* the handles
  WinAsync,     \* those of them that are uv_async_t, with one request each
  WinReqs,      \* the requests
  HandleOf,     \* the handle of each
  NoReq,        \* NULL
  Rounds,       \* times uv_run processes requests after a poll (8)
  PortBatch     \* packets taken from the port at a time (128)

ASSUME WinLoopAssumption ==
  /\ WinAsync \subseteq WinHandles /\ HandleOf \in [WinReqs -> WinHandles]
  /\ NoReq \notin WinReqs /\ Rounds \in Nat \ {0} /\ PortBatch \in Nat \ {0}

VARIABLES
  win_life,       \* "open", "closing" or "closed"
  win_active,     \* UV_HANDLE_ACTIVE
  activecnt, reqs_pending,  \* of each handle
  async_sent,     \* of the async handles
  win_handles,    \* loop->active_handles
  endgames,       \* loop->endgame_handles, the first one first
  next_req, tail, \* the list of pending requests: next_req and pending_reqs_tail
  overlapped,     \* requests the kernel works on
  port,           \* packets in the completion port
  win_at,         \* "out", "process", "callback", "poll", "again" or "endgames"
  win_mode,       \* of uv_run
  round,          \* how often requests were processed after the poll, -1 before it
  first, upcoming,\* uv__process_reqs: first and next
  current         \* ... and the request whose callback runs

winHandleVars == <<win_life, win_active, activecnt, reqs_pending, async_sent, win_handles, endgames>>
listVars == <<next_req, tail>>
walkReqVars == <<first, upcoming, current>>
winLoopVars == <<winHandleVars, listVars, overlapped, port, win_at, win_mode, round, walkReqVars>>

WinLoopInit ==
  /\ win_life = [h \in WinHandles |-> "open"]
  /\ win_active = WinAsync
  /\ activecnt = [h \in WinHandles |-> 0]
  /\ reqs_pending = [h \in WinHandles |-> 0]
  /\ async_sent = [h \in WinAsync |-> FALSE]
  /\ win_handles = Cardinality(WinAsync)
  /\ endgames = <<>>
  /\ next_req = [q \in WinReqs |-> NoReq] /\ tail = NoReq
  /\ overlapped = {} /\ port = <<>>
  /\ win_at = "out" /\ win_mode = "default" /\ round = -1
  /\ first = NoReq /\ upcoming = NoReq /\ current = NoReq

-----------------------------------------------------------------------------
(* The list of pending requests                                             *)

\* uv__insert_pending_req, on a record of next_req and tail.
List == [next |-> next_req, tail |-> tail]
InsertedReq(l, q) ==
  IF l.tail = NoReq THEN [next |-> [l.next EXCEPT ![q] = q], tail |-> q]
  ELSE [next |-> [l.next EXCEPT ![q] = l.next[l.tail], ![l.tail] = q], tail |-> q]
InsertedAll(l, qs) == FoldLeft(InsertedReq, l, qs)
SetList(l) == next_req' = l.next /\ tail' = l.tail

\* The requests met by following next_req from q to the one before stop.
FromTo(q, stop) ==
  LET met[i \in 0..Cardinality(WinReqs)] ==
        IF i = 0 THEN q ELSE IF next_req[met[i - 1]] = stop THEN met[i - 1] ELSE next_req[met[i - 1]]
  IN IF q = NoReq THEN {} ELSE {met[i] : i \in 0..Cardinality(WinReqs)}

PendingReqs == IF tail = NoReq THEN {} ELSE FromTo(next_req[tail], next_req[tail])
ToProcess == FromTo(upcoming, first)
ReqIdle(q) == q \notin overlapped \cup PendingReqs \cup ToProcess \cup {port[i] : i \in 1..Len(port)}

-----------------------------------------------------------------------------
(* The user, in callbacks and outside uv_run, and other threads             *)

WinUserCode == win_at \in {"out", "callback", "endgames"}

\* REGISTER_HANDLE_REQ and reqs_pending++; the operation may be done at once
\* and then needs no packet, or has failed and is reported the same way.
StartOp(q, at_once) ==
  LET h == HandleOf[q]
  IN /\ WinUserCode /\ win_life[h] = "open" /\ h \notin WinAsync /\ ReqIdle(q)
     /\ activecnt' = [activecnt EXCEPT ![h] = @ + 1]
     /\ win_active' = win_active \cup {h}
     /\ win_handles' = IF activecnt[h] = 0 THEN win_handles + 1 ELSE win_handles
     /\ reqs_pending' = [reqs_pending EXCEPT ![h] = @ + 1]
     /\ IF at_once THEN SetList(InsertedReq(List, q)) /\ UNCHANGED overlapped
                   ELSE overlapped' = overlapped \cup {q} /\ UNCHANGED listVars
     /\ UNCHANGED <<win_life, async_sent, endgames, port, win_at, win_mode, round, walkReqVars>>

\* uv_async_send, in any thread.
uv_async_send_win(q) ==
  LET h == HandleOf[q]
  IN /\ h \in WinAsync /\ win_life[h] = "open" /\ ~async_sent[h]
     /\ async_sent' = [async_sent EXCEPT ![h] = TRUE]
     /\ port' = Append(port, q)
     /\ UNCHANGED <<win_life, win_active, activecnt, reqs_pending, win_handles, endgames, listVars,
                    overlapped, win_at, win_mode, round, walkReqVars>>

\* uv__want_endgame.
Wanted(h) == IF Contains(endgames, h) THEN endgames ELSE <<h>> \o endgames

Ready(h) == IF h \in WinAsync THEN ~async_sent[h] ELSE reqs_pending[h] = 0

\* uv_close: the handle counts as active until it is closed.
uv_close_win(h) ==
  /\ WinUserCode /\ win_life[h] = "open"
  /\ win_life' = [win_life EXCEPT ![h] = "closing"]
  /\ win_handles' = IF h \in win_active THEN win_handles ELSE win_handles + 1
  /\ win_active' = win_active \ {h}
  /\ endgames' = IF Ready(h) THEN Wanted(h) ELSE endgames
  /\ UNCHANGED <<activecnt, reqs_pending, async_sent, listVars, overlapped, port, win_at, win_mode,
                 round, walkReqVars>>

\* The kernel is done with an operation, also with one that was cancelled.
KernelDone(q) ==
  /\ q \in overlapped
  /\ overlapped' = overlapped \ {q}
  /\ port' = Append(port, q)
  /\ UNCHANGED <<winHandleVars, listVars, win_at, win_mode, round, walkReqVars>>

-----------------------------------------------------------------------------
(* uv_run                                                                   *)

\* uv__loop_alive; every active request belongs to an active handle here.
WinAlive == win_handles > 0 \/ tail # NoReq \/ endgames # <<>>

\* uv__process_reqs takes the whole list.
TakeList ==
  /\ first' = IF tail = NoReq THEN NoReq ELSE next_req[tail]
  /\ upcoming' = IF tail = NoReq THEN NoReq ELSE next_req[tail]
  /\ tail' = NoReq
  /\ UNCHANGED next_req

WinRun(mode) ==
  /\ win_at = "out" /\ WinAlive
  /\ win_mode' = mode
  /\ win_at' = "process" /\ round' = -1
  /\ TakeList
  /\ UNCHANGED <<winHandleVars, overlapped, port, current>>

\* Its loop: next is read before the handler runs, which may insert req again.
\* The bookkeeping of a request ends when its callback has returned.
Following(q) == IF next_req[q] # first THEN next_req[q] ELSE NoReq

ProcessReq ==
  /\ win_at = "process" /\ upcoming # NoReq
  /\ upcoming' = Following(upcoming)
  /\ LET h == HandleOf[upcoming]
     IN IF h \in WinAsync
          THEN /\ async_sent' = [async_sent EXCEPT ![h] = FALSE]
               /\ endgames' = IF win_life[h] = "closing" THEN Wanted(h) ELSE endgames
               /\ win_at' = IF win_life[h] = "open" THEN "callback" ELSE "process"
               /\ UNCHANGED <<activecnt, win_active, win_handles>>
          ELSE /\ activecnt' = [activecnt EXCEPT ![h] = @ - 1]
               /\ IF activecnt[h] = 1 /\ win_life[h] = "open"
                    THEN win_active' = win_active \ {h} /\ win_handles' = win_handles - 1
                    ELSE UNCHANGED <<win_active, win_handles>>
               /\ win_at' = "callback"
               /\ UNCHANGED <<async_sent, endgames>>
  /\ current' = IF win_at' = "callback" THEN upcoming ELSE NoReq
  /\ UNCHANGED <<win_life, reqs_pending, listVars, overlapped, port, win_mode, round, first>>

\* DECREASE_PENDING_REQ_COUNT.
WinCallbackReturns ==
  /\ win_at = "callback"
  /\ win_at' = "process"
  /\ LET h == HandleOf[current]
     IN IF h \in WinAsync THEN UNCHANGED <<reqs_pending, endgames>>
        ELSE /\ reqs_pending' = [reqs_pending EXCEPT ![h] = @ - 1]
             /\ endgames' = IF win_life[h] = "closing" /\ reqs_pending[h] = 1 THEN Wanted(h)
                            ELSE endgames
  /\ current' = NoReq
  /\ UNCHANGED <<win_life, win_active, activecnt, async_sent, win_handles, listVars, overlapped,
                 port, win_mode, round, first, upcoming>>

ReqsProcessed ==
  /\ win_at = "process" /\ upcoming = NoReq
  /\ win_at' = IF round = -1 THEN "poll" ELSE "again"
  /\ UNCHANGED <<winHandleVars, listVars, overlapped, port, win_mode, round, walkReqVars>>

MaySleepForgets == win_mode # "nowait" /\ win_handles > 0

\* uv_backend_timeout, for a loop without timers: 0 or infinite.
MaySleep == win_mode # "nowait" /\ win_handles > 0 /\ tail = NoReq /\ endgames = <<>>

\* uv__poll takes what the port has, at most a batch.
WinPoll ==
  /\ win_at = "poll" /\ (MaySleep => port # <<>>)
  /\ LET n == IF Len(port) < PortBatch THEN Len(port) ELSE PortBatch
     IN /\ SetList(InsertedAll(List, SubSeq(port, 1, n)))
        /\ port' = SubSeq(port, n + 1, Len(port))
  /\ win_at' = "again" /\ round' = 0
  /\ UNCHANGED <<winHandleVars, overlapped, win_mode, walkReqVars>>

ProcessAgain ==
  /\ win_at = "again"
  /\ IF round < Rounds /\ tail # NoReq
       THEN round' = round + 1 /\ win_at' = "process" /\ TakeList
       ELSE win_at' = "endgames" /\ UNCHANGED <<round, listVars, first, upcoming>>
  /\ UNCHANGED <<winHandleVars, overlapped, port, win_mode, current>>

\* uv__process_endgames; a handle that is not done yet will be wanted again.
Endgame ==
  /\ win_at = "endgames" /\ endgames # <<>>
  /\ endgames' = Tail(endgames)
  /\ LET h == Head(endgames)
     IN IF Ready(h) THEN /\ win_life' = [win_life EXCEPT ![h] = "closed"]
                         /\ win_handles' = win_handles - 1
                    ELSE UNCHANGED <<win_life, win_handles>>
  /\ UNCHANGED <<win_active, activecnt, reqs_pending, async_sent, listVars, overlapped, port,
                 win_at, win_mode, round, walkReqVars>>

EndgamesDone ==
  /\ win_at = "endgames" /\ endgames = <<>>
  /\ IF WinAlive /\ win_mode = "default"
       THEN win_at' = "process" /\ round' = -1 /\ TakeList
       ELSE win_at' = "out" /\ UNCHANGED <<round, listVars, first, upcoming>>
  /\ UNCHANGED <<winHandleVars, overlapped, port, win_mode, current>>

WinLoopStep == \/ ProcessReq \/ WinCallbackReturns \/ ReqsProcessed \/ WinPoll \/ ProcessAgain
               \/ Endgame \/ EndgamesDone \/ WinRun("default")

AllClosed ==
  win_at = "out" /\ (\A h \in WinHandles : win_life[h] = "closed") /\ UNCHANGED winLoopVars

WinLoopNext ==
  \/ WinLoopStep
  \/ \E mode \in {"once", "nowait"} : WinRun(mode)
  \/ \E q \in WinReqs : \/ uv_async_send_win(q) \/ KernelDone(q)
                        \/ \E at_once \in BOOLEAN : StartOp(q, at_once)
  \/ \E h \in WinHandles : uv_close_win(h)
  \/ AllClosed

-----------------------------------------------------------------------------
(* Properties *)

\* Each handle's pending count is the number of its requests that are under
\* way, wherever they are: in the kernel, in the port, in the new list, in the
\* rest of the one that is walked, or in a callback that may have started them
\* anew.  So no list loses or repeats one, and none outlives its handle.
RequestsHeld ==
  /\ PendingReqs \cap ToProcess = {}
  /\ \A h \in WinHandles \ WinAsync :
       reqs_pending[h] = Cardinality({q \in WinReqs : HandleOf[q] = h /\ ~ReqIdle(q)})
                         + (IF current # NoReq /\ HandleOf[current] = h THEN 1 ELSE 0)
  /\ \A h \in WinAsync : async_sent[h] <=> \E q \in WinReqs : HandleOf[q] = h /\ ~ReqIdle(q)
  /\ \A q \in WinReqs : win_life[HandleOf[q]] = "closed" => ReqIdle(q) /\ current # q
  /\ win_handles = Cardinality(win_active) + Cardinality({h \in WinHandles : win_life[h] = "closing"})

\* A closing handle is closed: when the loop sleeps, one of its requests is
\* still to come.
WinCloses == \A h \in WinHandles : []<>(win_life[h] # "closing")

\* What the loop of Windows owes: both of the above.
WinLoopPromise == []RequestsHeld /\ WinCloses
=============================================================================
