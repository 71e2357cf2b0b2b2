-------------------------------- MODULE WinPoll --------------------------------
(***************************************************************************)
(* A poll handle on Windows (win/poll.c).  It has two requests: when the   *)
(* user asks for events that the one under way does not cover, the other   *)
(* is submitted, and masks keep an event from being reported by both.  The *)
(* fast kind are polls of the AFD driver, of which an exclusive one makes  *)
(* the others return; the slow kind are threads in select, which read what *)
(* is asked for when they start.                                           *)
(***************************************************************************)
EXTENDS Integers, Sequences

CONSTANTS
  PollEvents,   \* UV_READABLE, UV_WRITABLE and UV_DISCONNECT, or some of them
  Conditions,   \* what the socket may meet: "receive", "send", "disconnect"
  SocketCloses  \* the user closes the socket that is polled

ASSUME WinPollAssumption ==
  /\ PollEvents \subseteq {"readable", "writable", "disconnect"}
  /\ Conditions \subseteq {"receive", "send", "disconnect"}
  /\ SocketCloses \in BOOLEAN

PollReqs == {1, 2}

VARIABLES
  slow,        \* UV_HANDLE_POLL_SLOW
  wp_life,     \* "open", "closing", "endgame" (wanted) or "closed"
  wp_active,   \* UV_HANDLE_ACTIVE
  wp_events,   \* handle->events
  submitted,   \* submitted_events_1 and _2
  mask_events, \* mask_events_1 and _2, of submitted requests
  req_at,      \* of each request: "idle", "thread" (not started), "kernel" or "port"
  sought,      \* what the kernel, or select, looks for
  port_order,  \* the requests in the port, or pending, the first one first
  answer,      \* what a request in the port reports, {"error"} for a failure
  socket,      \* the conditions of the socket: "receive", "send", "disconnect";
               \* or {"local_close"}
  wp_at,       \* "idle", "callback" or "processed" of the request wp_req
  told,        \* what the callback is told, {"error"} for an error
  armed        \* history: {"writable"} if that was submitted since it was last told

reqVars == <<submitted, mask_events, req_at, sought, answer, port_order, armed>>
winPollVars == <<slow, wp_life, wp_active, wp_events, reqVars, socket, wp_at, told>>

WinPollInit ==
  /\ slow \in BOOLEAN /\ wp_life = "open" /\ wp_active = FALSE /\ wp_events = {}
  /\ submitted = [k \in PollReqs |-> {}] /\ mask_events = [k \in PollReqs |-> {}]
  /\ req_at = [k \in PollReqs |-> "idle"]
  /\ sought = [k \in PollReqs |-> {}] /\ answer = [k \in PollReqs |-> {}]
  /\ port_order = <<>>
  /\ socket = {} /\ wp_at = "idle" /\ told = {} /\ armed = {}

-----------------------------------------------------------------------------
(* Submitting                                                               *)

\* uv__fast_poll_submit_poll_req: the AFD events to ask for.
AfdEvents(ev) ==
  (IF "readable" \in ev THEN {"receive", "disconnect"} ELSE ev \cap {"disconnect"})
  \cup (IF "writable" \in ev THEN {"send"} ELSE {})

Unsubmitted == IF submitted[1] = {} THEN 1 ELSE IF submitted[2] = {} THEN 2 ELSE 0
Uncovered == wp_events' \ (submitted[1] \cup submitted[2]) # {}

\* An exclusive poll makes the others return without events.
InKernel == (IF req_at[1] = "kernel" THEN <<1>> ELSE <<>>) \o (IF req_at[2] = "kernel" THEN <<2>> ELSE <<>>)
SentBack == [k \in PollReqs |-> IF req_at[k] = "kernel" THEN "port" ELSE req_at[k]]

MasksLeft(k, ev) == mask_events
MasksSet(k, ev) == [j \in PollReqs |-> IF j = k \/ submitted[j] = {} THEN {} ELSE ev]

\* Both kinds of submit; the exclusive poll sends the other request back.  With
\* both under way nothing is done: the first that returns will submit.
\* It may fail, and surely does if the socket is gone.
SubmitPollReq ==
  IF Unsubmitted = 0 THEN UNCHANGED reqVars
  ELSE LET k == Unsubmitted
           ev == wp_events'
       IN /\ submitted' = [submitted EXCEPT ![k] = ev]
          /\ mask_events' = MasksSet(k, ev)
          /\ armed' = armed \cup (ev \cap {"writable"})
          /\ \/ /\ slow
                /\ req_at' = [req_at EXCEPT ![k] = "thread"]
                /\ UNCHANGED <<sought, answer, port_order>>
             \/ /\ ~slow /\ socket # {"local_close"}
                /\ req_at' = [SentBack EXCEPT ![k] = "kernel"]
                /\ port_order' = port_order \o InKernel
                /\ sought' = [sought EXCEPT ![k] = AfdEvents(ev)]
                /\ UNCHANGED answer
             \/ /\ req_at' = [req_at EXCEPT ![k] = "port"]
                /\ answer' = [answer EXCEPT ![k] = {"error"}]
                /\ port_order' \in {<<k>> \o port_order, Append(port_order, k)}
                /\ UNCHANGED sought

-----------------------------------------------------------------------------
(* The user, in poll_cb or outside                                          *)

PollUser == wp_at \in {"idle", "callback"} /\ wp_life = "open"

\* uv__poll_set, of uv_poll_start and uv_poll_stop.  A slow handle is not asked
\* for UV_DISCONNECT, which select does not tell.
uv__poll_set(ev) ==
  /\ PollUser /\ ev # wp_events
  /\ slow => "disconnect" \notin ev
  /\ wp_events' = ev
  /\ wp_active' = (ev # {})
  /\ IF ev # {} /\ Uncovered THEN SubmitPollReq ELSE UNCHANGED reqVars
  /\ UNCHANGED <<slow, wp_life, socket, wp_at, told>>

NoneSubmitted == submitted[1] = {} /\ submitted[2] = {}

\* uv__poll_close: one more exclusive poll sends the requests back.
uv__poll_close ==
  /\ PollUser
  /\ wp_events' = {}
  /\ wp_active' = FALSE
  /\ wp_life' = IF NoneSubmitted THEN "endgame" ELSE "closing"
  /\ IF slow THEN UNCHANGED <<req_at, port_order>>
             ELSE req_at' = SentBack /\ port_order' = port_order \o InKernel
  /\ UNCHANGED <<slow, submitted, mask_events, sought, answer, armed, socket, wp_at, told>>

-----------------------------------------------------------------------------
(* The system                                                               *)

SocketChanges(c) ==
  /\ socket # {"local_close"} /\ c # socket /\ wp_life = "open"
  /\ "disconnect" \in socket => "disconnect" \in c
  /\ socket' = c
  /\ UNCHANGED <<slow, wp_life, wp_active, wp_events, reqVars, wp_at, told>>

SocketIsClosed ==
  /\ SocketCloses /\ wp_life = "open" /\ socket # {"local_close"}
  /\ socket' = {"local_close"}
  /\ UNCHANGED <<slow, wp_life, wp_active, wp_events, reqVars, wp_at, told>>

Found(k) == socket \cap (sought[k] \cup {"local_close"})

Posted(k, a) ==
  /\ req_at' = [req_at EXCEPT ![k] = "port"]
  /\ answer' = [answer EXCEPT ![k] = a]
  /\ port_order' = Append(port_order, k)

\* The driver answers a poll.
KernelAnswers(k) ==
  /\ ~slow /\ req_at[k] = "kernel" /\ Found(k) # {}
  /\ Posted(k, Found(k))
  /\ UNCHANGED <<slow, wp_life, wp_active, wp_events, submitted, mask_events, sought, armed, socket,
                 wp_at, told>>

\* uv__slow_poll_thread_proc reads handle->events; select fails without any.
ThreadStarts(k) ==
  /\ req_at[k] = "thread"
  /\ sought' = [sought EXCEPT ![k] = AfdEvents(wp_events)]
  /\ IF wp_events = {}
       THEN Posted(k, {"error"})
       ELSE req_at' = [req_at EXCEPT ![k] = "kernel"] /\ UNCHANGED <<answer, port_order>>
  /\ UNCHANGED <<slow, wp_life, wp_active, wp_events, submitted, mask_events, armed, socket, wp_at, told>>

\* select returns: something is there, three minutes have passed, or the socket is gone.
ThreadEnds(k) ==
  /\ slow /\ req_at[k] = "kernel"
  /\ Posted(k, IF socket = {"local_close"} THEN {"error"} ELSE socket \cap sought[k])
  /\ UNCHANGED <<slow, wp_life, wp_active, wp_events, submitted, mask_events, sought, armed, socket,
                 wp_at, told>>

-----------------------------------------------------------------------------
(* The loop                                                                 *)

\* uv__fast_poll_process_poll_req translates; select has told libuv's own events.
UvEvents(afd) ==
  (IF afd \cap {"receive", "disconnect"} # {} THEN {"readable"} ELSE {})
  \cup (IF ~slow THEN afd \cap {"disconnect"} ELSE {})
  \cup (IF "send" \in afd THEN {"writable"} ELSE {})

\* Both kinds of process: an error stops the watcher, which stays active; the
\* local close stops both.
uv__process_poll_req(k) ==
  /\ wp_at = "idle" /\ port_order # <<>> /\ k = Head(port_order)
  /\ port_order' = Tail(port_order)
  /\ req_at' = [req_at EXCEPT ![k] = "idle"]
  /\ submitted' = [submitted EXCEPT ![k] = {}]
  /\ IF answer[k] = {"error"}
       THEN /\ told' = IF wp_events # {} THEN {"error"} ELSE {}
            /\ wp_events' = {} /\ UNCHANGED wp_active
       ELSE /\ told' = (UvEvents(answer[k]) \cap wp_events) \ mask_events[k]
            /\ IF "local_close" \in answer[k] THEN wp_events' = {} /\ wp_active' = FALSE
                                              ELSE UNCHANGED <<wp_events, wp_active>>
  /\ armed' = armed \ told'
  /\ sought' = [sought EXCEPT ![k] = {}] /\ answer' = [answer EXCEPT ![k] = {}]
  /\ mask_events' = [mask_events EXCEPT ![k] = {}]
  /\ wp_at' = IF told' = {} THEN "processed" ELSE "callback"
  /\ UNCHANGED <<slow, wp_life, socket>>

PollCbReturns ==
  /\ wp_at = "callback"
  /\ wp_at' = "processed" /\ told' = {}
  /\ UNCHANGED <<slow, wp_life, wp_active, wp_events, reqVars, socket>>

Ends == wp_life = "closing" /\ NoneSubmitted

\* Their last part: what is asked for now may need another request.
PollProcessed ==
  /\ wp_at = "processed"
  /\ wp_at' = "idle"
  /\ UNCHANGED <<slow, wp_active, wp_events, socket, told>>
  /\ IF Uncovered THEN SubmitPollReq /\ UNCHANGED wp_life
     ELSE wp_life' = (IF Ends THEN "endgame" ELSE wp_life) /\ UNCHANGED reqVars

uv__poll_endgame ==
  /\ wp_at = "idle" /\ wp_life = "endgame"
  /\ wp_life' = "closed"
  /\ UNCHANGED <<slow, wp_active, wp_events, reqVars, socket, wp_at, told>>

PollLoop == \/ PollCbReturns \/ PollProcessed \/ uv__poll_endgame
            \/ \E k \in PollReqs : uv__process_poll_req(k)

PollOver == wp_life = "closed" /\ UNCHANGED winPollVars

WinPollNext ==
  \/ PollOver \/ PollLoop \/ uv__poll_close \/ SocketIsClosed
  \/ \E ev \in SUBSET PollEvents : uv__poll_set(ev)
  \/ \E c \in SUBSET Conditions : SocketChanges(c)
  \/ \E k \in PollReqs : KernelAnswers(k) \/ ThreadStarts(k) \/ ThreadEnds(k)

WinPollSpec == WinPollInit /\ [][WinPollNext]_winPollVars

-----------------------------------------------------------------------------
(* Properties *)

\* The kernel and the threads write into the handle: it is closed only when
\* neither of them has a request of it any more.
NoneAfterClose ==
  /\ \A k \in PollReqs : req_at[k] # "idle" <=> submitted[k] # {}
  /\ wp_life \in {"endgame", "closed"} => \A k \in PollReqs : req_at[k] = "idle"

\* However often the user changes what is asked for, the driver polls for all
\* of it, or a request is on its way back whose processing will see to it.
AllPolled ==
  wp_life = "open" /\ wp_at = "idle" /\ ~slow =>
    \/ \E k \in PollReqs : req_at[k] = "port"
    \/ AfdEvents(wp_events) \subseteq UNION {sought[k] : k \in {j \in PollReqs : req_at[j] = "kernel"}}

\* That the socket is writable is told once for each time it was submitted,
\* although two requests may see it.  (A disconnect may be told twice, and
\* threads may see it again.)
TellsOnce == ~slow => told' \cap {"writable"} \subseteq armed \cup told

\* What a poll handle of Windows may never get wrong.
WinPollPromise == [](NoneAfterClose /\ AllPolled) /\ [][TellsOnce]_winPollVars

\* A closing handle is closed, and an event that stays true is told if the user
\* does not change for ever what is asked for.
PollProgress ==
  /\ []<>(wp_life \notin {"closing", "endgame"})
  /\ \/ []<><<wp_events' # wp_events>>_winPollVars
     \/ []<>~("writable" \in wp_events \ told /\ "send" \in socket)
===============================================================================
