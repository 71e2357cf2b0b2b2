-------------------------------- MODULE Listener --------------------------------
(***************************************************************************)
(* Descriptors that reach a stream from outside: the connections of a      *)
(* listening socket (uv__server_io) and the descriptors sent over an IPC   *)
(* pipe (uv__stream_recv_cmsg).  Both wait in accepted_fd and queued_fds   *)
(* until uv_accept.  The process has a limit of descriptors, which its     *)
(* other threads share; loop->emfile_fd is a spare one to shed load with.  *)
(* Connections and sent descriptors are numbered as they come.             *)
(***************************************************************************)
EXTENDS Integers, Sequences, FiniteSets

CONSTANTS
  MaxSent,       \* bound: connections, or descriptors sent
  MaxMessage,    \* descriptors in one message
  FdLimit,       \* descriptors the process may have, the spare one included
  OtherFds,      \* bound: descriptors that other threads hold
  ListenAgain,   \* the user may call uv_listen a second time
  LateFailures   \* uv_accept may fail after connection_cb has returned

ASSUME ListenerAssumption ==
  /\ MaxSent \in Nat /\ MaxMessage \in Nat \ {0} /\ FdLimit \in Nat \ {0} /\ OtherFds \in Nat
  /\ ListenAgain \in BOOLEAN /\ LateFailures \in BOOLEAN

VARIABLES
  server_kind,   \* "listen", or "ipc" for a pipe
  server_at,     \* "new", "idle", "callback", "shedding", "aborted" or "closed"
  backlog,       \* what the kernel holds: messages of descriptors; a connection is one
  sent_fds,      \* how many were sent so far
  accepted_fd,   \* stream->accepted_fd, 0 for -1
  queued_fds,    \* stream->queued_fds
  pollin,        \* POLLIN is watched
  pipe_reading,  \* UV_HANDLE_READING of the pipe
  emfile_fd,     \* the loop holds its spare descriptor
  other_fds,     \* descriptors of other threads
  taken_fds,     \* history: what uv_accept gave out, in order
  user_fds,      \* those of them the user has not closed
  dropped_fds    \* history: descriptors libuv has closed

listenVars == <<server_kind, server_at, backlog, sent_fds, accepted_fd, queued_fds, pollin,
                pipe_reading, emfile_fd, other_fds, taken_fds, user_fds, dropped_fds>>
serverFdVars == <<accepted_fd, queued_fds, taken_fds, user_fds, dropped_fds>>

ListenerInit ==
  /\ server_kind \in {"listen", "ipc"} /\ server_at = "new"
  /\ backlog = <<>> /\ sent_fds = 0
  /\ accepted_fd = 0 /\ queued_fds = <<>>
  /\ pollin = FALSE /\ pipe_reading = FALSE
  /\ emfile_fd = TRUE /\ other_fds = 0
  /\ taken_fds = <<>> /\ user_fds = {} /\ dropped_fds = {}

Held == (IF accepted_fd = 0 THEN <<>> ELSE <<accepted_fd>>) \o queued_fds
UsedFds == Len(Held) + Cardinality(user_fds) + other_fds + (IF emfile_fd THEN 1 ELSE 0)
FdRoom == UsedFds < FdLimit

-----------------------------------------------------------------------------
(* The peers and the other threads                                          *)

SendFds(k) ==
  /\ server_at # "closed" /\ (server_kind = "listen" => server_at # "new")
  /\ sent_fds + k <= MaxSent
  /\ k <= (IF server_kind = "listen" THEN 1 ELSE MaxMessage)
  /\ sent_fds' = sent_fds + k
  /\ backlog' = Append(backlog, [i \in 1..k |-> sent_fds + i])
  /\ UNCHANGED <<server_kind, server_at, serverFdVars, pollin, pipe_reading, emfile_fd, other_fds>>

OtherThread ==
  /\ \/ FdRoom /\ other_fds < OtherFds /\ other_fds' = other_fds + 1
     \/ other_fds > 0 /\ other_fds' = other_fds - 1
  /\ UNCHANGED <<server_kind, server_at, backlog, sent_fds, serverFdVars, pollin, pipe_reading,
                 emfile_fd>>

-----------------------------------------------------------------------------
(* The user, in a callback of the stream or outside                         *)

UserMayCall == server_at \in {"new", "idle", "callback"}

\* uv_listen, uv__tcp_listen and uv__pipe_listen: the callback and POLLIN.
uv_listen ==
  /\ UserMayCall /\ server_kind = "listen"
  /\ server_at = "new" \/ ListenAgain
  /\ pollin' = TRUE
  /\ server_at' = IF server_at = "new" THEN "idle" ELSE server_at
  /\ UNCHANGED <<server_kind, backlog, sent_fds, serverFdVars, pipe_reading, emfile_fd, other_fds>>

\* uv_read_start and uv_read_stop of the pipe.
ReadStartStop(on) ==
  /\ UserMayCall /\ server_kind = "ipc" /\ pipe_reading # on
  /\ pipe_reading' = on /\ pollin' = on
  /\ server_at' = IF server_at = "new" THEN "idle" ELSE server_at
  /\ UNCHANGED <<server_kind, backlog, sent_fds, serverFdVars, emfile_fd, other_fds>>

\* What uv_accept leaves for the next call; it watches for more only if this
\* was the last, and never if the client could not be opened.
Shifted == Tail(queued_fds)
WatchesAgain(ok) == ok

uv_accept(ok) ==
  /\ UserMayCall /\ accepted_fd # 0
  /\ ok \/ LateFailures \/ server_at = "callback"
  /\ IF ok THEN /\ taken_fds' = Append(taken_fds, accepted_fd)
                /\ user_fds' = user_fds \cup {accepted_fd}
                /\ UNCHANGED dropped_fds
           ELSE /\ dropped_fds' = dropped_fds \cup {accepted_fd}
                /\ UNCHANGED <<taken_fds, user_fds>>
  /\ IF queued_fds # <<>>
       THEN accepted_fd' = Head(queued_fds) /\ queued_fds' = Shifted /\ UNCHANGED pollin
       ELSE /\ accepted_fd' = 0 /\ UNCHANGED queued_fds
            /\ pollin' = (pollin \/ WatchesAgain(ok))
  /\ UNCHANGED <<server_kind, server_at, backlog, sent_fds, pipe_reading, emfile_fd, other_fds>>

\* The user closes a stream that uv_accept opened.
CloseClient(fd) ==
  /\ UserMayCall /\ fd \in user_fds
  /\ user_fds' = user_fds \ {fd}
  /\ UNCHANGED <<server_kind, server_at, backlog, sent_fds, accepted_fd, queued_fds, taken_fds,
                 dropped_fds, pollin, pipe_reading, emfile_fd, other_fds>>

\* uv__stream_close closes what nobody has accepted; what stays in the backlog
\* has never reached the process.
LeftWithoutQueue == {accepted_fd} \ {0}
LeftForClose == {Held[i] : i \in 1..Len(Held)}

uv__stream_close ==
  /\ UserMayCall
  /\ server_at' = "closed"
  /\ dropped_fds' = dropped_fds \cup LeftForClose
  /\ accepted_fd' = 0 /\ queued_fds' = <<>>
  /\ pollin' = FALSE /\ pipe_reading' = FALSE
  /\ UNCHANGED <<server_kind, backlog, sent_fds, emfile_fd, other_fds, taken_fds, user_fds>>

-----------------------------------------------------------------------------
(* uv__server_io                                                            *)

Readable == server_at = "idle" /\ pollin /\ backlog # <<>>

\* It asserts that nothing is waiting for uv_accept.
uv__server_io ==
  /\ server_kind = "listen" /\ Readable
  /\ IF accepted_fd # 0
       THEN server_at' = "aborted" /\ UNCHANGED <<accepted_fd, backlog, emfile_fd>>
     ELSE IF FdRoom
       THEN /\ accepted_fd' = Head(backlog)[1] /\ backlog' = Tail(backlog)
            /\ server_at' = "callback"
            /\ UNCHANGED emfile_fd
       ELSE /\ emfile_fd /\ emfile_fd' = FALSE
            /\ server_at' = "shedding"
            /\ UNCHANGED <<accepted_fd, backlog>>
  /\ UNCHANGED <<server_kind, sent_fds, queued_fds, taken_fds, user_fds, dropped_fds, pollin,
                 pipe_reading, other_fds>>

\* uv__emfile_trick: connections are accepted and closed until there is none,
\* or another thread has taken the descriptor; then the spare one is opened.
Shed ==
  /\ server_at = "shedding" /\ backlog # <<>> /\ FdRoom
  /\ dropped_fds' = dropped_fds \cup {Head(backlog)[1]}
  /\ backlog' = Tail(backlog)
  /\ UNCHANGED <<server_kind, server_at, sent_fds, accepted_fd, queued_fds, taken_fds, user_fds,
                 pollin, pipe_reading, emfile_fd, other_fds>>

SpareReopened == FdRoom

ShedEnds ==
  /\ server_at = "shedding" /\ (backlog = <<>> \/ ~FdRoom)
  /\ emfile_fd' = SpareReopened
  /\ server_at' = "idle"
  /\ UNCHANGED <<server_kind, backlog, sent_fds, serverFdVars, pollin, pipe_reading, other_fds>>

\* connection_cb has returned: one that was not accepted stops the watcher.
StopsIfWaiting == pollin /\ ~(server_kind = "listen" /\ accepted_fd # 0)

ListenCallbackReturns ==
  /\ server_at = "callback"
  /\ server_at' = "idle"
  /\ pollin' = StopsIfWaiting
  /\ UNCHANGED <<server_kind, backlog, sent_fds, serverFdVars, pipe_reading, emfile_fd, other_fds>>

-----------------------------------------------------------------------------
\* uv__read of the pipe and uv__stream_recv_cmsg: the kernel installs what it
\* has room for, and from the first that uv__stream_queue_fd has no memory for
\* libuv closes them.
uv__stream_recv_cmsg ==
  /\ server_kind = "ipc" /\ Readable /\ pipe_reading
  /\ \E kept \in 0..Len(Head(backlog)) :
       LET m == Head(backlog)
           got == Held \o SubSeq(m, 1, kept)
       IN /\ UsedFds + kept <= FdLimit
          /\ kept = 0 => accepted_fd # 0 \/ ~FdRoom
          /\ accepted_fd' = IF got = <<>> THEN 0 ELSE Head(got)
          /\ queued_fds' = IF got = <<>> THEN <<>> ELSE Tail(got)
          /\ dropped_fds' = dropped_fds \cup {m[i] : i \in (kept + 1)..Len(m)}
  /\ backlog' = Tail(backlog)
  /\ server_at' = "callback"
  /\ UNCHANGED <<server_kind, sent_fds, taken_fds, user_fds, pollin, pipe_reading, emfile_fd,
                 other_fds>>

ListenerLoop == \/ uv__server_io \/ Shed \/ ShedEnds \/ ListenCallbackReturns
                \/ uv__stream_recv_cmsg

ListenerOver == server_at = "closed" /\ UNCHANGED listenVars

ListenerNext ==
  \/ ListenerOver \/ ListenerLoop \/ uv_listen \/ uv__stream_close \/ OtherThread
  \/ \E k \in 1..MaxMessage : SendFds(k)
  \/ \E on \in BOOLEAN : ReadStartStop(on) \/ uv_accept(on)
  \/ \E fd \in user_fds : CloseClient(fd)

ListenerSpec == ListenerInit /\ [][ListenerNext]_listenVars

-----------------------------------------------------------------------------
(* Properties *)

Increasing(s) == \A i, j \in 1..Len(s) : i < j => s[i] < s[j]

\* Every descriptor that reached the process is in one place, is handed out
\* once and in the order it came, or closed by libuv, whichever way the user
\* accepts in callbacks or later and whatever fails: none leaks, also when the
\* stream is closed with descriptors waiting.
DescriptorsInOrder ==
  LET waiting == UNION {{m[i] : i \in 1..Len(m)} : m \in {backlog[j] : j \in 1..Len(backlog)}}
      taken == {taken_fds[i] : i \in 1..Len(taken_fds)}
      held == {Held[i] : i \in 1..Len(Held)}
  IN /\ Increasing(taken_fds \o Held)
     /\ held \cap dropped_fds = {} /\ taken \cap dropped_fds = {}
     /\ taken \cup held \cup dropped_fds \cup waiting = 1..sent_fds
     /\ server_at = "closed" => held = {}
     /\ UsedFds <= FdLimit

\* A listening socket is watched exactly while no connection waits for
\* uv_accept: it never goes deaf, and uv__server_io never overwrites one.
ListensOn ==
  server_kind = "listen" /\ server_at = "idle" => (pollin <=> accepted_fd = 0)

\* The assertion of uv__server_io: nothing was accepted that still waits.
NothingOverwritten == server_at # "aborted"

\* What a listening stream, and an IPC pipe, promises: all of the above.
ListenerPromise == DescriptorsInOrder /\ ListensOn /\ NothingOverwritten
=============================================================================
