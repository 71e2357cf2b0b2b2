-------------------------------- MODULE IoPoll --------------------------------
(***************************************************************************)
(* I/O watchers and epoll: uv__io_start and its kin (core.c), uv__io_poll  *)
(* and uv__platform_invalidate_fd (linux.c), and the kernel's side of it.  *)
(* EPOLL_CTL_ADD and _MOD that go through an io_uring are all flushed      *)
(* before epoll_pwait and fall back in the same way, so they are not told  *)
(* apart from those that do not.                                           *)
(***************************************************************************)
EXTENDS Integers, FiniteSets, Queue, FiniteSetsExt

CONSTANTS
  IoHandles,   \* the handles with a uv__io_t
  Fds,         \* the descriptor numbers
  Events,      \* POLLIN, POLLOUT, ... without POLLERR
  NULL,        \* the null pointer, also: not registered with epoll
  MaxEvents    \* ARRAY_SIZE(events) of uv__io_poll

\* A limit of the kernel's on descriptors; the table's length is a power of two less 2.
ASSUME FdsAssumption ==
  Fds \subseteq Nat /\ IsFiniteSet(Fds) /\ \A f \in Fds : f <= 2 ^ 30 - 3
ASSUME NullAssumption == NULL \notin IoHandles /\ \A mask \in SUBSET Events : mask # NULL
ASSUME EventsAssumption == "err" \notin Events /\ MaxEvents \in Nat \ {0}

VARIABLES
  fd,             \* w->fd, -1 if none
  events,         \* w->events
  pevents,        \* w->pevents
  watcher_queue,  \* loop->watcher_queue
  watchers,       \* loop->watchers
  nwatchers,      \* loop->nwatchers
  nfds,           \* loop->nfds
  pollpc,         \* uv__io_poll: "out", "register", "wait", "events", or "aborted"
  batch,          \* the rest of its events array (lfields->inv, while in "events")
  full,           \* the array was full: look for more
  files,          \* kernel: the open descriptors
  epoll,          \* kernel: what each open descriptor is registered for
  junk            \* kernel: descriptors that are closed here, but whose
                  \* description is open in another process and registered

tableVars == <<watcher_queue, watchers, nwatchers, nfds>>
pollVars == <<pollpc, batch, full>>
kernelVars == <<files, epoll, junk>>
ioVars == <<fd, events, pevents, tableVars, pollVars, kernelVars>>

IoInit ==
  /\ fd = [w \in IoHandles |-> -1]
  /\ events = [w \in IoHandles |-> {}]
  /\ pevents = [w \in IoHandles |-> {}]
  /\ watcher_queue = <<>>
  /\ watchers = [f \in Fds |-> NULL]
  /\ nwatchers = 0 /\ nfds = 0
  /\ pollpc = "out" /\ batch = <<>> /\ full = FALSE
  /\ files = {} /\ epoll = [f \in Fds |-> NULL] /\ junk = {}

-----------------------------------------------------------------------------
(* core.c.  A handle's memory, its fd and its masks change together.        *)

\* next_power_of_two and the length maybe_resize gives the table.
NextPowerOfTwo(n) == Min({p \in {2 ^ i : i \in 0..30} : p >= n})
Resized(f) == IF f + 1 <= nwatchers THEN nwatchers ELSE NextPowerOfTwo(f + 3) - 2

Enqueued(q, w) == IF Linked(q, w) THEN q ELSE Append(q, w)

fd_exists(f) == f < nwatchers /\ watchers[f] # NULL

\* Nothing is to do if the kernel knows the mask already.
uv__io_start(w, mask) ==
  LET pev == pevents[w] \cup mask
      new == events[w] # pev /\ watchers[fd[w]] = NULL
  IN /\ pevents' = [pevents EXCEPT ![w] = pev]
     /\ nwatchers' = Resized(fd[w])
     /\ watcher_queue' = IF events[w] = pev THEN watcher_queue ELSE Enqueued(watcher_queue, w)
     /\ watchers' = IF new THEN [watchers EXCEPT ![fd[w]] = w] ELSE watchers
     /\ nfds' = IF new THEN nfds + 1 ELSE nfds
     /\ UNCHANGED events

\* What uv__io_stop leaves of each part of the state.
Stops(w) == fd[w] # -1 /\ fd[w] < nwatchers
StopsAll(w, mask) == Stops(w) /\ pevents[w] \subseteq mask
Unwatches(w, mask) == StopsAll(w, mask) /\ watchers[fd[w]] = w

PeventsStopped(w, mask) == IF Stops(w) THEN pevents[w] \ mask ELSE pevents[w]
EventsStopped(w, mask) == IF StopsAll(w, mask) THEN {} ELSE events[w]
QueueStopped(w, mask) == IF ~Stops(w) THEN watcher_queue
                         ELSE IF StopsAll(w, mask) THEN Unlink(watcher_queue, w)
                         ELSE Enqueued(watcher_queue, w)
TableStopped(w, mask) ==
  IF Unwatches(w, mask) THEN [watchers EXCEPT ![fd[w]] = NULL] ELSE watchers
NfdsStopped(w, mask) == IF Unwatches(w, mask) THEN nfds - 1 ELSE nfds

uv__io_stop(w, mask) ==
  /\ pevents' = [pevents EXCEPT ![w] = PeventsStopped(w, mask)]
  /\ events' = [events EXCEPT ![w] = EventsStopped(w, mask)]
  /\ watcher_queue' = QueueStopped(w, mask)
  /\ watchers' = TableStopped(w, mask)
  /\ nfds' = NfdsStopped(w, mask)
  /\ UNCHANGED nwatchers

\* uv__platform_invalidate_fd: drop the events of f that uv__io_poll has not
\* handled yet, and EPOLL_CTL_DEL, which fails harmlessly if f is not there.
InvalidatedNot(f) == batch
Invalidated(f) ==
  [i \in DOMAIN batch |-> IF batch[i].fd = f THEN [batch[i] EXCEPT !.fd = -1] ELSE batch[i]]
Deleted(f) == IF f \in files THEN [epoll EXCEPT ![f] = NULL] ELSE epoll

invalidate_fd(f) == batch' = Invalidated(f) /\ epoll' = Deleted(f)

\* close(2), of a descriptor that another process may or may not share.  The
\* events of the old file that are still in the array become stale.
CloseFile(f, reg, evs) ==
  /\ files' = files \ {f}
  /\ epoll' = [reg EXCEPT ![f] = NULL]
  /\ junk' \in IF reg[f] = NULL THEN {junk} ELSE {junk, junk \cup {f}}
  /\ batch' = [i \in DOMAIN evs |->
                 IF evs[i].fd = f THEN [evs[i] EXCEPT !.stale = TRUE] ELSE evs[i]]

-----------------------------------------------------------------------------
(* uv__io_poll                                                              *)

Poll == /\ pollpc = "out"
        /\ pollpc' = "register"
        /\ UNCHANGED <<fd, events, pevents, tableVars, batch, full, kernelVars>>

\* Tell the kernel the new mask of one watcher: ADD, or MOD if it has been
\* told before; ADD of what it knows already falls back to MOD.
Register ==
  /\ pollpc = "register" /\ watcher_queue # <<>>
  /\ LET w  == Head(watcher_queue)
         ok == fd[w] \in files /\ (events[w] = {} \/ epoll[fd[w]] # NULL)
     IN /\ watcher_queue' = Tail(watcher_queue)
        /\ events' = [events EXCEPT ![w] = pevents[w]]
        /\ pollpc' = IF ok THEN pollpc ELSE "aborted"
        /\ epoll' = IF ok THEN [epoll EXCEPT ![fd[w]] = pevents[w]] ELSE epoll
  /\ UNCHANGED <<fd, pevents, watchers, nwatchers, nfds, batch, full, files, junk>>

Registered ==
  /\ pollpc = "register" /\ watcher_queue = <<>>
  /\ pollpc' = "wait"
  /\ UNCHANGED <<fd, events, pevents, tableVars, batch, full, kernelVars>>

\* What epoll_pwait may report: for a descriptor some of the events it is
\* registered for and errors, for a description elsewhere anything.
Event(f, mask, stale) == [fd |-> f, mask |-> mask, stale |-> stale]
Reports == {Event(f, m, FALSE) : f \in {g \in files : epoll[g] # NULL},
                                 m \in SUBSET (Events \cup {"err"})}
           \cup {Event(f, m, TRUE) : f \in junk, m \in SUBSET Events}
Possible(e) == e.mask # {} /\ (e.stale \/ e.mask \subseteq epoll[e.fd] \cup {"err"})

Harvest ==
  /\ pollpc = "wait" /\ nfds > 0
  /\ \E evs \in SeqOf({e \in Reports : Possible(e)}, MaxEvents) :
       /\ evs # <<>>
       /\ \A i, j \in DOMAIN evs : i # j => <<evs[i].fd, evs[i].stale>> # <<evs[j].fd, evs[j].stale>>
       /\ batch' = evs
       /\ full' = (Len(evs) = MaxEvents)
  /\ pollpc' = "events"
  /\ UNCHANGED <<fd, events, pevents, tableVars, kernelVars>>

\* Nothing is watched, the timeout passed, or a signal came.
Timeout == /\ pollpc = "wait"
           /\ pollpc' = "out"
           /\ full' = FALSE
           /\ UNCHANGED <<fd, events, pevents, tableVars, batch, kernelVars>>

\* The events a watcher is given.
Given(e) ==
  LET w == watchers[e.fd]
      m == e.mask \cap (pevents[w] \cup {"err"})
  IN IF m = {"err"} THEN m \cup pevents[w] ELSE m

Skipped ==
  /\ batch # <<>>
  /\ LET e == Head(batch)
     IN \/ e.fd = -1 /\ UNCHANGED epoll
        \/ e.fd # -1 /\ watchers[e.fd] = NULL /\ epoll' = Deleted(e.fd)
        \/ e.fd # -1 /\ watchers[e.fd] # NULL /\ Given(e) = {} /\ UNCHANGED epoll

Skip == /\ pollpc = "events"
        /\ Skipped
        /\ batch' = Tail(batch)
        /\ UNCHANGED <<fd, events, pevents, tableVars, pollpc, full, files, junk>>

\* A callback is due for w = watchers[fd].
Due == /\ pollpc = "events" /\ batch # <<>>
       /\ Head(batch).fd # -1 /\ watchers[Head(batch).fd] # NULL
       /\ Given(Head(batch)) # {}

\* If the array was full there may be more: look again, without blocking.
BatchDone ==
  /\ pollpc = "events" /\ batch = <<>>
  /\ \/ full /\ pollpc' = "wait" /\ UNCHANGED full
     \/ pollpc' = "out" /\ full' = FALSE
  /\ UNCHANGED <<fd, events, pevents, tableVars, batch, kernelVars>>

=============================================================================
