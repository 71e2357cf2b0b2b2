-------------------------------- MODULE Inotify --------------------------------
(***************************************************************************)
(* uv_fs_event_t on Linux: the part of unix/linux.c about inotify.  The    *)
(* kernel knows one watch descriptor per file, libuv a list of the handles *)
(* of each descriptor, and uv__inotify_read walks such a list while user   *)
(* callbacks start, stop and close its handles.                            *)
(***************************************************************************)
EXTENDS Handle, Queue

CONSTANTS
  Watching,    \* the uv_fs_event_t handles
  Paths,       \* the files, by path
  MaxWd,       \* bound: watch descriptors the kernel gives out
  MaxEvents,   \* bound: events that wait in the kernel
  MayFork      \* the process may fork, once, and go on in the child

ASSUME WatchingAssumption == Watching \subseteq Handles /\ MaxWd \in Nat \ {0}

VARIABLES
  kernel,      \* inotify: a path per watch descriptor it has
  next_wd,     \* inotify: descriptors are not soon used again
  events,      \* inotify: the descriptors of the events that can be read
  inotify_watchers, \* the tree: per wd its path, its handles and whether it is walked
  wd,          \* handle->wd, -1 if none
  batch,       \* uv__inotify_read: the events of buf still to be handled
  walked,      \* ... the descriptor whose list is walked, -1 if none
  todo,        \* ... the local queue of the walk
  in_event_cb, \* ... and whether a handle's callback runs
  owed,        \* history: the handles of the walk not yet called and not stopped
  forked,      \* the process is the child
  restart      \* uv__inotify_fork: the handles still to be started again, and their paths

kernelVars == <<kernel, next_wd, events>>
walkVars == <<batch, walked, in_event_cb>>
forkVars == <<forked, restart>>
inotifyVars == <<kernelVars, inotify_watchers, wd, walkVars, todo, owed, forkVars>>

InotifyInit ==
  /\ kernel = <<>> /\ next_wd = 1 /\ events = <<>>
  /\ inotify_watchers = <<>>
  /\ wd = [h \in Watching |-> -1]
  /\ batch = <<>> /\ walked = -1 /\ todo = <<>> /\ in_event_cb = FALSE /\ owed = {}
  /\ forked = FALSE /\ restart = <<>>

\* Functions with one more, or one less, descriptor.
With(f, d, v) == [e \in DOMAIN f \cup {d} |-> IF e = d THEN v ELSE f[e]]
Without(f, d) == [e \in DOMAIN f \ {d} |-> f[e]]

\* find_watcher.
Watched(d) == d \in DOMAIN inotify_watchers

-----------------------------------------------------------------------------
(* The kernel: a change of a watched file, and its deletion, which ends the *)
(* watch and tells so by one more event.                                    *)

FileEvent(d) ==
  /\ d \in DOMAIN kernel /\ Len(events) < MaxEvents
  /\ \/ events' = Append(events, d) /\ UNCHANGED kernel
     \/ events' = Append(events, d) /\ kernel' = Without(kernel, d)
  /\ UNCHANGED <<next_wd, inotify_watchers, wd, walkVars, todo, owed, forkVars, handleVars>>

\* inotify_add_watch gives the descriptor the file has, or a new one.
HasWd(p) == \E d \in DOMAIN kernel : kernel[d] = p
WdOf(p) == IF HasWd(p) THEN CHOOSE d \in DOMAIN kernel : kernel[d] = p ELSE next_wd

-----------------------------------------------------------------------------
(* The user's calls, in a callback or outside.                              *)

uv_fs_event_init(h) == HandleInit(h) /\ UNCHANGED inotifyVars

\* The list of the descriptor is found or made, and the handle put at its end.
Enlisted(lists, d, p, h) ==
  With(lists, d, IF d \in DOMAIN lists
                   THEN [lists[d] EXCEPT !.watchers = Append(@, h)]
                   ELSE [path |-> p, watchers |-> <<h>>, iterating |-> FALSE])

StartWatching(h, p) ==
  /\ HasWd(p) \/ next_wd < MaxWd
  /\ kernel' = With(kernel, WdOf(p), p)
  /\ next_wd' = IF HasWd(p) THEN next_wd ELSE next_wd + 1
  /\ inotify_watchers' = Enlisted(inotify_watchers, WdOf(p), p, h)
  /\ wd' = [wd EXCEPT ![h] = WdOf(p)]
  /\ HandleStart(h)
  /\ UNCHANGED <<events, walkVars, todo, owed, forked, life, ref>>

uv_fs_event_start(h, p) ==
  /\ life[h] = "open" /\ h \notin active
  /\ StartWatching(h, p)
  /\ UNCHANGED restart

\* maybe_free_watcher_list.
FreeableAtAnyTime(list) == list.watchers = <<>>
Freeable(list) == ~list.iterating /\ list.watchers = <<>>

ListsWithout(h) ==
  LET d == wd[h]
      rest == [inotify_watchers[d] EXCEPT !.watchers = Unlink(@, h)]
  IN IF Freeable(rest) THEN Without(inotify_watchers, d) ELSE With(inotify_watchers, d, rest)

\* inotify_rm_watch drops the events of the watch that are not read yet only
\* in libuv: they find no list.
KernelAfter(lists) == [d \in {e \in DOMAIN kernel : e \in DOMAIN lists} |-> kernel[d]]

StopWatching(h) ==
  IF h \in active
    THEN /\ inotify_watchers' = ListsWithout(h)
         /\ kernel' = KernelAfter(ListsWithout(h))
         /\ todo' = Unlink(todo, h)
         /\ wd' = [wd EXCEPT ![h] = -1]
    ELSE UNCHANGED <<inotify_watchers, kernel, todo, wd>>

uv_fs_event_stop(h) ==
  /\ life[h] = "open" /\ h \in active
  /\ StopWatching(h)
  /\ HandleStop(h)
  /\ owed' = owed \ {h}
  /\ UNCHANGED <<next_wd, events, walkVars, forkVars, life, ref>>

\* The loop's thread is not in uv__inotify_read or uv__inotify_fork.
LoopIsFree == walked = -1 /\ batch = <<>> /\ restart = <<>>

\* uv_close; the close callback ends it in a later step.
uv__fs_event_close(h) ==
  /\ life[h] = "open"
  /\ life' = [life EXCEPT ![h] = "closing"]
  /\ StopWatching(h)
  /\ HandleStop(h)
  /\ owed' = owed \ {h}
  /\ UNCHANGED <<next_wd, events, walkVars, forkVars, ref>>

FinishFsEvent(h) ==
  /\ life[h] = "closing" /\ LoopIsFree
  /\ life' = [life EXCEPT ![h] = "closed"]
  /\ HandleUnref(h)
  /\ UNCHANGED <<active, inotifyVars>>

InotifyUser ==
  /\ LoopIsFree \/ in_event_cb
  /\ \E h \in Watching : \/ uv_fs_event_init(h) \/ uv_fs_event_stop(h) \/ uv__fs_event_close(h)
                         \/ \E p \in Paths : uv_fs_event_start(h, p)

-----------------------------------------------------------------------------
(* uv__inotify_read.                                                        *)

ReadEvents ==
  /\ LoopIsFree /\ events # <<>>
  /\ batch' = events
  /\ events' = <<>>
  /\ UNCHANGED <<kernel, next_wd, inotify_watchers, wd, walked, todo, in_event_cb, owed, forkVars,
                 handleVars>>

\* An event without a list is stale; otherwise its list is marked and moved.
NextEvent ==
  /\ walked = -1 /\ batch # <<>>
  /\ batch' = Tail(batch)
  /\ LET d == Head(batch)
     IN IF Watched(d)
          THEN /\ walked' = d
               /\ todo' = inotify_watchers[d].watchers
               /\ inotify_watchers' = [inotify_watchers EXCEPT ![d].iterating = TRUE,
                                                               ![d].watchers = <<>>]
               /\ owed' = {h \in active \cap Watching : wd[h] = d}
          ELSE UNCHANGED <<walked, todo, inotify_watchers, owed>>
  /\ UNCHANGED <<kernelVars, wd, in_event_cb, forkVars, handleVars>>

CallHandle ==
  /\ walked # -1 /\ ~in_event_cb /\ todo # <<>>
  /\ todo' = Tail(todo)
  /\ inotify_watchers' = [inotify_watchers EXCEPT ![walked].watchers = Append(@, Head(todo))]
  /\ in_event_cb' = TRUE
  /\ owed' = owed \ {Head(todo)}
  /\ UNCHANGED <<kernelVars, wd, batch, walked, forkVars, handleVars>>

EventCallbackReturns ==
  /\ in_event_cb
  /\ in_event_cb' = FALSE
  /\ UNCHANGED <<kernelVars, inotify_watchers, wd, batch, walked, todo, owed, forkVars, handleVars>>

\* The walk is over, and the list may be freed now.
WalkDone ==
  /\ walked # -1 /\ ~in_event_cb /\ todo = <<>>
  /\ LET rest == [inotify_watchers[walked] EXCEPT !.iterating = FALSE]
         lists == IF Freeable(rest) THEN Without(inotify_watchers, walked)
                                    ELSE With(inotify_watchers, walked, rest)
     IN inotify_watchers' = lists /\ kernel' = KernelAfter(lists)
  /\ walked' = -1
  /\ UNCHANGED <<next_wd, events, wd, batch, todo, in_event_cb, owed, forkVars, handleVars>>

\* uv__inotify_fork, in the child: every handle is stopped, in the order of the
\* tree, and its path is kept; then it is started again, on a new inotify
\* descriptor without watches.  The first that fails leaves the rest stopped.
ListOf(h) == inotify_watchers[wd[h]]

Behind(g, h) ==
  \/ wd[g] < wd[h]
  \/ wd[g] = wd[h] /\ \E m, n \in 1..Len(ListOf(h).watchers) :
       m < n /\ ListOf(h).watchers[m] = g /\ ListOf(h).watchers[n] = h

InTreeOrder(order) == \A i, j \in 1..Len(order) : i < j => Behind(order[i], order[j])

uv__inotify_fork ==
  /\ MayFork /\ ~forked /\ LoopIsFree
  /\ forked' = TRUE
  /\ LET listed == active \cap Watching
     IN /\ \E order \in [1..Cardinality(listed) -> listed] :
             /\ InTreeOrder(order)
             /\ restart' = [i \in 1..Cardinality(listed) |-> <<order[i], ListOf(order[i]).path>>]
        /\ active' = active \ listed
        /\ active_handles' = active_handles - Cardinality(listed \cap ref)
  /\ wd' = [h \in Watching |-> -1]
  /\ kernel' = <<>> /\ next_wd' = 1 /\ events' = <<>>
  /\ inotify_watchers' = <<>>
  /\ UNCHANGED <<walkVars, todo, owed, life, ref>>

StartAgain ==
  /\ restart # <<>>
  /\ StartWatching(Head(restart)[1], Head(restart)[2])
  /\ restart' = Tail(restart)

StartAgainFails ==
  /\ restart # <<>>
  /\ restart' = <<>>
  /\ UNCHANGED <<kernelVars, inotify_watchers, wd, walkVars, todo, owed, forked, handleVars>>

InotifyFork == uv__inotify_fork \/ StartAgain \/ StartAgainFails

InotifyRead == ReadEvents \/ NextEvent \/ CallHandle \/ EventCallbackReturns \/ WalkDone

InotifyNext ==
  \/ InotifyUser \/ InotifyRead \/ InotifyFork
  \/ \E d \in 1..MaxWd : FileEvent(d)
  \/ \E h \in Watching : FinishFsEvent(h)

InotifySpec == NoHandles /\ InotifyInit /\ [][InotifyNext]_<<handleVars, inotifyVars>>

-----------------------------------------------------------------------------
(* Properties *)

\* The list that is walked is still there when the walk comes back to it, an
\* active handle is linked exactly once, under its own descriptor, and nothing
\* else is linked anywhere; a list, and a watch of the kernel, lives only while
\* it has a handle or is walked.  What uv__inotify_fork will start again is open
\* and stopped, and there once.
ListsSound ==
  /\ walked # -1 => Watched(walked) /\ inotify_watchers[walked].iterating
  /\ walked = -1 => todo = <<>>
  /\ \A d \in DOMAIN inotify_watchers :
       LET all == inotify_watchers[d].watchers \o (IF d = walked THEN todo ELSE <<>>)
       IN /\ Distinct(all)
          /\ {all[i] : i \in 1..Len(all)} = {h \in active \cap Watching : wd[h] = d}
          /\ all # <<>> \/ d = walked
  /\ \A h \in active \cap Watching : Watched(wd[h])
  /\ DOMAIN kernel \subseteq DOMAIN inotify_watchers
  /\ \A i, j \in 1..Len(restart) :
       /\ life[restart[i][1]] = "open" /\ restart[i][1] \notin active
       /\ restart[i][1] = restart[j][1] => i = j

\* An event reaches each handle that watched its file when the walk began,
\* once, unless it is stopped before its turn; one started meanwhile waits for
\* the next event.
EventReachesAll == owed = {todo[i] : i \in 1..Len(todo)}

\* What watching a path promises on Linux: both of the above.
InotifyPromise == ListsSound /\ EventReachesAll
=============================================================================
