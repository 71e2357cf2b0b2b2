-------------------------------- MODULE Process --------------------------------
(***************************************************************************)
(* Child processes, unix/process.c: uv_spawn, uv_close and the reaping of  *)
(* children in uv__wait_children, which is told of exits by SIGCHLD (Linux)*)
(* or by kqueue (macOS).  The two queues are modelled by their pointers,   *)
(* because exit callbacks close handles that are in them.                  *)
(***************************************************************************)
EXTENDS Integers, FiniteSets

CONSTANTS
  Procs,           \* the uv_process_t
  ListHead,        \* loop->process_handles
  PendingHead,     \* pending of uv__wait_children
  PipeRoom         \* SIGCHLD messages that fit into the loop's signal pipe

ASSUME ProcessAssumption == ListHead # PendingHead /\ {ListHead, PendingHead} \cap Procs = {}
                            /\ PipeRoom \in Nat \ {0}

VARIABLES
  sigchld,         \* UV_USE_SIGCHLD; else kqueue
  proc_life,       \* of a handle: "none", "open", "closing" or "closed"
  proc_active,     \* the handles that are active
  proc_child,      \* its child: "none", "running", "zombie", "reaped" or "lost"
  next, prev,      \* the queue nodes
  exit_called,     \* history: how often its exit_cb was called
  child_watcher,   \* SIGCHLD is watched
  messages,        \* SIGCHLD messages in the pipe
  noted,           \* kqueue: registered for NOTE_EXIT, or the event is due
  reap, reap_loop, \* UV_HANDLE_REAP, UV_LOOP_REAP_CHILDREN
  proc_pc,         \* "loop", "wait" (the first loop of uv__wait_children),
                   \* "call" (the second) or "callback"
  proc_q           \* the node the loop goes on with

procVars == <<next, prev>>
kqueueVars == <<noted, reap, reap_loop>>
processVars == <<sigchld, proc_life, proc_active, proc_child, procVars, exit_called,
                 child_watcher, messages, kqueueVars, proc_pc, proc_q>>

QueueNodes == Procs \cup {ListHead, PendingHead}

ProcessInit ==
  /\ sigchld \in BOOLEAN
  /\ proc_life = [p \in Procs |-> "none"]
  /\ proc_active = {}
  /\ proc_child = [p \in Procs |-> "none"]
  /\ next = [n \in QueueNodes |-> n] /\ prev = [n \in QueueNodes |-> n]
  /\ exit_called = [p \in Procs |-> 0]
  /\ child_watcher = FALSE /\ messages = 0
  /\ noted = {} /\ reap = {} /\ reap_loop = FALSE
  /\ proc_pc = "loop" /\ proc_q = ListHead

-----------------------------------------------------------------------------
(* queue.h, on pairs of a next and a prev function                          *)

Links == [next |-> next, prev |-> prev]

RemovedNode(l, n) == [next |-> [l.next EXCEPT ![l.prev[n]] = l.next[n]],
                      prev |-> [l.prev EXCEPT ![l.next[n]] = l.prev[n]]]
InitedNode(l, n) == [next |-> [l.next EXCEPT ![n] = n], prev |-> [l.prev EXCEPT ![n] = n]]
AtTail(l, h, n) == [next |-> [l.next EXCEPT ![n] = h, ![l.prev[h]] = n],
                    prev |-> [l.prev EXCEPT ![n] = l.prev[h], ![h] = n]]
Relinked(l) == next' = l.next /\ prev' = l.prev

\* The nodes that are reached from a head, without it: they are in every set
\* that has the head and all that its members link to.
Reached(h) ==
  {n \in QueueNodes : \A S \in SUBSET QueueNodes : h \in S /\ (\A m \in S : next[m] \in S) => n \in S} \ {h}

-----------------------------------------------------------------------------
(* The user, in or out of an exit_cb                                        *)

ProcUserCode == proc_pc \in {"loop", "callback"}

\* uv_spawn of a child that runs; a fresh node is linked.  The child may have
\* ended before kqueue can be asked to tell.
uv_spawn(p) ==
  /\ ProcUserCode /\ proc_life[p] = "none"
  /\ proc_life' = [proc_life EXCEPT ![p] = "open"]
  /\ proc_active' = proc_active \cup {p}
  /\ Relinked(AtTail(InitedNode(Links, p), ListHead, p))
  /\ child_watcher' = sigchld
  /\ IF sigchld
       THEN proc_child' = [proc_child EXCEPT ![p] = "running"] /\ UNCHANGED kqueueVars
       ELSE \/ /\ proc_child' = [proc_child EXCEPT ![p] = "running"]
               /\ noted' = noted \cup {p}
               /\ UNCHANGED <<reap, reap_loop>>
            \/ /\ proc_child' = [proc_child EXCEPT ![p] = "zombie"]
               /\ reap' = reap \cup {p} /\ reap_loop' = TRUE
               /\ UNCHANGED noted
  /\ UNCHANGED <<sigchld, exit_called, messages, proc_pc, proc_q>>

\* The exec fails: the child is reaped at once, but SIGCHLD is watched.
SpawnFails ==
  /\ ProcUserCode /\ \E p \in Procs : proc_life[p] = "none"
  /\ sigchld /\ child_watcher' = TRUE
  /\ UNCHANGED <<sigchld, proc_life, proc_active, proc_child, procVars, exit_called, messages,
                 kqueueVars, proc_pc, proc_q>>

\* uv_close: uv__process_close stops the watcher with the last handle.
StopsWatcherTooSoon(l) == l.next[l.next[ListHead]] = ListHead
StopsWatcher(l) == l.next[ListHead] = ListHead

uv__process_close(p) ==
  /\ ProcUserCode /\ proc_life[p] = "open"
  /\ proc_life' = [proc_life EXCEPT ![p] = "closing"]
  /\ proc_active' = proc_active \ {p}
  /\ LET l == RemovedNode(Links, p)
     IN Relinked(l) /\ child_watcher' = (child_watcher /\ ~StopsWatcher(l))
  /\ UNCHANGED <<sigchld, proc_child, exit_called, messages, kqueueVars, proc_pc, proc_q>>

\* The close callback runs; what becomes of a child that was not reaped is not
\* the handle's concern any more.
uv__process_finish_close(p) ==
  /\ proc_pc = "loop" /\ proc_life[p] = "closing"
  /\ proc_life' = [proc_life EXCEPT ![p] = "closed"]
  /\ noted' = noted \ {p} /\ reap' = reap \ {p}
  /\ UNCHANGED <<sigchld, proc_active, proc_child, procVars, exit_called, child_watcher, messages,
                 reap_loop,
                 proc_pc, proc_q>>

-----------------------------------------------------------------------------
(* The system                                                               *)

\* A child ends.  One signal may stand for several, and a full pipe takes none.
ChildExits(p) ==
  /\ proc_child[p] = "running"
  /\ proc_child' = [proc_child EXCEPT ![p] = "zombie"]
  /\ messages' = IF child_watcher /\ messages < PipeRoom THEN messages + 1 ELSE messages
  /\ UNCHANGED <<sigchld, proc_life, proc_active, procVars, exit_called, child_watcher,
                 kqueueVars, proc_pc, proc_q>>

\* Somebody else waits for it.
Stolen(p) ==
  /\ proc_child[p] = "zombie"
  /\ proc_child' = [proc_child EXCEPT ![p] = "lost"]
  /\ UNCHANGED <<sigchld, proc_life, proc_active, procVars, exit_called, child_watcher, messages,
                 kqueueVars, proc_pc, proc_q>>

-----------------------------------------------------------------------------
(* The loop                                                                 *)

StartWaiting == proc_pc' = "wait" /\ proc_q' = next[ListHead]

\* uv__chld, for a message, unless the watcher was stopped.
uv__chld ==
  /\ proc_pc = "loop" /\ messages > 0
  /\ messages' = messages - 1
  /\ IF child_watcher THEN StartWaiting ELSE UNCHANGED <<proc_pc, proc_q>>
  /\ UNCHANGED <<sigchld, proc_life, proc_active, proc_child, procVars, exit_called,
                 child_watcher, kqueueVars>>

\* uv__io_poll of kqueue.c flags a handle that is still there.
NoteExit(p) ==
  /\ proc_pc = "loop" /\ p \in noted /\ proc_child[p] # "running"
  /\ noted' = noted \ {p}
  /\ IF p \in Reached(ListHead) THEN reap' = reap \cup {p} /\ reap_loop' = TRUE
                                ELSE UNCHANGED <<reap, reap_loop>>
  /\ UNCHANGED <<sigchld, proc_life, proc_active, proc_child, procVars, exit_called,
                 child_watcher, messages, proc_pc, proc_q>>

ReapChildren ==
  /\ proc_pc = "loop" /\ reap_loop
  /\ reap_loop' = FALSE
  /\ StartWaiting
  /\ UNCHANGED <<sigchld, proc_life, proc_active, proc_child, procVars, exit_called,
                 child_watcher, messages, noted, reap>>

\* uv__wait_children, first loop: waitpid for one handle.
WaitFor ==
  /\ proc_pc = "wait" /\ proc_q # ListHead
  /\ proc_q' = next[proc_q]
  /\ reap' = reap \ {proc_q}
  /\ IF proc_child[proc_q] = "zombie" /\ (sigchld \/ proc_q \in reap)
       THEN /\ proc_child' = [proc_child EXCEPT ![proc_q] = "reaped"]
            /\ Relinked(AtTail(RemovedNode(Links, proc_q), PendingHead, proc_q))
       ELSE UNCHANGED <<proc_child, procVars>>
  /\ UNCHANGED <<sigchld, proc_life, proc_active, exit_called, child_watcher, messages, noted,
                 reap_loop, proc_pc>>

WaitedForAll ==
  /\ proc_pc = "wait" /\ proc_q = ListHead
  /\ proc_pc' = "call" /\ proc_q' = next[PendingHead]
  /\ UNCHANGED <<sigchld, proc_life, proc_active, proc_child, procVars, exit_called,
                 child_watcher, messages, kqueueVars>>

\* Second loop: the node is taken out before the user is called.
TakenOutOnly(l, n) == RemovedNode(l, n)
TakenOut(l, n) == InitedNode(RemovedNode(l, n), n)

CallExit ==
  /\ proc_pc = "call" /\ proc_q # PendingHead
  /\ proc_q' = next[proc_q]
  /\ Relinked(TakenOut(Links, proc_q))
  /\ proc_active' = proc_active \ {proc_q}
  /\ exit_called' = [exit_called EXCEPT ![proc_q] = @ + 1]
  /\ proc_pc' = "callback"
  /\ UNCHANGED <<sigchld, proc_life, proc_child, child_watcher, messages, kqueueVars>>

ExitCbEnds ==
  /\ proc_pc = "callback"
  /\ proc_pc' = "call"
  /\ UNCHANGED <<sigchld, proc_life, proc_active, proc_child, procVars, exit_called,
                 child_watcher, messages, kqueueVars, proc_q>>

CalledAll ==
  /\ proc_pc = "call" /\ proc_q = PendingHead
  /\ proc_pc' = "loop"
  /\ UNCHANGED <<sigchld, proc_life, proc_active, proc_child, procVars, exit_called,
                 child_watcher, messages, kqueueVars, proc_q>>

ProcessLoop == \/ uv__chld \/ ReapChildren \/ WaitFor \/ WaitedForAll \/ CallExit \/ CalledAll
               \/ \E p \in Procs : NoteExit(p)

ProcessOver == (\A p \in Procs : proc_life[p] = "closed") /\ proc_pc = "loop" /\ UNCHANGED processVars

ProcessNext ==
  \/ ProcessOver \/ ProcessLoop \/ ExitCbEnds \/ SpawnFails
  \/ \E p \in Procs : \/ uv_spawn(p) \/ uv__process_close(p) \/ uv__process_finish_close(p)
                      \/ ChildExits(p) \/ Stolen(p)

ProcessSpec == ProcessInit /\ [][ProcessNext]_processVars

-----------------------------------------------------------------------------
(* Properties *)

\* Although exit callbacks spawn processes and close handles whose own exit is
\* pending, the loop's queue always holds exactly the processes to wait for,
\* uv__wait_children leaves its own queue empty (its last assertion), and no
\* child is reported twice.
ProcessQueues ==
  /\ \A n \in Reached(ListHead) \cup {ListHead} : prev[next[n]] = n
  /\ Reached(ListHead) = {p \in Procs : proc_life[p] = "open" /\ proc_child[p] # "reaped"}
  /\ proc_pc = "loop" => next[PendingHead] = PendingHead /\ prev[PendingHead] = PendingHead
  /\ \A p \in Procs : exit_called[p] <= 1

\* Every child that ends is reported, whether its signal was merged with
\* others, found the watcher just stopped and started, or came during the
\* callbacks of the one before; unless the handle is closed or another waits.
ExitsAreReported ==
  \A p \in Procs :
    []<>~(proc_child[p] \in {"zombie", "reaped"} /\ proc_life[p] = "open" /\ exit_called[p] = 0)
=============================================================================
