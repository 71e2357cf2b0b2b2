# Verification of the libuv core

This directory holds TLA+ models of the libuv that this repository packages (1.48), checked with
TLC, and theorems about them, checked with TLAPS. It follows the Linux build of
`src/Package.swift` first, and then the parts of macOS and Windows that have protocols of their own.
Paths below are relative to `src/Sources/SebbuCLibUV/src/`.

1. [The system](#1-the-system) - inventory of its parts
2. [The models](#2-the-models) - modules, and how they correspond to the code
3. [The runs](#3-the-runs) - what TLC checks, with which bounds
4. [Fairness and assumptions about the user](#4-fairness-and-assumptions-about-the-user)
5. [The proofs](#5-the-proofs)
6. [Where the code disagrees with its comments](#6-where-the-code-disagrees-with-its-comments)
7. [What is not modelled](#7-what-is-not-modelled)
8. [Plan](#8-plan)

## 1. The system

An event loop (`uv_loop_t`) belongs to one thread. Its user creates handles (long-lived: timers,
sockets, signals) and requests (one operation each), and runs the loop, which calls the user back.
Callbacks may call almost any function of the library on almost any handle. That is the first
source of difficulty, because a callback runs in the middle of a walk over a list it may change.
The others are the threads of the work pool, threads that call `uv_async_send`, signal handlers
that interrupt any thread, the kernel, and `fork`.

| Component | State | Operations | Interacts with | Hard | Correct means |
|---|---|---|---|---|---|
| Queue, `queue.h` | two pointers in each node | insert, remove, move | everything | a node is removed without naming its list | a node is in one list at most |
| Timer heap, `heap-inl.h` | left, right and parent pointers, a count | insert, remove | timers | the place of the last node is read from the bits of the count; removal of an inner node swaps it in | the pointers are a heap of exactly what was inserted |
| Thread pool, `threadpool.c` | global queue, slow queue, counters, `mutex`, per loop `wq`, `wq_mutex` | `uv__work_submit`, `worker`, `uv_cancel`, `uv__work_done`, cleanup | async handles (wakes the loop); all fs, dns, random and user work | cancel against two workers; a throttle for slow work; signal only if idle; exit | each request runs once or is cancelled, then its callback tells which; slow work leaves threads for CPU work |
| Async, `unix/async.c` | `pending`, `busy`, eventfd, list of handles | `uv_async_send`, `uv__async_io`, spin on close, stop, fork | thread pool, any thread, `uv__io_poll` | lock-free; a send may do nothing because another is under way; close frees memory | no lost wakeup; no write after close |
| Handles, `uv-common.h` | flags, `active_handles` | init, start, stop, ref, unref, close | all handles | four flags and one counter updated under different conditions | the counter is exact, so `uv_run` ends when it should |
| Timers, `timer.c` | heap, ready queue, `loop->time` | start, stop, again, repeat, run | `uv_run` | heap node and queue node share memory; wrap-around; callbacks that re-arm | go off in order, not early, once per pass |
| Idle, prepare, check, `unix/loop-watcher.c` | one list per kind | start, stop, run | `uv_run` | callbacks change the list being walked | each watcher is called once per walk, none after it was stopped |
| Event loop, `unix/core.c`, `unix/loop.c`, `uv-common.c` | `stop_flag`, closing list, pending queue | `uv_run`, `uv_stop`, `uv_close`, `uv_loop_close` | all | when may it block, and for how long | never blocks while something is to be done; each close callback once |
| I/O watchers, `unix/core.c`, `unix/linux.c` | masks `events`, `pevents`, table by descriptor, epoll set, its submission ring | `uv__io_start`, `_stop`, `_close`, `uv__io_poll`, `uv__epoll_ctl_prep`, `_flush` | streams, poll, signals, async | descriptor numbers are reused inside the array of events; a failed submission is retried inside the flush | no stale event; epoll knows what was asked |
| Poll handles, `unix/poll.c` | - | start, stop, close | I/O watchers, the user's descriptors | the user closes the descriptor | as above |
| Streams, `unix/stream.c`, `unix/tcp.c`, `unix/pipe.c` | three write queues, byte counts, flags, connect and shutdown request | connect, write, read, shutdown, close | I/O watchers, pending queue | partial writes, errors and callbacks in between | order, exact accounting, every request completes |
| Listening and IPC streams, `unix/stream.c` | `accepted_fd`, queued descriptors, the loop's spare descriptor | listen, `uv__server_io`, accept, receive descriptors | as streams; other threads' descriptors | the process runs out of descriptors; accepting later than the callback | every descriptor is given out in order, or closed |
| Signals, `unix/signal.c` | process-wide tree and lock pipe, per loop a pipe, two counters per handle | start, start_oneshot, stop, handler, dispatch, close | signal handlers on any thread, several loops | messages point to handles; disposition shared by all watchers | no message to freed memory; handler installed while needed |
| Processes, `unix/process.c` | queues of children; the descriptors that move into the child | spawn, exit, close | signals, kqueue, streams | one SIGCHLD for several children; exit callbacks that change the queue; a descriptor overwritten before it is used | each exit reported once; the child has what was asked for |
| UDP, `unix/udp.c` | two queues, counts | send, receive, close | I/O watchers | callbacks that send; batches; a buffer shared by the datagrams of a batch | order, every send completes, buffers come back |
| inotify, `unix/linux.c` | a list of handles per watch descriptor | start, stop, events, fork | `uv__io_poll` | a list is changed, or ends, while it is walked | every handle of the path hears of the event, none after it was stopped |
| fsevents, `unix/fsevents.c` | one stream of events for all handles, signals between two threads | start, stop, events, end | async handles, CoreFoundation | two mutexes and a semaphore between the loop and the CF thread | a stopped handle is forgotten before `uv_fs_event_stop` returns |
| fs polling, `fs-poll.c` | chain of contexts, each with timer and stat | start, stop, close | timers, thread pool | restart while a stat is in flight | contexts freed once, close waits for all, no change missed |
| File system requests, `unix/fs.c`, `unix/linux.c`, `uv-common.c` | paths, buffers, results that a request owns; the ring | submit, complete, clean up, scan, copy | thread pool, io_uring | what is owned depends on the stage; the ring is full; calls stop half way | memory is freed exactly once; a copy is complete or an error |
| Names and addresses, `idna.c`, `inet.c` | none | conversions | dns, Windows names | malformed texts, room in buffers | what the definitions of the encodings say |
| Windows loop, `win/core.c`, `req-inl.h`, `handle-inl.h`, `win/async.c` | completion port, circular list of requests, endgame list | `uv_run`, post, process, close | all of Windows | the list is walked while it grows; a handle ends only after its requests | no request is lost, handles close |
| Windows poll, `win/poll.c` | two requests with masks | start, stop, close | AFD driver, threads in `select` | a new request for new events while the old one is under way | asked events are waited for, told once |
| Windows pipes, `win/pipe.c` | read and write requests, threads, IPC frames | read, write, shutdown, close | threads blocked in `ReadFile` | cancelling a thread that may not have begun | nothing lost or doubled, the end last |
| Windows console, `win/tty.c` | read request, output lock, mode | read, stop, set mode, close | a thread in `ReadConsoleW` | a line is cancelled by pressing ENTER for the user | what is typed is read, in order; the lock is given back |
| Windows TCP, `win/tcp.c`, `win/stream.c` | accept requests with their sockets, pending reads, counts | listen, accept, connect, read, write, shutdown, close | completion port | reducing the accept requests to one; a socket that must outlive `uv_close` until its writes are back | counts are exact, a server is never deaf, nothing is left |
| Barriers and semaphores, `thread-common.c`, `unix/thread.c` | `in`, `out`; `value` | wait, destroy; post, wait, trywait | user threads | reuse while the last round is leaving; a signal only when the value becomes 1 | rounds do not mix; nobody sleeps while the value is positive |
| getaddrinfo, getnameinfo, random | a request each | submit, work, done | thread pool | life of memory | as thread pool |

The remaining files are system-call wrappers and pure functions (section 7). `PROJECT.json` lists
every component with its status and, under `hazards`, the places where this code is hard to test.

## 2. The models

| Module | Models | Abstract specification |
|---|---|---|
| `Queue` | `queue.h`, a list as the sequence of its nodes | |
| `Heap` | `heap-inl.h`, with its pointers | the definition of a heap |
| `ThreadPool` | `threadpool.c` | `WorkService`, refined at its end (`ImplementsService`) |
| `Async` | `unix/async.c` | `AsyncSignal`, refined at its end (`ImplementsSignal`) |
| `Handle` | the flags and counter of `uv-common.h` | |
| `Timer` (extends `Handle`) | `timer.c` | `Agenda`, refined at its end (`ImplementsAgenda`) |
| `EventLoop` (extends `Timer`) | `unix/loop-watcher.c`, `uv_run`, closing, `uv_loop_close` | |
| `IoPoll` | watchers in `unix/core.c`, `uv__io_poll` | |
| `PollHandle` (extends `IoPoll`) | `unix/poll.c`, with a stream as the other user of descriptors | |
| `EpollRing` | `uv__epoll_ctl_prep`, `uv__epoll_ctl_flush` | |
| `Stream` | connected streams, `uv__tcp_connect` | |
| `Listener` | listening streams and IPC pipes | |
| `Signal` | `unix/signal.c`, `uv__finish_close` for signals | |
| `Process` | children in the loop: `uv_spawn`, `uv__wait_children`, kqueue's `NOTE_EXIT` | |
| `Spawn` | descriptors of a child, by `fork` and by `posix_spawn` | |
| `Udp` | `unix/udp.c` | |
| `Inotify` | the inotify part of `unix/linux.c` | |
| `FsEvents` | `unix/fsevents.c` | |
| `FsPoll` (extends `Handle`) | `fs-poll.c` | |
| `FsRequest` | the life of a file request in `unix/fs.c`, `unix/linux.c`, `uv-common.c` | |
| `FsCopy` | `uv__fs_copyfile`, `uv__fs_sendfile` | |
| `Names` | `idna.c`, `inet.c` | the definitions of the encodings |
| `WinLoop` | the loop of Windows | |
| `WinPoll`, `WinPipe`, `WinTty`, `WinTcp` | `win/poll.c`, `win/pipe.c` (connected), `win/tty.c` (reading), `win/tcp.c` | |
| `Sync` | barriers of `thread-common.c`, `uv__custom_sem_*` of `unix/thread.c` | |
| `Lemmas`, `ThreadPoolProofs`, `AsyncProofs`, `LoopProofs`, `PollProofs`, `IoProofs`, `DescriptorProofs` | theorems (section 5); those of `Sync` are at its end | |
| `MC...` | constants for TLC | |

Definitions keep the names of the C functions and variables where there is one; an operator whose
name ends in something like `Forgotten`, `Twice` or `OffByOne` stands beside the definition it
distorts. It is used by no specification: it is the mutation under which a property must fail
(`mutants` in `PROJECT.json`).

**ThreadPool.** One action is one critical section or one step between two of them. A worker is
`scan`ning with `mutex` held, `parked` or `woken` in `uv_cond_wait`, in `run` outside all locks, in
`publish` waiting for `wq_mutex`, and in `send` inside `uv_async_send` with `wq_mutex` held.
Spurious wakeups are an action. `uv_cancel` takes both locks (`cancel`), then marks the request and
requeues it, as the code does after it has released them. `uv_once` and the semaphore in
`init_threads` are explicit. `uv_async_send` is what `AsyncSignal` promises: a wakeup flag that the
loop lowers before it looks.

**Async.** One action is one atomic operation of the code: the cheap read, the increment of `busy`,
the exchange of `pending`, the write to the eventfd, the decrement. The loop drains the eventfd,
moves the list to a local queue and visits one handle at a time. Closing raises `pending` and
spins on `busy`. The loop's own `wq_async` is never closed; `uv__async_stop` spins for it at the end.
`uv__async_fork` runs in a child where every other thread is gone.

**Handle, Timer, EventLoop.** `EventLoop` follows `uv_run` phase by phase (`at`); a
phase that calls back gives control to user code, which may call any of the operations before it
returns. The time advances when the code calls `uv__update_time`, by any amount. The heap is a set
with an order: what `timer.c` asks of it is its least element, which `Heap` checks of the pointers.
`start_id` is kept as a rank, because the code only compares it, and it would otherwise be unbounded.
I/O is a set of requests that complete while the loop polls or through the pending queue.

**IoPoll, PollHandle, EpollRing.** epoll is a map from descriptor *numbers* to masks; closing a file
removes its registration, unless another process shares the file (`junk`). An event in the array
carries `stale`, true once its file was closed. `EarlyClose` lets the user close a descriptor after
`uv_poll_stop` and before `uv_close`. `IoPoll` applies registrations before it waits; `EpollRing` shows
that this is what the submission ring achieves, where completions come out of order, an `ADD` that
finds its number taken is tried again as `MOD`, and the retry may fill the ring and flush it.

**Stream, Listener.** `pc` is a step of the function the loop called and `ret` the step to which a
callback returns, so a callback may call the stream again at every point where the code calls back.
The kernel takes any part of a request, none, or fails. The stream's descriptor is watched and fed
as `IoPoll` and `EventLoop` do it, which is all it sees of them. `Listener` is the other half of a
stream: descriptors come in, from `accept` or in messages, and wait for `uv_accept`; the table of the
process is full at times, because threads outside take numbers, also the one the spare
descriptor has just freed.

**Signal, Process.** One lock, two loops on two threads. The calls of the API block all signals and
hold the lock, so each is one step; the handler is not: it takes the lock, and for each watcher writes
a message and then counts it. The kernel resets a `SA_RESETHAND` disposition when it calls the
handler, before the handler has the lock. `lost` is a history variable. `Process` keeps the two queues
of `uv__wait_children` as pointers, because exit callbacks close handles that are in them.

**Spawn.** A table maps numbers to files. The parent makes pipes in the least free numbers; the child,
or the kernel on behalf of `posix_spawn`, moves them one by one; any call may fail, and numbers
run out. The promise (`SpawnPromise`) compares the child's table with what was asked for, and the
parent's with what it had. Its exceptions are named, and listed in section 6.

**Udp, Inotify, FsEvents, FsPoll.** Each is one handle type under a user who calls anything from any
callback. In `Udp` datagrams are numbers, sent singly or in batches. In `Inotify` the list of a path
is walked one handle at a time, with the user's code between; after `fork` all handles are stopped, with their
paths kept in `restart`, and started again one by one, as the code does. `FsEvents` has the steps of two threads
between their lock operations. In `FsPoll` a context is known by its number, the least free one, as
memory that is freed and allocated again.

**FsRequest, FsCopy.** `FsRequest` follows what a request owns (`path`, `bufs`, `ptr`) through each
way to serve it, and what `uv_fs_req_cleanup` then frees. Kinds that treat memory alike are one kind.
`FsCopy` has one action per system call of a copy; each may move less than it was asked to.

**Names, Heap.** Pure functions and a data structure. The "behaviours" build every input up to a
bound, and the invariant compares the result of the code with a definition that is written
independently: Unicode's table of well-formed sequences, the grammar of addresses, the shape of a heap.

**WinLoop, WinPoll, WinPipe, WinTty, WinTcp.** `WinLoop` has the list of requests with its `tail`, the eight
rounds of `uv_run`, and the endgames; its handles stand for all kinds. The other four show what one
kind of handle does with its requests; they see of the loop what `WinLoop` checks: a posted request is
processed once, and a handle is closed when none is pending. Threads of the system (in `select`,
`ReadFile`, `ReadConsoleW`) are steps of their own, and may be cancelled before, while or after they block.
`WinTcp` begins with a handle that is bound, or connected: the kernel has its accept requests, a zero
read, its writes; each comes back at any time, or is cancelled by `uv_close`.

**Sync** (barriers, semaphores)**.** One action is what a thread does between taking the mutex and giving it up. The
condition variable is the set of the threads that sleep and are not `woken`; anybody may wake for no reason.
`gathered` and `leaving` remember the threads of the round that forms and of the one that leaves.

### How the modules fit together

`ThreadPool` uses the loop only through `async_pending`, and `Async` shows (`ImplementsSignal`,
`SendReachesCallback`) that `uv_async_send` keeps that promise. `EventLoop` composes the handle types
that live entirely in the loop's thread. `PollHandle` composes poll handles and streams over the
descriptor table. `Stream`, `Udp`, `Listener`, `Signal` and `Process` see the loop through what `EventLoop` and
`IoPoll` check: a fed watcher is run in a later turn, a watched descriptor is reported, a closing
handle is finished. `FsRequest` sees the thread pool through what `WorkService` promises.

### Scenes

The modules for TLC check several components each. A behaviour is about one of them, its `scene`,
chosen at first; the variables of the others keep their values. The properties speak of all scenes,
and hold in those of the other components because nothing moves there. The state graph of an MC
module is so the disjoint union of the graphs of its components, and every component is checked
exactly as it would be alone. `SceneFairness` conjoins the fairness of each: a conjunct is guarded by its
scene, and one conjunct may be the disjunction of actions of several scenes, which means in each the
fairness of its own action.

## 3. The runs

| Run | Scenes and instance | Shows |
|---|---|---|
| `pool` | 3 workers, 2 loops, 1 CPU and 2 slow requests, resubmitted for ever | a request is in exactly one place, nothing given back is touched, cleanup leaves no work (`RequestsSafe`); nothing waits while nobody is on its way (`NothingWaitsInVain`); `SlowBound`; `CallbackTellsTruth`; the pool implements `WorkService` |
| `pool_live` | 2 workers, 1 loop, 1 CPU and 2 slow requests | CPU work completes even if slow work hangs; everything completes if it does not; cleanup ends |
| `async` | async: a user handle and `wq_async`, 2 threads and the loop. fs_copy: 3 units, every mixture of calls. fsevents: 2 handles. udp: 2 sends, receiving singly and in batches. barrier: 4 threads, rounds of 3. semaphore: 2 threads, one waiting at a time, values to 2 | no lost send, no write after the spin (`SendsSound`), exact `busy` (`BusyCount`), `ImplementsSignal`; a copy is exact or an error; a stopped fsevents handle is forgotten (`StoppedIsForgotten`); datagrams in order, none stalls, buffers come back (`UdpPromise`); rounds of a barrier do not mix, and nobody is inside when it is freed (`BarrierSafe`); no waiter of a semaphore sleeps in vain; in each scene, what was begun ends (`SceneProgress`) |
| `timers` | timer: 3 timers, times 0..2 that wrap. heap: 8 nodes. text: 4 characters in 3 forms. inet: texts and addresses. spawn: up to 4 slots, 2 pipes, 10 numbers | each timer once per pass, `ImplementsAgenda`; `HeapSound`; names, texts and addresses (`ConversionsAreExact`); `SpawnPromise` |
| `loop` | loop: a timer, an idle handle, a request, all run modes. win_pipe: 2 writes, a frame with a socket | closing once and surely, no blocking while there is work, `uv_stop` stops, timers go off; a Windows pipe loses nothing and ends last |
| `loop_walk` | walk: 2 idle watchers and a prepare watcher. fs_poll: 2 contexts. inotify: 2 handles, 2 paths, fork. fs_request: 2 requests, ring of 1. win_tty: 2 lines. win_tcp: 2 accept requests, 2 connections, 2 writes, 1 unit of data | exact `active_handles`, sound walks, no callback after `uv_close` (`WalksPromise`); no change of a file missed; every handle of a path hears; requests free exactly what they own; polling ends and requests are called back (`SceneProgress`); the console's lock is handed over; a TCP handle of Windows counts exactly, is never deaf, and leaves nothing behind (`WinTcpPromise`) |
| `poll_handles` | poll: 2 poll handles, a stream, 2 descriptor numbers, 2 events per array. ring: 3 descriptors, ring of 2. win_loop: 2 handles, 3 requests. win_poll: one handle, fast or slow | no stale event, epoll and table agree with what was asked; masks reach the kernel; a Windows poll handle is closed last, polls for all that is asked, and tells a submission once (`WinPollPromise`); Windows requests are not lost, handles close and asked events are told (`SceneProgress`) |
| `stream` | stream: 3 writes of 2 bytes, connect, shutdown, read, close. listen: 4 descriptors, a limit of 4 | exact byte and request counts, callbacks in order (`StreamPromise`), all requests complete; descriptors are given out in order or closed, and listening goes on after EMFILE |
| `signals` | signal: 2 loops with a handle each, one signal, a pipe of 2 messages. process: 2 children | no message outlives its handle, handler installed while watched, both queues of children hold what they should (`ProcessQueues`); everything caught is dispatched, each exit reported (`SceneProgress`) |
| `async_fork_in_callback` | fork inside a callback | violation of `BusyCount` (section 6) |
| `poll_early_close` | a poll handle and a stream, with `EarlyClose` | violation of `RegistrationSucceeds` (section 6) |
| `fs_copy_bad_unit` | the second of three units cannot be read | violation of `NothingSentTwice` (section 6) |

Bounds, and why they suffice.

- *Threads and requests.* Two loops and three workers are what the hand-over of a lock, a wakeup and
  the exit message need; with three workers the slow threshold is 2, where a worker may be at the
  threshold while another is leaving it. A request is resubmitted for ever, so a few stand for any
  number over time.
- *Async.* One outside thread is enough to be preempted anywhere; a second one shows that a send may
  rely on another that has not yet written.
- *Timers.* `MaxTime` 2 stands for 2^64 - 1. A timeout of 2 from any time but 0 wraps; the loop may
  start at any time. Three timers make ties, and re-arming between two others.
- *Heap.* Eight nodes make a tree of four levels; every place of removal, with the last node among
  the descendants of the removed one, beside them and next to it, occurs with three.
- *Texts.* Four bytes are the longest character. `Bytes`, `Characters` and `Units` hold the boundary of
  every range the code tests. Pieces of addresses make every arrangement of words, `::` and a tail of
  IPv4 that fits, and those that just do not.
- *Spawn.* Four slots are one more than the standard ones, and numbers run out at 9. `OpenTables` has
  the usual 0..2 with one more, and a process whose 0 and 1 are closed.
- *Loop.* `IntMax` 1 with a timeout of 2 makes the loop sleep twice. `PendingRounds` 1 stands for 8.
- *I/O.* A table of two numbers and an array of two events make reuse inside the array and the full
  array happen. A ring of two with three descriptors is flushed in between, and filled by retries.
- *Stream, UDP.* `MaxWrites` 1 stands for 32, so the third request is the one that is left over. Two
  bytes make partial writes. `MaxReads` 1 stands for 32. `SendBatch`, `Chunks` and `ReadBudget` 2 stand
  for 20, 20 and 32.
- *Listener.* `FdLimit` 4 leaves room for the socket, the spare descriptor and two more.
- *Signal, Process.* A pipe of two messages is full after two signals; a buffer of one is full after one.
- *FsPoll.* Two contexts are an old one and its successor. *FsRequest:* a ring of one is full when the
  second request comes, and a completion ring of one overflows.
- *Windows.* `Rounds` 1 stands for 8 and `PortBatch` 1 for 128, so both are exhausted. Two requests of one
  handle are what an endgame has to wait for. One direction of a full-duplex pipe at a time has two
  writes, both together have one (`DuplexWrites`), as the number of states is their product. `Simultaneous` 2
  stands for 32 accept requests, `ReadsInARow` 1 for 32 reads.
- *Barrier.* With four threads and rounds of three, one is always a newcomer that meets the old round.

Deadlock is checked in every run: what may stop for good stutters explicitly.

## 4. Fairness and assumptions about the user

Fairness is only assumed of what the system schedules.

- *Pool:* threads run, and a mutex is given to every thread that keeps asking (strong fairness; a
  pthread mutex with finitely many contenders). CPU work returns. Slow work may hang, except in the
  properties that name the premise `SlowWorkReturns`.
- *Async:* weak fairness of threads and loop; strong fairness of reading the eventfd, because the
  loop polls again and again.
- *Loop:* weak fairness of the loop's steps and of a user who calls `uv_run` again. The poll comes to
  an end and time goes on; it is strong fairness, because user callbacks come between.
  `uv__io_poll` bounds the events it takes at once.
- *Stream, UDP:* a fed watcher runs, a closing handle is finished, a writable descriptor that was asked
  for is reported, a connection succeeds or fails, and of infinitely many attempts to write some
  byte goes out or the write fails.
- *Signal, Process:* handlers get the lock, loops turn; conclusions are drawn only if signals stop.
- *FsEvents:* both threads run, and the loop calls what was sent to it. *FsPoll, FsRequest:* timers go
  off, stats end, threads work, the kernel answers what is in the ring.
- *Windows:* the loop goes on, threads run, and what was cancelled ends. A read of a pipe or console
  that was not cancelled may block for ever; the other end sends what it has.
- *Sync:* a thread that was woken gets the mutex at last.

Some users defeat liveness, or safety, without the model being of use for other questions; what they
do is left out by name. Each knob can be turned, and what the model then shows is listed here.

| Knob | Leaves out | With it TLC shows |
|---|---|---|
| `NoRecancel`, `CancelsFew` (`ThreadPool`) | cancelling a cancelled request for ever | its callback is postponed for ever |
| `LoopTurns` (`EventLoop`) | `uv_stop` before the first iteration, every time | nothing gets done |
| `Careful` (`Stream`) | `uv_shutdown` before the connect callback, a second connect after a refusal | a premature success of the connection, a shutdown that is never answered |
| `Careful` (`Signal`) | two one-shot watchers of one signal at a time | the handler is not installed (`signal.c:408`) |
| `ForkInCallback`, `EarlyClose` | - | runs of their own, section 6 |
| `ListenAgain`, `LateFailures` (`Listener`) | `uv_listen` on a stream that listens; a failing `uv_accept` outside the callback | the watcher is on while a descriptor waits, or off while none does (`ListenerPromise`) |
| `KeepsReading` (`Udp`) | stopping in the callback of a batch's datagram | the buffer is not given back, although `uv.h:670` says so |
| `SmallBuffers` (`Udp`) | a buffer too small for one datagram, with `recvmmsg` | nothing is received, and the loop spins |
| `StartOver` (`FsPoll`) | starting again while a stat is in flight | the timer of the old context goes on, and the assertion at `fs-poll.c:177` fails (`TimerOfNewest`) |
| `StatxLacking` (`FsRequest`) | a kernel that lacks `statx` but has the ring | memory of the retried request is not freed (`MemoryOwned`) |
| `CloseFails` (`FsCopy`) | errors of `close` | nothing new: what failed is removed, even a file copied to itself, which `CopyIsExact` permits |
| `AcceptAfterError` (`WinTcp`) | `uv_accept` after the connection callback was told of an error | accept requests are queued on a server that does not listen, against the assertion at `win/tcp.c:400` (`AcceptsWhileListening`) |
| `SemWaiters` (`Sync`), above 1 | two threads in `uv_sem_wait` | see section 6 |
| `CarefulStops` (`WinTty`) | cancelling a read whose mark would be lost or left | see section 6 |

Two contracts of the API are part of the models: memory of a closed async handle is not reused while
a thread is in `uv_async_send` on it, and a closing handle is not started.

## 5. The proofs

### The pool's threads (`ThreadPoolProofs`)

For every finite set of threads and all sets of loops and requests:

- `TypeCorrect`: `Spec => []TypeOK`. The two counters are unsigned in C; that they stay in `Nat`
  means that they never wrap.
- `SlowIOIsBounded`: `Spec => []SlowBound`. The counter is the number of workers with slow requests
  and at most half of the pool, rounded up.
- `IdleIsCounted`: `idle_threads` is the number of threads in `uv_cond_wait`.
- `OneLockAtATime`: the comment above `worker()`, that it never holds both mutexes.

`TypeOK` is not inductive: a decrement keeps the counter natural only because it counts something
that is there. The inductive invariant

    IndInv == TypeOK /\ Locals /\ Locks /\ IdleCount /\ SlowBound

adds what each thread's locals hold at each place (`Locals`), who holds which lock where (`Locks`) and
what is counted. `InitInv` shows `Init => IndInv`; `IndInv /\ [Next]_vars => IndInv'` is one lemma per
conjunct (`TypeStep`, `LocalsStep`, `LocksStep`, `IdleStep`, `SlowStep`) and inside each one step per
action, over lemmas on what `uv_cond_signal` does to the workers and on cardinalities that change by
one. A worker takes the slow path only below
the threshold with `mutex` held; that no other worker can be there at the same time is `Locks`.

The assumptions are those of `ThreadPool` (`ThreadsAssumption`, `WorkAssumption`, `NodesAssumption`,
`NamesAssumption`): the sets are what they are named, messages are not requests. TLC evaluates them.

`Lemmas` serves all the proofs. It says what the operations of `queue.h` do to a list of any nodes: they keep
its type and that it has no element twice, and where each element is afterwards. It also holds two forms of
induction without an operator for a parameter: the least element of a set of numbers (`LeastNat`), and
induction over `Nat` for a *set* (`SetInduction`), from the well-foundedness of `\subseteq` on finite sets; what
`Tail`, `Append` and concatenation do to the number of elements of a kind (`CountAppend`, `CountTail`); and that
a finite set with a strict order has exactly one sorted list, which insertion and `Unlink` keep sorted
(`SortedExists`, `SortedUnique`, `InsertUnlinked`, `UnlinkSorted`). Concatenation of lists has lemmas for its links, its
distinctness and its order (`ConcatLinks`, `ConcatIsDistinct`). Sums over a finite set, which the models
write as `FoldFunctionOnSet(+, ...)`, are what a total `SumOf` computes (`FoldIsSum`), one step of which is
shown by an induction over subsets (`SubsetInduction`): what a sum is after a summand has changed (`SumChanges`), gone
(`SumTakesOut`) or come (`SumWithOneMore`).

### Requests of the pool (`ThreadPoolProofs`)

- `RequestsAreSafe`: `Spec => []RequestsSafe`. A registered request is in exactly one queue, worker or
  call; nothing is used after it was given back; cleanup leaves no work.
- `NobodyWaitsInVain`: `Spec => []NothingWaitsInVain`. No wakeup of a worker or of a loop is lost.
- `CallbacksTellTruth`: `Spec => CallbackTellsTruth`.
- `PoolImplementsService`: `Spec => ImplementsService`.

Over `IndInv` comes a second invariant,

    ReqInv == Sorted /\ Tracked /\ Stages /\ LoopsSafe /\ SlowScheduled /\ EnoughAwake

`Tracked` names the places a request can be in and says that it is in one of them, and what is known of
it there: whether its work ran, whether a cancel succeeded. `Sorted` says that queues have no
duplicates and hold only what belongs there, without which taking a request out of one would not show
that it is gone. `Stages` holds what is true before the pool starts and while it is cleaned up, `LoopsSafe` the
same for a loop that is closed or holds its lock. `NothingWaitsInVain` says "somebody
is awake", which a step of that somebody may end; `EnoughAwake` puts a number in its place: the workers on
their way to the queue are at least as many as the nodes they may take, or nobody is parked. A worker
returning from slow work is not counted among them: it would look at the queue, but the code has
signalled for it anyway. The signal that `post` withholds when `idle_threads` is 0 is withheld rightly
because of `IdleCount`.

For the refinement every action maps to a step of `WorkService` for the request it moves (`Submit`, `Start`,
`Finish`, `Cancel`, `Deliver`) or to a stutter. That no more than `NThreads` run, and of slow ones no more than the
threshold, are injections from running requests to the workers that hold them.

### Async, fsevents and UDP (`AsyncProofs`)

- `SendsAreSafe`: `Spec => []SendsSound`, without a hypothesis, forks inside callbacks included.
- `BusyIsExact`: `ASSUME ~ForkInCallback PROVE Spec => []BusyCount`.
- `AsyncImplementsSignal`: `ASSUME ~ForkInCallback PROVE Spec => ImplementsSignal`.

The hypothesis of the last two leaves out what section 6, item 1, shows: after such a fork `busy` counts
threads that do not exist. The run `async_fork_in_callback` is the counterexample without it.

    AsyncInv == TypeOK /\ Lists /\ Places /\ Raised /\ Counted /\ NoLostSend /\ NoWriteAfterSpin

`Lists`: an open handle is on the loop's list or on the walk's queue, and nothing else is. `Places`: where the
loop's thread is determines what it holds. `Raised`: a thread inside `uv_async_send` with a handle that is not
open finds its flag up, so it writes nothing. `Counted`: `busy` is at least the number of threads
inside, which is all the spin needs; it is equal if no callback forks. The refinement maps a send to its exchange of
`pending`, and a callback to the exchange that lowers it.

The other two handles whose work is done by turns:

- `StoppedHandlesAreForgotten`: `FsEventsSpec => []StoppedIsForgotten`, for any handles.
- `UdpKeepsOrderAndGoesOn`: `UdpSpec => [](SendsInOrder /\ NothingStalls)`, for any requests and batch sizes.
- `UdpGivesBuffersBack`: `ASSUME KeepsReading PROVE UdpSpec => []BufferGivenBack`, and with it `UdpKeepsPromise`. The
  hypothesis is a knob of section 4; without it the buffer is lost.

      FsEventsInv == FsTypes /\ CfPlaces /\ StreamForgets /\ QueuesForget /\ OneAnswer
      UdpInv      == UdpTypes /\ SendsQueued /\ UdpPlaces /\ Watched /\ BufferHeld

`OneAnswer` is an equation: the closing signals that the CoreFoundation thread has not read, those it has read and
not done, and the posts of the semaphore are together one while the loop's thread waits, and none otherwise. So what the
loop takes from the semaphore is the answer to its own signal. `StreamForgets`: once the loop's thread may go on, and as soon
as the CoreFoundation thread has looked at the handles again, neither the stream nor the paths of the next one are of a
handle that was stopped; `QueuesForget`: nor is anything queued for one. In UDP the callbacks that ran, the completed queue and the write queue are one
list, cut in three (`SendsQueued`): whatever a callback sends goes to its end, and what moves, moves over a cut.

### The event loop (`LoopProofs`)

For any timers, watchers and requests, any finite set of handles, and a user who calls anything from any callback:

- `WatchersAreSound`: `Spec => []WatchersSound`. `active_handles` is the number of active handles with a
  reference; a walk visits no watcher twice, and an active watcher is linked exactly once.
- `HandlesCloseOnce`: `Spec => []ClosingOnce`. A closing handle is on one of the two closing lists, once.
- `LoopBlocksRightly`: `Spec => []BlocksOnlyWhenIdle`. The poll neither sleeps past a timer nor while another phase
  has work.
- `TimersAreLinkedRight`, `TimersGoOffOncePerPass`: `Spec => []NodeInOnePlace` and `Spec => OncePerPass`, of
  timers inside the loop and not alone, as the run `timers` has them.
- `TimersGoOffInOrder`: `Spec => FiresTheFirst`. The timer that goes off is due, and comes before every other that is
  armed, in the order of due time and then of start.
- `TimersImplementAgenda`: `Spec => ImplementsAgenda`. Every step of timers, heap, ready queue and closing handles is a
  step of the abstract agenda or leaves it as it is.
- `CallbacksOnlyWhileOpen`: `Spec => NoCallbackAfterClose`; and `LoopTypes`, `Spec => []TypeOK`.
- `WalksKeepPromise`, `TimersKeepPromise`: together, `Spec => WalksPromise` and `Spec => TimersPromise`.

The invariant is

    LoopInv == Handled /\ TimersPlaced /\ WatchersPlaced /\ ClosingPlaced /\ RequestsPlaced
               /\ Control /\ BlocksOnlyWhenIdle

The four `...Placed` say of each kind of thing that it is linked exactly where its flags say, and once: an active timer in the
heap, one that is due in the ready queue; an active watcher in its list or in the walk; a closing
handle on `closing_handles` or on the list being finished; a request in the pending queue or in its local copy. That is why a
callback may stop, close or start anything while a queue is walked. `Handled` is the exact count of active
handles together with "active handles are open": without it `uv_close` of a handle that had been
counted already would not be seen to bring the count back. `Control` is which phase `uv_run` is in and what is empty
there; a closed loop has nothing. `BlocksOnlyWhenIdle` follows at the one step that computes the
timeout (`PrepareDone`, by `TimeoutIsRight`): the heap's least element is least of all active timers because the
heap holds just these, and nothing that would make the timeout wrong happens before the poll. There is one lemma per conjunct
(`HandleStep`, `TimersStep`, `WatchersStep`, `ClosingStep`, `RequestsStep`, `ControlStep`, `BlockingStep`).

`TimersGoOffInOrder` rests on `TimersInOrder` besides: the ready queue is due, in order, and before all of the
heap, and no two timers have the same `start_id`. A timer that a callback starts is due no sooner than now and has the
greatest `start_id`, so it sorts behind whatever is in the queue (`ArmedIsLast`); `ClampedIs` shows that this holds for
a due time that would wrap as well.

The agenda is the ready queue followed by the heap in order, which `Timer` gives as the one sorted list of the armed
timers (`HeapOrderIs`, `OrderIs`). Since such a list is unique, a step of the agenda is shown by naming *a* sorted list of
the new armed timers: `Unlink` of what was stopped (`OrderWithout`), or insertion where the new timer belongs
(`OrderEntered`). Collecting what is due, where the code moves timer after timer from the heap to the queue, keeps the
list as it is (`OrderSame`), and `TimersInOrder` says that the timer that goes off is its head (`FireOnAgenda`).

### The submission ring and the poll handles, also of Windows (`PollProofs`)

`MasksAlwaysReachKernel`: `EpollRingSpec => []MasksReachKernel`, for any descriptors, masks and size of the ring.

    RingInv == RingTypes /\ RingRoom /\ OnceUnderWay /\ MasksRight /\ Phases

A descriptor is under way at most once, among submissions and completions taken together
(`OnceUnderWay`), and what is under way says the mask that is asked for (`MasksRight`). Submissions and
completions together never exceed the ring (`RingRoom`). Hence a flush from inside a flush, when retries fill
the ring, finds no completion of its caller's, and a slot of `prep` is not overwritten while it is
needed. `Phases` is what is left to do at each place. What a batch does is a recursive function over its
entries, and what it preserves is shown by `SetInduction`.

`PollHandlesAreSound`: with `~EarlyClose`, `Spec => [](PollSound /\ RegistrationSucceeds)` of `PollHandle`, for any
poll handles, streams, descriptors and events. Without that hypothesis it is false (section 6).

    PollInv == PollTypes /\ Owned /\ TableRight /\ KernelRight /\ BatchRight /\ PollPhases

`Owned`: an open handle has a descriptor that is open, and has it to itself. `TableRight`: `loop->watchers` has
just the handles that ask for something, each at its descriptor, within the table's length (which `ResizedFits`
shows), and `nfds` counts them. `KernelRight`: `w->events`, if not empty, is what epoll knows; a handle that asks for
something else is in `watcher_queue`; and epoll knows nothing of a descriptor that no open handle has. The last
part is what the others are for: with it a `close` leaves nothing behind in epoll (`junk` stays empty), and an
event that is left in the array is of a handle that is open (`BatchRight`). All operations that change
a mask are instances of one relation (`SetsMasks`) whose effect is shown once (`MasksKept`).

`WinPollKeepsPromise`: `WinPollSpec => WinPollPromise`, for any events and conditions of the socket, which may be
closed while it is polled.

    WinPollInv == WinPollTypes /\ PortRight /\ ClosedAsksNothing /\ OnePoll /\ ArmedFor /\ FirstLeaves
                  /\ NoneAfterClose /\ AllPolled

The driver has at most one of the two requests, and looks for what was submitted with it (`OnePoll`), as submitting
one sends the other back; so what is covered by submitted requests is polled for, or one of them is in the
port (`CoveredIsPolled`), and `PollProcessed` submits what is not covered. That being writable is told once rests on the order of
the port: of two requests that may both see that the socket is writable, the one that comes back first has it in
its mask (`FirstLeaves`). The mask of the other is not needed, and may in fact be overwritten; nor is it needed if a
submission has failed, which tells an error.

### Files and streams (`IoProofs`)

- `CopiesAreExact`: with `BadUnits = {}`, `FsCopySpec => []CopyIsExact`, for any sizes of the file and of the
  buffer. With a unit that cannot be read it is false (section 6).
- `InFlightIsExact`: `FsRequestSpec => []InFlightExact`, for any requests and sizes of the rings.
- `FsRequestsOwnTheirMemory`: with `~StatxLacking`, `FsRequestSpec => []MemoryOwned`. Without that
  hypothesis it is false (section 4). `FsRequestsKeepPromise` is both together.

    CopyInv   == CopyTypes /\ CopyPhases /\ CopyEnds /\ CopyMoves
    RingInv   == StageTypes /\ RingTypes /\ RingPlaces /\ Counts
    MemoryInv == FieldTypes /\ (\A q \in FsReqs : Right(q)) /\ wild = FALSE

`CopyMoves` says how far a copy is: the destination holds the source up to that point, the buffer of the
emulation holds what comes next, and the file position, where it counts, is the end of that. So it
does not matter at which unit `copy_file_range` or `sendfile` give up and the next way goes on. `RingPlaces`
says that a request of the ring is in one of its five places, once: submitted, in the kernel, among
the completions `uv__poll_io_uring` still handles, among those that came since it began, or in the
overflow. That makes the counters exact. `Right` says what the fields of a request say of each other and
which memory follows from them, so that `uv_fs_req_cleanup`, which sees only the fields, frees all that
is allocated and no more. A completion that is handled belongs to a request in the ring, therefore
`MemoryInv` rests on `RingInv`.

- `WatchersGetEvents`: `InotifySpec => []InotifyPromise`, for any handles, paths and watch descriptors.

      InotifyInv == InotifyTypes /\ (\A d : ListSound(d)) /\ DOMAIN kernel \subseteq DOMAIN inotify_watchers
                    /\ HandlesListed /\ WalkSound /\ RestartSound

The list of a watch descriptor and the queue on which it is being walked hold, together, each handle with that
descriptor exactly once (`ListSound`); an empty list exists only during its walk, so that a callback that stops the
last handle does not free the list under the walk. The queue holds just the handles that are still to hear of the
event (`WalkSound`): a handle stopped meanwhile has left both. `RestartSound` is about the handles that `uv__inotify_fork`
still has to start.

Polling a file, for any contexts, versions and errors:

- `PolledFilesAreReported`: `FsPollSpec => [](ContextsHeld /\ NothingMissed)`, also if the user starts again while
  stats are in flight.
- `OnlyTheNewestPolls`: with `~StartOver`, `FsPollSpec => TimerOfNewest`, the assertion of `timer_cb`; with it
  `FsPollKeepsPromise`. Without the hypothesis it is false (section 4).

      FsPollInv == PollTypes /\ ContextsPlaced /\ PollerWaits /\ NewestGoesOn /\ NothingMissed

A context is on the chain exactly while its stat is under way, its callback runs, or its timer is armed or closing, one at a time
(`ContextsPlaced`), therefore it is freed once and the one that leaves last finishes the handle. Under `~StartOver` whatever
is not closing is of the newest context, whose timer is armed only while the handle is active (`NewestGoesOn`).

Streams, for any write requests, any finite set of lengths, any bounds of the two loops, and any user, `Careful` or not:

- `StreamAccounts`: `Spec => [](TypeOK /\ Accounting)`.
- `StreamCallsBackInOrder`: `Spec => CallbacksInOrder`; `StreamKeepsPromise` is both together.

      StreamInv == StreamTypes /\ InterestType /\ CountInRange /\ ThreadIsSomewhere /\ ClosedIsQuiet
                   /\ RequestsWait /\ CountersAgree

The three queues, one behind the other, are one list without duplicates (`RequestsWait`): completing a request
moves it over the cut between two of them, and only the first of the list is ever called back. What is known of a
request depends on its queue: those that are still to be written have no error and something left, unless they are empty. `CountersAgree`:
`write_queue_size` is the sum of what the members of that list have left, `active_reqs` their number, with one for a shutdown and
one for a connection; the sum is treated by the lemmas on sums above. `ThreadIsSomewhere` is which function the
thread is in, with the place to which a callback will return; `ClosedIsQuiet`, that a stream whose `uv_close` was called has
no interest left and that nobody starts anything on it.

### Descriptors, children and signals (`DescriptorProofs`)

Listening streams and IPC pipes, for any limit of descriptors and any messages:

- `DescriptorsKeepOrder`: `ListenerSpec => []DescriptorsInOrder`, without a hypothesis: what was sent is in the kernel,
  held, taken, or closed, exactly one of them, and what is taken was sent before what is still held.
- `ListenersKeepPromise`: with `~ListenAgain` and `~LateFailures`, `ListenerSpec => []ListenerPromise`. Both are
  knobs of section 4: with them the promise is false.

      ListenInv == ListenTypes /\ QueueBehindAccepted /\ InOrderEach /\ InOrderAll /\ NoneLost /\ NumbersSuffice

`InOrderAll` is the order of the four places a descriptor goes through, `InOrderEach` the order in each, and
`QueueBehindAccepted` that descriptors are queued only behind one that is accepted. For the watcher of the
socket comes `WatchInv`: it is off exactly while a connection waits.

Children, for any list of containers and any open numbers:

- `ForkedChildrenGetTheirStdio`: `SpawnSpec => [](way = "fork" => SpawnPromise)`. The exceptions are those `SpawnPromise`
  names (section 6): `StreamTaken` and `ErrorInTheWay`.

      ForkInv == SpawnTypes /\ ParentInv /\ ChildInv /\ ResultInv

The child first moves every number that is below its slot out of the way (`UseSound`: afterwards the number for a slot
is not below it), therefore placing slot after slot overwrites only what is not used any more (`PlaceSound`).
`ParentInv` accounts for every number of the parent: an old one or an end of a pipe in its place. `ResultInv` relates
what the parent is told to what has become of the child. What `posix_spawn` does (`way = "posix_spawn"`) is only
model-checked: its list of file actions is executed by a recursive function that ends at the first that fails.

Children in the loop, for any number of them (`sigchld` or kqueue):

- `ProcessQueuesHold`: `ProcessSpec => []ProcessQueues`, without a hypothesis.

      ProcInv == ProcTypes /\ CallsRight /\ LoopQueueRight /\ WaitPhase /\ CallPhase

A queue of `queue.h` is a `Ring`: `next` and `prev` are inverse on its nodes, and no smaller set that has the head is
closed under `next`. Linking at the tail and taking out keep rings (`RingAdd`, `RingRemove`), and what a walk from the head
reaches is the ring (`RingReached`). Three sets tell where the node of an open handle is: in the loop's ring
(`Waited`), in that of `uv__wait_children` (`DueCalls`), or in none, linked to itself (`Called`). A closing handle keeps the pointers
it had. While the second loop runs, `q` may be such a handle: an exit callback closed the one to be called next.
`Emptying` says that those nodes lead, each to another and without coming back, to the first handle of the ring that is still
open; their callbacks are called although they are closing, but no callback is called twice.

Signals, for any finite set of handles, any loops and signals, and any size of pipe and buffer:

- `NoSignalToAStaleHandle`: `Spec => []NoStaleHandle`. A handle whose memory is given back has no message under way.
- `WatchedSignalsAreHandled`: with `Careful`, `Spec => []HandlerInstalled`. `Careful` leaves out a second one-shot watcher
  of a signal, with which it is false (section 4). `SignalsKeepPromise` is both together.

      StaleInv  == SignalTypes /\ WalkHolds /\ LoopHolds /\ Exact
      ServedInv == RegularServed /\ AllServed

`Exact`: the difference of `caught_signals` and `dispatched_signals` is the number of messages to the handle in the pipe and in
the buffer of its loop, less the one that the handler has written and not counted. That last message would deceive
`uv__finish_close`; but the handler holds the lock until it has counted, and what it visits watches the signal
(`WalkHolds`), so a handle that is closing has none. `AllServed` follows a one-shot watcher through what resets the
disposition: the signal was raised and its handler is to run, or has the handle before it, or has sent it a message.

### Barriers and semaphores (`Sync`)

- `BarrierIsSafe`: `BarrierSpec => []BarrierSafe`, for any threads and threshold. What makes it inductive
  (`DestroyedByOne`) is that only one thread calls `uv_barrier_destroy`, which is POSIX's rule.
- `OneWaiterIsWoken`: with `SemWaiters = 1`, `SemSpec => []NobodySleepsInVain`. With two waiters it is false
  (section 6).

### Assumptions, and what is only model-checked

The assumptions on constants are named in the modules that declare them and evaluated by TLC. Beyond what
sets are named for: threads are finitely many (`ThreadsAssumption`, `SendersAssumption`,
`BarrierAssumption`), so are the handles (`HandlesAssumption`, in `Async` those that the loop opens for itself);
timers and watchers are different handles (`WatchersAssumption`, `KindsAssumption`); times are numbers
and an `int` is not empty (`TimesAssumption`); lengths of writes are finitely many natural numbers (`LengthsAssumption`); `uv__run_pending` is called again at least once
(`RoundsAssumption`, 8 in the code); the ring has at least one slot (`EpollRingAssumption`);
descriptors are few and below 2^30 - 2, so that the table's length, a power of two less 2, fits (`FdsAssumption`);
`NULL` is neither a handle nor a mask (`NullAssumption`); limits and numbers of descriptors are natural
numbers, and what a process has open is below the last one (`ListenerAssumption`, `SpawnAssumption`); the barrier's threshold is positive, as `uv_barrier_init` demands.

Only model-checked:

- all liveness: TLAPS does not treat fairness and `ENABLED`;
- `SpawnPromise` of `posix_spawn`;
- Windows but for its poll handles;
- `HeapSound` and `ConversionsAreExact`: they are about recursive operators over bounded inputs.

## 6. Where the code disagrees with its comments

Three runs end in a violation.

1. `async_fork_in_callback`. `uv__async_fork` clears `busy` only of handles on `loop->async_handles`. If
   the fork happens in an async callback, the handles that `uv__async_io` has not visited are on its
   local queue and keep a count of threads that do not exist in the child. Closing one there spins
   for ever. The comment says "we just abruptly lost all other threads" and that the flags are
   cleared.
2. `poll_early_close`. `uv__poll_stop` deletes the epoll registration of its descriptor number even if
   the handle is stopped. If the number belongs to a stream by then, the stream's next change of
   mask is a `MOD` of nothing, and `assert(op == EPOLL_CTL_ADD)` fails.
3. `fs_copy_bad_unit`. `uv__fs_sendfile_emul` falls back from `pread` to `read` on `EIO` too. If the kernel
   has moved the first part of a file by its offsets and meets a bad block, `read` starts at the file
   position, which is still 0: the first part is written again, and the copy may be reported as a success.

Others were met while modelling, and stand as named exceptions of properties or as knobs.

`SpawnPromise` (`unix/process.c`) excepts, each by a definition of that name:
- `ScanSkips`: on macOS the search for an unused number starts again with `fd2 = 0`, and the loop then
  increments it, so slot 0 is not compared again. Asked for a pipe (numbers 3 and 4), 0 and 1, with 0..2 open,
  the child gets the parent's output as its input.
- `ErrorInTheWay`: after `fork`, the pipe that reports errors may have the number of a slot. The child
  overwrites it, and a failed `exec` is taken for a success; the comment at line 1020 says "Activate this
  handle if exec() happened successfully".
- `EndsInTheWay`: `posix_spawn`'s actions change `pipes`, the parent then closes by the changed number,
  which is not open, or another's, if the standard numbers were free.
- `StreamTaken`: one stream in two slots, or a connected one, is `UV_EBUSY`; the clean-up then closes what
  `uv__stream_close` has closed already.
- The mode of a file that the parent has at a number chosen for the child is changed in the parent
  (line 618); `ModesKept` is claimed of `fork` only.

`Names`: `uv__utf8_decode1` tests the top bits of the continuation bytes by their exclusive or, which lets `E2
41 41` pass, and takes a sequence that is cut off at the end for a shorter one. The comments at
lines 118 and 174 call these invalid, and legal. `TextsAreExact` claims exactness for well-formed texts.
`uv_wtf8_to_utf16` compares with `> 0x10000`, so it mishandles U+10000, and its assertion fails for U+10FFFF
(`Convertible`).

`WinTty`: if the program stops, starts and stops in the callback of a line, the second cancelling takes
`uv_tty_output_lock` and nobody gives it back; `CANCELLATION_PENDING` may be left when a raw read is
pending in normal mode, and the next line is swallowed; `uv_tty_set_mode` in a raw read's callback
with records left makes the loop itself block in `ReadConsoleInputW`. `CarefulStops` leaves these out.

`Sync`: `uv__custom_sem_post` signals only if the value becomes 1. If two threads wait and two posts
come before the first of them has woken, the second sleeps on while the value is 1; with
`SemWaiters` 2 TLC finds it as a violation of `NobodySleepsInVain`. The code is used with old versions
of glibc and on z/OS.

`WinPoll`: a slow handle asked for `UV_READABLE`, `UV_WRITABLE`, then `UV_DISCONNECT` while two requests are under
way meets `assert(0)` (`win/poll.c:353`); after an error the handle stays active with no events.

## 7. What is not modelled

The map covers less than a fifth of the implementation's lines. What is left falls into four kinds.

- *Declarations and data*: `win/winapi.h`, `win/winsock.h`, `uv.h`, the red-black tree of the BSDs, tables. They
  have no behaviour to check.
- *One call and its error*: most of `win/fs.c` and `unix/fs.c` (a switch of system calls, and
  conversions of what they return), `win/util.c`, `win/thread.c`, `unix/thread.c`, `unix/core.c` (paths, priorities,
  environment, resource usage), `unix/tcp.c` and `udp.c` (socket options), dynamic libraries, process titles,
  random, name resolution. A model would be the text of the function over again; what is
  concurrent about them is the thread pool, which is modelled.
- *Systems `src/Package.swift` does not build for*: AIX, OS/390, Haiku, Hurd, QNX, SunOS, the BSDs.
- *Not yet* (section 8).

In the components that are modelled:

- The weak ordering of atomics: they are interleaved in one order. The relaxed first load of
  `uv_async_send` could be discussed, not checked.
- In the pool: parsing of `UV_THREADPOOL_SIZE`, failing thread creation (it aborts), `reset_once` after
  `fork`. Slow requests that are pending when the library shuts down are dropped; the model does the
  same and no property forbids it (`threadpool.c:95`).
- In the loop: errors of `uv_loop_init`, `uv_loop_fork` as a whole, `uv_walk`, metrics, the rule that
  signal watchers are called last in a batch.
- In streams: blocking writes, `uv_try_write` (which changes nothing but the kernel's buffers), naming and
  connecting pipes, terminals.
- In signals: `fork`, and errors of `sigaction`.
- In processes: users, working directories and signals of the child, the search along `PATH`, `uv_kill`.
- In UDP: addresses, errors of binding, multicast, `uv_udp_try_send`.
- In file requests: what the operations do to files, `uv_fs_closedir`, the emulation of `preadv`.
- In watching files: event masks and names of files.
- In names: overflow of `delta` in Punycode.
- On Windows: timers in the loop (they are `timer.c`'s), the timeout arithmetic of `uv__poll`, UDP, processes,
  signals, directory watching; of pipes naming, connecting, accepting, blocking writes and
  handles that cannot join the port; of consoles the output with its escape sequences; of TCP sockets
  shared with other processes, `uv_tcp_close_reset`, and the emulation of completion ports.
- In threads: all that is one call of pthreads.

## 8. Plan

Done: thread pool, async, handles, timers with their heap, watchers, loop, I/O watchers with the
submission ring, poll handles, streams, listeners, signals, processes with spawning, UDP, inotify,
fsevents, fs-poll, file requests and copies, names and addresses; on Windows the loop, poll
handles, connected pipes, reading from consoles and TCP; barriers and semaphores; the theorems of section 5.

Next models, in this order. They share the runs there are, as scenes.

1. `WinUdp`, like `WinTcp`.
2. `WinProcess`: the wait callback against `uv_close`; `WinSignal`, `WinFsEvent`.
3. `WinTtyOut`: the parser of escape sequences and the virtual window.
4. `LoopInit` (error paths), `LoopFork`, and unix pipes and terminals.
5. `QueuePointers`, `queue.h` against sequences.

Next theorems, in this order.

1. `Spawn`: the promise of `posix_spawn`.
2. `WinLoop`, `WinTcp`: their counts.
