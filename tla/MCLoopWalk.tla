------------------------------ MODULE MCLoopWalk ------------------------------
(****************************************************************************)
(* Idle, prepare and check watchers, fs-poll handles, inotify, fs requests, *)
(* and consoles and TCP handles of Windows for TLC. A behaviour is about    *)
(* one of the components, its scene. Handles share the fields every handle  *)
(* has.                                                                     *)
(****************************************************************************)
EXTENDS EventLoop, FsPoll, Inotify, FsRequest, WinTty, WinTcp

CONSTANTS i1, i2, p1, fp, w1, w2, q1, q2

\* Kinds of the loop watchers, by name.
Kind == [h \in Watchers |-> IF h = p1 THEN "prepare" ELSE "idle"]

Errors1 == {-1}

walkSceneVars == <<timerVars, watcherVars, loopVars>>

VARIABLE scene   \* the component this behaviour is about; the others stand still

sceneVars == <<scene, handleVars, walkSceneVars, fsPollVars, inotifyVars, fsRequestVars, winTtyVars, winTcpVars>>

SceneInit ==
  /\ scene \in {"walk", "fs_poll", "inotify", "fs_request", "win_tty", "win_tcp"}
  /\ Init
  /\ (scene # "walk" => time = 0)
  /\ FsPollInit
  /\ InotifyInit
  /\ FsRequestInit
  /\ WinTtyInit
  /\ WinTcpInit
  /\ (scene # "win_tcp" => tcp_role = "server" /\ ~delayed_error)

Alone(s) ==
  /\ scene = s /\ UNCHANGED scene
  /\ (s # "walk" => UNCHANGED walkSceneVars)
  /\ (s # "fs_poll" => UNCHANGED fsPollVars)
  /\ (s # "inotify" => UNCHANGED inotifyVars)
  /\ (s # "fs_request" => UNCHANGED fsRequestVars)
  /\ (s # "win_tty" => UNCHANGED winTtyVars)
  /\ (s # "win_tcp" => UNCHANGED winTcpVars)
  /\ (s \in {"fs_request", "win_tty", "win_tcp"} => UNCHANGED handleVars)

SceneNext ==
  \/ Alone("walk") /\ Next
  \/ Alone("fs_poll") /\ FsPollNext
  \/ Alone("inotify") /\ InotifyNext
  \/ Alone("fs_request") /\ FsRequestNext
  \/ Alone("win_tty") /\ WinTtyNext
  \/ Alone("win_tcp") /\ WinTcpNext

\* In the scene of fs_poll: the loop runs, timers go off and stats end.
\* In the scene of fs_request: the loop looks at its ring, the kernel and the
\* threads work.
\* In the scene of win_tty: the loop goes on and takes what was posted in
\* each iteration, whatever the program calls between; the console answers.
\* In the scene of win_tcp: the loop runs; what was cancelled comes back, and
\* a zero read once there is something to read.
SceneFairness ==
  /\ WF_fsPollVars(scene = "fs_poll" /\ FsPollLoop)
  /\ \A k \in Contexts : WF_fsPollVars(scene = "fs_poll" /\ timer_cb(k))
  /\ \A k \in Contexts : WF_fsPollVars(scene = "fs_poll" /\ timer_close_cb(k))
  /\ \A k \in Contexts : WF_fsPollVars(scene = "fs_poll" /\ (poll_cb(k) \/ \E o \in Versions \cup Errors : Stat(k, o)))
  /\ WF_fsRequestVars(scene = "fs_request" /\ RingStep)
  /\ \A q \in FsReqs : WF_fsRequestVars(scene = "fs_request" /\ FsRequestStep(q))
  /\ WF_winTtyVars(scene = "win_tty" /\ TtyLoop)
  /\ WF_winTtyVars(scene = "win_tty" /\ ConsoleThread)
  /\ WF_winTcpVars(scene = "win_tcp" /\ TcpLoop)
  /\ WF_winTcpVars(scene = "win_tcp" /\ (ZeroReadEnds \/ \E q \in TcpReqs : Aborted(q)))
  /\ SF_winTtyVars(scene = "win_tty" /\ (LineRead \/ RawRead))

SceneSpec == SceneInit /\ [][SceneNext]_sceneVars /\ SceneFairness

-----------------------------------------------------------------------------
(* Properties *)

\* A handle that polled a file is closed although stats of several starts may
\* be in flight, and a file request is called back although the ring is full
\* or gives it back to the thread pool.
SceneProgress == FsPollCloses /\ FsRequestEnds
=============================================================================
